------------------------------- MODULE Machine -------------------------------
(***************************************************************************)
(* src/vm.c, the parsing machine, driven by the operations of src/peg.c:   *)
(* load a program, parse a subject, edit it, parse it again reusing the    *)
(* memoized results, extract the captures of a window.  Any program can be *)
(* loaded; Parser loads what Compiler and Encoder make of a pattern.       *)
(*                                                                         *)
(* One action per instruction; failure unwinding is a mode, one popped     *)
(* stack entry per step.  The machine runs to completion inside vm_exec,   *)
(* so client calls happen in mode "idle" only.                             *)
(*                                                                         *)
(*   - The subject is read at an offset: the 4 KB chunk cache of the input *)
(*     is the subject of Input.                                            *)
(*   - Captures are values, not shared counted objects.  An entry of the   *)
(*     table keeps their offsets relative to its own start, which is how   *)
(*     memo.c makes them move with it.                                     *)
(*   - The first element of the stack stands for the list of captures      *)
(*     below every entry; it is never popped.                              *)
(*   - An operator X with Fault or Stuck after its name is a wrong version *)
(*     of X; no specification uses it (see the README).                    *)
(***************************************************************************)
EXTENDS MemoTable, Assertions, SequencesExt, FiniteSetsExt

CONSTANTS
    Grammars,       \* what parsers are made for: a sequence of records
                    \*   subjects    texts given to peg_parse
                    \*   edits       given to peg_edit, [start, end, new]
                    \*   windows     given to peg_capture_interval, [low, high]
    Relocated(_, _),    \* a list of captures, moved by an amount
    Unregistered,   \* a checker that is NULL
    Whole,          \* no window: the whole subject
    NoProgram,      \* no program has been made
    NoResult,       \* nothing has been parsed since the last edit
    MaxText         \* bound: length of an edited subject

VARIABLES
    gi,             \* the grammar of this parser object, an index
    code,           \* its program, or NoProgram
    text, table,    \* as in Peg
    mode,           \* "new", "rejected" (no parser), "idle", "run",
                    \*   "fail" (unwinding) or "abort"
    ip,             \* the next instruction
    pos,            \* the current offset
    furthest,       \* the furthest offset ever read
    stack,          \* the entries; the first is the final capture list
    window,         \* the window of this pass, or Whole
    caprange,       \* of a windowed pass: what the captures it built cover
    errs,           \* recorded parse errors, [pos, msg]
    result          \* the result of the last pass, or NoResult

machine == <<mode, ip, pos, furthest, stack, window, caprange, errs, result>>
vars == <<gi, code, text, table, machine>>

(* As a definition without parameters, TLC evaluates it once.              *)
Given == Grammars
Grammar == Given[gi]

(* The texts of the clients and the bytes that occur in them.              *)
Texts ==
    UNION {Given[n].subjects \union {e.new : e \in Given[n].edits} : n \in DOMAIN Given}
Bytes == UNION {Range(t) : t \in Texts}

ASSUME ClientAssumption ==
    /\ EOF \notin Bytes /\ Threshold \in Int /\ NoProgram # NoResult
    /\ \A t \in Texts : t \in Seq(Bytes)
    /\ \A n \in DOMAIN Given :
         /\ \A e \in Given[n].edits : e.start \in Nat /\ e.end \in Nat
         /\ \A w \in Given[n].windows : w.low \in Nat /\ w.high \in Nat

In == code.prog[ip + 1]

---------------------------------------------------------------------------
(* Stack and captures.                                                     *)

StackEntry(kind, to, at, id, count) ==
    [kind |-> kind, ip |-> to, pos |-> at, id |-> id, count |-> count,
     capt |-> <<>>]

Base == StackEntry("base", 0, 0, 0, 0)
push_ret(to) == Append(stack, StackEntry("ret", to, 0, 0, 0))
push_btrackFault(to, at) == Append(stack, StackEntry("btrack", to + 1, at, 0, 0))
push_btrack(to, at) == Append(stack, StackEntry("btrack", to, at, 0, 0))
push_memo(id) == Append(stack, StackEntry("memo", 0, pos, id, 0))
push_memotreeFault(id, count) == Append(stack, StackEntry("memotree", 0, pos, id, 0))
push_memotree(id, count) == Append(stack, StackEntry("memotree", 0, pos, id, count))
push_capt(id, at) == Append(stack, StackEntry("capt", 0, at, id, 0))
push_check(id, flag) == Append(stack, StackEntry("check", 0, pos, id, flag))

Top == Last(stack)
TopIs(kind) == Top.kind = kind

stack_add_capt(st, capts) == [st EXCEPT ![Len(st)].capt = @ \o capts]

stack_popStuck(st, propagate) ==
    IF propagate THEN stack_add_capt(Front(st), Last(st).capt) ELSE st

(* Pop the top entry; with propagate its captures go one level up.         *)
stack_pop(st, propagate) ==
    IF propagate THEN stack_add_capt(Front(st), Last(st).capt) ELSE Front(st)

(* Move the top entry's captures one level down; the entry stays.          *)
stack_prop_capt(st) ==
    [st EXCEPT ![Len(st) - 1].capt = @ \o Last(st).capt,
               ![Len(st)].capt = <<>>]

memo_capture_node(id, off, len, kids) ==
    [id |-> id, off |-> off, len |-> len, kids |-> kids]

(* A dummy is a transparent wrapper, told from a node by an id that is no  *)
(* 16-bit number.                                                          *)
DummyId == -32769
memo_capture_dummy(off, len, kids) == memo_capture_node(DummyId, off, len, kids)

---------------------------------------------------------------------------
(* Input and memoization.                                                  *)

(* input_peek and input_span move the tracker to the offset they read,     *)
(* also at the end of the subject.  input_advance does not move it.        *)
TrackRead(at) == IF at > furthest THEN at ELSE furthest

Peek == ByteAt(text, pos)

windowed == window # Whole

InWindowFault(low, high) == windowed => window.low <= low /\ high <= window.high

(* Captures outside the window are not built.                              *)
InWindow(low, high) == windowed => window.low < high /\ window.high > low

memoizeFault(id, start, length, count, capts) ==
    LET res == [count |-> count, capt |-> Relocated(capts, -start)]
    IN  IF windowed THEN table
        ELSE memo_table_put(table, text, id, start, length, pos - start + 1, res)

(* The table after recording a result of rule id from start to here.       *)
memoize(id, start, length, count, capts) ==
    LET last == IF furthest > pos THEN furthest ELSE pos
        res  == [count |-> count, capt |-> Relocated(capts, -start)]
    IN  IF windowed THEN table
        ELSE memo_table_put(table, text, id, start, length,
                            last - start + 1, res)

---------------------------------------------------------------------------
(* The instructions.  Op(name) is the loop fetching one; Goto(l) and Step  *)
(* continue with the loop, Fail with the unwinding.                        *)

Op(name) == mode = "run" /\ In.op = name
Goto(l) == ip' = l /\ UNCHANGED mode
Step == Goto(ip + 1)
Fail == mode' = "fail" /\ UNCHANGED ip
Abort == mode' = "abort" /\ UNCHANGED ip

(* What no instruction changes, but the two that build captures.           *)
idleVars == <<gi, code, text, window, caprange, result>>

(* CHAR and SET.                                                           *)
Consume ==
    /\ furthest' = TrackRead(pos)
    /\ IF Peek \in In.set THEN pos' = pos + 1 /\ Step
                          ELSE UNCHANGED pos /\ Fail
    /\ UNCHANGED <<idleVars, table, stack, errs>>

VM_CHAR == Op("CHAR") /\ Consume
VM_SET == Op("SET") /\ Consume

VM_JUMP ==
    /\ Op("JUMP") /\ Goto(In.a)
    /\ UNCHANGED <<idleVars, table, pos, furthest, stack, errs>>

VM_CHOICE ==
    /\ Op("CHOICE") /\ stack' = push_btrack(In.a, pos) /\ Step
    /\ UNCHANGED <<idleVars, table, pos, furthest, errs>>

VM_CALL ==
    /\ Op("CALL") /\ stack' = push_ret(ip + 1) /\ Goto(In.a)
    /\ UNCHANGED <<idleVars, table, pos, furthest, errs>>

VM_COMMIT ==
    /\ Op("COMMIT")
    /\ IF TopIs("base") THEN Abort /\ UNCHANGED stack
                        ELSE stack' = stack_pop(stack, TRUE) /\ Goto(In.a)
    /\ UNCHANGED <<idleVars, table, pos, furthest, errs>>

VM_RETURN ==
    /\ Op("RETURN")
    /\ IF TopIs("ret") THEN stack' = stack_pop(stack, TRUE) /\ Goto(Top.ip)
                       ELSE Abort /\ UNCHANGED stack
    /\ UNCHANGED <<idleVars, table, pos, furthest, errs>>

VM_FAIL ==
    /\ Op("FAIL") /\ Fail
    /\ UNCHANGED <<idleVars, table, pos, furthest, stack, errs>>

(* A failed advance has moved the offset past the end.                     *)
VM_ANY ==
    /\ Op("ANY")
    /\ pos' = pos + In.a
    /\ IF pos' <= Len(text) THEN Step ELSE Fail
    /\ UNCHANGED <<idleVars, table, furthest, stack, errs>>

VM_PARTIAL_COMMIT ==
    /\ Op("PARTIAL_COMMIT")
    /\ IF TopIs("btrack")
         THEN /\ stack' = stack_prop_capt([stack EXCEPT ![Len(stack)].pos = pos])
              /\ Goto(In.a)
         ELSE Abort /\ UNCHANGED stack
    /\ UNCHANGED <<idleVars, table, pos, furthest, errs>>

VM_SPAN ==
    /\ Op("SPAN")
    /\ \E p \in pos .. Len(text) :
         /\ \A q \in pos .. p - 1 : ByteAt(text, q) \in In.set
         /\ ByteAt(text, p) \notin In.set
         /\ pos' = p
    /\ furthest' = TrackRead(pos')
    /\ Step
    /\ UNCHANGED <<idleVars, table, stack, errs>>

VM_BACK_COMMIT ==
    /\ Op("BACK_COMMIT")
    /\ IF TopIs("btrack")
         THEN stack' = stack_pop(stack, TRUE) /\ pos' = Top.pos /\ Goto(In.a)
         ELSE Abort /\ UNCHANGED <<stack, pos>>
    /\ UNCHANGED <<idleVars, table, furthest, errs>>

VM_FAIL_TWICE ==
    /\ Op("FAIL_TWICE")
    /\ stack' = IF TopIs("base") THEN stack ELSE stack_pop(stack, FALSE)
    /\ Fail
    /\ UNCHANGED <<idleVars, table, pos, furthest, errs>>

(* Looks at both neighbours of the offset, without the tracker.            *)
VM_EMPTY ==
    /\ Op("EMPTY")
    /\ IF In.a \intersect
            empty_op_context(Neighbour(text, pos), Neighbour(text, pos + 1)) # {}
         THEN Step ELSE Fail
    /\ UNCHANGED <<idleVars, table, pos, furthest, stack, errs>>

(* The variants of TEST_CHAR and TEST_SET that leave no choice point.      *)
TestNoChoice ==
    /\ furthest' = TrackRead(pos)
    /\ IF Peek \in In.set THEN pos' = pos + 1 /\ Step
                          ELSE UNCHANGED pos /\ Goto(In.a)
    /\ UNCHANGED <<idleVars, table, stack, errs>>

(* TEST_CHAR and TEST_SET: consume and leave a choice point, or jump.      *)
TestChoice ==
    /\ furthest' = TrackRead(pos)
    /\ IF Peek \in In.set
         THEN stack' = push_btrack(In.a, pos) /\ pos' = pos + 1 /\ Step
         ELSE UNCHANGED <<stack, pos>> /\ Goto(In.a)
    /\ UNCHANGED <<idleVars, table, errs>>

VM_TEST_CHAR == Op("TEST_CHAR") /\ TestChoice
VM_TEST_SET == Op("TEST_SET") /\ TestChoice
VM_TEST_CHAR_NOCHOICE == Op("TEST_CHAR_NOCHOICE") /\ TestNoChoice
VM_TEST_SET_NOCHOICE == Op("TEST_SET_NOCHOICE") /\ TestNoChoice

VM_TEST_ANYFault ==
    /\ Op("TEST_ANY")
    /\ pos' = pos + In.b
    /\ IF pos' <= Len(text) THEN stack' = push_btrack(In.a, pos) /\ Step
                            ELSE UNCHANGED stack /\ Goto(In.a)
    /\ UNCHANGED <<idleVars, table, furthest, errs>>

VM_TEST_ANY ==
    /\ Op("TEST_ANY")
    /\ IF pos + In.b <= Len(text)
         THEN stack' = push_btrack(In.a, pos) /\ pos' = pos + In.b /\ Step
         ELSE UNCHANGED <<stack, pos>> /\ Goto(In.a)
    /\ UNCHANGED <<idleVars, table, furthest, errs>>

VM_CAPTURE_BEGIN ==
    /\ Op("CAPTURE_BEGIN") /\ stack' = push_capt(In.a, pos) /\ Step
    /\ UNCHANGED <<idleVars, table, pos, furthest, errs>>

VM_CAPTURE_LATE ==
    /\ Op("CAPTURE_LATE") /\ stack' = push_capt(In.a, pos - In.b) /\ Step
    /\ UNCHANGED <<idleVars, table, pos, furthest, errs>>

(* caprange when a capture has been built: it starts as 0 to 0, so its low *)
(* end stays 0, and it keeps the captures of branches given up later.      *)
Widened(low, high) ==
    IF windowed /\ InWindow(low, high)
      THEN [low  |-> Min({caprange.low, low}), high |-> Max({caprange.high, high})]
      ELSE caprange

VM_CAPTURE_FULL ==
    /\ Op("CAPTURE_FULL")
    /\ stack' = IF InWindow(pos - In.b, pos)
                  THEN stack_add_capt(stack,
                         <<memo_capture_node(In.a, pos - In.b, In.b, <<>>)>>)
                  ELSE stack
    /\ caprange' = Widened(pos - In.b, pos)
    /\ Step
    /\ UNCHANGED <<gi, code, text, window, result, table, pos, furthest, errs>>

VM_CAPTURE_END ==
    /\ Op("CAPTURE_END")
    /\ IF TopIs("capt")
         THEN LET rest == stack_pop(stack, FALSE)
                  node == memo_capture_node(Top.id, Top.pos, pos - Top.pos, Top.capt)
              IN  /\ stack' = IF InWindow(Top.pos, pos)
                                THEN stack_add_capt(rest, <<node>>) ELSE rest
                  /\ caprange' = Widened(Top.pos, pos)
                  /\ Step
         ELSE Abort /\ UNCHANGED <<stack, caprange>>
    /\ UNCHANGED <<gi, code, text, window, result, table, pos, furthest, errs>>

(* A hit yields the recorded result without executing the rule.            *)
VM_MEMO_OPEN ==
    /\ Op("MEMO_OPEN")
    /\ LET hits == memo_table_get(table, In.b, pos) IN
       \/ /\ hits = {}
          /\ stack' = push_memo(In.b) /\ UNCHANGED pos /\ Step
       \/ \E e \in hits :
            IF e.length = -1
              THEN UNCHANGED <<stack, pos>> /\ Fail
              ELSE /\ stack' = stack_add_capt(stack, Relocated(e.res.capt, e.pos))
                   /\ pos' = pos + e.length
                   /\ Goto(In.a)
    /\ UNCHANGED <<idleVars, table, furthest, errs>>

VM_MEMO_CLOSE ==
    /\ Op("MEMO_CLOSE")
    /\ IF TopIs("memo")
         THEN /\ stack' = stack_pop(stack, TRUE)
              /\ table' = memoize(Top.id, Top.pos, pos - Top.pos, 1, Top.capt)
              /\ Step
         ELSE Abort /\ UNCHANGED <<stack, table>>
    /\ UNCHANGED <<idleVars, pos, furthest, errs>>

VM_MEMO_TREE_OPEN ==
    /\ Op("MEMO_TREE_OPEN")
    /\ LET hits == memo_table_get(table, In.b, pos) IN
       \/ /\ hits = {}
          /\ stack' = push_memotree(In.b, 0)
          /\ UNCHANGED <<pos, furthest>> /\ Step
       \/ \E e \in hits :
            IF e.length = -1
              THEN UNCHANGED <<stack, pos, furthest>> /\ Fail
              ELSE /\ stack' = stack_add_capt(push_memotree(In.b, e.res.count),
                                              Relocated(e.res.capt, e.pos))
                   /\ pos' = pos + e.length
                   /\ furthest' = TrackRead(pos')
                   /\ Goto(In.a)
    /\ UNCHANGED <<idleVars, table, errs>>

VM_MEMO_TREE_CLOSEFault ==
    /\ Op("MEMO_TREE_CLOSE")
    /\ stack' = IF TopIs("memotree") /\ Top.id = In.a THEN stack_pop(stack, TRUE) ELSE stack
    /\ Step
    /\ UNCHANGED <<idleVars, table, pos, furthest, errs>>

(* Pops the tree entries of this repetition, one per step.                 *)
VM_MEMO_TREE_CLOSE ==
    /\ Op("MEMO_TREE_CLOSE")
    /\ IF TopIs("memotree") /\ Top.id = In.a
         THEN stack' = stack_pop(stack, TRUE) /\ UNCHANGED <<ip, mode>>
         ELSE UNCHANGED stack /\ Step
    /\ UNCHANGED <<idleVars, table, pos, furthest, errs>>

VM_MEMO_TREE_INSERT ==
    /\ Op("MEMO_TREE_INSERT")
    /\ IF TopIs("memotree")
         THEN /\ stack' = [stack EXCEPT ![Len(stack)].count = @ + 1]
              /\ table' = memoize(Top.id, Top.pos, pos - Top.pos,
                                  Top.count + 1, Top.capt)
              /\ Step
         ELSE Abort /\ UNCHANGED <<stack, table>>
    /\ UNCHANGED <<idleVars, pos, furthest, errs>>

(* The top d tree entries can be merged into the one below them when they  *)
(* fold in at least as many repetitions.                                   *)
CountOfTop(d) ==
    MapThenSumSet(LAMBDA i : stack[i].count, Len(stack) - d + 1 .. Len(stack))
Mergeable ==
    {d \in 1 .. Len(stack) - 1 :
        /\ \A i \in Len(stack) - d .. Len(stack) : stack[i].kind = "memotree"
        /\ CountOfTop(d) >= stack[Len(stack) - d].count}

(* The stack after popping all but the lowest of the top d entries, whose  *)
(* captures that one collects.                                             *)
Folded(d) ==
    LET n == Len(stack) - d + 1
        capts == FlattenSeq([i \in 1 .. d |-> stack[n - 1 + i].capt])
    IN  [SubSeq(stack, 1, n) EXCEPT ![n].capt = capts]

(* The lowest of the top d entries goes, and its captures under a dummy,   *)
(* into the entry below, which is recorded.                                *)
Merge(d) ==
    LET folded == Folded(d)
        ent == Last(folded)
        up == IF ent.capt = <<>> \/ windowed
                THEN ent.capt
                ELSE <<memo_capture_dummy(ent.pos, pos - ent.pos, ent.capt)>>
        rest == stack_add_capt(stack_pop(folded, FALSE), up)
        next == [Last(rest) EXCEPT !.count = @ + CountOfTop(d)]
    IN  /\ stack' = [rest EXCEPT ![Len(rest)] = next]
        /\ table' = memoize(next.id, next.pos, pos - next.pos, next.count, next.capt)

(* One merge per step, the smallest, until none is possible.               *)
VM_MEMO_TREE ==
    /\ Op("MEMO_TREE")
    /\ \/ Mergeable = {} /\ UNCHANGED <<stack, table>> /\ Step
       \/ \E d \in Mergeable :
            /\ \A x \in Mergeable : d <= x
            /\ Merge(d)
            /\ UNCHANGED <<ip, mode>>
    /\ UNCHANGED <<idleVars, pos, furthest, errs>>

VM_CHECK_BEGIN ==
    /\ Op("CHECK_BEGIN") /\ stack' = push_check(In.a, In.b) /\ Step
    /\ UNCHANGED <<idleVars, table, pos, furthest, errs>>

(* A checker may accept more bytes, but not bytes that are not there; one  *)
(* that is not registered, or has no place in the program, accepts.        *)
VM_CHECK_END ==
    /\ Op("CHECK_END")
    /\ IF TopIs("check")
         THEN LET fn == IF In.a + 1 \in DOMAIN code.checkers
                          THEN code.checkers[In.a + 1] ELSE Unregistered
                  n == IF fn = Unregistered THEN 0
                       ELSE Checker(fn, text, Top.pos, pos, Top.id, Top.count)
              IN  /\ stack' = stack_pop(stack, TRUE)
                  /\ IF n \in 0 .. Len(text) - pos
                       THEN pos' = pos + n /\ Step
                       ELSE UNCHANGED pos /\ Fail
         ELSE Abort /\ UNCHANGED <<stack, pos>>
    /\ UNCHANGED <<idleVars, table, furthest, errs>>

VM_ERROR ==
    /\ Op("ERROR")
    /\ LET msg == IF In.a + 1 \in DOMAIN code.errors THEN code.errors[In.a + 1] ELSE ""
       IN  errs' = Append(errs, [pos |-> pos, msg |-> msg])
    /\ Step
    /\ UNCHANGED <<idleVars, table, pos, furthest, stack>>

(* The result of a pass: the children of a dummy over range, or nothing    *)
(* when the unwinding ends it.  The machine is discarded.                  *)
NoRange == [low |-> 0, high |-> 0]
Done(ok, capts, range) ==
    /\ result' = [ok |-> ok, pos |-> pos, capt |-> capts, range |-> range,
                  errs |-> errs, window |-> window]
    /\ mode' = "idle"
    /\ ip' = 0 /\ pos' = 0 /\ furthest' = 0 /\ stack' = <<Base>>
    /\ window' = Whole /\ caprange' = NoRange /\ errs' = <<>>

VM_END ==
    /\ Op("END")
    /\ Done(In.a # 1, stack[1].capt,
            IF windowed THEN caprange ELSE [low |-> 0, high |-> pos])
    /\ UNCHANGED <<gi, code, text, table>>

(* The fail label: unwind to a choice point, recording the failure of each *)
(* memoized rule on the way; with no choice point left the parse fails.    *)
Unwind ==
    /\ mode = "fail"
    /\ \/ /\ TopIs("base")
          /\ Done(FALSE, <<>>, NoRange)
          /\ UNCHANGED <<gi, code, text, table>>
       \/ /\ TopIs("btrack")
          /\ stack' = stack_pop(stack, FALSE)
          /\ ip' = Top.ip /\ pos' = Top.pos /\ mode' = "run"
          /\ UNCHANGED <<idleVars, table, furthest, errs>>
       \/ /\ TopIs("memo")
          /\ stack' = stack_pop(stack, FALSE)
          /\ table' = memoize(Top.id, Top.pos, -1, 0, Top.capt)
          /\ UNCHANGED <<idleVars, mode, ip, pos, furthest, errs>>
       \/ /\ Top.kind \in {"ret", "memotree", "capt", "check"}
          /\ stack' = stack_pop(stack, FALSE)
          /\ UNCHANGED <<idleVars, table, mode, ip, pos, furthest, errs>>

---------------------------------------------------------------------------
(* The client.                                                             *)

Start(w) ==
    /\ mode' = "run" /\ ip' = 0 /\ pos' = 0 /\ furthest' = 0
    /\ stack' = <<Base>> /\ errs' = <<>> /\ window' = w /\ caprange' = NoRange
    /\ result' = NoResult

Init ==
    /\ gi \in DOMAIN Grammars /\ code = NoProgram
    /\ text = <<>> /\ table = {}
    /\ mode = "new" /\ ip = 0 /\ pos = 0 /\ furthest = 0
    /\ stack = <<Base>> /\ errs = <<>> /\ window = Whole /\ caprange = NoRange
    /\ result = NoResult

(* A parser gets its program.                                              *)
Load(prog) ==
    /\ mode \in {"new", "rejected"}
    /\ code' = prog
    /\ mode' = IF prog # NoProgram THEN "idle" ELSE "rejected"
    /\ UNCHANGED <<gi, text, table, ip, pos, furthest, stack, window,
                   caprange, errs, result>>

peg_parseFault(data) ==
    /\ mode = "idle"
    /\ text' = data /\ Start(Whole)
    /\ UNCHANGED <<gi, code, table>>

peg_parse(data) ==
    /\ mode = "idle"
    /\ text' = data /\ table' = {}
    /\ Start(Whole)
    /\ UNCHANGED <<gi, code>>

peg_edit(e) ==
    /\ mode = "idle"
    /\ e.start <= e.end /\ e.end <= Len(text)
    /\ Len(text) - (e.end - e.start) + Len(e.new) <= MaxText
    /\ text' = Splice(text, e.start, e.end, e.new)
    /\ table' = memo_table_apply_edit(table, e.start, e.end, Len(e.new))
    /\ result' = NoResult
    /\ UNCHANGED <<gi, code, mode, ip, pos, furthest, stack, window, caprange, errs>>

peg_reparse ==
    /\ mode = "idle"
    /\ Start(Whole)
    /\ UNCHANGED <<gi, code, text, table>>

(* "Requires a prior peg_parse/peg_reparse of the current text" (peg.h).   *)
peg_capture_interval(w) ==
    /\ mode = "idle" /\ result # NoResult
    /\ table' = IF w.high > w.low
                  THEN memo_table_apply_edit(table, w.low, w.high, w.high - w.low)
                  ELSE table
    /\ Start(w)
    /\ UNCHANGED <<gi, code, text>>

vm_exec ==
    \/ VM_CHAR \/ VM_SET \/ VM_JUMP \/ VM_CHOICE \/ VM_CALL \/ VM_COMMIT
    \/ VM_RETURN \/ VM_FAIL \/ VM_ANY \/ VM_PARTIAL_COMMIT \/ VM_SPAN
    \/ VM_BACK_COMMIT \/ VM_FAIL_TWICE \/ VM_EMPTY \/ VM_TEST_CHAR
    \/ VM_TEST_SET \/ VM_TEST_CHAR_NOCHOICE \/ VM_TEST_SET_NOCHOICE
    \/ VM_TEST_ANY \/ VM_CAPTURE_BEGIN \/ VM_CAPTURE_LATE
    \/ VM_CAPTURE_FULL \/ VM_CAPTURE_END \/ VM_MEMO_OPEN \/ VM_MEMO_CLOSE
    \/ VM_MEMO_TREE_OPEN \/ VM_MEMO_TREE_CLOSE \/ VM_MEMO_TREE_INSERT
    \/ VM_MEMO_TREE \/ VM_CHECK_BEGIN \/ VM_CHECK_END \/ VM_ERROR
    \/ VM_END \/ Unwind

Calls ==
    \/ \E data \in Grammar.subjects : peg_parse(data)
    \/ \E e \in Grammar.edits : peg_edit(e)
    \/ peg_reparse
    \/ \E w \in Grammar.windows : peg_capture_interval(w)

---------------------------------------------------------------------------
(* Any sound program.                                                      *)

Targeted == {"JUMP", "CHOICE", "CALL", "COMMIT", "PARTIAL_COMMIT", "BACK_COMMIT",
             "TEST_CHAR", "TEST_CHAR_NOCHOICE", "TEST_SET", "TEST_SET_NOCHOICE",
             "TEST_ANY", "MEMO_OPEN", "MEMO_TREE_OPEN"}

(* What the machine supposes of a program and does not check: it ends with *)
(* END, every target is an instruction, a number of bytes is not negative, *)
(* memo ids are integers and the end of the subject is in no set.          *)
Sound(prog) ==
    /\ Len(prog) \in Nat \ {0} /\ prog[Len(prog)].op = "END"
    /\ \A i \in 1 .. Len(prog) :
         /\ prog[i].op \in Targeted => prog[i].a \in 0 .. Len(prog) - 1
         /\ prog[i].op = "ANY" => prog[i].a \in Nat
         /\ prog[i].op = "TEST_ANY" => prog[i].b \in Nat
         /\ prog[i].op \in {"MEMO_OPEN", "MEMO_TREE_OPEN"} => prog[i].b \in Int
         /\ EOF \notin prog[i].set

LoadSound == Load(code') /\ (code' # NoProgram => Sound(code'.prog))

MachineSpec == Init /\ [][LoadSound \/ Calls \/ vm_exec]_vars

---------------------------------------------------------------------------
(* Properties.                                                             *)

(* While instructions execute the current offset is inside the subject or  *)
(* at its end: a read or a window of captures never leaves the buffer, and *)
(* a hit of an entry that has moved with edits does not either.  (After a  *)
(* failed VM_ANY the offset is beyond the end until a choice point puts it *)
(* back, in mode "fail" only.)                                             *)
InputInBounds == mode = "run" => pos \in 0 .. Len(text)

(* The loop of vm_exec fetches prog[ip] without a check: every jump,       *)
(* return, choice point and fall-through leads to an instruction.          *)
FetchInProgram == mode = "run" => ip \in 0 .. Len(code.prog) - 1

(* vm_exec never reaches one of its abort_msg calls: every instruction     *)
(* that pops the stack finds the kind of entry the compiler paired it      *)
(* with, also after failures, memo hits and merges of tree entries.        *)
NeverAborts == mode # "abort"

(* "reaching the fail handler from inside a tree-memoized body is          *)
(* unreachable (every MemoTreeOpen is immediately shielded by the          *)
(* following Choice", vm.c:1024-1026): the unwinding, which would drop the *)
(* repetitions a tree entry has gathered, never finds one on top.          *)
TreesShielded == mode = "fail" => ~ TopIs("memotree")
=============================================================================
