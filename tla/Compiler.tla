------------------------------ MODULE Compiler ------------------------------
(***************************************************************************)
(* src/pattern.c, the compiler: a pattern tree becomes a list of typed     *)
(* instructions with symbolic labels, which is then optimized.             *)
(*                                                                         *)
(*   - A compiled piece and the compilation context are one record: code   *)
(*     is the piece, labels and memo are the next free label and memo id,  *)
(*     err the first missing name.  It is passed from piece to piece.      *)
(*   - The byte operand of a CHAR or TEST_CHAR is a singleton set.         *)
(*   - Inlining sets a pointer to a definition; a definition that is       *)
(*     inlined holds nothing a later pass could still change, so here the  *)
(*     pointer is a copy.                                                  *)
(*   - An operator X with Fault after its name is a wrong version of X; no *)
(*     specification uses it (see the README).                             *)
(***************************************************************************)
EXTENDS Pattern, FiniteSetsExt

CONSTANTS
    Alphabet,           \* all bytes
    InlineThreshold,    \* PAT_INLINE_THRESHOLD
    RareSet,            \* a searched set with fewer bytes is skipped to
    MaxBack,            \* the width a capture is opened late by is below it
    NoErr               \* err is NULL

---------------------------------------------------------------------------
(* The instruction list.                                                   *)

insn_basic(op) == [op |-> op, a |-> 0, b |-> 0, label |-> -1, set |-> {}]
insn_label(l) == [insn_basic("LABEL") EXCEPT !.a = l]
insn_jump(op, l) == [insn_basic(op) EXCEPT !.label = l]
insn_u8(op, a) == [insn_basic(op) EXCEPT !.a = a]
insn_set(op, S) == [insn_basic(op) EXCEPT !.set = S]
insn_test_set(op, S, l) == [insn_set(op, S) EXCEPT !.label = l]
insn_opencall(name) == insn_u8("OPENCALL", name)

(* Index of the next real instruction, past the end if there is none.      *)
next_insn_idx(code, from) ==
    Min({i \in from .. Len(code) : code[i].op \notin {"LABEL", "NOP"}}
          \union {Len(code) + 1})

Produce(cx, code) == [cx EXCEPT !.code = code]
(* The piece takes the next n labels.                                      *)
Labelled(cx, n, code) == [cx EXCEPT !.code = code, !.labels = @ + n]
SkipLabel(cx) == [cx EXCEPT !.labels = @ + 1]
set_err(cx, name) == [cx EXCEPT !.err = IF @ = NoErr THEN name ELSE @]

---------------------------------------------------------------------------
(* Simplification.                                                         *)

SingleByte(p) == p.k = "class" \/ (p.k = "literal" /\ Len(p.arg) = 1)
BytesOf(p) == IF p.k = "class" THEN p.arg ELSE Range(p.arg)
combine(p1, p2) == SingleByte(p1) /\ SingleByte(p2)
combined(p1, p2) == BytesOf(p1) \union BytesOf(p2)

(* A possibly simplified version of p.                                     *)
RECURSIVE get_pat(_)
get_pat(p) ==
    LET l == get_pat(p.sub[1])
        r == get_pat(p.sub[2])
        inner == l.sub[1]
    IN
    CASE p.k = "nonterm" /\ p.sub # <<>> -> p.sub[1]
      [] p.k = "alt" ->
           IF l.k = "empty" THEN r
           ELSE IF r.k = "empty" THEN get_pat(pat_optional(l))
           ELSE IF combine(l, r) THEN pat_set(combined(l, r)) ELSE p
      [] p.k = "optional" -> IF l.k = "star" THEN l ELSE p
      [] p.k = "seq" ->
           IF r.k = "empty" THEN l
           ELSE IF l.k = "empty" THEN r
           ELSE IF ~ (l.k = "not" /\ SingleByte(inner)) THEN p
           ELSE IF r.k = "dot" /\ r.arg = 1 THEN pat_set(Alphabet \ BytesOf(inner))
           ELSE IF SingleByte(r) THEN pat_set(BytesOf(r) \ BytesOf(inner)) ELSE p
      [] OTHER -> p

---------------------------------------------------------------------------
(* Inlining.                                                               *)

(* What walk_pat visits below p: not the inside of a repetition.           *)
walk_pat(p) == IF p.k = "repeat" THEN <<>> ELSE p.sub

RECURSIVE PatSize(_)
PatSize(p) == 1 + MapThenSumSet(LAMBDA i : PatSize(p.sub[i]), DOMAIN walk_pat(p))

(* The names of the non-terminals that are not inlined.                    *)
RECURSIVE Unresolved(_)
Unresolved(p) ==
    (IF p.k = "nonterm" /\ p.sub = <<>> THEN {p.arg} ELSE {})
    \union UNION {Unresolved(p.sub[i]) : i \in DOMAIN walk_pat(p)}

find_def(g, name) == SelectInSeq(g.arg.names, LAMBDA n : n = name)

RECURSIVE inline_fn(_, _)
inline_fn(g, p) ==
    LET di == find_def(g, p.arg)
        def == g.sub[di]
    IN  IF p.k = "nonterm" /\ p.sub = <<>>
          THEN IF di # 0 /\ PatSize(def) < InlineThreshold /\ Unresolved(def) = {}
                 THEN [p EXCEPT !.sub = <<def>>] ELSE p
          ELSE IF walk_pat(p) = <<>> THEN p
          ELSE [p EXCEPT !.sub = [i \in DOMAIN p.sub |-> inline_fn(g, p.sub[i])]]

(* Passes until nothing more is inlined.                                   *)
RECURSIVE grammar_inline(_)
grammar_inline(g) ==
    LET once == inline_fn(g, g)
    IN  IF once = g THEN g ELSE grammar_inline(once)

---------------------------------------------------------------------------
(* The code of one node around the code of its parts.                      *)

DisjointFault(l, r) ==
    LET li == next_insn_idx(l, 1)
        ri == next_insn_idx(r, 1)
    IN  /\ li <= Len(l) /\ ri <= Len(r)
        /\ <<l[li].op, r[ri].op>> \in
             {<<"SET", "CHAR">>, <<"CHAR", "CHAR">>, <<"CHAR", "SET">>}

(* p1 / p2.  When both begin with a matcher and these are disjoint, a test *)
(* enters the left branch, without a choice point and without its matcher. *)
Disjoint(l, r) ==
    LET li == next_insn_idx(l, 1)
        ri == next_insn_idx(r, 1)
    IN  /\ li <= Len(l) /\ ri <= Len(r)
        /\ <<l[li].op, r[ri].op>> \in
             {<<"SET", "CHAR">>, <<"CHAR", "CHAR">>, <<"CHAR", "SET">>}
        /\ l[li].set \intersect r[ri].set = {}

AltCodeFault(l, r, l1, l2) ==
    LET head == l[next_insn_idx(l, 1)]
        test == insn_test_set(IF head.op = "SET" THEN "TEST_SET_NOCHOICE"
                                                 ELSE "TEST_CHAR_NOCHOICE",
                              head.set, l1)
    IN  (IF Disjoint(l, r) THEN <<test>> \o Tail(l) ELSE <<insn_jump("CHOICE", l1)>> \o l)
        \o <<insn_jump("COMMIT", l2), insn_label(l1)>> \o r \o <<insn_label(l2)>>

AltCode(l, r, l1, l2) ==
    LET head == l[next_insn_idx(l, 1)]
        test == insn_test_set(IF head.op = "SET" THEN "TEST_SET_NOCHOICE"
                                                 ELSE "TEST_CHAR_NOCHOICE",
                              head.set, l1)
    IN  (IF Disjoint(l, r)
           THEN <<test>> \o Tail(l) \o <<insn_jump("JUMP", l2)>>
           ELSE <<insn_jump("CHOICE", l1)>> \o l \o <<insn_jump("COMMIT", l2)>>)
        \o <<insn_label(l1)>> \o r \o <<insn_label(l2)>>

StarCode(sub, l1, l2) ==
    <<insn_jump("CHOICE", l2), insn_label(l1)>> \o sub
    \o <<insn_jump("PARTIAL_COMMIT", l1), insn_label(l2)>>

(* A repeated memoized pattern: tree memoization.                          *)
TreeCode(sub, l1, l2, l3, nojump, id) ==
    <<insn_label(l1), [insn_jump("MEMO_TREE_OPEN", l3) EXCEPT !.b = id],
      insn_jump("CHOICE", l2)>> \o sub
    \o <<insn_jump("COMMIT", nojump), insn_label(nojump),
         insn_basic("MEMO_TREE_INSERT"), insn_label(l3),
         insn_basic("MEMO_TREE"), insn_jump("JUMP", l1), insn_label(l2),
         insn_u8("MEMO_TREE_CLOSE", id)>>

NotCode(sub, l1) ==
    <<insn_jump("CHOICE", l1)>> \o sub \o <<insn_basic("FAIL_TWICE"), insn_label(l1)>>

AndCode(sub, l1, l2) ==
    <<insn_jump("CHOICE", l1)>> \o sub
    \o <<insn_jump("BACK_COMMIT", l2), insn_label(l1), insn_basic("FAIL"),
         insn_label(l2)>>

(* A capture is opened after the leading matchers of constant width, and   *)
(* built in full when there is nothing else.                               *)
CapCode(sub, id) ==
    LET n == Min({i \in 1 .. Len(sub) : sub[i].op \notin {"CHAR", "SET", "ANY"}}
                   \union {Len(sub) + 1}) - 1
        back == MapThenSumSet(LAMBDA i : IF sub[i].op = "ANY" THEN sub[i].a ELSE 1, 1 .. n)
        Late(op) == [insn_u8(op, id) EXCEPT !.b = back]
    IN  IF n = 0 \/ back >= MaxBack
          THEN <<insn_u8("CAPTURE_BEGIN", id)>> \o sub \o <<insn_basic("CAPTURE_END")>>
        ELSE IF n = Len(sub)
          THEN Append(sub, Late("CAPTURE_FULL"))
          ELSE SubSeq(sub, 1, n) \o <<Late("CAPTURE_LATE")>>
               \o SubSeq(sub, n + 1, Len(sub)) \o <<insn_basic("CAPTURE_END")>>

MemoCode(sub, l1, id) ==
    <<[insn_jump("MEMO_OPEN", l1) EXCEPT !.b = id]>> \o sub
    \o <<insn_basic("MEMO_CLOSE"), insn_label(l1)>>

CheckCode(sub, l1, arg) ==
    <<[insn_u8("CHECK_BEGIN", arg.id) EXCEPT !.b = arg.flag]>> \o sub
    \o <<insn_u8("CHECK_END", arg.fn), insn_label(l1)>>

(* p? of a single byte needs no choice point.                              *)
OptionalByteCode(p, l1) ==
    <<insn_test_set(IF p.k = "class" THEN "TEST_SET_NOCHOICE"
                                     ELSE "TEST_CHAR_NOCHOICE",
                    BytesOf(p), l1), insn_label(l1)>>

(* search(p) as a grammar, S <- p / . [skip]* S.  The skip is there when p *)
(* begins, as its code tells, with a rare matcher.                         *)
SearchGrammar(p, code) ==
    LET head == code[next_insn_idx(code, 1)]
        rare == /\ next_insn_idx(code, 1) <= Len(code)
                /\ \/ head.op = "CHAR"
                   \/ head.op = "SET" /\ Cardinality(head.set) < RareSet
        skip == pat_star(pat_set(Alphabet \ head.set))
        rsearch == IF rare THEN pat_seq(skip, pat_nonterm("S")) ELSE pat_nonterm("S")
    IN  pat_grammar("S", <<"S">>, <<pat_alt(p, pat_seq(pat_any(1), rsearch))>>)

---------------------------------------------------------------------------
(* Calls between the definitions of a grammar.                             *)

(* Definition i is called from code, and where its code begins is known.   *)
Callable(g, at, name) == find_def(g, name) \in DOMAIN at

TailCall(code, i) ==
    LET ni == next_insn_idx(code, i + 1)
    IN  ni <= Len(code) /\ code[ni].op = "RETURN"

(* Open calls become calls, and jumps in tail position; the Return right   *)
(* behind such a jump goes away, unless a label keeps it.                  *)
resolve_calls(g, code, at) ==
    LET Replaced(j) ==
            /\ code[j].op = "RETURN"
            /\ \E i \in 1 .. j - 1 : /\ code[i].op = "OPENCALL"
                                     /\ \A n \in i + 1 .. j - 1 : code[n].op = "NOP"
    IN  [j \in DOMAIN code |->
           IF code[j].op = "OPENCALL"
             THEN insn_jump(IF TailCall(code, j) THEN "JUMP" ELSE "CALL",
                            at[find_def(g, code[j].a)])
           ELSE IF Replaced(j) THEN insn_basic("NOP") ELSE code[j]]

MissingCalls(g, code, at) ==
    {i \in DOMAIN code : code[i].op = "OPENCALL" /\ ~ Callable(g, at, code[i].a)}

---------------------------------------------------------------------------

(* What a node makes of its compiled parts, each compiled after the one    *)
(* before.                                                                 *)

AltOf(parts) ==
    LET l == parts[2].labels
    IN  Labelled(parts[2], 2, AltCode(parts[1].code, parts[2].code, l, l + 1))
ConcatOf(cx, parts) ==
    IF parts = <<>> THEN Produce(cx, <<>>)
    ELSE Produce(Last(parts), FlattenSeq([i \in DOMAIN parts |-> parts[i].code]))
PlusOf(parts) == Produce(parts[2], parts[2].code \o parts[1].code)
StarOf(sub) == Labelled(sub, 2, StarCode(sub.code, sub.labels, sub.labels + 1))
TreeOf(sub) ==
    LET l == sub.labels
    IN  Labelled([sub EXCEPT !.memo = @ + 1], 4,
                 TreeCode(sub.code, l, l + 1, l + 2, l + 3, sub.memo))
NotOf(sub) == Labelled(sub, 1, NotCode(sub.code, sub.labels))
AndOf(sub) == Labelled(sub, 2, AndCode(sub.code, sub.labels, sub.labels + 1))
CapOf(sub, id) == Produce(sub, CapCode(sub.code, id))
MemoOf(sub, l1, id) == Produce(sub, MemoCode(sub.code, l1, id))
CheckOf(sub, l1, arg) == Produce(sub, CheckCode(sub.code, l1, arg))
ErrorOf(sub, msg) == Produce(sub, <<insn_u8("ERROR", msg)>> \o sub.code)

(* Function i of a grammar is fns[i] between a label and a Return.         *)
GrammarOf(g, cx, used, fns) ==
    LET lend == cx.labels
        begin == [i \in DOMAIN fns |-> IF i = 1 THEN lend + 1 ELSE fns[i - 1].labels]
        at == [d \in Range(used) |-> begin[SelectInSeq(used, LAMBDA e : e = d)]]
        functions == [i \in DOMAIN fns |->
                        <<insn_label(begin[i])>> \o fns[i].code
                        \o <<insn_basic("RETURN")>>]
        code == <<insn_opencall(g.arg.start), insn_jump("JUMP", lend)>>
                \o FlattenSeq(functions)
        missing == MissingCalls(g, code, at)
    IN  IF missing # {} THEN set_err(Last(fns), code[Min(missing)].a)
        ELSE Produce(Last(fns),
                     Append(resolve_calls(g, code, at), insn_label(lend)))

---------------------------------------------------------------------------

RECURSIVE compile_pat(_, _), CompileAll(_, _), CompileDefs(_, _)

CompileAll(cx, patts) ==
    IF patts = <<>> THEN <<>>
    ELSE LET sub == compile_pat(cx, Head(patts))
         IN  <<sub>> \o CompileAll(sub, Tail(patts))

(* Each after a label for its beginning.                                   *)
CompileDefs(cx, patts) ==
    IF patts = <<>> THEN <<>>
    ELSE LET sub == compile_pat(SkipLabel(cx), Head(patts))
         IN  <<sub>> \o CompileDefs(sub, Tail(patts))

(* The grammar g after inlining, open the names still called.  With none,  *)
(* it is its start; otherwise what is used becomes functions.              *)
CompileInlined(cx, g, open) ==
    LET start == find_def(g, g.arg.start)
        used == SetToSortSeq({start} \union ({find_def(g, name) : name \in open} \ {0}),
                             LAMBDA i, j : i < j)
    IN  IF start = 0 THEN Produce(set_err(cx, g.arg.start), <<>>)
        ELSE IF open = {} THEN compile_pat(cx, g.sub[start])
        ELSE GrammarOf(g, cx, used,
                       CompileDefs(SkipLabel(cx), [i \in DOMAIN used |-> g.sub[used[i]]]))

UnresolvedIn(g) == UNION {Unresolved(g.sub[i]) : i \in DOMAIN g.sub}
compile_grammar(cx, p) ==
    LET g == grammar_inline(p) IN CompileInlined(cx, g, UnresolvedIn(g))

(* search(p1), with the code of p1 to look at.                             *)
CompileSearch(sub, p1) == compile_grammar(sub, SearchGrammar(p1, sub.code))

compile_pat(cx, p) ==
    LET p1 == get_pat(p.sub[1])
        p2 == get_pat(p.sub[2])
    IN
    CASE p.k = "alt" ->
           IF combine(p1, p2) THEN Produce(cx, <<insn_set("SET", combined(p1, p2))>>)
           ELSE AltOf(CompileAll(cx, <<p1, p2>>))
      [] p.k = "seq" -> ConcatOf(cx, CompileAll(cx, <<p1, p2>>))
      [] p.k = "star" ->
           IF p1.k = "class" THEN Produce(cx, <<insn_set("SPAN", p1.arg)>>)
           ELSE IF p1.k = "memo" THEN TreeOf(compile_pat(cx, get_pat(p1.sub[1])))
           ELSE StarOf(compile_pat(cx, p1))
      [] p.k = "plus" -> PlusOf(CompileAll(cx, <<pat_star(p1), p1>>))
      [] p.k = "optional" ->
           IF SingleByte(p1) THEN Labelled(cx, 1, OptionalByteCode(p1, cx.labels))
           ELSE compile_pat(cx, pat_alt(p1, pat_empty))
      [] p.k = "not" -> NotOf(compile_pat(cx, p1))
      [] p.k = "and" -> AndOf(compile_pat(cx, p1))
      [] p.k = "cap" -> CapOf(compile_pat(cx, p1), p.arg)
      [] p.k = "memo" -> MemoOf(compile_pat(SkipLabel(cx), p1), cx.labels, p.arg)
      [] p.k = "check" -> CheckOf(compile_pat(SkipLabel(cx), p1), cx.labels, p.arg)
      [] p.k = "search" -> CompileSearch(compile_pat(cx, p1), p1)
      [] p.k = "grammar" -> compile_grammar(cx, p)
      [] p.k = "class" -> Produce(cx, <<insn_set("SET", p.arg)>>)
      [] p.k = "literal" ->
           Produce(cx, [i \in DOMAIN p.arg |-> insn_set("CHAR", {p.arg[i]})])
      [] p.k = "nonterm" ->
           IF p.sub # <<>> THEN compile_pat(cx, p.sub[1])
           ELSE Produce(cx, <<insn_opencall(p.arg)>>)
      [] p.k = "dot" -> Produce(cx, <<insn_u8("ANY", p.arg)>>)
      [] p.k = "error" ->
           IF p.sub = <<>>
             THEN Produce(cx, <<insn_u8("ERROR", p.arg), insn_u8("END", 1)>>)
             ELSE ErrorOf(compile_pat(cx, p.sub[1]), p.arg)
      [] p.k = "emptyop" -> Produce(cx, <<insn_u8("EMPTY", p.arg)>>)
      [] p.k = "empty" -> Produce(cx, <<>>)
      [] p.k = "repeat" ->
           ConcatOf(cx, CompileAll(cx, [n \in 1 .. p.arg |-> p.sub[1]]))

---------------------------------------------------------------------------
(* Optimization, one instruction at a time from the first.                 *)

ControlOps == {"PARTIAL_COMMIT", "BACK_COMMIT", "COMMIT", "JUMP", "RETURN",
               "FAIL", "FAIL_TWICE", "END"}

(* A choice right before a matcher becomes a test.                         *)
head_fail(code, i) ==
    LET next == code[i + 1]
        Becomes(in) == [code EXCEPT ![i] = in, ![i + 1].op = "NOP"]
    IN  IF code[i].op # "CHOICE" \/ i = Len(code) THEN code
        ELSE CASE next.op = "CHAR" ->
                    Becomes([code[i] EXCEPT !.op = "TEST_CHAR", !.set = next.set])
               [] next.op = "SET" ->
                    Becomes([code[i] EXCEPT !.op = "TEST_SET", !.set = next.set])
               [] next.op = "ANY" ->
                    Becomes([code[i] EXCEPT !.op = "TEST_ANY", !.b = next.a])
               [] OTHER -> code

(* A jump to another control instruction becomes that instruction.         *)
replace_jump(code, i) ==
    LET from == CHOOSE j \in DOMAIN code :
                  code[j].op = "LABEL" /\ code[j].a = code[i].label
        ni == next_insn_idx(code, from)
    IN  IF code[i].op = "JUMP" /\ ni <= Len(code) /\ code[ni].op \in ControlOps
          THEN [code EXCEPT ![i] = code[ni]] ELSE code

RECURSIVE pat_optimize(_, _)
pat_optimize(code, i) ==
    IF i > Len(code) THEN code
    ELSE pat_optimize(replace_jump(head_fail(code, i), i), i + 1)

(* A call that no grammar around it resolved is an error.                  *)
Finished(cx, open) ==
    IF cx.err # NoErr THEN cx
    ELSE IF open # {} THEN set_err(cx, cx.code[Min(open)].a)
    ELSE Produce(cx, pat_optimize(cx.code, 1))
OpenCalls(cx) == {i \in DOMAIN cx.code : cx.code[i].op = "OPENCALL"}
Checked(cx) == Finished(cx, OpenCalls(cx))

(* The code of p, or the name it lacks.  counter is the next memo id.      *)
compile(counter, p) ==
    Checked(compile_pat([code |-> <<>>, labels |-> 0, memo |-> counter,
                         err |-> NoErr], p))
=============================================================================
