------------------------------- MODULE Parser -------------------------------
(***************************************************************************)
(* The machine on the programs that Compiler and Encoder make of patterns, *)
(* and what its results mean.                                              *)
(*                                                                         *)
(*   - The records of Grammars also have                                   *)
(*       pattern         the pattern                                       *)
(*       counter         the next memo id when it is compiled              *)
(*       memos, trees    memo id -> [env, p], the memoized pattern and the *)
(*                       tree-memoized repeated one                        *)
(***************************************************************************)
EXTENDS Pairing, Semantics, Encoder

Compiled == pat_compile(Grammar.counter, Grammar.pattern)

---------------------------------------------------------------------------
(* Captures, which hold captures: Relocated of Machine, and a consumer.    *)

RECURSIVE RelocatedCaptures(_, _)
RelocatedCaptures(capts, amt) ==
    [i \in DOMAIN capts |->
        [capts[i] EXCEPT !.off = @ + amt, !.kids = RelocatedCaptures(@, amt)]]

(* A list of captures with the dummies spliced out, as a consumer sees it. *)
RECURSIVE memo_capture_each_child(_)
memo_capture_each_child(capts) ==
    IF capts = <<>> THEN <<>>
    ELSE LET c == Head(capts)
             kids == memo_capture_each_child(c.kids)
         IN  (IF c.id = DummyId THEN kids ELSE <<[c EXCEPT !.kids = kids]>>)
             \o memo_capture_each_child(Tail(capts))

---------------------------------------------------------------------------

(* peg_new stops the program on a pattern that does not compile: a client  *)
(* asks pat_compile first.                                                 *)
peg_new == Load(IF Compiled.err = NoErr THEN Compiled.code ELSE NoProgram)

Next == peg_new \/ Calls \/ vm_exec

(* vm_exec is one C call: once begun, the machine keeps taking steps.      *)
Spec == Init /\ [][Next]_vars /\ WF_vars(vm_exec)

---------------------------------------------------------------------------
(* Properties.                                                             *)

Expected == Meaning(<<>>, text, Grammar.pattern, 0)

RECURSIVE Nodes(_)
Nodes(capts) ==
    UNION {{[id |-> c.id, off |-> c.off, len |-> c.len]} \union Nodes(c.kids)
             : c \in Range(capts)}

Listed(ir) == SelectSeq(ir, LAMBDA in : in.op \notin {"LABEL", "NOP"})
TargetIn(ir, label) ==
    Len(Listed(SubSeq(ir, 1, SelectInSeq(ir,
                 LAMBDA in : in.op = "LABEL" /\ in.a = label))))
SameInsn(out, in, made) ==
    /\ out.op = in.op /\ out.set = in.set
    /\ CASE in.label # -1 -> out.a = TargetIn(made.ir, in.label) /\ out.b = in.b
         [] in.op = "CHECK_END" -> made.code.checkers[out.a + 1] = in.a
         [] in.op = "ERROR" -> made.code.errors[out.a + 1] = in.a
         [] OTHER -> out.a = in.a /\ out.b = in.b
IsListing(made, list) ==
    made.err = NoErr =>
        /\ ~ made.code.abort
        /\ Len(made.code.prog) = Len(list)
        /\ \A i \in DOMAIN list : SameInsn(made.code.prog[i], list[i], made)
ListsAll(made) == IsListing(made, Append(Listed(made.ir), insn_u8("END", 0)))

(* The program is the listing the compiler produced, label by label: the   *)
(* encoding in bytes, the patching of forward jumps, the tables and the    *)
(* decoding lose nothing, also for 16-bit operands at their limits and     *)
(* addresses above one byte.  (No program here is so long that the top     *)
(* byte of a 24-bit operand is not zero.)                                  *)
ProgramIsListing == mode = "new" => ListsAll(Compiled)

(* A program that was compiled is one the machine can run unchecked, which *)
(* is all that MachineProofs supposes of it.                               *)
ProgramIsSound ==
    mode = "new" /\ Compiled.err = NoErr => Sound(Compiled.code.prog)

(* The contexts of the addresses that known leads to.                      *)
RECURSIVE Contexts(_, _, _)
Contexts(prog, known, new) ==
    LET ready == {p \in new : Ready(prog[p[1] + 1], p[2])}
        more == UNION {Leads(prog[p[1] + 1], p[1], p[2]) : p \in ready} \ known
    IN  IF more = {} THEN known ELSE Contexts(prog, known \union more, more)
Begin == {<<0, Bottom>>}

(* Every instruction that pops finds the entry it was compiled with,       *)
(* whichever way it is reached: through a choice that resumes, a rule that *)
(* returns, a memo hit that skips the rule or a test that leaves no choice *)
(* point; and none can fail over a tree entry.  This is what PairingProofs *)
(* supposes of a program.                                                  *)
ProgramIsPaired ==
    mode = "new" /\ Compiled.err = NoErr =>
        LET R == Contexts(Compiled.code.prog, Begin, Begin)
        IN  Paired(Compiled.code.prog, R) /\ Shielded(Compiled.code.prog, R)

DefinesAll(made, p) ==
    IF made.err = NoErr THEN Complete(<<>>, p, {}) ELSE made.err \in Missing(<<>>, p)


(* peg_reparse is "Equivalent to peg_parse on the same text" (peg.h:58-61) *)
(* and both return what the grammar says of that text: the outcome, the    *)
(* end of the match and the capture tree, dummies spliced out, however the *)
(* subject was edited and the table filled before.                         *)
ResultIsMeaning ==
    result # NoResult /\ result.window = Whole =>
        /\ result.ok = Expected.ok
        /\ result.ok =>
             /\ result.pos = Expected.pos
             /\ memo_capture_each_child(result.capt) = Expected.capt

(* An entry of the table is what executing its rule here and now would     *)
(* yield, at every moment a lookup can happen; an entry merged by          *)
(* VM_MEMO_TREE is what its count of repetitions would yield.              *)
EntryIsTrue(e) ==
    LET tree == e.id \in DOMAIN Grammar.trees
        m == IF tree THEN Grammar.trees[e.id] ELSE Grammar.memos[e.id]
        r == Meaning(m.env, text,
                     IF tree THEN pat_repeat(m.p, e.res.count) ELSE m.p, e.pos)
    IN  IF e.length = -1
          THEN ~ r.ok
          ELSE /\ r.ok
               /\ r.pos = e.pos + e.length
               /\ r.capt = memo_capture_each_child(Relocated(e.res.capt, e.pos))
MemoIsTruth == \A e \in table : EntryIsTrue(e)

(* peg_capture_interval returns the captures that overlap its window and   *)
(* invents none: what it reuses from entries clear of the window may add   *)
(* captures outside it, but only true ones.  The root covers the captures  *)
(* that overlap: a window that is not empty evicts every entry they could  *)
(* be reused from, so each is built again and widens the range.            *)
WindowComplete ==
    result # NoResult /\ result.window # Whole =>
        LET w == result.window
            real == Nodes(Expected.capt)
            wanted == {n \in real : w.low < n.off + n.len /\ w.high > n.off}
        IN  /\ result.ok = Expected.ok
            /\ result.ok =>
                 /\ result.pos = Expected.pos
                 /\ wanted \subseteq Nodes(memo_capture_each_child(result.capt))
                 /\ Nodes(memo_capture_each_child(result.capt)) \subseteq real
                 /\ w.low < w.high => \A n \in wanted :
                      result.range.low <= n.off /\ n.off + n.len <= result.range.high

(* Every pass returns.  (A grammar that repeats a pattern matching nothing *)
(* is outside: its program loops, as PEG semantics says.)                  *)
ParseTerminates == mode = "run" ~> mode = "idle"

(* The machine uses the table as Peg allows: what Peg promises of every    *)
(* entry (PegProofs) holds of the entries the machine records.             *)
Table == INSTANCE BoundedPeg WITH
    table <- {[e EXCEPT !.res = NoResult] : e \in table},
    Inputs <- Texts,
    Ids <- UNION {DOMAIN Given[n].memos \union DOMAIN Given[n].trees : n \in DOMAIN Given},
    Results <- {NoResult},
    MaxLen <- MaxText,
    MaxExamined <- MaxText + 1,
    MaxEntries <- 1000      \* more than a run records

TableImplementsPeg == Table!BoundedSpec
=============================================================================
