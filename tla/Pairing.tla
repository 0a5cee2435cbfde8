------------------------------- MODULE Pairing -------------------------------
(***************************************************************************)
(* What the instructions of a program suppose of the stack of vm.c.  An    *)
(* instruction that pops aborts the process unless it finds the kind of    *)
(* entry it was paired with when the pattern was compiled.  A context says *)
(* which entries lie on the stack since the rule was called; a program is  *)
(* paired when every address can be given contexts in which its            *)
(* instruction finds what it expects, whichever way it was reached.        *)
(***************************************************************************)
EXTENDS Machine

(* A context: nothing but the list of captures, or an entry on a context.  *)
Bottom == <<>>
On(c, kind, id) == <<c, kind, id>>
Tops(c, kind) == c # Bottom /\ c[2] = kind

(* A rule does not depend on where it was called from.                     *)
Called == On(Bottom, "ret", 0)

(* However many entries a tree-memoized repetition has on the stack, they  *)
(* are one here: how many is known only when it runs.                      *)
Treed(c, id) == IF Tops(c, "memotree") THEN c ELSE On(c, "memotree", id)

(* What an instruction expects on top of the stack.                        *)
Ready(in, c) ==
    /\ in.op \in {"COMMIT", "PARTIAL_COMMIT", "BACK_COMMIT"} => Tops(c, "btrack")
    /\ in.op = "RETURN" => Tops(c, "ret")
    /\ in.op = "CAPTURE_END" => Tops(c, "capt")
    /\ in.op = "CHECK_END" => Tops(c, "check")
    /\ in.op = "MEMO_CLOSE" => Tops(c, "memo")
    /\ in.op = "MEMO_TREE_INSERT" => Tops(c, "memotree")
    /\ in.op = "MEMO_TREE_OPEN" /\ Tops(c, "memotree") => c[3] = in.b

(* The addresses that the instruction at i leads to from context c, each   *)
(* with its context; for a CALL also where the rule returns to, and for a  *)
(* choice also where it resumes.                                           *)
Leads(in, i, c) ==
    CASE in.op \in {"CHOICE", "TEST_CHAR", "TEST_SET", "TEST_ANY"} ->
           {<<i + 1, On(c, "btrack", 0)>>, <<in.a, c>>}
      [] in.op \in {"TEST_CHAR_NOCHOICE", "TEST_SET_NOCHOICE"} -> {<<i + 1, c>>, <<in.a, c>>}
      [] in.op \in {"JUMP", "PARTIAL_COMMIT"} -> {<<in.a, c>>}
      [] in.op \in {"COMMIT", "BACK_COMMIT"} -> {<<in.a, c[1]>>}
      [] in.op = "CALL" -> {<<in.a, Called>>, <<i + 1, c>>}
      [] in.op \in {"CAPTURE_BEGIN", "CAPTURE_LATE"} -> {<<i + 1, On(c, "capt", 0)>>}
      [] in.op = "CHECK_BEGIN" -> {<<i + 1, On(c, "check", 0)>>}
      [] in.op = "MEMO_OPEN" -> {<<i + 1, On(c, "memo", 0)>>, <<in.a, c>>}
      [] in.op \in {"CAPTURE_END", "CHECK_END", "MEMO_CLOSE"} -> {<<i + 1, c[1]>>}
      [] in.op = "MEMO_TREE_OPEN" -> {<<i + 1, Treed(c, in.b)>>, <<in.a, Treed(c, in.b)>>}
      [] in.op = "MEMO_TREE_CLOSE" ->
           IF Tops(c, "memotree") /\ c[3] = in.a THEN {<<i, c[1]>>} ELSE {<<i + 1, c>>}
      [] in.op \in {"RETURN", "FAIL", "FAIL_TWICE", "END"} -> {}
      [] OTHER -> {<<i + 1, c>>}

(* R gives every address its contexts.                                     *)
Paired(prog, R) ==
    /\ <<0, Bottom>> \in R
    /\ \A p \in R : LET in == prog[p[1] + 1]
                   IN  Ready(in, p[2]) /\ Leads(in, p[1], p[2]) \subseteq R

(* The instructions that can fail, and the ones that push what a failure   *)
(* passes on its way down the stack.                                       *)
Exposed == {"CHAR", "SET", "ANY", "EMPTY", "FAIL", "CALL", "CAPTURE_BEGIN",
            "CAPTURE_LATE", "CHECK_BEGIN", "MEMO_OPEN"}

(* The ids of the results that can be failures.                            *)
PlainIds(prog) == {prog[i].b : i \in {j \in 1 .. Len(prog) : prog[j].op = "MEMO_OPEN"}}

(* No instruction that R reaches exposes a tree entry to a failure, and no *)
(* tree finds a failure recorded.                                          *)
Shielded(prog, R) ==
    /\ \A p \in R : LET in == prog[p[1] + 1]
                       c == p[2]
                   IN  /\ in.op \in Exposed => ~ Tops(c, "memotree")
                       /\ in.op = "FAIL_TWICE" =>
                            Tops(c, "btrack") /\ ~ Tops(c[1], "memotree")
    /\ \A i \in 1 .. Len(prog) :
         prog[i].op = "MEMO_TREE_OPEN" => prog[i].b \notin PlainIds(prog)
=============================================================================
