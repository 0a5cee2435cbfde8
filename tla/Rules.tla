------------------------------- MODULE Rules -------------------------------
(***************************************************************************)
(* Peg with rules.  A rule of vm.c reads bytes one after another from the  *)
(* offset where it is tried, and nothing but the bytes it has read tells   *)
(* it how to go on: at some point they decide whether it matches, how much *)
(* and with which captures.  What its instructions do is left open.        *)
(*                                                                         *)
(* A rule is honest if the machine records what it has decided and counts  *)
(* at least the bytes that decided it as examined.  Of other rules         *)
(* anything may be recorded: the runs hit_extent, ahead and boundary show  *)
(* some that vm.c has.                                                     *)
(***************************************************************************)
EXTENDS Peg

CONSTANTS
    Honest,             \* the ids of honest rules
    Verdict(_, _)       \* what rule id makes of the bytes seen, a function on
                        \*   0 .. n - 1: one of Verdicts, or anything else if
                        \*   it has to see more

Verdicts == [length : Nat \union {-1}, res : Results]

(* The first n bytes at offset at decide rule id, and no fewer do.         *)
Decides(id, t, at, n) ==
    /\ Verdict(id, Snapshot(t, at, n)) \in Verdicts
    /\ \A m \in 0 .. n - 1 : Verdict(id, Snapshot(t, at, m)) \notin Verdicts

recordFault(id, start, n, examined) ==
    LET v == Verdict(id, Snapshot(text, start, n))
    IN  Decides(id, text, start, n) /\ memoize(id, start, v.length, examined, v.res)

(* MEMO_CLOSE or the unwinding records rule id, which n bytes decided.     *)
record(id, start, n, examined) ==
    LET v == Verdict(id, Snapshot(text, start, n))
    IN  /\ Decides(id, text, start, n) /\ n <= examined
        /\ memoize(id, start, v.length, examined, v.res)

RuleNext ==
    \/ \E data \in Inputs : peg_parse(data)
    \/ \E id \in Ids \intersect Honest, start, n \in Nat, examined \in Nat \ {0} :
            record(id, start, n, examined)
    \/ \E id \in Ids \ Honest, start \in Nat, length \in Nat \union {-1},
          examined \in Nat \ {0}, res \in Results :
            memoize(id, start, length, examined, res)
    \/ \E start, end \in Nat, new \in Inputs : peg_edit(start, end, new)
    \/ \E low, high \in Nat : peg_capture_interval(low, high)

RuleSpec == Init /\ [][RuleNext]_vars

---------------------------------------------------------------------------
(* Properties.                                                             *)

(* The rule of e, executed on the text as it is and where e is now, yields *)
(* what e says, and within e's extent.                                     *)
StillTrue(e) ==
    \E n \in 0 .. e.examined :
        /\ Decides(e.id, text, e.pos, n)
        /\ Verdict(e.id, Snapshot(text, e.pos, n)) = [length |-> e.length, res |-> e.res]

(* A hit of VM_MEMO_OPEN is worth an execution of the rule, if the rule is *)
(* honest, whatever was edited since the entry was recorded and whatever   *)
(* is recorded of other rules.                                             *)
TableIsTrue == \A e \in table : e.id \in Honest => StillTrue(e)

(* Entries of one honest rule at one offset say the same, also if they     *)
(* come from different texts and have different extents: it does not       *)
(* matter which of them itree_find_largest returns.                        *)
AnswersAgree ==
    \A e, f \in table :
        e.id \in Honest /\ e.id = f.id /\ e.pos = f.pos =>
            e.length = f.length /\ e.res = f.res
=============================================================================
