----------------------------- MODULE BoundedPeg -----------------------------
(***************************************************************************)
(* Peg within bounds, for TLC.                                             *)
(***************************************************************************)
EXTENDS Peg, FiniteSets

CONSTANTS
    MaxLen,         \* bound: length of the subject
    MaxExamined,    \* bound: bytes examined by one entry
    MaxEntries      \* bound: entries in the table

ASSUME BoundsAssumption == MaxLen \in Nat /\ MaxExamined \in Nat /\ MaxEntries \in Nat

BoundedEdit(start, end, new) ==
    /\ Len(text) - (end - start) + Len(new) <= MaxLen
    /\ peg_edit(start, end, new)

BoundedNext ==
    \/ \E data \in Inputs : peg_parse(data)
    \/ /\ Cardinality(table) < MaxEntries
       /\ \E id \in Ids, start \in 0 .. MaxLen, length \in -1 .. MaxLen,
             examined \in 1 .. MaxExamined, res \in Results :
               memoize(id, start, length, examined, res)
    \/ \E start, end \in 0 .. MaxLen, new \in Inputs : BoundedEdit(start, end, new)
    \/ \E low, high \in 0 .. MaxLen : peg_capture_interval(low, high)

BoundedSpec == Init /\ [][BoundedNext]_vars
=============================================================================
