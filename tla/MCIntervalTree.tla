--------------------------- MODULE MCIntervalTree ---------------------------
(***************************************************************************)
(* Client calls for model checking IntervalTree from the empty tree: which *)
(* intervals are inserted and which edits are made.  Each run picks its    *)
(* sets in its cfg.                                                        *)
(***************************************************************************)
EXTENDS IntervalTree

Iv(id, low, high) == [id |-> id, low |-> low, high |-> high]
Ed(low, high, amt) == [low |-> low, high |-> high, amt |-> amt]

(* Run "tree", from the empty tree: two of the intervals share a key, so   *)
(* they share a node; no edit deletes more bytes than an interval has.     *)
LazyAdds == {Iv(1, 0, 2), Iv(1, 2, 4), Iv(1, 2, 5)}
LazyEdits == {Ed(1, 2, 1), Ed(4, 6, -2), Ed(3, 4, 0)}

(* Run "late_shift": a deletion of six bytes right behind a one-byte       *)
(* interval, then an insertion before a node that precedes it.             *)
LateAdds == {Iv(1, 5, 6), Iv(1, 7, 8)}
LateEdits == {Ed(8, 14, -6), Ed(3, 4, 1)}
=============================================================================
