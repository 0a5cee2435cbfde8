--------------------------- MODULE IntervalArray ---------------------------
(***************************************************************************)
(* What the interval map promises its client, the memoization table: a     *)
(* set of labelled half-open intervals that is edited eagerly.  This is    *)
(* the meaning of include/peg/interval_tree.h, and the behaviour of the    *)
(* naive structure tests/interval_array.c, which the repository's          *)
(* randomized test compares the tree with.                                 *)
(*                                                                         *)
(* Every operation publishes its answer in ret, so a refinement of this    *)
(* module must give the same answers and not only hold the same contents.  *)
(***************************************************************************)
EXTENDS Integers, Sequences, FiniteSets, SequencesExt

CONSTANTS
    NULL,           \* the answer of a lookup that finds nothing
    Vals,           \* the values a client stores
    Ids,            \* interval labels (memo ids of grammar rules)
    Positions,      \* positions a client asks about
    Adds,           \* intervals a client inserts, [id, low, high]
    Edits           \* edits a client makes, [low, high, amt]

VARIABLES
    ivals,          \* the stored intervals, [val, id, low, high]
    ret             \* the answer of the last operation

vars == <<ivals, ret>>

(* Two half-open intervals overlap; ones that merely touch do not.         *)
Overlaps(iv, low, high) == iv.low < high /\ iv.high > low

(* A shift moves exactly the intervals that start at or after idx.         *)
Shifted(iv, idx, amt) ==
    IF iv.low >= idx THEN [iv EXCEPT !.low = @ + amt, !.high = @ + amt]
                     ELSE iv

Precedes(a, b) == \/ a.low < b.low
                  \/ a.low = b.low /\ a.id <= b.id

---------------------------------------------------------------------------

Init == ivals = {} /\ ret = [done |-> TRUE]

Add(v, a) ==
    /\ ret' = [added |-> v]
    /\ \A iv \in ivals : iv.val # v
    /\ ivals' = ivals \union
                   {[val |-> v, id |-> a.id, low |-> a.low, high |-> a.high]}

(* Any longest interval at (id, pos) is a correct answer here.  The order  *)
(* in which ties are broken is a separate promise of the header.           *)
FindLargest(id, pos) ==
    LET at == {iv \in ivals : iv.low = pos /\ iv.id = id}
    IN  /\ DOMAIN ret' = {"found"}
        /\ IF at = {}
             THEN ret' = [found |-> NULL]
             ELSE \E iv \in at : /\ \A other \in at : other.high <= iv.high
                                 /\ ret' = [found |-> iv.val]
        /\ UNCHANGED ivals

RemoveAndShift(low, high, amt) ==
    LET evicted == {iv \in ivals : Overlaps(iv, low, high)}
    IN  /\ DOMAIN ret' = {"evicted"}
        /\ ret' = [evicted |-> {iv.val : iv \in evicted}]
        /\ ivals' = {Shifted(iv, low, amt) : iv \in ivals \ evicted}

(* The handle returned for v when it was added gives its present start.    *)
LocPos(v) ==
    /\ DOMAIN ret' = {"pos"}
    /\ \E iv \in ivals : iv.val = v /\ ret' = [pos |-> iv.low]
    /\ UNCHANGED ivals

(* Each visits every interval once, in ascending key order.                *)
Each ==
    /\ DOMAIN ret' = {"each"}
    /\ LET calls == ret'.each
       IN  /\ Len(calls) = Cardinality(ivals)
           /\ ToSet(calls) = ivals
           /\ \A i \in 1 .. Len(calls) - 1 : Precedes(calls[i], calls[i + 1])
    /\ UNCHANGED ivals

Size == ret' = [size |-> Cardinality(ivals)] /\ UNCHANGED ivals

(* Applying every pending shift at once is not observable.                 *)
ApplyAllShifts == ret' = [done |-> TRUE] /\ UNCHANGED ivals

Free == ivals' = {} /\ ret' = [done |-> TRUE]

Next ==
    \/ \E v \in Vals, a \in Adds : Add(v, a)
    \/ \E id \in Ids, pos \in Positions : FindLargest(id, pos)
    \/ \E e \in Edits : RemoveAndShift(e.low, e.high, e.amt)
    \/ \E v \in Vals : LocPos(v)
    \/ Each
    \/ Size
    \/ ApplyAllShifts
    \/ Free

Spec == Init /\ [][Next]_vars
=============================================================================
