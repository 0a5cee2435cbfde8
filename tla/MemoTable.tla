----------------------------- MODULE MemoTable -----------------------------
(***************************************************************************)
(* The table half of src/memo.c as operators on a set of entries: storing  *)
(* a result, looking one up, and carrying the table over a text edit; and  *)
(* the buffer splice of src/peg.c that goes with the edit.  The interval   *)
(* map is used as IntervalArray specifies it.                              *)
(*                                                                         *)
(* An entry is a record                                                    *)
(*   id, pos      the rule and where the entry starts now                  *)
(*   length       bytes matched, -1 if the rule failed                     *)
(*   examined     bytes examined: the interval is [pos, pos + examined)    *)
(*   res          what the entry yields on a hit (repetitions, captures)   *)
(*   seen         the examined bytes at the time of recording.  No code    *)
(*                keeps this; it is there to state what an entry depends   *)
(*                on.                                                      *)
(* Two entries that agree in all of these are one member of the set.       *)
(*                                                                         *)
(* The operators named Fault, Narrow or Wide are wrong versions that no    *)
(* specification uses (see the README).                                    *)
(***************************************************************************)
EXTENDS Subject

CONSTANT Threshold      \* memo_threshold: smaller entries are not stored

Snapshot(t, start, n) == [i \in 0 .. n - 1 |-> ByteAt(t, start + i)]

---------------------------------------------------------------------------
(* The interval operations of the table, as IntervalArray has them.        *)

OverlapsNarrow(e, low, high) == e.pos < high /\ e.pos + e.examined > low + 1
OverlapsWide(e, low, high) == e.pos < high /\ e.pos + e.examined >= low
Overlaps(e, low, high) == e.pos < high /\ e.pos + e.examined > low

ShiftedFault(e, idx, amt) == [e EXCEPT !.pos = @ + amt]
Shifted(e, idx, amt) == IF e.pos >= idx THEN [e EXCEPT !.pos = @ + amt] ELSE e

remove_and_shift(tbl, low, high, amt) ==
    {Shifted(e, low, amt) : e \in {x \in tbl : ~ Overlaps(x, low, high)}}

memo_table_putFault(tbl, t, id, start, length, examined, res) ==
    IF length = 0 THEN tbl
    ELSE tbl \union {[id |-> id, pos |-> start, length |-> length,
                      examined |-> examined, res |-> res,
                      seen |-> Snapshot(t, start, examined)]}

(* memo_table_put.  A result below the threshold or of length zero is not  *)
(* stored; a stored one examined at least what it matched.                 *)
memo_table_put(tbl, t, id, start, length, examined, res) ==
    IF (Threshold > 0 /\ examined < Threshold) \/ length = 0
      THEN tbl
      ELSE LET n == IF examined < length THEN length ELSE examined
           IN  tbl \union {[id |-> id, pos |-> start, length |-> length,
                            examined |-> n, res |-> res,
                            seen |-> Snapshot(t, start, n)]}

(* memo_table_get: a longest entry of rule id at pos, by examined extent   *)
(* (itree_find_largest compares intervals).  The set of possible answers.  *)
memo_table_get(tbl, id, pos) ==
    LET at == {e \in tbl : e.id = id /\ e.pos = pos}
    IN  {e \in at : \A x \in at : x.examined <= e.examined}

memo_table_apply_editFault(tbl, start, end, len) ==
    remove_and_shift(tbl, start, IF start = end THEN start + 1 ELSE end, len)

(* memo_table_apply_edit.  A pure insertion is widened by one byte, so     *)
(* that it evicts the entries that looked at the insertion point.          *)
memo_table_apply_edit(tbl, start, end, len) ==
    LET high == IF start = end THEN start + 1 ELSE end
    IN  remove_and_shift(tbl, start, high, len - (end - start))

(* The splice of peg_edit: the tail moves, the gap is filled.              *)
Splice(t, start, end, new) ==
    [i \in 1 .. Len(t) - (end - start) + Len(new) |->
        IF i <= start THEN t[i]
        ELSE IF i <= start + Len(new) THEN new[i - start]
        ELSE t[i - Len(new) + (end - start)]]
=============================================================================
