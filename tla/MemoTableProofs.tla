--------------------------- MODULE MemoTableProofs ---------------------------
(***************************************************************************)
(* Lemmas about the operators of MemoTable: what a splice leaves at each   *)
(* offset, and what storing a result, an edit and a window do to an entry  *)
(* over a text.  EOF is no byte wherever it matters.                       *)
(***************************************************************************)
EXTENDS MemoTable, TLAPS

IsEntry(B, e) ==
    e \in [id : {e.id}, pos : Nat, length : Int, examined : Nat, res : {e.res},
           seen : [0 .. e.examined - 1 -> B \union {EOF}]]

AreEntries(B, tbl) == \A e \in tbl : IsEntry(B, e)

(* An entry over a text t of bytes B: well typed, over the bytes it has    *)
(* examined, which include the ones it matched.                            *)
EntryGood(B, t, e) ==
    /\ IsEntry(B, e)
    /\ e.pos <= Len(t) /\ e.examined >= 1 /\ e.length >= -1 /\ e.length <= e.examined
    /\ \A i \in 0 .. e.examined - 1 : ByteAt(t, e.pos + i) = e.seen[i]
    /\ \A i \in 0 .. e.length - 1 : e.seen[i] \in B

(* Two entries that differ at most in where they are.                      *)
SameData(e, f) ==
    /\ f.id = e.id /\ f.length = e.length /\ f.examined = e.examined
    /\ f.res = e.res /\ f.seen = e.seen

---------------------------------------------------------------------------
(* Texts and splices.                                                      *)

(* A function on 1 .. n is a sequence.                                     *)
LEMMA FunctionIsSequence ==
    ASSUME NEW S, NEW n \in Nat, NEW f \in [1 .. n -> S]
    PROVE  f \in Seq(S) /\ Len(f) = n
OBVIOUS

(* A read inside the text is a byte, any other the end marker.             *)
LEMMA ByteAtType ==
    ASSUME NEW B, EOF \notin B, NEW t \in Seq(B), NEW i \in Nat
    PROVE  /\ ByteAt(t, i) \in B \union {EOF}
           /\ i < Len(t) => ByteAt(t, i) \in B
           /\ ByteAt(t, i) \in B => i < Len(t)
BY DEF ByteAt

(* What peg_edit's memmove and memcpy leave in the buffer.                 *)
LEMMA SpliceIsText ==
    ASSUME NEW B, NEW t \in Seq(B), NEW new \in Seq(B),
           NEW start \in Nat, NEW end \in Nat, start <= end, end <= Len(t)
    PROVE  /\ Splice(t, start, end, new) \in Seq(B)
           /\ Len(Splice(t, start, end, new))
                = Len(t) - (end - start) + Len(new)
<1> DEFINE n == Len(t) - (end - start) + Len(new)
<1>1. n \in Nat OBVIOUS
<1>2. \A i \in 1 .. n :
        (IF i <= start THEN t[i]
         ELSE IF i <= start + Len(new) THEN new[i - start]
         ELSE t[i - Len(new) + (end - start)]) \in B
  OBVIOUS
<1>3. Splice(t, start, end, new) \in [1 .. n -> B]
  BY <1>2 DEF Splice
<1> HIDE DEF n
<1>4. /\ Splice(t, start, end, new) \in Seq(B)
      /\ Len(Splice(t, start, end, new)) = n
  BY <1>1, <1>3, FunctionIsSequence
<1> QED BY <1>4 DEF n

(* Bytes before the edit stay.                                            *)
LEMMA SpliceLeft ==
    ASSUME NEW B, NEW t \in Seq(B), NEW new \in Seq(B),
           NEW start \in Nat, NEW end \in Nat, start <= end, end <= Len(t),
           NEW i \in Nat, i < start
    PROVE  ByteAt(Splice(t, start, end, new), i) = ByteAt(t, i)
<1>1. Len(Splice(t, start, end, new)) = Len(t) - (end - start) + Len(new)
  BY SpliceIsText
<1>2. i + 1 \in 1 .. Len(t) - (end - start) + Len(new) OBVIOUS
<1>3. Splice(t, start, end, new)[i + 1] = t[i + 1]
  BY <1>2 DEF Splice
<1>4. i < Len(t) /\ i < Len(t) - (end - start) + Len(new) OBVIOUS
<1> QED BY <1>1, <1>3, <1>4 DEF ByteAt

(* Bytes behind it move by the change in length.                           *)
LEMMA SpliceRight ==
    ASSUME NEW B, NEW t \in Seq(B), NEW new \in Seq(B),
           NEW start \in Nat, NEW end \in Nat, start <= end, end <= Len(t),
           NEW i \in Nat, i >= end
    PROVE  ByteAt(Splice(t, start, end, new), i + Len(new) - (end - start))
             = ByteAt(t, i)
<1> DEFINE n == Len(t) - (end - start) + Len(new)
           j == i + Len(new) - (end - start)
<1>1. Len(Splice(t, start, end, new)) = n BY SpliceIsText
<1>2. j \in Nat /\ (j < n <=> i < Len(t)) OBVIOUS
<1>3. CASE i < Len(t)
  <2>1. j + 1 \in 1 .. n BY <1>2, <1>3
  <2>2. ~ (j + 1 <= start) /\ ~ (j + 1 <= start + Len(new)) OBVIOUS
  <2>3. (j + 1) - Len(new) + (end - start) = i + 1 OBVIOUS
  <2>4. Splice(t, start, end, new)[j + 1] = t[i + 1]
    BY <2>1, <2>2, <2>3 DEF Splice
  <2> QED BY <1>1, <1>2, <1>3, <2>4 DEF ByteAt
<1>4. CASE ~ (i < Len(t)) BY <1>1, <1>2, <1>4 DEF ByteAt
<1> QED BY <1>3, <1>4

---------------------------------------------------------------------------
(* What each table operation does to one entry.                            *)

(* A recorded entry is good for the text it was computed from.             *)
LEMMA PutIsGood ==
    ASSUME NEW B, EOF \notin B, NEW t \in Seq(B), NEW tbl, \A e \in tbl : EntryGood(B, t, e),
           NEW id, NEW start \in Nat, start <= Len(t),
           NEW length \in Int, length >= -1, length <= Len(t) - start,
           NEW examined \in Nat, examined >= 1, NEW res,
           NEW e \in memo_table_put(tbl, t, id, start, length, examined, res)
    PROVE  EntryGood(B, t, e) /\ (e \in tbl \/ (e.id = id /\ e.res = res))
<1> DEFINE n == IF examined < length THEN length ELSE examined
           new == [id |-> id, pos |-> start, length |-> length,
                   examined |-> n, res |-> res, seen |-> Snapshot(t, start, n)]
<1>1. n \in Nat /\ n >= 1 /\ length <= n OBVIOUS
<1> HIDE DEF n
<1>2. \A i \in 0 .. n - 1 : Snapshot(t, start, n)[i] = ByteAt(t, start + i)
  BY DEF Snapshot
<1>3. Snapshot(t, start, n) \in [0 .. n - 1 -> B \union {EOF}]
  <2>1. \A i \in 0 .. n - 1 : ByteAt(t, start + i) \in B \union {EOF}
    BY <1>1, ByteAtType
  <2> QED BY <2>1 DEF Snapshot
<1>4. \A i \in 0 .. length - 1 : Snapshot(t, start, n)[i] \in B
  <2> SUFFICES ASSUME NEW i \in 0 .. length - 1
               PROVE  Snapshot(t, start, n)[i] \in B
    OBVIOUS
  <2>1. start + i \in Nat /\ start + i < Len(t) /\ i \in 0 .. n - 1 BY <1>1
  <2> QED BY <1>2, <2>1, ByteAtType
<1>5. IsEntry(B, new) BY <1>1, <1>3 DEF IsEntry
<1>6. EntryGood(B, t, new) BY <1>1, <1>2, <1>4, <1>5 DEF EntryGood
<1>7. e \in tbl \/ e = new BY DEF memo_table_put, n
<1>8. new.id = id /\ new.res = res OBVIOUS
<1> HIDE DEF new
<1> QED BY <1>6, <1>7, <1>8

(* An entry clear of the edit to its left keeps its place and its bytes.   *)
LEMMA EditLeft ==
    ASSUME NEW B, NEW t \in Seq(B), NEW new \in Seq(B),
           NEW start \in Nat, NEW end \in Nat, start <= end, end <= Len(t),
           NEW e, EntryGood(B, t, e), e.pos + e.examined <= start
    PROVE  EntryGood(B, Splice(t, start, end, new), e)
<1> DEFINE u == Splice(t, start, end, new)
<1>1. /\ e.pos \in Nat /\ e.examined \in Nat /\ e.examined >= 1
      /\ Len(u) = Len(t) - (end - start) + Len(new)
  BY SpliceIsText DEF EntryGood, IsEntry
<1>2. e.pos <= Len(u) BY <1>1
<1>3. \A i \in 0 .. e.examined - 1 : ByteAt(u, e.pos + i) = e.seen[i]
  <2> SUFFICES ASSUME NEW i \in 0 .. e.examined - 1
               PROVE  ByteAt(u, e.pos + i) = e.seen[i]
    OBVIOUS
  <2>1. e.pos + i \in Nat /\ e.pos + i < start BY <1>1
  <2>2. ByteAt(u, e.pos + i) = ByteAt(t, e.pos + i) BY <2>1, SpliceLeft
  <2> QED BY <2>2 DEF EntryGood
<1> QED BY <1>2, <1>3 DEF EntryGood

(* An entry behind the edit moves with its bytes.                          *)
LEMMA EditRight ==
    ASSUME NEW B, NEW t \in Seq(B), NEW new \in Seq(B),
           NEW start \in Nat, NEW end \in Nat, start <= end, end <= Len(t),
           NEW e, EntryGood(B, t, e), e.pos >= end
    PROVE  EntryGood(B, Splice(t, start, end, new),
                     [e EXCEPT !.pos = @ + (Len(new) - (end - start))])
<1> DEFINE u == Splice(t, start, end, new)
           amt == Len(new) - (end - start)
           f == [e EXCEPT !.pos = @ + amt]
<1>1. /\ e.pos \in Nat /\ e.examined \in Nat /\ e.examined >= 1
      /\ e.pos <= Len(t)
      /\ Len(u) = Len(t) - (end - start) + Len(new)
  BY SpliceIsText DEF EntryGood, IsEntry
<1>2. e.pos + amt \in Nat /\ e.pos + amt <= Len(u) BY <1>1
<1>3. /\ f.pos = e.pos + amt /\ f.examined = e.examined
      /\ f.length = e.length /\ f.seen = e.seen
  BY DEF EntryGood, IsEntry
<1>4. IsEntry(B, f) BY <1>2, <1>3 DEF EntryGood, IsEntry
<1>5. \A i \in 0 .. e.examined - 1 : ByteAt(u, e.pos + amt + i) = e.seen[i]
  <2> SUFFICES ASSUME NEW i \in 0 .. e.examined - 1
               PROVE  ByteAt(u, e.pos + amt + i) = e.seen[i]
    OBVIOUS
  <2> DEFINE k == e.pos + i
  <2>1. k \in Nat /\ k >= end BY <1>1
  <2>2. k + Len(new) - (end - start) = e.pos + amt + i BY <1>1
  <2>3. ByteAt(t, k) = e.seen[i] BY DEF EntryGood
  <2> HIDE DEF k
  <2>4. ByteAt(u, k + Len(new) - (end - start)) = ByteAt(t, k)
    BY <2>1, SpliceRight
  <2> QED BY <2>2, <2>3, <2>4
<1>6. \A i \in 0 .. e.length - 1 : e.seen[i] \in B BY DEF EntryGood
<1>7. f.length <= f.examined BY <1>3 DEF EntryGood
<1> HIDE DEF u, amt, f
<1>8. EntryGood(B, u, f)
  BY <1>1, <1>2, <1>3, <1>4, <1>5, <1>6, <1>7 DEF EntryGood
<1> QED BY <1>8 DEF u, f, amt

(* memo_table_apply_edit keeps only entries clear of the edit.  The edit   *)
(* of a pure insertion covers one byte; an entry that starts behind it     *)
(* starts behind the insertion point.                                      *)
LEMMA ApplyEditIsGood ==
    ASSUME NEW B, NEW t \in Seq(B), NEW new \in Seq(B),
           NEW start \in Nat, NEW end \in Nat, start <= end, end <= Len(t),
           NEW tbl, \A e \in tbl : EntryGood(B, t, e),
           NEW f \in memo_table_apply_edit(tbl, start, end, Len(new))
    PROVE  /\ EntryGood(B, Splice(t, start, end, new), f)
           /\ \E e \in tbl : SameData(e, f)
<1> DEFINE high == IF start = end THEN start + 1 ELSE end
           amt == Len(new) - (end - start)
<1>1. PICK e \in tbl : ~ Overlaps(e, start, high) /\ f = Shifted(e, start, amt)
  BY DEF memo_table_apply_edit, remove_and_shift
<1>2. /\ EntryGood(B, t, e) /\ e.pos \in Nat /\ e.examined \in Nat
      /\ e.examined >= 1
  BY DEF EntryGood, IsEntry
<1>3. SameData(e, f)
  <2> DEFINE g == [e EXCEPT !.pos = @ + amt]
  <2>1. /\ g.id = e.id /\ g.length = e.length /\ g.examined = e.examined
        /\ g.res = e.res /\ g.seen = e.seen
    BY <1>2 DEF EntryGood, IsEntry
  <2> QED BY <1>1, <2>1 DEF Shifted, SameData
<1>4. ASSUME e.pos + e.examined <= start
      PROVE  EntryGood(B, Splice(t, start, end, new), f)
  <2>1. f = e BY <1>1, <1>2, <1>4 DEF Shifted
  <2> QED BY <1>2, <1>4, <2>1, EditLeft
<1>5. ASSUME e.pos >= high
      PROVE  EntryGood(B, Splice(t, start, end, new), f)
  <2>1. e.pos >= start /\ e.pos >= end BY <1>2, <1>5
  <2>2. f = [e EXCEPT !.pos = @ + amt] BY <1>1, <2>1 DEF Shifted
  <2> QED BY <1>2, <2>1, <2>2, EditRight
<1>6. e.pos + e.examined <= start \/ e.pos >= high
  BY <1>1, <1>2 DEF Overlaps
<1> QED BY <1>3, <1>4, <1>5, <1>6

(* The pseudo-edit of a windowed pass moves nothing.                       *)
LEMMA WindowKeepsEntries ==
    ASSUME NEW B, NEW tbl, NEW t, \A e \in tbl : EntryGood(B, t, e),
           NEW low \in Nat, NEW high \in Nat, high > low,
           NEW f \in memo_table_apply_edit(tbl, low, high, high - low)
    PROVE  f \in tbl
<1>1. (high - low) - (high - low) = 0 /\ low # high OBVIOUS
<1>2. PICK e \in tbl : f = Shifted(e, low, 0)
  BY <1>1 DEF memo_table_apply_edit, remove_and_shift
<1>3. e.pos \in Nat /\ IsEntry(B, e) BY DEF EntryGood, IsEntry
<1>4. [e EXCEPT !.pos = @ + 0] = e BY <1>3 DEF IsEntry
<1> QED BY <1>2, <1>4 DEF Shifted

(* The matched bytes are still there.                                      *)
LEMMA MatchInside ==
    ASSUME NEW B, EOF \notin B, NEW t \in Seq(B),
           NEW e, EntryGood(B, t, e), e.length >= 0
    PROVE  e.pos \in Nat /\ e.length \in Nat /\ e.pos + e.length <= Len(t)
<1>1. e.pos \in Nat /\ e.length \in Int /\ e.examined \in Nat
  BY DEF EntryGood, IsEntry
<1>2. CASE e.length = 0 BY <1>1, <1>2 DEF EntryGood
<1>3. CASE e.length > 0
  <2> DEFINE i == e.length - 1
  <2>1. i \in 0 .. e.length - 1 /\ i \in 0 .. e.examined - 1
    BY <1>1, <1>3 DEF EntryGood
  <2>2. ByteAt(t, e.pos + i) \in B BY <2>1 DEF EntryGood
  <2>3. e.pos + i \in Nat BY <1>1, <2>1
  <2>4. e.pos + i < Len(t) BY <2>2, <2>3, ByteAtType
  <2> QED BY <1>1, <2>4
<1> QED BY <1>1, <1>2, <1>3

---------------------------------------------------------------------------
(* What entries yield does not matter to where they are.                   *)

Yielding(e, r) == [e EXCEPT !.res = r]
AllYielding(tbl, r) == {Yielding(e, r) : e \in tbl}

LEMMA YieldingShape ==
    ASSUME NEW B, NEW e, IsEntry(B, e), NEW r
    PROVE  Yielding(e, r) = [id |-> e.id, pos |-> e.pos, length |-> e.length,
                             examined |-> e.examined, res |-> r, seen |-> e.seen]
BY DEF Yielding, IsEntry

(* memo_table_put stores a result without looking at it.                   *)
LEMMA PutYielding ==
    ASSUME NEW tbl, NEW t, NEW id, NEW start, NEW length, NEW examined, NEW res, NEW r
    PROVE  AllYielding(memo_table_put(tbl, t, id, start, length, examined, res), r)
             = memo_table_put(AllYielding(tbl, r), t, id, start, length, examined, r)
<1> DEFINE skip == (Threshold > 0 /\ examined < Threshold) \/ length = 0
           n == IF examined < length THEN length ELSE examined
           seen == Snapshot(t, start, n)
           new == [id |-> id, pos |-> start, length |-> length,
                   examined |-> n, res |-> res, seen |-> seen]
           out == [id |-> id, pos |-> start, length |-> length,
                   examined |-> n, res |-> r, seen |-> seen]
<1>1. /\ memo_table_put(tbl, t, id, start, length, examined, res)
           = IF skip THEN tbl ELSE tbl \union {new}
      /\ memo_table_put(AllYielding(tbl, r), t, id, start, length, examined, r)
           = IF skip THEN AllYielding(tbl, r) ELSE AllYielding(tbl, r) \union {out}
  BY DEF memo_table_put
<1> HIDE DEF skip, n, seen
<1>2. Yielding(new, r) = out BY DEF Yielding
<1> HIDE DEF new, out
<1>3. AllYielding(tbl \union {new}, r) = AllYielding(tbl, r) \union {out}
  BY <1>2 DEF AllYielding
<1> QED BY <1>1, <1>3

(* An edit moves and evicts entries without looking at what they yield.    *)
LEMMA EditYielding ==
    ASSUME NEW B, NEW tbl, AreEntries(B, tbl),
           NEW start, NEW end, NEW len, NEW r
    PROVE  AllYielding(memo_table_apply_edit(tbl, start, end, len), r)
             = memo_table_apply_edit(AllYielding(tbl, r), start, end, len)
<1> DEFINE high == IF start = end THEN start + 1 ELSE end
           amt == len - (end - start)
<1>1. \A x : memo_table_apply_edit(x, start, end, len) = remove_and_shift(x, start, high, amt)
  BY DEF memo_table_apply_edit
<1> HIDE DEF high, amt
<1>2. ASSUME NEW e \in tbl
      PROVE  /\ Overlaps(Yielding(e, r), start, high) <=> Overlaps(e, start, high)
             /\ Shifted(Yielding(e, r), start, amt) = Yielding(Shifted(e, start, amt), r)
  <2> DEFINE p == e.pos + amt
             y == [id |-> e.id, pos |-> e.pos, length |-> e.length,
                   examined |-> e.examined, res |-> r, seen |-> e.seen]
             s == [id |-> e.id, pos |-> p, length |-> e.length,
                   examined |-> e.examined, res |-> e.res, seen |-> e.seen]
             z == [id |-> e.id, pos |-> p, length |-> e.length,
                   examined |-> e.examined, res |-> r, seen |-> e.seen]
  <2>1. IsEntry(B, e) BY DEF AreEntries
  <2>2. Yielding(e, r) = y BY <2>1, YieldingShape
  <2>3. y.pos = e.pos /\ y.examined = e.examined OBVIOUS
  <2>4. [e EXCEPT !.pos = @ + amt] = s BY <2>1 DEF IsEntry
  <2> HIDE DEF p
  <2>5. Yielding(s, r) = z BY DEF Yielding
  <2>6. [y EXCEPT !.pos = p] = z OBVIOUS
  <2>7. [y EXCEPT !.pos = @ + amt] = [y EXCEPT !.pos = p] BY <2>3 DEF p
  <2> HIDE DEF y, s, z
  <2>8. Shifted(e, start, amt) = IF e.pos >= start THEN s ELSE e BY <2>4 DEF Shifted
  <2>9. Shifted(y, start, amt) = IF e.pos >= start THEN z ELSE y
    BY <2>3, <2>6, <2>7 DEF Shifted
  <2>10. Shifted(y, start, amt) = Yielding(Shifted(e, start, amt), r)
    BY <2>2, <2>5, <2>8, <2>9
  <2> QED BY <2>2, <2>3, <2>10 DEF Overlaps
<1>3. AllYielding(remove_and_shift(tbl, start, high, amt), r)
        = remove_and_shift(AllYielding(tbl, r), start, high, amt)
  <2> DEFINE left == {x \in tbl : ~ Overlaps(x, start, high)}
             low == {x \in AllYielding(tbl, r) : ~ Overlaps(x, start, high)}
  <2>1. low = {Yielding(e, r) : e \in left} BY <1>2 DEF AllYielding
  <2>2. \A e \in left : e \in tbl OBVIOUS
  <2>3. remove_and_shift(AllYielding(tbl, r), start, high, amt)
          = {Shifted(y, start, amt) : y \in low}
    BY DEF remove_and_shift
  <2>4. AllYielding(remove_and_shift(tbl, start, high, amt), r)
          = {Yielding(y, r) : y \in {Shifted(e, start, amt) : e \in left}}
    BY DEF remove_and_shift, AllYielding
  <2> HIDE DEF left, low
  <2>5. \A e \in left :
          Shifted(Yielding(e, r), start, amt) = Yielding(Shifted(e, start, amt), r)
    BY <1>2, <2>2
  <2> QED BY <2>1, <2>3, <2>4, <2>5
<1> QED BY <1>1, <1>3

---------------------------------------------------------------------------
(* The interval map.                                                       *)

(* The interval that memo_table_put stores for an entry, with the rest of  *)
(* the entry as its value.                                                 *)
Interval(e) ==
    [val |-> [length |-> e.length, examined |-> e.examined, res |-> e.res, seen |-> e.seen],
     id |-> e.id, low |-> e.pos, high |-> e.pos + e.examined]
Intervals(tbl) == {Interval(e) : e \in tbl}

(* The operators of IntervalArray; its variables play no part in them.     *)
Array == INSTANCE IntervalArray WITH
    NULL <- 0, Vals <- {}, Ids <- {}, Positions <- {}, Adds <- {}, Edits <- {},
    ivals <- {}, ret <- 0

(* Array!Shifted on an interval given by its fields.                       *)
LEMMA FieldsShift ==
    ASSUME NEW v, NEW id, NEW l, NEW h, NEW idx, NEW amt, l >= idx
    PROVE  Array!Shifted([val |-> v, id |-> id, low |-> l, high |-> h], idx, amt)
             = [val |-> v, id |-> id, low |-> l + amt, high |-> h + amt]
<1> DEFINE iv == [val |-> v, id |-> id, low |-> l, high |-> h]
           x == l + amt
           y == h + amt
<1>1. Array!Shifted(iv, idx, amt) = [iv EXCEPT !.low = x, !.high = y]
  BY DEF Array!Shifted
<1> HIDE DEF x, y
<1>2. [iv EXCEPT !.low = x, !.high = y] = [[iv EXCEPT !.low = x] EXCEPT !.high = y]
  OBVIOUS
<1>3. [iv EXCEPT !.low = x] = [val |-> v, id |-> id, low |-> x, high |-> h] OBVIOUS
<1>4. [[val |-> v, id |-> id, low |-> x, high |-> h] EXCEPT !.high = y]
        = [val |-> v, id |-> id, low |-> x, high |-> y]
  OBVIOUS
<1> QED BY <1>1, <1>2, <1>3, <1>4 DEF x, y

LEMMA IntervalShift ==
    ASSUME NEW B, NEW e, IsEntry(B, e), NEW low \in Int, NEW high \in Int, NEW amt \in Int
    PROVE  /\ Array!Overlaps(Interval(e), low, high) <=> Overlaps(e, low, high)
           /\ Array!Shifted(Interval(e), low, amt) = Interval(Shifted(e, low, amt))
<1>1. e.pos \in Nat /\ e.examined \in Nat BY DEF IsEntry
<1>2. Array!Overlaps(Interval(e), low, high) <=> Overlaps(e, low, high)
  BY <1>1 DEF Array!Overlaps, Overlaps, Interval
<1>3. CASE e.pos >= low
  <2> DEFINE f == [e EXCEPT !.pos = @ + amt]
             v == [length |-> e.length, examined |-> e.examined, res |-> e.res,
                   seen |-> e.seen]
  <2>1. /\ f.id = e.id /\ f.length = e.length /\ f.examined = e.examined
        /\ f.res = e.res /\ f.seen = e.seen /\ f.pos = e.pos + amt
    BY DEF IsEntry
  <2>2. Shifted(e, low, amt) = f BY <1>3 DEF Shifted
  <2> HIDE DEF f
  <2>3. Interval(f) = [val |-> v, id |-> e.id, low |-> e.pos + amt,
                       high |-> e.pos + amt + e.examined]
    BY <2>1 DEF Interval
  <2>4. Interval(e) = [val |-> v, id |-> e.id, low |-> e.pos, high |-> e.pos + e.examined]
    BY DEF Interval
  <2>5. e.pos + amt + e.examined = e.pos + e.examined + amt BY <1>1
  <2> HIDE DEF v
  <2>6. Array!Shifted(Interval(e), low, amt)
          = [val |-> v, id |-> e.id, low |-> e.pos + amt, high |-> e.pos + e.examined + amt]
    BY <1>3, <2>4, FieldsShift
  <2> QED BY <1>2, <2>2, <2>3, <2>5, <2>6
<1>4. CASE ~ (e.pos >= low) BY <1>2, <1>4 DEF Array!Shifted, Shifted, Interval
<1> QED BY <1>3, <1>4

(* What memo_table_apply_edit does to the entries is what                  *)
(* itree_remove_and_shift, as IntervalArray has it, does to their          *)
(* intervals.                                                              *)
THEOREM EditOfIntervals ==
    ASSUME NEW B, NEW tbl, AreEntries(B, tbl),
           NEW low \in Int, NEW high \in Int, NEW amt \in Int
    PROVE  Intervals(remove_and_shift(tbl, low, high, amt))
             = {Array!Shifted(iv, low, amt) :
                  iv \in {x \in Intervals(tbl) : ~ Array!Overlaps(x, low, high)}}
<1> DEFINE Clear == {x \in tbl : ~ Overlaps(x, low, high)}
           New == remove_and_shift(tbl, low, high, amt)
           ArrayClear == {x \in Intervals(tbl) : ~ Array!Overlaps(x, low, high)}
           ArrayNew == {Array!Shifted(iv, low, amt) : iv \in ArrayClear}
<1>1. \A e \in tbl :
        /\ Array!Overlaps(Interval(e), low, high) <=> Overlaps(e, low, high)
        /\ Array!Shifted(Interval(e), low, amt) = Interval(Shifted(e, low, amt))
  BY IntervalShift DEF AreEntries
<1>2. ASSUME NEW iv \in Intervals(New) PROVE iv \in ArrayNew
  <2>1. PICK f \in New : iv = Interval(f) BY <1>2 DEF Intervals
  <2>2. PICK e \in Clear : f = Shifted(e, low, amt) BY <2>1 DEF remove_and_shift
  <2>3. Interval(e) \in ArrayClear BY <1>1, <2>2 DEF Intervals
  <2> QED BY <1>1, <2>1, <2>2, <2>3
<1>3. ASSUME NEW iv \in ArrayNew PROVE iv \in Intervals(New)
  <2>1. PICK x \in ArrayClear : iv = Array!Shifted(x, low, amt) BY <1>3
  <2>2. PICK e \in tbl : x = Interval(e) BY <2>1 DEF Intervals
  <2>3. e \in Clear BY <1>1, <2>1, <2>2
  <2>4. Shifted(e, low, amt) \in New BY <2>3 DEF remove_and_shift
  <2> QED BY <1>1, <2>1, <2>2, <2>4 DEF Intervals
<1> QED BY <1>2, <1>3

(* An edit never reorders the intervals it keeps, whatever it removes and  *)
(* inserts: the keys of interval_tree.c are in the same order before a     *)
(* shift as after it, so a search tree that postpones shifts needs no      *)
(* rearranging when it applies them.                                       *)
THEOREM EditKeepsOrder ==
    ASSUME NEW a, NEW b,
           a.low \in Int, a.high \in Int, a.low < a.high,
           b.low \in Int, b.high \in Int, b.low < b.high,
           a = [val |-> a.val, id |-> a.id, low |-> a.low, high |-> a.high],
           b = [val |-> b.val, id |-> b.id, low |-> b.low, high |-> b.high],
           NEW low \in Int, NEW high \in Int, low <= high, NEW amt \in Int,
           amt >= low - high,
           ~ Array!Overlaps(a, low, high), ~ Array!Overlaps(b, low, high),
           Array!Precedes(a, b)
    PROVE  Array!Precedes(Array!Shifted(a, low, amt), Array!Shifted(b, low, amt))
<1> DEFINE By(x) == IF x.low >= low THEN amt ELSE 0
           sa == Array!Shifted(a, low, amt)
           sb == Array!Shifted(b, low, amt)
<1>1. sa.low = a.low + By(a) /\ sa.id = a.id BY DEF Array!Shifted
<1>2. sb.low = b.low + By(b) /\ sb.id = b.id BY DEF Array!Shifted
<1>3. /\ a.low < b.low => a.low + By(a) < b.low + By(b)
      /\ a.low = b.low => By(a) = By(b)
  BY DEF Array!Overlaps
<1> HIDE DEF sa, sb, By
<1>4. a.low < b.low \/ (a.low = b.low /\ a.id <= b.id) BY DEF Array!Precedes
<1>5. Array!Precedes(sa, sb) BY <1>1, <1>2, <1>3, <1>4 DEF Array!Precedes
<1> QED BY <1>5 DEF sa, sb
==============================================================================
