----------------------------- MODULE PegProofs -----------------------------
(***************************************************************************)
(* Proofs about Peg for every alphabet, threshold and text: the            *)
(* table is type correct, coherent with the subject, and its hits stay     *)
(* inside the subject.                                                     *)
(*                                                                         *)
(* None of the three is inductive alone.  That a match lies inside the     *)
(* subject survives an edit because the matched bytes are among the        *)
(* examined ones and are still there; so the invariant, EntryGood of every *)
(* entry, keeps together the snapshot, the place and the matched bytes.    *)
(*                                                                         *)
(* The last part is about Rules: that the entries are true is a fact about *)
(* the snapshot alone, which no edit changes, and coherence carries it to  *)
(* the text.                                                               *)
(***************************************************************************)
EXTENDS Rules, MemoTableProofs

IInv ==
    /\ text \in Seq(Bytes)
    /\ \A e \in table : EntryGood(Bytes, text, e) /\ e.id \in Ids /\ e.res \in Results

(* What clients pass is text.                                              *)
LEMMA TextsAreSequences ==
    ASSUME NEW t \in Inputs
    PROVE  t \in Seq(Bytes) /\ Len(t) \in Nat
BY PegAssumption

---------------------------------------------------------------------------
(* The inductive invariant.                                                *)

LEMMA InitIInv == Init => IInv
BY DEF Init, IInv

LEMMA NextIInv == IInv /\ [Next]_vars => IInv'
<1> SUFFICES ASSUME IInv, [Next]_vars PROVE IInv'
  OBVIOUS
<1> USE DEF IInv
<1>1. CASE UNCHANGED vars BY <1>1 DEF vars
<1>2. ASSUME NEW data \in Inputs, peg_parse(data) PROVE IInv'
  BY <1>2, TextsAreSequences, PegAssumption DEF peg_parse
<1>3. ASSUME NEW id \in Ids, NEW start \in Nat,
             NEW length \in Nat \union {-1}, NEW examined \in Nat \ {0},
             NEW res \in Results, memoize(id, start, length, examined, res)
      PROVE  IInv'
  <2>1. /\ start \in Nat /\ length \in Int /\ examined \in Nat
        /\ examined >= 1 /\ length >= -1 /\ start <= Len(text) /\ length <= Len(text) - start
    BY <1>3, PegAssumption DEF memoize
  <2>2. \A e \in memo_table_put(table, text, id, start, length, examined, res) :
          EntryGood(Bytes, text, e) /\ e.id \in Ids /\ e.res \in Results
    BY <2>1, PutIsGood, PegAssumption
  <2> QED BY <1>3, <2>2 DEF memoize
<1>4. ASSUME NEW start \in Nat, NEW end \in Nat,
             NEW new \in Inputs, peg_edit(start, end, new)
      PROVE  IInv'
  <2>1. /\ start \in Nat /\ end \in Nat /\ start <= end /\ end <= Len(text)
        /\ new \in Seq(Bytes)
    BY <1>4, TextsAreSequences, PegAssumption DEF peg_edit
  <2>2. text' \in Seq(Bytes) BY <1>4, <2>1, SpliceIsText DEF peg_edit
  <2>3. \A f \in memo_table_apply_edit(table, start, end, Len(new)) :
          EntryGood(Bytes, Splice(text, start, end, new), f) /\ f.id \in Ids /\ f.res \in Results
    BY <2>1, ApplyEditIsGood DEF SameData
  <2> QED BY <1>4, <2>2, <2>3 DEF peg_edit
<1>5. ASSUME NEW low \in Nat, NEW high \in Nat,
             peg_capture_interval(low, high)
      PROVE  IInv'
  <2>1. low \in Nat /\ high \in Nat BY PegAssumption
  <2>2. table' \subseteq table
    BY <1>5, <2>1, WindowKeepsEntries DEF peg_capture_interval
  <2> QED BY <1>5, <2>2 DEF peg_capture_interval
<1> QED BY <1>1, <1>2, <1>3, <1>4, <1>5 DEF Next

THEOREM Invariance == Spec => []IInv
<1> QED BY InitIInv, NextIInv, PTL DEF Spec

---------------------------------------------------------------------------
(* What the invariant gives.                                               *)

(* Type correctness of the subject and the table (peg.c, memo.c).          *)
THEOREM TypeCorrect == Spec => []TypeOK
<1>1. IInv => TypeOK BY DEF IInv, EntryGood, IsEntry, EntryOK, TypeOK
<1> QED BY <1>1, Invariance, PTL

(* memo_table_apply_edit never leaves a stale entry: whatever the texts,   *)
(* the edits and the results recorded, every entry that survives sits over *)
(* the bytes it was computed from.                                         *)
THEOREM TableCoherent == Spec => []Coherent
<1>1. IInv => Coherent BY DEF IInv, EntryGood, Coherent
<1> QED BY <1>1, Invariance, PTL

(* The unchecked input_advance of a memo hit never leaves the subject.     *)
THEOREM HitsInside == Spec => []HitStaysInside
<1>1. IInv => HitStaysInside BY MatchInside, PegAssumption DEF IInv, HitStaysInside
<1> QED BY <1>1, Invariance, PTL

(* Edits are incremental: an entry clear of the edit is never lost.        *)
THEOREM ClearEntriesKept == Spec => EditKeepsClearEntries
<1>1. IInv /\ [Next]_vars =>
        [\A start, end \in 0 .. Len(text) : \A new \in Inputs :
           peg_edit(start, end, new) =>
             \A e \in table :
               /\ e.pos + e.examined <= start => e \in table'
               /\ e.pos > end =>
                    [e EXCEPT !.pos = @ + Len(new) - (end - start)] \in table'
        ]_vars
  <2> SUFFICES ASSUME IInv, NEW start \in Nat, NEW end \in Nat,
                      NEW new \in Inputs, peg_edit(start, end, new),
                      NEW e \in table
               PROVE  /\ e.pos + e.examined <= start => e \in table'
                      /\ e.pos > end =>
                           [e EXCEPT !.pos = @ + Len(new) - (end - start)] \in table'
    OBVIOUS
  <2> DEFINE high == IF start = end THEN start + 1 ELSE end
             amt == Len(new) - (end - start)
  <2>1. /\ e.pos \in Nat /\ e.examined \in Nat /\ e.examined >= 1
        /\ start \in Nat /\ end \in Nat /\ start <= end /\ Len(new) \in Nat
    BY PegAssumption, TextsAreSequences DEF IInv, EntryGood, IsEntry, peg_edit
  <2>2. table' = {Shifted(x, start, amt) :
                    x \in {y \in table : ~ Overlaps(y, start, high)}}
    BY DEF peg_edit, memo_table_apply_edit, remove_and_shift
  <2>3. ASSUME e.pos + e.examined <= start PROVE e \in table'
    <3>1. ~ Overlaps(e, start, high) /\ Shifted(e, start, amt) = e
      BY <2>1, <2>3 DEF Overlaps, Shifted
    <3> QED BY <2>2, <3>1
  <2>4. ASSUME e.pos > end
        PROVE  [e EXCEPT !.pos = @ + Len(new) - (end - start)] \in table'
    <3>1. e.pos >= high /\ e.pos >= start BY <2>1, <2>4
    <3>2. e.pos + amt = e.pos + Len(new) - (end - start) BY <2>1
    <3>3. ~ Overlaps(e, start, high) BY <2>1, <3>1 DEF Overlaps
    <3>4. Shifted(e, start, amt) = [e EXCEPT !.pos = @ + Len(new) - (end - start)]
      BY <3>1, <3>2 DEF Shifted
    <3> QED BY <2>2, <3>3, <3>4
  <2> QED BY <2>3, <2>4
<1> QED BY <1>1, Invariance, PTL DEF Spec, EditKeepsClearEntries

---------------------------------------------------------------------------
(* Rules.                                                                  *)

(* The first n bytes an entry was computed from.                           *)
Prefix(e, n) == [i \in 0 .. n - 1 |-> e.seen[i]]

(* The bytes an entry was computed from decide its rule as it says.        *)
DecidedAt(e, n) ==
    /\ Verdict(e.id, Prefix(e, n)) \in Verdicts
    /\ Verdict(e.id, Prefix(e, n)) = [length |-> e.length, res |-> e.res]
    /\ \A m \in 0 .. n - 1 : Verdict(e.id, Prefix(e, m)) \notin Verdicts
EntryDecided(e) == e.id \in Honest => \E n \in 0 .. e.examined : DecidedAt(e, n)

RInv == IInv /\ \A e \in table : EntryDecided(e)

(* A coherent entry has seen what is in the text now.                      *)
LEMMA PrefixIsSnapshot ==
    ASSUME NEW t, NEW e, EntryGood(Bytes, t, e), NEW n \in 0 .. e.examined
    PROVE  Prefix(e, n) = Snapshot(t, e.pos, n)
<1>1. e.examined \in Nat BY DEF EntryGood, IsEntry
<1>2. \A i \in 0 .. n - 1 : i \in 0 .. e.examined - 1 BY <1>1
<1>3. \A i \in 0 .. n - 1 : ByteAt(t, e.pos + i) = e.seen[i]
  BY <1>2 DEF EntryGood
<1> QED BY <1>3 DEF Prefix, Snapshot

(* Moving an entry does not change what it has seen.                       *)
LEMMA MovedStaysDecided ==
    ASSUME NEW e, NEW f, SameData(e, f), EntryDecided(e)
    PROVE  EntryDecided(f)
<1>1. \A n : Prefix(f, n) = Prefix(e, n) BY DEF SameData, Prefix
<1> QED BY <1>1 DEF SameData, EntryDecided, DecidedAt

(* The entry of an honest record is decided, also when memo_table_put      *)
(* raises its extent to the matched length.                                *)
LEMMA RecordIsDecided ==
    ASSUME NEW id, NEW start \in Nat, NEW n \in Nat, NEW examined \in Nat,
           NEW tbl, \A e \in tbl : EntryDecided(e), NEW t,
           Decides(id, t, start, n), n <= examined,
           NEW v, v = Verdict(id, Snapshot(t, start, n)),
           NEW f \in memo_table_put(tbl, t, id, start, v.length, examined, v.res)
    PROVE  EntryDecided(f)
<1> DEFINE k == IF examined < v.length THEN v.length ELSE examined
           new == [id |-> id, pos |-> start, length |-> v.length,
                   examined |-> k, res |-> v.res, seen |-> Snapshot(t, start, k)]
<1>1. v \in Verdicts /\ v.length \in Int BY DEF Decides, Verdicts
<1>2. k \in Nat /\ n <= k BY <1>1
<1>3. v = [length |-> v.length, res |-> v.res] BY <1>1 DEF Verdicts
<1> HIDE DEF k
<1>4. ASSUME NEW m \in 0 .. n PROVE Prefix(new, m) = Snapshot(t, start, m)
  <2>1. \A i \in 0 .. m - 1 : i \in 0 .. k - 1 BY <1>2
  <2>2. \A i \in 0 .. m - 1 : Snapshot(t, start, k)[i] = ByteAt(t, start + i)
    BY <2>1 DEF Snapshot
  <2>3. new.seen = Snapshot(t, start, k) OBVIOUS
  <2> HIDE DEF new
  <2> QED BY <2>2, <2>3 DEF Prefix, Snapshot
<1>5. n \in 0 .. n /\ \A m \in 0 .. n - 1 : m \in 0 .. n OBVIOUS
<1>6. /\ new.id = id /\ new.examined = k /\ new.length = v.length
      /\ new.res = v.res
  OBVIOUS
<1>7. f \in tbl \/ f = new BY DEF memo_table_put, k
<1> HIDE DEF new
<1>8. DecidedAt(new, n)
  BY <1>1, <1>3, <1>4, <1>5, <1>6 DEF DecidedAt, Decides
<1>9. n \in 0 .. new.examined BY <1>2, <1>6
<1> QED BY <1>7, <1>8, <1>9 DEF EntryDecided

(* Recording an honest rule is something that Peg allows a machine to do.  *)
LEMMA RecordIsMemoize ==
    ASSUME NEW id \in Ids, NEW start \in Nat, NEW n \in Nat,
           NEW examined \in Nat \ {0}, record(id, start, n, examined)
    PROVE  Next
<1> DEFINE v == Verdict(id, Snapshot(text, start, n))
<1>1. v.length \in Nat \union {-1} /\ v.res \in Results
  BY DEF record, Decides, Verdicts
<1>2. memoize(id, start, v.length, examined, v.res) BY DEF record
<1> QED BY <1>1, <1>2 DEF Next

LEMMA RuleNextIsNext == [RuleNext]_vars => [Next]_vars
<1>1. \A id \in Ids \intersect Honest : id \in Ids OBVIOUS
<1>2. \A id \in Ids \ Honest : id \in Ids OBVIOUS
<1> QED BY <1>1, <1>2, RecordIsMemoize DEF RuleNext, Next

LEMMA InitRInv == Init => RInv
BY InitIInv DEF Init, RInv

LEMMA NextRInv == RInv /\ [RuleNext]_vars => RInv'
<1> SUFFICES ASSUME RInv, [RuleNext]_vars PROVE RInv'
  OBVIOUS
<1>1. IInv /\ IInv' /\ \A e \in table : EntryDecided(e)
  BY RuleNextIsNext, NextIInv DEF RInv
<1>2. CASE UNCHANGED vars BY <1>1, <1>2 DEF vars, RInv
<1>3. ASSUME NEW data \in Inputs, peg_parse(data) PROVE RInv'
  BY <1>1, <1>3 DEF peg_parse, RInv
<1>4. ASSUME NEW id \in Ids, NEW start \in Nat, NEW n \in Nat,
             NEW examined \in Nat \ {0}, record(id, start, n, examined)
      PROVE  RInv'
  <2> DEFINE v == Verdict(id, Snapshot(text, start, n))
  <2>1. /\ Decides(id, text, start, n) /\ n <= examined
        /\ table' = memo_table_put(table, text, id, start, v.length, examined, v.res)
    BY <1>4 DEF record, memoize
  <2>2. \A f \in table' : EntryDecided(f)
    BY <1>1, <2>1, RecordIsDecided
  <2> QED BY <1>1, <2>2 DEF RInv
<1>5. ASSUME NEW id \in Ids \ Honest, NEW start, NEW length, NEW examined, NEW res,
             memoize(id, start, length, examined, res)
      PROVE  RInv'
  <2>1. \A f \in table' : f \in table \/ f.id = id
    BY <1>5 DEF memoize, memo_table_put
  <2> QED BY <1>1, <2>1 DEF RInv, EntryDecided
<1>6. ASSUME NEW start \in Nat, NEW end \in Nat,
             NEW new \in Inputs, peg_edit(start, end, new)
      PROVE  RInv'
  <2>1. /\ start <= end /\ end <= Len(text) /\ text \in Seq(Bytes)
        /\ new \in Seq(Bytes) /\ \A e \in table : EntryGood(Bytes, text, e)
    BY <1>1, <1>6, TextsAreSequences DEF peg_edit, IInv
  <2>2. \A f \in memo_table_apply_edit(table, start, end, Len(new)) :
          \E e \in table : SameData(e, f)
    BY <2>1, ApplyEditIsGood
  <2>3. \A f \in table' : EntryDecided(f)
    BY <1>1, <1>6, <2>2, MovedStaysDecided DEF peg_edit
  <2> QED BY <1>1, <2>3 DEF RInv
<1>7. ASSUME NEW low \in Nat, NEW high \in Nat,
             peg_capture_interval(low, high)
      PROVE  RInv'
  <2>1. \A e \in table : EntryGood(Bytes, text, e) BY <1>1 DEF IInv
  <2>2. table' \subseteq table
    BY <1>7, <2>1, WindowKeepsEntries DEF peg_capture_interval
  <2> QED BY <1>1, <2>2 DEF RInv
<1> QED BY <1>2, <1>3, <1>4, <1>5, <1>6, <1>7 DEF RuleNext

(* A parser with honest rules and others implements Peg.                   *)
THEOREM RulesImplementPeg == RuleSpec => Spec
<1> QED BY RuleNextIsNext, PTL DEF RuleSpec, Spec

THEOREM RuleInvariance == RuleSpec => []RInv
<1> QED BY InitRInv, NextRInv, PTL DEF RuleSpec

(* Incremental parsing is sound: whatever the texts, the edits, the        *)
(* threshold of memo_table_put and the other rules, a hit of an honest     *)
(* rule yields what executing the rule at that place on the text as it is  *)
(* now would yield.                                                        *)
THEOREM TableTrue == RuleSpec => []TableIsTrue
<1>1. RInv => TableIsTrue
  <2> SUFFICES ASSUME RInv, NEW e \in table, e.id \in Honest
               PROVE  StillTrue(e)
    BY DEF TableIsTrue
  <2>1. PICK n \in 0 .. e.examined : DecidedAt(e, n) BY DEF RInv, EntryDecided
  <2>2. EntryGood(Bytes, text, e) /\ e.examined \in Nat
    BY DEF RInv, IInv, EntryGood, IsEntry
  <2>3. \A m \in 0 .. n : m \in 0 .. e.examined BY <2>2
  <2>4. \A m \in 0 .. n : Prefix(e, m) = Snapshot(text, e.pos, m)
    BY <2>2, <2>3, PrefixIsSnapshot
  <2>5. n \in 0 .. n /\ \A m \in 0 .. n - 1 : m \in 0 .. n BY <2>2
  <2>6. Decides(e.id, text, e.pos, n)
    BY <2>1, <2>4, <2>5 DEF DecidedAt, Decides
  <2> QED BY <2>1, <2>4, <2>5, <2>6 DEF DecidedAt, StillTrue
<1> QED BY <1>1, RuleInvariance, PTL

(* itree_find_largest may return any of the entries of a rule at a place:  *)
(* the fewest bytes that decide the rule there are the same for all.       *)
THEOREM AnswersEqual == RuleSpec => []AnswersAgree
<1>1. TableIsTrue => AnswersAgree
  <2> SUFFICES ASSUME TableIsTrue, NEW e \in table, NEW f \in table,
                      e.id \in Honest, e.id = f.id, e.pos = f.pos
               PROVE  e.length = f.length /\ e.res = f.res
    BY DEF AnswersAgree
  <2>1. PICK n \in 0 .. e.examined :
          /\ Decides(e.id, text, e.pos, n)
          /\ Verdict(e.id, Snapshot(text, e.pos, n))
               = [length |-> e.length, res |-> e.res]
    BY DEF TableIsTrue, StillTrue
  <2>2. PICK k \in 0 .. f.examined :
          /\ Decides(f.id, text, f.pos, k)
          /\ Verdict(f.id, Snapshot(text, f.pos, k))
               = [length |-> f.length, res |-> f.res]
    BY DEF TableIsTrue, StillTrue
  <2>3. ~ (n < k) /\ ~ (k < n)
    <3>1. n < k => n \in 0 .. k - 1 OBVIOUS
    <3>2. k < n => k \in 0 .. n - 1 OBVIOUS
    <3> QED BY <2>1, <2>2, <3>1, <3>2 DEF Decides
  <2>4. n = k BY <2>3
  <2>5. [length |-> e.length, res |-> e.res] = [length |-> f.length, res |-> f.res]
    BY <2>1, <2>2, <2>4
  <2> QED BY <2>5
<1> QED BY <1>1, TableTrue, PTL
=============================================================================
