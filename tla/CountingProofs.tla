--------------------------- MODULE CountingProofs ---------------------------
(***************************************************************************)
(* Counting occurrences in lists, and pointers in families of lists: the   *)
(* facts about cardinalities that the proofs of Captures rest on.          *)
(***************************************************************************)
EXTENDS Integers, Sequences, FiniteSets, FiniteSetTheorems, TLAPS

(* How many places of a list hold a member of V.                           *)
Places(s, V) == {i \in DOMAIN s : s[i] \in V}
Occ(s, V) == Cardinality(Places(s, V))

(* The places of the lists f[i], i in D, that hold a member of V.          *)
Pointers(tag, D, f, V) == UNION {{<<tag, i, j>> : j \in Places(f[i], V)} : i \in D}

---------------------------------------------------------------------------
(* Lists.                                                                  *)

(* A list has finitely many places.                                        *)
LEMMA PlacesFinite ==
    ASSUME NEW S, NEW s \in Seq(S), NEW V
    PROVE  IsFiniteSet(Places(s, V)) /\ Occ(s, V) \in Nat
<1>1. Len(s) \in Nat /\ DOMAIN s = 1 .. Len(s) OBVIOUS
<1>2. IsFiniteSet(1 .. Len(s)) BY <1>1, FS_Interval
<1>3. Places(s, V) \in SUBSET (1 .. Len(s)) BY <1>1 DEF Places
<1> QED BY <1>2, <1>3, FS_Subset, FS_CardinalityType DEF Occ

(* Two sets with no common member.                                         *)
LEMMA DisjointUnion ==
    ASSUME NEW A, NEW B, IsFiniteSet(A), IsFiniteSet(B), \A x \in A : x \notin B
    PROVE  /\ IsFiniteSet(A \union B)
           /\ Cardinality(A \union B) = Cardinality(A) + Cardinality(B)
<1>1. A \intersect B = {} OBVIOUS
<1>2. Cardinality(A) \in Nat /\ Cardinality(B) \in Nat BY FS_CardinalityType
<1>3. Cardinality(A \union B) = Cardinality(A) + Cardinality(B) - 0
  BY <1>1, FS_Union, FS_EmptySet
<1>4. IsFiniteSet(A \union B) BY FS_Union
<1> QED BY <1>2, <1>3, <1>4

(* The empty list.                                                         *)
LEMMA OccEmpty == ASSUME NEW V PROVE Occ(<<>>, V) = 0
<1>1. Places(<<>>, V) = {} BY DEF Places
<1> QED BY <1>1, FS_EmptySet DEF Occ

(* The list of one.                                                        *)
LEMMA OccOne == ASSUME NEW x, NEW V PROVE Occ(<<x>>, V) = IF x \in V THEN 1 ELSE 0
<1>1. Places(<<x>>, V) = IF x \in V THEN {1} ELSE {} BY DEF Places
<1> QED BY <1>1, FS_EmptySet, FS_Singleton DEF Occ

(* What is counted is there.                                               *)
LEMMA OccPositive ==
    ASSUME NEW S, NEW s \in Seq(S), NEW V
    PROVE  Occ(s, V) > 0 <=> \E i \in DOMAIN s : s[i] \in V
<1>1. IsFiniteSet(Places(s, V)) /\ Occ(s, V) \in Nat BY PlacesFinite
<1>2. Occ(s, V) = 0 <=> Places(s, V) = {} BY <1>1, FS_EmptySet DEF Occ
<1> QED BY <1>1, <1>2 DEF Places

(* A set moved by a fixed amount has as many members.                      *)
LEMMA ShiftedSet ==
    ASSUME NEW B, IsFiniteSet(B), B \subseteq Int, NEW n \in Int
    PROVE  /\ IsFiniteSet({i + n : i \in B})
           /\ Cardinality({i + n : i \in B}) = Cardinality(B)
<1> DEFINE C == {i + n : i \in B}
           f == [i \in B |-> i + n]
<1>1. f \in Bijection(B, C) BY DEF Bijection, Injection, Surjection, IsInjective
<1>2. ExistsBijection(B, C) BY <1>1 DEF ExistsBijection
<1> QED BY <1>2, FS_Bijection

(* Concatenation adds the counts.                                          *)
LEMMA OccConcat ==
    ASSUME NEW S, NEW s \in Seq(S), NEW t \in Seq(S), NEW V
    PROVE  Occ(s \o t, V) = Occ(s, V) + Occ(t, V)
<1> DEFINE n == Len(s)
           C == {i + n : i \in Places(t, V)}
<1>1. n \in Nat /\ Len(t) \in Nat /\ DOMAIN s = 1 .. n /\ DOMAIN t = 1 .. Len(t)
  OBVIOUS
<1>2. /\ s \o t \in Seq(S) /\ DOMAIN (s \o t) = 1 .. n + Len(t)
      /\ \A i \in 1 .. n + Len(t) :
            (s \o t)[i] = IF i <= n THEN s[i] ELSE t[i - n]
  OBVIOUS
<1>3. Places(s \o t, V) = Places(s, V) \union C
  <2>1. ASSUME NEW i \in Places(s \o t, V) PROVE i \in Places(s, V) \union C
    <3>1. CASE i <= n BY <1>1, <1>2, <3>1 DEF Places
    <3>2. CASE ~ (i <= n)
      <4>1. i - n \in Places(t, V) /\ (i - n) + n = i
        BY <1>1, <1>2, <3>2 DEF Places
      <4> QED BY <4>1
    <3> QED BY <3>1, <3>2
  <2>2. ASSUME NEW i \in Places(s, V) \union C PROVE i \in Places(s \o t, V)
    <3>1. CASE i \in Places(s, V) BY <1>1, <1>2, <3>1 DEF Places
    <3>2. CASE i \in C
      <4>1. PICK k \in Places(t, V) : i = k + n BY <3>2
      <4>2. k \in 1 .. Len(t) /\ t[k] \in V BY <1>1 DEF Places
      <4>3. i \in 1 .. n + Len(t) /\ ~ (i <= n) /\ i - n = k
        BY <1>1, <4>1, <4>2
      <4> QED BY <1>2, <4>2, <4>3 DEF Places
    <3> QED BY <2>2, <3>1, <3>2
  <2> QED BY <2>1, <2>2
<1>4. Places(s, V) \intersect C = {}
  <2> SUFFICES ASSUME NEW k \in Places(t, V), k + n \in Places(s, V) PROVE FALSE
    OBVIOUS
  <2> QED BY <1>1 DEF Places
<1>5. /\ IsFiniteSet(Places(s, V)) /\ IsFiniteSet(Places(t, V))
      /\ Occ(s, V) \in Nat /\ Occ(t, V) \in Nat
  BY PlacesFinite
<1>6. Places(t, V) \subseteq Int BY <1>1 DEF Places
<1>7. IsFiniteSet(C) /\ Cardinality(C) = Cardinality(Places(t, V))
  BY <1>1, <1>5, <1>6, ShiftedSet
<1> HIDE DEF C
<1>8. Cardinality(Places(s, V) \union C) = Cardinality(Places(s, V)) + Cardinality(C) - 0
  BY <1>4, <1>5, <1>7, FS_Union, FS_EmptySet
<1> QED BY <1>3, <1>5, <1>7, <1>8 DEF Occ

---------------------------------------------------------------------------
(* Families of lists.                                                      *)

Lists(D, f, S) == IsFiniteSet(D) /\ \A i \in D : f[i] \in Seq(S)
Total(tag, D, f, V) == Cardinality(Pointers(tag, D, f, V))
Row(tag, s, V, i) == {<<tag, i, j>> : j \in Places(s, V)}

(* The pointers of one list are as many as its places.                     *)
LEMMA RowCount ==
    ASSUME NEW S, NEW s \in Seq(S), NEW i, NEW V, NEW tag
    PROVE  /\ IsFiniteSet(Row(tag, s, V, i))
           /\ Cardinality(Row(tag, s, V, i)) = Occ(s, V)
<1> DEFINE B == Places(s, V)
           R == Row(tag, s, V, i)
           g == [j \in B |-> <<tag, i, j>>]
<1>1. IsFiniteSet(B) BY PlacesFinite
<1> HIDE DEF B
<1>2. R = {<<tag, i, j>> : j \in B} BY DEF Row, B
<1> HIDE DEF R
<1>3. g \in Bijection(B, R)
  BY <1>2 DEF Bijection, Injection, Surjection, IsInjective
<1>4. ExistsBijection(B, R) BY <1>3 DEF ExistsBijection
<1>5. IsFiniteSet(R) /\ Cardinality(R) = Cardinality(B) BY <1>1, <1>4, FS_Bijection
<1> QED BY <1>5 DEF R, B, Occ

(* A finite family of lists has finitely many pointers.                    *)
LEMMA PointersFinite ==
    ASSUME NEW S, NEW D, NEW f, Lists(D, f, S), NEW V, NEW tag
    PROVE  IsFiniteSet(Pointers(tag, D, f, V)) /\ Total(tag, D, f, V) \in Nat
<1> DEFINE rows == {Row(tag, f[i], V, i) : i \in D}
           g == [i \in D |-> Row(tag, f[i], V, i)]
<1>1. \A T \in rows : IsFiniteSet(T) BY RowCount DEF Lists
<1>2. g \in Surjection(D, rows) BY DEF Surjection
<1> HIDE DEF g
<1>3. IsFiniteSet(rows) BY <1>2, FS_Surjection DEF Lists
<1>4. Pointers(tag, D, f, V) = UNION rows BY DEF Pointers, Row
<1> HIDE DEF rows
<1>5. IsFiniteSet(UNION rows) BY <1>1, <1>3, FS_UNION
<1> QED BY <1>4, <1>5, FS_CardinalityType DEF Total

(* Taking one list out of a family takes its occurrences out of the total. *)
LEMMA TotalWithout ==
    ASSUME NEW S, NEW D, NEW f, Lists(D, f, S), NEW V, NEW tag, NEW i \in D
    PROVE  Total(tag, D, f, V) = Total(tag, D \ {i}, f, V) + Occ(f[i], V)
<1> DEFINE R == Row(tag, f[i], V, i)
           P == Pointers(tag, D \ {i}, f, V)
<1>1. Lists(D \ {i}, f, S) BY FS_RemoveElement DEF Lists
<1>2. IsFiniteSet(P) /\ Total(tag, D \ {i}, f, V) \in Nat BY <1>1, PointersFinite
<1>3. f[i] \in Seq(S) BY DEF Lists
<1>4. IsFiniteSet(R) /\ Cardinality(R) = Occ(f[i], V) /\ Occ(f[i], V) \in Nat
  BY <1>3, RowCount, PlacesFinite
<1>5. Pointers(tag, D, f, V) = P \union R BY DEF Pointers, Row
<1>6. P \intersect R = {}
  <2> SUFFICES ASSUME NEW k \in D \ {i}, NEW j, NEW x \in R, x = <<tag, k, j>>
               PROVE  FALSE
    BY DEF Pointers
  <2> QED BY DEF Row
<1> HIDE DEF P, R
<1>7. Cardinality(P \union R) = Cardinality(P) + Cardinality(R) - 0
  BY <1>2, <1>4, <1>6, FS_Union, FS_EmptySet
<1>8. Cardinality(P) = Total(tag, D \ {i}, f, V) BY DEF P, Total
<1> QED BY <1>2, <1>4, <1>5, <1>7, <1>8 DEF Total

(* The total depends on the lists of the family only.                      *)
LEMMA TotalSame ==
    ASSUME NEW D, NEW f, NEW g, \A i \in D : f[i] = g[i], NEW V, NEW tag
    PROVE  Total(tag, D, f, V) = Total(tag, D, g, V)
<1>1. Pointers(tag, D, f, V) = Pointers(tag, D, g, V) BY DEF Pointers
<1> QED BY <1>1 DEF Total

(* One list replaced.                                                      *)
LEMMA TotalChange ==
    ASSUME NEW S, NEW D, NEW f, Lists(D, f, S), NEW i \in D,
           NEW g, \A k \in D \ {i} : g[k] = f[k], g[i] \in Seq(S), NEW V, NEW tag
    PROVE  /\ Lists(D, g, S)
           /\ Total(tag, D, g, V) = Total(tag, D, f, V) - Occ(f[i], V) + Occ(g[i], V)
<1>1. Lists(D, g, S) BY DEF Lists
<1>2. Lists(D \ {i}, f, S) BY FS_RemoveElement DEF Lists
<1>3. /\ Total(tag, D, f, V) = Total(tag, D \ {i}, f, V) + Occ(f[i], V)
      /\ Total(tag, D, g, V) = Total(tag, D \ {i}, g, V) + Occ(g[i], V)
  BY <1>1, TotalWithout
<1>4. Total(tag, D \ {i}, f, V) = Total(tag, D \ {i}, g, V) BY TotalSame
<1>5. f[i] \in Seq(S) BY DEF Lists
<1>6. Occ(f[i], V) \in Nat /\ Occ(g[i], V) \in Nat BY <1>5, PlacesFinite
<1>7. Total(tag, D \ {i}, f, V) \in Nat BY <1>2, PointersFinite
<1> QED BY <1>1, <1>3, <1>4, <1>6, <1>7

(* What is counted is in one of the lists.                                 *)
LEMMA TotalPositive ==
    ASSUME NEW S, NEW D, NEW f, Lists(D, f, S), NEW V, NEW tag
    PROVE  Total(tag, D, f, V) > 0 <=> \E i \in D : \E j \in DOMAIN f[i] : f[i][j] \in V
<1>1. IsFiniteSet(Pointers(tag, D, f, V)) /\ Total(tag, D, f, V) \in Nat
  BY PointersFinite
<1>2. Total(tag, D, f, V) = 0 <=> Pointers(tag, D, f, V) = {}
  BY <1>1, FS_EmptySet DEF Total
<1>3. Pointers(tag, D, f, V) # {} <=> \E i \in D : \E j \in DOMAIN f[i] : f[i][j] \in V
  <2>1. ASSUME NEW i \in D, NEW j \in DOMAIN f[i], f[i][j] \in V
        PROVE  Pointers(tag, D, f, V) # {}
    <3>1. <<tag, i, j>> \in Pointers(tag, D, f, V) BY <2>1 DEF Pointers, Places
    <3> QED BY <3>1
  <2>2. ASSUME NEW x \in Pointers(tag, D, f, V)
        PROVE  \E i \in D : \E j \in DOMAIN f[i] : f[i][j] \in V
    <3>1. PICK i \in D : x \in {<<tag, i, j>> : j \in Places(f[i], V)}
      BY DEF Pointers
    <3> QED BY <3>1 DEF Places
  <2> QED BY <2>1, <2>2
<1> QED BY <1>1, <1>2, <1>3
=============================================================================
