------------------------- MODULE CapturesInvariant -------------------------
(***************************************************************************)
(* Proofs about Captures, first part: the references to a capture counted  *)
(* place by place, the inductive invariant, and the steps of the recursive *)
(* functions of memo.c.                                                    *)
(*                                                                         *)
(*   - Counted is RefsCountHolders as sums over the lists, which a step    *)
(*     changes one list at a time (CountingProofs).                        *)
(*   - A capture that goes must have no owner left, or its owner would be  *)
(*     left with nothing to reach it by: Rooted.                           *)
(*   - An entry that goes must own nothing: what it owned would form a     *)
(*     cycle (Rooted and Acyclic).                                         *)
(*   - A pending call must not meet what an earlier one destroyed: Order   *)
(*     and Visits.                                                         *)
(***************************************************************************)
EXTENDS Captures, CountingProofs

Call == [do : {"free", "attach", "absolutize"}, c : Caps, e : Ents \union {NoEnt}]
Only(c) == {c}
FreeOf(c) == {x \in Call : x.do = "free" /\ x.c = c}

(* The references to c: on a stack, in the table, in captures, with the    *)
(* client, and in the calls to memo_capture_free still to be made.         *)
OnStack(st, c) == Total("stack", DOMAIN st, st, Only(c))
InTable(c) == Total("entry", table, held, Only(c))
InCaptures(c) == Total("kid", live, kids, Only(c))
Kept(c) == IF c \in results THEN 1 ELSE 0
Due(td, c) == Occ(td, FreeOf(c))

---------------------------------------------------------------------------
(* Lists of captures and of calls.                                         *)

(* The count of the model is the count of CountingProofs.                  *)
LEMMA CountIsOcc == ASSUME NEW s, NEW c PROVE Count(s, c) = Occ(s, Only(c))
<1>1. {i \in DOMAIN s : s[i] = c} = Places(s, Only(c)) BY DEF Places, Only
<1> QED BY <1>1 DEF Count, Occ

(* memo_capture_ref for a list adds its occurrences.                       *)
LEMMA RefdFacts ==
    ASSUME NEW r \in [Caps -> Nat], NEW s \in Seq(Caps)
    PROVE  /\ Refd(r, s) \in [Caps -> Nat]
           /\ \A c \in Caps : Refd(r, s)[c] = r[c] + Occ(s, Only(c))
<1>1. \A c \in Caps : Count(s, c) = Occ(s, Only(c)) /\ Occ(s, Only(c)) \in Nat
  BY CountIsOcc, PlacesFinite
<1>2. \A c \in Caps : r[c] + Count(s, c) \in Nat BY <1>1
<1>3. Refd(r, s) \in [Caps -> Nat] BY <1>2 DEF Refd
<1>4. \A c \in Caps : Refd(r, s)[c] = r[c] + Count(s, c) BY DEF Refd
<1> QED BY <1>1, <1>3, <1>4

(* One call per capture of a list, in its order.                           *)
LEMMA CallsFacts ==
    ASSUME NEW do \in {"free", "attach", "absolutize"}, NEW s \in Seq(Caps),
           NEW e \in Ents \union {NoEnt}
    PROVE  /\ Calls(do, s, e) \in Seq(Call)
           /\ Len(Calls(do, s, e)) = Len(s)
           /\ \A i \in DOMAIN s : Calls(do, s, e)[i] = [do |-> do, c |-> s[i], e |-> e]
<1>1. Calls(do, s, e) \in [1 .. Len(s) -> Call] BY DEF Calls, Call
<1> QED BY <1>1 DEF Calls

(* Only calls to memo_capture_free carry references.                       *)
LEMMA CallsDue ==
    ASSUME NEW s \in Seq(Caps), NEW e \in Ents \union {NoEnt}, NEW c \in Caps
    PROVE  /\ Due(Calls("free", s, e), c) = Occ(s, Only(c))
           /\ Due(Calls("attach", s, e), c) = 0
           /\ Due(Calls("absolutize", s, e), c) = 0
<1>1. ASSUME NEW do \in {"free", "attach", "absolutize"}
      PROVE  Places(Calls(do, s, e), FreeOf(c))
               = IF do = "free" THEN Places(s, Only(c)) ELSE {}
  <2>1. DOMAIN Calls(do, s, e) = DOMAIN s BY DEF Calls
  <2>2. \A i \in DOMAIN s :
          Calls(do, s, e)[i] \in FreeOf(c) <=> do = "free" /\ s[i] = c
    <3> SUFFICES ASSUME NEW i \in DOMAIN s
                 PROVE  Calls(do, s, e)[i] \in FreeOf(c) <=> do = "free" /\ s[i] = c
      OBVIOUS
    <3> DEFINE x == [do |-> do, c |-> s[i], e |-> e]
    <3>1. x \in Call /\ x.do = do /\ x.c = s[i] BY DEF Call
    <3>2. Calls(do, s, e)[i] = x BY DEF Calls
    <3> HIDE DEF x
    <3> QED BY <3>1, <3>2 DEF FreeOf
  <2> QED BY <2>1, <2>2 DEF Places, Only
<1> QED BY <1>1, FS_EmptySet DEF Due, Occ

(* What is due adds up.                                                    *)
LEMMA DueConcat ==
    ASSUME NEW s \in Seq(Call), NEW t \in Seq(Call), NEW c
    PROVE  /\ Due(s \o t, c) = Due(s, c) + Due(t, c)
           /\ Due(s, c) \in Nat /\ Due(t, c) \in Nat
BY OccConcat, PlacesFinite DEF Due

(* What is due is due for the first call and for the rest.                 *)
LEMMA DueHead ==
    ASSUME NEW td \in Seq(Call), td # <<>>, NEW c
    PROVE  /\ Due(td, c) = Due(Tail(td), c) + (IF Head(td) \in FreeOf(c) THEN 1 ELSE 0)
           /\ Due(Tail(td), c) \in Nat
<1>1. Head(td) \in Call /\ Tail(td) \in Seq(Call) /\ td = <<Head(td)>> \o Tail(td)
  OBVIOUS
<1>2. <<Head(td)>> \in Seq(Call) BY <1>1
<1>3. Due(<<Head(td)>>, c) = IF Head(td) \in FreeOf(c) THEN 1 ELSE 0
  BY OccOne DEF Due
<1>4. /\ Due(<<Head(td)>> \o Tail(td), c) = Due(<<Head(td)>>, c) + Due(Tail(td), c)
      /\ Due(Tail(td), c) \in Nat
  BY <1>1, <1>2, DueConcat
<1>5. Due(td, c) = Due(<<Head(td)>> \o Tail(td), c) BY <1>1
<1> HIDE DEF Due
<1> QED BY <1>3, <1>4, <1>5

---------------------------------------------------------------------------
(* Capture lists on a stack.                                               *)

(* A stack is a finite family of lists.                                    *)
LEMMA StackLists ==
    ASSUME NEW st \in Seq(Seq(Caps)), NEW c
    PROVE  Lists(DOMAIN st, st, Caps) /\ OnStack(st, c) \in Nat
<1>1. Len(st) \in Nat /\ DOMAIN st = 1 .. Len(st) /\ \A i \in DOMAIN st : st[i] \in Seq(Caps)
  OBVIOUS
<1>2. IsFiniteSet(DOMAIN st) BY <1>1, FS_Interval
<1>3. Lists(DOMAIN st, st, Caps) BY <1>1, <1>2 DEF Lists
<1> QED BY <1>3, PointersFinite DEF OnStack

(* Popping takes out the references of the top.                            *)
LEMMA StackDrop ==
    ASSUME NEW st PROVE
    LET b == SubSeq(st, 1, Len(st) - 1)
    IN  st \in Seq(Seq(Caps)) /\ st # <<>> =>
          /\ b \in Seq(Seq(Caps)) /\ Len(b) = Len(st) - 1
          /\ st[Len(st)] \in Seq(Caps)
          /\ \A i \in DOMAIN b : i \in DOMAIN st /\ b[i] = st[i]
          /\ \A c : /\ OnStack(st, c) = OnStack(b, c) + Occ(st[Len(st)], Only(c))
                    /\ OnStack(b, c) \in Nat
<1> DEFINE n == Len(st)
           b == SubSeq(st, 1, n - 1)
<1>0. SUFFICES ASSUME st \in Seq(Seq(Caps)), st # <<>>
      PROVE  /\ b \in Seq(Seq(Caps)) /\ Len(b) = Len(st) - 1
             /\ st[Len(st)] \in Seq(Caps)
             /\ \A i \in DOMAIN b : i \in DOMAIN st /\ b[i] = st[i]
             /\ \A c : /\ OnStack(st, c) = OnStack(b, c) + Occ(st[Len(st)], Only(c))
                       /\ OnStack(b, c) \in Nat
  OBVIOUS
<1>1. n \in Nat /\ n >= 1 /\ DOMAIN st = 1 .. n /\ st[n] \in Seq(Caps) BY <1>0
<1>2. b \in Seq(Seq(Caps)) /\ Len(b) = n - 1 /\ \A i \in 1 .. n - 1 : b[i] = st[i]
  BY <1>0, <1>1
<1>3. /\ n \in DOMAIN st /\ DOMAIN b = DOMAIN st \ {n}
      /\ \A i \in DOMAIN b : b[i] = st[i]
  BY <1>1, <1>2
<1> HIDE DEF b, n
<1>4. ASSUME NEW c
      PROVE  OnStack(st, c) = OnStack(b, c) + Occ(st[n], Only(c)) /\ OnStack(b, c) \in Nat
  <2>1. Lists(DOMAIN st, st, Caps) /\ OnStack(b, c) \in Nat BY <1>0, <1>2, StackLists
  <2>2. Total("stack", DOMAIN st, st, Only(c))
          = Total("stack", DOMAIN st \ {n}, st, Only(c)) + Occ(st[n], Only(c))
    BY <1>3, <2>1, TotalWithout
  <2>3. Total("stack", DOMAIN b, b, Only(c)) = Total("stack", DOMAIN b, st, Only(c))
    BY <1>3, TotalSame
  <2> QED BY <1>3, <2>1, <2>2, <2>3 DEF OnStack
<1>5. \A i \in DOMAIN b : i \in DOMAIN st /\ b[i] = st[i] BY <1>3
<1> QED BY <1>1, <1>2, <1>4, <1>5 DEF b, n

(* stack_add_capt adds the references of a list.                           *)
LEMMA StackAdd ==
    ASSUME NEW st, NEW s PROVE
    LET a == stack_add_capt(st, s)
    IN  st \in Seq(Seq(Caps)) /\ st # <<>> /\ s \in Seq(Caps) =>
          /\ a \in Seq(Seq(Caps)) /\ a # <<>> /\ Len(a) = Len(st)
          /\ a[Len(st)] = st[Len(st)] \o s
          /\ \A c : OnStack(a, c) = OnStack(st, c) + Occ(s, Only(c))
<1> DEFINE n == Len(st)
           a == stack_add_capt(st, s)
<1>0. SUFFICES ASSUME st \in Seq(Seq(Caps)), st # <<>>, s \in Seq(Caps)
      PROVE  /\ a \in Seq(Seq(Caps)) /\ a # <<>> /\ Len(a) = Len(st)
             /\ a[Len(st)] = st[Len(st)] \o s
             /\ \A c : OnStack(a, c) = OnStack(st, c) + Occ(s, Only(c))
  OBVIOUS
<1>1. n \in Nat /\ n >= 1 /\ DOMAIN st = 1 .. n /\ st[n] \in Seq(Caps) BY <1>0
<1>2. st[n] \o s \in Seq(Caps) BY <1>0, <1>1
<1>3. /\ a \in Seq(Seq(Caps)) /\ DOMAIN a = DOMAIN st /\ Len(a) = n
      /\ a[n] = st[n] \o s /\ \A i \in DOMAIN st \ {n} : a[i] = st[i]
  BY <1>0, <1>1, <1>2 DEF stack_add_capt
<1>4. n \in DOMAIN st /\ a[n] \in Seq(Caps) BY <1>1, <1>2, <1>3
<1>5. \A i \in DOMAIN st \ {n} : a[i] = st[i] BY <1>3
<1> HIDE DEF a, n
<1>7. a # <<>> BY <1>1, <1>3
<1>6. ASSUME NEW c PROVE OnStack(a, c) = OnStack(st, c) + Occ(s, Only(c))
  <2>1. Lists(DOMAIN st, st, Caps) /\ OnStack(st, c) \in Nat BY <1>0, StackLists
  <2>2. Total("stack", DOMAIN st, a, Only(c))
          = Total("stack", DOMAIN st, st, Only(c)) - Occ(st[n], Only(c)) + Occ(a[n], Only(c))
    BY <1>4, <1>5, <2>1, TotalChange
  <2>3. Occ(a[n], Only(c)) = Occ(st[n], Only(c)) + Occ(s, Only(c))
    BY <1>0, <1>1, <1>3, OccConcat
  <2>4. Occ(st[n], Only(c)) \in Nat /\ Occ(s, Only(c)) \in Nat
    BY <1>0, <1>1, PlacesFinite
  <2>5. DOMAIN a = DOMAIN st BY <1>3
  <2> QED BY <2>1, <2>2, <2>3, <2>4, <2>5 DEF OnStack
<1> QED BY <1>3, <1>6, <1>7 DEF a, n

(* An empty list adds none.                                                *)
LEMMA StackPush ==
    ASSUME NEW st PROVE
    LET a == Append(st, <<>>)
    IN  st \in Seq(Seq(Caps)) =>
          /\ a \in Seq(Seq(Caps)) /\ a # <<>> /\ Len(a) = Len(st) + 1
          /\ \A c : OnStack(a, c) = OnStack(st, c)
<1> DEFINE n == Len(st) + 1
           a == Append(st, <<>>)
<1>0. SUFFICES ASSUME st \in Seq(Seq(Caps))
      PROVE  /\ a \in Seq(Seq(Caps)) /\ a # <<>> /\ Len(a) = Len(st) + 1
             /\ \A c : OnStack(a, c) = OnStack(st, c)
  OBVIOUS
<1>1. n \in Nat /\ DOMAIN st = 1 .. n - 1 /\ <<>> \in Seq(Caps) BY <1>0
<1>2. /\ a \in Seq(Seq(Caps)) /\ a # <<>> /\ Len(a) = n
      /\ DOMAIN a = DOMAIN st \union {n} /\ n \notin DOMAIN st
      /\ a[n] = <<>> /\ \A i \in DOMAIN st : a[i] = st[i]
  BY <1>0, <1>1
<1>4. \A i \in DOMAIN st : a[i] = st[i] BY <1>2
<1> HIDE DEF a, n
<1>5. ASSUME NEW c PROVE OnStack(a, c) = OnStack(st, c)
  <2>1. Lists(DOMAIN st, st, Caps) /\ OnStack(st, c) \in Nat BY <1>0, StackLists
  <2>2. Total("stack", DOMAIN st \union {n}, a, Only(c))
          = Total("stack", DOMAIN st, st, Only(c)) + Occ(a[n], Only(c))
    <3>1. Lists(DOMAIN a, a, Caps) BY <1>2, StackLists
    <3>2. n \in DOMAIN a /\ DOMAIN a \ {n} = DOMAIN st BY <1>2
    <3>3. Total("stack", DOMAIN a, a, Only(c))
            = Total("stack", DOMAIN a \ {n}, a, Only(c)) + Occ(a[n], Only(c))
      BY <3>1, <3>2, TotalWithout
    <3>4. Total("stack", DOMAIN st, a, Only(c)) = Total("stack", DOMAIN st, st, Only(c))
      BY <1>4, TotalSame
    <3>5. DOMAIN a = DOMAIN st \union {n} BY <1>2
    <3> QED BY <3>2, <3>3, <3>4, <3>5
  <2>3. Occ(a[n], Only(c)) = 0 BY <1>2, OccEmpty
  <2>4. DOMAIN a = DOMAIN st \union {n} BY <1>2
  <2> QED BY <2>1, <2>2, <2>3, <2>4 DEF OnStack
<1> QED BY <1>2, <1>5 DEF a, n

(* An empty stack has none.                                                *)
LEMMA StackEmpty == ASSUME NEW c PROVE OnStack(<<>>, c) = 0
<1>1. Pointers("stack", DOMAIN <<>>, <<>>, Only(c)) = {} BY DEF Pointers
<1> QED BY <1>1, FS_EmptySet DEF OnStack, Total

---------------------------------------------------------------------------
(* The holders of a capture, kind by kind.                                 *)

(* The table and the captures are finite families of lists.                *)
LEMMA FamilyLists ==
    ASSUME TypeOK, IsFiniteSet(table), NEW c
    PROVE  /\ Lists(table, held, Caps) /\ Lists(live, kids, Caps)
           /\ InTable(c) \in Nat /\ InCaptures(c) \in Nat
           /\ OnStack(stack, c) \in Nat /\ Kept(c) \in Nat /\ Due(todo, c) \in Nat
<1>1. IsFiniteSet(live) BY CapturesAssumption, FS_Subset DEF TypeOK
<1>2. Lists(table, held, Caps) /\ Lists(live, kids, Caps) BY <1>1 DEF TypeOK, Lists
<1>3. InTable(c) \in Nat /\ InCaptures(c) \in Nat
  BY <1>2, PointersFinite DEF InTable, InCaptures
<1>4. OnStack(stack, c) \in Nat BY StackLists DEF TypeOK
<1>5. todo \in Seq(Call) BY DEF TypeOK, Call
<1>6. Due(todo, c) \in Nat BY <1>5, PlacesFinite DEF Due
<1> QED BY <1>2, <1>3, <1>4, <1>6 DEF Kept

(* The holders of one kind are pointers of a family.                       *)
LEMMA InListsIsPointers ==
    ASSUME NEW kind, NEW D, NEW f, NEW c
    PROVE  InLists(kind, D, f, c) = Pointers(kind, D, f, Only(c))
BY DEF InLists, Pointers, Places, Only

(* The holders of a capture, counted kind by kind.                         *)
LEMMA HoldersCounted ==
    ASSUME TypeOK, IsFiniteSet(table), NEW c \in Caps
    PROVE  Cardinality(Holders(c))
             = OnStack(stack, c) + InTable(c) + InCaptures(c) + Kept(c) + Due(todo, c)
<1> DEFINE A == Pointers("stack", DOMAIN stack, stack, Only(c))
           B == Pointers("entry", table, held, Only(c))
           C == Pointers("kid", live, kids, Only(c))
           K == {<<"client", r, 0>> : r \in results \intersect {c}}
           T == {<<"todo", 0, j>> : j \in Places(todo, FreeOf(c))}
<1>1. Holders(c) = (((A \union B) \union C) \union K) \union T
  <2>1. /\ InLists("stack", DOMAIN stack, stack, c) = A
        /\ InLists("entry", table, held, c) = B
        /\ InLists("kid", live, kids, c) = C
    BY InListsIsPointers
  <2>2. Places(todo, FreeOf(c)) = {j \in DOMAIN todo : todo[j].do = "free" /\ todo[j].c = c}
    <3>1. todo \in Seq(Call) BY DEF TypeOK, Call
    <3>2. \A j \in DOMAIN todo : todo[j] \in Call BY <3>1
    <3> QED BY <3>2 DEF Places, FreeOf
  <2>3. {<<"todo", 0, j>> :
           j \in {j \in DOMAIN todo : todo[j].do = "free" /\ todo[j].c = c}} = T
    BY <2>2
  <2> HIDE DEF A, B, C, K, T
  <2>4. {<<"client", r, 0>> : r \in results \intersect {c}} = K BY DEF K
  <2> QED BY <2>1, <2>3, <2>4, Zenon DEF Holders
<1>2. /\ IsFiniteSet(A) /\ Cardinality(A) = OnStack(stack, c)
      /\ IsFiniteSet(B) /\ Cardinality(B) = InTable(c)
      /\ IsFiniteSet(C) /\ Cardinality(C) = InCaptures(c)
  <2>1. stack \in Seq(Seq(Caps)) BY DEF TypeOK
  <2>2. Lists(DOMAIN stack, stack, Caps) BY <2>1, StackLists
  <2> QED BY <2>2, FamilyLists, PointersFinite DEF OnStack, InTable, InCaptures, Total
<1>3. IsFiniteSet(K) /\ Cardinality(K) = Kept(c)
  <2>1. K = IF c \in results THEN {<<"client", c, 0>>} ELSE {} OBVIOUS
  <2> QED BY <2>1, FS_EmptySet, FS_Singleton DEF Kept
<1>4. IsFiniteSet(T) /\ Cardinality(T) = Due(todo, c)
  <2>1. todo \in Seq(Call) BY DEF TypeOK, Call
  <2>2. T = Row("todo", todo, FreeOf(c), 0) BY DEF Row
  <2> QED BY <2>1, <2>2, RowCount DEF Due
<1>5. /\ \A x \in A : x[1] = "stack"
      /\ \A x \in B : x[1] = "entry"
      /\ \A x \in C : x[1] = "kid"
      /\ \A x \in K : x[1] = "client"
      /\ \A x \in T : x[1] = "todo"
  BY DEF Pointers
<1> HIDE DEF A, B, C, K, T
<1>6. IsFiniteSet(A \union B) /\ Cardinality(A \union B) = Cardinality(A) + Cardinality(B)
  <2>1. \A x \in A : x \notin B BY <1>5
  <2> QED BY <1>2, <2>1, DisjointUnion
<1>7. /\ IsFiniteSet((A \union B) \union C)
      /\ Cardinality((A \union B) \union C) = Cardinality(A \union B) + Cardinality(C)
  <2>1. \A x \in A \union B : x \notin C BY <1>5
  <2> QED BY <1>2, <1>6, <2>1, DisjointUnion
<1>8. /\ IsFiniteSet(((A \union B) \union C) \union K)
      /\ Cardinality(((A \union B) \union C) \union K)
           = Cardinality((A \union B) \union C) + Cardinality(K)
  <2>1. \A x \in (A \union B) \union C : x \notin K BY <1>5
  <2> QED BY <1>3, <1>7, <2>1, DisjointUnion
<1>9. Cardinality((((A \union B) \union C) \union K) \union T)
        = Cardinality(((A \union B) \union C) \union K) + Cardinality(T)
  <2>1. \A x \in ((A \union B) \union C) \union K : x \notin T BY <1>5
  <2> QED BY <1>4, <1>8, <2>1, DisjointUnion
<1> QED BY <1>1, <1>2, <1>3, <1>4, <1>6, <1>7, <1>8, <1>9, FamilyLists

---------------------------------------------------------------------------
(* The inductive invariant.                                                *)

In(x, s) == \E i \in DOMAIN s : s[i] = x
Pend(do, x) == \E i \in DOMAIN todo : todo[i].do = do /\ todo[i].c = x

(* A stack exists during a run and until its end has cleared it; an entry  *)
(* that is being destroyed has given its references to the pending calls.  *)
Control ==
    /\ mode \in {"idle", "edit"} => stack = <<>>
    /\ mode = "run" => stack # <<>>
    /\ dying # NoEnt => held[dying] = <<>>

(* RefsCountHolders, kind by kind.                                         *)
Counted ==
    \A c \in Caps :
        /\ refs[c] = OnStack(stack, c) + InTable(c) + InCaptures(c) + Kept(c) + Due(todo, c)
        /\ c \in live <=> refs[c] > 0

(* Captures are absolutized before any is freed, and freed before any is   *)
(* attached.                                                               *)
Order ==
    \A i, j \in DOMAIN todo : i < j =>
        /\ todo[i].do = "attach" => todo[j].do = "attach"
        /\ todo[j].do = "absolutize" => todo[i].do = "absolutize"

(* A capture to be attached is in the list of its entry, or a child of one *)
(* that is attached; one to be absolutized has not been freed.             *)
Visits ==
    \A i \in DOMAIN todo :
        /\ todo[i].do = "attach" =>
             /\ todo[i].e \in table /\ dying = NoEnt
             /\ \/ In(todo[i].c, held[todo[i].e])
                \/ \E p \in live : ment[p] = todo[i].e /\ In(todo[i].c, kids[p])
        /\ todo[i].do = "absolutize" =>
             dying # NoEnt /\ todo[i].e = dying /\ todo[i].c \in live

(* The captures of an entry hang together: each is in its list, or is a    *)
(* child of another, or is about to be absolutized.                        *)
Rooted ==
    \A c \in live : ment[c] # NoEnt =>
        /\ ment[c] \in table
        /\ \/ In(c, held[ment[c]])
           \/ \E p \in live : ment[p] = ment[c] /\ In(c, kids[p])
           \/ ment[c] = dying /\ Pend("absolutize", c)

(* No capture is its own descendant: any set of captures has one without a *)
(* parent in the set.                                                      *)
Acyclic ==
    \A S \in SUBSET live : S # {} => \E c \in S : \A p \in S : ~ In(c, kids[p])

(* Attached, but for what is still to be visited.                          *)
Settled(c) == ment[c] # NoEnt \/ c \in lost \/ Pend("attach", c)
AttachedSoon ==
    /\ \A e \in table : \A c : In(c, held[e]) => Settled(c)
    /\ \A p \in live : ment[p] # NoEnt => \A c : In(c, kids[p]) => Settled(c)

Counts == TypeOK /\ IsFiniteSet(table) /\ Control /\ Counted
Structure == Order /\ Visits /\ Rooted /\ Acyclic /\ AttachedSoon
IInv == Counts /\ Structure

---------------------------------------------------------------------------
(* What the counts say.                                                    *)

(* Whatever is pointed to is allocated.                                    *)
AllLive(s) == \A i \in DOMAIN s : s[i] \in live

(* A capture is counted where it is in a list.                             *)
LEMMA OccOnly ==
    ASSUME NEW s, NEW c, s \in Seq(Caps)
    PROVE  /\ Occ(s, Only(c)) \in Nat
           /\ Occ(s, Only(c)) > 0 <=> In(c, s)
BY PlacesFinite, OccPositive DEF In, Only

(* Whatever a list, the client or a pending free points to is allocated.   *)
LEMMA PointedAlive ==
    ASSUME Counts
    PROVE  /\ \A i \in DOMAIN stack : AllLive(stack[i])
           /\ \A e \in table : AllLive(held[e])
           /\ \A p \in live : AllLive(kids[p])
           /\ results \subseteq live
           /\ \A i \in DOMAIN todo : todo[i].do = "free" => todo[i].c \in live
<1>0. TypeOK /\ IsFiniteSet(table) /\ Counted BY DEF Counts
<1>1. ASSUME NEW c \in Caps,
             OnStack(stack, c) > 0 \/ InTable(c) > 0 \/ InCaptures(c) > 0
               \/ Kept(c) > 0 \/ Due(todo, c) > 0
      PROVE  c \in live
  <2>1. /\ InTable(c) \in Nat /\ InCaptures(c) \in Nat
        /\ OnStack(stack, c) \in Nat /\ Kept(c) \in Nat /\ Due(todo, c) \in Nat
    BY <1>0, FamilyLists
  <2> QED BY <1>0, <1>1, <2>1 DEF Counted
<1>2. ASSUME NEW i \in DOMAIN stack, NEW j \in DOMAIN stack[i] PROVE stack[i][j] \in live
  <2> DEFINE c == stack[i][j]
  <2>1. stack \in Seq(Seq(Caps)) BY <1>0 DEF TypeOK
  <2>2. stack[i] \in Seq(Caps) BY <2>1
  <2>3. c \in Caps BY <2>2
  <2>4. Lists(DOMAIN stack, stack, Caps) BY <2>1, StackLists
  <2>5. \E k \in DOMAIN stack : \E l \in DOMAIN stack[k] : stack[k][l] \in Only(c)
    BY DEF Only
  <2> HIDE DEF c
  <2>6. OnStack(stack, c) > 0 BY <2>4, <2>5, TotalPositive DEF OnStack
  <2> QED BY <1>1, <2>3, <2>6 DEF c
<1>3. ASSUME NEW e \in table, NEW j \in DOMAIN held[e] PROVE held[e][j] \in live
  <2> DEFINE c == held[e][j]
  <2>1. held[e] \in Seq(Caps) BY <1>0 DEF TypeOK
  <2>2. c \in Caps BY <2>1
  <2>3. Lists(table, held, Caps) BY <1>0, FamilyLists
  <2>4. \E k \in table : \E l \in DOMAIN held[k] : held[k][l] \in Only(c) BY DEF Only
  <2> HIDE DEF c
  <2>5. InTable(c) > 0 BY <2>3, <2>4, TotalPositive DEF InTable
  <2> QED BY <1>1, <2>2, <2>5 DEF c
<1>4. ASSUME NEW p \in live, NEW j \in DOMAIN kids[p] PROVE kids[p][j] \in live
  <2> DEFINE c == kids[p][j]
  <2>1. kids[p] \in Seq(Caps) BY <1>0 DEF TypeOK
  <2>2. c \in Caps BY <2>1
  <2>3. Lists(live, kids, Caps) BY <1>0, FamilyLists
  <2>4. \E k \in live : \E l \in DOMAIN kids[k] : kids[k][l] \in Only(c) BY DEF Only
  <2> HIDE DEF c
  <2>5. InCaptures(c) > 0 BY <2>3, <2>4, TotalPositive DEF InCaptures
  <2> QED BY <1>1, <2>2, <2>5 DEF c
<1>5. ASSUME NEW c \in results PROVE c \in live
  BY <1>0, <1>1 DEF TypeOK, Kept
<1>6. ASSUME NEW i \in DOMAIN todo, todo[i].do = "free" PROVE todo[i].c \in live
  <2>1. todo \in Seq(Call) BY <1>0 DEF TypeOK, Call
  <2>2. todo[i] \in Call BY <2>1
  <2>3. todo[i].c \in Caps /\ todo[i] \in FreeOf(todo[i].c) BY <1>6, <2>2 DEF Call, FreeOf
  <2>4. Due(todo, todo[i].c) > 0 BY <2>1, <2>3, OccPositive DEF Due
  <2> QED BY <1>1, <2>3, <2>4
<1> QED BY <1>2, <1>3, <1>4, <1>5, <1>6 DEF AllLive

(* What is not allocated is in no list.                                    *)
LEMMA DeadNowhere ==
    ASSUME Counts, NEW c \in Caps, c \notin live
    PROVE  /\ refs[c] = 0
           /\ \A e \in table : ~ In(c, held[e])
           /\ \A p \in live : ~ In(c, kids[p])
<1>1. refs[c] = 0 BY DEF Counts, Counted, TypeOK
<1> QED BY <1>1, PointedAlive DEF AllLive, In

(* The last reference to a capture, held by a pending call, is the only    *)
(* pointer to it.                                                          *)
LEMMA LastReference ==
    ASSUME Counts, NEW c \in Caps, refs[c] = 1, Due(todo, c) >= 1
    PROVE  /\ \A e \in table : ~ In(c, held[e])
           /\ \A p \in live : ~ In(c, kids[p])
<1>0. TypeOK /\ IsFiniteSet(table) BY DEF Counts
<1>1. /\ InTable(c) \in Nat /\ InCaptures(c) \in Nat
      /\ OnStack(stack, c) \in Nat /\ Kept(c) \in Nat /\ Due(todo, c) \in Nat
      /\ Lists(table, held, Caps) /\ Lists(live, kids, Caps)
  BY <1>0, FamilyLists
<1>2. InTable(c) = 0 /\ InCaptures(c) = 0 BY <1>1 DEF Counts, Counted
<1>3. ASSUME NEW e \in table, In(c, held[e]) PROVE FALSE
  <2>1. \E k \in table : \E l \in DOMAIN held[k] : held[k][l] \in Only(c)
    BY <1>3 DEF In, Only
  <2> QED BY <1>1, <1>2, <2>1, TotalPositive DEF InTable
<1>4. ASSUME NEW p \in live, In(c, kids[p]) PROVE FALSE
  <2>1. \E k \in live : \E l \in DOMAIN kids[k] : kids[k][l] \in Only(c)
    BY <1>4 DEF In, Only
  <2> QED BY <1>1, <1>2, <2>1, TotalPositive DEF InCaptures
<1> QED BY <1>3, <1>4

---------------------------------------------------------------------------
(* The recursive functions of memo.c.                                      *)

(* A call returns: its own calls come first, the others stay.              *)
LEMMA ReturnFacts ==
    ASSUME NEW td, NEW new, NEW td1,
           td \in Seq(Call), td # <<>>, new \in Seq(Call), td1 = new \o Tail(td)
    PROVE  /\ td1 \in Seq(Call)
           /\ \A i \in DOMAIN td1 :
                IF i <= Len(new) THEN i \in DOMAIN new /\ td1[i] = new[i]
                ELSE /\ i - Len(new) + 1 \in DOMAIN td /\ i - Len(new) + 1 > 1
                     /\ td1[i] = td[i - Len(new) + 1]
           /\ \A i \in DOMAIN new : i \in DOMAIN td1 /\ td1[i] = new[i]
           /\ \A k \in DOMAIN td : k > 1 =>
                k + Len(new) - 1 \in DOMAIN td1 /\ td1[k + Len(new) - 1] = td[k]
<1>1. /\ Tail(td) \in Seq(Call) /\ Len(td) \in Nat /\ Len(td) >= 1 /\ Len(new) \in Nat
      /\ Len(Tail(td)) = Len(td) - 1
      /\ \A i \in 1 .. Len(td) - 1 : Tail(td)[i] = td[i + 1]
  OBVIOUS
<1>2. /\ td1 \in Seq(Call) /\ Len(td1) = Len(new) + (Len(td) - 1)
      /\ \A i \in 1 .. Len(new) + (Len(td) - 1) :
            td1[i] = IF i <= Len(new) THEN new[i] ELSE Tail(td)[i - Len(new)]
  BY <1>1
<1>3. /\ DOMAIN td1 = 1 .. Len(new) + (Len(td) - 1)
      /\ DOMAIN td = 1 .. Len(td) /\ DOMAIN new = 1 .. Len(new)
  BY <1>2
<1>4. ASSUME NEW i \in DOMAIN td1
      PROVE  IF i <= Len(new) THEN i \in DOMAIN new /\ td1[i] = new[i]
             ELSE /\ i - Len(new) + 1 \in DOMAIN td /\ i - Len(new) + 1 > 1
                  /\ td1[i] = td[i - Len(new) + 1]
  BY <1>1, <1>2, <1>3
<1>5. ASSUME NEW k \in DOMAIN td, k > 1
      PROVE  k + Len(new) - 1 \in DOMAIN td1 /\ td1[k + Len(new) - 1] = td[k]
  <2>1. k + Len(new) - 1 \in 1 .. Len(new) + (Len(td) - 1) /\ ~ (k + Len(new) - 1 <= Len(new))
    BY <1>1, <1>3, <1>5
  <2>2. (k + Len(new) - 1) - Len(new) \in 1 .. Len(td) - 1
        /\ (k + Len(new) - 1) - Len(new) + 1 = k
    BY <1>1, <1>3, <1>5
  <2> QED BY <1>1, <1>2, <1>3, <2>1, <2>2
<1>6. \A i \in DOMAIN new : i \in DOMAIN td1 /\ td1[i] = new[i] BY <1>1, <1>2, <1>3
<1> QED BY <1>2, <1>4, <1>5, <1>6

(* The first pending call.                                                 *)
LEMMA PendingFacts ==
    ASSUME IInv, NEW do, Pending(do)
    PROVE  /\ todo \in Seq(Call) /\ todo # <<>> /\ 1 \in DOMAIN todo
           /\ Head(todo) = todo[1] /\ Head(todo) \in Call
           /\ Target \in Caps /\ todo[1].c = Target /\ todo[1].do = do
           /\ \A i \in DOMAIN todo : i = 1 \/ 1 < i
           /\ do = "attach" => \A i \in DOMAIN todo : todo[i].do = "attach"
           /\ do # "absolutize" => \A i \in DOMAIN todo : todo[i].do # "absolutize"
<1>1. todo \in Seq(Call) /\ todo # <<>> BY DEF IInv, Counts, TypeOK, Call, Pending
<1>2. /\ 1 \in DOMAIN todo /\ Head(todo) = todo[1] /\ Head(todo) \in Call
      /\ \A i \in DOMAIN todo : i = 1 \/ 1 < i
  BY <1>1
<1>3. Target \in Caps /\ todo[1].c = Target /\ todo[1].do = do
  BY <1>2 DEF Target, Pending, Call
<1>4. Order BY DEF IInv, Structure
<1>5. /\ do = "attach" => \A i \in DOMAIN todo : todo[i].do = "attach"
      /\ do # "absolutize" => \A i \in DOMAIN todo : todo[i].do # "absolutize"
  BY <1>2, <1>3, <1>4 DEF Order
<1> QED BY <1>1, <1>2, <1>3, <1>5

(* A call that makes calls of its own kind keeps the order.                *)
LEMMA OrderKept ==
    ASSUME IInv, NEW do, Pending(do), NEW new \in Seq(Call),
           \A i \in DOMAIN new : new[i].do = do, todo' = new \o Tail(todo)
    PROVE  Order'
<1>1. todo \in Seq(Call) /\ todo # <<>> /\ 1 \in DOMAIN todo /\ todo[1].do = do BY PendingFacts
<1>2. Order BY DEF IInv, Structure
<1>3. /\ \A i \in DOMAIN todo' :
           IF i <= Len(new) THEN i \in DOMAIN new /\ todo'[i] = new[i]
           ELSE /\ i - Len(new) + 1 \in DOMAIN todo /\ i - Len(new) + 1 > 1
                /\ todo'[i] = todo[i - Len(new) + 1]
      /\ todo' \in Seq(Call)
  BY <1>1, ReturnFacts
<1>4. SUFFICES ASSUME NEW i \in DOMAIN todo', NEW j \in DOMAIN todo', i < j
      PROVE  /\ todo'[i].do = "attach" => todo'[j].do = "attach"
             /\ todo'[j].do = "absolutize" => todo'[i].do = "absolutize"
  BY DEF Order
<1>5. i \in Int /\ j \in Int /\ Len(new) \in Nat BY <1>3
<1>6. CASE i <= Len(new) /\ j <= Len(new) BY <1>3, <1>6
<1>7. CASE i <= Len(new) /\ ~ (j <= Len(new))
  <2>1. PICK l \in DOMAIN todo : 1 < l /\ todo'[j] = todo[l] BY <1>3, <1>7
  <2>2. todo'[i].do = todo[1].do BY <1>1, <1>3, <1>7
  <2>3. /\ todo[1].do = "attach" => todo[l].do = "attach"
        /\ todo[l].do = "absolutize" => todo[1].do = "absolutize"
    BY <1>1, <1>2, <2>1 DEF Order
  <2> QED BY <2>1, <2>2, <2>3
<1>8. CASE ~ (i <= Len(new)) /\ ~ (j <= Len(new))
  <2>1. PICK k \in DOMAIN todo : k = i - Len(new) + 1 /\ todo'[i] = todo[k] BY <1>3, <1>8
  <2>2. PICK l \in DOMAIN todo : l = j - Len(new) + 1 /\ todo'[j] = todo[l] BY <1>3, <1>8
  <2>3. k < l BY <1>4, <1>5, <2>1, <2>2
  <2>4. /\ todo[k].do = "attach" => todo[l].do = "attach"
        /\ todo[l].do = "absolutize" => todo[k].do = "absolutize"
    BY <1>2, <2>3 DEF Order
  <2> QED BY <2>1, <2>2, <2>4
<1> QED BY <1>4, <1>5, <1>6, <1>7, <1>8

(* What is due when the first call returns.                                *)
LEMMA DueReturn ==
    ASSUME todo \in Seq(Call), todo # <<>>, NEW new \in Seq(Call), todo' = new \o Tail(todo),
           NEW c
    PROVE  /\ Due(todo', c) = Due(new, c) + Due(Tail(todo), c)
           /\ Due(todo, c) = Due(Tail(todo), c) + (IF Head(todo) \in FreeOf(c) THEN 1 ELSE 0)
           /\ Due(new, c) \in Nat /\ Due(Tail(todo), c) \in Nat
<1>1. Tail(todo) \in Seq(Call) OBVIOUS
<1>2. /\ Due(new \o Tail(todo), c) = Due(new, c) + Due(Tail(todo), c)
      /\ Due(new, c) \in Nat /\ Due(Tail(todo), c) \in Nat
  BY <1>1, DueConcat
<1>3. Due(todo', c) = Due(new \o Tail(todo), c) OBVIOUS
<1>4. Due(todo, c) = Due(Tail(todo), c) + (IF Head(todo) \in FreeOf(c) THEN 1 ELSE 0)
  BY DueHead
<1> QED BY <1>2, <1>3, <1>4

(* Nothing is due when nothing is pending.                                 *)
LEMMA NoCalls ==
  /\ <<>> \in Seq(Call) /\ DOMAIN (<<>>) = {} /\ Len(<<>>) = 0
  /\ \A c : Due(<<>>, c) = 0
BY OccEmpty DEF Due

(* A pending call other than the first is pending after the first returns. *)
LEMMA PendKept ==
    ASSUME IInv, NEW do, Pending(do), NEW new \in Seq(Call), todo' = new \o Tail(todo),
           NEW d, NEW x, Pend(d, x), d # do \/ x # Target
    PROVE  Pend(d, x)'
<1>1. /\ todo \in Seq(Call) /\ todo # <<>> /\ todo[1].do = do /\ todo[1].c = Target
      /\ \A i \in DOMAIN todo : i = 1 \/ 1 < i
  BY PendingFacts
<1>2. PICK k \in DOMAIN todo : todo[k].do = d /\ todo[k].c = x BY DEF Pend
<1>3. k > 1 BY <1>1, <1>2
<1>4. k + Len(new) - 1 \in DOMAIN todo' /\ todo'[k + Len(new) - 1] = todo[k]
  BY <1>1, <1>3, ReturnFacts
<1> QED BY <1>2, <1>4 DEF Pend

(* capture_set_ment: what it attaches is rooted in the entry, and its      *)
(* children are pending.                                                   *)
LEMMA AttachStep == IInv /\ capture_set_ment => IInv'
<1>0. SUFFICES ASSUME IInv, capture_set_ment PROVE IInv'
  OBVIOUS
<1> DEFINE e == Head(todo).e
           new == IF ment[Target] # NoEnt THEN <<>> ELSE Calls("attach", kids[Target], e)
<1>1. Counts /\ Structure /\ TypeOK /\ IsFiniteSet(table) /\ Counted
  BY <1>0 DEF IInv, Counts
<1>2. Pending("attach") BY <1>0 DEF capture_set_ment
<1>3. /\ todo \in Seq(Call) /\ todo # <<>> /\ 1 \in DOMAIN todo /\ Head(todo) = todo[1]
      /\ Target \in Caps /\ todo[1].c = Target /\ todo[1].do = "attach"
      /\ \A i \in DOMAIN todo : todo[i].do = "attach"
  BY <1>0, <1>2, PendingFacts
<1>4. /\ e \in table /\ dying = NoEnt /\ e \in Ents /\ e # NoEnt
      /\ \/ In(Target, held[e])
         \/ \E p \in live : ment[p] = e /\ In(Target, kids[p])
  BY <1>1, <1>3, CapturesAssumption DEF Structure, Visits, TypeOK
<1>5. Target \in live BY <1>1, <1>4, PointedAlive DEF AllLive, In
<1>6. kids[Target] \in Seq(Caps) BY <1>1, <1>3 DEF TypeOK
<1>7. /\ new \in Seq(Call) /\ \A c \in Caps : Due(new, c) = 0
      /\ \A i \in DOMAIN new : /\ new[i].do = "attach" /\ new[i].e = e
                               /\ In(new[i].c, kids[Target]) /\ ment[Target] = NoEnt
  <2>1. CASE ment[Target] # NoEnt
    <3>1. new = <<>> BY <2>1
    <3> QED BY <3>1, NoCalls
  <2>2. CASE ment[Target] = NoEnt
    <3>1. new = Calls("attach", kids[Target], e) BY <2>2
    <3>2. DOMAIN new = DOMAIN kids[Target] BY <3>1 DEF Calls
    <3>3. \A i \in DOMAIN new : new[i] = [do |-> "attach", c |-> kids[Target][i], e |-> e]
      BY <1>4, <1>6, <3>1, <3>2, CallsFacts
    <3>4. new \in Seq(Call) /\ \A c \in Caps : Due(new, c) = 0
      BY <1>4, <1>6, <3>1, CallsFacts, CallsDue
    <3> HIDE DEF new, e
    <3>5. \A i \in DOMAIN new :
            new[i].do = "attach" /\ new[i].e = e /\ new[i].c = kids[Target][i]
      BY <3>3
    <3> QED BY <2>2, <3>2, <3>4, <3>5 DEF In
  <2> QED BY <2>1, <2>2
<1>8. /\ UNCHANGED <<live, refs, kids, table, held, at, stack, results, mode, dying>>
      /\ todo' = new \o Tail(todo)
      /\ \A c : c # Target => ment'[c] = ment[c] /\ (c \in lost' <=> c \in lost)
      /\ ment'[Target] = IF ment[Target] # NoEnt THEN ment[Target] ELSE e
      /\ lost' \subseteq lost
      /\ ment' \in [Caps -> Ents \union {NoEnt}] /\ off' \in [Caps -> Int]
  <2>1. CASE ment[Target] # NoEnt
    BY <1>0, <1>1, <2>1 DEF capture_set_ment, Return, entries, TypeOK
  <2>2. CASE ment[Target] = NoEnt
    <3>1. /\ off' = [off EXCEPT ![Target] = @ - at[e]]
          /\ ment' = [ment EXCEPT ![Target] = e]
          /\ lost' = lost \ {Target}
          /\ todo' = new \o Tail(todo)
          /\ UNCHANGED <<live, refs, kids, table, held, at, stack, results, mode, dying>>
      BY <1>0, <2>2 DEF capture_set_ment, Return, entries
    <3>2. at[e] \in Int /\ off[Target] \in Int BY <1>1, <1>3, <1>4 DEF TypeOK
    <3> QED BY <1>1, <1>3, <1>4, <2>2, <3>1, <3>2 DEF TypeOK
  <2> QED BY <2>1, <2>2
<1>9. ment'[Target] # NoEnt /\ ment'[Target] \in Ents BY <1>1, <1>3, <1>4, <1>8 DEF TypeOK
<1> HIDE DEF new, e
<1>10. todo' \in Seq(Call) BY <1>3, <1>7, <1>8, ReturnFacts
<1>11. Counts'
  <2>1. TypeOK'
    <3>1. lost' \subseteq live' BY <1>1, <1>8 DEF TypeOK
    <3> QED BY <1>1, <1>8, <1>10, <3>1 DEF TypeOK, Call
  <2>2. \A c \in Caps : Due(todo', c) = Due(todo, c)
    <3> SUFFICES ASSUME NEW c \in Caps PROVE Due(todo', c) = Due(todo, c)
      OBVIOUS
    <3>1. Head(todo) \notin FreeOf(c) BY <1>3 DEF FreeOf
    <3>2. /\ Due(todo', c) = Due(new, c) + Due(Tail(todo), c)
          /\ Due(todo, c) = Due(Tail(todo), c) + (IF Head(todo) \in FreeOf(c) THEN 1 ELSE 0)
          /\ Due(Tail(todo), c) \in Nat
      BY <1>3, <1>7, <1>8, DueReturn
    <3> QED BY <1>7, <3>1, <3>2
  <2>3. Counted'
    BY <1>1, <1>8, <2>2 DEF Counted, InTable, InCaptures, Kept
  <2>4. Control' BY <1>1, <1>8 DEF Counts, Control
  <2> QED BY <1>1, <1>8, <2>1, <2>3, <2>4 DEF Counts
<1>12. Order' BY <1>0, <1>2, <1>7, <1>8, OrderKept
<1>13. Visits'
  <2>1. SUFFICES ASSUME NEW i \in DOMAIN todo'
        PROVE  /\ todo'[i].do = "attach" /\ todo'[i].e \in table /\ dying' = NoEnt
               /\ \/ In(todo'[i].c, held[todo'[i].e])
                  \/ \E p \in live : ment'[p] = todo'[i].e /\ In(todo'[i].c, kids[p])
    BY <1>8 DEF Visits
  <2>2. CASE i <= Len(new)
    <3>1. i \in DOMAIN new /\ todo'[i] = new[i] BY <1>3, <1>7, <1>8, <2>2, ReturnFacts
    <3>2. ment[Target] = NoEnt BY <1>7, <3>1
    <3>3. ment'[Target] = e BY <1>8, <3>2
    <3> QED BY <1>4, <1>5, <1>7, <1>8, <3>1, <3>3
  <2>3. CASE ~ (i <= Len(new))
    <3>1. PICK k \in DOMAIN todo : todo'[i] = todo[k]
      <4>1. /\ i - Len(new) + 1 \in DOMAIN todo /\ todo'[i] = todo[i - Len(new) + 1]
        BY <1>3, <1>7, <1>8, <2>3, ReturnFacts
      <4> QED BY <4>1
    <3>2. /\ todo[k].do = "attach" /\ todo[k].e \in table
          /\ \/ In(todo[k].c, held[todo[k].e])
             \/ \E p \in live : ment[p] = todo[k].e /\ In(todo[k].c, kids[p])
      BY <1>1, <1>3 DEF Structure, Visits
    <3>3. ASSUME NEW p \in live, ment[p] = todo[k].e PROVE ment'[p] = todo[k].e
      <4>1. ment[p] # NoEnt BY <1>1, <3>2, <3>3, CapturesAssumption DEF TypeOK
      <4> QED BY <1>8, <3>3, <4>1
    <3> QED BY <1>4, <1>8, <3>1, <3>2, <3>3
  <2> QED BY <2>2, <2>3
<1>14. Rooted'
  <2>1. SUFFICES ASSUME NEW c \in live, ment'[c] # NoEnt
        PROVE  /\ ment'[c] \in table
               /\ \/ In(c, held[ment'[c]])
                  \/ \E p \in live : ment'[p] = ment'[c] /\ In(c, kids[p])
    BY <1>8 DEF Rooted
  <2>2. CASE c = Target /\ ment[Target] = NoEnt
    <3>1. ment'[c] = e BY <1>8, <2>2
    <3>2. \A p \in live : ment[p] = e => ment'[p] = e BY <1>4, <1>8, <2>2
    <3> QED BY <1>4, <2>2, <3>1, <3>2
  <2>3. CASE ~ (c = Target /\ ment[Target] = NoEnt)
    <3>1. ment'[c] = ment[c] BY <1>8, <2>3
    <3>2. /\ ment[c] \in table
          /\ \/ In(c, held[ment[c]])
             \/ \E p \in live : ment[p] = ment[c] /\ In(c, kids[p])
      BY <1>1, <1>4, <2>1, <3>1 DEF Structure, Rooted
    <3>3. \A p \in live : ment[p] = ment[c] => ment'[p] = ment[c]
      BY <1>8, <2>1, <3>1
    <3> QED BY <3>1, <3>2, <3>3
  <2> QED BY <2>2, <2>3
<1>15. Acyclic' BY <1>1, <1>8 DEF Structure, Acyclic
<1>16. AttachedSoon'
  <2>1. ASSUME NEW c, Settled(c) PROVE Settled(c)'
    <3>1. CASE c = Target BY <1>9, <3>1 DEF Settled
    <3>2. CASE c # Target
      <4>1. CASE Pend("attach", c)
        BY <1>0, <1>2, <1>7, <1>8, <3>2, <4>1, PendKept DEF Settled
      <4>2. CASE ~ Pend("attach", c)
        <5>1. ment'[c] = ment[c] /\ (c \in lost' <=> c \in lost) BY <1>8, <3>2
        <5> QED BY <2>1, <4>2, <5>1 DEF Settled
      <4> QED BY <4>1, <4>2
    <3> QED BY <3>1, <3>2
  <2>2. ASSUME NEW d \in table, NEW c, In(c, held[d]) PROVE Settled(c)'
    BY <1>1, <2>1, <2>2 DEF Structure, AttachedSoon
  <2>3. ASSUME NEW p \in live, ment'[p] # NoEnt, NEW c, In(c, kids[p]) PROVE Settled(c)'
    <3>1. CASE p = Target /\ ment[Target] = NoEnt
      <4>1. PICK i \in DOMAIN kids[Target] : kids[Target][i] = c BY <2>3, <3>1 DEF In
      <4>2. new = Calls("attach", kids[Target], e) BY <3>1 DEF new
      <4>3. i \in DOMAIN new /\ new[i] = [do |-> "attach", c |-> c, e |-> e]
        BY <1>4, <1>6, <4>1, <4>2, CallsFacts DEF Calls
      <4>4. i \in DOMAIN todo' /\ todo'[i] = new[i] BY <1>3, <1>7, <1>8, <4>3, ReturnFacts
      <4>5. Pend("attach", c)' BY <4>3, <4>4 DEF Pend
      <4> QED BY <4>5 DEF Settled
    <3>2. CASE ~ (p = Target /\ ment[Target] = NoEnt)
      <4>1. ment[p] # NoEnt BY <1>8, <2>3, <3>2
      <4> QED BY <1>1, <2>1, <2>3, <4>1 DEF Structure, AttachedSoon
    <3> QED BY <3>1, <3>2
  <2> QED BY <1>8, <2>2, <2>3 DEF AttachedSoon
<1> QED BY <1>11, <1>12, <1>13, <1>14, <1>15, <1>16 DEF IInv, Structure

(* memo_capture_free: with the last reference goes a capture that has no   *)
(* owner, and its references become due.                                   *)
LEMMA FreeStep == IInv /\ memo_capture_free => IInv'
<1>0. SUFFICES ASSUME IInv, memo_capture_free PROVE IInv'
  OBVIOUS
<1> DEFINE last == refs[Target] = 1
           new == IF last THEN Frees(kids[Target]) ELSE <<>>
<1>1. Counts /\ Structure /\ TypeOK /\ IsFiniteSet(table) /\ Counted
  BY <1>0 DEF IInv, Counts
<1>2. Pending("free") BY <1>0 DEF memo_capture_free
<1>3. /\ todo \in Seq(Call) /\ todo # <<>> /\ 1 \in DOMAIN todo /\ Head(todo) = todo[1]
      /\ Head(todo) \in Call /\ Target \in Caps /\ todo[1].c = Target /\ todo[1].do = "free"
      /\ \A i \in DOMAIN todo : todo[i].do # "absolutize"
  BY <1>0, <1>2, PendingFacts
<1>4. Target \in live /\ refs[Target] \in Nat /\ refs[Target] > 0
  BY <1>1, <1>3, PointedAlive DEF Counted, TypeOK
<1>5. kids[Target] \in Seq(Caps) BY <1>1, <1>3 DEF TypeOK
<1>6. /\ new \in Seq(Call) /\ \A i \in DOMAIN new : new[i].do = "free"
      /\ \A c \in Caps : Due(new, c) = IF last THEN Occ(kids[Target], Only(c)) ELSE 0
  <2>1. CASE ~ last BY <2>1, NoCalls
  <2>2. CASE last
    <3>1. new = Calls("free", kids[Target], NoEnt) BY <2>2 DEF Frees
    <3>2. DOMAIN new = DOMAIN kids[Target] BY <3>1 DEF Calls
    <3>3. \A i \in DOMAIN new : new[i] = [do |-> "free", c |-> kids[Target][i], e |-> NoEnt]
      BY <1>5, <3>1, <3>2, CallsFacts
    <3>4. new \in Seq(Call) /\ \A c \in Caps : Due(new, c) = Occ(kids[Target], Only(c))
      BY <1>5, <3>1, CallsFacts, CallsDue
    <3> HIDE DEF new
    <3>5. \A i \in DOMAIN new : new[i].do = "free" BY <3>3
    <3> QED BY <2>2, <3>4, <3>5
  <2> QED BY <2>1, <2>2
<1>7. /\ UNCHANGED <<table, held, at, stack, results, mode, dying>>
      /\ todo' = new \o Tail(todo)
      /\ refs' = [refs EXCEPT ![Target] = @ - 1]
      /\ live' = (IF last THEN live \ {Target} ELSE live)
      /\ lost' = (IF last THEN lost \ {Target} ELSE lost)
      /\ \A c \in live' : kids'[c] = kids[c] /\ ment'[c] = ment[c]
      /\ ment' \in [Caps -> Ents \union {NoEnt}] /\ off' \in [Caps -> Int]
      /\ kids' \in [Caps -> Seq(Caps)]
  <2>1. CASE ~ last BY <1>0, <1>1, <2>1 DEF memo_capture_free, Return, entries, TypeOK
  <2>2. CASE last
    <3>1. /\ UNCHANGED <<table, held, at, stack, results, mode, dying>>
          /\ todo' = new \o Tail(todo)
          /\ refs' = [refs EXCEPT ![Target] = @ - 1]
          /\ live' = live \ {Target} /\ lost' = lost \ {Target}
          /\ kids' = [kids EXCEPT ![Target] = <<>>]
          /\ ment' = [ment EXCEPT ![Target] = NoEnt]
          /\ off' = [off EXCEPT ![Target] = 0]
      BY <1>0, <2>2 DEF memo_capture_free, Return, entries
    <3>2. /\ ment' \in [Caps -> Ents \union {NoEnt}] /\ off' \in [Caps -> Int]
          /\ kids' \in [Caps -> Seq(Caps)]
      <4>1. <<>> \in Seq(Caps) OBVIOUS
      <4>2. /\ ment \in [Caps -> Ents \union {NoEnt}] /\ off \in [Caps -> Int]
            /\ kids \in [Caps -> Seq(Caps)]
        BY <1>1 DEF TypeOK
      <4>3. ment' \in [Caps -> Ents \union {NoEnt}] BY <3>1, <4>2
      <4>4. off' \in [Caps -> Int]
        <5>1. off' = [off EXCEPT ![Target] = 0] /\ off \in [Caps -> Int] BY <3>1, <4>2
        <5>2. 0 \in Int OBVIOUS
        <5>3. [off EXCEPT ![Target] = 0] \in [Caps -> Int] BY <5>1, <5>2, Zenon
        <5> QED BY <5>1, <5>3, Zenon
      <4>5. kids' \in [Caps -> Seq(Caps)] BY <3>1, <4>1, <4>2
      <4> QED BY <4>3, <4>4, <4>5
    <3>3. \A c \in live' : kids'[c] = kids[c] /\ ment'[c] = ment[c]
      BY <1>1, <3>1 DEF TypeOK
    <3> QED BY <2>2, <3>1, <3>2, <3>3
  <2> QED BY <2>1, <2>2
<1>8. \A c \in Caps : Due(todo, c) = Due(Tail(todo), c) + (IF c = Target THEN 1 ELSE 0)
                      /\ Due(Tail(todo), c) \in Nat
                      /\ Due(todo', c) = Due(new, c) + Due(Tail(todo), c)
  <2> SUFFICES ASSUME NEW c \in Caps
               PROVE  /\ Due(todo, c) = Due(Tail(todo), c) + (IF c = Target THEN 1 ELSE 0)
                      /\ Due(Tail(todo), c) \in Nat
                      /\ Due(todo', c) = Due(new, c) + Due(Tail(todo), c)
    OBVIOUS
  <2>1. Head(todo) \in FreeOf(c) <=> c = Target BY <1>3 DEF FreeOf
  <2> QED BY <1>3, <1>6, <1>7, <2>1, DueReturn
<1> HIDE DEF new
(* What goes has neither an owner nor a list that it is in.                *)
<1>9. ASSUME last
      PROVE  /\ \A e \in table : ~ In(Target, held[e])
             /\ \A p \in live : ~ In(Target, kids[p])
             /\ ment[Target] = NoEnt
  <2>1. Due(todo, Target) >= 1 BY <1>3, <1>8
  <2>2. /\ \A e \in table : ~ In(Target, held[e])
        /\ \A p \in live : ~ In(Target, kids[p])
    BY <1>1, <1>3, <1>9, <2>1, LastReference
  <2>3. ~ Pend("absolutize", Target) BY <1>3 DEF Pend
  <2>4. ment[Target] = NoEnt BY <1>1, <1>4, <2>2, <2>3 DEF Structure, Rooted
  <2> QED BY <2>2, <2>4
<1>10. todo' \in Seq(Call) BY <1>3, <1>6, <1>7, ReturnFacts
<1>11. TypeOK'
  <2>1. refs' \in [Caps -> Nat] BY <1>1, <1>4, <1>7 DEF TypeOK
  <2>2. live' \subseteq Caps /\ lost' \subseteq live' BY <1>1, <1>7 DEF TypeOK
  <2> QED BY <1>1, <1>7, <1>10, <2>1, <2>2 DEF TypeOK, Call
<1>12. Counted'
  <2>1. SUFFICES ASSUME NEW c \in Caps
        PROVE  /\ refs'[c] = OnStack(stack, c) + InTable(c) + InCaptures(c)'
                               + Kept(c) + Due(todo', c)
               /\ c \in live' <=> refs'[c] > 0
    BY <1>7 DEF Counted, InTable, Kept
  <2>2. InCaptures(c)' = InCaptures(c) - (IF last THEN Occ(kids[Target], Only(c)) ELSE 0)
    <3>0. InCaptures(c) \in Nat BY <1>1, FamilyLists
    <3>1. CASE ~ last
      <4>1. live' = live /\ \A p \in live : kids'[p] = kids[p] BY <1>7, <3>1
      <4>2. Total("kid", live, kids', Only(c)) = Total("kid", live, kids, Only(c))
        BY <4>1, TotalSame
      <4> QED BY <3>0, <3>1, <4>1, <4>2 DEF InCaptures
    <3>2. CASE last
      <4> DEFINE D == live \ {Target}
      <4>1. live' = D /\ \A p \in D : kids'[p] = kids[p] BY <1>7, <3>2
      <4>2. Lists(live, kids, Caps) BY <1>1, FamilyLists
      <4>3. Total("kid", live, kids, Only(c))
              = Total("kid", D, kids, Only(c)) + Occ(kids[Target], Only(c))
        BY <1>4, <4>2, TotalWithout
      <4> HIDE DEF D
      <4>4. Total("kid", D, kids', Only(c)) = Total("kid", D, kids, Only(c))
        BY <4>1, TotalSame
      <4>5. Lists(D, kids, Caps) BY <4>2, FS_RemoveElement DEF D, Lists
      <4>6. Total("kid", D, kids, Only(c)) \in Nat BY <4>5, PointersFinite
      <4>7. Occ(kids[Target], Only(c)) \in Nat BY <1>5, OccOnly
      <4> QED BY <3>0, <3>2, <4>1, <4>3, <4>4, <4>6, <4>7 DEF InCaptures
    <3> QED BY <3>1, <3>2
  <2>3. /\ InTable(c) \in Nat /\ InCaptures(c) \in Nat
        /\ OnStack(stack, c) \in Nat /\ Kept(c) \in Nat
        /\ Occ(kids[Target], Only(c)) \in Nat
    BY <1>1, <1>5, FamilyLists, OccOnly
  <2>4. /\ refs[c] = OnStack(stack, c) + InTable(c) + InCaptures(c) + Kept(c) + Due(todo, c)
        /\ c \in live <=> refs[c] > 0
        /\ refs[c] \in Nat
    BY <1>1 DEF Counted, TypeOK
  <2>5. refs'[c] = refs[c] - (IF c = Target THEN 1 ELSE 0) BY <1>1, <1>7, <2>4 DEF TypeOK
  <2>6. /\ Due(todo, c) = Due(Tail(todo), c) + (IF c = Target THEN 1 ELSE 0)
        /\ Due(Tail(todo), c) \in Nat
        /\ Due(todo', c) = (IF last THEN Occ(kids[Target], Only(c)) ELSE 0)
                            + Due(Tail(todo), c)
    BY <1>6, <1>8
  <2>7. refs'[c] = OnStack(stack, c) + InTable(c) + InCaptures(c)' + Kept(c) + Due(todo', c)
    BY <2>2, <2>3, <2>4, <2>5, <2>6
  <2>8. c \in live' <=> refs'[c] > 0 BY <1>4, <1>7, <2>4, <2>5
  <2> QED BY <2>7, <2>8
<1>13. Counts'
  <2>1. Control' BY <1>1, <1>7 DEF Counts, Control
  <2> QED BY <1>1, <1>7, <1>11, <1>12, <2>1 DEF Counts
<1>14. live' \subseteq live /\ \A p \in live : p \in live' \/ (p = Target /\ ment[p] = NoEnt)
  BY <1>7, <1>9
<1>15. Order' BY <1>0, <1>2, <1>6, <1>7, OrderKept
<1>16. Visits'
  <2>1. SUFFICES ASSUME NEW i \in DOMAIN todo', todo'[i].do # "free"
        PROVE  /\ todo'[i].do = "attach" /\ todo'[i].e \in table /\ dying = NoEnt
               /\ \/ In(todo'[i].c, held[todo'[i].e])
                  \/ \E p \in live' : ment'[p] = todo'[i].e /\ In(todo'[i].c, kids'[p])
    BY <1>7 DEF Visits
  <2>2. PICK k \in DOMAIN todo : todo'[i] = todo[k]
    <3>1. /\ i - Len(new) + 1 \in DOMAIN todo /\ todo'[i] = todo[i - Len(new) + 1]
      BY <1>3, <1>6, <1>7, <2>1, ReturnFacts
    <3> QED BY <3>1
  <2>3. todo[k].do \in {"free", "attach", "absolutize"}
    <3>1. todo[k] \in Call BY <1>3
    <3> QED BY <3>1 DEF Call
  <2>4. todo[k].do = "attach" BY <1>3, <2>1, <2>2, <2>3
  <2>5. /\ todo[k].e \in table /\ dying = NoEnt
        /\ \/ In(todo[k].c, held[todo[k].e])
           \/ \E p \in live : ment[p] = todo[k].e /\ In(todo[k].c, kids[p])
    BY <1>1, <2>4 DEF Structure, Visits
  <2>6. ASSUME NEW p \in live, ment[p] = todo[k].e
        PROVE  p \in live' /\ ment'[p] = ment[p] /\ kids'[p] = kids[p]
    <3>1. ment[p] # NoEnt BY <1>1, <2>5, <2>6, CapturesAssumption DEF TypeOK
    <3> QED BY <1>7, <1>14, <3>1
  <2> QED BY <2>2, <2>4, <2>5, <2>6
<1>17. Rooted'
  <2>1. SUFFICES ASSUME NEW c \in live', ment'[c] # NoEnt
        PROVE  /\ ment'[c] \in table
               /\ \/ In(c, held[ment'[c]])
                  \/ \E p \in live' : ment'[p] = ment'[c] /\ In(c, kids'[p])
    BY <1>7 DEF Rooted
  <2>2. ment'[c] = ment[c] /\ c \in live BY <1>7, <1>14
  <2>3. ~ Pend("absolutize", c) BY <1>3 DEF Pend
  <2>4. /\ ment[c] \in table
        /\ \/ In(c, held[ment[c]])
           \/ \E p \in live : ment[p] = ment[c] /\ In(c, kids[p])
    BY <1>1, <2>1, <2>2, <2>3 DEF Structure, Rooted
  <2>5. ASSUME NEW p \in live, ment[p] = ment[c]
        PROVE  p \in live' /\ ment'[p] = ment[p] /\ kids'[p] = kids[p]
    BY <1>7, <1>14, <2>1, <2>2, <2>5
  <2> QED BY <2>2, <2>4, <2>5
<1>18. Acyclic'
  <2>1. SUFFICES ASSUME NEW S \in SUBSET live', S # {}
        PROVE  \E c \in S : \A p \in S : ~ In(c, kids'[p])
    BY DEF Acyclic
  <2>2. S \in SUBSET live BY <1>14
  <2>3. PICK c \in S : \A p \in S : ~ In(c, kids[p])
    BY <1>1, <2>1, <2>2 DEF Structure, Acyclic
  <2> QED BY <1>7, <2>3
<1>19. AttachedSoon'
  <2>1. ASSUME NEW c, c \in live', Settled(c) PROVE Settled(c)'
    <3>1. CASE Pend("attach", c)
      <4>1. new \in Seq(Call) /\ todo' = new \o Tail(todo) BY <1>6, <1>7
      <4>2. "attach" # "free" OBVIOUS
      <4>3. Pend("attach", c)' BY <1>0, <1>2, <3>1, <4>1, <4>2, PendKept
      <4> QED BY <4>3 DEF Settled
    <3>2. CASE ~ Pend("attach", c)
      <4>1. ment'[c] = ment[c] /\ (c \in lost => c \in lost') BY <1>7, <2>1
      <4> QED BY <2>1, <3>2, <4>1 DEF Settled
    <3> QED BY <3>1, <3>2
  <2>2. ASSUME NEW d \in table, NEW c, In(c, held[d]) PROVE Settled(c)'
    <3>1. c \in live' BY <1>1, <1>7, <1>9, <2>2, PointedAlive DEF AllLive, In
    <3> QED BY <1>1, <2>1, <2>2, <3>1 DEF Structure, AttachedSoon
  <2>3. ASSUME NEW p \in live', ment'[p] # NoEnt, NEW c, In(c, kids'[p]) PROVE Settled(c)'
    <3>1. p \in live /\ ment[p] # NoEnt /\ In(c, kids[p]) BY <1>7, <1>14, <2>3
    <3>2. c \in live BY <1>1, <3>1, PointedAlive DEF AllLive, In
    <3>3. c \in live' BY <1>7, <1>9, <3>1, <3>2
    <3> QED BY <1>1, <2>1, <3>1, <3>3 DEF Structure, AttachedSoon
  <2> QED BY <1>7, <2>2, <2>3 DEF AttachedSoon
<1> QED BY <1>13, <1>15, <1>16, <1>17, <1>18, <1>19 DEF IInv, Structure

(* memo_capture_absolutize: the children of a capture that loses its owner *)
(* are pending.                                                            *)
LEMMA AbsolutizeStep == IInv /\ memo_capture_absolutize => IInv'
<1>0. SUFFICES ASSUME IInv, memo_capture_absolutize PROVE IInv'
  OBVIOUS
<1> DEFINE e == Head(todo).e
           new == Calls("absolutize", kids[Target], e)
<1>1. Counts /\ Structure /\ TypeOK /\ IsFiniteSet(table) /\ Counted
  BY <1>0 DEF IInv, Counts
<1>2. Pending("absolutize") BY <1>0 DEF memo_capture_absolutize
<1>3. /\ todo \in Seq(Call) /\ todo # <<>> /\ 1 \in DOMAIN todo /\ Head(todo) = todo[1]
      /\ Target \in Caps /\ todo[1].c = Target /\ todo[1].do = "absolutize"
  BY <1>0, <1>2, PendingFacts
<1>4. dying # NoEnt /\ e = dying /\ Target \in live /\ e \in Ents /\ e \in table
  BY <1>1, <1>3 DEF Structure, Visits, TypeOK
<1>5. kids[Target] \in Seq(Caps) /\ AllLive(kids[Target])
  BY <1>1, <1>3, <1>4, PointedAlive DEF TypeOK
<1>6. /\ new \in Seq(Call) /\ \A c \in Caps : Due(new, c) = 0
      /\ DOMAIN new = DOMAIN kids[Target]
      /\ \A i \in DOMAIN new : /\ new[i].do = "absolutize" /\ new[i].e = dying
                               /\ new[i].c = kids[Target][i] /\ new[i].c \in live
  <2>1. DOMAIN new = DOMAIN kids[Target] BY DEF Calls
  <2>2. \A i \in DOMAIN new : new[i] = [do |-> "absolutize", c |-> kids[Target][i], e |-> e]
    BY <1>4, <1>5, <2>1, CallsFacts
  <2>3. new \in Seq(Call) /\ \A c \in Caps : Due(new, c) = 0
    BY <1>4, <1>5, CallsFacts, CallsDue
  <2> HIDE DEF new, e
  <2>4. \A i \in DOMAIN new : /\ new[i].do = "absolutize" /\ new[i].e = e
                              /\ new[i].c = kids[Target][i]
    BY <2>2
  <2> QED BY <1>4, <1>5, <2>1, <2>3, <2>4 DEF AllLive
<1>7. /\ UNCHANGED <<live, refs, kids, table, held, at, stack, results, mode, dying>>
      /\ todo' = new \o Tail(todo)
      /\ lost \subseteq lost' /\ lost' \subseteq live
      /\ \A c : \/ ment'[c] = ment[c]
                \/ c = Target /\ ment[c] = dying /\ ment'[c] = NoEnt /\ c \in lost'
      /\ ment[Target] = dying => ment'[Target] = NoEnt
      /\ ment' \in [Caps -> Ents \union {NoEnt}] /\ off' \in [Caps -> Int]
  <2>1. CASE ment[Target] # e
    BY <1>0, <1>1, <1>4, <2>1 DEF memo_capture_absolutize, Return, entries, TypeOK
  <2>2. CASE ment[Target] = e
    <3>1. /\ off' = [off EXCEPT ![Target] = @ + at[e]]
          /\ ment' = [ment EXCEPT ![Target] = NoEnt]
          /\ lost' = lost \union {Target}
          /\ todo' = new \o Tail(todo)
          /\ UNCHANGED <<live, refs, kids, table, held, at, stack, results, mode, dying>>
      BY <1>0, <2>2 DEF memo_capture_absolutize, Return, entries
    <3>2. at[e] \in Int /\ off[Target] \in Int BY <1>1, <1>3, <1>4 DEF TypeOK
    <3>3. /\ ment \in [Caps -> Ents \union {NoEnt}] /\ off \in [Caps -> Int]
          /\ lost \subseteq live
      BY <1>1 DEF TypeOK
    <3>4. ment' \in [Caps -> Ents \union {NoEnt}] BY <3>1, <3>3
    <3>5. off' \in [Caps -> Int]
      <4>1. off[Target] + at[e] \in Int BY <3>2
      <4>2. [off EXCEPT ![Target] = off[Target] + at[e]] \in [Caps -> Int]
        BY <3>3, <4>1, Zenon
      <4> QED BY <3>1, <4>2, Zenon
    <3>6. ment'[Target] = NoEnt /\ \A c : c # Target => ment'[c] = ment[c]
      BY <1>3, <3>1, <3>3
    <3> QED BY <1>4, <2>2, <3>1, <3>3, <3>4, <3>5, <3>6
  <2> QED BY <2>1, <2>2
<1> HIDE DEF new, e
<1>8. todo' \in Seq(Call) BY <1>3, <1>6, <1>7, ReturnFacts
<1>9. \A i \in DOMAIN todo : todo[i].do # "attach" BY <1>1, <1>4 DEF Structure, Visits
<1>10. Counts'
  <2>1. TypeOK'
    <3>1. lost' \subseteq live' BY <1>7
    <3> QED BY <1>1, <1>7, <1>8, <3>1 DEF TypeOK, Call
  <2>2. \A c \in Caps : Due(todo', c) = Due(todo, c)
    <3> SUFFICES ASSUME NEW c \in Caps PROVE Due(todo', c) = Due(todo, c)
      OBVIOUS
    <3>1. Head(todo) \notin FreeOf(c) BY <1>3 DEF FreeOf
    <3>2. /\ Due(todo', c) = Due(new, c) + Due(Tail(todo), c)
          /\ Due(todo, c) = Due(Tail(todo), c) + (IF Head(todo) \in FreeOf(c) THEN 1 ELSE 0)
          /\ Due(Tail(todo), c) \in Nat
      BY <1>3, <1>6, <1>7, DueReturn
    <3> QED BY <1>6, <3>1, <3>2
  <2>3. Counted'
    BY <1>1, <1>7, <2>2 DEF Counted, InTable, InCaptures, Kept
  <2>4. Control' BY <1>1, <1>7 DEF Counts, Control
  <2> QED BY <1>1, <1>7, <2>1, <2>3, <2>4 DEF Counts
<1>11. Order' BY <1>0, <1>2, <1>6, <1>7, OrderKept
<1>12. Visits'
  <2>1. SUFFICES ASSUME NEW i \in DOMAIN todo'
        PROVE  /\ todo'[i].do # "attach"
               /\ todo'[i].do = "absolutize" => todo'[i].e = dying /\ todo'[i].c \in live
    BY <1>4, <1>7 DEF Visits
  <2>2. CASE i <= Len(new)
    <3>1. i \in DOMAIN new /\ todo'[i] = new[i] BY <1>3, <1>6, <1>7, <2>2, ReturnFacts
    <3> QED BY <1>6, <3>1
  <2>3. CASE ~ (i <= Len(new))
    <3>1. PICK k \in DOMAIN todo : todo'[i] = todo[k]
      <4>1. /\ i - Len(new) + 1 \in DOMAIN todo /\ todo'[i] = todo[i - Len(new) + 1]
        BY <1>3, <1>6, <1>7, <2>3, ReturnFacts
      <4> QED BY <4>1
    <3>2. todo[k].do = "absolutize" => todo[k].e = dying /\ todo[k].c \in live
      BY <1>1 DEF Structure, Visits
    <3> QED BY <1>9, <3>1, <3>2
  <2> QED BY <2>2, <2>3
<1>13. Rooted'
  <2>1. SUFFICES ASSUME NEW c \in live, ment'[c] # NoEnt
        PROVE  /\ ment'[c] \in table
               /\ \/ In(c, held[ment'[c]])
                  \/ \E p \in live : ment'[p] = ment'[c] /\ In(c, kids[p])
                  \/ ment'[c] = dying /\ Pend("absolutize", c)'
    BY <1>7 DEF Rooted
  <2>2. ment'[c] = ment[c] /\ ment[c] # NoEnt BY <1>7, <2>1
  <2>3. /\ ment[c] \in table
        /\ \/ In(c, held[ment[c]])
           \/ \E p \in live : ment[p] = ment[c] /\ In(c, kids[p])
           \/ ment[c] = dying /\ Pend("absolutize", c)
    BY <1>1, <2>2 DEF Structure, Rooted
  <2>4. CASE In(c, held[ment[c]]) BY <2>2, <2>3, <2>4
  <2>5. ASSUME NEW p \in live, ment[p] = ment[c], In(c, kids[p])
        PROVE  \/ ment'[p] = ment'[c]
               \/ ment'[c] = dying /\ Pend("absolutize", c)'
    <3>1. CASE ment'[p] = ment[p] BY <2>2, <2>5, <3>1
    <3>2. CASE ment'[p] # ment[p]
      <4>1. p = Target /\ ment[c] = dying BY <1>7, <2>5, <3>2
      <4>2. PICK i \in DOMAIN kids[Target] : kids[Target][i] = c BY <2>5, <4>1 DEF In
      <4>3. i \in DOMAIN new /\ new[i].do = "absolutize" /\ new[i].c = c BY <1>6, <4>2
      <4>4. i \in DOMAIN todo' /\ todo'[i] = new[i] BY <1>3, <1>6, <1>7, <4>3, ReturnFacts
      <4>5. Pend("absolutize", c)' BY <4>3, <4>4 DEF Pend
      <4> QED BY <2>2, <4>1, <4>5
    <3> QED BY <3>1, <3>2
  <2>6. CASE ment[c] = dying /\ Pend("absolutize", c)
    <3>1. c # Target BY <1>7, <2>1, <2>6
    <3>2. new \in Seq(Call) /\ todo' = new \o Tail(todo) BY <1>6, <1>7
    <3>3. Pend("absolutize", c)' BY <1>0, <1>2, <2>6, <3>1, <3>2, PendKept
    <3> QED BY <2>2, <2>3, <2>6, <3>3
  <2> QED BY <2>2, <2>3, <2>4, <2>5, <2>6
<1>14. Acyclic' BY <1>1, <1>7 DEF Structure, Acyclic
<1>15. AttachedSoon'
  <2>1. ASSUME NEW c, Settled(c) PROVE Settled(c)'
    <3>1. ~ Pend("attach", c) BY <1>9 DEF Pend
    <3> QED BY <1>7, <2>1, <3>1 DEF Settled
  <2>2. ASSUME NEW d \in table, NEW c, In(c, held[d]) PROVE Settled(c)'
    BY <1>1, <2>1, <2>2 DEF Structure, AttachedSoon
  <2>3. ASSUME NEW p \in live, ment'[p] # NoEnt, NEW c, In(c, kids[p]) PROVE Settled(c)'
    <3>1. ment[p] # NoEnt BY <1>7, <2>3
    <3> QED BY <1>1, <2>1, <2>3, <3>1 DEF Structure, AttachedSoon
  <2> QED BY <1>7, <2>2, <2>3 DEF AttachedSoon
<1> QED BY <1>10, <1>11, <1>12, <1>13, <1>14, <1>15 DEF IInv, Structure

(* free(e): when no call is pending, nothing is owned by the entry.        *)
LEMMA EntryGoneStep == IInv /\ EntryGone => IInv'
<1>0. SUFFICES ASSUME IInv, EntryGone PROVE IInv'
  OBVIOUS
<1>1. Counts /\ Structure /\ TypeOK /\ IsFiniteSet(table) /\ Counted /\ Control
  BY <1>0 DEF IInv, Counts
<1>2. /\ dying # NoEnt /\ todo = <<>> /\ dying \in table /\ dying \in Ents
      /\ held[dying] = <<>>
      /\ table' = table \ {dying} /\ dying' = NoEnt /\ at' = [at EXCEPT ![dying] = 0]
      /\ UNCHANGED <<live, refs, ment, off, kids, lost, held, stack, results, mode, todo>>
  BY <1>0, <1>1 DEF EntryGone, captures, TypeOK, Control
(* The captures that the entry still owned would be descendants of each    *)
(* other.                                                                  *)
<1>3. \A c \in live : ment[c] # dying
  <2> DEFINE S == {c \in live : ment[c] = dying}
  <2>1. SUFFICES ASSUME S # {} PROVE FALSE
    OBVIOUS
  <2>2. PICK c \in S : \A p \in S : ~ In(c, kids[p])
    <3>1. S \in SUBSET live OBVIOUS
    <3> HIDE DEF S
    <3> QED BY <1>1, <2>1, <3>1 DEF Structure, Acyclic
  <2>3. ~ In(c, held[dying]) /\ ~ Pend("absolutize", c) BY <1>2 DEF In, Pend
  <2>4. c \in live /\ ment[c] = dying OBVIOUS
  <2>5. \E p \in live : ment[p] = dying /\ In(c, kids[p])
    BY <1>1, <1>2, <2>3, <2>4 DEF Structure, Rooted
  <2> QED BY <2>2, <2>5
<1>4. Counts'
  <2>1. at' \in [Ents -> Int]
    <3>1. at \in [Ents -> Int] /\ 0 \in Int BY <1>1 DEF TypeOK
    <3>2. [at EXCEPT ![dying] = 0] \in [Ents -> Int] BY <3>1, Zenon
    <3> QED BY <1>2, <3>2, Zenon
  <2>2. TypeOK' BY <1>1, <1>2, <2>1 DEF TypeOK
  <2>3. IsFiniteSet(table') BY <1>1, <1>2, FS_RemoveElement
  <2>4. ASSUME NEW c \in Caps PROVE InTable(c)' = InTable(c)
    <3> DEFINE D == table \ {dying}
    <3>1. Lists(table, held, Caps) /\ InTable(c) \in Nat BY <1>1, FamilyLists
    <3>2. Total("entry", table, held, Only(c))
            = Total("entry", D, held, Only(c)) + Occ(held[dying], Only(c))
      <4>1. dying \in table BY <1>2
      <4> QED BY <3>1, <4>1, TotalWithout
    <3> HIDE DEF D
    <3>3. Lists(D, held, Caps) BY <3>1, FS_RemoveElement DEF D, Lists
    <3>4. Total("entry", D, held, Only(c)) \in Nat BY <3>3, PointersFinite
    <3>5. Occ(held[dying], Only(c)) = 0 BY <1>2, OccEmpty
    <3>6. table' = D /\ held' = held BY <1>2 DEF D
    <3> QED BY <3>2, <3>4, <3>5, <3>6 DEF InTable
  <2>5. Counted' BY <1>1, <1>2, <2>4 DEF Counted, InCaptures, Kept
  <2>6. Control' BY <1>1, <1>2 DEF Control
  <2> QED BY <2>2, <2>3, <2>5, <2>6 DEF Counts
<1>5. Order' /\ Visits' BY <1>2 DEF Order, Visits
<1>6. Rooted'
  <2>1. SUFFICES ASSUME NEW c \in live, ment[c] # NoEnt
        PROVE  /\ ment[c] \in table'
               /\ \/ In(c, held[ment[c]])
                  \/ \E p \in live : ment[p] = ment[c] /\ In(c, kids[p])
    BY <1>2 DEF Rooted
  <2> QED BY <1>1, <1>2, <1>3, <2>1 DEF Structure, Rooted
<1>7. Acyclic' BY <1>1, <1>2 DEF Structure, Acyclic
<1>8. AttachedSoon'
  <2>1. \A c : Settled(c) => Settled(c)' BY <1>2 DEF Settled, Pend
  <2> QED BY <1>1, <1>2, <2>1 DEF Structure, AttachedSoon
<1> QED BY <1>4, <1>5, <1>6, <1>7, <1>8 DEF IInv, Structure

---------------------------------------------------------------------------
(* New lists of calls.                                                     *)

(* The calls of two lists.                                                 *)
LEMMA ConcatFacts ==
    ASSUME NEW a, NEW b, NEW t, a \in Seq(Call), b \in Seq(Call), t = a \o b
    PROVE  /\ t \in Seq(Call)
           /\ \A i \in DOMAIN t :
                \/ i \in DOMAIN a /\ i <= Len(a) /\ t[i] = a[i]
                \/ i > Len(a) /\ \E j \in DOMAIN b : t[i] = b[j]
           /\ \A i \in DOMAIN a : i \in DOMAIN t /\ t[i] = a[i]
           /\ \A j \in DOMAIN b : j + Len(a) \in DOMAIN t /\ t[j + Len(a)] = b[j]
<1>1. /\ Len(a) \in Nat /\ Len(b) \in Nat
      /\ DOMAIN a = 1 .. Len(a) /\ DOMAIN b = 1 .. Len(b)
  OBVIOUS
<1>2. /\ t \in Seq(Call) /\ DOMAIN t = 1 .. Len(a) + Len(b)
      /\ \A i \in 1 .. Len(a) + Len(b) :
            t[i] = IF i <= Len(a) THEN a[i] ELSE b[i - Len(a)]
  OBVIOUS
<1>3. ASSUME NEW i \in DOMAIN t
      PROVE  \/ i \in DOMAIN a /\ i <= Len(a) /\ t[i] = a[i]
             \/ i > Len(a) /\ \E j \in DOMAIN b : t[i] = b[j]
  <2>1. CASE i <= Len(a) BY <1>1, <1>2, <2>1
  <2>2. CASE ~ (i <= Len(a))
    <3>1. i - Len(a) \in DOMAIN b /\ t[i] = b[i - Len(a)] BY <1>1, <1>2, <2>2
    <3> QED BY <1>1, <1>2, <2>2, <3>1
  <2> QED BY <2>1, <2>2
<1>4. \A i \in DOMAIN a : i \in DOMAIN t /\ t[i] = a[i] BY <1>1, <1>2
<1>5. ASSUME NEW j \in DOMAIN b PROVE j + Len(a) \in DOMAIN t /\ t[j + Len(a)] = b[j]
  <2>1. /\ j + Len(a) \in 1 .. Len(a) + Len(b) /\ ~ (j + Len(a) <= Len(a))
        /\ (j + Len(a)) - Len(a) = j
    BY <1>1
  <2> QED BY <1>2, <2>1
<1> QED BY <1>2, <1>3, <1>4, <1>5

(* Two kinds of calls, one after the other.                                *)
LEMMA TwoKinds ==
    ASSUME NEW a, NEW b, a \in Seq(Call), b \in Seq(Call), todo' = a \o b,
           \/ /\ \A i \in DOMAIN a : a[i].do = "absolutize"
              /\ \A i \in DOMAIN b : b[i].do = "free"
           \/ /\ \A i \in DOMAIN a : a[i].do = "free"
              /\ \A i \in DOMAIN b : b[i].do = "attach"
    PROVE  Order'
<1>1. \A i \in DOMAIN todo' : \/ i \in DOMAIN a /\ i <= Len(a) /\ todo'[i] = a[i]
                              \/ i > Len(a) /\ \E j \in DOMAIN b : todo'[i] = b[j]
  BY ConcatFacts
<1>2. Len(a) \in Nat /\ DOMAIN todo' \subseteq Int
  <2>1. todo' \in Seq(Call) /\ Len(a) \in Nat BY ConcatFacts
  <2> QED BY <2>1
<1>3. SUFFICES ASSUME NEW i \in DOMAIN todo', NEW j \in DOMAIN todo', i < j
      PROVE  /\ todo'[i].do = "attach" => todo'[j].do = "attach"
             /\ todo'[j].do = "absolutize" => todo'[i].do = "absolutize"
  BY DEF Order
<1>4. i \in Int /\ j \in Int BY <1>2
<1>5. i > Len(a) => j > Len(a) BY <1>2, <1>3, <1>4
<1>6. j > Len(a) => ~ (j <= Len(a)) BY <1>2, <1>4
<1>7. CASE /\ \A k \in DOMAIN a : a[k].do = "absolutize"
           /\ \A k \in DOMAIN b : b[k].do = "free"
  <2>1. /\ \/ i <= Len(a) /\ todo'[i].do = "absolutize"
           \/ i > Len(a) /\ todo'[i].do = "free"
        /\ \/ j <= Len(a) /\ todo'[j].do = "absolutize"
           \/ j > Len(a) /\ todo'[j].do = "free"
    BY <1>1, <1>7
  <2> QED BY <1>5, <1>6, <2>1
<1>8. CASE /\ \A k \in DOMAIN a : a[k].do = "free"
           /\ \A k \in DOMAIN b : b[k].do = "attach"
  <2>1. /\ \/ i <= Len(a) /\ todo'[i].do = "free"
           \/ i > Len(a) /\ todo'[i].do = "attach"
        /\ \/ j <= Len(a) /\ todo'[j].do = "free"
           \/ j > Len(a) /\ todo'[j].do = "attach"
    BY <1>1, <1>8
  <2> QED BY <1>5, <1>6, <2>1
<1> QED BY <1>7, <1>8

(* Calls for the captures of a list.                                       *)
LEMMA CallsKinds ==
    ASSUME NEW do \in {"free", "attach", "absolutize"}, NEW s \in Seq(Caps),
           NEW e \in Ents \union {NoEnt}, NEW td, td = Calls(do, s, e)
    PROVE  /\ td \in Seq(Call) /\ DOMAIN td = DOMAIN s
           /\ \A i \in DOMAIN td : td[i].do = do /\ td[i].e = e /\ td[i].c = s[i]
<1>1. td \in Seq(Call) /\ DOMAIN td = DOMAIN s BY CallsFacts DEF Calls
<1>2. \A i \in DOMAIN td : td[i] = [do |-> do, c |-> s[i], e |-> e] BY <1>1 DEF Calls
<1>3. \A i \in DOMAIN td : td[i].do = do /\ td[i].e = e /\ td[i].c = s[i] BY <1>2
<1> QED BY <1>1, <1>3

(* table_free_entry: the references of the entry become due.               *)
LEMMA EvictStep == ASSUME NEW e \in Ents PROVE IInv /\ table_free_entry(e) => IInv'
<1>0. SUFFICES ASSUME IInv, table_free_entry(e) PROVE IInv'
  OBVIOUS
<1> DEFINE a == Calls("absolutize", held[e], e)
           b == Frees(held[e])
<1>1. Counts /\ Structure /\ TypeOK /\ IsFiniteSet(table) /\ Counted /\ Control
  BY <1>0 DEF IInv, Counts
<1>2. /\ mode = "edit" /\ todo = <<>> /\ dying = NoEnt /\ e \in table /\ e # NoEnt
      /\ dying' = e /\ todo' = a \o b /\ held' = [held EXCEPT ![e] = <<>>]
      /\ UNCHANGED <<live, refs, ment, off, kids, lost, table, at, stack, results, mode>>
  BY <1>0, CapturesAssumption DEF table_free_entry, Ready, captures
<1>3. held[e] \in Seq(Caps) /\ AllLive(held[e])
  BY <1>1, <1>2, PointedAlive DEF TypeOK
<1>4. /\ a \in Seq(Call) /\ DOMAIN a = DOMAIN held[e]
      /\ \A i \in DOMAIN a : a[i].do = "absolutize" /\ a[i].e = e /\ a[i].c = held[e][i]
  BY <1>3, CallsKinds
<1>5. b \in Seq(Call) /\ \A i \in DOMAIN b : b[i].do = "free"
  BY <1>3, CallsKinds DEF Frees
<1>6. \A c \in Caps : Due(a, c) = 0 /\ Due(b, c) = Occ(held[e], Only(c))
  BY <1>3, CallsDue DEF Frees
<1> HIDE DEF a, b
<1>7. todo' \in Seq(Call) BY <1>2, <1>4, <1>5, ConcatFacts
<1>8. held'[e] = <<>> /\ \A d \in Ents : d # e => held'[d] = held[d]
  BY <1>1, <1>2 DEF TypeOK
<1>9. held' \in [Ents -> Seq(Caps)]
  <2>1. held \in [Ents -> Seq(Caps)] BY <1>1 DEF TypeOK
  <2>2. <<>> \in Seq(Caps) OBVIOUS
  <2> QED BY <1>2, <2>1, <2>2
<1>10. Counts'
  <2>1. TypeOK' BY <1>1, <1>2, <1>7, <1>9 DEF TypeOK, Call
  <2>2. ASSUME NEW c \in Caps
        PROVE  /\ InTable(c)' + Due(todo', c) = InTable(c) + Due(todo, c)
               /\ InTable(c)' \in Int /\ Due(todo', c) \in Int
    <3>1. Lists(table, held, Caps) /\ InTable(c) \in Nat BY <1>1, FamilyLists
    <3>2. Total("entry", table, held', Only(c))
            = Total("entry", table, held, Only(c)) - Occ(held[e], Only(c))
                + Occ(held'[e], Only(c))
      <4>1. e \in table /\ \A d \in table \ {e} : held'[d] = held[d]
        BY <1>1, <1>2, <1>8 DEF TypeOK
      <4>2. held'[e] \in Seq(Caps) BY <1>9
      <4> QED BY <3>1, <4>1, <4>2, TotalChange
    <3>3. Occ(held'[e], Only(c)) = 0 BY <1>8, OccEmpty
    <3>4. Occ(held[e], Only(c)) \in Nat BY <1>3, OccOnly
    <3>5. Due(a \o b, c) = Due(a, c) + Due(b, c) BY <1>4, <1>5, DueConcat
    <3>6. todo' = a \o b /\ todo = <<>> BY <1>2
    <3>7. Due(todo', c) = Occ(held[e], Only(c)) BY <1>6, <3>4, <3>5, <3>6
    <3>8. Due(todo, c) = 0 BY <3>6, NoCalls
    <3>9. InTable(c)' = InTable(c) - Occ(held[e], Only(c))
      <4>1. InTable(c)' = Total("entry", table, held', Only(c)) BY <1>2 DEF InTable
      <4>2. InTable(c) = Total("entry", table, held, Only(c)) BY DEF InTable
      <4> QED BY <3>1, <3>2, <3>3, <3>4, <4>1, <4>2
    <3> QED BY <3>1, <3>4, <3>7, <3>8, <3>9
  <2>3. Counted'
    <3>1. SUFFICES ASSUME NEW c \in Caps
          PROVE  /\ refs[c] = OnStack(stack, c) + InTable(c)' + InCaptures(c)
                               + Kept(c) + Due(todo', c)
                 /\ c \in live <=> refs[c] > 0
      BY <1>2 DEF Counted, InCaptures, Kept
    <3>2. /\ refs[c] = OnStack(stack, c) + InTable(c) + InCaptures(c) + Kept(c) + Due(todo, c)
          /\ c \in live <=> refs[c] > 0
      BY <1>1 DEF Counted
    <3>3. /\ InTable(c) \in Nat /\ InCaptures(c) \in Nat
          /\ OnStack(stack, c) \in Nat /\ Kept(c) \in Nat /\ Due(todo, c) \in Nat
      BY <1>1, FamilyLists
    <3> QED BY <2>2, <3>2, <3>3
  <2>4. Control' BY <1>1, <1>2, <1>8 DEF Control
  <2> QED BY <1>1, <1>2, <2>1, <2>3, <2>4 DEF Counts
<1>11. Order'
  <2>1. /\ a \in Seq(Call) /\ b \in Seq(Call) /\ todo' = a \o b
        /\ \A i \in DOMAIN a : a[i].do = "absolutize"
        /\ \A i \in DOMAIN b : b[i].do = "free"
    BY <1>2, <1>4, <1>5
  <2> QED BY <2>1, TwoKinds
<1>12. Visits'
  <2>1. SUFFICES ASSUME NEW i \in DOMAIN todo'
        PROVE  /\ todo'[i].do # "attach"
               /\ todo'[i].do = "absolutize" => todo'[i].e = e /\ todo'[i].c \in live
    BY <1>2 DEF Visits
  <2>2. \/ i \in DOMAIN a /\ todo'[i] = a[i]
        \/ \E j \in DOMAIN b : todo'[i] = b[j]
    BY <1>2, <1>4, <1>5, ConcatFacts
  <2> QED BY <1>3, <1>4, <1>5, <2>2 DEF AllLive
<1>13. Rooted'
  <2>1. SUFFICES ASSUME NEW c \in live, ment[c] # NoEnt
        PROVE  /\ ment[c] \in table
               /\ \/ In(c, held'[ment[c]])
                  \/ \E p \in live : ment[p] = ment[c] /\ In(c, kids[p])
                  \/ ment[c] = e /\ Pend("absolutize", c)'
    BY <1>2 DEF Rooted
  <2>2. /\ ment[c] \in table /\ ment[c] \in Ents
        /\ \/ In(c, held[ment[c]])
           \/ \E p \in live : ment[p] = ment[c] /\ In(c, kids[p])
    BY <1>1, <1>2, <2>1 DEF Structure, Rooted, TypeOK
  <2>3. ASSUME In(c, held[e]) PROVE Pend("absolutize", c)'
    <3>1. PICK i \in DOMAIN held[e] : held[e][i] = c BY <2>3 DEF In
    <3>2. i \in DOMAIN a /\ a[i].do = "absolutize" /\ a[i].c = c BY <1>4, <3>1
    <3>3. i \in DOMAIN todo' /\ todo'[i] = a[i] BY <1>2, <1>4, <1>5, <3>2, ConcatFacts
    <3> QED BY <3>2, <3>3 DEF Pend
  <2> QED BY <1>8, <2>2, <2>3
<1>14. Acyclic' BY <1>1, <1>2 DEF Structure, Acyclic
<1>15. AttachedSoon'
  <2>1. \A c : Settled(c) => Settled(c)' BY <1>2 DEF Settled, Pend
  <2>2. \A d \in table : \A c : In(c, held'[d]) => In(c, held[d])
    <3>1. ~ \E c : In(c, held'[e]) BY <1>8 DEF In
    <3> QED BY <1>1, <1>8, <3>1 DEF TypeOK
  <2> QED BY <1>1, <1>2, <2>1, <2>2 DEF Structure, AttachedSoon
<1> QED BY <1>10, <1>11, <1>12, <1>13, <1>14, <1>15 DEF IInv, Structure
=============================================================================
