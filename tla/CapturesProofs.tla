--------------------------- MODULE CapturesProofs ---------------------------
(***************************************************************************)
(* Proofs about Captures, second part: the steps of the machine and of the *)
(* client, and the theorems.                                               *)
(*                                                                         *)
(* The machine moves only when no call is pending.  A step of it adds at   *)
(* most one capture and one entry, takes no reference away (what it drops  *)
(* becomes a pending call) and changes no field of an old capture; so the  *)
(* structure stays (GrownStructure), and what is left to show is that the  *)
(* references it adds are the ones it counts.                              *)
(***************************************************************************)
EXTENDS CapturesInvariant

---------------------------------------------------------------------------
(* The machine and the client: no call is pending, and no reference goes.  *)

(* At most one capture is new: it has no owner, and only old children.     *)
Allocates ==
    \/ live' = live /\ ment' = ment /\ kids' = kids
    \/ \E x \in Caps :
         /\ x \notin live /\ live' = live \union {x}
         /\ ment'[x] = NoEnt /\ \A k \in DOMAIN kids'[x] : kids'[x][k] \in live
         /\ \A c \in live : ment'[c] = ment[c] /\ kids'[c] = kids[c]

(* At most one entry is new: what it holds is to be attached to it.        *)
Stores ==
    \/ table' = table /\ held' = held /\ \A i \in DOMAIN todo' : todo'[i].do = "free"
    \/ \E e \in Ents :
         /\ e \notin table /\ table' = table \union {e} /\ Order'
         /\ \A d \in table : held'[d] = held[d]
         /\ \A i \in DOMAIN todo' :
              \/ todo'[i].do = "free"
              \/ todo'[i].do = "attach" /\ todo'[i].e = e /\ In(todo'[i].c, held'[e])
         /\ \A c : In(c, held'[e]) => Pend("attach", c)'

(* With at most one new capture and one new entry the structure stays.     *)
LEMMA GrownStructure ==
    ASSUME IInv, todo = <<>>, dying = NoEnt, dying' = NoEnt, lost' = lost,
           Allocates, Stores
    PROVE  Structure'
<1>1. Counts /\ Structure /\ TypeOK BY DEF IInv, Counts
<1>2. /\ live \subseteq live' /\ \A c \in live : ment'[c] = ment[c] /\ kids'[c] = kids[c]
      /\ \A c \in live' : ment'[c] # NoEnt => c \in live
  BY DEF Allocates
<1>3. table \subseteq table' /\ \A d \in table : held'[d] = held[d] BY DEF Stores
<1>4. \A i \in DOMAIN todo' :
        \/ todo'[i].do = "free"
        \/ todo'[i].do = "attach" /\ todo'[i].e \in table'
             /\ In(todo'[i].c, held'[todo'[i].e])
  BY DEF Stores
<1>5. Order'
  <2>1. CASE \A i \in DOMAIN todo' : todo'[i].do = "free" BY <2>1 DEF Order
  <2>2. CASE ~ \A i \in DOMAIN todo' : todo'[i].do = "free" BY <2>2 DEF Stores
  <2> QED BY <2>1, <2>2
<1>6. Visits'
  <2>1. SUFFICES ASSUME NEW i \in DOMAIN todo'
        PROVE  /\ todo'[i].do # "absolutize"
               /\ todo'[i].do = "attach" =>
                    todo'[i].e \in table' /\ In(todo'[i].c, held'[todo'[i].e])
    BY DEF Visits
  <2> QED BY <1>4, <2>1
<1>7. Rooted'
  <2>1. SUFFICES ASSUME NEW c \in live', ment'[c] # NoEnt
        PROVE  /\ ment'[c] \in table'
               /\ \/ In(c, held'[ment'[c]])
                  \/ \E p \in live' : ment'[p] = ment'[c] /\ In(c, kids'[p])
    BY DEF Rooted
  <2>2. c \in live /\ ment'[c] = ment[c] /\ ment[c] # NoEnt BY <1>2, <2>1
  <2>3. /\ ment[c] \in table
        /\ \/ In(c, held[ment[c]])
           \/ \E p \in live : ment[p] = ment[c] /\ In(c, kids[p])
    BY <1>1, <2>2 DEF Structure, Rooted
  <2>4. ment[c] \in table' /\ held'[ment[c]] = held[ment[c]] BY <1>3, <2>3
  <2>5. CASE In(c, held[ment[c]]) BY <2>2, <2>4, <2>5
  <2>6. CASE \E p \in live : ment[p] = ment[c] /\ In(c, kids[p])
    <3>1. PICK p \in live : ment[p] = ment[c] /\ In(c, kids[p]) BY <2>6
    <3>2. p \in live' /\ ment'[p] = ment[p] /\ kids'[p] = kids[p] BY <1>2
    <3> QED BY <2>2, <2>4, <3>1, <3>2
  <2> QED BY <2>3, <2>5, <2>6
<1>8. Acyclic'
  <2>1. SUFFICES ASSUME NEW S \in SUBSET live', S # {}
        PROVE  \E c \in S : \A p \in S : ~ In(c, kids'[p])
    BY DEF Acyclic
  <2>2. CASE S \subseteq live
    <3>1. PICK c \in S : \A p \in S : ~ In(c, kids[p])
      BY <1>1, <2>1, <2>2 DEF Structure, Acyclic
    <3> QED BY <1>2, <2>2, <3>1
  <2>3. CASE ~ (S \subseteq live)
    <3>1. PICK x \in S : x \notin live BY <2>3
    <3>2. /\ x \in Caps /\ live' = live \union {x}
          /\ \A k \in DOMAIN kids'[x] : kids'[x][k] \in live
      BY <3>1 DEF Allocates
    <3>3. \A p \in live : ~ In(x, kids[p]) BY <1>1, <3>1, <3>2, DeadNowhere
    <3>4. ~ In(x, kids'[x]) BY <3>1, <3>2 DEF In
    <3>5. \A p \in S : ~ In(x, kids'[p]) BY <1>2, <3>2, <3>3, <3>4
    <3> QED BY <3>5
  <2> QED BY <2>2, <2>3
<1>9. AttachedSoon'
  <2>1. ASSUME NEW c, c \in live, Settled(c) PROVE Settled(c)'
    <3>1. ~ Pend("attach", c) BY DEF Pend
    <3> QED BY <1>2, <2>1, <3>1 DEF Settled
  <2>2. ASSUME NEW d \in table', NEW c, In(c, held'[d]) PROVE Settled(c)'
    <3>1. CASE d \in table
      <4>1. In(c, held[d]) BY <1>3, <2>2, <3>1
      <4>2. c \in live BY <1>1, <3>1, <4>1, PointedAlive DEF AllLive, In
      <4> QED BY <1>1, <2>1, <3>1, <4>1, <4>2 DEF Structure, AttachedSoon
    <3>2. CASE d \notin table
      <4>1. Pend("attach", c)' BY <2>2, <3>2 DEF Stores
      <4> QED BY <4>1 DEF Settled
    <3> QED BY <3>1, <3>2
  <2>3. ASSUME NEW p \in live', ment'[p] # NoEnt, NEW c, In(c, kids'[p]) PROVE Settled(c)'
    <3>1. p \in live /\ ment[p] # NoEnt /\ In(c, kids[p]) BY <1>2, <2>3
    <3>2. c \in live BY <1>1, <3>1, PointedAlive DEF AllLive, In
    <3> QED BY <1>1, <2>1, <3>1, <3>2 DEF Structure, AttachedSoon
  <2> QED BY <2>2, <2>3 DEF AttachedSoon
<1> QED BY <1>5, <1>6, <1>7, <1>8, <1>9 DEF Structure

One(x, c) == IF c = x THEN 1 ELSE 0

(* A list of one capture.                                                  *)
LEMMA OneFacts ==
    ASSUME NEW x \in Caps
    PROVE  /\ <<x>> \in Seq(Caps) /\ Frees(<<x>>) \in Seq(Call)
           /\ \A i \in DOMAIN Frees(<<x>>) : Frees(<<x>>)[i].do = "free"
           /\ \A c \in Caps : /\ Occ(<<x>>, Only(c)) = One(x, c) /\ One(x, c) \in Nat
                              /\ Due(Frees(<<x>>), c) = One(x, c)
<1>1. <<x>> \in Seq(Caps) OBVIOUS
<1>2. \A c \in Caps : Occ(<<x>>, Only(c)) = One(x, c) BY OccOne DEF Only, One
<1>3. \A c \in Caps : Due(Frees(<<x>>), c) = Occ(<<x>>, Only(c)) BY <1>1, CallsDue DEF Frees
<1>4. /\ Frees(<<x>>) \in Seq(Call)
      /\ \A i \in DOMAIN Frees(<<x>>) : Frees(<<x>>)[i].do = "free"
  BY <1>1, CallsKinds DEF Frees
<1> QED BY <1>1, <1>2, <1>3, <1>4 DEF One

(* The references of a list of live captures, and the calls to drop them.  *)
LEMMA ListFacts ==
    ASSUME NEW s, s \in Seq(Caps), AllLive(s)
    PROVE  /\ Frees(s) \in Seq(Call)
           /\ \A i \in DOMAIN Frees(s) : Frees(s)[i].do = "free"
           /\ \A c \in Caps : /\ Occ(s, Only(c)) \in Nat
                              /\ Due(Frees(s), c) = Occ(s, Only(c))
                              /\ c \notin live => Occ(s, Only(c)) = 0
<1>1. \A c \in Caps : Due(Frees(s), c) = Occ(s, Only(c)) BY CallsDue DEF Frees
<1>2. /\ Frees(s) \in Seq(Call)
      /\ \A i \in DOMAIN Frees(s) : Frees(s)[i].do = "free"
  BY CallsKinds DEF Frees
<1>3. ASSUME NEW c \in Caps
      PROVE  Occ(s, Only(c)) \in Nat /\ (c \notin live => Occ(s, Only(c)) = 0)
  <2>1. Occ(s, Only(c)) \in Nat /\ (Occ(s, Only(c)) > 0 <=> In(c, s)) BY OccOnly
  <2>2. In(c, s) => c \in live BY DEF In, AllLive
  <2> QED BY <2>1, <2>2
<1> QED BY <1>1, <1>2, <1>3

(* One more capture, and one more entry.                                   *)
LEMMA InCapturesMore ==
    ASSUME NEW x, x \in live', live' \ {x} = live, live' \subseteq Caps,
           kids' \in [Caps -> Seq(Caps)], \A k \in live : kids'[k] = kids[k], NEW c
    PROVE  InCaptures(c)' = InCaptures(c) + Occ(kids'[x], Only(c))
<1>1. IsFiniteSet(live') BY CapturesAssumption, FS_Subset
<1>2. Lists(live', kids', Caps) BY <1>1 DEF Lists
<1>3. Total("kid", live', kids', Only(c))
        = Total("kid", live' \ {x}, kids', Only(c)) + Occ(kids'[x], Only(c))
  BY <1>2, TotalWithout
<1>4. Total("kid", live, kids', Only(c)) = Total("kid", live, kids, Only(c)) BY TotalSame
<1> QED BY <1>3, <1>4 DEF InCaptures

(* The references of the new entry.                                        *)
LEMMA InTableMore ==
    ASSUME NEW e, e \in table', table' \ {e} = table, table' \subseteq Ents,
           IsFiniteSet(table'),
           held' \in [Ents -> Seq(Caps)], \A d \in table : held'[d] = held[d], NEW c
    PROVE  InTable(c)' = InTable(c) + Occ(held'[e], Only(c))
<1>2. Lists(table', held', Caps) BY DEF Lists
<1>3. Total("entry", table', held', Only(c))
        = Total("entry", table' \ {e}, held', Only(c)) + Occ(held'[e], Only(c))
  BY <1>2, TotalWithout
<1>4. Total("entry", table, held', Only(c)) = Total("entry", table, held, Only(c))
  BY TotalSame
<1> QED BY <1>3, <1>4 DEF InTable

(* memo_capture_node, memo_capture_dummy and memo_capture_add.             *)
LEMMA NewCaptureFacts ==
    ASSUME IInv, NEW x \in Caps, NEW start \in Starts, NEW s, s \in Seq(Caps), AllLive(s),
           NEW r, r \in [Caps -> Nat], NewCapture(x, start, s, r)
    PROVE  /\ x \notin live /\ live' = live \union {x} /\ lost' = lost
           /\ live' \subseteq Caps /\ lost' \subseteq live' /\ Allocates
           /\ off' \in [Caps -> Int] /\ ment' \in [Caps -> Ents \union {NoEnt}]
           /\ kids' \in [Caps -> Seq(Caps)] /\ refs' \in [Caps -> Nat]
           /\ \A c \in Caps : refs'[c] = r[c] + One(x, c) + Occ(s, Only(c))
           /\ \A c \in Caps : InCaptures(c)' = InCaptures(c) + Occ(s, Only(c))
<1>1. Counts /\ TypeOK /\ IsFiniteSet(table) BY DEF IInv, Counts
<1>2. /\ x \notin live /\ live' = live \union {x} /\ lost' = lost
      /\ off' = [off EXCEPT ![x] = start] /\ ment' = [ment EXCEPT ![x] = NoEnt]
      /\ kids' = [kids EXCEPT ![x] = s] /\ refs' = Refd([r EXCEPT ![x] = @ + 1], s)
  BY DEF NewCapture
<1>3. /\ off \in [Caps -> Int] /\ ment \in [Caps -> Ents \union {NoEnt}]
      /\ kids \in [Caps -> Seq(Caps)] /\ live \subseteq Caps /\ lost \subseteq live
  BY <1>1 DEF TypeOK
<1>4. off' \in [Caps -> Int]
  <2>1. start \in Int BY CapturesAssumption
  <2>2. [off EXCEPT ![x] = start] \in [Caps -> Int] BY <1>3, <2>1, Zenon
  <2> QED BY <1>2, <2>2, Zenon
<1>5. ment' \in [Caps -> Ents \union {NoEnt}] BY <1>2, <1>3
<1>6. kids' \in [Caps -> Seq(Caps)] BY <1>2, <1>3
<1>7. ment'[x] = NoEnt /\ kids'[x] = s
      /\ \A c \in Caps : c # x => ment'[c] = ment[c] /\ kids'[c] = kids[c]
  BY <1>2, <1>3
<1>8. Allocates BY <1>2, <1>3, <1>7 DEF Allocates, AllLive
<1>9. refs' \in [Caps -> Nat] /\ \A c \in Caps : refs'[c] = r[c] + One(x, c) + Occ(s, Only(c))
  <2> DEFINE q == [r EXCEPT ![x] = @ + 1]
  <2>1. q \in [Caps -> Nat] /\ \A c \in Caps : q[c] = r[c] + One(x, c) BY DEF One
  <2> HIDE DEF q
  <2>2. Refd(q, s) \in [Caps -> Nat] /\ \A c \in Caps : Refd(q, s)[c] = q[c] + Occ(s, Only(c))
    BY <2>1, RefdFacts
  <2>3. refs' = Refd(q, s) BY <1>2 DEF q
  <2> QED BY <2>1, <2>2, <2>3
<1>10. ASSUME NEW c \in Caps PROVE InCaptures(c)' = InCaptures(c) + Occ(s, Only(c))
  <2>1. x \in live' /\ live' \ {x} = live BY <1>2
  <2>2. live' \subseteq Caps /\ \A k \in live : kids'[k] = kids[k] BY <1>2, <1>3, <1>7
  <2>3. InCaptures(c)' = InCaptures(c) + Occ(kids'[x], Only(c))
    BY <1>6, <2>1, <2>2, InCapturesMore
  <2> QED BY <1>7, <2>3
<1> QED BY <1>2, <1>3, <1>4, <1>5, <1>6, <1>8, <1>9, <1>10

(* memo_table_put, or nothing.                                             *)
LEMMA MemoizeFacts ==
    ASSUME IInv, NEW s, s \in Seq(Caps), NEW before, before \in Seq(Call),
           \A i \in DOMAIN before : before[i].do = "free", memoize(s, before)
    PROVE  /\ todo' \in Seq(Call) /\ table' \subseteq Ents /\ IsFiniteSet(table')
           /\ held' \in [Ents -> Seq(Caps)] /\ at' \in [Ents -> Int]
           /\ \A d \in table : at'[d] = at[d]
           /\ Stores
           /\ \A c \in Caps :
                /\ InTable(c)' + Due(todo', c) = InTable(c) + Due(before, c) + Occ(s, Only(c))
                /\ InTable(c)' \in Nat /\ Due(todo', c) \in Nat
<1>1. TypeOK /\ IsFiniteSet(table) BY DEF IInv, Counts
<1>2. /\ table \subseteq Ents /\ held \in [Ents -> Seq(Caps)] /\ at \in [Ents -> Int]
      /\ \A c \in Caps : InTable(c) \in Nat
  BY <1>1, FamilyLists DEF TypeOK
<1>3. \A c \in Caps : Occ(s, Only(c)) \in Nat BY OccOnly
<1>4. CASE todo' = before \o Frees(s) /\ UNCHANGED entries
  <2> DEFINE b == Frees(s)
  <2>1. table' = table /\ held' = held /\ at' = at BY <1>4 DEF entries
  <2>2. b \in Seq(Call) /\ \A i \in DOMAIN b : b[i].do = "free" BY CallsKinds DEF Frees
  <2>3. \A c \in Caps : Due(b, c) = Occ(s, Only(c)) BY CallsDue DEF Frees
  <2>4. todo' = before \o b BY <1>4
  <2> HIDE DEF b
  <2>5. todo' \in Seq(Call) BY <2>2, <2>4, ConcatFacts
  <2>6. \A i \in DOMAIN todo' : todo'[i].do = "free" BY <2>2, <2>4, ConcatFacts
  <2>7. \A c \in Caps : /\ Due(todo', c) = Due(before, c) + Due(b, c)
                        /\ Due(before, c) \in Nat /\ Due(b, c) \in Nat
    BY <2>2, <2>4, DueConcat
  <2>8. \A c \in Caps : InTable(c)' = InTable(c) BY <2>1 DEF InTable
  <2>9. Stores BY <2>1, <2>6 DEF Stores
  <2> QED BY <1>1, <1>2, <1>3, <2>1, <2>3, <2>5, <2>7, <2>8, <2>9
<1>5. ASSUME NEW e \in Ents \ table, NEW p \in Starts,
             table' = table \union {e}, held' = [held EXCEPT ![e] = s],
             at' = [at EXCEPT ![e] = p], todo' = before \o Calls("attach", s, e)
      PROVE  /\ todo' \in Seq(Call) /\ table' \subseteq Ents /\ IsFiniteSet(table')
             /\ held' \in [Ents -> Seq(Caps)] /\ at' \in [Ents -> Int]
             /\ \A d \in table : at'[d] = at[d]
             /\ Stores
             /\ \A c \in Caps :
                  /\ InTable(c)' + Due(todo', c)
                       = InTable(c) + Due(before, c) + Occ(s, Only(c))
                  /\ InTable(c)' \in Nat /\ Due(todo', c) \in Nat
  <2> DEFINE b == Calls("attach", s, e)
  <2>1. /\ b \in Seq(Call) /\ DOMAIN b = DOMAIN s
        /\ \A i \in DOMAIN b : b[i].do = "attach" /\ b[i].e = e /\ b[i].c = s[i]
    BY CallsKinds
  <2>2. \A c \in Caps : Due(b, c) = 0 BY CallsDue
  <2>3. todo' = before \o b BY <1>5
  <2> HIDE DEF b
  <2>4. /\ todo' \in Seq(Call)
        /\ \A i \in DOMAIN todo' : \/ i \in DOMAIN before /\ todo'[i] = before[i]
                                   \/ \E j \in DOMAIN b : todo'[i] = b[j]
        /\ \A j \in DOMAIN b : \E i \in DOMAIN todo' : todo'[i] = b[j]
    <3>1. /\ todo' \in Seq(Call)
          /\ \A i \in DOMAIN todo' : \/ i \in DOMAIN before /\ todo'[i] = before[i]
                                     \/ \E j \in DOMAIN b : todo'[i] = b[j]
          /\ \A j \in DOMAIN b :
               j + Len(before) \in DOMAIN todo' /\ todo'[j + Len(before)] = b[j]
      BY <2>1, <2>3, ConcatFacts
    <3> QED BY <3>1, Zenon
  <2>5. \A c \in Caps : /\ Due(todo', c) = Due(before, c) + Due(b, c)
                        /\ Due(before, c) \in Nat
    BY <2>1, <2>3, DueConcat
  <2>6. table' \subseteq Ents /\ e \in table' /\ table' \ {e} = table BY <1>2, <1>5
  <2>7. IsFiniteSet(table') BY <1>1, <1>5, FS_AddElement
  <2>8. held' \in [Ents -> Seq(Caps)] BY <1>2, <1>5
  <2>9. at' \in [Ents -> Int]
    <3>1. p \in Int BY CapturesAssumption
    <3>2. [at EXCEPT ![e] = p] \in [Ents -> Int] BY <1>2, <3>1, Zenon
    <3> QED BY <1>5, <3>2, Zenon
  <2>10. /\ held'[e] = s
         /\ \A d \in table : held'[d] = held[d] /\ at'[d] = at[d]
    BY <1>2, <1>5
  <2>11. \A c \in Caps : InTable(c)' = InTable(c) + Occ(held'[e], Only(c))
    BY <2>6, <2>7, <2>8, <2>10, InTableMore
  <2>12. Stores
    <3>1. Order' BY <2>1, <2>3, TwoKinds
    <3>2. ASSUME NEW i \in DOMAIN todo'
          PROVE  \/ todo'[i].do = "free"
                 \/ todo'[i].do = "attach" /\ todo'[i].e = e /\ In(todo'[i].c, held'[e])
      <4>1. CASE i \in DOMAIN before /\ todo'[i] = before[i] BY <4>1
      <4>2. CASE \E j \in DOMAIN b : todo'[i] = b[j]
        <5>1. PICK j \in DOMAIN b : todo'[i] = b[j] BY <4>2
        <5>2. b[j].do = "attach" /\ b[j].e = e /\ b[j].c = s[j] /\ j \in DOMAIN s
          BY <2>1
        <5> QED BY <2>10, <5>1, <5>2 DEF In
      <4> QED BY <2>4, <4>1, <4>2
    <3>3. ASSUME NEW c, In(c, held'[e]) PROVE Pend("attach", c)'
      <4>1. PICK j \in DOMAIN s : s[j] = c BY <2>10, <3>3 DEF In
      <4>2. PICK i \in DOMAIN todo' : todo'[i] = b[j] BY <2>1, <2>4
      <4> QED BY <2>1, <4>1, <4>2 DEF Pend
    <3> QED BY <1>5, <2>10, <3>1, <3>2, <3>3 DEF Stores
  <2> QED BY <1>2, <1>3, <2>2, <2>4, <2>5, <2>6, <2>7, <2>8, <2>9, <2>10, <2>11, <2>12
<1> QED BY <1>4, <1>5 DEF memoize

(* The same where memoize is all that is pending.                          *)
LEMMA MemoizeAlone ==
    ASSUME IInv, NEW s, s \in Seq(Caps), memoize(s, <<>>)
    PROVE  /\ todo' \in Seq(Call) /\ table' \subseteq Ents /\ IsFiniteSet(table')
           /\ held' \in [Ents -> Seq(Caps)] /\ at' \in [Ents -> Int] /\ Stores
           /\ \A c \in Caps :
                /\ InTable(c)' + Due(todo', c) = InTable(c) + Occ(s, Only(c))
                /\ InTable(c)' \in Nat /\ Due(todo', c) \in Nat
<1> DEFINE before == <<>>
<1>1. /\ before \in Seq(Call) /\ \A i \in DOMAIN before : before[i].do = "free"
      /\ \A c \in Caps : Due(before, c) = 0
  BY NoCalls
<1>2. memoize(s, before) OBVIOUS
<1> HIDE DEF before
<1>3. /\ todo' \in Seq(Call) /\ table' \subseteq Ents /\ IsFiniteSet(table')
      /\ held' \in [Ents -> Seq(Caps)] /\ at' \in [Ents -> Int] /\ Stores
      /\ \A c \in Caps :
           /\ InTable(c)' + Due(todo', c) = InTable(c) + Due(before, c) + Occ(s, Only(c))
           /\ InTable(c)' \in Nat /\ Due(todo', c) \in Nat
  BY <1>1, <1>2, MemoizeFacts
<1>4. TypeOK /\ IsFiniteSet(table) BY DEF IInv, Counts
<1>5. ASSUME NEW c \in Caps
      PROVE  InTable(c)' + Due(todo', c) = InTable(c) + Occ(s, Only(c))
  <2>1. InTable(c) \in Nat /\ Occ(s, Only(c)) \in Nat BY <1>4, FamilyLists, OccOnly
  <2>2. /\ InTable(c)' + Due(todo', c) = InTable(c) + Due(before, c) + Occ(s, Only(c))
        /\ Due(before, c) = 0
    BY <1>1, <1>3
  <2> QED BY <2>1, <2>2
<1> QED BY <1>3, <1>5

(* Where no call is pending.                                               *)
LEMMA BeforeFacts ==
    ASSUME IInv, todo = <<>>
    PROVE  \A c \in Caps :
             /\ refs[c] = OnStack(stack, c) + InTable(c) + InCaptures(c) + Kept(c)
             /\ refs[c] \in Nat /\ OnStack(stack, c) \in Nat /\ InTable(c) \in Nat
             /\ InCaptures(c) \in Nat /\ Kept(c) \in Nat
             /\ c \in live <=> refs[c] > 0
<1>1. TypeOK /\ IsFiniteSet(table) /\ Counted BY DEF IInv, Counts
<1>2. SUFFICES ASSUME NEW c \in Caps
      PROVE  /\ refs[c] = OnStack(stack, c) + InTable(c) + InCaptures(c) + Kept(c)
             /\ refs[c] \in Nat /\ OnStack(stack, c) \in Nat /\ InTable(c) \in Nat
             /\ InCaptures(c) \in Nat /\ Kept(c) \in Nat
             /\ c \in live <=> refs[c] > 0
  OBVIOUS
<1>3. /\ InTable(c) \in Nat /\ InCaptures(c) \in Nat
      /\ OnStack(stack, c) \in Nat /\ Kept(c) \in Nat
  BY <1>1, FamilyLists
<1>4. Due(todo, c) = 0 BY NoCalls
<1>5. /\ refs[c] = OnStack(stack, c) + InTable(c) + InCaptures(c) + Kept(c) + Due(todo, c)
      /\ c \in live <=> refs[c] > 0
  BY <1>1 DEF Counted
<1>6. refs[c] \in Nat BY <1>1 DEF TypeOK
<1> QED BY <1>3, <1>4, <1>5, <1>6

(* The top of the stack is popped.                                         *)
LEMMA PopFacts ==
    ASSUME IInv, stack # <<>>
    PROVE  /\ stack \in Seq(Seq(Caps)) /\ Below \in Seq(Seq(Caps)) /\ (Poppable => Below # <<>>)
           /\ Top \in Seq(Caps) /\ AllLive(Top) /\ \A i \in DOMAIN Below : AllLive(Below[i])
           /\ \A c : /\ OnStack(stack, c) = OnStack(Below, c) + Occ(Top, Only(c))
                     /\ OnStack(Below, c) \in Nat
<1>1. stack \in Seq(Seq(Caps)) /\ Counts BY DEF IInv, Counts, TypeOK
<1>2. /\ Below \in Seq(Seq(Caps)) /\ Len(Below) = Len(stack) - 1 /\ Top \in Seq(Caps)
      /\ \A i \in DOMAIN Below : i \in DOMAIN stack /\ Below[i] = stack[i]
      /\ \A c : /\ OnStack(stack, c) = OnStack(Below, c) + Occ(Top, Only(c))
                /\ OnStack(Below, c) \in Nat
  BY <1>1, StackDrop DEF Below, Top
<1>3. Poppable => Below # <<>>
  <2>1. Len(stack) \in Nat /\ Len(<<>>) = 0 BY <1>1
  <2> QED BY <1>2, <2>1 DEF Poppable
<1>4. Len(stack) \in DOMAIN stack
  <2>1. Len(stack) \in Nat /\ DOMAIN stack = 1 .. Len(stack) /\ Len(stack) >= 1 BY <1>1
  <2> QED BY <2>1
<1>5. AllLive(Top) /\ \A i \in DOMAIN Below : AllLive(Below[i])
  <2>1. \A i \in DOMAIN stack : AllLive(stack[i]) BY <1>1, PointedAlive
  <2> QED BY <1>2, <1>4, <2>1 DEF Top
<1> QED BY <1>1, <1>2, <1>3, <1>5

AllFrees(t) == \A i \in DOMAIN t : t[i].do = "free"

(* References to drop from two lists.                                      *)
LEMMA FreesThenFrees ==
    ASSUME NEW a, NEW b, a \in Seq(Call), b \in Seq(Call),
           \A i \in DOMAIN a : a[i].do = "free", \A i \in DOMAIN b : b[i].do = "free"
    PROVE  /\ a \o b \in Seq(Call) /\ AllFrees(a \o b)
           /\ \A c : Due(a \o b, c) = Due(a, c) + Due(b, c)
<1> DEFINE t == a \o b
<1>1. t = a \o b OBVIOUS
<1>2. \A c : Due(a \o b, c) = Due(a, c) + Due(b, c) BY DueConcat
<1> HIDE DEF t
<1>3. t \in Seq(Call) BY <1>1, ConcatFacts
<1>4. \A i \in DOMAIN t : t[i].do = "free" BY <1>1, ConcatFacts
<1>5. AllFrees(t) BY <1>4 DEF AllFrees
<1> QED BY <1>1, <1>2, <1>3, <1>5

(* What is left to prove for a step of the machine.                        *)
LEMMA MachineStep ==
    ASSUME IInv, todo = <<>>, dying = NoEnt, dying' = NoEnt, lost' = lost,
           Allocates, Stores, TypeOK', IsFiniteSet(table'), Control', Counted'
    PROVE  IInv'
BY GrownStructure DEF IInv, Counts

(* The steps of the machine.                                               *)
LEMMA PushStep == IInv /\ Push => IInv'
<1>0. SUFFICES ASSUME IInv, Push PROVE IInv'
  OBVIOUS
<1>1. TypeOK /\ Control /\ IsFiniteSet(table) BY <1>0 DEF IInv, Counts
<1>2. /\ mode = "run" /\ todo = <<>> /\ dying = NoEnt /\ stack' = Append(stack, <<>>)
      /\ UNCHANGED <<live, refs, ment, off, kids, lost, table, held, at, results, mode,
                     dying, todo>>
  BY <1>0 DEF Push, Ready, captures, entries
<1>3. stack \in Seq(Seq(Caps)) BY <1>1 DEF TypeOK
<1>4. /\ stack' \in Seq(Seq(Caps)) /\ stack' # <<>>
      /\ \A c : OnStack(stack', c) = OnStack(stack, c)
  BY <1>2, <1>3, StackPush
<1>5. TypeOK' BY <1>1, <1>2, <1>4 DEF TypeOK
<1>6. Counted'
  BY <1>0, <1>2, <1>4 DEF IInv, Counts, Counted, InTable, InCaptures, Kept
<1>7. Control' BY <1>1, <1>2, <1>4 DEF Control
<1>8. Allocates /\ Stores BY <1>2 DEF Allocates, Stores
<1> QED BY <1>0, <1>1, <1>2, <1>5, <1>6, <1>7, <1>8, MachineStep

(* A leaf: one reference on the stack, one of its maker, which is due.     *)
LEMMA FullStep == IInv /\ VM_CAPTURE_FULL => IInv'
<1>0. SUFFICES ASSUME IInv, VM_CAPTURE_FULL PROVE IInv'
  OBVIOUS
<1>1. TypeOK /\ Control /\ IsFiniteSet(table) BY <1>0 DEF IInv, Counts
<1>2. PICK x \in Caps, start \in Starts :
        /\ mode = "run" /\ todo = <<>> /\ dying = NoEnt
        /\ NewCapture(x, start, <<>>, Refd(refs, <<x>>))
        /\ stack' = stack_add_capt(stack, <<x>>) /\ todo' = Frees(<<x>>)
        /\ UNCHANGED <<table, held, at, results, mode, dying>>
  BY <1>0 DEF VM_CAPTURE_FULL, Ready, entries
<1>3. /\ <<x>> \in Seq(Caps) /\ todo' \in Seq(Call)
      /\ \A i \in DOMAIN todo' : todo'[i].do = "free"
      /\ \A c \in Caps : /\ Occ(<<x>>, Only(c)) = One(x, c) /\ One(x, c) \in Nat
                         /\ Due(todo', c) = One(x, c)
  BY <1>2, OneFacts
<1>4. stack \in Seq(Seq(Caps)) /\ stack # <<>> /\ refs \in [Caps -> Nat]
  BY <1>1, <1>2 DEF TypeOK, Control
<1>5. /\ stack' \in Seq(Seq(Caps)) /\ stack' # <<>>
      /\ \A c : OnStack(stack', c) = OnStack(stack, c) + Occ(<<x>>, Only(c))
  BY <1>2, <1>3, <1>4, StackAdd
<1>6. /\ Refd(refs, <<x>>) \in [Caps -> Nat]
      /\ \A c \in Caps : Refd(refs, <<x>>)[c] = refs[c] + Occ(<<x>>, Only(c))
  BY <1>3, <1>4, RefdFacts
<1>7. <<>> \in Seq(Caps) /\ AllLive(<<>>) BY DEF AllLive
<1>8. /\ x \notin live /\ live' = live \union {x} /\ lost' = lost
      /\ live' \subseteq Caps /\ lost' \subseteq live' /\ Allocates
      /\ off' \in [Caps -> Int] /\ ment' \in [Caps -> Ents \union {NoEnt}]
      /\ kids' \in [Caps -> Seq(Caps)] /\ refs' \in [Caps -> Nat]
      /\ \A c \in Caps : refs'[c] = Refd(refs, <<x>>)[c] + One(x, c) + Occ(<<>>, Only(c))
      /\ \A c \in Caps : InCaptures(c)' = InCaptures(c) + Occ(<<>>, Only(c))
  BY <1>0, <1>2, <1>6, <1>7, NewCaptureFacts
<1>9. TypeOK' BY <1>1, <1>2, <1>3, <1>5, <1>8 DEF TypeOK, Call
<1>10. Counted'
  <2>1. SUFFICES ASSUME NEW c \in Caps
        PROVE  /\ refs'[c] = OnStack(stack', c) + InTable(c)' + InCaptures(c)'
                               + Kept(c)' + Due(todo', c)
               /\ c \in live' <=> refs'[c] > 0
    BY DEF Counted
  <2>2. InTable(c)' = InTable(c) /\ Kept(c)' = Kept(c) BY <1>2 DEF InTable, Kept
  <2>3. Occ(<<>>, Only(c)) = 0 BY OccEmpty
  <2>4. /\ refs[c] = OnStack(stack, c) + InTable(c) + InCaptures(c) + Kept(c)
        /\ refs[c] \in Nat /\ OnStack(stack, c) \in Nat /\ InTable(c) \in Nat
        /\ InCaptures(c) \in Nat /\ Kept(c) \in Nat
        /\ c \in live <=> refs[c] > 0
    BY <1>0, <1>2, BeforeFacts
  <2>5. One(x, c) \in Nat /\ Occ(<<x>>, Only(c)) = One(x, c) /\ Due(todo', c) = One(x, c)
    BY <1>3
  <2>6. OnStack(stack', c) = OnStack(stack, c) + Occ(<<x>>, Only(c)) BY <1>5
  <2>7. /\ refs'[c] = Refd(refs, <<x>>)[c] + One(x, c) + Occ(<<>>, Only(c))
        /\ InCaptures(c)' = InCaptures(c) + Occ(<<>>, Only(c))
    BY <1>8
  <2>8. Refd(refs, <<x>>)[c] = refs[c] + Occ(<<x>>, Only(c)) BY <1>6
  <2>9. refs'[c] = refs[c] + One(x, c) + One(x, c) BY <2>3, <2>4, <2>5, <2>7, <2>8
  <2>10. c \in live' <=> refs'[c] > 0 BY <1>8, <2>4, <2>9 DEF One
  <2> QED BY <2>2, <2>3, <2>4, <2>5, <2>6, <2>7, <2>9, <2>10
<1>11. Control' BY <1>1, <1>2, <1>5 DEF Control
<1>12. Stores BY <1>2, <1>3 DEF Stores
<1> QED BY <1>0, <1>1, <1>2, <1>8, <1>9, <1>10, <1>11, <1>12, MachineStep

(* A node: its list moves from the stack to it, and the copies are due.    *)
LEMMA EndStep == IInv /\ VM_CAPTURE_END => IInv'
<1>0. SUFFICES ASSUME IInv, VM_CAPTURE_END PROVE IInv'
  OBVIOUS
<1>1. TypeOK /\ Control /\ IsFiniteSet(table) BY <1>0 DEF IInv, Counts
<1>2. PICK x \in Caps, start \in Starts :
        /\ mode = "run" /\ todo = <<>> /\ dying = NoEnt /\ Poppable
        /\ NewCapture(x, start, Top, Refd(refs, <<x>>))
        /\ stack' = stack_add_capt(Below, <<x>>)
        /\ todo' = Frees(Top) \o Frees(<<x>>)
        /\ UNCHANGED <<table, held, at, results, mode, dying>>
  BY <1>0 DEF VM_CAPTURE_END, Ready, entries
<1>3. /\ <<x>> \in Seq(Caps) /\ Frees(<<x>>) \in Seq(Call)
      /\ \A i \in DOMAIN Frees(<<x>>) : Frees(<<x>>)[i].do = "free"
      /\ \A c \in Caps : /\ Occ(<<x>>, Only(c)) = One(x, c) /\ One(x, c) \in Nat
                         /\ Due(Frees(<<x>>), c) = One(x, c)
  BY OneFacts
<1>4. stack # <<>> /\ refs \in [Caps -> Nat] BY <1>1, <1>2 DEF TypeOK, Control
<1>5. /\ Below \in Seq(Seq(Caps)) /\ Below # <<>> /\ Top \in Seq(Caps) /\ AllLive(Top)
      /\ \A c : /\ OnStack(stack, c) = OnStack(Below, c) + Occ(Top, Only(c))
                /\ OnStack(Below, c) \in Nat
  BY <1>0, <1>2, <1>4, PopFacts
<1>6. /\ stack' \in Seq(Seq(Caps)) /\ stack' # <<>>
      /\ \A c : OnStack(stack', c) = OnStack(Below, c) + Occ(<<x>>, Only(c))
  BY <1>2, <1>3, <1>5, StackAdd
<1>7. /\ Frees(Top) \in Seq(Call)
      /\ \A i \in DOMAIN Frees(Top) : Frees(Top)[i].do = "free"
      /\ \A c \in Caps : /\ Occ(Top, Only(c)) \in Nat
                         /\ Due(Frees(Top), c) = Occ(Top, Only(c))
                         /\ c \notin live => Occ(Top, Only(c)) = 0
  BY <1>5, ListFacts
<1>8. /\ todo' \in Seq(Call) /\ \A i \in DOMAIN todo' : todo'[i].do = "free"
      /\ \A c : Due(todo', c) = Due(Frees(Top), c) + Due(Frees(<<x>>), c)
  <2> DEFINE a == Frees(Top)
             b == Frees(<<x>>)
  <2>1. /\ a \in Seq(Call) /\ b \in Seq(Call) /\ todo' = a \o b
        /\ \A i \in DOMAIN a : a[i].do = "free"
        /\ \A i \in DOMAIN b : b[i].do = "free"
    BY <1>2, <1>3, <1>7
  <2> HIDE DEF a, b
  <2>2. /\ a \o b \in Seq(Call) /\ AllFrees(a \o b)
        /\ \A c : Due(a \o b, c) = Due(a, c) + Due(b, c)
    BY <2>1, FreesThenFrees
  <2>3. /\ todo' \in Seq(Call) /\ AllFrees(todo')
        /\ \A c : Due(todo', c) = Due(a, c) + Due(b, c)
    BY <2>1, <2>2
  <2> QED BY <2>3 DEF a, b, AllFrees
<1>9. /\ Refd(refs, <<x>>) \in [Caps -> Nat]
      /\ \A c \in Caps : Refd(refs, <<x>>)[c] = refs[c] + Occ(<<x>>, Only(c))
  BY <1>3, <1>4, RefdFacts
<1>10. /\ x \notin live /\ live' = live \union {x} /\ lost' = lost
       /\ live' \subseteq Caps /\ lost' \subseteq live' /\ Allocates
       /\ off' \in [Caps -> Int] /\ ment' \in [Caps -> Ents \union {NoEnt}]
       /\ kids' \in [Caps -> Seq(Caps)] /\ refs' \in [Caps -> Nat]
       /\ \A c \in Caps : refs'[c] = Refd(refs, <<x>>)[c] + One(x, c) + Occ(Top, Only(c))
       /\ \A c \in Caps : InCaptures(c)' = InCaptures(c) + Occ(Top, Only(c))
  BY <1>0, <1>2, <1>5, <1>9, NewCaptureFacts
<1>11. TypeOK' BY <1>1, <1>2, <1>6, <1>8, <1>10 DEF TypeOK, Call
<1>12. Counted'
  <2>1. SUFFICES ASSUME NEW c \in Caps
        PROVE  /\ refs'[c] = OnStack(stack', c) + InTable(c)' + InCaptures(c)'
                               + Kept(c)' + Due(todo', c)
               /\ c \in live' <=> refs'[c] > 0
    BY DEF Counted
  <2>2. InTable(c)' = InTable(c) /\ Kept(c)' = Kept(c) BY <1>2 DEF InTable, Kept
  <2>3. /\ refs[c] = OnStack(stack, c) + InTable(c) + InCaptures(c) + Kept(c)
        /\ refs[c] \in Nat /\ OnStack(stack, c) \in Nat /\ InTable(c) \in Nat
        /\ InCaptures(c) \in Nat /\ Kept(c) \in Nat
        /\ c \in live <=> refs[c] > 0
    BY <1>0, <1>2, BeforeFacts
  <2>4. /\ One(x, c) \in Nat /\ Occ(<<x>>, Only(c)) = One(x, c)
        /\ Due(Frees(<<x>>), c) = One(x, c)
    BY <1>3
  <2>5. /\ OnStack(stack, c) = OnStack(Below, c) + Occ(Top, Only(c))
        /\ OnStack(Below, c) \in Nat
        /\ OnStack(stack', c) = OnStack(Below, c) + Occ(<<x>>, Only(c))
    BY <1>5, <1>6
  <2>6. /\ Occ(Top, Only(c)) \in Nat /\ Due(Frees(Top), c) = Occ(Top, Only(c))
        /\ c \notin live => Occ(Top, Only(c)) = 0
    BY <1>7
  <2>7. Due(todo', c) = Due(Frees(Top), c) + Due(Frees(<<x>>), c) BY <1>8
  <2>8. Refd(refs, <<x>>)[c] = refs[c] + Occ(<<x>>, Only(c)) BY <1>9
  <2>9. /\ refs'[c] = Refd(refs, <<x>>)[c] + One(x, c) + Occ(Top, Only(c))
        /\ InCaptures(c)' = InCaptures(c) + Occ(Top, Only(c))
    BY <1>10
  <2>10. refs'[c] = refs[c] + One(x, c) + One(x, c) + Occ(Top, Only(c))
    BY <2>3, <2>4, <2>6, <2>8, <2>9
  <2>11. c \in live' <=> refs'[c] > 0
    <3>1. c \in live' <=> c \in live \/ c = x BY <1>10
    <3>2. IF c = x THEN One(x, c) = 1 ELSE One(x, c) = 0 BY DEF One
    <3> QED BY <2>3, <2>6, <2>10, <3>1, <3>2
  <2>12. refs'[c] = OnStack(stack', c) + InTable(c)' + InCaptures(c)'
                      + Kept(c)' + Due(todo', c)
    BY <2>2, <2>3, <2>4, <2>5, <2>6, <2>7, <2>9, <2>10
  <2> QED BY <2>11, <2>12
<1>13. Control' BY <1>1, <1>2, <1>6 DEF Control
<1>14. Stores BY <1>2, <1>8 DEF Stores
<1> QED BY <1>0, <1>1, <1>2, <1>10, <1>11, <1>12, <1>13, <1>14, MachineStep

(* The steps that make no capture.                                         *)
LEMMA QuietStep ==
    ASSUME IInv, todo = <<>>, dying = NoEnt, UNCHANGED <<live, ment, off, kids, lost, dying>>,
           stack' \in Seq(Seq(Caps)), refs' \in [Caps -> Nat], results' \subseteq Caps,
           mode' \in {"idle", "run", "exit", "edit"}, todo' \in Seq(Call),
           table' \subseteq Ents, IsFiniteSet(table'), held' \in [Ents -> Seq(Caps)],
           at' \in [Ents -> Int], Stores,
           mode' \in {"idle", "edit"} => stack' = <<>>, mode' = "run" => stack' # <<>>,
           \A c \in Caps :
             /\ refs'[c] = OnStack(stack', c) + InTable(c)' + InCaptures(c)
                             + Kept(c)' + Due(todo', c)
             /\ refs'[c] >= refs[c] /\ (c \notin live => refs'[c] = refs[c])
    PROVE  IInv'
<1>1. TypeOK BY DEF IInv, Counts
<1>2. TypeOK' BY <1>1 DEF TypeOK, Call
<1>3. Counted'
  <2>1. SUFFICES ASSUME NEW c \in Caps PROVE c \in live <=> refs'[c] > 0
    BY DEF Counted, InCaptures
  <2>2. refs[c] \in Nat /\ (c \in live <=> refs[c] > 0) BY BeforeFacts
  <2>3. refs'[c] \in Nat /\ refs'[c] >= refs[c] /\ (c \notin live => refs'[c] = refs[c])
    OBVIOUS
  <2> QED BY <2>2, <2>3
<1>4. Control' BY DEF Control
<1>5. Allocates BY DEF Allocates
<1> QED BY <1>2, <1>3, <1>4, <1>5, MachineStep

(* The references of the top are due.                                      *)
LEMMA PopDropStep == IInv /\ PopDrop => IInv'
<1>0. SUFFICES ASSUME IInv, PopDrop PROVE IInv'
  OBVIOUS
<1>1. TypeOK /\ Control /\ IsFiniteSet(table) BY <1>0 DEF IInv, Counts
<1>2. /\ mode = "run" /\ todo = <<>> /\ dying = NoEnt /\ Poppable
      /\ stack' = Below /\ todo' = Frees(Top)
      /\ UNCHANGED <<live, refs, ment, off, kids, lost, table, held, at, results, mode, dying>>
  BY <1>0 DEF PopDrop, Ready, captures, entries
<1>3. stack # <<>> BY <1>1, <1>2 DEF Control
<1>4. /\ stack' \in Seq(Seq(Caps)) /\ stack' # <<>> /\ Top \in Seq(Caps) /\ AllLive(Top)
      /\ \A c : /\ OnStack(stack, c) = OnStack(stack', c) + Occ(Top, Only(c))
                /\ OnStack(stack', c) \in Nat
  BY <1>0, <1>2, <1>3, PopFacts
<1>5. /\ todo' \in Seq(Call) /\ \A i \in DOMAIN todo' : todo'[i].do = "free"
      /\ \A c \in Caps : Occ(Top, Only(c)) \in Nat /\ Due(todo', c) = Occ(Top, Only(c))
  BY <1>2, <1>4, ListFacts
<1>6. ASSUME NEW c \in Caps
      PROVE  /\ refs'[c] = OnStack(stack', c) + InTable(c)' + InCaptures(c)
                             + Kept(c)' + Due(todo', c)
             /\ refs'[c] >= refs[c] /\ (c \notin live => refs'[c] = refs[c])
  <2>1. InTable(c)' = InTable(c) /\ Kept(c)' = Kept(c) /\ refs'[c] = refs[c]
    BY <1>2 DEF InTable, Kept
  <2>2. /\ refs[c] = OnStack(stack, c) + InTable(c) + InCaptures(c) + Kept(c)
        /\ refs[c] \in Nat /\ InTable(c) \in Nat /\ InCaptures(c) \in Nat /\ Kept(c) \in Nat
    BY <1>0, <1>2, BeforeFacts
  <2> QED BY <1>4, <1>5, <2>1, <2>2
<1>7. Stores BY <1>2, <1>5 DEF Stores
<1>8. /\ refs' \in [Caps -> Nat] /\ results' \subseteq Caps /\ mode' = "run"
      /\ table' \subseteq Ents /\ IsFiniteSet(table')
      /\ held' \in [Ents -> Seq(Caps)] /\ at' \in [Ents -> Int]
  BY <1>1, <1>2 DEF TypeOK
<1> QED BY <1>0, <1>2, <1>4, <1>5, <1>6, <1>7, <1>8, QuietStep

(* The references of the top are copied below, and due.                    *)
LEMMA PropagateStep == IInv /\ PopPropagate => IInv'
<1>0. SUFFICES ASSUME IInv, PopPropagate PROVE IInv'
  OBVIOUS
<1>1. TypeOK /\ Control /\ IsFiniteSet(table) BY <1>0 DEF IInv, Counts
<1>2. /\ mode = "run" /\ todo = <<>> /\ dying = NoEnt /\ Poppable
      /\ stack' = stack_add_capt(Below, Top) /\ refs' = Refd(refs, Top)
      /\ todo' = Frees(Top)
      /\ UNCHANGED <<live, ment, off, kids, lost, table, held, at, results, mode, dying>>
  BY <1>0 DEF PopPropagate, Ready, entries
<1>3. stack # <<>> /\ refs \in [Caps -> Nat] BY <1>1, <1>2 DEF Control, TypeOK
<1>4. /\ Below \in Seq(Seq(Caps)) /\ Below # <<>> /\ Top \in Seq(Caps) /\ AllLive(Top)
      /\ \A c : /\ OnStack(stack, c) = OnStack(Below, c) + Occ(Top, Only(c))
                /\ OnStack(Below, c) \in Nat
  BY <1>0, <1>2, <1>3, PopFacts
<1>5. /\ stack' \in Seq(Seq(Caps)) /\ stack' # <<>>
      /\ \A c : OnStack(stack', c) = OnStack(Below, c) + Occ(Top, Only(c))
  BY <1>2, <1>4, StackAdd
<1>6. /\ todo' \in Seq(Call) /\ \A i \in DOMAIN todo' : todo'[i].do = "free"
      /\ \A c \in Caps : /\ Occ(Top, Only(c)) \in Nat /\ Due(todo', c) = Occ(Top, Only(c))
                         /\ c \notin live => Occ(Top, Only(c)) = 0
  BY <1>2, <1>4, ListFacts
<1>7. refs' \in [Caps -> Nat] /\ \A c \in Caps : refs'[c] = refs[c] + Occ(Top, Only(c))
  BY <1>2, <1>3, <1>4, RefdFacts
<1>8. ASSUME NEW c \in Caps
      PROVE  /\ refs'[c] = OnStack(stack', c) + InTable(c)' + InCaptures(c)
                             + Kept(c)' + Due(todo', c)
             /\ refs'[c] >= refs[c] /\ (c \notin live => refs'[c] = refs[c])
  <2>1. InTable(c)' = InTable(c) /\ Kept(c)' = Kept(c) BY <1>2 DEF InTable, Kept
  <2>2. /\ refs[c] = OnStack(stack, c) + InTable(c) + InCaptures(c) + Kept(c)
        /\ refs[c] \in Nat /\ InTable(c) \in Nat /\ InCaptures(c) \in Nat /\ Kept(c) \in Nat
    BY <1>0, <1>2, BeforeFacts
  <2>3. OnStack(stack', c) = OnStack(stack, c) /\ OnStack(stack, c) \in Nat
    BY <1>4, <1>5, <1>6
  <2>4. /\ Occ(Top, Only(c)) \in Nat /\ Due(todo', c) = Occ(Top, Only(c))
        /\ c \notin live => Occ(Top, Only(c)) = 0
    BY <1>6
  <2>5. refs'[c] = refs[c] + Occ(Top, Only(c)) BY <1>7
  <2> QED BY <2>1, <2>2, <2>3, <2>4, <2>5
<1>9. Stores BY <1>2, <1>6 DEF Stores
<1>10. /\ results' \subseteq Caps /\ mode' = "run"
       /\ table' \subseteq Ents /\ IsFiniteSet(table')
       /\ held' \in [Ents -> Seq(Caps)] /\ at' \in [Ents -> Int]
  BY <1>1, <1>2 DEF TypeOK
<1> QED BY <1>0, <1>2, <1>5, <1>6, <1>7, <1>8, <1>9, <1>10, QuietStep

(* The references of the top move below.                                   *)
LEMMA PropStep == IInv /\ stack_prop_capt => IInv'
<1>0. SUFFICES ASSUME IInv, stack_prop_capt PROVE IInv'
  OBVIOUS
<1> DEFINE a == stack_add_capt(Below, Top)
<1>1. TypeOK /\ Control /\ IsFiniteSet(table) BY <1>0 DEF IInv, Counts
<1>2. /\ mode = "run" /\ todo = <<>> /\ dying = NoEnt /\ Poppable
      /\ stack' = Append(a, <<>>)
      /\ UNCHANGED <<live, refs, ment, off, kids, lost, table, held, at, results, mode,
                     dying, todo>>
  BY <1>0 DEF stack_prop_capt, Ready, captures, entries
<1>3. stack # <<>> BY <1>1, <1>2 DEF Control
<1>4. /\ Below \in Seq(Seq(Caps)) /\ Below # <<>> /\ Top \in Seq(Caps)
      /\ \A c : /\ OnStack(stack, c) = OnStack(Below, c) + Occ(Top, Only(c))
                /\ OnStack(Below, c) \in Nat
  BY <1>0, <1>2, <1>3, PopFacts
<1>5. /\ a \in Seq(Seq(Caps))
      /\ \A c : OnStack(a, c) = OnStack(Below, c) + Occ(Top, Only(c))
  BY <1>4, StackAdd
<1> HIDE DEF a
<1>6. /\ stack' \in Seq(Seq(Caps)) /\ stack' # <<>>
      /\ \A c : OnStack(stack', c) = OnStack(a, c)
  BY <1>2, <1>5, StackPush
<1>7. ASSUME NEW c \in Caps
      PROVE  /\ refs'[c] = OnStack(stack', c) + InTable(c)' + InCaptures(c)
                             + Kept(c)' + Due(todo', c)
             /\ refs'[c] >= refs[c] /\ (c \notin live => refs'[c] = refs[c])
  <2>1. InTable(c)' = InTable(c) /\ Kept(c)' = Kept(c) /\ refs'[c] = refs[c]
    BY <1>2 DEF InTable, Kept
  <2>2. /\ refs[c] = OnStack(stack, c) + InTable(c) + InCaptures(c) + Kept(c)
        /\ refs[c] \in Nat /\ InTable(c) \in Nat /\ InCaptures(c) \in Nat /\ Kept(c) \in Nat
        /\ OnStack(stack, c) \in Nat
    BY <1>0, <1>2, BeforeFacts
  <2>3. OnStack(stack', c) = OnStack(stack, c) BY <1>4, <1>5, <1>6
  <2>4. Due(todo', c) = 0
    <3>1. todo' = <<>> BY <1>2
    <3> QED BY <3>1, NoCalls
  <2> QED BY <2>1, <2>2, <2>3, <2>4
<1>8. Stores BY <1>2 DEF Stores
<1>9. /\ refs' \in [Caps -> Nat] /\ results' \subseteq Caps /\ mode' = "run"
      /\ table' \subseteq Ents /\ IsFiniteSet(table') /\ todo' \in Seq(Call)
      /\ held' \in [Ents -> Seq(Caps)] /\ at' \in [Ents -> Int]
  BY <1>1, <1>2, NoCalls DEF TypeOK
<1> QED BY <1>0, <1>2, <1>6, <1>7, <1>8, <1>9, QuietStep

(* The references of the top are copied below, and memoize takes them.     *)
LEMMA CloseStep == IInv /\ VM_MEMO_CLOSE => IInv'
<1>0. SUFFICES ASSUME IInv, VM_MEMO_CLOSE PROVE IInv'
  OBVIOUS
<1>1. TypeOK /\ Control /\ IsFiniteSet(table) BY <1>0 DEF IInv, Counts
<1>2. /\ mode = "run" /\ todo = <<>> /\ dying = NoEnt /\ Poppable
      /\ stack' = stack_add_capt(Below, Top) /\ refs' = Refd(refs, Top)
      /\ memoize(Top, <<>>)
      /\ UNCHANGED <<live, ment, off, kids, lost, results, mode, dying>>
  BY <1>0 DEF VM_MEMO_CLOSE, Ready
<1>3. stack # <<>> /\ refs \in [Caps -> Nat] BY <1>1, <1>2 DEF Control, TypeOK
<1>4. /\ Below \in Seq(Seq(Caps)) /\ Below # <<>> /\ Top \in Seq(Caps) /\ AllLive(Top)
      /\ \A c : /\ OnStack(stack, c) = OnStack(Below, c) + Occ(Top, Only(c))
                /\ OnStack(Below, c) \in Nat
  BY <1>0, <1>2, <1>3, PopFacts
<1>5. /\ stack' \in Seq(Seq(Caps)) /\ stack' # <<>>
      /\ \A c : OnStack(stack', c) = OnStack(Below, c) + Occ(Top, Only(c))
  BY <1>2, <1>4, StackAdd
<1>6. \A c \in Caps : Occ(Top, Only(c)) \in Nat /\ (c \notin live => Occ(Top, Only(c)) = 0)
  BY <1>4, ListFacts
<1>7. refs' \in [Caps -> Nat] /\ \A c \in Caps : refs'[c] = refs[c] + Occ(Top, Only(c))
  BY <1>2, <1>3, <1>4, RefdFacts
<1>8. /\ todo' \in Seq(Call) /\ table' \subseteq Ents /\ IsFiniteSet(table')
      /\ held' \in [Ents -> Seq(Caps)] /\ at' \in [Ents -> Int] /\ Stores
      /\ \A c \in Caps :
           /\ InTable(c)' + Due(todo', c) = InTable(c) + Occ(Top, Only(c))
           /\ InTable(c)' \in Nat /\ Due(todo', c) \in Nat
  BY <1>0, <1>2, <1>4, MemoizeAlone
<1>9. ASSUME NEW c \in Caps
      PROVE  /\ refs'[c] = OnStack(stack', c) + InTable(c)' + InCaptures(c)
                             + Kept(c)' + Due(todo', c)
             /\ refs'[c] >= refs[c] /\ (c \notin live => refs'[c] = refs[c])
  <2>1. Kept(c)' = Kept(c) BY <1>2 DEF Kept
  <2>2. /\ refs[c] = OnStack(stack, c) + InTable(c) + InCaptures(c) + Kept(c)
        /\ refs[c] \in Nat /\ InTable(c) \in Nat /\ InCaptures(c) \in Nat /\ Kept(c) \in Nat
    BY <1>0, <1>2, BeforeFacts
  <2>3. OnStack(stack', c) = OnStack(stack, c) /\ OnStack(stack, c) \in Nat
    BY <1>4, <1>5, <1>6
  <2>4. Occ(Top, Only(c)) \in Nat /\ (c \notin live => Occ(Top, Only(c)) = 0) BY <1>6
  <2>5. refs'[c] = refs[c] + Occ(Top, Only(c)) BY <1>7
  <2>6. /\ InTable(c)' + Due(todo', c) = InTable(c) + Occ(Top, Only(c))
        /\ InTable(c)' \in Nat /\ Due(todo', c) \in Nat
    BY <1>8
  <2> QED BY <2>1, <2>2, <2>3, <2>4, <2>5, <2>6
<1>10. results' \subseteq Caps /\ mode' = "run" BY <1>1, <1>2 DEF TypeOK
<1> QED BY <1>0, <1>2, <1>5, <1>7, <1>8, <1>9, <1>10, QuietStep

(* memoize takes the references of the top.                                *)
LEMMA FailStep == IInv /\ MemoFail => IInv'
<1>0. SUFFICES ASSUME IInv, MemoFail PROVE IInv'
  OBVIOUS
<1>1. TypeOK /\ Control /\ IsFiniteSet(table) BY <1>0 DEF IInv, Counts
<1>2. /\ mode = "run" /\ todo = <<>> /\ dying = NoEnt /\ Poppable
      /\ stack' = Below /\ memoize(Top, <<>>)
      /\ UNCHANGED <<live, refs, ment, off, kids, lost, results, mode, dying>>
  BY <1>0 DEF MemoFail, Ready, captures
<1>3. stack # <<>> BY <1>1, <1>2 DEF Control
<1>4. /\ stack' \in Seq(Seq(Caps)) /\ stack' # <<>> /\ Top \in Seq(Caps) /\ AllLive(Top)
      /\ \A c : /\ OnStack(stack, c) = OnStack(stack', c) + Occ(Top, Only(c))
                /\ OnStack(stack', c) \in Nat
  BY <1>0, <1>2, <1>3, PopFacts
<1>5. \A c \in Caps : Occ(Top, Only(c)) \in Nat BY <1>4, ListFacts
<1>6. /\ todo' \in Seq(Call) /\ table' \subseteq Ents /\ IsFiniteSet(table')
      /\ held' \in [Ents -> Seq(Caps)] /\ at' \in [Ents -> Int] /\ Stores
      /\ \A c \in Caps :
           /\ InTable(c)' + Due(todo', c) = InTable(c) + Occ(Top, Only(c))
           /\ InTable(c)' \in Nat /\ Due(todo', c) \in Nat
  BY <1>0, <1>2, <1>4, MemoizeAlone
<1>7. ASSUME NEW c \in Caps
      PROVE  /\ refs'[c] = OnStack(stack', c) + InTable(c)' + InCaptures(c)
                             + Kept(c)' + Due(todo', c)
             /\ refs'[c] >= refs[c] /\ (c \notin live => refs'[c] = refs[c])
  <2>1. Kept(c)' = Kept(c) /\ refs'[c] = refs[c] BY <1>2 DEF Kept
  <2>2. /\ refs[c] = OnStack(stack, c) + InTable(c) + InCaptures(c) + Kept(c)
        /\ refs[c] \in Nat /\ InTable(c) \in Nat /\ InCaptures(c) \in Nat /\ Kept(c) \in Nat
    BY <1>0, <1>2, BeforeFacts
  <2>3. /\ OnStack(stack, c) = OnStack(stack', c) + Occ(Top, Only(c))
        /\ OnStack(stack', c) \in Nat /\ Occ(Top, Only(c)) \in Nat
    BY <1>4, <1>5
  <2>4. /\ InTable(c)' + Due(todo', c) = InTable(c) + Occ(Top, Only(c))
        /\ InTable(c)' \in Nat /\ Due(todo', c) \in Nat
    BY <1>6
  <2> QED BY <2>1, <2>2, <2>3, <2>4
<1>8. refs' \in [Caps -> Nat] /\ results' \subseteq Caps /\ mode' = "run"
  BY <1>1, <1>2 DEF TypeOK
<1> QED BY <1>0, <1>2, <1>4, <1>6, <1>7, <1>8, QuietStep

(* The references of the top stay, and memoize takes copies.               *)
LEMMA InsertStep == IInv /\ VM_MEMO_TREE_INSERT => IInv'
<1>0. SUFFICES ASSUME IInv, VM_MEMO_TREE_INSERT PROVE IInv'
  OBVIOUS
<1>1. TypeOK /\ Control /\ IsFiniteSet(table) BY <1>0 DEF IInv, Counts
<1>2. /\ mode = "run" /\ todo = <<>> /\ dying = NoEnt
      /\ refs' = Refd(refs, Top) /\ memoize(Top, <<>>)
      /\ UNCHANGED <<live, ment, off, kids, lost, stack, results, mode, dying>>
  BY <1>0 DEF VM_MEMO_TREE_INSERT, Ready
<1>3. /\ stack' \in Seq(Seq(Caps)) /\ stack # <<>> /\ stack' # <<>> /\ refs \in [Caps -> Nat]
  BY <1>1, <1>2 DEF Control, TypeOK
<1>4. Top \in Seq(Caps) /\ AllLive(Top) BY <1>0, <1>2, <1>3, PopFacts
<1>5. \A c \in Caps : Occ(Top, Only(c)) \in Nat /\ (c \notin live => Occ(Top, Only(c)) = 0)
  BY <1>4, ListFacts
<1>6. refs' \in [Caps -> Nat] /\ \A c \in Caps : refs'[c] = refs[c] + Occ(Top, Only(c))
  BY <1>2, <1>3, <1>4, RefdFacts
<1>7. /\ todo' \in Seq(Call) /\ table' \subseteq Ents /\ IsFiniteSet(table')
      /\ held' \in [Ents -> Seq(Caps)] /\ at' \in [Ents -> Int] /\ Stores
      /\ \A c \in Caps :
           /\ InTable(c)' + Due(todo', c) = InTable(c) + Occ(Top, Only(c))
           /\ InTable(c)' \in Nat /\ Due(todo', c) \in Nat
  BY <1>0, <1>2, <1>4, MemoizeAlone
<1>8. ASSUME NEW c \in Caps
      PROVE  /\ refs'[c] = OnStack(stack', c) + InTable(c)' + InCaptures(c)
                             + Kept(c)' + Due(todo', c)
             /\ refs'[c] >= refs[c] /\ (c \notin live => refs'[c] = refs[c])
  <2>1. Kept(c)' = Kept(c) /\ OnStack(stack', c) = OnStack(stack, c) BY <1>2 DEF Kept
  <2>2. /\ refs[c] = OnStack(stack, c) + InTable(c) + InCaptures(c) + Kept(c)
        /\ refs[c] \in Nat /\ InTable(c) \in Nat /\ InCaptures(c) \in Nat /\ Kept(c) \in Nat
        /\ OnStack(stack, c) \in Nat
    BY <1>0, <1>2, BeforeFacts
  <2>3. Occ(Top, Only(c)) \in Nat /\ (c \notin live => Occ(Top, Only(c)) = 0) BY <1>5
  <2>4. refs'[c] = refs[c] + Occ(Top, Only(c)) BY <1>6
  <2>5. /\ InTable(c)' + Due(todo', c) = InTable(c) + Occ(Top, Only(c))
        /\ InTable(c)' \in Nat /\ Due(todo', c) \in Nat
    BY <1>7
  <2> QED BY <2>1, <2>2, <2>3, <2>4, <2>5
<1>9. results' \subseteq Caps /\ mode' = "run" BY <1>1, <1>2 DEF TypeOK
<1> QED BY <1>0, <1>2, <1>3, <1>6, <1>7, <1>8, <1>9, QuietStep

(* The references of an entry are copied to the stack.                     *)
LEMMA HitStep == ASSUME NEW e PROVE IInv /\ Hit(e) => IInv'
<1>0. SUFFICES ASSUME IInv, Hit(e) PROVE IInv'
  OBVIOUS
<1>1. TypeOK /\ Control /\ IsFiniteSet(table) /\ Counts BY <1>0 DEF IInv, Counts
<1>2. /\ mode = "run" /\ todo = <<>> /\ dying = NoEnt /\ e \in table
      /\ stack' = stack_add_capt(stack, held[e]) /\ refs' = Refd(refs, held[e])
      /\ UNCHANGED <<live, ment, off, kids, lost, table, held, at, results, mode, dying, todo>>
  BY <1>0 DEF Hit, Ready, entries
<1>3. /\ stack \in Seq(Seq(Caps)) /\ stack # <<>> /\ refs \in [Caps -> Nat]
      /\ held[e] \in Seq(Caps)
  BY <1>1, <1>2 DEF Control, TypeOK
<1>4. AllLive(held[e]) BY <1>1, <1>2, PointedAlive
<1>5. \A c \in Caps : /\ Occ(held[e], Only(c)) \in Nat
                      /\ c \notin live => Occ(held[e], Only(c)) = 0
  BY <1>3, <1>4, ListFacts
<1>6. /\ stack' \in Seq(Seq(Caps)) /\ stack' # <<>>
      /\ \A c : OnStack(stack', c) = OnStack(stack, c) + Occ(held[e], Only(c))
  BY <1>2, <1>3, StackAdd
<1>7. refs' \in [Caps -> Nat] /\ \A c \in Caps : refs'[c] = refs[c] + Occ(held[e], Only(c))
  BY <1>2, <1>3, RefdFacts
<1>8. ASSUME NEW c \in Caps
      PROVE  /\ refs'[c] = OnStack(stack', c) + InTable(c)' + InCaptures(c)
                             + Kept(c)' + Due(todo', c)
             /\ refs'[c] >= refs[c] /\ (c \notin live => refs'[c] = refs[c])
  <2>1. Kept(c)' = Kept(c) /\ InTable(c)' = InTable(c) BY <1>2 DEF Kept, InTable
  <2>2. /\ refs[c] = OnStack(stack, c) + InTable(c) + InCaptures(c) + Kept(c)
        /\ refs[c] \in Nat /\ InTable(c) \in Nat /\ InCaptures(c) \in Nat /\ Kept(c) \in Nat
        /\ OnStack(stack, c) \in Nat
    BY <1>0, <1>2, BeforeFacts
  <2>3. /\ Occ(held[e], Only(c)) \in Nat
        /\ c \notin live => Occ(held[e], Only(c)) = 0
    BY <1>5
  <2>4. refs'[c] = refs[c] + Occ(held[e], Only(c)) BY <1>7
  <2>5. OnStack(stack', c) = OnStack(stack, c) + Occ(held[e], Only(c)) BY <1>6
  <2>6. Due(todo', c) = 0
    <3>1. todo' = <<>> BY <1>2
    <3> QED BY <3>1, NoCalls
  <2> QED BY <2>1, <2>2, <2>3, <2>4, <2>5, <2>6
<1>9. Stores BY <1>2 DEF Stores
<1>10. /\ results' \subseteq Caps /\ mode' = "run"
       /\ table' \subseteq Ents /\ IsFiniteSet(table') /\ todo' \in Seq(Call)
       /\ held' \in [Ents -> Seq(Caps)] /\ at' \in [Ents -> Int]
  BY <1>1, <1>2, NoCalls DEF TypeOK
<1> QED BY <1>0, <1>2, <1>6, <1>7, <1>8, <1>9, <1>10, QuietStep

(* The references of the top move to a dummy below, and memoize takes      *)
(* copies of the list there.                                               *)
LEMMA TreeStep == IInv /\ VM_MEMO_TREE => IInv'
<1>0. SUFFICES ASSUME IInv, VM_MEMO_TREE PROVE IInv'
  OBVIOUS
<1>1. TypeOK /\ Control /\ IsFiniteSet(table) BY <1>0 DEF IInv, Counts
<1>2. PICK x \in Caps, start \in Starts :
        LET rest == stack_add_capt(Below, <<x>>)
            list == rest[Len(rest)]
        IN  /\ NewCapture(x, start, Top, Refd(Refd(refs, <<x>>), list))
            /\ stack' = rest
            /\ memoize(list, Frees(Top) \o Frees(<<x>>))
  BY <1>0 DEF VM_MEMO_TREE
<1> DEFINE list == stack'[Len(stack')]
           a == Frees(Top)
           b == Frees(<<x>>)
<1>3. /\ mode = "run" /\ todo = <<>> /\ dying = NoEnt /\ Len(stack) > 2
      /\ UNCHANGED <<results, mode, dying>>
      /\ NewCapture(x, start, Top, Refd(Refd(refs, <<x>>), list))
      /\ stack' = stack_add_capt(Below, <<x>>)
      /\ memoize(list, a \o b)
  BY <1>0, <1>2 DEF VM_MEMO_TREE, Ready
<1>4. /\ <<x>> \in Seq(Caps) /\ b \in Seq(Call) /\ \A i \in DOMAIN b : b[i].do = "free"
      /\ \A c \in Caps : /\ Occ(<<x>>, Only(c)) = One(x, c) /\ One(x, c) \in Nat
                         /\ Due(b, c) = One(x, c)
  BY OneFacts
<1>5. stack # <<>> /\ refs \in [Caps -> Nat] BY <1>1, <1>3 DEF TypeOK, Control
<1>6. Poppable
  <2>1. stack \in Seq(Seq(Caps)) BY <1>1 DEF TypeOK
  <2>2. Len(stack) \in Nat BY <2>1
  <2> QED BY <1>3, <2>2 DEF Poppable
<1>7. /\ Below \in Seq(Seq(Caps)) /\ Below # <<>> /\ Top \in Seq(Caps) /\ AllLive(Top)
      /\ \A i \in DOMAIN Below : AllLive(Below[i])
      /\ \A c : /\ OnStack(stack, c) = OnStack(Below, c) + Occ(Top, Only(c))
                /\ OnStack(Below, c) \in Nat
  BY <1>0, <1>5, <1>6, PopFacts
<1>8. /\ stack' \in Seq(Seq(Caps)) /\ stack' # <<>> /\ Len(stack') = Len(Below)
      /\ stack'[Len(Below)] = Below[Len(Below)] \o <<x>>
      /\ \A c : OnStack(stack', c) = OnStack(Below, c) + Occ(<<x>>, Only(c))
  BY <1>3, <1>4, <1>7, StackAdd
<1>9. /\ a \in Seq(Call) /\ \A i \in DOMAIN a : a[i].do = "free"
      /\ \A c \in Caps : /\ Occ(Top, Only(c)) \in Nat /\ Due(a, c) = Occ(Top, Only(c))
                         /\ c \notin live => Occ(Top, Only(c)) = 0
  BY <1>7, ListFacts
<1>10. /\ list \in Seq(Caps)
       /\ \A c \in Caps : /\ Occ(list, Only(c)) \in Nat
                          /\ c \notin live /\ c # x => Occ(list, Only(c)) = 0
  <2> DEFINE low == Below[Len(Below)]
  <2>1. low \in Seq(Caps) /\ AllLive(low)
    <3>1. Len(Below) \in DOMAIN Below
      <4>1. Len(Below) \in Nat /\ DOMAIN Below = 1 .. Len(Below) /\ Len(Below) >= 1 BY <1>7
      <4> QED BY <4>1
    <3> QED BY <1>7, <3>1
  <2>2. list = low \o <<x>> BY <1>8
  <2> HIDE DEF low, list
  <2>3. list \in Seq(Caps) BY <1>4, <2>1, <2>2
  <2>4. ASSUME NEW c \in Caps
        PROVE  Occ(list, Only(c)) \in Nat /\ (c \notin live /\ c # x => Occ(list, Only(c)) = 0)
    <3>1. Occ(low \o <<x>>, Only(c)) = Occ(low, Only(c)) + Occ(<<x>>, Only(c))
      BY <1>4, <2>1, OccConcat
    <3>2. Occ(low, Only(c)) \in Nat /\ (c \notin live => Occ(low, Only(c)) = 0)
      BY <2>1, ListFacts
    <3>3. /\ Occ(<<x>>, Only(c)) = One(x, c) /\ One(x, c) \in Nat
          /\ c # x => One(x, c) = 0
      BY <1>4 DEF One
    <3>4. Occ(list, Only(c)) = Occ(low, Only(c)) + One(x, c) BY <2>2, <3>1, <3>3
    <3> QED BY <3>2, <3>3, <3>4
  <2> QED BY <2>3, <2>4
<1> HIDE DEF list, a, b
<1>11. /\ a \o b \in Seq(Call) /\ AllFrees(a \o b)
       /\ \A c : Due(a \o b, c) = Due(a, c) + Due(b, c)
  BY <1>4, <1>9, FreesThenFrees
<1>12. /\ todo' \in Seq(Call) /\ table' \subseteq Ents /\ IsFiniteSet(table')
       /\ held' \in [Ents -> Seq(Caps)] /\ at' \in [Ents -> Int] /\ Stores
       /\ \A c \in Caps :
            /\ InTable(c)' + Due(todo', c)
                 = InTable(c) + (Due(a, c) + Due(b, c)) + Occ(list, Only(c))
            /\ InTable(c)' \in Nat /\ Due(todo', c) \in Nat
  <2> DEFINE before == a \o b
  <2>1. /\ before \in Seq(Call) /\ AllFrees(before) /\ memoize(list, before)
        /\ \A c : Due(before, c) = Due(a, c) + Due(b, c)
    BY <1>3, <1>11
  <2> HIDE DEF before
  <2>2. /\ before \in Seq(Call) /\ \A i \in DOMAIN before : before[i].do = "free"
    BY <2>1 DEF AllFrees
  <2>3. /\ todo' \in Seq(Call) /\ table' \subseteq Ents /\ IsFiniteSet(table')
        /\ held' \in [Ents -> Seq(Caps)] /\ at' \in [Ents -> Int] /\ Stores
        /\ \A c \in Caps :
             /\ InTable(c)' + Due(todo', c)
                  = InTable(c) + Due(before, c) + Occ(list, Only(c))
             /\ InTable(c)' \in Nat /\ Due(todo', c) \in Nat
    BY <1>0, <1>10, <2>1, <2>2, MemoizeFacts
  <2> QED BY <2>1, <2>3
<1> DEFINE r1 == Refd(refs, <<x>>)
           r2 == Refd(r1, list)
<1>13. r1 \in [Caps -> Nat] /\ \A c \in Caps : r1[c] = refs[c] + Occ(<<x>>, Only(c))
  BY <1>4, <1>5, RefdFacts
<1>14. NewCapture(x, start, Top, r2) BY <1>3
<1> HIDE DEF r1
<1>15. r2 \in [Caps -> Nat] /\ \A c \in Caps : r2[c] = r1[c] + Occ(list, Only(c))
  BY <1>10, <1>13, RefdFacts
<1> HIDE DEF r2
<1>16. /\ x \notin live /\ live' = live \union {x} /\ lost' = lost
       /\ live' \subseteq Caps /\ lost' \subseteq live' /\ Allocates
       /\ off' \in [Caps -> Int] /\ ment' \in [Caps -> Ents \union {NoEnt}]
       /\ kids' \in [Caps -> Seq(Caps)] /\ refs' \in [Caps -> Nat]
       /\ \A c \in Caps : refs'[c] = r2[c] + One(x, c) + Occ(Top, Only(c))
       /\ \A c \in Caps : InCaptures(c)' = InCaptures(c) + Occ(Top, Only(c))
  BY <1>0, <1>7, <1>14, <1>15, NewCaptureFacts
<1>17. TypeOK' BY <1>1, <1>3, <1>8, <1>12, <1>16 DEF TypeOK, Call
<1>18. Counted'
  <2>1. SUFFICES ASSUME NEW c \in Caps
        PROVE  /\ refs'[c] = OnStack(stack', c) + InTable(c)' + InCaptures(c)'
                               + Kept(c)' + Due(todo', c)
               /\ c \in live' <=> refs'[c] > 0
    BY DEF Counted
  <2>2. Kept(c)' = Kept(c) BY <1>3 DEF Kept
  <2>3. /\ refs[c] = OnStack(stack, c) + InTable(c) + InCaptures(c) + Kept(c)
        /\ refs[c] \in Nat /\ OnStack(stack, c) \in Nat /\ InTable(c) \in Nat
        /\ InCaptures(c) \in Nat /\ Kept(c) \in Nat
        /\ c \in live <=> refs[c] > 0
    BY <1>0, <1>3, BeforeFacts
  <2>4. /\ One(x, c) \in Nat /\ Occ(<<x>>, Only(c)) = One(x, c) /\ Due(b, c) = One(x, c)
    BY <1>4
  <2>5. /\ OnStack(stack, c) = OnStack(Below, c) + Occ(Top, Only(c))
        /\ OnStack(Below, c) \in Nat
        /\ OnStack(stack', c) = OnStack(Below, c) + One(x, c)
    BY <1>7, <1>8, <2>4
  <2>6. /\ Occ(Top, Only(c)) \in Nat /\ Due(a, c) = Occ(Top, Only(c))
        /\ c \notin live => Occ(Top, Only(c)) = 0
    BY <1>9
  <2>7. /\ Occ(list, Only(c)) \in Nat
        /\ c \notin live /\ c # x => Occ(list, Only(c)) = 0
    BY <1>10
  <2>8. /\ InTable(c)' + Due(todo', c)
             = InTable(c) + (Due(a, c) + Due(b, c)) + Occ(list, Only(c))
        /\ InTable(c)' \in Nat /\ Due(todo', c) \in Nat
    BY <1>12
  <2>9. /\ refs'[c] = r2[c] + One(x, c) + Occ(Top, Only(c))
        /\ InCaptures(c)' = InCaptures(c) + Occ(Top, Only(c))
        /\ r2[c] = r1[c] + Occ(list, Only(c)) /\ r1[c] = refs[c] + Occ(<<x>>, Only(c))
    BY <1>13, <1>15, <1>16
  <2>10. refs'[c] = refs[c] + One(x, c) + Occ(list, Only(c)) + One(x, c) + Occ(Top, Only(c))
    BY <2>3, <2>4, <2>6, <2>7, <2>9
  <2>11. c \in live' <=> refs'[c] > 0
    <3>1. c \in live' <=> c \in live \/ c = x BY <1>16
    <3>2. IF c = x THEN One(x, c) = 1 ELSE One(x, c) = 0 BY DEF One
    <3> QED BY <2>3, <2>6, <2>7, <2>10, <3>1, <3>2
  <2>12. refs'[c] = OnStack(stack', c) + InTable(c)' + InCaptures(c)'
                      + Kept(c)' + Due(todo', c)
    BY <2>2, <2>3, <2>4, <2>5, <2>6, <2>7, <2>8, <2>9, <2>10
  <2> QED BY <2>11, <2>12
<1>19. Control' BY <1>1, <1>3, <1>8 DEF Control
<1> QED BY <1>0, <1>3, <1>12, <1>16, <1>17, <1>18, <1>19, MachineStep

(* The result: a dummy over the result list, kept by the client.           *)
LEMMA DoneStep == IInv /\ Done => IInv'
<1>0. SUFFICES ASSUME IInv, Done PROVE IInv'
  OBVIOUS
<1>1. TypeOK /\ Control /\ IsFiniteSet(table) /\ Counts BY <1>0 DEF IInv, Counts
<1>2. /\ mode = "run" /\ todo = <<>> /\ dying = NoEnt /\ mode' = "exit"
      /\ UNCHANGED <<table, held, at, stack, dying, todo>>
  BY <1>0 DEF Done, Ready, entries
<1>3. Stores BY <1>2 DEF Stores
<1>4. \A c : Due(todo', c) = 0
  <2>1. todo' = <<>> BY <1>2
  <2> QED BY <2>1, NoCalls
<1>5. /\ todo' \in Seq(Call) /\ stack' \in Seq(Seq(Caps)) /\ table' \subseteq Ents
      /\ IsFiniteSet(table') /\ held' \in [Ents -> Seq(Caps)] /\ at' \in [Ents -> Int]
  BY <1>1, <1>2, NoCalls DEF TypeOK
<1>6. CASE UNCHANGED <<captures, results>>
  <2>1. UNCHANGED <<live, refs, ment, off, kids, lost, results>> BY <1>6 DEF captures
  <2>2. ASSUME NEW c \in Caps
        PROVE  /\ refs'[c] = OnStack(stack', c) + InTable(c)' + InCaptures(c)
                               + Kept(c)' + Due(todo', c)
               /\ refs'[c] >= refs[c] /\ (c \notin live => refs'[c] = refs[c])
    <3>1. /\ InTable(c)' = InTable(c) /\ Kept(c)' = Kept(c) /\ refs'[c] = refs[c]
          /\ OnStack(stack', c) = OnStack(stack, c)
      BY <1>2, <2>1 DEF InTable, Kept
    <3>2. /\ refs[c] = OnStack(stack, c) + InTable(c) + InCaptures(c) + Kept(c)
          /\ refs[c] \in Nat
      BY <1>0, <1>2, BeforeFacts
    <3> QED BY <1>4, <3>1, <3>2
  <2>3. refs' \in [Caps -> Nat] /\ results' \subseteq Caps BY <1>1, <2>1 DEF TypeOK
  <2> QED BY <1>0, <1>2, <1>3, <1>5, <2>1, <2>2, <2>3, QuietStep
<1>7. ASSUME NEW x \in Caps, NEW start \in Starts, NewCapture(x, start, stack[1], refs),
             results' = results \union {x}
      PROVE  IInv'
  <2>1. stack \in Seq(Seq(Caps)) /\ stack # <<>> /\ refs \in [Caps -> Nat]
    BY <1>1, <1>2 DEF TypeOK, Control
  <2> DEFINE s == stack[1]
  <2>2. s \in Seq(Caps) /\ AllLive(s)
    <3>1. 1 \in DOMAIN stack BY <2>1
    <3> QED BY <1>1, <2>1, <3>1, PointedAlive
  <2> HIDE DEF s
  <2>3. NewCapture(x, start, s, refs) BY <1>7 DEF s
  <2>4. /\ x \notin live /\ live' = live \union {x} /\ lost' = lost
        /\ live' \subseteq Caps /\ lost' \subseteq live' /\ Allocates
        /\ off' \in [Caps -> Int] /\ ment' \in [Caps -> Ents \union {NoEnt}]
        /\ kids' \in [Caps -> Seq(Caps)] /\ refs' \in [Caps -> Nat]
        /\ \A c \in Caps : refs'[c] = refs[c] + One(x, c) + Occ(s, Only(c))
        /\ \A c \in Caps : InCaptures(c)' = InCaptures(c) + Occ(s, Only(c))
    BY <1>0, <2>1, <2>2, <2>3, NewCaptureFacts
  <2>5. TypeOK'
    <3>1. results' \subseteq Caps BY <1>1, <1>7 DEF TypeOK
    <3> QED BY <1>1, <1>2, <1>5, <2>4, <3>1 DEF TypeOK, Call
  <2>6. Counted'
    <3>1. SUFFICES ASSUME NEW c \in Caps
          PROVE  /\ refs'[c] = OnStack(stack', c) + InTable(c)' + InCaptures(c)'
                                 + Kept(c)' + Due(todo', c)
                 /\ c \in live' <=> refs'[c] > 0
      BY DEF Counted
    <3>2. InTable(c)' = InTable(c) /\ OnStack(stack', c) = OnStack(stack, c)
      BY <1>2 DEF InTable
    <3>3. /\ refs[c] = OnStack(stack, c) + InTable(c) + InCaptures(c) + Kept(c)
          /\ refs[c] \in Nat /\ OnStack(stack, c) \in Nat /\ InTable(c) \in Nat
          /\ InCaptures(c) \in Nat /\ Kept(c) \in Nat
          /\ c \in live <=> refs[c] > 0
      BY <1>0, <1>2, BeforeFacts
    <3>4. Kept(c)' = Kept(c) + One(x, c)
      <4>1. x \notin results BY <1>1, <2>4, PointedAlive
      <4> QED BY <1>7, <4>1 DEF Kept, One
    <3>5. Occ(s, Only(c)) \in Nat /\ (c \notin live => Occ(s, Only(c)) = 0)
      BY <2>2, ListFacts
    <3>6. One(x, c) \in Nat /\ IF c = x THEN One(x, c) = 1 ELSE One(x, c) = 0 BY DEF One
    <3>7. /\ refs'[c] = refs[c] + One(x, c) + Occ(s, Only(c))
          /\ InCaptures(c)' = InCaptures(c) + Occ(s, Only(c))
      BY <2>4
    <3>8. c \in live' <=> refs'[c] > 0
      <4>1. c \in live' <=> c \in live \/ c = x BY <2>4
      <4> QED BY <3>3, <3>5, <3>6, <3>7, <4>1
    <3> QED BY <1>4, <3>2, <3>3, <3>4, <3>5, <3>6, <3>7, <3>8
  <2>7. Control' BY <1>1, <1>2 DEF Control
  <2>8. dying' = NoEnt BY <1>2
  <2> QED BY <1>0, <1>2, <1>3, <1>5, <2>4, <2>5, <2>6, <2>7, <2>8, MachineStep
<1> QED BY <1>0, <1>6, <1>7 DEF Done

(* The references of the stack become due, list by list.                   *)
LEMMA DestroyStep == IInv /\ stack_destroy => IInv'
<1>0. SUFFICES ASSUME IInv, stack_destroy PROVE IInv'
  OBVIOUS
<1>1. TypeOK /\ Control /\ IsFiniteSet(table) BY <1>0 DEF IInv, Counts
<1>2. /\ mode = "exit" /\ todo = <<>> /\ dying = NoEnt
      /\ UNCHANGED <<live, refs, ment, off, kids, lost, table, held, at, results, dying>>
  BY <1>0 DEF stack_destroy, Ready, captures, entries
<1>3. /\ stack' \in Seq(Seq(Caps)) /\ todo' \in Seq(Call)
      /\ \A i \in DOMAIN todo' : todo'[i].do = "free"
      /\ mode' \in {"idle", "run", "exit", "edit"} /\ mode' # "run"
      /\ mode' \in {"idle", "edit"} => stack' = <<>>
      /\ \A c \in Caps : /\ OnStack(stack, c) = OnStack(stack', c) + Due(todo', c)
                         /\ OnStack(stack', c) \in Nat /\ Due(todo', c) \in Nat
  <2>1. CASE stack = <<>>
    <3>1. mode' = "idle" /\ stack' = <<>> /\ todo' = <<>>
      BY <1>0, <1>2, <2>1 DEF stack_destroy
    <3>2. \A c \in Caps : OnStack(stack', c) = 0 /\ Due(todo', c) = 0 /\ OnStack(stack, c) = 0
      BY <2>1, <3>1, NoCalls, StackEmpty
    <3>3. stack' \in Seq(Seq(Caps)) BY <1>1, <2>1, <3>1 DEF TypeOK
    <3> QED BY <3>1, <3>2, <3>3, NoCalls
  <2>2. CASE stack # <<>>
    <3>1. mode' = "exit" /\ stack' = Below /\ todo' = Frees(Top)
      BY <1>0, <1>2, <2>2 DEF stack_destroy
    <3>2. /\ Below \in Seq(Seq(Caps)) /\ Top \in Seq(Caps) /\ AllLive(Top)
          /\ \A c : /\ OnStack(stack, c) = OnStack(Below, c) + Occ(Top, Only(c))
                    /\ OnStack(Below, c) \in Nat
      BY <1>0, <2>2, PopFacts
    <3>3. /\ todo' \in Seq(Call) /\ \A i \in DOMAIN todo' : todo'[i].do = "free"
          /\ \A c \in Caps : Occ(Top, Only(c)) \in Nat /\ Due(todo', c) = Occ(Top, Only(c))
      BY <3>1, <3>2, ListFacts
    <3> QED BY <3>1, <3>2, <3>3
  <2> QED BY <2>1, <2>2
<1>4. ASSUME NEW c \in Caps
      PROVE  /\ refs'[c] = OnStack(stack', c) + InTable(c)' + InCaptures(c)
                             + Kept(c)' + Due(todo', c)
             /\ refs'[c] >= refs[c] /\ (c \notin live => refs'[c] = refs[c])
  <2>1. InTable(c)' = InTable(c) /\ Kept(c)' = Kept(c) /\ refs'[c] = refs[c]
    BY <1>2 DEF InTable, Kept
  <2>2. /\ refs[c] = OnStack(stack, c) + InTable(c) + InCaptures(c) + Kept(c)
        /\ refs[c] \in Nat /\ InTable(c) \in Nat /\ InCaptures(c) \in Nat /\ Kept(c) \in Nat
    BY <1>0, <1>2, BeforeFacts
  <2>3. /\ OnStack(stack, c) = OnStack(stack', c) + Due(todo', c)
        /\ OnStack(stack', c) \in Nat /\ Due(todo', c) \in Nat
    BY <1>3
  <2> QED BY <2>1, <2>2, <2>3
<1>5. Stores BY <1>2, <1>3 DEF Stores
<1>6. /\ refs' \in [Caps -> Nat] /\ results' \subseteq Caps
      /\ table' \subseteq Ents /\ IsFiniteSet(table')
      /\ held' \in [Ents -> Seq(Caps)] /\ at' \in [Ents -> Int]
  BY <1>1, <1>2 DEF TypeOK
<1> QED BY <1>0, <1>2, <1>3, <1>4, <1>5, <1>6, QuietStep

(* The steps that leave every capture and every list alone.                *)
LEMMA ClientStep ==
    ASSUME IInv, todo = <<>>, dying = NoEnt,
           UNCHANGED <<captures, table, held, dying, results, todo>>,
           at' \in [Ents -> Int], mode' \in {"idle", "run", "exit", "edit"},
           \/ stack' = stack /\ (mode' = "run" => stack # <<>>)
                /\ (mode' \in {"idle", "edit"} => stack = <<>>)
           \/ stack = <<>> /\ stack' = Append(stack, <<>>) /\ mode' = "run"
    PROVE  IInv'
<1>1. TypeOK /\ IsFiniteSet(table) BY DEF IInv, Counts
<1>2. UNCHANGED <<live, refs, ment, off, kids, lost, table, held, dying, results, todo>>
  BY DEF captures
<1>3. /\ stack' \in Seq(Seq(Caps)) /\ (mode' = "run" => stack' # <<>>)
      /\ mode' \in {"idle", "edit"} => stack' = <<>>
      /\ \A c : OnStack(stack', c) = OnStack(stack, c)
  <2>1. stack \in Seq(Seq(Caps)) BY <1>1 DEF TypeOK
  <2>2. CASE stack' = stack /\ (mode' = "run" => stack # <<>>)
               /\ (mode' \in {"idle", "edit"} => stack = <<>>)
    BY <2>1, <2>2
  <2>3. CASE stack = <<>> /\ stack' = Append(stack, <<>>) /\ mode' = "run"
    <3>1. stack' \in Seq(Seq(Caps)) /\ stack' # <<>>
          /\ \A c : OnStack(stack', c) = OnStack(stack, c)
      BY <2>1, <2>3, StackPush
    <3> QED BY <2>3, <3>1
  <2> QED BY <2>2, <2>3
<1>4. ASSUME NEW c \in Caps
      PROVE  /\ refs'[c] = OnStack(stack', c) + InTable(c)' + InCaptures(c)
                             + Kept(c)' + Due(todo', c)
             /\ refs'[c] >= refs[c] /\ (c \notin live => refs'[c] = refs[c])
  <2>1. /\ InTable(c)' = InTable(c) /\ Kept(c)' = Kept(c) /\ refs'[c] = refs[c]
        /\ OnStack(stack', c) = OnStack(stack, c)
    BY <1>2, <1>3 DEF InTable, Kept
  <2>2. /\ refs[c] = OnStack(stack, c) + InTable(c) + InCaptures(c) + Kept(c)
        /\ refs[c] \in Nat
    BY BeforeFacts
  <2>3. Due(todo', c) = 0
    <3>1. todo' = <<>> BY <1>2
    <3> QED BY <3>1, NoCalls
  <2> QED BY <2>1, <2>2, <2>3
<1>5. Stores BY <1>2 DEF Stores
<1>6. /\ refs' \in [Caps -> Nat] /\ results' \subseteq Caps /\ todo' \in Seq(Call)
      /\ table' \subseteq Ents /\ IsFiniteSet(table') /\ held' \in [Ents -> Seq(Caps)]
  BY <1>1, <1>2, NoCalls DEF TypeOK
<1> QED BY <1>2, <1>3, <1>4, <1>5, <1>6, QuietStep

(* A run starts with an empty result list.                                 *)
LEMMA ExecStep == IInv /\ vm_exec => IInv'
<1>0. SUFFICES ASSUME IInv, vm_exec PROVE IInv'
  OBVIOUS
<1>1. TypeOK /\ Control BY <1>0 DEF IInv, Counts
<1>2. /\ mode = "idle" /\ todo = <<>> /\ dying = NoEnt /\ mode' = "run" /\ stack' = <<<<>>>>
      /\ UNCHANGED <<captures, table, held, at, dying, results, todo>>
  BY <1>0 DEF vm_exec, Ready, entries
<1>3. stack = <<>> BY <1>1, <1>2 DEF Control
<1>4. Append(stack, <<>>) = <<<<>>>> BY <1>3
<1>5. at' \in [Ents -> Int] BY <1>1, <1>2 DEF TypeOK
<1> QED BY <1>0, <1>2, <1>3, <1>4, <1>5, ClientStep

(* An edit starts.                                                         *)
LEMMA EditStep == IInv /\ memo_table_apply_edit => IInv'
<1>0. SUFFICES ASSUME IInv, memo_table_apply_edit PROVE IInv'
  OBVIOUS
<1>1. TypeOK /\ Control BY <1>0 DEF IInv, Counts
<1>2. /\ mode = "idle" /\ todo = <<>> /\ dying = NoEnt /\ mode' = "edit" /\ stack' = stack
      /\ UNCHANGED <<captures, table, held, at, dying, results, todo>>
  BY <1>0 DEF memo_table_apply_edit, Ready, entries
<1>3. stack = <<>> /\ at' \in [Ents -> Int] BY <1>1, <1>2 DEF Control, TypeOK
<1> QED BY <1>0, <1>2, <1>3, ClientStep

(* Entries move.                                                           *)
LEMMA ShiftStep ==
    ASSUME NEW from \in Positions, NEW amt \in {-1, 0, 1} PROVE IInv /\ Shift(from, amt) => IInv'
<1>0. SUFFICES ASSUME IInv, Shift(from, amt) PROVE IInv'
  OBVIOUS
<1>1. TypeOK /\ Control BY <1>0 DEF IInv, Counts
<1>2. /\ mode = "edit" /\ todo = <<>> /\ dying = NoEnt /\ mode' = "idle" /\ stack' = stack
      /\ at' = [e \in Ents |-> IF e \in table /\ at[e] >= from THEN at[e] + amt ELSE at[e]]
      /\ UNCHANGED <<captures, table, held, dying, results, todo>>
  BY <1>0 DEF Shift, Ready
<1>3. stack = <<>> /\ at \in [Ents -> Int] BY <1>1, <1>2 DEF Control, TypeOK
<1>4. \A e \in Ents : (IF e \in table /\ at[e] >= from THEN at[e] + amt ELSE at[e]) \in Int
  BY <1>3
<1>5. at' \in [Ents -> Int] BY <1>2, <1>4
<1> QED BY <1>0, <1>2, <1>3, <1>5, ClientStep

(* The client's reference becomes due.                                     *)
LEMMA ResultFreeStep == ASSUME NEW x \in Caps PROVE IInv /\ vm_result_free(x) => IInv'
<1>0. SUFFICES ASSUME IInv, vm_result_free(x) PROVE IInv'
  OBVIOUS
<1>1. TypeOK /\ Control /\ IsFiniteSet(table) BY <1>0 DEF IInv, Counts
<1>2. /\ mode = "idle" /\ todo = <<>> /\ dying = NoEnt /\ x \in results
      /\ results' = results \ {x} /\ todo' = Frees(<<x>>)
      /\ UNCHANGED <<live, refs, ment, off, kids, lost, table, held, at, stack, mode, dying>>
  BY <1>0 DEF vm_result_free, Ready, captures, entries
<1>3. /\ todo' \in Seq(Call) /\ \A i \in DOMAIN todo' : todo'[i].do = "free"
      /\ \A c \in Caps : Due(todo', c) = One(x, c)
  BY <1>2, OneFacts
<1>4. ASSUME NEW c \in Caps
      PROVE  /\ refs'[c] = OnStack(stack', c) + InTable(c)' + InCaptures(c)
                             + Kept(c)' + Due(todo', c)
             /\ refs'[c] >= refs[c] /\ (c \notin live => refs'[c] = refs[c])
  <2>1. /\ InTable(c)' = InTable(c) /\ refs'[c] = refs[c]
        /\ OnStack(stack', c) = OnStack(stack, c)
    BY <1>2 DEF InTable
  <2>2. Kept(c) = Kept(c)' + One(x, c) /\ Kept(c)' \in Nat /\ One(x, c) \in Nat
    BY <1>2 DEF Kept, One
  <2>3. /\ refs[c] = OnStack(stack, c) + InTable(c) + InCaptures(c) + Kept(c)
        /\ refs[c] \in Nat /\ OnStack(stack, c) \in Nat /\ InTable(c) \in Nat
        /\ InCaptures(c) \in Nat
    BY <1>0, <1>2, BeforeFacts
  <2>4. Due(todo', c) = One(x, c) BY <1>3
  <2> QED BY <2>1, <2>2, <2>3, <2>4
<1>5. Stores BY <1>2, <1>3 DEF Stores
<1>6. /\ refs' \in [Caps -> Nat] /\ results' \subseteq Caps /\ stack' \in Seq(Seq(Caps))
      /\ table' \subseteq Ents /\ IsFiniteSet(table') /\ stack' = <<>> /\ mode' = "idle"
      /\ held' \in [Ents -> Seq(Caps)] /\ at' \in [Ents -> Int]
  BY <1>1, <1>2 DEF TypeOK, Control
<1> QED BY <1>0, <1>2, <1>3, <1>4, <1>5, <1>6, QuietStep

---------------------------------------------------------------------------
(* The theorems.                                                           *)

(* The invariant holds initially.                                          *)
LEMMA InitIInv == Init => IInv
<1>0. SUFFICES ASSUME Init PROVE IInv
  OBVIOUS
<1>1. /\ live = {} /\ lost = {}
      /\ refs = [c \in Caps |-> 0] /\ ment = [c \in Caps |-> NoEnt]
      /\ off = [c \in Caps |-> 0] /\ kids = [c \in Caps |-> <<>>]
      /\ table = {} /\ held = [e \in Ents |-> <<>>] /\ at = [e \in Ents |-> 0]
      /\ stack = <<>> /\ results = {}
      /\ mode = "idle" /\ dying = NoEnt /\ todo = <<>>
  BY <1>0 DEF Init
<1>2. TypeOK
  <2>1. <<>> \in Seq(Caps) /\ <<>> \in Seq(Seq(Caps)) OBVIOUS
  <2>2. <<>> \in Seq([do : {"free", "attach", "absolutize"}, c : Caps,
                      e : Ents \union {NoEnt}])
    BY NoCalls DEF Call
  <2>3. refs \in [Caps -> Nat] /\ off \in [Caps -> Int] /\ at \in [Ents -> Int] BY <1>1
  <2>4. kids \in [Caps -> Seq(Caps)] /\ held \in [Ents -> Seq(Caps)]
        /\ ment \in [Caps -> Ents \union {NoEnt}]
    BY <1>1, <2>1
  <2> QED BY <1>1, <2>1, <2>2, <2>3, <2>4 DEF TypeOK
<1>3. IsFiniteSet(table) BY <1>1, FS_EmptySet
<1>4. Control BY <1>1 DEF Control
<1>5. Counted
  <2>1. SUFFICES ASSUME NEW c \in Caps
        PROVE  /\ refs[c] = OnStack(stack, c) + InTable(c) + InCaptures(c)
                              + Kept(c) + Due(todo, c)
               /\ c \in live <=> refs[c] > 0
    BY DEF Counted
  <2>2. OnStack(stack, c) = 0 /\ Due(todo, c) = 0 BY <1>1, StackEmpty, NoCalls
  <2>3. InTable(c) = 0
    <3>1. Pointers("entry", table, held, Only(c)) = {} BY <1>1 DEF Pointers
    <3> QED BY <3>1, FS_EmptySet DEF InTable, Total
  <2>4. InCaptures(c) = 0
    <3>1. Pointers("kid", live, kids, Only(c)) = {} BY <1>1 DEF Pointers
    <3> QED BY <3>1, FS_EmptySet DEF InCaptures, Total
  <2>5. Kept(c) = 0 /\ refs[c] = 0 /\ c \notin live BY <1>1 DEF Kept
  <2> QED BY <2>2, <2>3, <2>4, <2>5
<1>6. Order /\ Visits BY <1>1 DEF Order, Visits
<1>7. Rooted /\ Acyclic /\ AttachedSoon BY <1>1 DEF Rooted, Acyclic, AttachedSoon
<1> QED BY <1>2, <1>3, <1>4, <1>5, <1>6, <1>7 DEF IInv, Counts, Structure

(* Every step keeps it.                                                    *)
LEMMA NextIInv == IInv /\ [Next]_vars => IInv'
<1>0. SUFFICES ASSUME IInv, [Next]_vars PROVE IInv'
  OBVIOUS
<1>1. CASE UNCHANGED vars
  <2>1. UNCHANGED <<live, refs, ment, off, kids, lost, table, held, at, stack, results,
                    mode, dying, todo>>
    BY <1>1 DEF vars, captures, entries
  <2>2. TypeOK' /\ IsFiniteSet(table') /\ Control'
    BY <1>0, <2>1 DEF IInv, Counts, TypeOK, Control
  <2>3. Counted' BY <1>0, <2>1 DEF IInv, Counts, Counted, InTable, InCaptures, Kept
  <2>4. Order' /\ Visits' /\ Rooted' /\ Acyclic'
    BY <1>0, <2>1 DEF IInv, Structure, Order, Visits, Rooted, Acyclic, Pend
  <2>5. AttachedSoon' BY <1>0, <2>1 DEF IInv, Structure, AttachedSoon, Settled, Pend
  <2> QED BY <2>2, <2>3, <2>4, <2>5 DEF IInv, Counts, Structure
<1>2. CASE memo_capture_free BY <1>0, <1>2, FreeStep
<1>3. CASE capture_set_ment BY <1>0, <1>3, AttachStep
<1>4. CASE memo_capture_absolutize BY <1>0, <1>4, AbsolutizeStep
<1>5. CASE EntryGone BY <1>0, <1>5, EntryGoneStep
<1>6. CASE Push BY <1>0, <1>6, PushStep
<1>7. CASE VM_CAPTURE_FULL BY <1>0, <1>7, FullStep
<1>8. CASE VM_CAPTURE_END BY <1>0, <1>8, EndStep
<1>9. CASE PopDrop BY <1>0, <1>9, PopDropStep
<1>10. CASE PopPropagate BY <1>0, <1>10, PropagateStep
<1>11. CASE stack_prop_capt BY <1>0, <1>11, PropStep
<1>12. CASE VM_MEMO_CLOSE BY <1>0, <1>12, CloseStep
<1>13. CASE MemoFail BY <1>0, <1>13, FailStep
<1>14. CASE \E e \in Ents : Hit(e) BY <1>0, <1>14, HitStep
<1>15. CASE VM_MEMO_TREE_INSERT BY <1>0, <1>15, InsertStep
<1>16. CASE VM_MEMO_TREE BY <1>0, <1>16, TreeStep
<1>17. CASE Done BY <1>0, <1>17, DoneStep
<1>18. CASE stack_destroy BY <1>0, <1>18, DestroyStep
<1>19. CASE vm_exec BY <1>0, <1>19, ExecStep
<1>20. CASE \E c \in Caps : vm_result_free(c) BY <1>0, <1>20, ResultFreeStep
<1>21. CASE memo_table_apply_edit BY <1>0, <1>21, EditStep
<1>22. CASE \E e \in Ents : table_free_entry(e) BY <1>0, <1>22, EvictStep
<1>23. CASE \E from \in Positions, amt \in {-1, 0, 1} : Shift(from, amt)
  BY <1>0, <1>23, ShiftStep
<1> QED BY <1>0, <1>1, <1>2, <1>3, <1>4, <1>5, <1>6, <1>7, <1>8, <1>9, <1>10, <1>11, <1>12,
           <1>13, <1>14, <1>15, <1>16, <1>17, <1>18, <1>19, <1>20, <1>21, <1>22, <1>23
        DEF Next

(* The inductive invariant holds in every behaviour.                       *)
THEOREM Invariance == Spec => []IInv
<1>1. Init => IInv BY InitIInv
<1>2. IInv /\ [Next]_vars => IInv' BY NextIInv
<1> QED BY <1>1, <1>2, PTL DEF Spec

(* Every field keeps its type, and an entry that is being destroyed is     *)
(* still in the table.                                                     *)
THEOREM CapturesTyped == Spec => []TypeOK
<1>1. IInv => TypeOK BY DEF IInv, Counts
<1> QED BY <1>1, Invariance, PTL

(* The count of a capture (memo_capture_ref, memo_capture_free) is the     *)
(* number of pointers that carry a reference, at every step and between    *)
(* any two calls of the recursive functions, and a capture is allocated    *)
(* exactly while that number is positive.                                  *)
THEOREM ReferencesCounted == Spec => []RefsCountHolders
<1>1. IInv => RefsCountHolders
  <2>1. SUFFICES ASSUME IInv, NEW c \in Caps
        PROVE  refs[c] = Cardinality(Holders(c)) /\ (c \in live <=> refs[c] > 0)
    BY DEF RefsCountHolders
  <2>2. TypeOK /\ IsFiniteSet(table) /\ Counted BY <2>1 DEF IInv, Counts
  <2>3. Cardinality(Holders(c))
          = OnStack(stack, c) + InTable(c) + InCaptures(c) + Kept(c) + Due(todo, c)
    BY <2>2, HoldersCounted
  <2> QED BY <2>2, <2>3 DEF Counted
<1> QED BY <1>1, Invariance, PTL

(* The owner of a live capture is an entry of the table, also while        *)
(* table_free_entry destroys one, and no recursive function visits a       *)
(* capture that has been freed.                                            *)
THEOREM NothingDangles == Spec => []NoDangling
<1>1. IInv => NoDangling
  <2>1. SUFFICES ASSUME IInv PROVE NoDangling
    OBVIOUS
  <2>2. Counts /\ Visits /\ Rooted BY <2>1 DEF IInv, Structure
  <2>3. \A c \in live : ment[c] # NoEnt => ment[c] \in table BY <2>2 DEF Rooted
  <2>4. ASSUME NEW i \in DOMAIN todo PROVE todo[i].c \in live
    <3>1. todo \in Seq(Call) BY <2>2 DEF Counts, TypeOK, Call
    <3>2. todo[i] \in Call BY <3>1
    <3>3. todo[i].do \in {"free", "attach", "absolutize"} BY <3>2 DEF Call
    <3>4. CASE todo[i].do = "free" BY <2>2, <3>4, PointedAlive
    <3>5. CASE todo[i].do = "absolutize" BY <2>2, <3>5 DEF Visits
    <3>6. CASE todo[i].do = "attach"
      <4>1. /\ todo[i].e \in table
            /\ \/ In(todo[i].c, held[todo[i].e])
               \/ \E p \in live : In(todo[i].c, kids[p])
        BY <2>2, <3>6 DEF Visits
      <4> QED BY <2>2, <4>1, PointedAlive DEF AllLive, In
    <3> QED BY <3>3, <3>4, <3>5, <3>6
  <2> QED BY <2>3, <2>4 DEF NoDangling
<1> QED BY <1>1, Invariance, PTL

(* Between two operations, whatever an entry holds and every child of an   *)
(* owned capture has an owner, or had one that has been destroyed.         *)
THEOREM EntriesOwn == Spec => []Attached
<1>1. IInv => Attached
  <2>1. SUFFICES ASSUME IInv, todo = <<>>
        PROVE  /\ \A e \in table : \A i \in DOMAIN held[e] :
                    ment[held[e][i]] # NoEnt \/ held[e][i] \in lost
               /\ \A c \in live : ment[c] # NoEnt =>
                    \A i \in DOMAIN kids[c] : ment[kids[c][i]] # NoEnt \/ kids[c][i] \in lost
    BY DEF Attached
  <2>2. AttachedSoon BY <2>1 DEF IInv, Structure
  <2>3. \A c : Settled(c) => ment[c] # NoEnt \/ c \in lost BY <2>1 DEF Settled, Pend
  <2>4. ASSUME NEW e \in table, NEW i \in DOMAIN held[e]
        PROVE  ment[held[e][i]] # NoEnt \/ held[e][i] \in lost
    <3>1. In(held[e][i], held[e]) BY DEF In
    <3> QED BY <2>2, <2>3, <3>1 DEF AttachedSoon
  <2>5. ASSUME NEW c \in live, ment[c] # NoEnt, NEW i \in DOMAIN kids[c]
        PROVE  ment[kids[c][i]] # NoEnt \/ kids[c][i] \in lost
    <3>1. In(kids[c][i], kids[c]) BY DEF In
    <3> QED BY <2>2, <2>3, <2>5, <3>1 DEF AttachedSoon
  <2> QED BY <2>4, <2>5
<1> QED BY <1>1, Invariance, PTL

(* Only attaching and absolutizing write the position fields of a capture  *)
(* that stays.                                                             *)
LEMMA FieldsKept ==
    ASSUME IInv, Next, ~ capture_set_ment, ~ memo_capture_absolutize,
           NEW c \in live \intersect live'
    PROVE  ment'[c] = ment[c] /\ off'[c] = off[c]
<1>1. /\ ment \in [Caps -> Ents \union {NoEnt}] /\ off \in [Caps -> Int] /\ c \in Caps
  BY DEF IInv, Counts, TypeOK
<1>2. ASSUME NEW x, NEW p, NEW s, NEW r, NewCapture(x, p, s, r)
      PROVE  ment'[c] = ment[c] /\ off'[c] = off[c]
  BY <1>1, <1>2 DEF NewCapture
<1>3. CASE memo_capture_free
  <2>1. CASE refs[Target] = 1 BY <1>1, <1>3, <2>1 DEF memo_capture_free
  <2>2. CASE refs[Target] # 1 BY <1>3, <2>2 DEF memo_capture_free
  <2> QED BY <2>1, <2>2
<1>4. CASE EntryGone \/ Push \/ PopDrop \/ stack_prop_capt \/ MemoFail
  BY <1>4 DEF EntryGone, Push, PopDrop, stack_prop_capt, MemoFail, captures
<1>5. CASE VM_CAPTURE_FULL BY <1>2, <1>5 DEF VM_CAPTURE_FULL
<1>6. CASE VM_CAPTURE_END BY <1>2, <1>6 DEF VM_CAPTURE_END
<1>7. CASE PopPropagate \/ VM_MEMO_CLOSE \/ VM_MEMO_TREE_INSERT
  BY <1>7 DEF PopPropagate, VM_MEMO_CLOSE, VM_MEMO_TREE_INSERT
<1>8. CASE \E e \in Ents : Hit(e) BY <1>8 DEF Hit
<1>9. CASE VM_MEMO_TREE BY <1>2, <1>9 DEF VM_MEMO_TREE
<1>10. CASE Done BY <1>2, <1>10 DEF Done, captures
<1>11. CASE stack_destroy \/ vm_exec \/ memo_table_apply_edit
  BY <1>11 DEF stack_destroy, vm_exec, memo_table_apply_edit, captures
<1>12. CASE \E x \in Caps : vm_result_free(x) BY <1>12 DEF vm_result_free, captures
<1>13. CASE \E e \in Ents : table_free_entry(e) BY <1>13 DEF table_free_entry, captures
<1>14. CASE \E from \in Positions, amt \in {-1, 0, 1} : Shift(from, amt)
  BY <1>14 DEF Shift, captures
<1> QED BY <1>3, <1>4, <1>5, <1>6, <1>7, <1>8, <1>9, <1>10, <1>11, <1>12, <1>13, <1>14
        DEF Next

(* They keep the sum of a capture's offset and its owner's position.       *)
LEMMA StartKept ==
    ASSUME IInv, capture_set_ment \/ memo_capture_absolutize,
           NEW c \in live \intersect live'
    PROVE  ~ Moves(c)
<1> DEFINE e == Head(todo).e
<1>1. /\ TypeOK /\ Visits BY DEF IInv, Counts, Structure
<1>2. /\ ment \in [Caps -> Ents \union {NoEnt}] /\ off \in [Caps -> Int] /\ c \in Caps
      /\ at \in [Ents -> Int] /\ ment[c] \in Ents \union {NoEnt} /\ off[c] \in Int
      /\ table \subseteq Ents /\ dying \in table \union {NoEnt}
  BY <1>1 DEF TypeOK
<1>3. at' = at BY DEF capture_set_ment, memo_capture_absolutize, entries
<1>4. CASE capture_set_ment
  <2>1. Pending("attach") BY <1>4 DEF capture_set_ment
  <2>2. 1 \in DOMAIN todo /\ Head(todo) = todo[1] /\ todo[1].do = "attach"
    BY <2>1, PendingFacts
  <2>3. e \in Ents /\ e # NoEnt /\ at[e] \in Int
    BY <1>1, <1>2, <2>2, CapturesAssumption DEF Visits
  <2>4. CASE ment[Target] # NoEnt
    <3>1. off' = off /\ ment' = ment BY <1>4, <2>4 DEF capture_set_ment
    <3> QED BY <1>3, <3>1 DEF Moves, memo_capture_start
  <2>5. CASE ment[Target] = NoEnt
    <3>1. off' = [off EXCEPT ![Target] = @ - at[e]] /\ ment' = [ment EXCEPT ![Target] = e]
      BY <1>4, <2>5 DEF capture_set_ment
    <3>2. CASE c = Target
      <4>1. off'[c] = off[c] - at[e] /\ ment'[c] = e /\ ment[c] = NoEnt
        BY <1>2, <2>5, <3>1, <3>2
      <4>2. at[e] + (off[c] - at[e]) = off[c] BY <1>2, <2>3
      <4> QED BY <1>3, <2>3, <4>1, <4>2 DEF Moves, memo_capture_start
    <3>3. CASE c # Target
      <4>1. off'[c] = off[c] /\ ment'[c] = ment[c] BY <1>2, <3>1, <3>3
      <4> QED BY <1>3, <4>1 DEF Moves, memo_capture_start
    <3> QED BY <3>2, <3>3
  <2> QED BY <2>4, <2>5
<1>5. CASE memo_capture_absolutize
  <2>1. Pending("absolutize") BY <1>5 DEF memo_capture_absolutize
  <2>2. 1 \in DOMAIN todo /\ Head(todo) = todo[1] /\ todo[1].do = "absolutize"
    BY <2>1, PendingFacts
  <2>3. e \in Ents /\ e # NoEnt /\ at[e] \in Int
    BY <1>1, <1>2, <2>2, CapturesAssumption DEF Visits
  <2>4. CASE ment[Target] # e
    <3>1. off' = off /\ ment' = ment BY <1>5, <2>4 DEF memo_capture_absolutize
    <3> QED BY <1>3, <3>1 DEF Moves, memo_capture_start
  <2>5. CASE ment[Target] = e
    <3>1. off' = [off EXCEPT ![Target] = @ + at[e]] /\ ment' = [ment EXCEPT ![Target] = NoEnt]
      BY <1>5, <2>5 DEF memo_capture_absolutize
    <3>2. CASE c = Target
      <4>1. off'[c] = off[c] + at[e] /\ ment'[c] = NoEnt /\ ment[c] = e
        BY <1>2, <2>5, <3>1, <3>2
      <4>2. at[e] + off[c] = off[c] + at[e] BY <1>2, <2>3
      <4> QED BY <2>3, <4>1, <4>2 DEF Moves, memo_capture_start
    <3>3. CASE c # Target
      <4>1. off'[c] = off[c] /\ ment'[c] = ment[c] BY <1>2, <3>1, <3>3
      <4> QED BY <1>3, <4>1 DEF Moves, memo_capture_start
    <3> QED BY <3>2, <3>3
  <2> QED BY <2>4, <2>5
<1> QED BY <1>4, <1>5

(* A capture that stays changes its position only with its owner's:        *)
(* capture_set_ment, memo_capture_absolutize, a hit and an eviction leave  *)
(* memo_capture_start as it is.                                            *)
THEOREM PositionsStay == Spec => PositionsKept
<1> DEFINE Steady == \A c \in live \intersect live' : Moves(c) =>
                       /\ ment[c] \in table /\ ment'[c] = ment[c]
                       /\ at'[ment[c]] # at[ment[c]]
<1>1. IInv /\ [Next]_vars => [Steady]_vars
  <2>1. SUFFICES ASSUME IInv, Next, NEW c \in live \intersect live', Moves(c)
        PROVE  /\ ment[c] \in table /\ ment'[c] = ment[c]
               /\ at'[ment[c]] # at[ment[c]]
    OBVIOUS
  <2>2. ~ capture_set_ment /\ ~ memo_capture_absolutize BY <2>1, StartKept
  <2>3. ment'[c] = ment[c] /\ off'[c] = off[c] BY <2>1, <2>2, FieldsKept
  <2>4. ment[c] # NoEnt /\ at'[ment[c]] # at[ment[c]]
    BY <2>1, <2>3 DEF Moves, memo_capture_start
  <2>5. ment[c] \in table BY <2>1, <2>4 DEF IInv, Structure, Rooted
  <2> QED BY <2>3, <2>4, <2>5
<1> QED BY <1>1, Invariance, PTL DEF Spec, PositionsKept
=============================================================================
