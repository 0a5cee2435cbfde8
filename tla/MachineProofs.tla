---------------------------- MODULE MachineProofs ----------------------------
(***************************************************************************)
(* Proofs about Machine for every sound program, subject, edit, window and *)
(* checker: vm_exec reads inside the subject and fetches inside the        *)
(* program, and what it records stays true of the bytes.                   *)
(*                                                                         *)
(* The three need each other.  A hit stays inside the subject because the  *)
(* entry is good; a recorded entry is good because the stack entry it      *)
(* comes from was pushed at or before the current offset; the offset goes  *)
(* back only to one that the stack remembers, and the entries below that   *)
(* one must still be behind it: offsets on the stack never decrease        *)
(* (StackOK).  The addresses on the stack are kept in the same invariant.  *)
(***************************************************************************)
EXTENDS Machine, MemoTableProofs

(* The kinds of stack entries that remember an offset of the subject.      *)
Placed == {"btrack", "memo", "memotree"}

(* The ones that a result can be recorded for.                             *)
Recording == {"memo", "memotree"}

(* Two stack entries differ at most in what they have collected.           *)
SameFrame(e, f) == f.kind = e.kind /\ f.ip = e.ip /\ f.id = e.id /\ f.pos = e.pos

(* They were pushed by the same instruction.                               *)
SameRole(e, f) == f.kind = e.kind /\ f.ip = e.ip /\ f.id = e.id

(* Of the stack st the lowest m entries are left, in their roles.          *)
Kept(st, m, new) ==
    m \in 1 .. Len(st) /\ Len(new) = m /\ \A i \in 1 .. m : SameRole(st[i], new[i])

IsFrame(e) ==
    e = [kind |-> e.kind, ip |-> e.ip, pos |-> e.pos, id |-> e.id,
         count |-> e.count, capt |-> e.capt]

(* A stack of a program of n instructions, over a subject of len bytes, at *)
(* offset p: addresses lie in the program, offsets in the subject, memo    *)
(* ids are numbers, and no entry was made behind the current offset or     *)
(* behind one above it.                                                    *)
StackOK(n, len, p, st) ==
    /\ st \in Seq(Range(st)) /\ st # <<>>
    /\ \A i \in DOMAIN st :
         /\ IsFrame(st[i])
         /\ st[i].kind = "base" <=> i = 1
         /\ st[i].kind \in {"ret", "btrack"} => st[i].ip \in 0 .. n - 1
         /\ st[i].kind \in Recording => st[i].id \in Int
         /\ st[i].kind \in Placed => st[i].pos \in 0 .. len /\ st[i].pos <= p
    /\ \A i, j \in DOMAIN st :
         i < j /\ st[i].kind \in Placed /\ st[j].kind \in Placed => st[i].pos <= st[j].pos

---------------------------------------------------------------------------
(* Stacks.                                                                 *)

(* A function on 1 .. n is a sequence of its values.                       *)
LEMMA ValuesSequence ==
    ASSUME NEW n \in Nat, NEW f, f = [i \in 1 .. n |-> f[i]]
    PROVE  f \in Seq(Range(f)) /\ Len(f) = n /\ DOMAIN f = 1 .. n
<1>1. DOMAIN f = 1 .. n OBVIOUS
<1>2. f \in [1 .. n -> Range(f)] BY <1>1 DEF Range
<1> HIDE DEF Range
<1> QED BY <1>1, <1>2, FunctionIsSequence

(* One below a length.                                                     *)
LEMMA OneBelow ==
    ASSUME NEW k \in Nat, k >= 1
    PROVE  k \in 1 .. k /\ (k # 1 => k - 1 \in 1 .. k /\ k - 1 \in Nat /\ k - 1 # k)
OBVIOUS

(* The shape of a stack.                                                   *)
LEMMA StackShape ==
    ASSUME NEW n, NEW len, NEW p, NEW st, StackOK(n, len, p, st)
    PROVE  /\ Len(st) \in Nat /\ Len(st) >= 1 /\ DOMAIN st = 1 .. Len(st)
           /\ st = [i \in 1 .. Len(st) |-> st[i]]
           /\ Last(st) = st[Len(st)]
           /\ Last(st).kind = "base" <=> Len(st) = 1
<1>1. st \in Seq(Range(st)) /\ st # <<>> BY DEF StackOK
<1>2. Len(st) \in Nat /\ Len(st) >= 1 /\ DOMAIN st = 1 .. Len(st) BY <1>1
<1>3. st = [i \in 1 .. Len(st) |-> st[i]] BY <1>1
<1>4. Last(st) = st[Len(st)] BY DEF Last
<1>5. st[Len(st)].kind = "base" <=> Len(st) = 1 BY <1>2 DEF StackOK
<1> QED BY <1>2, <1>3, <1>4, <1>5

(* A part of a stack from the bottom is a stack, whatever its entries have *)
(* collected.                                                              *)
LEMMA PartOK ==
    ASSUME NEW n, NEW len, NEW p, NEW st, StackOK(n, len, p, st),
           NEW m \in 1 .. Len(st), NEW new, new = [i \in 1 .. m |-> new[i]],
           \A i \in 1 .. m : IsFrame(new[i]) /\ SameFrame(st[i], new[i])
    PROVE  StackOK(n, len, p, new) /\ Len(new) = m
<1>1. Len(st) \in Nat /\ Len(st) >= 1 /\ DOMAIN st = 1 .. Len(st) BY StackShape
<1>2. m \in Nat /\ m >= 1 /\ \A i \in 1 .. m : i \in DOMAIN st BY <1>1
<1>3. new \in Seq(Range(new)) /\ Len(new) = m /\ DOMAIN new = 1 .. m
  BY <1>2, ValuesSequence
<1>4. new # <<>> BY <1>2, <1>3
<1>5. \A i \in 1 .. m :
         /\ IsFrame(new[i])
         /\ new[i].kind = "base" <=> i = 1
         /\ new[i].kind \in {"ret", "btrack"} => new[i].ip \in 0 .. n - 1
         /\ new[i].kind \in Recording => new[i].id \in Int
         /\ new[i].kind \in Placed => new[i].pos \in 0 .. len /\ new[i].pos <= p
  BY <1>2 DEF StackOK, SameFrame
<1>6. \A i, j \in 1 .. m :
         i < j /\ new[i].kind \in Placed /\ new[j].kind \in Placed => new[i].pos <= new[j].pos
  BY <1>2 DEF StackOK, SameFrame
<1> QED BY <1>3, <1>4, <1>5, <1>6 DEF StackOK

(* What is left of what was left.                                          *)
LEMMA KeptTwice ==
    ASSUME NEW st, Len(st) \in Nat, NEW m, NEW mid, Kept(st, m, mid),
           NEW n, NEW new, Kept(mid, n, new)
    PROVE  Kept(st, n, new)
<1>1. m \in 1 .. Len(st) /\ Len(mid) = m /\ \A i \in 1 .. m : SameRole(st[i], mid[i])
  BY DEF Kept
<1>2. n \in 1 .. m /\ Len(new) = n /\ \A i \in 1 .. n : SameRole(mid[i], new[i])
  BY <1>1 DEF Kept
<1>3. n \in 1 .. Len(st) /\ \A i \in 1 .. n : i \in 1 .. m BY <1>1, <1>2
<1> QED BY <1>1, <1>2, <1>3 DEF Kept, SameRole

(* What an entry has collected can be replaced.                            *)
LEMMA Collected ==
    ASSUME NEW e, IsFrame(e), NEW c
    PROVE  IsFrame([e EXCEPT !.capt = c]) /\ SameFrame(e, [e EXCEPT !.capt = c])
<1> DEFINE f == [e EXCEPT !.capt = c]
           g == [kind |-> e.kind, ip |-> e.ip, pos |-> e.pos, id |-> e.id,
                 count |-> e.count, capt |-> c]
<1>1. f = g BY DEF IsFrame
<1>2. IsFrame(g) /\ SameFrame(e, g) BY DEF IsFrame, SameFrame
<1> QED BY <1>1, <1>2

(* What the top has collected changes.                                     *)
LEMMA TopCaptOK ==
    ASSUME NEW n, NEW len, NEW p, NEW st, StackOK(n, len, p, st), NEW c
    PROVE  LET new == [st EXCEPT ![Len(st)].capt = c]
           IN  /\ StackOK(n, len, p, new) /\ Len(new) = Len(st)
               /\ Kept(st, Len(st), new)
               /\ \A i \in 1 .. Len(st) : SameFrame(st[i], new[i])
<1> DEFINE k == Len(st)
           top == [st[k] EXCEPT !.capt = c]
           new == [i \in 1 .. k |-> IF i = k THEN top ELSE st[i]]
<1>1. k \in Nat /\ k >= 1 /\ DOMAIN st = 1 .. k /\ st = [i \in 1 .. k |-> st[i]]
  BY StackShape
<1>2. [st EXCEPT ![k].capt = c] = new BY <1>1, Zenon
<1>3. \A i \in 1 .. k : IsFrame(st[i]) BY <1>1 DEF StackOK
<1>4. IsFrame(top) /\ SameFrame(st[k], top)
  <2>1. IsFrame(st[k]) BY <1>1, <1>3, OneBelow
  <2> QED BY <2>1, Collected
<1> HIDE DEF top
<1>5. \A i \in 1 .. k : IsFrame(new[i]) /\ SameFrame(st[i], new[i])
  BY <1>3, <1>4 DEF SameFrame
<1>6. new = [i \in 1 .. k |-> new[i]] OBVIOUS
<1>7. k \in 1 .. Len(st) BY <1>1, OneBelow
<1> HIDE DEF new, k
<1>8. StackOK(n, len, p, new) /\ Len(new) = k BY <1>5, <1>6, <1>7, PartOK
<1>9. Kept(st, k, new) BY <1>5, <1>7, <1>8 DEF Kept, SameFrame, SameRole
<1> QED BY <1>2, <1>5, <1>8, <1>9 DEF k

(* stack_add_capt is such a change.                                        *)
LEMMA AddCaptOK ==
    ASSUME NEW n, NEW len, NEW p, NEW st, StackOK(n, len, p, st), NEW c
    PROVE  /\ StackOK(n, len, p, stack_add_capt(st, c))
           /\ Len(stack_add_capt(st, c)) = Len(st)
           /\ Kept(st, Len(st), stack_add_capt(st, c))
           /\ \A i \in 1 .. Len(st) : SameFrame(st[i], stack_add_capt(st, c)[i])
<1> DEFINE new == [st EXCEPT ![Len(st)].capt = st[Len(st)].capt \o c]
<1>1. stack_add_capt(st, c) = new BY DEF stack_add_capt
<1>2. /\ StackOK(n, len, p, new) /\ Len(new) = Len(st) /\ Kept(st, Len(st), new)
      /\ \A i \in 1 .. Len(st) : SameFrame(st[i], new[i])
  BY TopCaptOK
<1> QED BY <1>1, <1>2

(* Taking entries off the top, but not the lowest.                         *)
LEMMA BelowOK ==
    ASSUME NEW n, NEW len, NEW p, NEW st, StackOK(n, len, p, st), NEW m \in 1 .. Len(st)
    PROVE  /\ StackOK(n, len, p, SubSeq(st, 1, m)) /\ Len(SubSeq(st, 1, m)) = m
           /\ SubSeq(st, 1, m) = [i \in 1 .. m |-> st[i]]
<1> DEFINE new == SubSeq(st, 1, m)
<1>1. /\ Len(st) \in Nat /\ Len(st) >= 1 /\ DOMAIN st = 1 .. Len(st)
      /\ st \in Seq(Range(st))
  BY StackShape DEF StackOK
<1>2. new = [i \in 1 .. m |-> st[i]] BY <1>1
<1>3. \A i \in 1 .. m : IsFrame(st[i]) BY <1>1 DEF StackOK
<1> HIDE DEF new
<1>4. \A i \in 1 .. m : IsFrame(new[i]) /\ SameFrame(st[i], new[i])
  BY <1>2, <1>3 DEF SameFrame
<1>5. new = [i \in 1 .. m |-> new[i]] BY <1>2
<1>6. StackOK(n, len, p, new) /\ Len(new) = m BY <1>4, <1>5, PartOK
<1> QED BY <1>2, <1>6 DEF new

(* An entry that is not the lowest is taken off.                           *)
LEMMA FrontOK ==
    ASSUME NEW n, NEW len, NEW p, NEW st, StackOK(n, len, p, st), Last(st).kind # "base"
    PROVE  /\ StackOK(n, len, p, Front(st)) /\ Len(Front(st)) = Len(st) - 1
           /\ Front(st)[Len(st) - 1] = st[Len(st) - 1]
           /\ Kept(st, Len(st) - 1, Front(st))
<1> DEFINE m == Len(st) - 1
<1>1. Len(st) \in Nat /\ Len(st) >= 1 /\ Len(st) # 1 BY StackShape
<1>2. m \in 1 .. Len(st) /\ m \in Nat BY <1>1, OneBelow
<1>3. Front(st) = SubSeq(st, 1, m) BY DEF Front
<1> HIDE DEF m
<1>4. /\ StackOK(n, len, p, SubSeq(st, 1, m)) /\ Len(SubSeq(st, 1, m)) = m
      /\ SubSeq(st, 1, m) = [i \in 1 .. m |-> st[i]]
  BY <1>2, BelowOK
<1>5. StackOK(n, len, p, Front(st)) BY <1>3, <1>4
<1>6. Len(Front(st)) = m /\ Front(st)[m] = st[m]
  <2>1. m \in 1 .. m BY <1>1, <1>2, OneBelow
  <2> QED BY <1>3, <1>4, <2>1
<1>7. Kept(st, m, Front(st)) BY <1>2, <1>3, <1>4 DEF Kept, SameRole
<1> QED BY <1>5, <1>6, <1>7 DEF m

(* stack_pop, with or without its captures.                                *)
LEMMA PopOK ==
    ASSUME NEW n, NEW len, NEW p, NEW st, StackOK(n, len, p, st), Last(st).kind # "base"
    PROVE  /\ StackOK(n, len, p, stack_pop(st, TRUE)) /\ StackOK(n, len, p, stack_pop(st, FALSE))
           /\ Kept(st, Len(st) - 1, stack_pop(st, TRUE))
           /\ Kept(st, Len(st) - 1, stack_pop(st, FALSE))
<1> DEFINE m == Len(st) - 1
           new == stack_add_capt(Front(st), Last(st).capt)
<1>1. StackOK(n, len, p, Front(st)) /\ Kept(st, m, Front(st)) /\ Len(Front(st)) = m BY FrontOK
<1>2. StackOK(n, len, p, new) /\ Kept(Front(st), Len(Front(st)), new) BY <1>1, AddCaptOK
<1>3. Len(st) \in Nat BY StackShape
<1> HIDE DEF m, new
<1>4. Kept(st, m, new) BY <1>1, <1>2, <1>3, KeptTwice
<1> QED BY <1>1, <1>2, <1>4 DEF stack_pop, m, new

(* stack_prop_capt moves the collection of the top one entry down.         *)
LEMMA PropOK ==
    ASSUME NEW n, NEW len, NEW p, NEW st, StackOK(n, len, p, st), Last(st).kind # "base"
    PROVE  StackOK(n, len, p, stack_prop_capt(st)) /\ Kept(st, Len(st), stack_prop_capt(st))
<1> DEFINE k == Len(st)
           top == [st[k] EXCEPT !.capt = <<>>]
           low == [st[k - 1] EXCEPT !.capt = @ \o Last(st).capt]
           new == [i \in 1 .. k |-> IF i = k THEN top ELSE IF i = k - 1 THEN low ELSE st[i]]
<1>0. /\ k \in Nat /\ k >= 1 /\ DOMAIN st = 1 .. k /\ st = [i \in 1 .. k |-> st[i]]
      /\ k # 1
  BY StackShape
<1>1. /\ k \in Nat /\ k >= 1 /\ DOMAIN st = 1 .. k /\ st = [i \in 1 .. k |-> st[i]]
      /\ k - 1 \in 1 .. k /\ k - 1 # k
  BY <1>0, OneBelow
<1>2. stack_prop_capt(st) = new
  <2>1. stack_prop_capt(st) = [[st EXCEPT ![k - 1] = low] EXCEPT ![k] = [@ EXCEPT !.capt = <<>>]]
    BY DEF stack_prop_capt
  <2>2. [st EXCEPT ![k - 1] = low][k] = st[k] BY <1>1, OneBelow
  <2> HIDE DEF low
  <2>3. stack_prop_capt(st) = [[st EXCEPT ![k - 1] = low] EXCEPT ![k] = top] BY <2>1, <2>2
  <2> HIDE DEF top
  <2> QED BY <1>1, <2>3
<1>3. \A i \in 1 .. k : IsFrame(st[i]) BY <1>1 DEF StackOK
<1>4. /\ IsFrame(top) /\ SameFrame(st[k], top)
      /\ IsFrame(low) /\ SameFrame(st[k - 1], low)
  <2>1. IsFrame(st[k]) /\ IsFrame(st[k - 1]) BY <1>1, <1>3, OneBelow
  <2> QED BY <2>1, Collected
<1> HIDE DEF top, low
<1>5. \A i \in 1 .. k : IsFrame(new[i]) /\ SameFrame(st[i], new[i])
  BY <1>1, <1>3, <1>4 DEF SameFrame
<1>6. new = [i \in 1 .. k |-> new[i]] OBVIOUS
<1>7. k \in 1 .. Len(st) BY <1>1, OneBelow
<1> HIDE DEF new, k
<1>8. StackOK(n, len, p, new) /\ Len(new) = k BY <1>5, <1>6, <1>7, PartOK
<1>9. Kept(st, k, new) BY <1>5, <1>7, <1>8 DEF Kept, SameFrame, SameRole
<1> QED BY <1>2, <1>8, <1>9 DEF k

(* Reading on leaves every entry behind.                                   *)
LEMMA AdvanceOK ==
    ASSUME NEW n, NEW len \in Nat, NEW p \in Nat, NEW st, StackOK(n, len, p, st),
           NEW q \in Nat, p <= q
    PROVE  StackOK(n, len, q, st)
<1>1. \A i \in DOMAIN st : st[i].kind \in Placed => st[i].pos \in 0 .. len /\ st[i].pos <= q
  BY DEF StackOK
<1> QED BY <1>1 DEF StackOK

(* The entries below one that remembers an offset were made before it.     *)
LEMMA BackOK ==
    ASSUME NEW n, NEW len \in Nat, NEW p, NEW st, StackOK(n, len, p, st),
           Last(st).kind \in Placed
    PROVE  /\ Last(st).pos \in 0 .. len /\ Last(st).pos <= p
           /\ StackOK(n, len, Last(st).pos, st)
<1> DEFINE k == Len(st)
<1>1. k \in Nat /\ k >= 1 /\ DOMAIN st = 1 .. k /\ Last(st) = st[k] BY StackShape
<1>2. st[k].pos \in 0 .. len /\ st[k].pos <= p BY <1>1 DEF StackOK
<1>3. \A i \in DOMAIN st : st[i].kind \in Placed =>
        st[i].pos \in 0 .. len /\ st[i].pos <= st[k].pos
  <2> SUFFICES ASSUME NEW i \in DOMAIN st, st[i].kind \in Placed
               PROVE  st[i].pos \in 0 .. len /\ st[i].pos <= st[k].pos
    OBVIOUS
  <2>1. CASE i = k BY <1>2, <2>1
  <2>2. CASE i < k BY <1>1, <2>2 DEF StackOK
  <2> QED BY <1>1, <2>1, <2>2
<1> HIDE DEF k
<1>4. StackOK(n, len, st[k].pos, st) BY <1>3 DEF StackOK
<1> QED BY <1>1, <1>2, <1>4
(* A stack with a new top: another one above it, or in its place.          *)
LEMMA NewTopOK ==
    ASSUME NEW n, NEW len \in Nat, NEW p \in Nat, NEW st, StackOK(n, len, p, st),
           NEW m \in Nat \ {0}, m = Len(st) \/ m = Len(st) + 1,
           NEW e, IsFrame(e), e.kind = "base" <=> m = 1,
           e.kind \in {"ret", "btrack"} => e.ip \in 0 .. n - 1,
           e.kind \in Recording => e.id \in Int,
           e.kind \in Placed => \/ e.pos = p /\ p <= len
                                \/ m = Len(st) /\ SameFrame(st[m], e),
           NEW new, new = [i \in 1 .. m |-> IF i = m THEN e ELSE st[i]]
    PROVE  StackOK(n, len, p, new)
<1> DEFINE k == Len(st)
<1>1. k \in Nat /\ k >= 1 /\ DOMAIN st = 1 .. k BY StackShape
<1>2. m = k \/ m = k + 1 OBVIOUS
<1> HIDE DEF k
<1>3. new = [i \in 1 .. m |-> new[i]] OBVIOUS
<1>4. new \in Seq(Range(new)) /\ Len(new) = m /\ DOMAIN new = 1 .. m
  BY <1>3, ValuesSequence
<1>5. new # <<>> BY <1>4
<1>6. /\ \A i \in 1 .. m : i # m => new[i] = st[i] /\ i \in DOMAIN st /\ i < m
      /\ m \in 1 .. m /\ new[m] = e
  BY <1>1, <1>2
<1>7. e.kind \in Placed => /\ e.pos \in 0 .. len /\ e.pos <= p
                           /\ \A i \in DOMAIN st : i < m /\ st[i].kind \in Placed
                                => st[i].pos <= e.pos
  <2> SUFFICES ASSUME e.kind \in Placed
               PROVE  /\ e.pos \in 0 .. len /\ e.pos <= p
                      /\ \A i \in DOMAIN st : i < m /\ st[i].kind \in Placed
                                => st[i].pos <= e.pos
    OBVIOUS
  <2>1. CASE e.pos = p /\ p <= len BY <2>1 DEF StackOK
  <2>2. CASE m = k /\ SameFrame(st[m], e)
    <3>1. m \in DOMAIN st /\ st[m].kind \in Placed /\ e.pos = st[m].pos
      BY <1>1, <2>2 DEF SameFrame
    <3> QED BY <3>1 DEF StackOK
  <2> QED BY <2>1, <2>2 DEF k
<1>8. \A i \in 1 .. m :
         /\ IsFrame(new[i])
         /\ new[i].kind = "base" <=> i = 1
         /\ new[i].kind \in {"ret", "btrack"} => new[i].ip \in 0 .. n - 1
         /\ new[i].kind \in Recording => new[i].id \in Int
         /\ new[i].kind \in Placed => new[i].pos \in 0 .. len /\ new[i].pos <= p
  <2> SUFFICES ASSUME NEW i \in 1 .. m
               PROVE  /\ IsFrame(new[i])
                      /\ new[i].kind = "base" <=> i = 1
                      /\ new[i].kind \in {"ret", "btrack"} => new[i].ip \in 0 .. n - 1
                      /\ new[i].kind \in Recording => new[i].id \in Int
                      /\ new[i].kind \in Placed =>
                           new[i].pos \in 0 .. len /\ new[i].pos <= p
    OBVIOUS
  <2>1. CASE i = m BY <1>6, <1>7, <2>1
  <2>2. CASE i # m BY <1>6, <2>2 DEF StackOK
  <2> QED BY <2>1, <2>2
<1>9. \A i, j \in 1 .. m :
         i < j /\ new[i].kind \in Placed /\ new[j].kind \in Placed => new[i].pos <= new[j].pos
  <2> SUFFICES ASSUME NEW i \in 1 .. m, NEW j \in 1 .. m, i < j,
                      new[i].kind \in Placed, new[j].kind \in Placed
               PROVE  new[i].pos <= new[j].pos
    OBVIOUS
  <2>0. i # m OBVIOUS
  <2>1. CASE j = m BY <1>6, <1>7, <2>0, <2>1
  <2>2. CASE j # m BY <1>6, <2>0, <2>2 DEF StackOK
  <2> QED BY <2>1, <2>2
<1> QED BY <1>4, <1>5, <1>8, <1>9 DEF StackOK

(* An appended sequence, as a function.                                    *)
LEMMA AppendShape ==
    ASSUME NEW S, NEW s \in Seq(S), NEW e \in S
    PROVE  Append(s, e) = [i \in 1 .. Len(s) + 1 |-> IF i = Len(s) + 1 THEN e ELSE s[i]]
<1> DEFINE a == Append(s, e)
           k == Len(s)
           f == [i \in 1 .. k + 1 |-> IF i = k + 1 THEN e ELSE s[i]]
<1>1. k \in Nat OBVIOUS
<1>2. DOMAIN a = 1 .. k + 1 /\ a = [i \in DOMAIN a |-> a[i]]
  <2>1. a \in Seq(S) /\ Len(a) = k + 1 OBVIOUS
  <2> HIDE DEF a
  <2> QED BY <2>1
<1>3. \A i \in 1 .. k : a[i] = s[i] OBVIOUS
<1>4. a[k + 1] = e OBVIOUS
<1> HIDE DEF a, k
<1>5. \A i \in 1 .. k + 1 : i # k + 1 => i \in 1 .. k BY <1>1
<1>6. \A i \in 1 .. k + 1 : a[i] = f[i] BY <1>3, <1>4, <1>5
<1>7. a = f BY <1>2, <1>6
<1> QED BY <1>7 DEF a, k

(* A push.                                                                 *)
LEMMA PushOK ==
    ASSUME NEW n, NEW len \in Nat, NEW p \in Nat, NEW st, StackOK(n, len, p, st),
           NEW kind, NEW to, NEW at, NEW id, NEW count, kind # "base",
           kind \in {"ret", "btrack"} => to \in 0 .. n - 1,
           kind \in Recording => id \in Int,
           kind \in Placed => at = p /\ p <= len
    PROVE  StackOK(n, len, p, Append(st, StackEntry(kind, to, at, id, count)))
<1> DEFINE k == Len(st)
           e == StackEntry(kind, to, at, id, count)
           m == k + 1
           new == [i \in 1 .. m |-> IF i = m THEN e ELSE st[i]]
<1>1. k \in Nat /\ k >= 1 /\ st \in Seq(Range(st)) BY StackShape DEF StackOK
<1>2. Append(st, e) = new
  <2> DEFINE S == Range(st) \union {e}
  <2>1. st \in Seq(S) BY <1>1
  <2>2. e \in S OBVIOUS
  <2> HIDE DEF S, e
  <2> QED BY <2>1, <2>2, AppendShape
<1>3. IsFrame(e) /\ e.kind = kind /\ e.ip = to /\ e.pos = at /\ e.id = id
  BY DEF StackEntry, IsFrame
<1> HIDE DEF e
<1>4. m \in Nat \ {0} /\ m # 1 /\ m = Len(st) + 1 BY <1>1 DEF k
<1> HIDE DEF k, m
<1>5. /\ e.kind = "base" <=> m = 1
      /\ e.kind \in {"ret", "btrack"} => e.ip \in 0 .. n - 1
      /\ e.kind \in Recording => e.id \in Int
      /\ e.kind \in Placed => \/ e.pos = p /\ p <= len
                              \/ m = Len(st) /\ SameFrame(st[m], e)
  BY <1>3, <1>4
<1>6. m = Len(st) \/ m = Len(st) + 1 BY <1>4
<1>7. new = [i \in 1 .. m |-> IF i = m THEN e ELSE st[i]] OBVIOUS
<1> HIDE DEF new
<1>8. StackOK(n, len, p, new) BY <1>3, <1>4, <1>5, <1>6, <1>7, NewTopOK
<1> QED BY <1>2, <1>8 DEF e

(* A choice point moves to the current offset.                             *)
LEMMA MoveOK ==
    ASSUME NEW n, NEW len \in Nat, NEW p \in 0 .. len, NEW st, StackOK(n, len, p, st),
           Last(st).kind = "btrack"
    PROVE  /\ StackOK(n, len, p, [st EXCEPT ![Len(st)].pos = p])
           /\ Last([st EXCEPT ![Len(st)].pos = p]).kind = "btrack"
           /\ Kept(st, Len(st), [st EXCEPT ![Len(st)].pos = p])
<1> DEFINE k == Len(st)
           e == [st[k] EXCEPT !.pos = p]
           new == [i \in 1 .. k |-> IF i = k THEN e ELSE st[i]]
<1>1. /\ k \in Nat /\ k >= 1 /\ DOMAIN st = 1 .. k /\ st = [i \in 1 .. k |-> st[i]]
      /\ k # 1 /\ Last(st) = st[k]
  BY StackShape
<1>2. [st EXCEPT ![k].pos = p] = new BY <1>1, Zenon
<1>3. IsFrame(st[k]) /\ st[k].kind = "btrack" /\ st[k].ip \in 0 .. n - 1
  BY <1>1 DEF StackOK
<1>4. IsFrame(e) /\ e.kind = "btrack" /\ e.ip = st[k].ip /\ e.pos = p /\ e.id = st[k].id
  <2> DEFINE s == st[k]
             g == [kind |-> s.kind, ip |-> s.ip, pos |-> p, id |-> s.id,
                   count |-> s.count, capt |-> s.capt]
  <2>1. e = g BY <1>3 DEF IsFrame
  <2>2. IsFrame(g) /\ g.kind = s.kind /\ g.ip = s.ip /\ g.pos = p /\ g.id = s.id
    BY DEF IsFrame
  <2> QED BY <1>3, <2>1, <2>2
<1> HIDE DEF e
<1>5. k \in Nat \ {0} /\ k = Len(st) BY <1>1
<1>6. new[k] = e BY <1>1
<1>a. p \in Nat /\ p <= len OBVIOUS
<1>b. e.kind # "base" /\ e.kind \notin Recording BY <1>4 DEF Recording
<1> HIDE DEF k
<1>7. StackOK(n, len, p, new) BY <1>1, <1>3, <1>4, <1>5, <1>a, <1>b, NewTopOK
<1>8. Len(new) = k BY <1>1, ValuesSequence
<1>9. Kept(st, k, new)
  <2>1. k \in 1 .. Len(st) BY <1>1, <1>5, OneBelow
  <2>2. \A i \in 1 .. k : SameRole(st[i], new[i]) BY <1>3, <1>4 DEF SameRole
  <2> HIDE DEF new
  <2> QED BY <1>8, <2>1, <2>2 DEF Kept
<1> QED BY <1>2, <1>4, <1>6, <1>7, <1>8, <1>9 DEF k, Last

(* The count of the top entry changes.                                     *)
LEMMA CountOK ==
    ASSUME NEW n, NEW len, NEW p, NEW st, StackOK(n, len, p, st), NEW c
    PROVE  /\ StackOK(n, len, p, [st EXCEPT ![Len(st)].count = c])
           /\ Kept(st, Len(st), [st EXCEPT ![Len(st)].count = c])
<1> DEFINE k == Len(st)
           e == [st[k] EXCEPT !.count = c]
           new == [i \in 1 .. k |-> IF i = k THEN e ELSE st[i]]
<1>1. k \in Nat /\ k >= 1 /\ DOMAIN st = 1 .. k /\ st = [i \in 1 .. k |-> st[i]]
  BY StackShape
<1>2. [st EXCEPT ![k].count = c] = new BY <1>1, Zenon
<1>3. \A i \in 1 .. k : IsFrame(st[i]) BY <1>1 DEF StackOK
<1>4. IsFrame(e) /\ SameFrame(st[k], e)
  <2> DEFINE s == st[k]
             g == [kind |-> s.kind, ip |-> s.ip, pos |-> s.pos, id |-> s.id,
                   count |-> c, capt |-> s.capt]
  <2>0. IsFrame(s) BY <1>1, <1>3, OneBelow
  <2>1. e = g BY <2>0 DEF IsFrame
  <2>2. IsFrame(g) /\ SameFrame(s, g) BY DEF IsFrame, SameFrame
  <2> QED BY <2>1, <2>2
<1> HIDE DEF e
<1>5. \A i \in 1 .. k : IsFrame(new[i]) /\ SameFrame(st[i], new[i])
  BY <1>3, <1>4 DEF SameFrame
<1>6. new = [i \in 1 .. k |-> new[i]] OBVIOUS
<1>7. k \in 1 .. Len(st) BY <1>1, OneBelow
<1> HIDE DEF new, k
<1>8. StackOK(n, len, p, new) /\ Len(new) = k BY <1>5, <1>6, <1>7, PartOK
<1>9. Kept(st, k, new) BY <1>5, <1>7, <1>8 DEF Kept, SameFrame, SameRole
<1> QED BY <1>2, <1>8, <1>9 DEF k


---------------------------------------------------------------------------
(* The inductive invariant.                                                *)

Subject == text \in Seq(Bytes) /\ gi \in DOMAIN Given
Table == \A e \in table : EntryGood(Bytes, text, e)
Control ==
    /\ mode \in {"new", "rejected", "idle", "run", "fail", "abort"}
    /\ mode \in {"idle", "run", "fail"} => Sound(code.prog)
    /\ pos \in Nat /\ furthest \in Nat
    /\ FetchInProgram /\ InputInBounds
Frames ==
    mode \in {"run", "fail"} => StackOK(Len(code.prog), Len(text), pos, stack)

MInv == Subject /\ Table /\ Control /\ Frames

(* A step records one result, of a rule that began at or before here; only *)
(* that of a rule on top of the stack is a failure.                        *)
Records ==
    \E id \in Int, start \in 0 .. Len(text), length \in Int : \E count, capts :
        /\ start <= pos /\ (length = -1 \/ (length = pos - start /\ pos <= Len(text)))
        /\ length = -1 => TopIs("memo") /\ id = Top.id
        /\ table' = memoize(id, start, length, count, capts)

---------------------------------------------------------------------------
(* Recording and merging.                                                  *)

(* Every recorded extent covers at least one byte and every recorded match *)
(* lies in the subject: the entry that is recorded was pushed at or before *)
(* the current offset.                                                     *)
LEMMA MemoizeOK ==
    ASSUME Subject, Table, pos \in Nat, furthest \in Nat,
           NEW id, NEW start \in 0 .. Len(text), start <= pos, NEW length \in Int,
           length = -1 \/ (length = pos - start /\ pos <= Len(text)),
           NEW count, NEW capts, NEW e \in memoize(id, start, length, count, capts)
    PROVE  EntryGood(Bytes, text, e)
<1> DEFINE last == IF furthest > pos THEN furthest ELSE pos
           n == last - start + 1
           res == [count |-> count, capt |-> Relocated(capts, -start)]
<1>1. text \in Seq(Bytes) /\ EOF \notin Bytes BY ClientAssumption DEF Subject
<1>2. start \in Nat /\ start <= Len(text) /\ length >= -1 /\ length <= Len(text) - start
  BY <1>1
<1>3. n \in Nat /\ n >= 1 BY <1>1
<1>4. windowed => e \in table BY DEF memoize
<1>5. ~ windowed => e \in memo_table_put(table, text, id, start, length, n, res)
  BY DEF memoize
<1> HIDE DEF n, res
<1>6. ~ windowed => EntryGood(Bytes, text, e)
  BY <1>1, <1>2, <1>3, <1>5, PutIsGood DEF Table
<1> QED BY <1>4, <1>6 DEF Table

(* The entries that a merge takes off the stack are above the one it       *)
(* records.                                                                *)
LEMMA MergeOK ==
    ASSUME MInv, mode = "run", NEW d \in Mergeable, Merge(d)
    PROVE  /\ StackOK(Len(code.prog), Len(text), pos, stack')
           /\ Kept(stack, Len(stack) - d, stack')
           /\ \A e \in table' : EntryGood(Bytes, text, e)
           /\ Records
<1> DEFINE k == Len(stack)
           n == k - d + 1
           N == Len(code.prog)
           capts == FlattenSeq([i \in 1 .. d |-> stack[n - 1 + i].capt])
           part == SubSeq(stack, 1, n)
           folded == Folded(d)
           ent == Last(folded)
           up == IF ent.capt = <<>> \/ windowed
                   THEN ent.capt
                   ELSE <<memo_capture_dummy(ent.pos, pos - ent.pos, ent.capt)>>
           low == stack_pop(folded, FALSE)
           rest == stack_add_capt(low, up)
           next == [Last(rest) EXCEPT !.count = @ + CountOfTop(d)]
<1>1. /\ StackOK(N, Len(text), pos, stack) /\ k \in Nat /\ k >= 1
      /\ Len(text) \in Nat
  BY StackShape DEF MInv, Frames, Subject
<1>2. d \in Nat /\ n \in Nat /\ n \in 1 .. k /\ n # 1 /\ n - 1 = k - d /\ n - 1 \in 1 .. n - 1
  BY <1>1 DEF Mergeable
<1>3. stack[n - 1].kind = "memotree" BY <1>1, <1>2 DEF Mergeable
<1>4. folded = [part EXCEPT ![n].capt = capts] BY <1>2 DEF Folded
<1>5. stack' = [rest EXCEPT ![Len(rest)] = next] /\
      table' = memoize(next.id, next.pos, pos - next.pos, next.count, next.capt)
  BY DEF Merge
<1> HIDE DEF k, n, N, capts
<1>6. StackOK(N, Len(text), pos, part) /\ Len(part) = n /\ part = [i \in 1 .. n |-> stack[i]]
  BY <1>1, <1>2, BelowOK DEF k
<1> HIDE DEF part
<1>7. /\ StackOK(N, Len(text), pos, folded) /\ Len(folded) = n /\ Kept(part, n, folded)
      /\ \A i \in 1 .. n : SameFrame(part[i], folded[i])
  <2>1. LET new == [part EXCEPT ![Len(part)].capt = capts]
        IN  /\ StackOK(N, Len(text), pos, new) /\ Len(new) = Len(part)
            /\ Kept(part, Len(part), new)
            /\ \A i \in 1 .. Len(part) : SameFrame(part[i], new[i])
    BY <1>6, TopCaptOK
  <2> QED BY <1>4, <1>6, <2>1
<1> HIDE DEF folded
<1>8. Last(folded).kind # "base" BY <1>2, <1>7, StackShape
<1>9. /\ StackOK(N, Len(text), pos, low) /\ Len(low) = n - 1
      /\ low[n - 1] = folded[n - 1] /\ Kept(folded, n - 1, low)
  <2>1. low = Front(folded) BY DEF stack_pop
  <2> HIDE DEF low
  <2>2. /\ StackOK(N, Len(text), pos, Front(folded)) /\ Len(Front(folded)) = Len(folded) - 1
        /\ Front(folded)[Len(folded) - 1] = folded[Len(folded) - 1]
        /\ Kept(folded, Len(folded) - 1, Front(folded))
    BY <1>7, <1>8, FrontOK
  <2> QED BY <1>7, <2>1, <2>2
<1>10. low[n - 1].kind = "memotree"
  <2>1. n - 1 \in 1 .. n BY <1>2
  <2>2. part[n - 1] = stack[n - 1] BY <1>6, <2>1
  <2>3. SameFrame(part[n - 1], folded[n - 1]) BY <1>7, <2>1
  <2>4. low[n - 1] = folded[n - 1] BY <1>2, <1>9
  <2> QED BY <1>3, <2>2, <2>3, <2>4 DEF SameFrame
<1> HIDE DEF low, up
<1>11. /\ StackOK(N, Len(text), pos, rest) /\ Len(rest) = n - 1
       /\ SameFrame(low[n - 1], rest[n - 1]) /\ Kept(low, n - 1, rest)
  BY <1>2, <1>9, AddCaptOK
<1> HIDE DEF rest
<1>12. Last(rest) = rest[n - 1] /\ Last(rest).kind = "memotree"
  BY <1>10, <1>11, StackShape DEF SameFrame
<1>13. Last(rest).pos \in 0 .. Len(text) /\ Last(rest).pos <= pos
  BY <1>1, <1>11, <1>12, BackOK DEF Placed
<1>14. next.pos = Last(rest).pos /\ next.id \in Int
  <2> DEFINE r == Last(rest)
             x == [r EXCEPT !.count = @ + CountOfTop(d)]
  <2>1. IsFrame(r) /\ r.id \in Int
    <3>1. DOMAIN rest = 1 .. n - 1 BY <1>11, StackShape
    <3> QED BY <1>2, <1>11, <1>12, <3>1 DEF StackOK, Recording
  <2> HIDE DEF r
  <2>2. x.pos = r.pos /\ x.id = r.id BY <2>1 DEF IsFrame
  <2> QED BY <2>1, <2>2 DEF r
<1>15. StackOK(N, Len(text), pos, stack') /\ Kept(rest, n - 1, stack')
  <2> DEFINE c == rest[n - 1].count + CountOfTop(d)
  <2>1. [rest EXCEPT ![Len(rest)] = next] = [rest EXCEPT ![Len(rest)].count = c]
    BY <1>11, <1>12
  <2> HIDE DEF c, next
  <2>2. /\ StackOK(N, Len(text), pos, [rest EXCEPT ![Len(rest)].count = c])
        /\ Kept(rest, Len(rest), [rest EXCEPT ![Len(rest)].count = c])
    BY <1>11, CountOK
  <2> QED BY <1>5, <1>11, <2>1, <2>2
<1> HIDE DEF next
<1>16. (\A e \in table' : EntryGood(Bytes, text, e)) /\ Records
  <2>1. /\ pos \in Nat /\ furthest \in Nat /\ pos <= Len(text) /\ Subject /\ Table
    BY <1>1 DEF MInv, Control, InputInBounds
  <2>2. /\ next.pos \in 0 .. Len(text) /\ next.pos <= pos /\ pos - next.pos \in Nat
    BY <1>13, <1>14, <2>1
  <2>3. \A e \in table' : EntryGood(Bytes, text, e) BY <1>5, <2>1, <2>2, MemoizeOK
  <2>4. Records BY <1>5, <1>14, <2>1, <2>2 DEF Records
  <2> QED BY <2>3, <2>4
<1>17. Kept(stack, n - 1, stack')
  <2>1. Kept(stack, n, part)
    BY <1>2, <1>6 DEF Kept, SameRole, k
  <2>2. Kept(stack, n, folded) BY <1>1, <1>7, <2>1, KeptTwice DEF k
  <2>3. Kept(stack, n - 1, low) BY <1>1, <1>9, <2>2, KeptTwice DEF k
  <2>4. Kept(stack, n - 1, rest) BY <1>1, <1>11, <2>3, KeptTwice DEF k
  <2> QED BY <1>1, <1>15, <2>4, KeptTwice DEF k
<1> QED BY <1>2, <1>15, <1>16, <1>17 DEF N, k

---------------------------------------------------------------------------
(* One instruction.                                                        *)

(* What holds when an instruction is fetched.                              *)
LEMMA Fetched ==
    ASSUME MInv, mode = "run"
    PROVE  /\ Len(code.prog) \in Nat \ {0} /\ Len(text) \in Nat
           /\ ip \in 0 .. Len(code.prog) - 1
           /\ In.op # "END" => ip + 1 \in 0 .. Len(code.prog) - 1
           /\ In.op \in Targeted => In.a \in 0 .. Len(code.prog) - 1
           /\ In.op = "ANY" => In.a \in Nat
           /\ In.op = "TEST_ANY" => In.b \in Nat
           /\ In.op \in {"MEMO_OPEN", "MEMO_TREE_OPEN"} => In.b \in Int
           /\ Peek \in In.set => pos + 1 <= Len(text)
           /\ pos \in Nat /\ pos <= Len(text) /\ furthest \in Nat
           /\ StackOK(Len(code.prog), Len(text), pos, stack)
<1> DEFINE N == Len(code.prog)
<1>1. /\ Sound(code.prog) /\ ip \in 0 .. N - 1 /\ pos \in 0 .. Len(text) /\ pos \in Nat
      /\ furthest \in Nat /\ text \in Seq(Bytes) /\ StackOK(N, Len(text), pos, stack)
  BY DEF MInv, Control, Frames, Subject, FetchInProgram, InputInBounds
<1>2. N \in Nat \ {0} /\ code.prog[N].op = "END" BY <1>1 DEF Sound
<1>3. ip + 1 \in 1 .. N BY <1>1, <1>2
<1>4. /\ In.op \in Targeted => In.a \in 0 .. N - 1
      /\ In.op = "ANY" => In.a \in Nat
      /\ In.op = "TEST_ANY" => In.b \in Nat
      /\ In.op \in {"MEMO_OPEN", "MEMO_TREE_OPEN"} => In.b \in Int
      /\ EOF \notin In.set
  BY <1>1, <1>3 DEF Sound, In
<1>5. In.op # "END" => ip + 1 # N BY <1>2 DEF In
<1>6. In.op # "END" => ip + 1 \in 0 .. N - 1 BY <1>1, <1>2, <1>3, <1>5
<1>7. Peek \in In.set => pos + 1 <= Len(text) BY <1>1, <1>4 DEF Peek, ByteAt
<1> QED BY <1>1, <1>2, <1>4, <1>6, <1>7

(* What a step of the machine has to keep.                                 *)
Stays == gi' = gi /\ code' = code /\ text' = text

LEMMA ExecOK ==
    ASSUME MInv, mode \in {"run", "fail"}, Stays,
           \A e \in table' : EntryGood(Bytes, text, e),
           furthest' \in Nat, pos' \in Nat, mode' \in {"idle", "run", "fail", "abort"},
           mode' = "run" => ip' \in 0 .. Len(code.prog) - 1 /\ pos' <= Len(text),
           mode' \in {"run", "fail"} =>
             StackOK(Len(code.prog), Len(text), pos', stack')
    PROVE  MInv'
<1>1. Subject' BY DEF MInv, Subject, Stays
<1>2. Table' BY DEF Table, Stays
<1>3. mode' = "run" => pos' \in 0 .. Len(text) BY <1>1 DEF Subject
<1>4. Control'
  BY <1>3 DEF MInv, Control, Stays, FetchInProgram, InputInBounds
<1>5. Frames' BY DEF Frames, Stays
<1> QED BY <1>1, <1>2, <1>4, <1>5 DEF MInv

(* TrackRead is an offset.                                                 *)
LEMMA TrackType ==
    ASSUME furthest \in Nat, NEW at \in Nat
    PROVE  TrackRead(at) \in Nat
BY DEF TrackRead

(* The instructions that leave the stack and the table alone.              *)
LEMMA PlainOK ==
    ASSUME MInv, mode = "run", Stays, table' = table, stack' = stack,
           furthest' \in Nat, pos' \in Nat, pos <= pos', mode' \in {"run", "fail"},
           mode' = "run" => ip' \in 0 .. Len(code.prog) - 1 /\ pos' <= Len(text)
    PROVE  MInv'
<1>1. Len(text) \in Nat /\ pos \in Nat /\ StackOK(Len(code.prog), Len(text), pos, stack)
  BY Fetched
<1>2. StackOK(Len(code.prog), Len(text), pos', stack') BY <1>1, AdvanceOK
<1>3. \A e \in table' : EntryGood(Bytes, text, e) BY DEF MInv, Table
<1> QED BY <1>2, <1>3, ExecOK

(* The instructions that change the stack at an offset.                    *)
LEMMA StackStepOK ==
    ASSUME MInv, mode = "run", Stays, table' = table,
           furthest' \in Nat, pos' \in Nat, mode' \in {"run", "fail"},
           mode' = "run" => ip' \in 0 .. Len(code.prog) - 1 /\ pos' <= Len(text),
           StackOK(Len(code.prog), Len(text), pos', stack')
    PROVE  MInv'
<1>1. \A e \in table' : EntryGood(Bytes, text, e) BY DEF MInv, Table
<1> QED BY <1>1, ExecOK

(* An abort_msg.                                                           *)
LEMMA AbortOK ==
    ASSUME MInv, mode = "run", Stays, Abort, UNCHANGED <<table, pos, furthest>>
    PROVE  MInv'
<1>1. \A e \in table' : EntryGood(Bytes, text, e) BY DEF MInv, Table
<1>2. pos' \in Nat /\ furthest' \in Nat /\ mode' = "abort" BY Fetched DEF Abort
<1> QED BY <1>1, <1>2, ExecOK

(* A pass that is over.                                                    *)
LEMMA DoneOK ==
    ASSUME MInv, mode \in {"run", "fail"}, NEW ok, NEW capts, NEW range,
           Done(ok, capts, range),
           UNCHANGED <<gi, code, text, table>>
    PROVE  MInv'
<1>1. \A e \in table' : EntryGood(Bytes, text, e) BY DEF MInv, Table
<1>2. pos' \in Nat /\ furthest' \in Nat /\ mode' = "idle" BY DEF Done
<1> QED BY <1>1, <1>2, ExecOK DEF Stays

(* The instructions that read, test or jump.                               *)
LEMMA ReadsOK ==
    ASSUME MInv,
           \/ VM_CHAR \/ VM_SET \/ VM_JUMP \/ VM_FAIL \/ VM_ANY \/ VM_SPAN \/ VM_EMPTY
           \/ VM_TEST_CHAR_NOCHOICE \/ VM_TEST_SET_NOCHOICE \/ VM_ERROR
    PROVE  MInv'
<1> DEFINE N == Len(code.prog)
<1>0. mode = "run" BY DEF VM_CHAR, VM_SET, VM_JUMP, VM_FAIL, VM_ANY, VM_SPAN, VM_EMPTY,
                          VM_TEST_CHAR_NOCHOICE, VM_TEST_SET_NOCHOICE, VM_ERROR, Op
<1>1. /\ N \in Nat \ {0} /\ Len(text) \in Nat
      /\ In.op # "END" => ip + 1 \in 0 .. N - 1
      /\ In.op \in Targeted => In.a \in 0 .. N - 1
      /\ In.op = "ANY" => In.a \in Nat
      /\ Peek \in In.set => pos + 1 <= Len(text)
      /\ pos \in Nat /\ pos <= Len(text) /\ furthest \in Nat
  BY <1>0, Fetched
<1>2. TrackRead(pos) \in Nat BY <1>1, TrackType
<1> HIDE DEF N
<1>3. ASSUME VM_CHAR \/ VM_SET PROVE MInv'
  <2>1. Consume /\ In.op # "END" BY <1>3 DEF VM_CHAR, VM_SET, Op
  <2>2. /\ Stays /\ table' = table /\ stack' = stack /\ furthest' \in Nat
        /\ pos' \in Nat /\ pos <= pos' /\ mode' \in {"run", "fail"}
        /\ mode' = "run" => ip' \in 0 .. N - 1 /\ pos' <= Len(text)
    BY <1>0, <1>1, <1>2, <2>1 DEF Consume, Stays, idleVars, Step, Goto, Fail
  <2> QED BY <1>0, <2>2, PlainOK DEF N
<1>4. ASSUME VM_TEST_CHAR_NOCHOICE \/ VM_TEST_SET_NOCHOICE PROVE MInv'
  <2>1. TestNoChoice /\ In.op # "END" /\ In.op \in Targeted
    BY <1>4 DEF VM_TEST_CHAR_NOCHOICE, VM_TEST_SET_NOCHOICE, Op, Targeted
  <2>2. /\ Stays /\ table' = table /\ stack' = stack /\ furthest' \in Nat
        /\ pos' \in Nat /\ pos <= pos' /\ mode' \in {"run", "fail"}
        /\ mode' = "run" => ip' \in 0 .. N - 1 /\ pos' <= Len(text)
    BY <1>0, <1>1, <1>2, <2>1 DEF TestNoChoice, Stays, idleVars, Step, Goto
  <2> QED BY <1>0, <2>2, PlainOK DEF N
<1>5. ASSUME VM_JUMP PROVE MInv'
  <2>1. In.op \in Targeted BY <1>5 DEF VM_JUMP, Op, Targeted
  <2>2. /\ Stays /\ table' = table /\ stack' = stack /\ furthest' \in Nat
        /\ pos' \in Nat /\ pos <= pos' /\ mode' \in {"run", "fail"}
        /\ mode' = "run" => ip' \in 0 .. N - 1 /\ pos' <= Len(text)
    BY <1>0, <1>1, <1>5, <2>1 DEF VM_JUMP, Stays, idleVars, Goto
  <2> QED BY <1>0, <2>2, PlainOK DEF N
<1>6. ASSUME VM_FAIL \/ VM_EMPTY \/ VM_ERROR PROVE MInv'
  <2>1. In.op # "END" BY <1>6 DEF VM_FAIL, VM_EMPTY, VM_ERROR, Op
  <2>2. UNCHANGED <<idleVars, table, pos, furthest, stack>> /\ (Step \/ Fail)
    BY <1>6 DEF VM_FAIL, VM_EMPTY, VM_ERROR
  <2>3. /\ Stays /\ table' = table /\ stack' = stack /\ furthest' \in Nat
        /\ pos' \in Nat /\ pos <= pos' /\ mode' \in {"run", "fail"}
        /\ mode' = "run" => ip' \in 0 .. N - 1 /\ pos' <= Len(text)
    BY <1>0, <1>1, <2>1, <2>2 DEF Stays, idleVars, Step, Goto, Fail
  <2> QED BY <1>0, <2>3, PlainOK DEF N
<1>7. ASSUME VM_ANY PROVE MInv'
  <2>1. In.op = "ANY" /\ pos' = pos + In.a BY <1>7 DEF VM_ANY, Op
  <2>2. pos' \in Nat /\ pos <= pos' BY <1>1, <2>1
  <2>3. /\ Stays /\ table' = table /\ stack' = stack /\ furthest' \in Nat
        /\ mode' \in {"run", "fail"}
        /\ mode' = "run" => ip' \in 0 .. N - 1 /\ pos' <= Len(text)
    BY <1>0, <1>1, <1>7, <2>1 DEF VM_ANY, Stays, idleVars, Step, Goto, Fail
  <2> QED BY <1>0, <2>2, <2>3, PlainOK DEF N
<1>8. ASSUME VM_SPAN PROVE MInv'
  <2>1. In.op # "END" /\ pos' \in pos .. Len(text) BY <1>8 DEF VM_SPAN, Op
  <2>2. pos' \in Nat /\ pos <= pos' /\ pos' <= Len(text) BY <1>1, <2>1
  <2>3. TrackRead(pos') \in Nat BY <1>1, <2>2, TrackType
  <2>4. /\ Stays /\ table' = table /\ stack' = stack /\ furthest' \in Nat
        /\ mode' \in {"run", "fail"}
        /\ mode' = "run" => ip' \in 0 .. N - 1 /\ pos' <= Len(text)
    BY <1>0, <1>1, <1>8, <2>1, <2>2, <2>3 DEF VM_SPAN, Stays, idleVars, Step, Goto
  <2> QED BY <1>0, <2>2, <2>4, PlainOK DEF N
<1> QED BY <1>3, <1>4, <1>5, <1>6, <1>7, <1>8

(* The instructions that push.                                             *)
LEMMA PushesOK ==
    ASSUME MInv,
           \/ VM_CHOICE \/ VM_CALL \/ VM_TEST_CHAR \/ VM_TEST_SET \/ VM_TEST_ANY
           \/ VM_CAPTURE_BEGIN \/ VM_CAPTURE_LATE \/ VM_CHECK_BEGIN
    PROVE  MInv'
<1> DEFINE N == Len(code.prog)
<1>0. mode = "run"
  BY DEF VM_CHOICE, VM_CALL, VM_TEST_CHAR, VM_TEST_SET, VM_TEST_ANY,
         VM_CAPTURE_BEGIN, VM_CAPTURE_LATE, VM_CHECK_BEGIN, Op
<1>1. /\ N \in Nat \ {0} /\ Len(text) \in Nat
      /\ In.op # "END" => ip + 1 \in 0 .. N - 1
      /\ In.op \in Targeted => In.a \in 0 .. N - 1
      /\ In.op = "TEST_ANY" => In.b \in Nat
      /\ In.op \in {"MEMO_OPEN", "MEMO_TREE_OPEN"} => In.b \in Int
      /\ Peek \in In.set => pos + 1 <= Len(text)
      /\ pos \in Nat /\ pos <= Len(text) /\ furthest \in Nat
      /\ StackOK(N, Len(text), pos, stack)
  BY <1>0, Fetched
<1>2. TrackRead(pos) \in Nat BY <1>1, TrackType
<1> HIDE DEF N
<1>3. ASSUME In.op \in Targeted
      PROVE  StackOK(N, Len(text), pos, push_btrack(In.a, pos))
  BY <1>1, <1>3, PushOK DEF push_btrack, Recording
<1>4. ASSUME In.op # "END"
      PROVE  StackOK(N, Len(text), pos, push_ret(ip + 1))
  BY <1>1, <1>4, PushOK DEF push_ret, Placed, Recording
<1>5. \A at : StackOK(N, Len(text), pos, push_capt(In.a, at))
  BY <1>1, PushOK DEF push_capt, Placed, Recording
<1>6. StackOK(N, Len(text), pos, push_check(In.a, In.b))
  BY <1>1, PushOK DEF push_check, Placed, Recording
<1>7. ASSUME VM_CHOICE \/ VM_CALL PROVE MInv'
  <2>1. In.op # "END" /\ In.op \in Targeted BY <1>7 DEF VM_CHOICE, VM_CALL, Op, Targeted
  <2>2. /\ Stays /\ table' = table /\ furthest' \in Nat /\ pos' = pos
        /\ mode' = "run" /\ ip' \in 0 .. N - 1
    BY <1>0, <1>1, <1>7, <2>1 DEF VM_CHOICE, VM_CALL, Stays, idleVars, Step, Goto
  <2>3. StackOK(N, Len(text), pos', stack')
    BY <1>3, <1>4, <1>7, <2>1, <2>2 DEF VM_CHOICE, VM_CALL
  <2> QED BY <1>0, <1>1, <2>2, <2>3, StackStepOK DEF N
<1>8. ASSUME VM_CAPTURE_BEGIN \/ VM_CAPTURE_LATE \/ VM_CHECK_BEGIN PROVE MInv'
  <2>1. In.op # "END" BY <1>8 DEF VM_CAPTURE_BEGIN, VM_CAPTURE_LATE, VM_CHECK_BEGIN, Op
  <2>2. /\ Stays /\ table' = table /\ furthest' \in Nat /\ pos' = pos
        /\ mode' = "run" /\ ip' \in 0 .. N - 1
    BY <1>0, <1>1, <1>8, <2>1
       DEF VM_CAPTURE_BEGIN, VM_CAPTURE_LATE, VM_CHECK_BEGIN, Stays, idleVars, Step, Goto
  <2>3. StackOK(N, Len(text), pos', stack')
    BY <1>5, <1>6, <1>8, <2>2 DEF VM_CAPTURE_BEGIN, VM_CAPTURE_LATE, VM_CHECK_BEGIN
  <2> QED BY <1>0, <1>1, <2>2, <2>3, StackStepOK DEF N
<1>9. ASSUME VM_TEST_CHAR \/ VM_TEST_SET PROVE MInv'
  <2>1. In.op # "END" /\ In.op \in Targeted /\ TestChoice
    BY <1>9 DEF VM_TEST_CHAR, VM_TEST_SET, Op, Targeted
  <2>2. /\ Stays /\ table' = table /\ furthest' \in Nat /\ pos' \in Nat /\ pos <= pos'
        /\ pos' <= Len(text) /\ mode' = "run" /\ ip' \in 0 .. N - 1
        /\ stack' = stack \/ stack' = push_btrack(In.a, pos)
    BY <1>0, <1>1, <1>2, <2>1 DEF TestChoice, Stays, idleVars, Step, Goto
  <2>3. StackOK(N, Len(text), pos, stack') BY <1>1, <1>3, <2>1, <2>2
  <2>4. StackOK(N, Len(text), pos', stack') BY <1>1, <2>2, <2>3, AdvanceOK
  <2> QED BY <1>0, <2>2, <2>4, StackStepOK DEF N
<1>10. ASSUME VM_TEST_ANY PROVE MInv'
  <2>1. In.op # "END" /\ In.op \in Targeted /\ In.op = "TEST_ANY"
    BY <1>10 DEF VM_TEST_ANY, Op, Targeted
  <2>2. /\ Stays /\ table' = table /\ furthest' \in Nat /\ pos' \in Nat /\ pos <= pos'
        /\ pos' <= Len(text) /\ mode' = "run" /\ ip' \in 0 .. N - 1
        /\ stack' = stack \/ stack' = push_btrack(In.a, pos)
    BY <1>0, <1>1, <1>10, <2>1 DEF VM_TEST_ANY, Stays, idleVars, Step, Goto
  <2>3. StackOK(N, Len(text), pos, stack') BY <1>1, <1>3, <2>1, <2>2
  <2>4. StackOK(N, Len(text), pos', stack') BY <1>1, <2>2, <2>3, AdvanceOK
  <2> QED BY <1>0, <2>2, <2>4, StackStepOK DEF N
<1> QED BY <1>7, <1>8, <1>9, <1>10

(* The instructions that pop, and the ones that change what the top has    *)
(* collected.                                                              *)
LEMMA PopsOK ==
    ASSUME MInv,
           \/ VM_COMMIT \/ VM_RETURN \/ VM_PARTIAL_COMMIT \/ VM_BACK_COMMIT
           \/ VM_FAIL_TWICE \/ VM_CAPTURE_FULL \/ VM_CAPTURE_END
           \/ VM_MEMO_TREE_CLOSE \/ VM_CHECK_END
    PROVE  MInv'
<1> DEFINE N == Len(code.prog)
<1>0. mode = "run"
  BY DEF VM_COMMIT, VM_RETURN, VM_PARTIAL_COMMIT, VM_BACK_COMMIT, VM_FAIL_TWICE,
         VM_CAPTURE_FULL, VM_CAPTURE_END, VM_MEMO_TREE_CLOSE, VM_CHECK_END, Op
<1>1. /\ N \in Nat \ {0} /\ Len(text) \in Nat
      /\ ip \in 0 .. N - 1
      /\ In.op # "END" => ip + 1 \in 0 .. N - 1
      /\ In.op \in Targeted => In.a \in 0 .. N - 1
      /\ pos \in Nat /\ pos <= Len(text) /\ furthest \in Nat
      /\ StackOK(N, Len(text), pos, stack)
  BY <1>0, Fetched
<1> HIDE DEF N
<1>2. Top.kind # "base" =>
        /\ StackOK(N, Len(text), pos, stack_pop(stack, TRUE))
        /\ StackOK(N, Len(text), pos, stack_pop(stack, FALSE))
  BY <1>1, PopOK DEF Top
<1>3. Top.kind = "ret" => Top.ip \in 0 .. N - 1
  <2>1. Len(stack) \in DOMAIN stack /\ Last(stack) = stack[Len(stack)]
    BY <1>1, StackShape, OneBelow
  <2> QED BY <1>1, <2>1 DEF Top, StackOK
<1>4. ASSUME VM_COMMIT PROVE MInv'
  <2>1. In.op \in Targeted BY <1>4 DEF VM_COMMIT, Op, Targeted
  <2>2. Stays /\ UNCHANGED <<table, pos, furthest>> BY <1>4 DEF VM_COMMIT, Stays, idleVars
  <2>3. CASE TopIs("base") BY <1>0, <1>4, <2>2, <2>3, AbortOK DEF VM_COMMIT
  <2>4. CASE ~ TopIs("base")
    <3>1. stack' = stack_pop(stack, TRUE) /\ ip' \in 0 .. N - 1 /\ mode' = "run"
      BY <1>0, <1>1, <1>4, <2>1, <2>4 DEF VM_COMMIT, Goto
    <3>2. StackOK(N, Len(text), pos', stack') BY <1>2, <2>2, <2>4, <3>1 DEF TopIs
    <3> QED BY <1>0, <1>1, <2>2, <3>1, <3>2, StackStepOK DEF N
  <2> QED BY <2>3, <2>4
<1>5. ASSUME VM_RETURN PROVE MInv'
  <2>1. Stays /\ UNCHANGED <<table, pos, furthest>> BY <1>5 DEF VM_RETURN, Stays, idleVars
  <2>2. CASE ~ TopIs("ret") BY <1>0, <1>5, <2>1, <2>2, AbortOK DEF VM_RETURN
  <2>3. CASE TopIs("ret")
    <3>1. stack' = stack_pop(stack, TRUE) /\ ip' \in 0 .. N - 1 /\ mode' = "run"
      BY <1>0, <1>3, <1>5, <2>3 DEF VM_RETURN, Goto, TopIs
    <3>2. StackOK(N, Len(text), pos', stack') BY <1>2, <2>1, <2>3, <3>1 DEF TopIs
    <3> QED BY <1>0, <1>1, <2>1, <3>1, <3>2, StackStepOK DEF N
  <2> QED BY <2>2, <2>3
<1>6. ASSUME VM_PARTIAL_COMMIT PROVE MInv'
  <2>1. In.op \in Targeted BY <1>6 DEF VM_PARTIAL_COMMIT, Op, Targeted
  <2>2. Stays /\ UNCHANGED <<table, pos, furthest>>
    BY <1>6 DEF VM_PARTIAL_COMMIT, Stays, idleVars
  <2>3. CASE ~ TopIs("btrack") BY <1>0, <1>6, <2>2, <2>3, AbortOK DEF VM_PARTIAL_COMMIT
  <2>4. CASE TopIs("btrack")
    <3> DEFINE moved == [stack EXCEPT ![Len(stack)].pos = pos]
    <3>1. stack' = stack_prop_capt(moved) /\ ip' \in 0 .. N - 1 /\ mode' = "run"
      BY <1>0, <1>1, <1>6, <2>1, <2>4 DEF VM_PARTIAL_COMMIT, Goto
    <3>2. pos \in 0 .. Len(text) /\ Last(stack).kind = "btrack"
      BY <1>1, <2>4 DEF TopIs, Top
    <3>3. StackOK(N, Len(text), pos, moved) /\ Last(moved).kind = "btrack"
      BY <1>1, <3>2, MoveOK
    <3> HIDE DEF moved
    <3>4. StackOK(N, Len(text), pos, stack') BY <3>1, <3>3, PropOK
    <3> QED BY <1>0, <1>1, <2>2, <3>1, <3>4, StackStepOK DEF N
  <2> QED BY <2>3, <2>4
<1>7. ASSUME VM_BACK_COMMIT PROVE MInv'
  <2>1. In.op \in Targeted BY <1>7 DEF VM_BACK_COMMIT, Op, Targeted
  <2>2. Stays /\ UNCHANGED <<table, furthest>> BY <1>7 DEF VM_BACK_COMMIT, Stays, idleVars
  <2>3. CASE ~ TopIs("btrack") BY <1>0, <1>7, <2>2, <2>3, AbortOK DEF VM_BACK_COMMIT
  <2>4. CASE TopIs("btrack")
    <3>1. /\ stack' = stack_pop(stack, TRUE) /\ pos' = Last(stack).pos
          /\ ip' \in 0 .. N - 1 /\ mode' = "run"
      BY <1>0, <1>1, <1>7, <2>1, <2>4 DEF VM_BACK_COMMIT, Goto, Top
    <3>2. Last(stack).kind \in Placed /\ Last(stack).kind # "base"
      BY <2>4 DEF TopIs, Top, Placed
    <3>3. pos' \in 0 .. Len(text) /\ StackOK(N, Len(text), pos', stack)
      BY <1>1, <3>1, <3>2, BackOK
    <3>4. StackOK(N, Len(text), pos', stack') BY <3>1, <3>2, <3>3, PopOK
    <3>5. pos' \in Nat /\ pos' <= Len(text) BY <1>1, <3>3
    <3> QED BY <1>0, <1>1, <2>2, <3>1, <3>4, <3>5, StackStepOK DEF N
  <2> QED BY <2>3, <2>4
<1>8. ASSUME VM_FAIL_TWICE PROVE MInv'
  <2>1. Stays /\ UNCHANGED <<table, pos, furthest>> /\ mode' = "fail"
    BY <1>8 DEF VM_FAIL_TWICE, Stays, idleVars, Fail
  <2>2. StackOK(N, Len(text), pos', stack')
    BY <1>1, <1>2, <1>8, <2>1 DEF VM_FAIL_TWICE, TopIs
  <2> QED BY <1>0, <1>1, <2>1, <2>2, StackStepOK DEF N
<1>9. ASSUME VM_CAPTURE_FULL PROVE MInv'
  <2>1. In.op # "END" BY <1>9 DEF VM_CAPTURE_FULL, Op
  <2>2. /\ Stays /\ UNCHANGED <<table, pos, furthest>> /\ mode' = "run"
        /\ ip' \in 0 .. N - 1
    BY <1>0, <1>1, <1>9, <2>1 DEF VM_CAPTURE_FULL, Stays, idleVars, Step, Goto
  <2>3. \A c : StackOK(N, Len(text), pos, stack_add_capt(stack, c)) BY <1>1, AddCaptOK
  <2>4. StackOK(N, Len(text), pos', stack') BY <1>1, <1>9, <2>2, <2>3 DEF VM_CAPTURE_FULL
  <2> QED BY <1>0, <1>1, <2>2, <2>4, StackStepOK DEF N
<1>10. ASSUME VM_CAPTURE_END PROVE MInv'
  <2>1. In.op # "END" BY <1>10 DEF VM_CAPTURE_END, Op
  <2>2. Stays /\ UNCHANGED <<table, pos, furthest>>
    BY <1>10 DEF VM_CAPTURE_END, Stays, idleVars
  <2>3. CASE ~ TopIs("capt") BY <1>0, <1>10, <2>2, <2>3, AbortOK DEF VM_CAPTURE_END
  <2>4. CASE TopIs("capt")
    <3> DEFINE rest == stack_pop(stack, FALSE)
    <3>1. /\ stack' = rest \/ \E c : stack' = stack_add_capt(rest, c)
          /\ ip' \in 0 .. N - 1 /\ mode' = "run"
      BY <1>0, <1>1, <1>10, <2>1, <2>4 DEF VM_CAPTURE_END, Step, Goto
    <3>2. StackOK(N, Len(text), pos, rest) BY <1>2, <2>4 DEF TopIs
    <3> HIDE DEF rest
    <3>3. \A c : StackOK(N, Len(text), pos, stack_add_capt(rest, c)) BY <3>2, AddCaptOK
    <3>4. StackOK(N, Len(text), pos, stack') BY <3>1, <3>2, <3>3
    <3> QED BY <1>0, <1>1, <2>2, <3>1, <3>4, StackStepOK DEF N
  <2> QED BY <2>3, <2>4
<1>11. ASSUME VM_MEMO_TREE_CLOSE PROVE MInv'
  <2>1. In.op # "END" BY <1>11 DEF VM_MEMO_TREE_CLOSE, Op
  <2>2. Stays /\ UNCHANGED <<table, pos, furthest>>
    BY <1>11 DEF VM_MEMO_TREE_CLOSE, Stays, idleVars
  <2>3. mode' = "run" /\ ip' \in 0 .. N - 1
    BY <1>0, <1>1, <1>11, <2>1 DEF VM_MEMO_TREE_CLOSE, Step, Goto
  <2>4. StackOK(N, Len(text), pos', stack')
    BY <1>1, <1>2, <1>11, <2>2 DEF VM_MEMO_TREE_CLOSE, TopIs
  <2> QED BY <1>0, <1>1, <2>2, <2>3, <2>4, StackStepOK DEF N
<1>12. ASSUME VM_CHECK_END PROVE MInv'
  <2>1. In.op # "END" BY <1>12 DEF VM_CHECK_END, Op
  <2>2. Stays /\ UNCHANGED <<table, furthest>> BY <1>12 DEF VM_CHECK_END, Stays, idleVars
  <2>3. CASE ~ TopIs("check") BY <1>0, <1>12, <2>2, <2>3, AbortOK DEF VM_CHECK_END
  <2>4. CASE TopIs("check")
    <3>1. /\ stack' = stack_pop(stack, TRUE)
          /\ \/ mode' = "fail" /\ pos' = pos
             \/ /\ mode' = "run" /\ ip' \in 0 .. N - 1
                /\ \E n \in 0 .. Len(text) - pos : pos' = pos + n
      BY <1>0, <1>1, <1>12, <2>1, <2>4 DEF VM_CHECK_END, Step, Goto, Fail
    <3>2. pos' \in Nat /\ pos <= pos' /\ pos' <= Len(text) /\ mode' \in {"run", "fail"}
      BY <1>1, <3>1
    <3>3. StackOK(N, Len(text), pos, stack') BY <1>2, <2>4, <3>1 DEF TopIs
    <3>4. StackOK(N, Len(text), pos', stack') BY <1>1, <3>2, <3>3, AdvanceOK
    <3>5. mode' = "run" => ip' \in 0 .. N - 1 BY <3>1
    <3> QED BY <1>0, <1>1, <2>2, <3>2, <3>4, <3>5, StackStepOK DEF N
  <2> QED BY <2>3, <2>4
<1> QED BY <1>4, <1>5, <1>6, <1>7, <1>8, <1>9, <1>10, <1>11, <1>12

(* The instructions that look results up and record them.  A hit moves the *)
(* offset by a match that lies in the current subject, however the entry   *)
(* got to its place.                                                       *)
LEMMA MemosOK ==
    ASSUME MInv,
           \/ VM_MEMO_OPEN \/ VM_MEMO_CLOSE \/ VM_MEMO_TREE_OPEN
           \/ VM_MEMO_TREE_INSERT \/ VM_MEMO_TREE
    PROVE  MInv'
<1> DEFINE N == Len(code.prog)
<1>0. mode = "run"
  BY DEF VM_MEMO_OPEN, VM_MEMO_CLOSE, VM_MEMO_TREE_OPEN, VM_MEMO_TREE_INSERT,
         VM_MEMO_TREE, Op
<1>1. /\ N \in Nat \ {0} /\ Len(text) \in Nat
      /\ ip \in 0 .. N - 1
      /\ In.op # "END" => ip + 1 \in 0 .. N - 1
      /\ In.op \in Targeted => In.a \in 0 .. N - 1
      /\ In.op \in {"MEMO_OPEN", "MEMO_TREE_OPEN"} => In.b \in Int
      /\ pos \in Nat /\ pos <= Len(text) /\ furthest \in Nat
      /\ StackOK(N, Len(text), pos, stack)
  BY <1>0, Fetched
<1> HIDE DEF N
<1>2. Subject /\ Table BY DEF MInv
<1>3. \A e \in memo_table_get(table, In.b, pos) :
        e.length # -1 => pos + e.length \in Nat /\ pos <= pos + e.length
                         /\ pos + e.length <= Len(text)
  <2> SUFFICES ASSUME NEW e \in memo_table_get(table, In.b, pos), e.length # -1
               PROVE  pos + e.length \in Nat /\ pos <= pos + e.length
                      /\ pos + e.length <= Len(text)
    OBVIOUS
  <2>1. e \in table /\ e.pos = pos BY DEF memo_table_get
  <2>2. EntryGood(Bytes, text, e) BY <1>2, <2>1 DEF Table
  <2>3. e.length \in Int /\ e.length >= 0 BY <2>2 DEF EntryGood, IsEntry
  <2>4. text \in Seq(Bytes) /\ EOF \notin Bytes BY <1>2, ClientAssumption DEF Subject
  <2>5. pos + e.length <= Len(text) BY <2>1, <2>2, <2>3, <2>4, MatchInside
  <2> QED BY <1>1, <2>3, <2>5
<1>4. ASSUME VM_MEMO_OPEN PROVE MInv'
  <2>1. In.op # "END" /\ In.op \in Targeted /\ In.op = "MEMO_OPEN"
    BY <1>4 DEF VM_MEMO_OPEN, Op, Targeted
  <2>2. Stays /\ UNCHANGED <<table, furthest>> BY <1>4 DEF VM_MEMO_OPEN, Stays, idleVars
  <2>3. StackOK(N, Len(text), pos, push_memo(In.b)) BY <1>1, <2>1, PushOK DEF push_memo
  <2>4. \A c : StackOK(N, Len(text), pos, stack_add_capt(stack, c)) BY <1>1, AddCaptOK
  <2>5. /\ \/ stack' = stack \/ stack' = push_memo(In.b)
           \/ \E c : stack' = stack_add_capt(stack, c)
        /\ \/ pos' = pos
           \/ \E e \in memo_table_get(table, In.b, pos) :
                e.length # -1 /\ pos' = pos + e.length
    BY <1>4 DEF VM_MEMO_OPEN
  <2>6. mode' \in {"run", "fail"} /\ (mode' = "run" => ip' \in 0 .. N - 1)
    BY <1>0, <1>1, <1>4, <2>1 DEF VM_MEMO_OPEN, Step, Goto, Fail
  <2>7. pos' \in Nat /\ pos <= pos' /\ pos' <= Len(text) BY <1>1, <1>3, <2>5
  <2>8. StackOK(N, Len(text), pos, stack') BY <1>1, <2>3, <2>4, <2>5
  <2>9. StackOK(N, Len(text), pos', stack') BY <1>1, <2>7, <2>8, AdvanceOK
  <2> QED BY <1>0, <1>1, <2>2, <2>6, <2>7, <2>9, StackStepOK DEF N
<1>5. ASSUME VM_MEMO_TREE_OPEN PROVE MInv'
  <2>1. In.op # "END" /\ In.op \in Targeted /\ In.op = "MEMO_TREE_OPEN"
    BY <1>5 DEF VM_MEMO_TREE_OPEN, Op, Targeted
  <2>2. Stays /\ table' = table BY <1>5 DEF VM_MEMO_TREE_OPEN, Stays, idleVars
  <2>3. \A c : StackOK(N, Len(text), pos, push_memotree(In.b, c))
    BY <1>1, <2>1, PushOK DEF push_memotree
  <2>4. \A c, d : StackOK(N, Len(text), pos, stack_add_capt(push_memotree(In.b, c), d))
    BY <2>3, AddCaptOK
  <2>5. /\ \/ stack' = stack \/ \E c : stack' = push_memotree(In.b, c)
           \/ \E c, d : stack' = stack_add_capt(push_memotree(In.b, c), d)
        /\ \/ pos' = pos /\ furthest' = furthest
           \/ /\ furthest' = TrackRead(pos')
              /\ \E e \in memo_table_get(table, In.b, pos) :
                   e.length # -1 /\ pos' = pos + e.length
    BY <1>5 DEF VM_MEMO_TREE_OPEN
  <2>6. mode' \in {"run", "fail"} /\ (mode' = "run" => ip' \in 0 .. N - 1)
    BY <1>0, <1>1, <1>5, <2>1 DEF VM_MEMO_TREE_OPEN, Step, Goto, Fail
  <2>7. pos' \in Nat /\ pos <= pos' /\ pos' <= Len(text) BY <1>1, <1>3, <2>5
  <2>8. furthest' \in Nat BY <1>1, <2>5, <2>7, TrackType
  <2>9. StackOK(N, Len(text), pos, stack') BY <1>1, <2>3, <2>4, <2>5
  <2>10. StackOK(N, Len(text), pos', stack') BY <1>1, <2>7, <2>9, AdvanceOK
  <2> QED BY <1>0, <1>1, <2>2, <2>6, <2>7, <2>8, <2>10, StackStepOK DEF N
<1>6. ASSUME Top.kind \in {"memo", "memotree"}, NEW count
      PROVE  \A e \in memoize(Top.id, Top.pos, pos - Top.pos, count, Top.capt) :
               EntryGood(Bytes, text, e)
  <2>1. Top.pos \in 0 .. Len(text) /\ Top.pos <= pos
    BY <1>1, <1>6, BackOK DEF Top, Placed
  <2>2. pos - Top.pos \in Int BY <1>1, <2>1
  <2> QED BY <1>1, <1>2, <2>1, <2>2, MemoizeOK
<1>7. ASSUME VM_MEMO_CLOSE PROVE MInv'
  <2>1. In.op # "END" BY <1>7 DEF VM_MEMO_CLOSE, Op
  <2>2. Stays /\ UNCHANGED <<pos, furthest>> BY <1>7 DEF VM_MEMO_CLOSE, Stays, idleVars
  <2>3. CASE ~ TopIs("memo") BY <1>0, <1>7, <2>2, <2>3, AbortOK DEF VM_MEMO_CLOSE
  <2>4. CASE TopIs("memo")
    <3>1. /\ stack' = stack_pop(stack, TRUE) /\ ip' \in 0 .. N - 1 /\ mode' = "run"
          /\ table' = memoize(Top.id, Top.pos, pos - Top.pos, 1, Top.capt)
      BY <1>0, <1>1, <1>7, <2>1, <2>4 DEF VM_MEMO_CLOSE, Step, Goto
    <3>2. \A e \in table' : EntryGood(Bytes, text, e) BY <1>6, <2>4, <3>1 DEF TopIs
    <3>3. StackOK(N, Len(text), pos', stack')
      BY <1>1, <2>2, <2>4, <3>1, PopOK DEF TopIs, Top
    <3> QED BY <1>0, <1>1, <2>2, <3>1, <3>2, <3>3, ExecOK DEF N
  <2> QED BY <2>3, <2>4
<1>8. ASSUME VM_MEMO_TREE_INSERT PROVE MInv'
  <2>1. In.op # "END" BY <1>8 DEF VM_MEMO_TREE_INSERT, Op
  <2>2. Stays /\ UNCHANGED <<pos, furthest>>
    BY <1>8 DEF VM_MEMO_TREE_INSERT, Stays, idleVars
  <2>3. CASE ~ TopIs("memotree") BY <1>0, <1>8, <2>2, <2>3, AbortOK DEF VM_MEMO_TREE_INSERT
  <2>4. CASE TopIs("memotree")
    <3>1. /\ stack' = [stack EXCEPT ![Len(stack)].count = @ + 1]
          /\ ip' \in 0 .. N - 1 /\ mode' = "run"
          /\ table' = memoize(Top.id, Top.pos, pos - Top.pos, Top.count + 1, Top.capt)
      BY <1>0, <1>1, <1>8, <2>1, <2>4 DEF VM_MEMO_TREE_INSERT, Step, Goto
    <3>2. \A e \in table' : EntryGood(Bytes, text, e) BY <1>6, <2>4, <3>1 DEF TopIs
    <3>3. StackOK(N, Len(text), pos', stack') BY <1>1, <2>2, <3>1, CountOK
    <3> QED BY <1>0, <1>1, <2>2, <3>1, <3>2, <3>3, ExecOK DEF N
  <2> QED BY <2>3, <2>4
<1>9. ASSUME VM_MEMO_TREE PROVE MInv'
  <2>1. In.op # "END" BY <1>9 DEF VM_MEMO_TREE, Op
  <2>2. Stays /\ UNCHANGED <<pos, furthest>> BY <1>9 DEF VM_MEMO_TREE, Stays, idleVars
  <2>3. mode' = "run" /\ ip' \in 0 .. N - 1
    BY <1>0, <1>1, <1>9, <2>1 DEF VM_MEMO_TREE, Step, Goto
  <2>4. CASE UNCHANGED <<stack, table>>
    BY <1>0, <1>1, <2>2, <2>3, <2>4, StackStepOK DEF N
  <2>5. CASE \E d \in Mergeable : Merge(d)
    <3>1. StackOK(N, Len(text), pos', stack') /\ \A e \in table' : EntryGood(Bytes, text, e)
      BY <1>0, <2>2, <2>5, MergeOK DEF N
    <3> QED BY <1>0, <1>1, <2>2, <2>3, <3>1, ExecOK DEF N
  <2> QED BY <1>9, <2>4, <2>5 DEF VM_MEMO_TREE
<1> QED BY <1>4, <1>5, <1>7, <1>8, <1>9

(* Unwinding.  The offset may lie beyond the end of the subject here; the  *)
(* failure that is recorded starts at or before it all the same.           *)
LEMMA UnwindOK ==
    ASSUME MInv, Unwind
    PROVE  MInv'
<1> DEFINE N == Len(code.prog)
<1>0. mode = "fail" BY DEF Unwind
<1>1. /\ Len(text) \in Nat /\ pos \in Nat /\ furthest \in Nat
      /\ StackOK(N, Len(text), pos, stack) /\ Subject /\ Table
  BY <1>0 DEF MInv, Control, Frames, Subject
<1> HIDE DEF N
<1>2. Top.kind # "base" => StackOK(N, Len(text), pos, stack_pop(stack, FALSE))
  BY <1>1, PopOK DEF Top
<1>3. CASE TopIs("base") /\ Done(FALSE, <<>>, NoRange) /\ UNCHANGED <<gi, code, text, table>>
  BY <1>0, <1>3, DoneOK
<1>4. CASE /\ TopIs("btrack") /\ stack' = stack_pop(stack, FALSE)
           /\ ip' = Top.ip /\ pos' = Top.pos /\ mode' = "run"
           /\ UNCHANGED <<idleVars, table, furthest, errs>>
  <2>1. Last(stack).kind = "btrack" /\ Last(stack).kind \in Placed
    BY <1>4 DEF TopIs, Top, Placed
  <2>2. Stays /\ UNCHANGED <<table, furthest>> BY <1>4 DEF Stays, idleVars
  <2>3. pos' \in 0 .. Len(text) /\ StackOK(N, Len(text), pos', stack)
    BY <1>1, <1>4, <2>1, BackOK DEF Top
  <2>4. StackOK(N, Len(text), pos', stack') BY <1>4, <2>1, <2>3, PopOK
  <2>5. ip' \in 0 .. N - 1
    <3>1. Len(stack) \in DOMAIN stack /\ Last(stack) = stack[Len(stack)]
      BY <1>1, StackShape, OneBelow
    <3> QED BY <1>1, <1>4, <2>1, <3>1 DEF Top, StackOK
  <2>6. \A e \in table' : EntryGood(Bytes, text, e) BY <1>1, <2>2 DEF Table
  <2>7. pos' \in Nat /\ pos' <= Len(text) BY <1>1, <2>3
  <2> QED BY <1>0, <1>1, <1>4, <2>2, <2>4, <2>5, <2>6, <2>7, ExecOK DEF N
<1>5. CASE /\ TopIs("memo") /\ stack' = stack_pop(stack, FALSE)
           /\ table' = memoize(Top.id, Top.pos, -1, 0, Top.capt)
           /\ UNCHANGED <<idleVars, mode, ip, pos, furthest, errs>>
  <2>1. Stays /\ UNCHANGED <<mode, pos, furthest>> BY <1>5 DEF Stays, idleVars
  <2>2. Top.pos \in 0 .. Len(text) /\ Top.pos <= pos
    BY <1>1, <1>5, BackOK DEF TopIs, Top, Placed
  <2>3. \A e \in table' : EntryGood(Bytes, text, e)
    <3>1. -1 \in Int OBVIOUS
    <3> QED BY <1>1, <1>5, <2>2, <3>1, MemoizeOK
  <2>4. StackOK(N, Len(text), pos', stack') BY <1>2, <1>5, <2>1 DEF TopIs
  <2> QED BY <1>0, <1>1, <2>1, <2>3, <2>4, ExecOK DEF N
<1>6. CASE /\ Top.kind \in {"ret", "memotree", "capt", "check"}
           /\ stack' = stack_pop(stack, FALSE)
           /\ UNCHANGED <<idleVars, table, mode, ip, pos, furthest, errs>>
  <2>1. Stays /\ UNCHANGED <<table, mode, pos, furthest>> BY <1>6 DEF Stays, idleVars
  <2>2. \A e \in table' : EntryGood(Bytes, text, e) BY <1>1, <2>1 DEF Table
  <2>3. StackOK(N, Len(text), pos', stack') BY <1>2, <1>6, <2>1
  <2> QED BY <1>0, <1>1, <2>1, <2>2, <2>3, ExecOK DEF N
<1> QED BY <1>3, <1>4, <1>5, <1>6 DEF Unwind

---------------------------------------------------------------------------
(* The whole machine.                                                      *)

(* vm_exec keeps the invariant.                                            *)
LEMMA ExecMInv ==
    ASSUME MInv, vm_exec
    PROVE  MInv'
<1>1. CASE VM_END
  <2> DEFINE range == IF windowed THEN caprange ELSE [low |-> 0, high |-> pos]
  <2>1. /\ mode = "run" /\ Done(In.a # 1, stack[1].capt, range)
        /\ UNCHANGED <<gi, code, text, table>>
    BY <1>1 DEF VM_END, Op
  <2> QED BY <2>1, DoneOK
<1> QED BY <1>1, ReadsOK, PushesOK, PopsOK, MemosOK, UnwindOK DEF vm_exec

(* The empty stack is one.                                                 *)
LEMMA BaseOK ==
    ASSUME NEW n, NEW len
    PROVE  StackOK(n, len, 0, <<Base>>)
<1>1. IsFrame(Base) /\ Base.kind = "base" BY DEF Base, StackEntry, IsFrame
<1> DEFINE st == <<Base>>
<1>2. DOMAIN st = {1} /\ st[1] = Base /\ st # <<>> OBVIOUS
<1>3. Base \in Range(st) BY <1>2 DEF Range
<1>4. st \in Seq(Range(st))
  <2> DEFINE S == Range(st)
  <2> HIDE DEF S
  <2>1. Base \in S BY <1>3 DEF S
  <2>2. <<Base>> \in Seq(S) BY <2>1
  <2> QED BY <2>2 DEF S
<1> HIDE DEF st
<1>5. StackOK(n, len, 0, st) BY <1>1, <1>2, <1>4 DEF StackOK, Placed, Recording
<1> QED BY <1>5 DEF st

(* What clients pass.                                                      *)
LEMMA ClientsPass ==
    ASSUME Subject
    PROVE  /\ \A data \in Grammar.subjects : data \in Seq(Bytes)
           /\ \A e \in Grammar.edits : e.start \in Nat /\ e.end \in Nat /\ e.new \in Seq(Bytes)
           /\ \A w \in Grammar.windows : w.low \in Nat /\ w.high \in Nat
<1>1. gi \in DOMAIN Given BY DEF Subject
<1>2. \A data \in Grammar.subjects : data \in Texts BY <1>1 DEF Grammar, Texts
<1>3. \A e \in Grammar.edits : e.new \in Texts BY <1>1 DEF Grammar, Texts
<1>4. \A t \in Texts : t \in Seq(Bytes) BY ClientAssumption
<1>5. /\ \A e \in Grammar.edits : e.start \in Nat /\ e.end \in Nat
      /\ \A w \in Grammar.windows : w.low \in Nat /\ w.high \in Nat
  BY <1>1, ClientAssumption DEF Grammar
<1> QED BY <1>2, <1>3, <1>4, <1>5

(* A pass begins.                                                          *)
LEMMA StartOK ==
    ASSUME MInv, mode = "idle", NEW w, Start(w), code' = code, gi' = gi,
           text' \in Seq(Bytes), \A e \in table' : EntryGood(Bytes, text', e)
    PROVE  MInv'
<1>1. /\ mode' = "run" /\ ip' = 0 /\ pos' = 0 /\ furthest' = 0 /\ stack' = <<Base>>
  BY DEF Start
<1>2. Sound(code.prog) /\ gi \in DOMAIN Given BY DEF MInv, Control, Subject
<1>3. 0 \in 0 .. Len(code.prog) - 1 BY <1>2 DEF Sound
<1>4. 0 \in 0 .. Len(text') OBVIOUS
<1>5. Control' BY <1>1, <1>2, <1>3, <1>4 DEF Control, FetchInProgram, InputInBounds
<1>6. Frames' BY <1>1, BaseOK DEF Frames
<1>7. Subject' /\ Table' BY <1>2 DEF Subject, Table
<1> QED BY <1>5, <1>6, <1>7 DEF MInv

(* The operations of peg.c keep the invariant.                             *)
LEMMA CallsMInv ==
    ASSUME MInv, Calls
    PROVE  MInv'
<1>0. Subject /\ Table /\ text \in Seq(Bytes) BY DEF MInv, Subject
<1>1. ASSUME NEW data \in Grammar.subjects, peg_parse(data) PROVE MInv'
  <2>1. data \in Seq(Bytes) BY <1>0, ClientsPass
  <2>2. text' = data /\ table' = {} /\ mode = "idle" /\ Start(Whole) /\ code' = code /\ gi' = gi
    BY <1>1 DEF peg_parse
  <2> QED BY <2>1, <2>2, StartOK
<1>2. ASSUME NEW e \in Grammar.edits, peg_edit(e) PROVE MInv'
  <2>1. e.start \in Nat /\ e.end \in Nat /\ e.new \in Seq(Bytes) BY <1>0, ClientsPass
  <2>2. /\ mode = "idle" /\ e.start <= e.end /\ e.end <= Len(text)
        /\ text' = Splice(text, e.start, e.end, e.new)
        /\ table' = memo_table_apply_edit(table, e.start, e.end, Len(e.new))
        /\ UNCHANGED <<gi, code, mode, pos, furthest>>
    BY <1>2 DEF peg_edit
  <2>3. text' \in Seq(Bytes) BY <1>0, <2>1, <2>2, SpliceIsText
  <2>4. \A f \in table' : EntryGood(Bytes, text', f)
    BY <1>0, <2>1, <2>2, ApplyEditIsGood DEF Table
  <2>5. Subject' /\ Table' BY <1>0, <2>2, <2>3, <2>4 DEF Subject, Table
  <2>6. Control' BY <2>2 DEF MInv, Control, FetchInProgram, InputInBounds
  <2>7. Frames' BY <2>2 DEF Frames
  <2> QED BY <2>5, <2>6, <2>7 DEF MInv
<1>3. ASSUME peg_reparse PROVE MInv'
  <2>1. mode = "idle" /\ Start(Whole) /\ UNCHANGED <<gi, code, text, table>>
    BY <1>3 DEF peg_reparse
  <2>2. text' \in Seq(Bytes) /\ \A e \in table' : EntryGood(Bytes, text', e)
    BY <1>0, <2>1 DEF Table
  <2> QED BY <2>1, <2>2, StartOK
<1>4. ASSUME NEW w \in Grammar.windows, peg_capture_interval(w) PROVE MInv'
  <2>1. w.low \in Nat /\ w.high \in Nat BY <1>0, ClientsPass
  <2>2. mode = "idle" /\ Start(w) /\ UNCHANGED <<gi, code, text>>
    BY <1>4 DEF peg_capture_interval
  <2>3. table' \subseteq table
    <3>1. CASE w.high > w.low
      <4>1. table' = memo_table_apply_edit(table, w.low, w.high, w.high - w.low)
        BY <1>4, <3>1 DEF peg_capture_interval
      <4> QED BY <1>0, <2>1, <3>1, <4>1, WindowKeepsEntries DEF Table
    <3>2. CASE ~ (w.high > w.low) BY <1>4, <3>2 DEF peg_capture_interval
    <3> QED BY <3>1, <3>2
  <2>4. text' \in Seq(Bytes) /\ \A e \in table' : EntryGood(Bytes, text', e)
    BY <1>0, <2>2, <2>3 DEF Table
  <2> QED BY <2>2, <2>4, StartOK
<1> QED BY <1>1, <1>2, <1>3, <1>4 DEF Calls

(* So does a new program, if it is sound.                                  *)
LEMMA LoadMInv ==
    ASSUME MInv, LoadSound
    PROVE  MInv'
<1>1. /\ mode' = IF code' # NoProgram THEN "idle" ELSE "rejected"
      /\ UNCHANGED <<gi, text, table, pos, furthest>>
      /\ code' # NoProgram => Sound(code'.prog)
  BY DEF LoadSound, Load
<1>2. Subject' /\ Table' BY <1>1 DEF MInv, Subject, Table
<1>3. Control' BY <1>1 DEF MInv, Control, FetchInProgram, InputInBounds
<1>4. Frames' BY <1>1 DEF Frames
<1> QED BY <1>2, <1>3, <1>4 DEF MInv

LEMMA InitMInv == Init => MInv
BY DEF Init, MInv, Subject, Table, Control, Frames, Given, FetchInProgram, InputInBounds

LEMMA NextMInv == MInv /\ [LoadSound \/ Calls \/ vm_exec]_vars => MInv'
<1> SUFFICES ASSUME MInv, [LoadSound \/ Calls \/ vm_exec]_vars PROVE MInv'
  OBVIOUS
<1>1. CASE UNCHANGED vars
  <2>1. UNCHANGED <<gi, code, text, table, mode, ip, pos, furthest, stack>>
    BY <1>1 DEF vars, machine
  <2>2. Subject' /\ Table' BY <2>1 DEF MInv, Subject, Table
  <2>3. Control' BY <2>1 DEF MInv, Control, FetchInProgram, InputInBounds
  <2>4. Frames' BY <2>1 DEF MInv, Frames
  <2> QED BY <2>2, <2>3, <2>4 DEF MInv
<1> QED BY <1>1, LoadMInv, CallsMInv, ExecMInv

---------------------------------------------------------------------------
(* What the invariant gives, for every sound program, subject and edit.    *)

(* The invariant holds while programs run and clients edit (vm.c, peg.c).  *)
THEOREM MachineInvariance == MachineSpec => []MInv
<1> QED BY InitMInv, NextMInv, PTL DEF MachineSpec

(* Every read of vm_exec is inside the subject or at its end: also after a *)
(* hit of an entry that earlier edits have moved, a SPAN to the end, or a  *)
(* checker that consumed bytes.                                            *)
THEOREM InputStaysInside == MachineSpec => []InputInBounds
<1>1. MInv => InputInBounds BY DEF MInv, Control
<1> QED BY <1>1, MachineInvariance, PTL

(* vm_exec's unchecked fetch finds an instruction: addresses that were put *)
(* on the stack stay addresses through pops, merges and unwinding, and the *)
(* loop does not run off the end of the program.                           *)
THEOREM FetchesInside == MachineSpec => []FetchInProgram
<1>1. MInv => FetchInProgram BY DEF MInv, Control
<1> QED BY <1>1, MachineInvariance, PTL

(* An entry the machine has recorded, however many edits ago, lies over    *)
(* the bytes it examined, has an extent of at least a byte (the interval   *)
(* tree of memo.c would never find an empty one again) and, if it is a     *)
(* match, matched bytes that are there.                                    *)
Fresh(e) ==
    /\ e.examined >= 1
    /\ \A i \in 0 .. e.examined - 1 : ByteAt(text, e.pos + i) = e.seen[i]
    /\ e.length >= 0 => e.pos + e.length <= Len(text)

(* vm.c's memoize and the edits of peg.c keep every entry fresh: the table *)
(* of the real machine is one that Peg describes.                          *)
THEOREM RecordsStayFresh == MachineSpec => [](\A e \in table : Fresh(e))
<1>1. MInv => \A e \in table : Fresh(e)
  <2> SUFFICES ASSUME MInv, NEW e \in table PROVE Fresh(e)
    OBVIOUS
  <2>1. EntryGood(Bytes, text, e) /\ text \in Seq(Bytes) /\ EOF \notin Bytes
    BY ClientAssumption DEF MInv, Table, Subject
  <2>2. e.length >= 0 => e.pos + e.length <= Len(text) BY <2>1, MatchInside
  <2> QED BY <2>1, <2>2 DEF Fresh, EntryGood
<1> QED BY <1>1, MachineInvariance, PTL

---------------------------------------------------------------------------
(* The machine implements Peg.                                             *)

(* What Peg sees of the machine: the subject and the table, but not what   *)
(* entries yield.                                                          *)
Recorded == INSTANCE Peg WITH
    table <- AllYielding(table, NoResult),
    Inputs <- Texts,
    Ids <- Int,
    Results <- {NoResult}

(* Peg's operators are these.                                              *)
LEMMA SameOperators ==
    ASSUME NEW tbl, NEW t, NEW id, NEW start, NEW end, NEW length, NEW examined, NEW new
    PROVE  /\ Recorded!memo_table_put(tbl, t, id, start, length, examined, NoResult)
                = memo_table_put(tbl, t, id, start, length, examined, NoResult)
           /\ Recorded!memo_table_apply_edit(tbl, start, end, length)
                = memo_table_apply_edit(tbl, start, end, length)
           /\ Recorded!Splice(t, start, end, new) = Splice(t, start, end, new)
<1>1. Recorded!memo_table_put(tbl, t, id, start, length, examined, NoResult)
        = memo_table_put(tbl, t, id, start, length, examined, NoResult)
  BY DEF memo_table_put, Snapshot, ByteAt,
         Recorded!memo_table_put, Recorded!Snapshot, Recorded!ByteAt
<1>2. Recorded!memo_table_apply_edit(tbl, start, end, length)
        = memo_table_apply_edit(tbl, start, end, length)
  BY DEF memo_table_apply_edit, remove_and_shift, Shifted, Overlaps,
         Recorded!memo_table_apply_edit, Recorded!remove_and_shift, Recorded!Shifted,
         Recorded!Overlaps
<1>3. Recorded!Splice(t, start, end, new) = Splice(t, start, end, new)
  BY DEF Splice, Recorded!Splice
<1> QED BY <1>1, <1>2, <1>3

(* What is recorded for the top entry.                                     *)
LEMMA TopIsRecorded ==
    ASSUME MInv, mode \in {"run", "fail"}, Top.kind \in Recording
    PROVE  /\ Top.id \in Int /\ Top.pos \in 0 .. Len(text) /\ Top.pos <= pos
           /\ pos - Top.pos \in Nat
<1> DEFINE N == Len(code.prog)
<1>1. StackOK(N, Len(text), pos, stack) /\ Len(text) \in Nat /\ pos \in Nat
  BY DEF MInv, Frames, Subject, Control
<1> HIDE DEF N
<1>2. Len(stack) \in DOMAIN stack /\ Top = stack[Len(stack)]
  BY <1>1, StackShape, OneBelow DEF Top
<1>3. Top.id \in Int BY <1>1, <1>2 DEF StackOK
<1>4. Top.pos \in 0 .. Len(text) /\ Top.pos <= pos
  BY <1>1, BackOK DEF Top, Placed, Recording
<1>5. pos - Top.pos \in Nat BY <1>1, <1>4
<1> QED BY <1>3, <1>4, <1>5

(* vm_exec leaves the subject alone and changes the table by recording     *)
(* results only.                                                           *)
LEMMA ExecRecords ==
    ASSUME MInv, vm_exec
    PROVE  text' = text /\ (table' = table \/ Records)
<1>1. text' = text
  BY DEF vm_exec, VM_CHAR, VM_SET, VM_JUMP, VM_CHOICE, VM_CALL, VM_COMMIT, VM_RETURN,
         VM_FAIL, VM_ANY, VM_PARTIAL_COMMIT, VM_SPAN, VM_BACK_COMMIT, VM_FAIL_TWICE,
         VM_EMPTY, VM_TEST_CHAR, VM_TEST_SET, VM_TEST_CHAR_NOCHOICE,
         VM_TEST_SET_NOCHOICE, VM_TEST_ANY, VM_CAPTURE_BEGIN, VM_CAPTURE_LATE,
         VM_CAPTURE_FULL, VM_CAPTURE_END, VM_MEMO_OPEN, VM_MEMO_CLOSE,
         VM_MEMO_TREE_OPEN, VM_MEMO_TREE_CLOSE, VM_MEMO_TREE_INSERT, VM_MEMO_TREE,
         VM_CHECK_BEGIN, VM_CHECK_END, VM_ERROR, VM_END, Unwind, Consume,
         TestChoice, TestNoChoice, idleVars
<1>2. \/ VM_MEMO_CLOSE \/ VM_MEMO_TREE_INSERT \/ VM_MEMO_TREE \/ Unwind
      \/ table' = table
  BY DEF vm_exec, VM_CHAR, VM_SET, VM_JUMP, VM_CHOICE, VM_CALL, VM_COMMIT, VM_RETURN,
         VM_FAIL, VM_ANY, VM_PARTIAL_COMMIT, VM_SPAN, VM_BACK_COMMIT, VM_FAIL_TWICE,
         VM_EMPTY, VM_TEST_CHAR, VM_TEST_SET, VM_TEST_CHAR_NOCHOICE,
         VM_TEST_SET_NOCHOICE, VM_TEST_ANY, VM_CAPTURE_BEGIN, VM_CAPTURE_LATE,
         VM_CAPTURE_FULL, VM_CAPTURE_END, VM_MEMO_OPEN, VM_MEMO_TREE_OPEN,
         VM_MEMO_TREE_CLOSE, VM_CHECK_BEGIN, VM_CHECK_END, VM_ERROR, VM_END,
         Consume, TestChoice, TestNoChoice
<1>3. mode = "run" => pos <= Len(text) BY Fetched
<1>4. ASSUME VM_MEMO_CLOSE PROVE table' = table \/ Records
  <2>1. mode = "run" BY <1>4 DEF VM_MEMO_CLOSE, Op
  <2>2. CASE ~ TopIs("memo") BY <1>4, <2>2 DEF VM_MEMO_CLOSE
  <2>3. CASE TopIs("memo")
    <3>1. /\ Top.id \in Int /\ Top.pos \in 0 .. Len(text) /\ Top.pos <= pos
          /\ pos - Top.pos \in Nat
      BY <2>1, <2>3, TopIsRecorded DEF TopIs, Recording
    <3>2. table' = memoize(Top.id, Top.pos, pos - Top.pos, 1, Top.capt)
      BY <1>4, <2>3 DEF VM_MEMO_CLOSE
    <3> QED BY <1>3, <2>1, <3>1, <3>2 DEF Records
  <2> QED BY <2>2, <2>3
<1>5. ASSUME VM_MEMO_TREE_INSERT PROVE table' = table \/ Records
  <2>1. mode = "run" BY <1>5 DEF VM_MEMO_TREE_INSERT, Op
  <2>2. CASE ~ TopIs("memotree") BY <1>5, <2>2 DEF VM_MEMO_TREE_INSERT
  <2>3. CASE TopIs("memotree")
    <3>1. /\ Top.id \in Int /\ Top.pos \in 0 .. Len(text) /\ Top.pos <= pos
          /\ pos - Top.pos \in Nat
      BY <2>1, <2>3, TopIsRecorded DEF TopIs, Recording
    <3>2. table' = memoize(Top.id, Top.pos, pos - Top.pos, Top.count + 1, Top.capt)
      BY <1>5, <2>3 DEF VM_MEMO_TREE_INSERT
    <3> QED BY <1>3, <2>1, <3>1, <3>2 DEF Records
  <2> QED BY <2>2, <2>3
<1>6. ASSUME VM_MEMO_TREE PROVE table' = table \/ Records
  <2>1. mode = "run" BY <1>6 DEF VM_MEMO_TREE, Op
  <2>2. table' = table \/ \E d \in Mergeable : Merge(d) BY <1>6 DEF VM_MEMO_TREE
  <2> QED BY <2>1, <2>2, MergeOK
<1>7. ASSUME Unwind PROVE table' = table \/ Records
  <2>1. mode = "fail" BY <1>7 DEF Unwind
  <2>2. \/ table' = table
        \/ TopIs("memo") /\ table' = memoize(Top.id, Top.pos, -1, 0, Top.capt)
    BY <1>7 DEF Unwind
  <2>3. CASE TopIs("memo") /\ table' = memoize(Top.id, Top.pos, -1, 0, Top.capt)
    <3>1. /\ Top.id \in Int /\ Top.pos \in 0 .. Len(text) /\ Top.pos <= pos
      BY <2>1, <2>3, TopIsRecorded DEF TopIs, Recording
    <3>2. -1 \in Int OBVIOUS
    <3> QED BY <2>3, <3>1, <3>2 DEF Records
  <2> QED BY <2>2, <2>3
<1> QED BY <1>1, <1>2, <1>4, <1>5, <1>6, <1>7

(* A recorded result is one that Peg allows.                               *)
LEMMA RecordsAllowed ==
    ASSUME MInv, Records, text' = text
    PROVE  [Recorded!Next]_Recorded!vars
<1>1. PICK id \in Int, start \in 0 .. Len(text), length \in Int : \E count, capts :
        /\ start <= pos /\ (length = -1 \/ (length = pos - start /\ pos <= Len(text)))
        /\ length = -1 => TopIs("memo") /\ id = Top.id
        /\ table' = memoize(id, start, length, count, capts)
  BY DEF Records
<1>2. PICK count, capts :
        /\ start <= pos /\ (length = -1 \/ (length = pos - start /\ pos <= Len(text)))
        /\ length = -1 => TopIs("memo") /\ id = Top.id
        /\ table' = memoize(id, start, length, count, capts)
  BY <1>1
<1> DEFINE last == IF furthest > pos THEN furthest ELSE pos
           n == last - start + 1
           res == [count |-> count, capt |-> Relocated(capts, -start)]
<1>3. Len(text) \in Nat /\ pos \in Nat /\ furthest \in Nat
  BY DEF MInv, Subject, Control
<1>4. /\ start \in Nat /\ start <= Len(text) /\ length \in Nat \union {-1}
      /\ length <= Len(text) - start /\ n \in Nat \ {0}
  BY <1>2, <1>3
<1>5. CASE windowed
  <2>1. table' = table BY <1>2, <1>5 DEF memoize
  <2> QED BY <2>1 DEF Recorded!vars
<1>6. CASE ~ windowed
  <2>1. table' = memo_table_put(table, text, id, start, length, n, res)
    BY <1>2, <1>6 DEF memoize
  <2> HIDE DEF n, res
  <2>2. AllYielding(table', NoResult)
          = memo_table_put(AllYielding(table, NoResult), text, id, start, length, n, NoResult)
    BY <2>1, PutYielding
  <2>3. Recorded!memoize(id, start, length, n, NoResult)
    BY <1>4, <2>2, SameOperators DEF Recorded!memoize
  <2>4. Recorded!Next BY <1>4, <2>3 DEF Recorded!Next
  <2> QED BY <2>4
<1> QED BY <1>5, <1>6

(* So is what the operations of peg.c do.                                  *)
LEMMA CallsAllowed ==
    ASSUME MInv, Calls
    PROVE  [Recorded!Next]_Recorded!vars
<1>0. Subject /\ gi \in DOMAIN Given /\ AreEntries(Bytes, table)
  BY DEF MInv, Subject, Table, EntryGood, AreEntries
<1>a. ASSUME NEW start, NEW end, NEW len
      PROVE  AllYielding(memo_table_apply_edit(table, start, end, len), NoResult)
               = memo_table_apply_edit(AllYielding(table, NoResult), start, end, len)
  BY <1>0, EditYielding
<1>1. ASSUME NEW data \in Grammar.subjects, peg_parse(data)
      PROVE  [Recorded!Next]_Recorded!vars
  <2>1. data \in Texts BY <1>0 DEF Grammar, Texts
  <2>2. text' = data /\ AllYielding(table', NoResult) = {}
    BY <1>1 DEF peg_parse, AllYielding
  <2> QED BY <2>1, <2>2 DEF Recorded!Next, Recorded!peg_parse
<1>2. ASSUME NEW e \in Grammar.edits, peg_edit(e)
      PROVE  [Recorded!Next]_Recorded!vars
  <2>1. e.start \in Nat /\ e.end \in Nat BY <1>0, ClientsPass
  <2>2. e.new \in Texts BY <1>0 DEF Grammar, Texts
  <2>3. AllYielding(table', NoResult)
          = memo_table_apply_edit(AllYielding(table, NoResult), e.start, e.end, Len(e.new))
    BY <1>2, <1>a DEF peg_edit
  <2>4. Recorded!peg_edit(e.start, e.end, e.new)
    BY <1>2, <2>3, SameOperators DEF peg_edit, Recorded!peg_edit
  <2> QED BY <2>1, <2>2, <2>4 DEF Recorded!Next
<1>3. ASSUME peg_reparse PROVE [Recorded!Next]_Recorded!vars
  BY <1>3 DEF peg_reparse, Recorded!vars
<1>4. ASSUME NEW w \in Grammar.windows, peg_capture_interval(w)
      PROVE  [Recorded!Next]_Recorded!vars
  <2>1. w.low \in Nat /\ w.high \in Nat BY <1>0, ClientsPass
  <2>2. AllYielding(table', NoResult)
          = IF w.high > w.low
              THEN memo_table_apply_edit(AllYielding(table, NoResult),
                                         w.low, w.high, w.high - w.low)
              ELSE AllYielding(table, NoResult)
    BY <1>4, <1>a DEF peg_capture_interval
  <2>3. Recorded!peg_capture_interval(w.low, w.high)
    BY <1>4, <2>2, SameOperators DEF peg_capture_interval, Recorded!peg_capture_interval
  <2> QED BY <2>1, <2>3 DEF Recorded!Next
<1> QED BY <1>1, <1>2, <1>3, <1>4 DEF Calls

(* Every step of a parser is a step that Peg allows, or one that it does   *)
(* not see: whatever PegProofs says of the table in every behaviour of Peg *)
(* is true of the table while vm.c executes any sound program and clients  *)
(* edit the subject.                                                       *)
THEOREM MachineImplementsPeg == MachineSpec => Recorded!Spec
<1>1. Init => Recorded!Init BY DEF Init, Recorded!Init, AllYielding
<1>2. MInv /\ [LoadSound \/ Calls \/ vm_exec]_vars => [Recorded!Next]_Recorded!vars
  <2> SUFFICES ASSUME MInv, [LoadSound \/ Calls \/ vm_exec]_vars
               PROVE  [Recorded!Next]_Recorded!vars
    OBVIOUS
  <2>1. CASE UNCHANGED vars \/ LoadSound
    <3>1. UNCHANGED <<text, table>> BY <2>1 DEF vars, LoadSound, Load
    <3> QED BY <3>1 DEF Recorded!vars
  <2>2. CASE Calls BY <2>2, CallsAllowed
  <2>3. CASE vm_exec
    <3>1. text' = text /\ (table' = table \/ Records) BY <2>3, ExecRecords
    <3>2. CASE table' = table BY <3>1, <3>2 DEF Recorded!vars
    <3>3. CASE Records BY <3>1, <3>3, RecordsAllowed
    <3> QED BY <3>1, <3>2, <3>3
  <2> QED BY <2>1, <2>2, <2>3
<1> QED BY <1>1, <1>2, MachineInvariance, PTL DEF MachineSpec, Recorded!Spec
=============================================================================
