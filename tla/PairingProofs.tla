---------------------------- MODULE PairingProofs ----------------------------
(***************************************************************************)
(* Proof that vm_exec reaches none of its abort_msg calls, for every       *)
(* program that is sound and paired.                                       *)
(*                                                                         *)
(* The contexts of Pairing are about addresses; the stack is about one     *)
(* run.  The invariant gives every entry of the stack the context it made, *)
(* and says that the address an entry remembers expects the context below  *)
(* it: so whatever is popped, in an orderly way or by unwinding, the       *)
(* machine continues at an address that expects the stack it finds.        *)
(***************************************************************************)
EXTENDS Pairing, MachineProofs

(* The machine with paired programs.                                       *)
LoadPaired == LoadSound /\ (code' # NoProgram => \E R : Paired(code'.prog, R))
PairedSpec == Init /\ [][LoadPaired \/ Calls \/ vm_exec]_vars

---------------------------------------------------------------------------
(* Stacks and contexts.                                                    *)

Kinds == {"ret", "btrack", "capt", "check", "memo", "memotree"}

(* The entry e, pushed in context c, makes it d.                           *)
Linked(R, c, e, d) ==
    /\ e.kind \in Kinds
    /\ e.kind = "ret" => d = Called /\ <<e.ip, c>> \in R
    /\ e.kind = "btrack" => d = On(c, "btrack", 0) /\ <<e.ip, c>> \in R
    /\ e.kind \in {"capt", "check", "memo"} => d = On(c, e.kind, 0)
    /\ e.kind = "memotree" => d = Treed(c, e.id) /\ d[3] = e.id

(* w[i] is the context that entry i of the stack makes.  That neighbouring *)
(* tree entries share one is said of whole runs of them, for the merges.   *)
Shape(R, st, w) ==
    /\ w[1] = Bottom
    /\ \A i \in 2 .. Len(st) : Linked(R, w[i - 1], st[i], w[i])
    /\ \A i, j \in 1 .. Len(st) :
         i <= j /\ (\A m \in i .. j : st[m].kind = "memotree") => w[i] = w[j]

(* The stack is one on which context c can be expected.                    *)
Fits(R, st, c) == \E w : Shape(R, st, w) /\ w[Len(st)] = c

(* The next instruction expects the stack, and so does whatever the        *)
(* unwinding ends at.                                                      *)
AsExpected(R) ==
    /\ mode = "run" => \E c : <<ip, c>> \in R /\ Fits(R, stack, c)
    /\ mode = "fail" => \E c : Fits(R, stack, c)

PInv ==
    /\ MInv /\ NeverAborts
    /\ mode \in {"idle", "run", "fail"} => \E R : Paired(code.prog, R) /\ AsExpected(R)

---------------------------------------------------------------------------

(* The parts of a context.                                                 *)
LEMMA OnParts ==
    ASSUME NEW c, NEW kind, NEW id
    PROVE  /\ On(c, kind, id) # Bottom
           /\ On(c, kind, id)[1] = c /\ On(c, kind, id)[2] = kind /\ On(c, kind, id)[3] = id
BY DEF On, Bottom

(* The kind of the top entry can be read off its context.                  *)
LEMMA LinkTops ==
    ASSUME NEW R, NEW c, NEW e, NEW d, Linked(R, c, e, d)
    PROVE  /\ d # Bottom /\ d[2] = e.kind
           /\ e.kind \in {"btrack", "capt", "check", "memo"} => d[1] = c
           /\ e.kind = "memotree" => (Tops(c, "memotree") /\ d = c) \/ d[1] = c
<1>1. CASE e.kind = "ret" BY <1>1, OnParts DEF Linked, Called
<1>2. CASE e.kind = "btrack" BY <1>2, OnParts DEF Linked
<1>3. CASE e.kind \in {"capt", "check", "memo"} BY <1>3, OnParts DEF Linked
<1>4. CASE e.kind = "memotree"
  <2>1. d = Treed(c, e.id) BY <1>4 DEF Linked
  <2>2. CASE Tops(c, "memotree") BY <1>4, <2>1, <2>2 DEF Treed, Tops
  <2>3. CASE ~ Tops(c, "memotree") BY <1>4, <2>1, <2>3, OnParts DEF Treed
  <2> QED BY <2>2, <2>3
<1> QED BY <1>1, <1>2, <1>3, <1>4 DEF Linked, Kinds

(* What is left of a stack keeps its contexts.                             *)
LEMMA KeptShape ==
    ASSUME NEW R, NEW st, Len(st) \in Nat, NEW w, Shape(R, st, w),
           NEW m, NEW new, Kept(st, m, new)
    PROVE  Shape(R, new, w) /\ Fits(R, new, w[m])
<1>1. /\ m \in 1 .. Len(st) /\ Len(new) = m
      /\ \A i \in 1 .. m : SameRole(st[i], new[i])
  BY DEF Kept
<1>2. /\ \A i \in 2 .. m : i \in 2 .. Len(st) /\ i \in 1 .. m
      /\ \A i \in 1 .. m : i \in 1 .. Len(st)
  BY <1>1
<1>3. ASSUME NEW i \in 2 .. m PROVE Linked(R, w[i - 1], new[i], w[i])
  <2>1. Linked(R, w[i - 1], st[i], w[i]) BY <1>2 DEF Shape
  <2>2. SameRole(st[i], new[i]) BY <1>1, <1>2
  <2> QED BY <2>1, <2>2 DEF Linked, SameRole
<1>4. ASSUME NEW i \in 1 .. m, NEW j \in 1 .. m, i <= j,
             \A x \in i .. j : new[x].kind = "memotree"
      PROVE  w[i] = w[j]
  <2>1. \A x \in i .. j : x \in 1 .. m BY <1>1, <1>2
  <2>2. \A x \in i .. j : st[x].kind = "memotree" BY <1>1, <1>4, <2>1 DEF SameRole
  <2> QED BY <1>2, <1>4, <2>2 DEF Shape
<1>5. Shape(R, new, w) BY <1>1, <1>3, <1>4 DEF Shape
<1> QED BY <1>1, <1>5 DEF Fits

(* A push.                                                                 *)
LEMMA PushShape ==
    ASSUME NEW R, NEW st, st \in Seq(Range(st)), Len(st) >= 1, NEW w, Shape(R, st, w),
           NEW e, NEW d, Linked(R, w[Len(st)], e, d), st[1].kind # "memotree"
    PROVE  Fits(R, Append(st, e), d)
<1> DEFINE k == Len(st)
           m == k + 1
           new == Append(st, e)
           v == [i \in 1 .. m |-> IF i = m THEN d ELSE w[i]]
<1>1. k \in Nat /\ k >= 1 OBVIOUS
<1>2. Len(new) = m /\ new[m] = e /\ \A i \in 1 .. k : new[i] = st[i]
  <2> DEFINE S == Range(st) \union {e}
  <2>1. st \in Seq(S) OBVIOUS
  <2>2. e \in S OBVIOUS
  <2> HIDE DEF S
  <2> QED BY <2>1, <2>2
<1> HIDE DEF new
<1>3. v[m] = d /\ \A i \in 1 .. k : v[i] = w[i] BY <1>1
<1>4. /\ \A i \in 1 .. m : i # m => i \in 1 .. k
      /\ \A i \in 2 .. m : i # m => i \in 2 .. k /\ i - 1 \in 1 .. k /\ i \in 1 .. k
      /\ k \in 1 .. k /\ m - 1 = k /\ 1 \in 1 .. k /\ m \in 1 .. m
  BY <1>1
<1> HIDE DEF v
<1>5. ASSUME NEW i \in 2 .. m PROVE Linked(R, v[i - 1], new[i], v[i])
  <2>1. CASE i = m BY <1>2, <1>3, <1>4, <2>1 DEF k
  <2>2. CASE i # m
    <3>1. Linked(R, w[i - 1], st[i], w[i]) BY <1>4, <2>2 DEF Shape, k
    <3> QED BY <1>2, <1>3, <1>4, <2>2, <3>1
  <2> QED BY <2>1, <2>2
<1>6. ASSUME NEW i \in 1 .. m, NEW j \in 1 .. m, i <= j,
             \A x \in i .. j : new[x].kind = "memotree"
      PROVE  v[i] = v[j]
  <2>1. CASE i = j BY <2>1
  <2>2. CASE i # j /\ j # m
    <3>1. i # m /\ \A x \in i .. j : x \in 1 .. k BY <1>1, <1>6, <2>2
    <3>2. \A x \in i .. j : st[x].kind = "memotree" BY <1>2, <1>6, <3>1
    <3>3. w[i] = w[j] BY <1>4, <1>6, <2>2, <3>1, <3>2 DEF Shape, k
    <3> QED BY <1>3, <1>4, <2>2, <3>1, <3>3
  <2>3. CASE i # j /\ j = m
    <3>1. i \in 1 .. k /\ i <= k /\ k \in i .. j /\ m \in i .. j
          /\ \A x \in i .. k : x \in i .. j /\ x \in 1 .. k
      BY <1>1, <1>6, <2>3
    <3>2. \A x \in i .. k : st[x].kind = "memotree" BY <1>2, <1>6, <3>1
    <3>3. w[i] = w[k] BY <1>4, <3>1, <3>2 DEF Shape, k
    <3>4. st[k].kind = "memotree" /\ e.kind = "memotree" BY <1>2, <1>4, <1>6, <3>1
    <3>5. k \in 2 .. k BY <1>1, <3>4
    <3>6. Linked(R, w[k - 1], st[k], w[k]) BY <3>5 DEF Shape, k
    <3>7. Tops(w[k], "memotree") BY <3>4, <3>6, LinkTops DEF Tops
    <3>8. d = w[k] BY <3>4, <3>7 DEF Linked, Treed, k
    <3> QED BY <1>3, <2>3, <3>1, <3>3, <3>8
  <2> QED BY <2>1, <2>2, <2>3
<1>7. v[1] = Bottom BY <1>3, <1>4 DEF Shape
<1> HIDE DEF m, k
<1>8. Shape(R, new, v) BY <1>2, <1>5, <1>6, <1>7 DEF Shape
<1> QED BY <1>2, <1>3, <1>8 DEF Fits, new

---------------------------------------------------------------------------
(* The rules of Leads, one by one.                                         *)
LEMMA LeadsOn ==
    ASSUME NEW in, NEW i, NEW c,
           in.op \in {"CHAR", "SET", "ANY", "SPAN", "EMPTY", "ERROR", "CAPTURE_FULL",
                      "MEMO_TREE", "MEMO_TREE_INSERT"}
    PROVE  <<i + 1, c>> \in Leads(in, i, c)
BY DEF Leads

LEMMA LeadsAside ==
    ASSUME NEW in, NEW i, NEW c
    PROVE  /\ in.op \in {"CHOICE", "TEST_CHAR", "TEST_SET", "TEST_ANY"} =>
                /\ <<i + 1, On(c, "btrack", 0)>> \in Leads(in, i, c)
                /\ <<in.a, c>> \in Leads(in, i, c)
           /\ in.op \in {"TEST_CHAR_NOCHOICE", "TEST_SET_NOCHOICE"} =>
                <<i + 1, c>> \in Leads(in, i, c) /\ <<in.a, c>> \in Leads(in, i, c)
           /\ in.op \in {"JUMP", "PARTIAL_COMMIT"} => <<in.a, c>> \in Leads(in, i, c)
           /\ in.op = "CALL" =>
                <<in.a, Called>> \in Leads(in, i, c) /\ <<i + 1, c>> \in Leads(in, i, c)
BY DEF Leads

LEMMA LeadsDown ==
    ASSUME NEW in, NEW i, NEW c
    PROVE  /\ in.op \in {"COMMIT", "BACK_COMMIT"} => <<in.a, c[1]>> \in Leads(in, i, c)
           /\ in.op \in {"CAPTURE_END", "CHECK_END", "MEMO_CLOSE"} =>
                <<i + 1, c[1]>> \in Leads(in, i, c)
           /\ in.op = "MEMO_TREE_CLOSE" =>
                IF Tops(c, "memotree") /\ c[3] = in.a
                  THEN <<i, c[1]>> \in Leads(in, i, c) ELSE <<i + 1, c>> \in Leads(in, i, c)
BY DEF Leads

LEMMA LeadsUp ==
    ASSUME NEW in, NEW i, NEW c
    PROVE  /\ in.op \in {"CAPTURE_BEGIN", "CAPTURE_LATE"} =>
                <<i + 1, On(c, "capt", 0)>> \in Leads(in, i, c)
           /\ in.op = "CHECK_BEGIN" => <<i + 1, On(c, "check", 0)>> \in Leads(in, i, c)
           /\ in.op = "MEMO_OPEN" =>
                /\ <<i + 1, On(c, "memo", 0)>> \in Leads(in, i, c)
                /\ <<in.a, c>> \in Leads(in, i, c)
           /\ in.op = "MEMO_TREE_OPEN" =>
                /\ <<i + 1, Treed(c, in.b)>> \in Leads(in, i, c)
                /\ <<in.a, Treed(c, in.b)>> \in Leads(in, i, c)
BY DEF Leads

---------------------------------------------------------------------------
(* One instruction.                                                        *)

(* The machine runs a paired program and w says how the stack fits it.     *)
Running(R, w) ==
    /\ mode = "run" /\ Paired(code.prog, R)
    /\ <<ip, w[Len(stack)]>> \in R /\ Shape(R, stack, w)

LEMMA Facts ==
    ASSUME MInv, NEW R, NEW w, Running(R, w)
    PROVE  LET k == Len(stack)
               c == w[Len(stack)]
           IN  /\ k \in Nat /\ k >= 1 /\ k \in 1 .. k
               /\ stack \in Seq(Range(stack)) /\ stack[1].kind = "base" /\ Top = stack[k]
               /\ k = 1 <=> TopIs("base")
               /\ Ready(In, c) /\ Leads(In, ip, c) \subseteq R
               /\ Fits(R, stack, c)
               /\ k # 1 => Linked(R, w[k - 1], Top, c)
               /\ \A kind : Tops(c, kind) => TopIs(kind) /\ k # 1
<1> DEFINE k == Len(stack)
           c == w[k]
<1>1. StackOK(Len(code.prog), Len(text), pos, stack) BY Fetched DEF Running
<1>2. /\ k \in Nat /\ k >= 1 /\ k \in 1 .. k /\ Top = stack[k]
      /\ stack \in Seq(Range(stack)) /\ stack[1].kind = "base"
      /\ k = 1 <=> TopIs("base")
  <2>1. /\ k \in Nat /\ k >= 1 /\ DOMAIN stack = 1 .. k /\ Top = stack[k]
        /\ k = 1 <=> TopIs("base")
    BY <1>1, StackShape DEF Top, TopIs
  <2>2. 1 \in DOMAIN stack /\ k \in 1 .. k BY <2>1
  <2> QED BY <1>1, <2>1, <2>2 DEF StackOK
<1>3. Ready(In, c) /\ Leads(In, ip, c) \subseteq R BY DEF Running, Paired, In
<1>4. Fits(R, stack, c) BY DEF Running, Fits
<1>5. k # 1 => Linked(R, w[k - 1], Top, c)
  <2>1. k # 1 => k \in 2 .. k
    <3>1. k \in Nat /\ k >= 1 BY <1>2
    <3> HIDE DEF k
    <3> QED BY <3>1
  <2> QED BY <1>2, <2>1 DEF Running, Shape
<1>6. ASSUME NEW kind, Tops(c, kind) PROVE TopIs(kind) /\ k # 1
  <2>1. k # 1 BY <1>6 DEF Tops, Running, Shape
  <2> HIDE DEF k, c
  <2> QED BY <1>5, <1>6, <2>1, LinkTops DEF Tops, TopIs
<1> QED BY <1>2, <1>3, <1>4, <1>5, <1>6

(* What an instruction has to leave behind.                                *)
LEMMA GoesOn ==
    ASSUME NEW R, NEW d, mode' = "run", <<ip', d>> \in R, Fits(R, stack', d)
    PROVE  NeverAborts' /\ AsExpected(R)'
BY DEF NeverAborts, AsExpected

LEMMA Fails ==
    ASSUME NEW R, NEW d, mode' = "fail", Fits(R, stack', d)
    PROVE  NeverAborts' /\ AsExpected(R)'
BY DEF NeverAborts, AsExpected

(* The instructions that read, test or jump.                               *)
LEMMA ReadsFit ==
    ASSUME MInv, NEW R, NEW w, Running(R, w),
           \/ VM_CHAR \/ VM_SET \/ VM_JUMP \/ VM_FAIL \/ VM_ANY \/ VM_SPAN \/ VM_EMPTY
           \/ VM_TEST_CHAR_NOCHOICE \/ VM_TEST_SET_NOCHOICE \/ VM_ERROR
    PROVE  NeverAborts' /\ AsExpected(R)'
<1> DEFINE c == w[Len(stack)]
<1>1. Leads(In, ip, c) \subseteq R /\ Fits(R, stack, c) /\ mode = "run"
  BY Facts DEF Running
<1> HIDE DEF c
<1>2. stack' = stack
  BY DEF VM_CHAR, VM_SET, VM_JUMP, VM_FAIL, VM_ANY, VM_SPAN, VM_EMPTY, VM_ERROR,
         VM_TEST_CHAR_NOCHOICE, VM_TEST_SET_NOCHOICE, Consume, TestNoChoice
<1>3. \/ mode' = "fail"
      \/ /\ mode' = "run" /\ ip' = ip + 1
         /\ In.op \in {"CHAR", "SET", "ANY", "SPAN", "EMPTY", "ERROR",
                       "TEST_CHAR_NOCHOICE", "TEST_SET_NOCHOICE"}
      \/ /\ mode' = "run" /\ ip' = In.a
         /\ In.op \in {"JUMP", "TEST_CHAR_NOCHOICE", "TEST_SET_NOCHOICE"}
  BY <1>1 DEF VM_CHAR, VM_SET, VM_JUMP, VM_FAIL, VM_ANY, VM_SPAN, VM_EMPTY, VM_ERROR,
         VM_TEST_CHAR_NOCHOICE, VM_TEST_SET_NOCHOICE, Consume, TestNoChoice,
         Op, Step, Goto, Fail
<1>4. mode' = "fail" \/ (mode' = "run" /\ <<ip', c>> \in R)
  <2>1. CASE mode' = "fail" BY <2>1
  <2>2. CASE /\ mode' = "run" /\ ip' = ip + 1
             /\ In.op \in {"CHAR", "SET", "ANY", "SPAN", "EMPTY", "ERROR"}
    <3>1. <<ip + 1, c>> \in Leads(In, ip, c) BY <2>2, LeadsOn
    <3> QED BY <1>1, <2>2, <3>1
  <2>3. CASE /\ mode' = "run" /\ ip' = ip + 1
             /\ In.op \in {"TEST_CHAR_NOCHOICE", "TEST_SET_NOCHOICE"}
    <3>1. <<ip + 1, c>> \in Leads(In, ip, c) BY <2>3, LeadsAside
    <3> QED BY <1>1, <2>3, <3>1
  <2>4. CASE /\ mode' = "run" /\ ip' = In.a
             /\ In.op \in {"JUMP", "TEST_CHAR_NOCHOICE", "TEST_SET_NOCHOICE"}
    <3>1. <<In.a, c>> \in Leads(In, ip, c) BY <2>4, LeadsAside
    <3> QED BY <1>1, <2>4, <3>1
  <2> QED BY <1>3, <2>1, <2>2, <2>3, <2>4
<1> QED BY <1>1, <1>2, <1>4, GoesOn, Fails

(* The instructions that push.                                             *)
LEMMA PushesFit ==
    ASSUME MInv, NEW R, NEW w, Running(R, w),
           \/ VM_CHOICE \/ VM_CALL \/ VM_TEST_CHAR \/ VM_TEST_SET \/ VM_TEST_ANY
           \/ VM_CAPTURE_BEGIN \/ VM_CAPTURE_LATE \/ VM_CHECK_BEGIN
    PROVE  NeverAborts' /\ AsExpected(R)'
<1> DEFINE c == w[Len(stack)]
<1>1. /\ Leads(In, ip, c) \subseteq R /\ Fits(R, stack, c) /\ mode = "run"
      /\ stack \in Seq(Range(stack)) /\ Len(stack) >= 1 /\ stack[1].kind # "memotree"
      /\ Shape(R, stack, w)
  BY Facts DEF Running
<1>2. ASSUME NEW kind, NEW to, NEW at, NEW id, NEW count, NEW d,
             Linked(R, c, StackEntry(kind, to, at, id, count), d),
             stack' = Append(stack, StackEntry(kind, to, at, id, count))
      PROVE  Fits(R, stack', d)
  <2> DEFINE e == StackEntry(kind, to, at, id, count)
  <2>1. Linked(R, w[Len(stack)], e, d) /\ stack' = Append(stack, e) BY <1>2
  <2> HIDE DEF e
  <2> QED BY <1>1, <2>1, PushShape
<1> HIDE DEF c
<1>3. ASSUME VM_CHOICE \/ VM_TEST_CHAR \/ VM_TEST_SET \/ VM_TEST_ANY
      PROVE  NeverAborts' /\ AsExpected(R)'
  <2>1. In.op \in {"CHOICE", "TEST_CHAR", "TEST_SET", "TEST_ANY"}
    BY <1>3 DEF VM_CHOICE, VM_TEST_CHAR, VM_TEST_SET, VM_TEST_ANY, Op
  <2>2. <<ip + 1, On(c, "btrack", 0)>> \in R /\ <<In.a, c>> \in R BY <1>1, <2>1, LeadsAside
  <2>3. \/ mode' = "run" /\ ip' = In.a /\ stack' = stack
        \/ mode' = "run" /\ ip' = ip + 1 /\ stack' = push_btrack(In.a, pos)
    BY <1>1, <1>3
       DEF VM_CHOICE, VM_TEST_CHAR, VM_TEST_SET, VM_TEST_ANY, TestChoice, Step, Goto
  <2>4. Linked(R, c, StackEntry("btrack", In.a, pos, 0, 0), On(c, "btrack", 0))
    BY <2>2 DEF Linked, StackEntry, Kinds
  <2>5. CASE stack' = push_btrack(In.a, pos) /\ mode' = "run" /\ ip' = ip + 1
    <3>1. Fits(R, stack', On(c, "btrack", 0)) BY <1>2, <2>4, <2>5 DEF push_btrack
    <3> QED BY <2>2, <2>5, <3>1, GoesOn
  <2>6. CASE stack' = stack /\ mode' = "run" /\ ip' = In.a
    BY <1>1, <2>2, <2>6, GoesOn
  <2> QED BY <2>3, <2>5, <2>6
<1>4. ASSUME VM_CALL PROVE NeverAborts' /\ AsExpected(R)'
  <2>1. /\ In.op = "CALL" /\ mode' = "run" /\ ip' = In.a
        /\ stack' = Append(stack, StackEntry("ret", ip + 1, 0, 0, 0))
    BY <1>1, <1>4 DEF VM_CALL, Op, Goto, push_ret
  <2>2. <<ip + 1, c>> \in R /\ <<In.a, Called>> \in R BY <1>1, <2>1, LeadsAside
  <2>3. Linked(R, c, StackEntry("ret", ip + 1, 0, 0, 0), Called)
    BY <2>2 DEF Linked, StackEntry, Kinds
  <2>4. Fits(R, stack', Called) BY <1>2, <2>1, <2>3
  <2> QED BY <2>1, <2>2, <2>4, GoesOn
<1>5. ASSUME VM_CAPTURE_BEGIN \/ VM_CAPTURE_LATE PROVE NeverAborts' /\ AsExpected(R)'
  <2>1. /\ In.op \in {"CAPTURE_BEGIN", "CAPTURE_LATE"} /\ mode' = "run" /\ ip' = ip + 1
        /\ \E at : stack' = Append(stack, StackEntry("capt", 0, at, In.a, 0))
    BY <1>1, <1>5 DEF VM_CAPTURE_BEGIN, VM_CAPTURE_LATE, Op, Step, Goto, push_capt
  <2>2. <<ip + 1, On(c, "capt", 0)>> \in R BY <1>1, <2>1, LeadsUp
  <2>3. \A at : Linked(R, c, StackEntry("capt", 0, at, In.a, 0), On(c, "capt", 0))
    BY DEF Linked, StackEntry, Kinds
  <2>4. Fits(R, stack', On(c, "capt", 0)) BY <1>2, <2>1, <2>3
  <2> QED BY <2>1, <2>2, <2>4, GoesOn
<1>6. ASSUME VM_CHECK_BEGIN PROVE NeverAborts' /\ AsExpected(R)'
  <2>1. /\ In.op = "CHECK_BEGIN" /\ mode' = "run" /\ ip' = ip + 1
        /\ stack' = Append(stack, StackEntry("check", 0, pos, In.a, In.b))
    BY <1>1, <1>6 DEF VM_CHECK_BEGIN, Op, Step, Goto, push_check
  <2>2. <<ip + 1, On(c, "check", 0)>> \in R BY <1>1, <2>1, LeadsUp
  <2>3. Linked(R, c, StackEntry("check", 0, pos, In.a, In.b), On(c, "check", 0))
    BY DEF Linked, StackEntry, Kinds
  <2>4. Fits(R, stack', On(c, "check", 0)) BY <1>2, <2>1, <2>3
  <2> QED BY <2>1, <2>2, <2>4, GoesOn
<1> QED BY <1>3, <1>4, <1>5, <1>6

(* What is left of the stack when the top goes.                            *)
LEMMA Popped ==
    ASSUME MInv, NEW R, NEW w, Running(R, w), ~ TopIs("base")
    PROVE  LET b == w[Len(stack) - 1]
           IN  /\ Linked(R, b, Top, w[Len(stack)])
               /\ Fits(R, stack_pop(stack, TRUE), b) /\ Fits(R, stack_pop(stack, FALSE), b)
               /\ \A x : Fits(R, stack_add_capt(stack_pop(stack, FALSE), x), b)
<1> DEFINE m == Len(stack) - 1
           N == Len(code.prog)
           low == stack_pop(stack, FALSE)
<1>1. /\ Len(stack) \in Nat /\ Linked(R, w[m], Top, w[Len(stack)]) /\ Shape(R, stack, w)
      /\ StackOK(N, Len(text), pos, stack)
  BY Facts, Fetched DEF Running
<1>2. /\ Kept(stack, m, stack_pop(stack, TRUE)) /\ Kept(stack, m, low)
      /\ StackOK(N, Len(text), pos, low)
  BY <1>1, PopOK DEF TopIs, Top
<1> HIDE DEF m, low
<1>3. Fits(R, stack_pop(stack, TRUE), w[m]) /\ Fits(R, low, w[m]) BY <1>1, <1>2, KeptShape
<1>4. ASSUME NEW x PROVE Fits(R, stack_add_capt(low, x), w[m])
  <2>1. Kept(low, Len(low), stack_add_capt(low, x)) BY <1>2, AddCaptOK
  <2>2. Len(low) = m BY <1>2 DEF Kept
  <2>3. Kept(stack, m, stack_add_capt(low, x)) BY <1>1, <1>2, <2>1, <2>2, KeptTwice
  <2> QED BY <1>1, <2>3, KeptShape
<1> QED BY <1>1, <1>3, <1>4 DEF m, low

(* The instructions that pop, or change what the top has collected.        *)
LEMMA PopsFit ==
    ASSUME MInv, NEW R, NEW w, Running(R, w),
           \/ VM_COMMIT \/ VM_RETURN \/ VM_PARTIAL_COMMIT \/ VM_BACK_COMMIT
           \/ VM_FAIL_TWICE \/ VM_CAPTURE_FULL \/ VM_CAPTURE_END
           \/ VM_MEMO_TREE_CLOSE \/ VM_CHECK_END \/ VM_MEMO_CLOSE
    PROVE  NeverAborts' /\ AsExpected(R)'
<1> DEFINE c == w[Len(stack)]
           b == w[Len(stack) - 1]
           N == Len(code.prog)
<1>1. /\ Leads(In, ip, c) \subseteq R /\ Ready(In, c) /\ Fits(R, stack, c) /\ mode = "run"
      /\ Shape(R, stack, w) /\ Len(stack) \in Nat /\ <<ip, c>> \in R
      /\ \A kind : Tops(c, kind) => TopIs(kind)
      /\ StackOK(N, Len(text), pos, stack) /\ pos \in 0 .. Len(text) /\ Len(text) \in Nat
  <2>1. pos \in Nat /\ pos <= Len(text) /\ Len(text) \in Nat BY Fetched DEF Running
  <2>2. pos \in 0 .. Len(text) BY <2>1
  <2> QED BY <2>1, <2>2, Facts, Fetched DEF Running
<1>2. ASSUME NEW new, Kept(stack, Len(stack), new) PROVE Fits(R, new, c)
  BY <1>1, <1>2, KeptShape
<1>3. ~ TopIs("base") =>
        /\ Linked(R, b, Top, c)
        /\ Fits(R, stack_pop(stack, TRUE), b) /\ Fits(R, stack_pop(stack, FALSE), b)
        /\ \A x : Fits(R, stack_add_capt(stack_pop(stack, FALSE), x), b)
  BY Popped
<1> HIDE DEF c, b, N
<1>4. ASSUME NEW kind \in {"btrack", "capt", "check", "memo"}, TopIs(kind)
      PROVE  c[1] = b /\ ~ TopIs("base")
  <2>1. Top.kind = kind /\ ~ TopIs("base") BY <1>4 DEF TopIs
  <2> QED BY <1>3, <2>1, LinkTops
<1>5. ASSUME VM_COMMIT \/ VM_BACK_COMMIT PROVE NeverAborts' /\ AsExpected(R)'
  <2>1. In.op \in {"COMMIT", "BACK_COMMIT"} BY <1>5 DEF VM_COMMIT, VM_BACK_COMMIT, Op
  <2>2. TopIs("btrack") BY <1>1, <2>1 DEF Ready
  <2>3. c[1] = b /\ ~ TopIs("base") BY <1>4, <2>2
  <2>4. stack' = stack_pop(stack, TRUE) /\ mode' = "run" /\ ip' = In.a
    BY <1>1, <1>5, <2>2, <2>3 DEF VM_COMMIT, VM_BACK_COMMIT, Goto
  <2>5. <<In.a, b>> \in R BY <1>1, <2>1, <2>3, LeadsDown
  <2> QED BY <1>3, <2>3, <2>4, <2>5, GoesOn
<1>6. ASSUME VM_RETURN PROVE NeverAborts' /\ AsExpected(R)'
  <2>1. TopIs("ret")  BY <1>1, <1>6 DEF VM_RETURN, Op, Ready
  <2>2. stack' = stack_pop(stack, TRUE) /\ mode' = "run" /\ ip' = Top.ip
    BY <1>1, <1>6, <2>1 DEF VM_RETURN, Goto
  <2>3. ~ TopIs("base") /\ Top.kind = "ret" BY <2>1 DEF TopIs
  <2>4. <<Top.ip, b>> \in R BY <1>3, <2>3 DEF Linked
  <2> QED BY <1>3, <2>2, <2>3, <2>4, GoesOn
<1>7. ASSUME VM_PARTIAL_COMMIT PROVE NeverAborts' /\ AsExpected(R)'
  <2> DEFINE moved == [stack EXCEPT ![Len(stack)].pos = pos]
  <2>1. In.op = "PARTIAL_COMMIT" BY <1>7 DEF VM_PARTIAL_COMMIT, Op
  <2>2. TopIs("btrack") BY <1>1, <2>1 DEF Ready
  <2>3. stack' = stack_prop_capt(moved) /\ mode' = "run" /\ ip' = In.a
    BY <1>1, <1>7, <2>2 DEF VM_PARTIAL_COMMIT, Goto
  <2>4. /\ StackOK(N, Len(text), pos, moved) /\ Last(moved).kind = "btrack"
        /\ Kept(stack, Len(stack), moved)
    BY <1>1, <2>2, MoveOK DEF TopIs, Top
  <2> HIDE DEF moved
  <2>5. Kept(moved, Len(moved), stack') BY <2>3, <2>4, PropOK
  <2>6. Kept(stack, Len(stack), stack') BY <1>1, <2>4, <2>5, KeptTwice DEF Kept
  <2>7. <<In.a, c>> \in R BY <1>1, <2>1, LeadsAside
  <2> QED BY <1>2, <2>3, <2>6, <2>7, GoesOn
<1>8. ASSUME VM_FAIL_TWICE PROVE NeverAborts' /\ AsExpected(R)'
  <2>1. /\ mode' = "fail"
        /\ stack' = IF TopIs("base") THEN stack ELSE stack_pop(stack, FALSE)
    BY <1>8 DEF VM_FAIL_TWICE, Fail
  <2> QED BY <1>1, <1>3, <2>1, Fails
<1>9. ASSUME VM_CAPTURE_FULL PROVE NeverAborts' /\ AsExpected(R)'
  <2>1. /\ In.op = "CAPTURE_FULL" /\ mode' = "run" /\ ip' = ip + 1
        /\ stack' = stack \/ \E x : stack' = stack_add_capt(stack, x)
    BY <1>1, <1>9 DEF VM_CAPTURE_FULL, Op, Step, Goto
  <2>2. \A x : Kept(stack, Len(stack), stack_add_capt(stack, x)) BY <1>1, AddCaptOK
  <2>3. Fits(R, stack', c) BY <1>1, <1>2, <2>1, <2>2
  <2>4. <<ip + 1, c>> \in R BY <1>1, <2>1, LeadsOn
  <2> QED BY <2>1, <2>3, <2>4, GoesOn
<1>10. ASSUME VM_CAPTURE_END PROVE NeverAborts' /\ AsExpected(R)'
  <2>1. In.op = "CAPTURE_END" BY <1>10 DEF VM_CAPTURE_END, Op
  <2>2. TopIs("capt") BY <1>1, <2>1 DEF Ready
  <2>3. c[1] = b /\ ~ TopIs("base") BY <1>4, <2>2
  <2>4. /\ mode' = "run" /\ ip' = ip + 1
        /\ \/ stack' = stack_pop(stack, FALSE)
           \/ \E x : stack' = stack_add_capt(stack_pop(stack, FALSE), x)
    BY <1>1, <1>10, <2>2 DEF VM_CAPTURE_END, Step, Goto
  <2>5. Fits(R, stack', b) BY <1>3, <2>3, <2>4
  <2>6. <<ip + 1, b>> \in R BY <1>1, <2>1, <2>3, LeadsDown
  <2> QED BY <2>4, <2>5, <2>6, GoesOn
<1>11. ASSUME VM_MEMO_TREE_CLOSE PROVE NeverAborts' /\ AsExpected(R)'
  <2>1. In.op = "MEMO_TREE_CLOSE" BY <1>11 DEF VM_MEMO_TREE_CLOSE, Op
  <2>2. CASE TopIs("memotree") /\ Top.id = In.a
    <3>1. stack' = stack_pop(stack, TRUE) /\ ip' = ip /\ mode' = "run"
      BY <1>1, <1>11, <2>2 DEF VM_MEMO_TREE_CLOSE
    <3>2. ~ TopIs("base") /\ Top.kind = "memotree" BY <2>2 DEF TopIs
    <3>3. Linked(R, b, Top, c) BY <1>3, <3>2
    <3>4. Tops(c, "memotree") /\ c[3] = In.a
      <4>1. c # Bottom /\ c[2] = "memotree" BY <3>2, <3>3, LinkTops
      <4>2. c[3] = Top.id BY <3>2, <3>3 DEF Linked
      <4> QED BY <2>2, <4>1, <4>2 DEF Tops
    <3>5. <<ip, c[1]>> \in R BY <1>1, <2>1, <3>4, LeadsDown
    <3>6. c = b \/ c[1] = b BY <3>2, <3>3, LinkTops
    <3>7. <<ip, b>> \in R BY <1>1, <3>5, <3>6
    <3> QED BY <1>3, <3>1, <3>2, <3>7, GoesOn
  <2>3. CASE ~ (TopIs("memotree") /\ Top.id = In.a)
    <3>1. stack' = stack /\ ip' = ip + 1 /\ mode' = "run"
      BY <1>1, <1>11, <2>3 DEF VM_MEMO_TREE_CLOSE, Step, Goto
    <3>2. ~ (Tops(c, "memotree") /\ c[3] = In.a)
      <4> SUFFICES ASSUME Tops(c, "memotree") PROVE c[3] = Top.id /\ TopIs("memotree")
        BY <2>3
      <4>1. TopIs("memotree") BY <1>1
      <4>2. Top.kind = "memotree" /\ ~ TopIs("base") BY <4>1 DEF TopIs
      <4> QED BY <1>3, <4>1, <4>2 DEF Linked
    <3>3. <<ip + 1, c>> \in R BY <1>1, <2>1, <3>2, LeadsDown
    <3> QED BY <1>1, <3>1, <3>3, GoesOn
  <2> QED BY <2>2, <2>3
<1>12. ASSUME VM_CHECK_END PROVE NeverAborts' /\ AsExpected(R)'
  <2>1. In.op = "CHECK_END" BY <1>12 DEF VM_CHECK_END, Op
  <2>2. TopIs("check") BY <1>1, <2>1 DEF Ready
  <2>3. c[1] = b /\ ~ TopIs("base") BY <1>4, <2>2
  <2>4. /\ stack' = stack_pop(stack, TRUE)
        /\ mode' = "fail" \/ (mode' = "run" /\ ip' = ip + 1)
    BY <1>1, <1>12, <2>2 DEF VM_CHECK_END, Step, Goto, Fail
  <2>5. Fits(R, stack', b) BY <1>3, <2>3, <2>4
  <2>6. <<ip + 1, b>> \in R BY <1>1, <2>1, <2>3, LeadsDown
  <2> QED BY <2>4, <2>5, <2>6, GoesOn, Fails
<1>13. ASSUME VM_MEMO_CLOSE PROVE NeverAborts' /\ AsExpected(R)'
  <2>1. In.op = "MEMO_CLOSE" BY <1>13 DEF VM_MEMO_CLOSE, Op
  <2>2. TopIs("memo") BY <1>1, <2>1 DEF Ready
  <2>3. c[1] = b /\ ~ TopIs("base") BY <1>4, <2>2
  <2>4. stack' = stack_pop(stack, TRUE) /\ mode' = "run" /\ ip' = ip + 1
    BY <1>1, <1>13, <2>2 DEF VM_MEMO_CLOSE, Step, Goto
  <2>5. <<ip + 1, b>> \in R BY <1>1, <2>1, <2>3, LeadsDown
  <2> QED BY <1>3, <2>3, <2>4, <2>5, GoesOn
<1> QED BY <1>5, <1>6, <1>7, <1>8, <1>9, <1>10, <1>11, <1>12, <1>13

(* The instructions that look results up, and the trees.                   *)
LEMMA MemosFit ==
    ASSUME MInv, NEW R, NEW w, Running(R, w),
           VM_MEMO_OPEN \/ VM_MEMO_TREE_OPEN \/ VM_MEMO_TREE_INSERT \/ VM_MEMO_TREE
    PROVE  NeverAborts' /\ AsExpected(R)'
<1> DEFINE c == w[Len(stack)]
           N == Len(code.prog)
<1>1. /\ Leads(In, ip, c) \subseteq R /\ Ready(In, c) /\ Fits(R, stack, c) /\ mode = "run"
      /\ Shape(R, stack, w) /\ Len(stack) \in Nat /\ Len(stack) >= 1 /\ <<ip, c>> \in R
      /\ \A kind : Tops(c, kind) => TopIs(kind)
      /\ StackOK(N, Len(text), pos, stack) /\ pos \in Nat /\ pos <= Len(text)
      /\ Len(text) \in Nat
      /\ stack \in Seq(Range(stack)) /\ stack[1].kind # "memotree" /\ w[1] = Bottom
      /\ In.op = "MEMO_TREE_OPEN" => In.b \in Int
  BY Facts, Fetched DEF Running, Shape
<1>2. ASSUME NEW new, Kept(stack, Len(stack), new) PROVE Fits(R, new, c)
  BY <1>1, <1>2, KeptShape
<1>3. ASSUME NEW e, NEW d, Linked(R, c, e, d)
      PROVE  Fits(R, Append(stack, e), d)
  BY <1>1, <1>3, PushShape
<1> HIDE DEF c, N
<1>4. ASSUME VM_MEMO_OPEN PROVE NeverAborts' /\ AsExpected(R)'
  <2>1. In.op = "MEMO_OPEN" BY <1>4 DEF VM_MEMO_OPEN, Op
  <2>2. <<ip + 1, On(c, "memo", 0)>> \in R /\ <<In.a, c>> \in R BY <1>1, <2>1, LeadsUp
  <2>3. \/ mode' = "run" /\ ip' = ip + 1 /\ stack' = push_memo(In.b)
        \/ mode' = "fail" /\ stack' = stack
        \/ mode' = "run" /\ ip' = In.a /\ \E x : stack' = stack_add_capt(stack, x)
    BY <1>1, <1>4 DEF VM_MEMO_OPEN, Step, Goto, Fail
  <2>4. CASE mode' = "run" /\ ip' = ip + 1 /\ stack' = push_memo(In.b)
    <3> DEFINE e == StackEntry("memo", 0, pos, In.b, 0)
    <3>1. Linked(R, c, e, On(c, "memo", 0)) BY DEF Linked, StackEntry, Kinds
    <3>2. stack' = Append(stack, e) BY <2>4 DEF push_memo
    <3> HIDE DEF e
    <3>3. Fits(R, stack', On(c, "memo", 0)) BY <1>3, <3>1, <3>2
    <3> QED BY <2>2, <2>4, <3>3, GoesOn
  <2>5. CASE mode' = "fail" /\ stack' = stack BY <1>1, <2>5, Fails
  <2>6. CASE mode' = "run" /\ ip' = In.a /\ \E x : stack' = stack_add_capt(stack, x)
    <3>1. Kept(stack, Len(stack), stack') BY <1>1, <2>6, AddCaptOK
    <3>2. Fits(R, stack', c) BY <1>2, <3>1
    <3> QED BY <2>2, <2>6, <3>2, GoesOn
  <2> QED BY <2>3, <2>4, <2>5, <2>6
<1>5. ASSUME VM_MEMO_TREE_OPEN PROVE NeverAborts' /\ AsExpected(R)'
  <2> DEFINE d == Treed(c, In.b)
  <2>1. In.op = "MEMO_TREE_OPEN" BY <1>5 DEF VM_MEMO_TREE_OPEN, Op
  <2>2. <<ip + 1, d>> \in R /\ <<In.a, d>> \in R BY <1>1, <2>1, LeadsUp
  <2>3. d[3] = In.b
    <3>1. CASE Tops(c, "memotree") BY <1>1, <2>1, <3>1 DEF Treed, Ready
    <3>2. CASE ~ Tops(c, "memotree") BY <3>2, OnParts DEF Treed
    <3> QED BY <3>1, <3>2
  <2>4. ASSUME NEW n
        PROVE  /\ Fits(R, push_memotree(In.b, n), d)
               /\ \A x : Fits(R, stack_add_capt(push_memotree(In.b, n), x), d)
    <3> DEFINE e == StackEntry("memotree", 0, pos, In.b, n)
               new == push_memotree(In.b, n)
    <3>1. e.kind = "memotree" /\ e.id = In.b BY DEF StackEntry
    <3>2. new = Append(stack, e) BY DEF push_memotree
    <3>3. StackOK(N, Len(text), pos, new) BY <1>1, <2>1, PushOK DEF push_memotree
    <3> HIDE DEF e, new
    <3>4. Linked(R, c, e, d) BY <2>3, <3>1 DEF Linked, Kinds
    <3>5. Fits(R, new, d) BY <1>3, <3>2, <3>4
    <3>6. ASSUME NEW x PROVE Fits(R, stack_add_capt(new, x), d)
      <4>1. Kept(new, Len(new), stack_add_capt(new, x)) /\ Len(new) \in Nat
        BY <3>3, AddCaptOK, StackShape
      <4>2. PICK v : Shape(R, new, v) /\ v[Len(new)] = d BY <3>5 DEF Fits
      <4> QED BY <4>1, <4>2, KeptShape
    <3> QED BY <3>5, <3>6 DEF new
  <2>5. \/ mode' = "fail" /\ stack' = stack
        \/ /\ mode' = "run" /\ (ip' = ip + 1 \/ ip' = In.a)
           /\ \/ \E n : stack' = push_memotree(In.b, n)
              \/ \E n, x : stack' = stack_add_capt(push_memotree(In.b, n), x)
    BY <1>1, <1>5 DEF VM_MEMO_TREE_OPEN, Step, Goto, Fail
  <2> HIDE DEF d
  <2>6. CASE mode' = "fail" /\ stack' = stack BY <1>1, <2>6, Fails
  <2>7. CASE mode' # "fail"
    <3>1. Fits(R, stack', d) BY <2>4, <2>5, <2>7
    <3>2. mode' = "run" /\ <<ip', d>> \in R BY <2>2, <2>5, <2>7
    <3> QED BY <3>1, <3>2, GoesOn
  <2> QED BY <2>5, <2>6, <2>7
<1>6. ASSUME VM_MEMO_TREE_INSERT PROVE NeverAborts' /\ AsExpected(R)'
  <2>1. In.op = "MEMO_TREE_INSERT" BY <1>6 DEF VM_MEMO_TREE_INSERT, Op
  <2>2. TopIs("memotree") BY <1>1, <2>1 DEF Ready
  <2>3. /\ mode' = "run" /\ ip' = ip + 1
        /\ stack' = [stack EXCEPT ![Len(stack)].count = @ + 1]
    BY <1>1, <1>6, <2>2 DEF VM_MEMO_TREE_INSERT, Step, Goto
  <2>4. Kept(stack, Len(stack), stack') BY <1>1, <2>3, CountOK
  <2>5. Fits(R, stack', c) BY <1>2, <2>4
  <2>6. <<ip + 1, c>> \in R BY <1>1, <2>1, LeadsOn
  <2> QED BY <2>3, <2>5, <2>6, GoesOn
<1>7. ASSUME VM_MEMO_TREE PROVE NeverAborts' /\ AsExpected(R)'
  <2>1. In.op = "MEMO_TREE" BY <1>7 DEF VM_MEMO_TREE, Op
  <2>2. CASE stack' = stack /\ Step
    <3>1. <<ip + 1, c>> \in R BY <1>1, <2>1, LeadsOn
    <3> QED BY <1>1, <2>2, <3>1, GoesOn DEF Step, Goto
  <2>3. CASE \E d \in Mergeable : Merge(d) /\ UNCHANGED <<ip, mode>>
    <3> DEFINE k == Len(stack)
    <3>1. PICK d \in Mergeable : Merge(d) /\ UNCHANGED <<ip, mode>> BY <2>3
    <3>2. Kept(stack, k - d, stack') BY <1>1, <3>1, MergeOK
    <3>3. /\ d \in 1 .. k - 1 /\ \A i \in k - d .. k : stack[i].kind = "memotree"
      BY <3>1 DEF Mergeable
    <3>4. k \in Nat /\ k >= 1 BY <1>1
    <3>5. c = w[k] BY DEF c
    <3>6. \A i, j \in 1 .. k :
            i <= j /\ (\A m \in i .. j : stack[m].kind = "memotree") => w[i] = w[j]
      BY <1>1 DEF Shape
    <3>7. Fits(R, stack', w[k - d]) BY <1>1, <3>2, KeptShape
    <3> HIDE DEF k
    <3>8. k - d \in 1 .. k /\ k \in 1 .. k /\ k - d <= k BY <3>3, <3>4
    <3>9. w[k - d] = c BY <3>3, <3>5, <3>6, <3>8
    <3> QED BY <1>1, <3>1, <3>7, <3>9, GoesOn
  <2> QED BY <1>7, <2>2, <2>3 DEF VM_MEMO_TREE
<1> QED BY <1>4, <1>5, <1>6, <1>7

(* A pass that is over.                                                    *)
LEMMA DoneFits ==
    ASSUME NEW R, NEW ok, NEW capts, NEW range,
           Done(ok, capts, range)
    PROVE  NeverAborts' /\ AsExpected(R)'
BY DEF Done, NeverAborts, AsExpected

(* Unwinding to a choice point, whatever lies above it.                    *)
LEMMA UnwindFits ==
    ASSUME MInv, NEW R, AsExpected(R), Unwind
    PROVE  NeverAborts' /\ AsExpected(R)'
<1> DEFINE k == Len(stack)
           N == Len(code.prog)
           low == stack_pop(stack, FALSE)
<1>1. mode = "fail" BY DEF Unwind
<1>2. PICK w : Shape(R, stack, w) BY <1>1 DEF AsExpected, Fits
<1>3. StackOK(N, Len(text), pos, stack) BY <1>1 DEF MInv, Frames
<1>4. CASE TopIs("base") BY <1>4, DoneFits DEF Unwind, TopIs
<1>5. CASE ~ TopIs("base")
  <2>1. /\ k \in Nat /\ k >= 1 /\ k # 1 /\ Top = stack[k]
    BY <1>3, <1>5, StackShape DEF Top, TopIs
  <2>2. Kept(stack, k - 1, low) BY <1>3, <1>5, PopOK DEF TopIs, Top
  <2>3. k \in 2 .. k
    <3> HIDE DEF k
    <3> QED BY <2>1
  <2>4. Linked(R, w[k - 1], Top, w[k]) BY <1>2, <2>1, <2>3 DEF Shape
  <2>5. Fits(R, low, w[k - 1]) BY <1>2, <2>1, <2>2, KeptShape
  <2>6. stack' = low /\ (mode' = "fail" \/ (TopIs("btrack") /\ mode' = "run" /\ ip' = Top.ip))
    BY <1>1, <1>5 DEF Unwind
  <2> HIDE DEF k, low
  <2>7. TopIs("btrack") => <<Top.ip, w[k - 1]>> \in R BY <2>4 DEF Linked, TopIs
  <2> QED BY <2>5, <2>6, <2>7, GoesOn, Fails
<1> QED BY <1>4, <1>5

---------------------------------------------------------------------------
(* The whole machine.                                                      *)

(* Every step of vm_exec but the unwinding executes an instruction.        *)
LEMMA Executes ==
    ASSUME vm_exec
    PROVE  code' = code /\ (mode = "run" \/ (mode = "fail" /\ Unwind))
  BY DEF vm_exec, VM_CHAR, VM_SET, VM_JUMP, VM_CHOICE, VM_CALL, VM_COMMIT, VM_RETURN,
         VM_FAIL, VM_ANY, VM_PARTIAL_COMMIT, VM_SPAN, VM_BACK_COMMIT, VM_FAIL_TWICE,
         VM_EMPTY, VM_TEST_CHAR, VM_TEST_SET, VM_TEST_CHAR_NOCHOICE,
         VM_TEST_SET_NOCHOICE, VM_TEST_ANY, VM_CAPTURE_BEGIN, VM_CAPTURE_LATE,
         VM_CAPTURE_FULL, VM_CAPTURE_END, VM_MEMO_OPEN, VM_MEMO_CLOSE,
         VM_MEMO_TREE_OPEN, VM_MEMO_TREE_CLOSE, VM_MEMO_TREE_INSERT, VM_MEMO_TREE,
         VM_CHECK_BEGIN, VM_CHECK_END, VM_ERROR, VM_END, Unwind, Consume,
         TestChoice, TestNoChoice, Op, idleVars

(* vm_exec keeps the invariant.                                            *)
LEMMA ExecFits ==
    ASSUME PInv, vm_exec
    PROVE  PInv'
<1>1. MInv' BY ExecMInv DEF PInv
<1>2. code' = code /\ (mode = "run" \/ (mode = "fail" /\ Unwind)) BY Executes
<1>3. PICK R : Paired(code.prog, R) /\ AsExpected(R) BY <1>2 DEF PInv
<1>4. MInv BY DEF PInv
<1>5. NeverAborts' /\ AsExpected(R)'
  <2>1. CASE Unwind BY <1>3, <1>4, <2>1, UnwindFits
  <2>2. CASE VM_END BY <2>2, DoneFits DEF VM_END
  <2>3. CASE mode = "run" /\ ~ Unwind /\ ~ VM_END
    <3>1. PICK c : <<ip, c>> \in R /\ Fits(R, stack, c) BY <1>3, <2>3 DEF AsExpected
    <3>2. PICK w : Shape(R, stack, w) /\ w[Len(stack)] = c BY <3>1 DEF Fits
    <3>3. Running(R, w) BY <1>3, <2>3, <3>1, <3>2 DEF Running
    <3> QED BY <1>4, <2>3, <3>3, ReadsFit, PushesFit, PopsFit, MemosFit DEF vm_exec
  <2> QED BY <1>2, <2>1, <2>2, <2>3
<1> QED BY <1>1, <1>2, <1>3, <1>5 DEF PInv

(* The empty stack fits the start of the program.                          *)
LEMMA BaseFits ==
    ASSUME NEW R
    PROVE  Fits(R, <<Base>>, Bottom)
<1> DEFINE st == <<Base>>
           w == [i \in {1} |-> Bottom]
<1>1. Len(st) = 1 /\ w[1] = Bottom OBVIOUS
<1> HIDE DEF st, w
<1>2. Shape(R, st, w)
  <2>1. \A i \in 2 .. Len(st) : Linked(R, w[i - 1], st[i], w[i]) BY <1>1
  <2>2. \A i, j \in 1 .. Len(st) : i = j BY <1>1
  <2> QED BY <1>1, <2>1, <2>2 DEF Shape
<1>3. Fits(R, st, Bottom) BY <1>1, <1>2 DEF Fits
<1> QED BY <1>3 DEF st

(* The operations of peg.c keep the invariant.                             *)
LEMMA CallsFit ==
    ASSUME PInv, Calls
    PROVE  PInv'
<1>1. MInv' BY CallsMInv DEF PInv
<1>2. /\ mode = "idle" /\ code' = code
      /\ \/ mode' = "idle"
         \/ mode' = "run" /\ ip' = 0 /\ stack' = <<Base>>
  BY DEF Calls, peg_parse, peg_edit, peg_reparse, peg_capture_interval, Start
<1>3. PICK R : Paired(code.prog, R) BY <1>2 DEF PInv
<1>4. <<0, Bottom>> \in R BY <1>3 DEF Paired
<1>5. Fits(R, <<Base>>, Bottom) BY BaseFits
<1>6. NeverAborts' /\ AsExpected(R)' BY <1>2, <1>4, <1>5 DEF NeverAborts, AsExpected
<1> QED BY <1>1, <1>2, <1>3, <1>6 DEF PInv

(* So does a new program, if it is paired.                                 *)
LEMMA LoadFits ==
    ASSUME PInv, LoadPaired
    PROVE  PInv'
<1>1. MInv' BY LoadMInv DEF PInv, LoadPaired
<1>2. /\ mode' = IF code' # NoProgram THEN "idle" ELSE "rejected"
      /\ code' # NoProgram => \E R : Paired(code'.prog, R)
  BY DEF LoadPaired, LoadSound, Load
<1>3. \A R : AsExpected(R)' BY <1>2 DEF AsExpected
<1> QED BY <1>1, <1>2, <1>3 DEF PInv, NeverAborts

LEMMA InitPInv == Init => PInv
BY InitMInv DEF PInv, Init, NeverAborts

LEMMA NextPInv == PInv /\ [LoadPaired \/ Calls \/ vm_exec]_vars => PInv'
<1> SUFFICES ASSUME PInv, [LoadPaired \/ Calls \/ vm_exec]_vars PROVE PInv'
  OBVIOUS
<1>1. CASE UNCHANGED vars
  <2>1. UNCHANGED <<code, mode, ip, stack>> BY <1>1 DEF vars, machine
  <2>2. MInv' BY <1>1, NextMInv DEF PInv
  <2>3. \A R : AsExpected(R) => AsExpected(R)' BY <2>1 DEF AsExpected
  <2> QED BY <2>1, <2>2, <2>3 DEF PInv, NeverAborts
<1> QED BY <1>1, LoadFits, CallsFit, ExecFits

---------------------------------------------------------------------------

(* The machine keeps to the contexts of its program (vm.c, peg.c).         *)
THEOREM PairingInvariance == PairedSpec => []PInv
<1> QED BY InitPInv, NextPInv, PTL DEF PairedSpec

(* No abort_msg of vm_exec is reached, on any subject, after any edits,    *)
(* memo hits, failures and merges of tree entries: each pop finds the kind *)
(* of entry it expects if the program is paired, which TLC checks of what  *)
(* the compiler makes (ProgramIsPaired).                                   *)
THEOREM NoPopAborts == PairedSpec => []NeverAborts
<1>1. PInv => NeverAborts BY DEF PInv
<1> QED BY <1>1, PairingInvariance, PTL

---------------------------------------------------------------------------
(* Trees are shielded.                                                     *)

(* The machine with programs that shield tree entries.                     *)
LoadShielded ==
    LoadSound /\ (code' # NoProgram =>
                    \E R : Paired(code'.prog, R) /\ Shielded(code'.prog, R))
ShieldedSpec == Init /\ [][LoadShielded \/ Calls \/ vm_exec]_vars

(* The entries that a failure passes.                                      *)
Passed == {"ret", "capt", "check", "memo"}

(* None of them lies on a tree entry, and the ones that record a failure   *)
(* have their ids from ids.                                                *)
Clean(ids, st) ==
    /\ \A i \in 2 .. Len(st) : st[i].kind \in Passed => st[i - 1].kind # "memotree"
    /\ \A i \in 1 .. Len(st) : st[i].kind = "memo" => st[i].id \in ids

(* Recorded failures have their ids from ids.                              *)
PlainFailures(ids, tbl) == \A e \in tbl : e.length = -1 => e.id \in ids

SInv ==
    /\ MInv /\ NeverAborts /\ TreesShielded
    /\ mode \in {"new", "rejected"} => table = {}
    /\ mode \in {"idle", "run", "fail"} =>
         /\ PlainFailures(PlainIds(code.prog), table)
         /\ \E R : Paired(code.prog, R) /\ Shielded(code.prog, R) /\ AsExpected(R)
    /\ mode \in {"run", "fail"} => Clean(PlainIds(code.prog), stack)

(* What is left of a clean stack is clean.                                 *)
LEMMA KeptClean ==
    ASSUME NEW ids, NEW st, Len(st) \in Nat, Clean(ids, st), NEW m, NEW new, Kept(st, m, new)
    PROVE  Clean(ids, new)
<1>1. /\ m \in 1 .. Len(st) /\ Len(new) = m
      /\ \A i \in 1 .. m : new[i].kind = st[i].kind /\ new[i].id = st[i].id
  BY DEF Kept, SameRole
<1>2. \A i \in 2 .. m : i \in 2 .. Len(st) /\ i \in 1 .. m /\ i - 1 \in 1 .. m BY <1>1
<1>3. \A i \in 1 .. m : i \in 1 .. Len(st) BY <1>1
<1>4. \A i \in 2 .. m : new[i].kind \in Passed => new[i - 1].kind # "memotree"
  BY <1>1, <1>2 DEF Clean
<1>5. \A i \in 1 .. m : new[i].kind = "memo" => new[i].id \in ids BY <1>1, <1>3 DEF Clean
<1> QED BY <1>1, <1>4, <1>5 DEF Clean

(* So is a clean stack with an entry that no failure passes, or that lies  *)
(* on no tree.                                                             *)
LEMMA PushClean ==
    ASSUME NEW ids, NEW st, st \in Seq(Range(st)), Len(st) >= 1, Clean(ids, st), NEW e,
           e.kind \in Passed => st[Len(st)].kind # "memotree",
           e.kind = "memo" => e.id \in ids
    PROVE  Clean(ids, Append(st, e))
<1> DEFINE k == Len(st)
           m == k + 1
           new == Append(st, e)
<1>1. k \in Nat /\ k >= 1 OBVIOUS
<1>2. Len(new) = m /\ new[m] = e /\ \A i \in 1 .. k : new[i] = st[i]
  <2> DEFINE S == Range(st) \union {e}
  <2>1. st \in Seq(S) OBVIOUS
  <2>2. e \in S OBVIOUS
  <2> HIDE DEF S
  <2> QED BY <2>1, <2>2
<1> HIDE DEF new
<1>3. /\ \A i \in 1 .. m : i # m => i \in 1 .. k
      /\ \A i \in 2 .. m : i # m => i \in 2 .. k /\ i - 1 \in 1 .. k /\ i \in 1 .. k
      /\ k \in 1 .. k /\ m - 1 = k
  BY <1>1
<1>4. /\ \A i \in 2 .. k : st[i].kind \in Passed => st[i - 1].kind # "memotree"
      /\ \A i \in 1 .. k : st[i].kind = "memo" => st[i].id \in ids
      /\ e.kind \in Passed => st[k].kind # "memotree"
  BY DEF Clean
<1> HIDE DEF k, m
<1>5. ASSUME NEW i \in 2 .. m, new[i].kind \in Passed PROVE new[i - 1].kind # "memotree"
  <2>1. CASE i = m BY <1>2, <1>3, <1>4, <1>5, <2>1
  <2>2. CASE i # m BY <1>2, <1>3, <1>4, <1>5, <2>2
  <2> QED BY <2>1, <2>2
<1>6. ASSUME NEW i \in 1 .. m, new[i].kind = "memo" PROVE new[i].id \in ids
  <2>1. CASE i = m BY <1>2, <1>6, <2>1
  <2>2. CASE i # m BY <1>2, <1>3, <1>4, <1>6, <2>2
  <2> QED BY <2>1, <2>2
<1>7. Clean(ids, new) BY <1>2, <1>5, <1>6 DEF Clean
<1> QED BY <1>7 DEF new

(* The top of what is left.                                                *)
LEMMA KeptLast ==
    ASSUME NEW st, NEW m, NEW new, Kept(st, m, new), m \in Nat
    PROVE  Last(new).kind = st[m].kind
<1>1. m \in 1 .. Len(st) /\ Len(new) = m /\ \A i \in 1 .. m : SameRole(st[i], new[i])
  BY DEF Kept
<1>2. m \in 1 .. m BY <1>1
<1> QED BY <1>1, <1>2 DEF Last, SameRole

(* A tree entry shows in the context.                                      *)
LEMMA TreeInContext ==
    ASSUME MInv, NEW R, NEW w, Running(R, w), NEW i \in 1 .. Len(stack),
           stack[i].kind = "memotree"
    PROVE  Tops(w[i], "memotree")
<1>1. Len(stack) \in Nat /\ stack[1].kind = "base" /\ Shape(R, stack, w)
  BY Facts DEF Running
<1>2. i \in 2 .. Len(stack) BY <1>1
<1>3. Linked(R, w[i - 1], stack[i], w[i]) BY <1>1, <1>2 DEF Shape
<1> QED BY <1>3, LinkTops DEF Tops

(* What a program that shields trees says of the next instruction.         *)
LEMMA ShieldedHere ==
    ASSUME MInv, NEW R, NEW w, Running(R, w), Shielded(code.prog, R)
    PROVE  /\ In.op \in Exposed => ~ TopIs("memotree")
           /\ In.op = "FAIL_TWICE" =>
                TopIs("btrack") /\ stack[Len(stack) - 1].kind # "memotree"
           /\ In.op = "MEMO_OPEN" => In.b \in PlainIds(code.prog)
           /\ In.op = "MEMO_TREE_OPEN" => In.b \notin PlainIds(code.prog)
<1> DEFINE k == Len(stack)
           c == w[k]
           N == Len(code.prog)
<1>1. /\ k \in Nat /\ k >= 1 /\ k \in 1 .. k /\ Top = stack[k]
      /\ k # 1 => Linked(R, w[k - 1], Top, c)
      /\ \A kind : Tops(c, kind) => TopIs(kind) /\ k # 1
  BY Facts
<1>2. <<ip, c>> \in R BY DEF Running
<1>3. /\ In.op \in Exposed => ~ Tops(c, "memotree")
      /\ In.op = "FAIL_TWICE" => Tops(c, "btrack") /\ ~ Tops(c[1], "memotree")
  BY <1>2 DEF Shielded, In
<1>4. TopIs("memotree") => Tops(c, "memotree") BY <1>1, TreeInContext DEF TopIs
<1>5. ASSUME In.op = "FAIL_TWICE"
      PROVE  TopIs("btrack") /\ stack[k - 1].kind # "memotree"
  <2>1. TopIs("btrack") /\ k # 1 BY <1>1, <1>3, <1>5
  <2>2. c[1] = w[k - 1] BY <1>1, <2>1, LinkTops DEF TopIs
  <2>3. k - 1 \in 1 .. Len(stack) BY <1>1, <2>1, OneBelow
  <2>4. ~ Tops(w[k - 1], "memotree") BY <1>3, <1>5, <2>2
  <2> HIDE DEF k
  <2> QED BY <2>1, <2>3, <2>4, TreeInContext
<1>6. ip + 1 \in 1 .. N
  <2>1. N \in Nat \ {0} /\ ip \in 0 .. N - 1 BY Fetched DEF Running
  <2> HIDE DEF N
  <2> QED BY <2>1
<1>7. In.op = "MEMO_OPEN" => In.b \in PlainIds(code.prog) BY <1>6 DEF PlainIds, In
<1>8. In.op = "MEMO_TREE_OPEN" => In.b \notin PlainIds(code.prog) BY <1>6 DEF Shielded, In
<1> QED BY <1>3, <1>4, <1>5, <1>7, <1>8

(* What the machine relies on when it executes an instruction, and leaves. *)
Shields(R, w) ==
    /\ Running(R, w) /\ Shielded(code.prog, R) /\ Clean(PlainIds(code.prog), stack)
    /\ PlainFailures(PlainIds(code.prog), table)

(* The instructions that read, test or jump.                               *)
LEMMA ReadsShield ==
    ASSUME MInv, NEW R, NEW w, Shields(R, w),
           \/ VM_CHAR \/ VM_SET \/ VM_JUMP \/ VM_FAIL \/ VM_ANY \/ VM_SPAN \/ VM_EMPTY
           \/ VM_TEST_CHAR_NOCHOICE \/ VM_TEST_SET_NOCHOICE \/ VM_ERROR
    PROVE  Clean(PlainIds(code.prog), stack') /\ TreesShielded'
<1>1. stack' = stack
  BY DEF VM_CHAR, VM_SET, VM_JUMP, VM_FAIL, VM_ANY, VM_SPAN, VM_EMPTY, VM_ERROR,
         VM_TEST_CHAR_NOCHOICE, VM_TEST_SET_NOCHOICE, Consume, TestNoChoice
<1>2. mode = "run" BY DEF Shields, Running
<1>3. mode' = "fail" => In.op \in Exposed
  BY <1>2 DEF VM_CHAR, VM_SET, VM_JUMP, VM_FAIL, VM_ANY, VM_SPAN, VM_EMPTY, VM_ERROR,
         VM_TEST_CHAR_NOCHOICE, VM_TEST_SET_NOCHOICE, Consume, TestNoChoice,
         Op, Step, Goto, Fail, Exposed
<1>4. In.op \in Exposed => ~ TopIs("memotree") BY ShieldedHere DEF Shields
<1>5. Clean(PlainIds(code.prog), stack') BY <1>1 DEF Shields
<1> QED BY <1>1, <1>3, <1>4, <1>5 DEF TreesShielded, TopIs, Top

(* The instructions that push.                                             *)
LEMMA PushesShield ==
    ASSUME MInv, NEW R, NEW w, Shields(R, w),
           \/ VM_CHOICE \/ VM_CALL \/ VM_TEST_CHAR \/ VM_TEST_SET \/ VM_TEST_ANY
           \/ VM_CAPTURE_BEGIN \/ VM_CAPTURE_LATE \/ VM_CHECK_BEGIN
    PROVE  Clean(PlainIds(code.prog), stack') /\ TreesShielded'
<1> DEFINE ids == PlainIds(code.prog)
<1>1. /\ stack \in Seq(Range(stack)) /\ Len(stack) >= 1 /\ Top = stack[Len(stack)]
      /\ mode = "run" /\ Clean(ids, stack)
  BY Facts DEF Shields, Running
<1>2. In.op \in Exposed => ~ TopIs("memotree") BY ShieldedHere DEF Shields
<1> HIDE DEF ids
<1>3. mode' = "run"
  BY <1>1 DEF VM_CHOICE, VM_CALL, VM_TEST_CHAR, VM_TEST_SET, VM_TEST_ANY, TestChoice,
         VM_CAPTURE_BEGIN, VM_CAPTURE_LATE, VM_CHECK_BEGIN, Step, Goto
<1>4. \/ stack' = stack
      \/ \E kind, to, at, id, count :
           /\ stack' = Append(stack, StackEntry(kind, to, at, id, count))
           /\ kind # "memo" /\ (kind \in Passed => In.op \in Exposed)
  BY DEF VM_CHOICE, VM_CALL, VM_TEST_CHAR, VM_TEST_SET, VM_TEST_ANY, TestChoice,
         VM_CAPTURE_BEGIN, VM_CAPTURE_LATE, VM_CHECK_BEGIN, Op, Passed, Exposed,
         push_btrack, push_ret, push_capt, push_check
<1>5. ASSUME NEW kind, NEW to, NEW at, NEW id, NEW count,
             kind # "memo", kind \in Passed => In.op \in Exposed
      PROVE  Clean(ids, Append(stack, StackEntry(kind, to, at, id, count)))
  <2> DEFINE e == StackEntry(kind, to, at, id, count)
  <2>1. e.kind = kind BY DEF StackEntry
  <2> HIDE DEF e
  <2>2. e.kind \in Passed => stack[Len(stack)].kind # "memotree"
    BY <1>1, <1>2, <1>5, <2>1 DEF TopIs
  <2>3. e.kind # "memo" BY <1>5, <2>1
  <2>4. Clean(ids, Append(stack, e)) BY <1>1, <2>2, <2>3, PushClean
  <2> QED BY <2>4 DEF e
<1>6. Clean(ids, stack') BY <1>1, <1>4, <1>5
<1> QED BY <1>3, <1>6 DEF TreesShielded, ids

(* The entries that a pop or a change of what the top has collected leaves. *)
LEMMA PopsKeep ==
    ASSUME MInv, mode = "run",
           \/ VM_COMMIT \/ VM_RETURN \/ VM_PARTIAL_COMMIT \/ VM_BACK_COMMIT
           \/ VM_FAIL_TWICE \/ VM_CAPTURE_FULL \/ VM_CAPTURE_END
           \/ VM_MEMO_TREE_CLOSE \/ VM_CHECK_END \/ VM_MEMO_CLOSE \/ VM_MEMO_TREE_INSERT
    PROVE  \E m : Kept(stack, m, stack')
<1> DEFINE k == Len(stack)
           N == Len(code.prog)
           low == stack_pop(stack, FALSE)
<1>1. /\ StackOK(N, Len(text), pos, stack) /\ pos \in 0 .. Len(text) /\ Len(text) \in Nat
      /\ k \in Nat /\ k \in 1 .. k
  <2>1. /\ StackOK(N, Len(text), pos, stack) /\ pos \in Nat /\ pos <= Len(text)
        /\ Len(text) \in Nat
    BY Fetched
  <2>2. pos \in 0 .. Len(text) BY <2>1
  <2>3. k \in Nat /\ k >= 1 BY <2>1, StackShape
  <2> QED BY <2>1, <2>2, <2>3, OneBelow
<1>2. Kept(stack, k, stack) BY <1>1 DEF Kept, SameRole
<1>3. ~ TopIs("base") =>
        /\ Kept(stack, k - 1, stack_pop(stack, TRUE)) /\ Kept(stack, k - 1, low)
        /\ StackOK(N, Len(text), pos, low)
  BY <1>1, PopOK DEF TopIs, Top
<1>4. \A x : /\ Kept(stack, k, stack_add_capt(stack, x))
             /\ Kept(stack, k, [stack EXCEPT ![Len(stack)].count = x])
  BY <1>1, AddCaptOK, CountOK
<1> HIDE DEF k, N
<1>5. ASSUME NEW x, ~ TopIs("base") PROVE Kept(stack, k - 1, stack_add_capt(low, x))
  <2>1. Kept(stack, k - 1, low) /\ StackOK(N, Len(text), pos, low) BY <1>3, <1>5
  <2> HIDE DEF low
  <2>2. Kept(low, Len(low), stack_add_capt(low, x)) BY <2>1, AddCaptOK
  <2>3. Len(low) = k - 1 BY <2>1 DEF Kept
  <2> QED BY <1>1, <2>1, <2>2, <2>3, KeptTwice DEF k
<1>6. ASSUME VM_PARTIAL_COMMIT PROVE \E m : Kept(stack, m, stack')
  <2> DEFINE moved == [stack EXCEPT ![Len(stack)].pos = pos]
  <2>1. CASE TopIs("btrack")
    <3>1. stack' = stack_prop_capt(moved) BY <1>6, <2>1 DEF VM_PARTIAL_COMMIT
    <3>2. /\ StackOK(N, Len(text), pos, moved) /\ Last(moved).kind = "btrack"
          /\ Kept(stack, Len(stack), moved)
      BY <1>1, <2>1, MoveOK DEF TopIs, Top
    <3> HIDE DEF moved
    <3>3. Kept(moved, Len(moved), stack') BY <3>1, <3>2, PropOK
    <3> QED BY <1>1, <3>2, <3>3, KeptTwice DEF k
  <2>2. CASE ~ TopIs("btrack") BY <1>2, <1>6, <2>2 DEF VM_PARTIAL_COMMIT
  <2> QED BY <2>1, <2>2
<1>7. ASSUME VM_MEMO_TREE_INSERT PROVE \E m : Kept(stack, m, stack')
  <2>1. \/ stack' = stack
        \/ \E x : stack' = [stack EXCEPT ![Len(stack)].count = x]
    BY <1>7 DEF VM_MEMO_TREE_INSERT
  <2> QED BY <1>2, <1>4, <2>1
<1>8. ASSUME \/ VM_COMMIT \/ VM_RETURN \/ VM_BACK_COMMIT \/ VM_FAIL_TWICE
             \/ VM_CAPTURE_FULL \/ VM_CAPTURE_END \/ VM_MEMO_TREE_CLOSE \/ VM_CHECK_END
             \/ VM_MEMO_CLOSE
      PROVE  \E m : Kept(stack, m, stack')
  <2>1. \/ stack' = stack
        \/ ~ TopIs("base") /\ stack' = stack_pop(stack, TRUE)
        \/ ~ TopIs("base") /\ stack' = low
        \/ ~ TopIs("base") /\ \E x : stack' = stack_add_capt(low, x)
        \/ \E x : stack' = stack_add_capt(stack, x)
    BY <1>8 DEF VM_COMMIT, VM_RETURN, VM_BACK_COMMIT, VM_FAIL_TWICE, VM_CAPTURE_FULL,
           VM_CAPTURE_END, VM_MEMO_TREE_CLOSE, VM_CHECK_END, VM_MEMO_CLOSE, TopIs
  <2> HIDE DEF low
  <2> QED BY <1>2, <1>3, <1>4, <1>5, <2>1
<1> QED BY <1>6, <1>7, <1>8

(* The instructions that pop, or change what the top has collected.        *)
LEMMA PopsShield ==
    ASSUME MInv, NEW R, NEW w, Shields(R, w),
           \/ VM_COMMIT \/ VM_RETURN \/ VM_PARTIAL_COMMIT \/ VM_BACK_COMMIT
           \/ VM_FAIL_TWICE \/ VM_CAPTURE_FULL \/ VM_CAPTURE_END
           \/ VM_MEMO_TREE_CLOSE \/ VM_CHECK_END \/ VM_MEMO_CLOSE \/ VM_MEMO_TREE_INSERT
    PROVE  Clean(PlainIds(code.prog), stack') /\ TreesShielded'
<1> DEFINE k == Len(stack)
           ids == PlainIds(code.prog)
<1>1. /\ Clean(ids, stack) /\ mode = "run" /\ k \in Nat /\ k >= 1 /\ Top = stack[k]
      /\ k = 1 <=> TopIs("base")
  BY Facts DEF Shields, Running
<1>2. Clean(ids, stack')
  <2>1. PICK m : Kept(stack, m, stack') BY <1>1, PopsKeep
  <2> QED BY <1>1, <2>1, KeptClean
<1>3. CASE mode' # "fail" BY <1>2, <1>3 DEF TreesShielded
<1>4. CASE mode' = "fail"
  <2>1. VM_FAIL_TWICE \/ VM_CHECK_END
    BY <1>1, <1>4 DEF VM_COMMIT, VM_RETURN, VM_PARTIAL_COMMIT, VM_BACK_COMMIT,
           VM_CAPTURE_FULL, VM_CAPTURE_END, VM_MEMO_TREE_CLOSE, VM_MEMO_CLOSE,
           VM_MEMO_TREE_INSERT, Step, Goto, Abort
  <2>2. /\ ~ TopIs("base") /\ stack[k - 1].kind # "memotree"
        /\ stack' = stack_pop(stack, TRUE) \/ stack' = stack_pop(stack, FALSE)
    <3>1. CASE VM_FAIL_TWICE
      <4>1. In.op = "FAIL_TWICE" BY <3>1 DEF VM_FAIL_TWICE, Op
      <4>2. TopIs("btrack") /\ stack[k - 1].kind # "memotree"
        BY <4>1, ShieldedHere DEF Shields
      <4> QED BY <3>1, <4>2 DEF VM_FAIL_TWICE, TopIs
    <3>2. CASE VM_CHECK_END
      <4>1. TopIs("check") /\ stack' = stack_pop(stack, TRUE)
        BY <1>4, <3>2 DEF VM_CHECK_END, Abort
      <4>2. k # 1 BY <1>1, <4>1 DEF TopIs
      <4> HIDE DEF k
      <4>3. k \in 2 .. k BY <1>1, <4>2
      <4>4. stack[k].kind \in Passed BY <1>1, <4>1 DEF TopIs, Passed
      <4>5. stack[k - 1].kind # "memotree" BY <1>1, <4>3, <4>4 DEF Clean, k
      <4> QED BY <4>1, <4>5 DEF TopIs
    <3> QED BY <2>1, <3>1, <3>2
  <2>3. Kept(stack, k - 1, stack')
    <3>1. StackOK(Len(code.prog), Len(text), pos, stack) BY <1>1, Fetched
    <3> QED BY <2>2, <3>1, PopOK DEF TopIs, Top
  <2> HIDE DEF k
  <2>4. k - 1 \in Nat BY <1>1
  <2>5. Last(stack').kind # "memotree" BY <2>2, <2>3, <2>4, KeptLast
  <2> QED BY <1>2, <2>5 DEF TreesShielded, TopIs, Top
<1> QED BY <1>3, <1>4

(* The instructions that look results up, and the merges of trees.         *)
LEMMA MemosShield ==
    ASSUME MInv, NEW R, NEW w, Shields(R, w),
           VM_MEMO_OPEN \/ VM_MEMO_TREE_OPEN \/ VM_MEMO_TREE
    PROVE  Clean(PlainIds(code.prog), stack') /\ TreesShielded'
<1> DEFINE ids == PlainIds(code.prog)
           N == Len(code.prog)
<1>1. /\ stack \in Seq(Range(stack)) /\ Len(stack) \in Nat /\ Len(stack) >= 1
      /\ Top = stack[Len(stack)] /\ mode = "run" /\ Clean(ids, stack)
      /\ PlainFailures(ids, table)
  BY Facts DEF Shields, Running
<1>2. /\ In.op \in Exposed => ~ TopIs("memotree")
      /\ In.op = "MEMO_OPEN" => In.b \in ids
      /\ In.op = "MEMO_TREE_OPEN" => In.b \notin ids
  BY ShieldedHere DEF Shields
<1>3. /\ StackOK(N, Len(text), pos, stack) /\ Len(text) \in Nat /\ pos \in Nat
      /\ pos <= Len(text) /\ (In.op = "MEMO_TREE_OPEN" => In.b \in Int)
  BY <1>1, Fetched
<1> HIDE DEF ids, N
<1>4. ASSUME VM_MEMO_OPEN PROVE Clean(ids, stack') /\ TreesShielded'
  <2>1. In.op = "MEMO_OPEN" BY <1>4 DEF VM_MEMO_OPEN, Op
  <2>2. ~ TopIs("memotree") /\ In.b \in ids BY <1>2, <2>1 DEF Exposed
  <2>3. \/ stack' = push_memo(In.b) /\ mode' = "run"
        \/ stack' = stack
        \/ mode' = "run" /\ \E x : stack' = stack_add_capt(stack, x)
    BY <1>1, <1>4 DEF VM_MEMO_OPEN, Step, Goto
  <2>4. CASE stack' = push_memo(In.b) /\ mode' = "run"
    <3> DEFINE e == StackEntry("memo", 0, pos, In.b, 0)
    <3>1. e.kind = "memo" /\ e.id = In.b BY DEF StackEntry
    <3>2. stack' = Append(stack, e) BY <2>4 DEF push_memo
    <3> HIDE DEF e
    <3>3. stack[Len(stack)].kind # "memotree" BY <1>1, <2>2 DEF TopIs
    <3>4. Clean(ids, stack') BY <1>1, <2>2, <3>1, <3>2, <3>3, PushClean
    <3> QED BY <2>4, <3>4 DEF TreesShielded
  <2>5. CASE stack' = stack
    <3>1. TreesShielded' BY <2>2, <2>5 DEF TreesShielded, TopIs, Top
    <3> QED BY <1>1, <2>5, <3>1
  <2>6. CASE mode' = "run" /\ \E x : stack' = stack_add_capt(stack, x)
    <3>1. Kept(stack, Len(stack), stack') BY <1>3, <2>6, AddCaptOK
    <3>2. Clean(ids, stack') BY <1>1, <3>1, KeptClean
    <3> QED BY <2>6, <3>2 DEF TreesShielded
  <2> QED BY <2>3, <2>4, <2>5, <2>6
<1>5. ASSUME VM_MEMO_TREE_OPEN PROVE Clean(ids, stack') /\ TreesShielded'
  <2>1. In.op = "MEMO_TREE_OPEN" BY <1>5 DEF VM_MEMO_TREE_OPEN, Op
  <2>2. \A e \in memo_table_get(table, In.b, pos) : e.length # -1
    <3>1. \A e \in memo_table_get(table, In.b, pos) : e \in table /\ e.id = In.b
      BY DEF memo_table_get
    <3> QED BY <1>1, <1>2, <2>1, <3>1 DEF PlainFailures
  <2>3. /\ mode' = "run"
        /\ \/ \E n : stack' = push_memotree(In.b, n)
           \/ \E n, x : stack' = stack_add_capt(push_memotree(In.b, n), x)
    BY <1>1, <1>5, <2>2 DEF VM_MEMO_TREE_OPEN, Step, Goto
  <2>4. ASSUME NEW n
        PROVE  /\ Clean(ids, push_memotree(In.b, n))
               /\ \A x : Clean(ids, stack_add_capt(push_memotree(In.b, n), x))
    <3> DEFINE e == StackEntry("memotree", 0, pos, In.b, n)
               new == push_memotree(In.b, n)
    <3>1. e.kind = "memotree" BY DEF StackEntry
    <3>2. new = Append(stack, e) BY DEF push_memotree
    <3>3. StackOK(N, Len(text), pos, new) BY <1>3, <2>1, PushOK DEF push_memotree
    <3> HIDE DEF e, new
    <3>4. e.kind \notin Passed /\ e.kind # "memo" BY <3>1 DEF Passed
    <3>5. Clean(ids, new) BY <1>1, <3>2, <3>4, PushClean
    <3>6. ASSUME NEW x PROVE Clean(ids, stack_add_capt(new, x))
      <4>1. Kept(new, Len(new), stack_add_capt(new, x)) /\ Len(new) \in Nat
        BY <3>3, AddCaptOK, StackShape
      <4> QED BY <3>5, <4>1, KeptClean
    <3> QED BY <3>5, <3>6 DEF new
  <2>5. Clean(ids, stack') BY <2>3, <2>4
  <2> QED BY <2>3, <2>5 DEF TreesShielded
<1>6. ASSUME VM_MEMO_TREE PROVE Clean(ids, stack') /\ TreesShielded'
  <2>1. mode' = "run" BY <1>1, <1>6 DEF VM_MEMO_TREE, Step, Goto
  <2>2. stack' = stack \/ \E d \in Mergeable : Merge(d) BY <1>6 DEF VM_MEMO_TREE
  <2>3. ASSUME NEW d \in Mergeable, Merge(d) PROVE Clean(ids, stack')
    <3>1. Kept(stack, Len(stack) - d, stack') BY <1>1, <2>3, MergeOK
    <3> QED BY <1>1, <3>1, KeptClean
  <2>4. Clean(ids, stack') BY <1>1, <2>2, <2>3
  <2> QED BY <2>1, <2>4 DEF TreesShielded
<1> QED BY <1>4, <1>5, <1>6 DEF ids

(* Unwinding passes entries that lie on no tree.                           *)
LEMMA UnwindShields ==
    ASSUME MInv, TreesShielded, NEW ids, Clean(ids, stack), Unwind
    PROVE  TreesShielded' /\ (mode' # "idle" => Clean(ids, stack'))
<1> DEFINE k == Len(stack)
           low == stack_pop(stack, FALSE)
<1>1. mode = "fail" BY DEF Unwind
<1>2. StackOK(Len(code.prog), Len(text), pos, stack) BY <1>1 DEF MInv, Frames
<1>3. CASE TopIs("base") BY <1>3 DEF Unwind, TopIs, Done, TreesShielded
<1>4. CASE ~ TopIs("base")
  <2>1. k \in Nat /\ k >= 1 /\ k # 1 /\ Top = stack[k]
    BY <1>2, <1>4, StackShape DEF Top, TopIs
  <2>2. Kept(stack, k - 1, low) BY <1>2, <1>4, PopOK DEF TopIs, Top
  <2>3. Clean(ids, low) BY <2>1, <2>2, KeptClean
  <2>4. /\ stack' = low
        /\ mode' = "run" \/ Top.kind \in {"memo", "ret", "memotree", "capt", "check"}
    BY <1>1, <1>4 DEF Unwind, TopIs
  <2>5. ~ TopIs("memotree") BY <1>1 DEF TreesShielded
  <2>6. k \in 2 .. k /\ k - 1 \in Nat
    <3> HIDE DEF k
    <3> QED BY <2>1
  <2>7. Top.kind \in Passed => stack[k - 1].kind # "memotree" BY <2>1, <2>6 DEF Clean
  <2> HIDE DEF k, low
  <2>8. Last(low).kind = stack[k - 1].kind BY <2>2, <2>6, KeptLast
  <2>9. mode' = "run" \/ Last(stack').kind # "memotree"
    BY <2>4, <2>5, <2>7, <2>8 DEF Passed, TopIs
  <2> QED BY <2>3, <2>4, <2>9 DEF TreesShielded, TopIs, Top
<1> QED BY <1>3, <1>4

(* A failure is recorded of a rule on top of the stack only, which no tree *)
(* entry is.                                                               *)
LEMMA ExecKeepsFailures ==
    ASSUME MInv, mode \in {"run", "fail"}, vm_exec, NEW ids, Clean(ids, stack),
           PlainFailures(ids, table)
    PROVE  PlainFailures(ids, table')
<1>1. table' = table \/ Records BY ExecRecords
<1>2. CASE Records
  <2>1. PICK id \in Int, start \in 0 .. Len(text), length \in Int : \E count, capts :
          /\ length = -1 => TopIs("memo") /\ id = Top.id
          /\ table' = memoize(id, start, length, count, capts)
    BY <1>2 DEF Records
  <2>2. PICK count, capts :
          /\ length = -1 => TopIs("memo") /\ id = Top.id
          /\ table' = memoize(id, start, length, count, capts)
    BY <2>1
  <2>3. StackOK(Len(code.prog), Len(text), pos, stack) BY DEF MInv, Frames
  <2>4. Len(stack) \in 1 .. Len(stack) /\ Top = stack[Len(stack)]
    BY <2>3, StackShape, OneBelow DEF Top
  <2>5. TopIs("memo") => Top.id \in ids BY <2>4 DEF Clean, TopIs
  <2>6. ASSUME NEW e \in table', e \notin table PROVE e.id = id /\ e.length = length
    BY <2>2, <2>6 DEF memoize, memo_table_put
  <2> QED BY <2>2, <2>5, <2>6 DEF PlainFailures
<1> QED BY <1>1, <1>2

(* vm_exec keeps the invariant.                                            *)
LEMMA ExecShields ==
    ASSUME SInv, vm_exec
    PROVE  SInv'
<1> DEFINE ids == PlainIds(code.prog)
<1>1. MInv /\ MInv' BY ExecMInv DEF SInv
<1>2. code' = code /\ (mode = "run" \/ (mode = "fail" /\ Unwind)) BY Executes
<1>3. Clean(ids, stack) /\ PlainFailures(ids, table) BY <1>2 DEF SInv
<1>4. PICK R : Paired(code.prog, R) /\ Shielded(code.prog, R) /\ AsExpected(R)
  BY <1>2 DEF SInv
<1>5. PlainFailures(ids, table')
  <2> HIDE DEF ids
  <2> QED BY <1>1, <1>2, <1>3, ExecKeepsFailures
<1>6. /\ NeverAborts' /\ AsExpected(R)' /\ TreesShielded'
      /\ mode' \in {"run", "fail"} => Clean(ids, stack')
  <2>1. CASE Unwind
    <3>1. NeverAborts' /\ AsExpected(R)' BY <1>1, <1>4, <2>1, UnwindFits
    <3> HIDE DEF ids
    <3> QED BY <1>1, <1>3, <2>1, <3>1, UnwindShields DEF SInv
  <2>2. CASE VM_END
    <3>1. NeverAborts' /\ AsExpected(R)' BY <2>2, DoneFits DEF VM_END
    <3>2. mode' = "idle" BY <2>2 DEF VM_END, Done
    <3> QED BY <3>1, <3>2 DEF TreesShielded
  <2>3. CASE mode = "run" /\ ~ Unwind /\ ~ VM_END
    <3>1. PICK c : <<ip, c>> \in R /\ Fits(R, stack, c) BY <1>4, <2>3 DEF AsExpected
    <3>2. PICK w : Shape(R, stack, w) /\ w[Len(stack)] = c BY <3>1 DEF Fits
    <3>3. Running(R, w) BY <1>4, <2>3, <3>1, <3>2 DEF Running
    <3>4. Shields(R, w) BY <1>3, <1>4, <3>3 DEF Shields
    <3>5. NeverAborts' /\ AsExpected(R)'
      BY <1>1, <2>3, <3>3, ReadsFit, PushesFit, PopsFit, MemosFit DEF vm_exec
    <3>6. Clean(ids, stack') /\ TreesShielded'
      BY <1>1, <2>3, <3>4, ReadsShield, PushesShield, PopsShield, MemosShield DEF vm_exec
    <3> QED BY <3>5, <3>6
  <2> QED BY <1>2, <2>1, <2>2, <2>3
<1>7. mode' \in {"idle", "run", "fail"}
  <2>1. mode' # "new" /\ mode' # "rejected"
    BY <1>2 DEF vm_exec, VM_CHAR, VM_SET, VM_JUMP, VM_CHOICE, VM_CALL, VM_COMMIT,
         VM_RETURN, VM_FAIL, VM_ANY, VM_PARTIAL_COMMIT, VM_SPAN, VM_BACK_COMMIT,
         VM_FAIL_TWICE, VM_EMPTY, VM_TEST_CHAR, VM_TEST_SET, VM_TEST_CHAR_NOCHOICE,
         VM_TEST_SET_NOCHOICE, VM_TEST_ANY, VM_CAPTURE_BEGIN, VM_CAPTURE_LATE,
         VM_CAPTURE_FULL, VM_CAPTURE_END, VM_MEMO_OPEN, VM_MEMO_CLOSE,
         VM_MEMO_TREE_OPEN, VM_MEMO_TREE_CLOSE, VM_MEMO_TREE_INSERT, VM_MEMO_TREE,
         VM_CHECK_BEGIN, VM_CHECK_END, VM_ERROR, VM_END, Unwind, Consume,
         TestChoice, TestNoChoice, Op, Step, Goto, Fail, Abort, Done
  <2> QED BY <1>1, <1>6, <2>1 DEF MInv, Control, NeverAborts
<1> HIDE DEF ids
<1>8. PlainIds(code'.prog) = ids BY <1>2 DEF ids
<1> QED BY <1>1, <1>2, <1>4, <1>5, <1>6, <1>7, <1>8 DEF SInv

(* The operations of peg.c keep the invariant.                             *)
LEMMA CallsShield ==
    ASSUME SInv, Calls
    PROVE  SInv'
<1> DEFINE ids == PlainIds(code.prog)
<1>1. MInv' /\ Subject /\ Table /\ text \in Seq(Bytes) BY CallsMInv DEF SInv, MInv, Subject
<1>2. /\ mode = "idle" /\ code' = code
      /\ \/ mode' = "idle"
         \/ mode' = "run" /\ ip' = 0 /\ stack' = <<Base>>
  BY DEF Calls, peg_parse, peg_edit, peg_reparse, peg_capture_interval, Start
<1>3. PICK R : Paired(code.prog, R) /\ Shielded(code.prog, R) BY <1>2 DEF SInv
<1>4. <<0, Bottom>> \in R BY <1>3 DEF Paired
<1>5. Fits(R, <<Base>>, Bottom) BY BaseFits
<1>6. NeverAborts' /\ AsExpected(R)' BY <1>2, <1>4, <1>5 DEF NeverAborts, AsExpected
<1>7. Clean(ids, <<Base>>)
  <2> DEFINE st == <<Base>>
  <2>1. Len(st) = 1 /\ st[1].kind = "base" BY DEF Base, StackEntry
  <2> HIDE DEF st, ids
  <2>2. Clean(ids, st) BY <2>1 DEF Clean
  <2> QED BY <2>2 DEF st
<1>8. PlainFailures(ids, table')
  <2>1. PlainFailures(ids, table) BY <1>2 DEF SInv
  <2> HIDE DEF ids
  <2>2. ASSUME NEW e \in Grammar.edits, peg_edit(e) PROVE PlainFailures(ids, table')
    <3>1. e.start \in Nat /\ e.end \in Nat /\ e.new \in Seq(Bytes) BY <1>1, ClientsPass
    <3>2. /\ e.start <= e.end /\ e.end <= Len(text)
          /\ table' = memo_table_apply_edit(table, e.start, e.end, Len(e.new))
      BY <2>2 DEF peg_edit
    <3>3. \A f \in table' : \E x \in table : SameData(x, f)
      BY <1>1, <3>1, <3>2, ApplyEditIsGood DEF Table
    <3> QED BY <2>1, <3>3 DEF PlainFailures, SameData
  <2>3. ASSUME NEW v \in Grammar.windows, peg_capture_interval(v)
        PROVE  PlainFailures(ids, table')
    <3>1. v.low \in Nat /\ v.high \in Nat BY <1>1, ClientsPass
    <3>2. CASE v.high > v.low
      <4>1. table' = memo_table_apply_edit(table, v.low, v.high, v.high - v.low)
        BY <2>3, <3>2 DEF peg_capture_interval
      <4>2. \A f \in table' : f \in table
        BY <1>1, <3>1, <3>2, <4>1, WindowKeepsEntries DEF Table
      <4> QED BY <2>1, <4>2 DEF PlainFailures
    <3>3. CASE ~ (v.high > v.low) BY <2>1, <2>3, <3>3 DEF peg_capture_interval
    <3> QED BY <3>2, <3>3
  <2>4. ASSUME NEW data \in Grammar.subjects, peg_parse(data) PROVE PlainFailures(ids, table')
    BY <2>4 DEF peg_parse, PlainFailures
  <2>5. ASSUME peg_reparse PROVE PlainFailures(ids, table') BY <2>1, <2>5 DEF peg_reparse
  <2> QED BY <2>2, <2>3, <2>4, <2>5 DEF Calls
<1>9. TreesShielded' BY <1>2 DEF TreesShielded
<1> HIDE DEF ids
<1>10. PlainIds(code'.prog) = ids BY <1>2 DEF ids
<1> QED BY <1>1, <1>2, <1>3, <1>6, <1>7, <1>8, <1>9, <1>10 DEF SInv

(* So does a new program, if it shields its trees.                         *)
LEMMA LoadShields ==
    ASSUME SInv, LoadShielded
    PROVE  SInv'
<1>1. MInv' BY LoadMInv DEF SInv, LoadShielded
<1>2. /\ mode' = IF code' # NoProgram THEN "idle" ELSE "rejected"
      /\ code' # NoProgram => \E R : Paired(code'.prog, R) /\ Shielded(code'.prog, R)
      /\ mode \in {"new", "rejected"} /\ table' = table
  BY DEF LoadShielded, LoadSound, Load
<1>3. \A R : AsExpected(R)' BY <1>2 DEF AsExpected
<1>4. table' = {} BY <1>2 DEF SInv
<1>5. \A ids : PlainFailures(ids, table') BY <1>4 DEF PlainFailures
<1>6. NeverAborts' /\ TreesShielded' BY <1>2 DEF NeverAborts, TreesShielded
<1> QED BY <1>1, <1>2, <1>3, <1>4, <1>5, <1>6 DEF SInv

LEMMA InitSInv == Init => SInv
BY InitMInv DEF SInv, Init, NeverAborts, TreesShielded

LEMMA NextSInv == SInv /\ [LoadShielded \/ Calls \/ vm_exec]_vars => SInv'
<1> SUFFICES ASSUME SInv, [LoadShielded \/ Calls \/ vm_exec]_vars PROVE SInv'
  OBVIOUS
<1>1. CASE UNCHANGED vars
  <2>1. UNCHANGED <<code, mode, ip, stack, table>> BY <1>1 DEF vars, machine
  <2>2. MInv' BY <1>1, NextMInv DEF SInv
  <2>3. \A R : AsExpected(R) => AsExpected(R)' BY <2>1 DEF AsExpected
  <2>4. NeverAborts' /\ TreesShielded'
    BY <2>1 DEF SInv, NeverAborts, TreesShielded, TopIs, Top
  <2> QED BY <2>1, <2>2, <2>3, <2>4 DEF SInv
<1> QED BY <1>1, LoadShields, CallsShield, ExecShields

(* While a program that shields its trees is executed, every entry that a  *)
(* failure can pass lies on no tree entry, and no tree id has a failure    *)
(* recorded (vm.c, the fail handler and the memo instructions).            *)
THEOREM ShieldInvariance == ShieldedSpec => []SInv
<1> QED BY InitSInv, NextSInv, PTL DEF ShieldedSpec

(* The fail handler of vm_exec never meets a tree entry, on any subject    *)
(* and after any edits: what the comment at its case says of the emitted   *)
(* code is true of every program that is shielded, which TLC checks of     *)
(* what the compiler makes (ProgramIsPaired).                              *)
THEOREM TreesAreShielded == ShieldedSpec => []TreesShielded
<1>1. SInv => TreesShielded BY DEF SInv
<1> QED BY <1>1, ShieldInvariance, PTL
=============================================================================
