------------------------------ MODULE Captures ------------------------------
(***************************************************************************)
(* The capture objects of src/memo.c and every place of src/vm.c and       *)
(* src/peg.c that keeps a pointer to one.  A capture is a counted object,  *)
(* shared by the lists of the stack, the entries of the table, other       *)
(* captures and the results a client keeps; an entry owns captures weakly, *)
(* through their ment pointers, so that they move with it.                 *)
(*                                                                         *)
(*   - What the machine runs is left open: any instruction that touches    *)
(*     captures may come next, on a stack entry of any kind, and memoize   *)
(*     may store or drop.  The entries an edit evicts are any.             *)
(*   - The recursive functions of memo.c take one step per call: todo is   *)
(*     the calls still to be made, and nothing else happens before they    *)
(*     are.                                                                *)
(*   - A node and a dummy differ in what Parser sees of them only.         *)
(*   - An operator X with Fault or Flat after its name is a wrong version  *)
(*     of X; no specification uses it (see the README).                    *)
(***************************************************************************)
EXTENDS Integers, Sequences, FiniteSets

CONSTANTS
    Caps,           \* addresses of captures
    Ents,           \* addresses of memo entries
    NoEnt,          \* the null entry pointer
    Positions,      \* bound: where a capture or an entry is
    Starts,         \* bound: where one is when it is made
    MaxDepth,       \* bound: entries on the stack, the result list included
    MaxList,        \* bound: captures in a list of the stack
    MaxRefs         \* bound: references to a capture

ASSUME CapturesAssumption ==
    /\ NoEnt \notin Ents /\ IsFiniteSet(Caps)
    /\ Starts \subseteq Positions /\ Positions \subseteq Int
    /\ MaxDepth \in Nat /\ MaxList \in Nat /\ MaxRefs \in Nat

VARIABLES
    live,           \* the captures allocated and not freed
    refs, ment, off, kids,      \* their fields
    table,          \* the entries in the table
    held, at,       \* an entry's captures, and its position
    stack,          \* the capture lists; the first is the result list
    results,        \* the result trees a client has not freed
    mode,           \* "idle", "run", "exit" (the end of a run) or "edit"
    dying,          \* the entry being destroyed, or NoEnt
    todo,           \* the calls to make: [do, c, e]
    lost            \* not in the code: the live captures that a destroyed
                    \*   entry owned last

captures == <<live, refs, ment, off, kids, lost>>
entries == <<table, held, at>>
vars == <<captures, entries, stack, results, mode, dying, todo>>

Count(s, c) == Cardinality({i \in DOMAIN s : s[i] = c})

(* memo_capture_ref for every capture of a list.                           *)
Refd(r, s) == [c \in Caps |-> r[c] + Count(s, c)]

Calls(do, s, e) == [i \in DOMAIN s |-> [do |-> do, c |-> s[i], e |-> e]]
Frees(s) == Calls("free", s, NoEnt)

memo_capture_start(c) == IF ment[c] = NoEnt THEN off[c] ELSE at[ment[c]] + off[c]

---------------------------------------------------------------------------
(* The recursive functions of memo.c.                                      *)

Pending(do) == todo # <<>> /\ Head(todo).do = do
Target == Head(todo).c
Return(calls) == todo' = calls \o Tail(todo)

(* Drop a reference; with the last one the capture goes, and its own       *)
(* references to its children.                                             *)
memo_capture_free ==
    /\ Pending("free")
    /\ refs' = [refs EXCEPT ![Target] = @ - 1]
    /\ IF refs[Target] = 1
         THEN /\ live' = live \ {Target} /\ lost' = lost \ {Target}
              /\ kids' = [kids EXCEPT ![Target] = <<>>]
              /\ ment' = [ment EXCEPT ![Target] = NoEnt]
              /\ off' = [off EXCEPT ![Target] = 0]
              /\ Return(Frees(kids[Target]))
         ELSE UNCHANGED <<live, lost, kids, ment, off>> /\ Return(<<>>)
    /\ UNCHANGED <<entries, stack, results, mode, dying>>

capture_set_mentFault ==
    /\ Pending("attach")
    /\ LET e == Head(todo).e IN
         /\ off' = [off EXCEPT ![Target] = @ - at[e]]
         /\ ment' = [ment EXCEPT ![Target] = e]
         /\ lost' = lost \ {Target}
         /\ Return(Calls("attach", kids[Target], e))
    /\ UNCHANGED <<live, refs, kids, entries, stack, results, mode, dying>>

capture_set_mentFlat ==
    /\ Pending("attach")
    /\ LET e == Head(todo).e IN
       IF ment[Target] # NoEnt
         THEN UNCHANGED <<off, ment, lost>> /\ Return(<<>>)
         ELSE /\ off' = [off EXCEPT ![Target] = @ - at[e]]
              /\ ment' = [ment EXCEPT ![Target] = e]
              /\ lost' = lost \ {Target}
              /\ Return(<<>>)
    /\ UNCHANGED <<live, refs, kids, entries, stack, results, mode, dying>>

(* Make an entry the owner of a capture and its descendants.  Where there  *)
(* is an owner already it stops.                                           *)
capture_set_ment ==
    /\ Pending("attach")
    /\ LET e == Head(todo).e IN
       IF ment[Target] # NoEnt
         THEN UNCHANGED <<off, ment, lost>> /\ Return(<<>>)
         ELSE /\ off' = [off EXCEPT ![Target] = @ - at[e]]
              /\ ment' = [ment EXCEPT ![Target] = e]
              /\ lost' = lost \ {Target}
              /\ Return(Calls("attach", kids[Target], e))
    /\ UNCHANGED <<live, refs, kids, entries, stack, results, mode, dying>>

memo_capture_absolutizeFault ==
    /\ Pending("absolutize")
    /\ LET e == Head(todo).e IN
       IF ment[Target] # e
         THEN UNCHANGED <<off, ment, lost>>
         ELSE /\ off' = [off EXCEPT ![Target] = @ + at[e]]
              /\ ment' = [ment EXCEPT ![Target] = NoEnt]
              /\ lost' = lost \union {Target}
    /\ Return(<<>>)
    /\ UNCHANGED <<live, refs, kids, entries, stack, results, mode, dying>>

(* Forget an entry that is being destroyed, in all descendants.            *)
memo_capture_absolutize ==
    /\ Pending("absolutize")
    /\ LET e == Head(todo).e IN
       /\ IF ment[Target] # e
            THEN UNCHANGED <<off, ment, lost>>
            ELSE /\ off' = [off EXCEPT ![Target] = @ + at[e]]
                 /\ ment' = [ment EXCEPT ![Target] = NoEnt]
                 /\ lost' = lost \union {Target}
       /\ Return(Calls("absolutize", kids[Target], e))
    /\ UNCHANGED <<live, refs, kids, entries, stack, results, mode, dying>>

(* free(e), the last statement of table_free_entry.                        *)
EntryGone ==
    /\ dying # NoEnt /\ todo = <<>>
    /\ table' = table \ {dying} /\ dying' = NoEnt
    /\ at' = [at EXCEPT ![dying] = 0]
    /\ UNCHANGED <<captures, held, stack, results, mode, todo>>

---------------------------------------------------------------------------
(* The machine.                                                            *)

Ready(m) == mode = m /\ todo = <<>> /\ dying = NoEnt

Top == stack[Len(stack)]
Below == SubSeq(stack, 1, Len(stack) - 1)
Poppable == Len(stack) > 1
stack_add_capt(st, s) == [st EXCEPT ![Len(st)] = @ \o s]
Fits == /\ \A i \in DOMAIN stack : Len(stack[i]) <= MaxList
        /\ \A c \in Caps : refs[c] <= MaxRefs

(* memo_capture_node and memo_capture_dummy, and memo_capture_add for each *)
(* child; r counts what else this step does.                               *)
NewCapture(c, start, children, r) ==
    /\ c \notin live
    /\ live' = live \union {c}
    /\ off' = [off EXCEPT ![c] = start]
    /\ ment' = [ment EXCEPT ![c] = NoEnt]
    /\ kids' = [kids EXCEPT ![c] = children]
    /\ refs' = Refd([r EXCEPT ![c] = @ + 1], children)
    /\ UNCHANGED lost

(* memo_table_put, or nothing: windowed, below the threshold or empty.     *)
(* Either way memoize takes over one reference to each capture of s.       *)
memoize(s, before) ==
    \/ /\ todo' = before \o Frees(s)
       /\ UNCHANGED entries
    \/ \E e \in Ents \ table, p \in Starts :
         /\ table' = table \union {e}
         /\ held' = [held EXCEPT ![e] = s]
         /\ at' = [at EXCEPT ![e] = p]
         /\ todo' = before \o Calls("attach", s, e)

Push ==
    /\ Ready("run") /\ Len(stack) < MaxDepth
    /\ stack' = Append(stack, <<>>)
    /\ UNCHANGED <<captures, entries, results, mode, dying, todo>>

VM_CAPTURE_FULL ==
    /\ Ready("run")
    /\ \E c \in Caps, p \in Starts :
         /\ NewCapture(c, p, <<>>, Refd(refs, <<c>>))
         /\ stack' = stack_add_capt(stack, <<c>>)
         /\ todo' = Frees(<<c>>)
    /\ UNCHANGED <<entries, results, mode, dying>>
    /\ Fits'

VM_CAPTURE_END ==
    /\ Ready("run") /\ Poppable
    /\ \E c \in Caps, p \in Starts :
         /\ NewCapture(c, p, Top, Refd(refs, <<c>>))
         /\ stack' = stack_add_capt(Below, <<c>>)
         /\ todo' = Frees(Top) \o Frees(<<c>>)
    /\ UNCHANGED <<entries, results, mode, dying>>
    /\ Fits'

(* stack_pop, then entry_clear_capt: unwinding, VM_FAIL_TWICE, and         *)
(* VM_CAPTURE_END outside the window.                                      *)
PopDrop ==
    /\ Ready("run") /\ Poppable
    /\ stack' = Below
    /\ todo' = Frees(Top)
    /\ UNCHANGED <<captures, entries, results, mode, dying>>

(* With propagate: VM_COMMIT, VM_RETURN, VM_BACK_COMMIT,                   *)
(* VM_MEMO_TREE_CLOSE and VM_CHECK_END.                                    *)
PopPropagate ==
    /\ Ready("run") /\ Poppable
    /\ stack' = stack_add_capt(Below, Top)
    /\ refs' = Refd(refs, Top)
    /\ todo' = Frees(Top)
    /\ UNCHANGED <<live, ment, off, kids, lost, entries, results, mode, dying>>
    /\ Fits'

(* VM_PARTIAL_COMMIT: the references move with the pointers.               *)
stack_prop_capt ==
    /\ Ready("run") /\ Poppable
    /\ stack' = Append(stack_add_capt(Below, Top), <<>>)
    /\ UNCHANGED <<captures, entries, results, mode, dying, todo>>
    /\ Fits'

VM_MEMO_CLOSE ==
    /\ Ready("run") /\ Poppable
    /\ stack' = stack_add_capt(Below, Top)
    /\ refs' = Refd(refs, Top)
    /\ memoize(Top, <<>>)
    /\ UNCHANGED <<live, ment, off, kids, lost, results, mode, dying>>
    /\ Fits'

(* Unwinding past a memoized rule: the failure is recorded, with what the  *)
(* rule had captured before it failed.                                     *)
MemoFail ==
    /\ Ready("run") /\ Poppable
    /\ stack' = Below
    /\ memoize(Top, <<>>)
    /\ UNCHANGED <<captures, results, mode, dying>>

(* The hits of VM_MEMO_OPEN and VM_MEMO_TREE_OPEN.                         *)
Hit(e) ==
    /\ Ready("run") /\ e \in table
    /\ stack' = stack_add_capt(stack, held[e])
    /\ refs' = Refd(refs, held[e])
    /\ UNCHANGED <<live, ment, off, kids, lost, entries, results, mode, dying, todo>>
    /\ Fits'

VM_MEMO_TREE_INSERTFault ==
    /\ Ready("run") /\ Poppable
    /\ memoize(Top, <<>>)
    /\ UNCHANGED <<captures, stack, results, mode, dying>>

(* The stack keeps its list, the table gets a copy (capt_copy_ref).        *)
VM_MEMO_TREE_INSERT ==
    /\ Ready("run") /\ Poppable
    /\ refs' = Refd(refs, Top)
    /\ memoize(Top, <<>>)
    /\ UNCHANGED <<live, ment, off, kids, lost, stack, results, mode, dying>>
    /\ Fits'

(* VM_MEMO_TREE, the last entry of a merge: its captures go one level down *)
(* under a dummy, and the list there is memoized again.  (The entries      *)
(* above it go by PopPropagate; so does this one in a windowed pass, which *)
(* makes no dummy.  With nothing to wrap it is PopDrop and an INSERT.)     *)
VM_MEMO_TREE ==
    /\ Ready("run") /\ Len(stack) > 2 /\ Top # <<>>
    /\ \E c \in Caps, p \in Starts :
         LET rest == stack_add_capt(Below, <<c>>)
             list == rest[Len(rest)]
         IN  /\ NewCapture(c, p, Top, Refd(Refd(refs, <<c>>), list))
             /\ stack' = rest
             /\ memoize(list, Frees(Top) \o Frees(<<c>>))
    /\ UNCHANGED <<results, mode, dying>>
    /\ Fits'

(* The end of vm_exec: a dummy over the result list for the client, or     *)
(* nothing if the parse failed.                                            *)
Done ==
    /\ Ready("run")
    /\ mode' = "exit"
    /\ \/ UNCHANGED <<captures, results>>
       \/ \E c \in Caps, p \in Starts :
            /\ NewCapture(c, p, stack[1], refs)
            /\ results' = results \union {c}
    /\ UNCHANGED <<entries, stack, dying, todo>>

stack_destroy ==
    /\ Ready("exit")
    /\ IF stack = <<>>
         THEN mode' = "idle" /\ UNCHANGED <<stack, todo>>
         ELSE stack' = Below /\ todo' = Frees(Top) /\ UNCHANGED mode
    /\ UNCHANGED <<captures, entries, results, dying>>

---------------------------------------------------------------------------
(* The client.                                                             *)

vm_exec ==
    /\ Ready("idle")
    /\ mode' = "run" /\ stack' = <<<<>>>>
    /\ UNCHANGED <<captures, entries, results, dying, todo>>

vm_result_free(c) ==
    /\ Ready("idle") /\ c \in results
    /\ results' = results \ {c} /\ todo' = Frees(<<c>>)
    /\ UNCHANGED <<captures, entries, stack, mode, dying>>

table_free_entryFault(e) ==
    /\ Ready("edit") /\ e \in table
    /\ dying' = e /\ table' = table \ {e}
    /\ held' = [held EXCEPT ![e] = <<>>]
    /\ todo' = Calls("absolutize", held[e], e) \o Frees(held[e])
    /\ UNCHANGED <<captures, at, stack, results, mode>>

(* memo_table_apply_edit: table_free_entry for each evicted entry, then    *)
(* the others behind the edit move.  memo_table_free evicts them all.      *)
memo_table_apply_edit ==
    /\ Ready("idle") /\ mode' = "edit"
    /\ UNCHANGED <<captures, entries, stack, results, dying, todo>>

table_free_entry(e) ==
    /\ Ready("edit") /\ e \in table
    /\ dying' = e
    /\ held' = [held EXCEPT ![e] = <<>>]        \* its references are in todo
    /\ todo' = Calls("absolutize", held[e], e) \o Frees(held[e])
    /\ UNCHANGED <<captures, table, at, stack, results, mode>>

Shift(from, amt) ==
    /\ Ready("edit") /\ mode' = "idle"
    /\ at' = [e \in Ents |-> IF e \in table /\ at[e] >= from THEN at[e] + amt ELSE at[e]]
    /\ \A e \in table : at'[e] \in Positions
    /\ \A c \in live : ment[c] # NoEnt => at'[ment[c]] + off[c] \in Positions
    /\ UNCHANGED <<captures, table, held, stack, results, dying, todo>>

Init ==
    /\ live = {} /\ lost = {}
    /\ refs = [c \in Caps |-> 0] /\ ment = [c \in Caps |-> NoEnt]
    /\ off = [c \in Caps |-> 0] /\ kids = [c \in Caps |-> <<>>]
    /\ table = {} /\ held = [e \in Ents |-> <<>>] /\ at = [e \in Ents |-> 0]
    /\ stack = <<>> /\ results = {}
    /\ mode = "idle" /\ dying = NoEnt /\ todo = <<>>

Next ==
    \/ memo_capture_free \/ capture_set_ment \/ memo_capture_absolutize
    \/ EntryGone
    \/ Push \/ VM_CAPTURE_FULL \/ VM_CAPTURE_END \/ PopDrop \/ PopPropagate
    \/ stack_prop_capt \/ VM_MEMO_CLOSE \/ MemoFail
    \/ \E e \in Ents : Hit(e)
    \/ VM_MEMO_TREE_INSERT \/ VM_MEMO_TREE \/ Done \/ stack_destroy
    \/ vm_exec
    \/ \E c \in Caps : vm_result_free(c)
    \/ memo_table_apply_edit
    \/ \E e \in Ents : table_free_entry(e)
    \/ \E from \in Positions, amt \in {-1, 0, 1} : Shift(from, amt)

Spec == Init /\ [][Next]_vars

---------------------------------------------------------------------------
(* Properties.                                                             *)

(* The types of the fields, and that a capture and an entry are destroyed  *)
(* only once.                                                              *)
TypeOK ==
    /\ live \subseteq Caps /\ lost \subseteq live
    /\ refs \in [Caps -> Nat] /\ ment \in [Caps -> Ents \union {NoEnt}]
    /\ off \in [Caps -> Int] /\ kids \in [Caps -> Seq(Caps)]
    /\ table \subseteq Ents /\ held \in [Ents -> Seq(Caps)] /\ at \in [Ents -> Int]
    /\ stack \in Seq(Seq(Caps)) /\ results \subseteq Caps
    /\ mode \in {"idle", "run", "exit", "edit"} /\ dying \in table \union {NoEnt}
    /\ todo \in Seq([do : {"free", "attach", "absolutize"}, c : Caps,
                     e : Ents \union {NoEnt}])

(* The places of a family of lists where c is.                             *)
InLists(kind, D, lists, c) ==
    UNION {{<<kind, i, j>> : j \in {j \in DOMAIN lists[i] : lists[i][j] = c}} : i \in D}

(* The pointers to a capture that carry a reference.                       *)
Holders(c) ==
    InLists("stack", DOMAIN stack, stack, c)
    \union InLists("entry", table, held, c)
    \union InLists("kid", live, kids, c)
    \union {<<"client", r, 0>> : r \in results \intersect {c}}
    \union {<<"todo", 0, j>> :
              j \in {j \in DOMAIN todo : todo[j].do = "free" /\ todo[j].c = c}}

(* "Every container that stores a capture pointer ... holds one reference  *)
(* per pointer" (memo.h:91-93), and a capture is freed with the last: none *)
(* is freed while something points to it, and none is forgotten.           *)
RefsCountHolders ==
    \A c \in Caps : /\ refs[c] = Cardinality(Holders(c))
                    /\ c \in live <=> refs[c] > 0

(* "no dangling `ment` can survive" (memo.h:101-103): a live capture's     *)
(* owner is an entry of the table, even while the entry is destroyed, and  *)
(* what the recursive functions visit has not been freed.                  *)
NoDangling ==
    /\ \A c \in live : ment[c] # NoEnt => ment[c] \in table
    /\ \A i \in DOMAIN todo : todo[i].c \in live

(* What an entry holds moves with an entry: its captures and the children  *)
(* of owned captures are owned, save those whose owner has been destroyed. *)
Attached ==
    todo = <<>> =>
        /\ \A e \in table : \A i \in DOMAIN held[e] :
             ment[held[e][i]] # NoEnt \/ held[e][i] \in lost
        /\ \A c \in live : ment[c] # NoEnt =>
             \A i \in DOMAIN kids[c] : ment[kids[c][i]] # NoEnt \/ kids[c][i] \in lost

(* The position of a capture changes only because its entry moves: being   *)
(* attached, shared by a hit, or outliving its entry does not change it.   *)
Moves(c) == memo_capture_start(c)' # memo_capture_start(c)
PositionsKept ==
    [][\A c \in live \intersect live' : Moves(c) =>
         /\ ment[c] \in table /\ ment'[c] = ment[c]
         /\ at'[ment[c]] # at[ment[c]]]_vars
=============================================================================
