---------------------------- MODULE IntervalTree ----------------------------
(***************************************************************************)
(* src/interval_tree.c: the interval map behind the memoization table, an  *)
(* AVL tree whose nodes absorb position shifts lazily.                     *)
(*                                                                         *)
(* A C node is a record; NULL is the empty subtree, and in-place updates   *)
(* return the new subtree.  Field names follow the C structures, except    *)
(*   pos, id     key.pos and key.id                                        *)
(*   ts          tstamp, the newest shift the node has absorbed            *)
(*   nid         the node's address                                        *)
(*   iv          the interval group: ins, its array, and node, the address *)
(*               of the owning node, which is what itree_loc_pos follows.  *)
(* The array's capacity doubling and malloc failure are left out.          *)
(***************************************************************************)
EXTENDS Integers, Sequences, FiniteSets, SequencesExt

CONSTANTS
    NULL,           \* the C null pointer
    Vals,           \* values that can be stored, a set of numbers
    Ids,            \* interval labels
    Adds,           \* intervals the client inserts, [id, low, high]
    Edits,          \* edits the client makes, [low, high, amt]
    MaxShifts,      \* bound: shifts recorded in the life of a tree
    MaxPos          \* bound: no interval is moved beyond it

ASSUME BoundsAssumption == MaxShifts \in Nat /\ MaxPos \in Nat

(* The header requires low <= high; memo_table_put always adds an interval *)
(* of at least one byte.                                                   *)
ASSUME AddsAssumption ==
    \A a \in Adds : a.id \in Ids /\ a.low \in Nat /\ a.low < a.high

(* "callers must ensure that [a negative shift may not move intervals onto *)
(* others], i.e. that the caller's coordinate space stays consistent"      *)
(* (interval_tree.h): an edit deletes no more than it covers.              *)
ASSUME EditsAssumption ==
    \A e \in Edits : /\ e.low \in Nat /\ e.high \in Nat /\ e.amt \in Int
                     /\ e.low < e.high
                     /\ e.amt >= e.low - e.high

VARIABLES
    root,           \* the tree, NULL or a node
    shifts,         \* the append-only log, a sequence of [idx, amt, ts]
    tstamp,         \* timestamp of the newest shift
    ret             \* the answer of the last operation

vars == <<root, shifts, tstamp, ret>>

NodeIds == 1 .. Cardinality(Vals)
Positions == 0 .. MaxPos

RECURSIVE Nodes(_)
Nodes(n) == IF n = NULL THEN {} ELSE {n} \union Nodes(n.l) \union Nodes(n.r)

GroupVals(n) == {iv.val : iv \in ToSet(n.iv.ins)}
StoredVals(n) == UNION {GroupVals(m) : m \in Nodes(n)}

---------------------------------------------------------------------------
(* Small helpers.                                                          *)

iv_max(a, b) == IF a > b THEN a ELSE b

(* The first key is smaller, larger or equal: -1, 1 or 0.                  *)
iv_key_cmp(pos1, id1, pos2, id2) ==
    CASE pos1 < pos2 \/ (pos1 = pos2 /\ id1 < id2) -> -1
      [] pos1 > pos2 \/ (pos1 = pos2 /\ id1 > id2) -> 1
      [] OTHER -> 0

iv_group_high(ins) == Max({0} \union {iv.high : iv \in ToSet(ins)})

iv_overlaps(iv, low, high) == iv.low < high /\ iv.high > low

iv_group_shift(ins, amt) ==
    [i \in DOMAIN ins |-> [ins[i] EXCEPT !.low = @ + amt, !.high = @ + amt]]

MaxOf(n) == IF n = NULL THEN 0 ELSE n.max
HeightOf(n) == IF n = NULL THEN 0 ELSE n.height

(* The stored maximum grows and never shrinks.                             *)
iv_update_max(n) ==
    LET m == iv_max(iv_group_high(n.iv.ins), iv_max(MaxOf(n.l), MaxOf(n.r)))
    IN  [n EXCEPT !.max = iv_max(@, m)]

iv_update_height(n) ==
    [n EXCEPT !.height = 1 + iv_max(HeightOf(n.l), HeightOf(n.r))]

iv_balance(n) == HeightOf(n.l) - HeightOf(n.r)

---------------------------------------------------------------------------
(* Lazy shift application.                                                 *)

iv_apply_shift(n, s) ==
    IF n.ts >= s.ts
      THEN n
      ELSE LET moves == n.max >= s.idx
               here  == moves /\ n.pos >= s.idx
           IN  [n EXCEPT !.ts = s.ts,
                         !.max = IF moves THEN @ + s.amt ELSE @,
                         !.pos = IF here THEN @ + s.amt ELSE @,
                         !.iv.ins = IF here THEN iv_group_shift(@, s.amt) ELSE @]

iv_apply_shifts(n) ==
    IF shifts = <<>>
      THEN n
      ELSE LET pending == SelectSeq(shifts, LAMBDA s : s.ts > n.ts)
           IN  iv_update_max(FoldLeft(iv_apply_shift, n, pending))

iv_record_shiftFault(idx, amt) ==   \* mutant: tstamp++ forgotten
    IF amt = 0
      THEN UNCHANGED <<shifts, tstamp>>
      ELSE /\ tstamp' = tstamp
           /\ shifts' = Append(shifts, [idx |-> idx, amt |-> amt, ts |-> tstamp'])

iv_record_shift(idx, amt) ==
    IF amt = 0
      THEN UNCHANGED <<shifts, tstamp>>
      ELSE /\ tstamp' = tstamp + 1
           /\ shifts' = Append(shifts, [idx |-> idx, amt |-> amt, ts |-> tstamp'])

---------------------------------------------------------------------------
(* AVL rebalancing.                                                        *)

iv_rotate_left(n0) ==
    LET n    == iv_apply_shifts(n0)
        nr   == iv_apply_shifts(n.r)
        down == iv_update_max(iv_update_height([n EXCEPT !.r = nr.l]))
    IN  iv_update_max(iv_update_height([nr EXCEPT !.l = down]))

iv_rotate_right(n0) ==
    LET n    == iv_apply_shifts(n0)
        nr   == iv_apply_shifts(n.l)
        down == iv_update_max(iv_update_height([n EXCEPT !.l = nr.r]))
    IN  iv_update_max(iv_update_height([nr EXCEPT !.r = down]))

(* Handles any imbalance: an edit can empty a whole subtree, so after a    *)
(* rotation both the demoted node and the new root are rebalanced again.   *)
RECURSIVE iv_rebalance(_)
iv_rebalanceFault(n0) ==    \* mutant: textbook AVL, one rotation is enough
    IF n0 = NULL THEN NULL
    ELSE LET n == iv_update_max(iv_update_height(n0)) IN
      CASE iv_balance(n) > 1 ->
             iv_rotate_right(IF iv_balance(n.l) < 0
                               THEN [n EXCEPT !.l = iv_rotate_left(@)] ELSE n)
        [] iv_balance(n) < -1 ->
             iv_rotate_left(IF iv_balance(n.r) > 0
                              THEN [n EXCEPT !.r = iv_rotate_right(@)] ELSE n)
        [] OTHER -> n

iv_rebalance(n0) ==
    IF n0 = NULL THEN NULL
    ELSE LET n == iv_update_max(iv_update_height(n0)) IN
      CASE iv_balance(n) > 1 ->
             LET a == IF iv_balance(n.l) < 0
                        THEN [n EXCEPT !.l = iv_rotate_left(@)] ELSE n
                 b == iv_rotate_right(a)
             IN  iv_rebalance([b EXCEPT !.r = iv_rebalance(@)])
        [] iv_balance(n) < -1 ->
             LET a == IF iv_balance(n.r) > 0
                        THEN [n EXCEPT !.r = iv_rotate_right(@)] ELSE n
                 b == iv_rotate_left(a)
             IN  iv_rebalance([b EXCEPT !.l = iv_rebalance(@)])
        [] OTHER -> n

---------------------------------------------------------------------------
(* Insertion.  A new node is allocated at the address nid and is current   *)
(* with the log; an existing group takes the interval at its end.          *)

NewInterval(a, v) == [val |-> v, low |-> a.low, high |-> a.high]

RECURSIVE iv_add(_, _, _, _)
iv_add(n0, a, v, nid) ==
    IF n0 = NULL
      THEN [nid |-> nid, pos |-> a.low, id |-> a.id, max |-> a.high,
            ts |-> tstamp, height |-> 1, l |-> NULL, r |-> NULL,
            iv |-> [ins |-> <<NewInterval(a, v)>>, node |-> nid]]
      ELSE LET n == iv_apply_shifts(n0)
               c == iv_key_cmp(a.low, a.id, n.pos, n.id)
           IN  iv_rebalance(
                 CASE c < 0 -> [n EXCEPT !.l = iv_add(@, a, v, nid)]
                   [] c > 0 -> [n EXCEPT !.r = iv_add(@, a, v, nid)]
                   [] OTHER -> [n EXCEPT !.iv.ins = Append(@, NewInterval(a, v)),
                                         !.ts = tstamp])

---------------------------------------------------------------------------
(* Deletion.                                                               *)

(* The leftmost node, its left spine brought up to date on the way ...     *)
RECURSIVE iv_find_smallest(_)
iv_find_smallest(n) ==
    IF n.l = NULL THEN n ELSE iv_find_smallest(iv_apply_shifts(n.l))

(* Node n takes over the group g: the group's back pointer follows.        *)
AdoptFault(n, g) == g       \* mutant: the back pointer is not updated
Adopt(n, g) == [g EXCEPT !.node = n.nid]

(* ... and the subtree that leaves behind, where the leftmost node has     *)
(* received the group g in exchange for its own.                           *)
RECURSIVE SwapSmallest(_, _)
SwapSmallest(n, g) ==
    IF n.l = NULL
      THEN [n EXCEPT !.iv = Adopt(n, g)]
      ELSE [n EXCEPT !.l = SwapSmallest(iv_apply_shifts(@), g)]

RECURSIVE iv_remove(_, _, _)
iv_remove(n0, pos, id) ==
    IF n0 = NULL THEN NULL
    ELSE
      LET n == iv_apply_shifts(n0)
          c == iv_key_cmp(pos, id, n.pos, n.id)
      IN  iv_rebalance(
            CASE c < 0 -> [n EXCEPT !.l = iv_remove(@, pos, id)]
              [] c > 0 -> [n EXCEPT !.r = iv_remove(@, pos, id)]
              [] c = 0 /\ n.l = NULL /\ n.r = NULL -> NULL
              [] c = 0 /\ n.l # NULL /\ n.r = NULL -> iv_apply_shifts(n.l)
              [] c = 0 /\ n.l = NULL /\ n.r # NULL -> iv_apply_shifts(n.r)
              [] OTHER ->
                   LET right == iv_apply_shifts(n.r)
                       succ  == iv_find_smallest(right)
                       rest  == SwapSmallest(right, n.iv)
                   IN  [n EXCEPT !.l = iv_apply_shifts(@),
                                 !.pos = succ.pos, !.id = succ.id,
                                 !.iv = Adopt(n, succ.iv),
                                 !.ts = succ.ts,
                                 !.r = iv_remove(rest, succ.pos, succ.id)])

(* Drop the overlapping members of a group: each one is overwritten by the *)
(* last member, which is then examined in its place.                       *)
RECURSIVE DropOverlaps(_, _, _, _)
DropOverlaps(ins, i, low, high) ==
    CASE i > Len(ins) -> ins
      [] i <= Len(ins) /\ iv_overlaps(ins[i], low, high) ->
           DropOverlaps(Front([ins EXCEPT ![i] = Last(ins)]), i, low, high)
      [] OTHER -> DropOverlaps(ins, i + 1, low, high)

RECURSIVE iv_remove_overlaps(_, _, _)
iv_remove_overlapsFault(n0, low, high) ==  \* mutant: no restart after a deletion
    IF n0 = NULL THEN NULL
    ELSE
      LET a == iv_apply_shifts(n0)
          n == [a EXCEPT !.l = iv_remove_overlaps(@, low, high),
                         !.iv.ins = DropOverlaps(@, 1, low, high)]
      IN  IF low > a.max
            THEN a
            ELSE iv_rebalance(
                   CASE n.iv.ins = <<>> -> iv_remove(n, n.pos, n.id)
                     [] n.iv.ins # <<>> /\ high >= n.pos ->
                          [n EXCEPT !.r = iv_remove_overlaps(@, low, high)]
                     [] OTHER -> n)

iv_remove_overlaps(n0, low, high) ==
    IF n0 = NULL THEN NULL
    ELSE
      LET a == iv_apply_shifts(n0)
          n == [a EXCEPT !.l = iv_remove_overlaps(@, low, high),
                         !.iv.ins = DropOverlaps(@, 1, low, high)]
          removed == iv_remove(n, n.pos, n.id)
      IN  IF low > a.max
            THEN a
            ELSE iv_rebalance(
                   CASE n.iv.ins = <<>> /\ high >= n.pos ->
                          iv_remove_overlaps(removed, low, high)
                     [] n.iv.ins = <<>> /\ high < n.pos -> removed
                     [] n.iv.ins # <<>> /\ high >= n.pos ->
                          [n EXCEPT !.r = iv_remove_overlaps(@, low, high)]
                     [] OTHER -> n)

---------------------------------------------------------------------------
(* Traversals.                                                             *)

(* The search path of itree_find_largest is brought up to date.            *)
RECURSIVE SearchPath(_, _, _)
SearchPath(n0, pos, id) ==
    IF n0 = NULL THEN NULL
    ELSE LET n == iv_apply_shifts(n0)
             c == iv_key_cmp(pos, id, n.pos, n.id)
         IN  CASE c < 0 -> [n EXCEPT !.l = SearchPath(@, pos, id)]
               [] c > 0 -> [n EXCEPT !.r = SearchPath(@, pos, id)]
               [] OTHER -> n

(* The group found at the end of that path.                                *)
RECURSIVE Found(_, _, _)
Found(n, pos, id) ==
    IF n = NULL THEN <<>>
    ELSE LET c == iv_key_cmp(pos, id, n.pos, n.id)
         IN  CASE c < 0 -> Found(n.l, pos, id)
               [] c > 0 -> Found(n.r, pos, id)
               [] OTHER -> n.iv.ins

(* The first of the longest intervals of a group.                          *)
Largest(ins) ==
    LET len(iv) == iv.high - iv.low
    IN  FoldLeft(LAMBDA best, iv : IF len(iv) > len(best) THEN iv ELSE best,
                 Head(ins), Tail(ins))

RECURSIVE iv_size(_)
iv_size(n) ==
    IF n = NULL THEN 0 ELSE iv_size(n.l) + iv_size(n.r) + Len(n.iv.ins)

(* iv_each visits in key order, applying shifts to a node between its left *)
(* and its right subtree: the tree afterwards, and the calls it makes.     *)
RECURSIVE EachTree(_)
EachTree(n) ==
    IF n = NULL THEN NULL
    ELSE LET m == iv_apply_shifts([n EXCEPT !.l = EachTree(@)])
         IN  [m EXCEPT !.r = EachTree(@)]

Labelled(n) == [i \in DOMAIN n.iv.ins |->
                 [val |-> n.iv.ins[i].val, id |-> n.id,
                  low |-> n.iv.ins[i].low, high |-> n.iv.ins[i].high]]

RECURSIVE EachCalls(_)
EachCalls(n) ==
    IF n = NULL THEN <<>> ELSE EachCalls(n.l) \o Labelled(n) \o EachCalls(n.r)

RECURSIVE iv_apply_all(_)
iv_apply_all(n) ==
    IF n = NULL THEN NULL
    ELSE iv_apply_shifts([n EXCEPT !.l = iv_apply_all(@), !.r = iv_apply_all(@)])

(* Bring the node at address nid up to date, and it alone.                 *)
RECURSIVE ApplyAt(_, _)
ApplyAt(n, nid) ==
    IF n = NULL THEN NULL
    ELSE IF n.nid = nid THEN iv_apply_shifts(n)
    ELSE [n EXCEPT !.l = ApplyAt(@, nid), !.r = ApplyAt(@, nid)]

(* itree_free: rotate the minimum to the root, free it, continue with its  *)
(* right subtree.  The addresses freed, in order.                          *)
RECURSIVE FreeOrder(_)
FreeOrderFault(n) ==    \* mutant: the root is pulled off without rotating
    IF n = NULL THEN <<>> ELSE <<n.nid>> \o FreeOrder(n.r)

FreeOrder(n) ==
    IF n = NULL THEN <<>>
    ELSE IF n.l = NULL THEN <<n.nid>> \o FreeOrder(n.r)
    ELSE FreeOrder(iv_rotate_right([n EXCEPT !.l = iv_apply_shifts(@)]))

---------------------------------------------------------------------------
(* The public operations.                                                  *)

Init == root = NULL /\ shifts = <<>> /\ tstamp = 0 /\ ret = [done |-> TRUE]

(* An interval is added with a value that is not stored, and a new node,   *)
(* if one is needed, takes an address that is not in use.                  *)
itree_add(a) ==
    LET free == Vals \ StoredVals(root)
        nids == NodeIds \ {n.nid : n \in Nodes(root)}
        least(S) == CHOOSE x \in S : \A y \in S : x <= y
    IN  /\ free # {}
        /\ root' = iv_add(root, a, least(free), least(nids))
        /\ ret' = [added |-> least(free)]
        /\ UNCHANGED <<shifts, tstamp>>

itree_find_largest(id, pos) ==
    LET tree == SearchPath(root, pos, id)
        ins  == Found(tree, pos, id)
    IN  /\ root' = tree
        /\ ret' = [found |-> IF ins = <<>> THEN NULL ELSE Largest(ins).val]
        /\ UNCHANGED <<shifts, tstamp>>

itree_remove_and_shift_cb(low, high, amt) ==
    /\ amt = 0 \/ tstamp < MaxShifts
    /\ \A n \in Nodes(iv_apply_all(root)) : \A iv \in ToSet(n.iv.ins) :
           iv.high + iv_max(amt, 0) <= MaxPos
    /\ root' = iv_remove_overlaps(root, low, high)
    /\ ret' = [evicted |-> StoredVals(root) \ StoredVals(root')]
    /\ iv_record_shift(low, amt)

itree_loc_pos(v) ==
    \E n \in Nodes(root) :
      /\ v \in GroupVals(n)
      /\ root' = ApplyAt(root, n.iv.node)
      /\ \E owner \in Nodes(root') :
            owner.nid = n.iv.node /\ ret' = [pos |-> owner.pos]
      /\ UNCHANGED <<shifts, tstamp>>

itree_each ==
    /\ root' = EachTree(root)
    /\ ret' = [each |-> EachCalls(root')]
    /\ UNCHANGED <<shifts, tstamp>>

itree_size ==
    /\ ret' = [size |-> iv_size(root)]
    /\ UNCHANGED <<root, shifts, tstamp>>

itree_apply_all_shifts ==
    /\ root' = iv_apply_all(root)
    /\ shifts' = <<>>
    /\ ret' = [done |-> TRUE]
    /\ UNCHANGED tstamp

(* The tree is freed and the client creates another (peg_parse does).      *)
itree_free ==
    /\ root' = NULL /\ shifts' = <<>> /\ tstamp' = 0
    /\ ret' = [done |-> TRUE]

Calls(adds, edits, queries) ==
    \/ \E a \in adds : itree_add(a)
    \/ \E q \in queries : itree_find_largest(q[1], q[2])
    \/ \E e \in edits : itree_remove_and_shift_cb(e.low, e.high, e.amt)
    \/ \E v \in Vals : itree_loc_pos(v)
    \/ itree_each
    \/ itree_size
    \/ itree_apply_all_shifts
    \/ itree_free

Next == Calls(Adds, Edits, Ids \X Positions)

Spec == Init /\ [][Next]_vars

---------------------------------------------------------------------------
(* Properties.                                                             *)

(* Shape of the state: node records over the declared sets, and a log      *)
(* whose timestamps increase strictly up to the tree's own, as the replay  *)
(* of "the pending suffix" in iv_apply_shifts supposes.                    *)
TypeOK ==
    /\ \A n \in Nodes(root) :
         /\ n.nid \in NodeIds /\ n.id \in Ids /\ n.pos \in Int /\ n.max \in Int
         /\ n.ts \in 0 .. tstamp /\ n.height \in Nat
         /\ GroupVals(n) \subseteq Vals
    /\ tstamp \in 0 .. MaxShifts
    /\ \A i \in DOMAIN shifts :
         /\ shifts[i].ts \in 1 .. tstamp
         /\ i > 1 => shifts[i].ts > shifts[i - 1].ts

(* Where an interval of node n really is: the shifts n has not absorbed    *)
(* yet, each moving exactly the intervals that start at or after its index *)
(* ("Shifts move exactly the intervals whose start is >= the shift index", *)
(* interval_tree.h).                                                       *)
Located(n, iv) ==
    LET move(j, s) == IF j.low >= s.idx
                        THEN [j EXCEPT !.low = @ + s.amt, !.high = @ + s.amt]
                        ELSE j
    IN  FoldLeft(move, iv, SelectSeq(shifts, LAMBDA s : s.ts > n.ts))

Contents == UNION {{Located(n, iv) : iv \in ToSet(Labelled(n))} : n \in Nodes(root)}

Array == INSTANCE IntervalArray WITH ivals <- Contents

(* The lazy tree is indistinguishable from the eager array: every          *)
(* operation, in every order, answers as the array does and leaves the     *)
(* same intervals at the same positions, whichever nodes happen to lag     *)
(* behind the log.                                                         *)
ImplementsArray == Array!Spec

(* "lazy application produces the same positions" (interval_tree.h, of     *)
(* itree_apply_all_shifts): replaying the log node by node, as             *)
(* iv_apply_shifts does, leaves every interval where it really is.         *)
LazyEqualsEager ==
    UNION {ToSet(Labelled(n)) : n \in Nodes(iv_apply_all(root))} = Contents

(* itree_verify(): with all shifts applied, keys are strictly ordered, no  *)
(* group is empty, every interval starts at its node's key, heights are    *)
(* right, the tree is AVL balanced and no stored maximum under-estimates   *)
(* the subtree it prunes.                                                  *)
iv_verify_node(n) ==
    /\ \A m \in Nodes(n.l) : iv_key_cmp(m.pos, m.id, n.pos, n.id) < 0
    /\ \A m \in Nodes(n.r) : iv_key_cmp(m.pos, m.id, n.pos, n.id) > 0
    /\ n.iv.ins # <<>>
    /\ \A iv \in ToSet(n.iv.ins) : iv.low = n.pos /\ iv.high >= iv.low
    /\ n.height = 1 + iv_max(HeightOf(n.l), HeightOf(n.r))
    /\ iv_balance(n) \in -1 .. 1
    /\ n.max >= iv_group_high(n.iv.ins)
    /\ n.max >= MaxOf(n.l) /\ n.max >= MaxOf(n.r)

itree_verify == \A n \in Nodes(iv_apply_all(root)) : iv_verify_node(n)

(* "A handle stays valid as long as the interval it was created for has    *)
(* not been removed": after groups are swapped between nodes the back      *)
(* pointer of each group is the node that holds it, and no two live nodes  *)
(* share an address.                                                       *)
HandlesFollowGroups ==
    /\ \A n \in Nodes(root) : n.iv.node = n.nid
    /\ \A m, n \in Nodes(root) : m.nid = n.nid => m = n

(* itree_free's rotation loop terminates and frees each node exactly once, *)
(* whatever shifts are still pending.                                      *)
FreesEveryNodeOnce ==
    LET order == FreeOrder(root)
    IN  /\ ToSet(order) = {n.nid : n \in Nodes(root)}
        /\ Len(order) = Cardinality(Nodes(root))
=============================================================================
