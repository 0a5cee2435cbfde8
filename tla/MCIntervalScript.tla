-------------------------- MODULE MCIntervalScript --------------------------
(***************************************************************************)
(* IntervalTree for model checking: from the empty tree with every order   *)
(* of calls, or on a larger tree that a script of insertions builds first. *)
(***************************************************************************)
EXTENDS MCIntervalTree

VARIABLES
    script,     \* the insertions still to be made
    unscripted  \* there is no script

(* The first two scripts build trees of height three and four through      *)
(* single and double rotations.  The third builds one whose root has two   *)
(* grandchildren of height two on the left, and on the right a subtree     *)
(* that one edit removes altogether.                                       *)
Ascending == <<Iv(1, 0, 2), Iv(1, 2, 5), Iv(1, 4, 6),
               Iv(2, 4, 8), Iv(1, 6, 8), Iv(1, 8, 10)>>
ZigZag == <<Iv(1, 6, 9), Iv(1, 0, 3), Iv(1, 8, 10),
            Iv(1, 3, 5), Iv(1, 2, 4), Iv(1, 4, 6)>>
Bushy == <<Iv(1, 4, 6), Iv(1, 2, 4), Iv(1, 6, 8), Iv(1, 1, 2),
           Iv(1, 3, 4), Iv(1, 7, 8), Iv(1, 0, 1), Iv(2, 3, 5)>>
DeepEdits == {Ed(1, 2, 1), Ed(6, 8, -2), Ed(5, 8, 0), Ed(4, 5, -1)}

TreeAdds == LazyAdds \union UNION {ToSet(s) : s \in {Ascending, ZigZag, Bushy}}
TreeEdits == LazyEdits \union DeepEdits

Scripted ==
    /\ ~ unscripted /\ script # <<>>
    /\ itree_add(Head(script))
    /\ script' = Tail(script) /\ UNCHANGED unscripted

(* No more insertions, and the edits and pending shifts of the run.        *)
Edited(edits, pending) ==
    /\ ~ unscripted /\ script = <<>>
    /\ Calls({}, edits, Ids \X Positions) /\ tstamp' <= pending
    /\ UNCHANGED <<script, unscripted>>

(* Three intervals at most.                                                *)
Free ==
    /\ unscripted /\ Calls(LazyAdds, LazyEdits, {1} \X (0 .. 8))
    /\ StoredVals(root') \subseteq 1 .. 3
    /\ UNCHANGED <<script, unscripted>>

allVars == <<vars, script, unscripted>>

(* Run "tree".                                                             *)
TreeInit == Init /\ \/ unscripted = TRUE /\ script = <<>>
                    \/ unscripted = FALSE /\ script \in {Ascending, ZigZag, Bushy}
TreeSpec == TreeInit /\ [][Scripted \/ Edited(DeepEdits, 1) \/ Free]_allVars

(* Run "ties": three intervals of one group, the last two equally long.    *)
Group == <<Iv(1, 0, 5), Iv(1, 0, 3), Iv(1, 0, 3)>>
TiesAdds == ToSet(Group)
TiesEdits == {Ed(4, 5, 0), Ed(6, 7, 1)}
TiesInit == Init /\ unscripted = FALSE /\ script = Group
TiesSpec == TiesInit /\ [][Scripted \/ Edited(TiesEdits, 1)]_allVars

(* "Ties are broken by insertion order (the earliest inserted of the       *)
(* equally-long intervals wins)" (interval_tree.h, of itree_find_largest). *)
(* Values are handed out in increasing order while the script runs.        *)
EarliestInsertedWins ==
    \A iv, jv \in Contents :
        (ret = [found |-> iv.val] /\ jv.id = iv.id /\ jv.low = iv.low
           /\ jv.high = iv.high) => iv.val <= jv.val
=============================================================================
