------------------------------ MODULE MCRules ------------------------------
(***************************************************************************)
(* Rules within the bounds of BoundedPeg, with two honest rules: a run of  *)
(* as, which the first other byte or the end decides, and a b before an a, *)
(* which fails on one byte or on two.  Of a third anything is recorded.    *)
(***************************************************************************)
EXTENDS Rules, BoundedPeg

CONSTANT Undecided      \* no verdict

(* Longer texts come about by edits.                                       *)
ShortTexts == UNION {[1 .. k -> Bytes] : k \in 0 .. MaxLen - 1}

Length(n) == [length |-> n, res |-> "result"]
TheVerdict(id, seen) ==
    LET n == Cardinality(DOMAIN seen)
        others == {i \in DOMAIN seen : seen[i] # "a"}
    IN  CASE id = "run" -> IF others = {} THEN Undecided
                           ELSE Length(CHOOSE i \in others : \A j \in others : i <= j)
          [] id = "before" ->
               IF n = 0 THEN Undecided
               ELSE IF seen[0] # "b" THEN Length(-1)
               ELSE IF n = 1 THEN Undecided
               ELSE IF seen[1] = "a" THEN Length(1) ELSE Length(-1)

BoundedRuleNext ==
    \/ \E data \in Inputs : peg_parse(data)
    \/ /\ Cardinality(table) < MaxEntries
       /\ \E id \in Ids \intersect Honest, start \in 0 .. MaxLen, n \in 0 .. MaxExamined,
             examined \in 1 .. MaxExamined : record(id, start, n, examined)
    \/ /\ Cardinality(table) < MaxEntries
       /\ \E id \in Ids \ Honest, start \in 0 .. MaxLen, length \in -1 .. MaxLen,
             examined \in 1 .. MaxExamined, res \in Results :
               memoize(id, start, length, examined, res)
    \/ \E start, end \in 0 .. MaxLen, new \in Inputs : BoundedEdit(start, end, new)
    \/ \E low, high \in 0 .. MaxLen : peg_capture_interval(low, high)

BoundedRuleSpec == Init /\ [][BoundedRuleNext]_vars
=============================================================================
