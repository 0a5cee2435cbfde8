----------------------------- MODULE FlatInput -----------------------------
(***************************************************************************)
(* What the parsing machine expects of its input (src/vm.c): a subject     *)
(* read at a position, with a tracker of the furthest position read.  No   *)
(* trace of the chunks Input reads it through.                             *)
(***************************************************************************)
EXTENDS Subject

CONSTANTS
    Subjects,       \* the texts that are parsed
    Steps,          \* byte counts given to input_advance
    Offsets,        \* positions given to input_seek_to
    Sets,           \* character sets given to input_span
    MaxPos          \* bound: how far past the end a position may go

VARIABLES
    data,           \* the subject
    pos,            \* the current position
    furthest,       \* the furthest position ever read
    ret             \* what the last call returned

vars == <<data, pos, furthest, ret>>

Init == data \in Subjects /\ pos = 0 /\ furthest = 0 /\ ret = [done |-> TRUE]

Track(f, p) == IF p > f THEN p ELSE f

Peek ==
    /\ ret' = [byte |-> ByteAt(data, pos)]
    /\ furthest' = Track(furthest, pos)
    /\ UNCHANGED <<data, pos>>

Advance(n) ==
    /\ pos + n <= MaxPos
    /\ pos' = pos + n
    /\ ret' = [ok |-> pos + n <= Len(data)]
    /\ UNCHANGED <<data, furthest>>

Seek(p) ==
    /\ pos' = p /\ ret' = [done |-> TRUE]
    /\ UNCHANGED <<data, furthest>>

(* To the first position from here whose byte is not in S.                 *)
Span(S) ==
    \E q \in pos .. pos + Len(data) :
        /\ \A r \in pos .. q - 1 : ByteAt(data, r) \in S
        /\ ByteAt(data, q) \notin S
        /\ pos' = q
        /\ furthest' = Track(furthest, q)
        /\ ret' = [done |-> TRUE]
        /\ UNCHANGED data

Next ==
    \/ Peek
    \/ \E n \in Steps : Advance(n)
    \/ \E p \in Offsets : Seek(p)
    \/ \E S \in Sets : Span(S)

Spec == Init /\ [][Next]_vars
=============================================================================
