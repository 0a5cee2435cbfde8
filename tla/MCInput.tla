------------------------------ MODULE MCInput ------------------------------
(***************************************************************************)
(* Input with chunks of two bytes and subjects of up to five: one to three *)
(* chunks, the last one full, partial or empty.                            *)
(***************************************************************************)
EXTENDS Input

TextsOfAB == UNION {[1 .. k -> {"a", "b"}] : k \in 0 .. 5}
UpTo3 == 0 .. 3
UpTo5 == 0 .. 5
SetsOfAB == {{"a"}, {"a", "b"}}
=============================================================================
