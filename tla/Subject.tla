------------------------------ MODULE Subject ------------------------------
(***************************************************************************)
(* The subject text of a parse: bytes read at offsets from 0.              *)
(***************************************************************************)
EXTENDS Integers, Sequences

CONSTANT EOF        \* what a read at or past the end of the subject observes

(* The byte at offset i; EOF at or past the end.                           *)
ByteAt(t, i) == IF i < Len(t) THEN t[i + 1] ELSE EOF
=============================================================================
