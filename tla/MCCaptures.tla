----------------------------- MODULE MCCaptures -----------------------------
(* Captures with interchangeable addresses.                                *)
EXTENDS Captures, TLC

Addresses == Permutations(Caps) \union Permutations(Ents)
=============================================================================
