----------------------------- MODULE Assertions -----------------------------
(***************************************************************************)
(* What the machine and the meaning of a pattern have in common: the       *)
(* zero-width assertions of src/vm.c, and the checkers a client registers. *)
(***************************************************************************)
EXTENDS Naturals, Sequences

CONSTANTS
    Word,           \* the bytes that is_word_byte accepts
    Newline,        \* the newline byte
    EOT,            \* "no character", before the start and past the end
    Checker(_, _, _, _, _, _)   \* checkers: (fn, text, start, end, id, flag)

(* The zero-width assertions that hold between the bytes r1 and r2.        *)
empty_op_context(r1, r2) ==
    LET boundary == (r1 \in Word) # (r2 \in Word)
    IN  (IF r1 \in {Newline, EOT} THEN {"BeginLine"} ELSE {})
        \union (IF r1 = EOT THEN {"BeginText"} ELSE {})
        \union (IF r2 \in {Newline, EOT} THEN {"EndLine"} ELSE {})
        \union (IF r2 = EOT THEN {"EndText"} ELSE {})
        \union {IF boundary THEN "WordBoundary" ELSE "NoWordBoundary"}

Neighbour(t, i) == IF i \in DOMAIN t THEN t[i] ELSE EOT
=============================================================================
