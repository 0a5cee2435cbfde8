-------------------------------- MODULE Peg --------------------------------
(***************************************************************************)
(* src/peg.c seen from its memoization table: a subject text that is       *)
(* edited in place, and the parse results that survive each edit.          *)
(*                                                                         *)
(* The parsing machine appears only through what it asks of the table: it  *)
(* may record any result, with the number of bytes it examined.  Machine   *)
(* has the machine itself and implements this module.  Nothing is bounded  *)
(* here; BoundedPeg is for TLC.                                            *)
(***************************************************************************)
EXTENDS MemoTable

CONSTANTS
    Bytes,          \* the byte values that occur in a subject
    Inputs,         \* the texts clients pass to peg_parse and peg_edit
    Ids,            \* memo ids
    Results         \* what entries can yield

ASSUME PegAssumption ==
    /\ EOF \notin Bytes
    /\ Inputs \subseteq Seq(Bytes)
    /\ Threshold \in Int

VARIABLES
    text,           \* g->buf[0 .. len-1]
    table           \* the entries stored in g->tbl

vars == <<text, table>>

---------------------------------------------------------------------------
(* The operations of a parser object.                                      *)

Init == text = <<>> /\ table = {}       \* peg_new

(* A new subject invalidates every entry.                                  *)
peg_parse(data) == text' = data /\ table' = {}

(* The parsing machine records a result for the current subject.  It can   *)
(* only have matched bytes that are there, and memoize() counts the byte   *)
(* at the current position as examined, so the extent is never empty.      *)
memoize(id, start, length, examined, res) ==
    /\ start <= Len(text)
    /\ length <= Len(text) - start
    /\ table' = memo_table_put(table, text, id, start, length, examined, res)
    /\ UNCHANGED text

(* An out of range edit aborts the program, so it is not a step.           *)
peg_edit(start, end, new) ==
    /\ start <= end /\ end <= Len(text)
    /\ text' = Splice(text, start, end, new)
    /\ table' = memo_table_apply_edit(table, start, end, Len(new))

(* A windowed pass first forgets what overlaps a non-empty window, as an   *)
(* edit that replaces the window by as many bytes; it records nothing.     *)
peg_capture_interval(low, high) ==
    /\ table' = IF high > low
                  THEN memo_table_apply_edit(table, low, high, high - low)
                  ELSE table
    /\ UNCHANGED text

Next ==
    \/ \E data \in Inputs : peg_parse(data)
    \/ \E id \in Ids, start \in Nat, length \in Nat \union {-1},
          examined \in Nat \ {0}, res \in Results :
            memoize(id, start, length, examined, res)
    \/ \E start, end \in Nat, new \in Inputs : peg_edit(start, end, new)
    \/ \E low, high \in Nat : peg_capture_interval(low, high)

Spec == Init /\ [][Next]_vars

---------------------------------------------------------------------------
(* Properties.                                                             *)

EntryOK(e) ==
    e \in [id : Ids, pos : Nat, length : Int, examined : Nat, res : Results,
           seen : [0 .. e.examined - 1 -> Bytes \union {EOF}]]

(* A text of bytes, and entries whose snapshot is as long as the extent.   *)
TypeOK == text \in Seq(Bytes) /\ \A e \in table : EntryOK(e)

(* After any sequence of parses and edits, every entry in the table sits   *)
(* over exactly the bytes its result was computed from, the end of the     *)
(* subject included.  A hit therefore returns what examining those bytes   *)
(* again would return: memo_table_apply_edit evicts enough, and moves what *)
(* it keeps to where the bytes went ("After this returns the table is a    *)
(* valid starting state for an incremental reparse", memo.h).              *)
Coherent ==
    \A e \in table : \A i \in 0 .. e.examined - 1 :
        ByteAt(text, e.pos + i) = e.seen[i]

(* A hit advances the machine by the matched length, unchecked: the match  *)
(* must still lie inside the subject however the subject has been cut.     *)
HitStaysInside ==
    \A e \in table : e.length >= 0 => e.pos + e.length <= Len(text)

(* An edit never evicts an entry that is clear of it: one whose extent     *)
(* ends at or before the edit stays, one that starts behind it moves by    *)
(* the change in length.  This is what makes a reparse incremental.        *)
EditKeepsClearEntries ==
    [][\A start, end \in 0 .. Len(text) : \A new \in Inputs :
         peg_edit(start, end, new) =>
           \A e \in table :
             /\ e.pos + e.examined <= start => e \in table'
             /\ e.pos > end =>
                  [e EXCEPT !.pos = @ + Len(new) - (end - start)] \in table'
      ]_vars
=============================================================================
