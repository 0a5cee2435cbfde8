------------------------------- MODULE Input -------------------------------
(***************************************************************************)
(* The input of src/vm.c: a chunk of the subject is cached, positions are  *)
(* a chunk base plus an offset in the chunk, and the chunk is refilled     *)
(* when the position leaves it.  INPUT_CHUNK is 4096 in the code.          *)
(*                                                                         *)
(* input_span is a loop that may cross several chunks: its iterations are  *)
(* steps, and span holds the call until it returns.  The caller waits for  *)
(* it, so the other operations happen with no span under way.              *)
(***************************************************************************)
EXTENDS Subject

CONSTANTS Bytes, Subjects, Steps, Offsets, Sets, MaxPos,    \* as FlatInput
          INPUT_CHUNK,      \* bytes cached at a time
          NoSpan            \* no input_span is executing

ASSUME InputAssumption ==
    /\ INPUT_CHUNK \in Nat \ {0}
    /\ Subjects \subseteq Seq(Bytes)
    /\ Steps \subseteq Nat /\ Offsets \subseteq Nat /\ MaxPos \in Nat
    /\ \A S \in Sets : EOF \notin S
    /\ NoSpan \notin [set : Sets, pos : Nat, furthest : Nat]

VARIABLES
    data,           \* the subject
    chunk,          \* the cached bytes, chunk[0 .. nchunk-1]
    nchunk, base, coff, furthest,   \* the fields of struct vm_input
    span,           \* the executing input_span: its set, and pos and
                    \* furthest at the call; or NoSpan
    ret             \* what the last call returned

vars == <<data, chunk, nchunk, base, coff, furthest, span, ret>>

vm_input_pos == base + coff

Track(p) == IF p > furthest THEN p ELSE furthest

(* How many bytes a refill at p caches, and which.                         *)
Filled(t, p) ==
    LET avail == IF Len(t) > p THEN Len(t) - p ELSE 0
    IN  IF avail < INPUT_CHUNK THEN avail ELSE INPUT_CHUNK
Cached(t, p) == [k \in 0 .. Filled(t, p) - 1 |-> t[p + k + 1]]

---------------------------------------------------------------------------

(* vm_input_new.                                                           *)
Init ==
    /\ data \in Subjects
    /\ base = 0 /\ coff = 0 /\ furthest = 0
    /\ nchunk = Filled(data, 0) /\ chunk = Cached(data, 0)
    /\ span = NoSpan /\ ret = [done |-> TRUE]

input_refill(p) ==
    /\ base' = p /\ coff' = 0
    /\ nchunk' = Filled(data, p) /\ chunk' = Cached(data, p)

input_peek ==
    /\ span = NoSpan
    /\ furthest' = Track(vm_input_pos)
    /\ ret' = [byte |-> IF nchunk = 0 \/ coff >= nchunk THEN EOF ELSE chunk[coff]]
    /\ UNCHANGED <<data, chunk, nchunk, base, coff, span>>

input_advanceLate(n) ==
    /\ span = NoSpan
    /\ vm_input_pos + n <= MaxPos
    /\ IF coff + n > nchunk
         THEN input_refill(vm_input_pos + n)
         ELSE coff' = coff + n /\ UNCHANGED <<chunk, nchunk, base>>
    /\ ret' = [ok |-> vm_input_pos + n <= Len(data)]
    /\ UNCHANGED <<data, furthest, span>>

input_advanceChunk(n) ==
    /\ span = NoSpan
    /\ vm_input_pos + n <= MaxPos
    /\ IF coff + n >= nchunk
         THEN input_refill(vm_input_pos + n)
         ELSE coff' = coff + n /\ UNCHANGED <<chunk, nchunk, base>>
    /\ ret' = [ok |-> coff + n <= nchunk]
    /\ UNCHANGED <<data, furthest, span>>

(* The answer compares with the subject, not with the chunk.               *)
input_advance(n) ==
    /\ span = NoSpan
    /\ vm_input_pos + n <= MaxPos
    /\ IF coff + n >= nchunk
         THEN input_refill(vm_input_pos + n)
         ELSE coff' = coff + n /\ UNCHANGED <<chunk, nchunk, base>>
    /\ ret' = [ok |-> vm_input_pos + n <= Len(data)]
    /\ UNCHANGED <<data, furthest, span>>

input_seek_to(p) ==
    /\ span = NoSpan
    /\ IF p < base + nchunk /\ p >= base
         THEN coff' = p - base /\ UNCHANGED <<chunk, nchunk, base>>
         ELSE input_refill(p)
    /\ ret' = [done |-> TRUE]
    /\ UNCHANGED <<data, furthest, span>>

input_span(S) ==
    /\ span = NoSpan
    /\ span' = [set |-> S, pos |-> vm_input_pos, furthest |-> furthest]
    /\ UNCHANGED <<data, chunk, nchunk, base, coff, furthest, ret>>

InSpan == coff < nchunk /\ chunk[coff] \in span.set

(* The inner loop of input_span.                                           *)
SpanByte ==
    /\ span # NoSpan /\ InSpan
    /\ coff' = coff + 1
    /\ UNCHANGED <<data, chunk, nchunk, base, furthest, span, ret>>

SpanEndStuck ==
    /\ span # NoSpan /\ ~ InSpan
    /\ furthest' = Track(vm_input_pos)
    /\ IF coff < nchunk \/ nchunk = 0
         THEN span' = NoSpan /\ ret' = [done |-> TRUE]
              /\ UNCHANGED <<chunk, nchunk, base, coff>>
         ELSE input_refill(base) /\ UNCHANGED <<span, ret>>
    /\ UNCHANGED data

(* After it: return, or go on in the next chunk when this one ran out.     *)
SpanEnd ==
    /\ span # NoSpan /\ ~ InSpan
    /\ furthest' = Track(vm_input_pos)
    /\ IF coff < nchunk \/ nchunk = 0
         THEN span' = NoSpan /\ ret' = [done |-> TRUE]
              /\ UNCHANGED <<chunk, nchunk, base, coff>>
         ELSE input_refill(vm_input_pos) /\ UNCHANGED <<span, ret>>
    /\ UNCHANGED data

Next ==
    \/ input_peek
    \/ \E n \in Steps : input_advance(n)
    \/ \E p \in Offsets : input_seek_to(p)
    \/ \E S \in Sets : input_span(S)
    \/ SpanByte
    \/ SpanEnd

(* A span is one C call: once begun it keeps taking steps.                 *)
Spec == Init /\ [][Next]_vars /\ WF_vars(SpanByte \/ SpanEnd)

---------------------------------------------------------------------------
(* Properties.                                                             *)

(* The cache holds what the subject has at base, as much as it can.        *)
CacheFilled ==
    /\ data \in Seq(Bytes)
    /\ base \in Nat /\ coff \in Nat /\ furthest \in Nat
    /\ nchunk = Filled(data, base) /\ chunk = Cached(data, base)

(* Between calls the offset is inside the chunk, unless the chunk is empty *)
(* because the subject has ended: input_peek reports the end of the input  *)
(* from the chunk alone, so an offset left at the end of a full chunk      *)
(* would end the subject there.  Inside a span it may stand at the end.    *)
CacheCurrent ==
    /\ span = NoSpan => coff < nchunk \/ (nchunk = 0 /\ coff = 0)
    /\ coff <= nchunk

(* What an executing span has passed is in its set, and what it did to the *)
(* tracker is covered by where it stands.                                  *)
SpanSound ==
    span # NoSpan =>
        /\ span \in [set : Sets, pos : Nat, furthest : Nat]
        /\ span.pos <= vm_input_pos
        /\ \A r \in span.pos .. vm_input_pos - 1 : ByteAt(data, r) \in span.set
        /\ furthest >= span.furthest
        /\ furthest = span.furthest \/ furthest <= vm_input_pos

(* The cache always agrees with the subject, and stands where the next     *)
(* read finds its byte.                                                    *)
CacheOK == CacheFilled /\ CacheCurrent /\ SpanSound

(* The chunks cannot be observed: every call moves the position and the    *)
(* tracker and returns what reading the flat subject would, wherever the   *)
(* chunk boundaries fall.                                                  *)
Flat == INSTANCE FlatInput WITH
    pos <- IF span = NoSpan THEN vm_input_pos ELSE span.pos,
    furthest <- IF span = NoSpan THEN furthest ELSE span.furthest
ImplementsFlat == Flat!Spec

(* input_span returns, however many chunks it crosses.                     *)
SpanReturns == span # NoSpan ~> span = NoSpan
=============================================================================
