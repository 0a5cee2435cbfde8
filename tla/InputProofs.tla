---------------------------- MODULE InputProofs ----------------------------
(***************************************************************************)
(* For every chunk size and every subject, the cached input behaves as the *)
(* flat one.  CacheOK is inductive; the refinement needs it to know that   *)
(* the byte in the chunk is the byte of the subject, that an offset at the *)
(* end of the chunk means the end of the subject, and what an executing    *)
(* span has already passed.                                                *)
(***************************************************************************)
EXTENDS Input, TLAPS

LEMMA FilledFacts ==
    ASSUME NEW t \in Seq(Bytes), NEW p \in Nat
    PROVE  /\ Filled(t, p) \in Nat
           /\ Filled(t, p) = 0 <=> Len(t) <= p
           /\ p < Len(t) => p + Filled(t, p) <= Len(t)
BY InputAssumption DEF Filled

(* A cached byte is the byte of the subject.                               *)
LEMMA CachedByte ==
    ASSUME NEW t \in Seq(Bytes), NEW p \in Nat, NEW k \in Nat, k < Filled(t, p)
    PROVE  Cached(t, p)[k] = ByteAt(t, p + k)
<1>1. k \in 0 .. Filled(t, p) - 1
  BY FilledFacts
<1>2. p + k < Len(t)
  <2>1. Filled(t, p) \in Nat /\ Len(t) \in Nat
    BY FilledFacts
  <2>2. Filled(t, p) # 0
    BY <2>1
  <2>3. p < Len(t)
    BY <2>1, <2>2, FilledFacts
  <2>4. p + Filled(t, p) <= Len(t)
    BY <2>3, FilledFacts
  <2> QED BY <2>1, <2>3, <2>4
<1> QED BY <1>1, <1>2 DEF Cached, ByteAt

(* Refilling puts the cache in order at the new position.                  *)
LEMMA RefillOK ==
    ASSUME CacheOK, NEW p \in Nat, input_refill(p)
    PROVE  /\ base' = p /\ coff' = 0
           /\ nchunk' = Filled(data, base') /\ chunk' = Cached(data, base')
           /\ coff' < nchunk' \/ (nchunk' = 0 /\ coff' = 0)
           /\ coff' <= nchunk'
BY FilledFacts DEF CacheOK, CacheFilled, input_refill

(* vm_input_pos is a natural number and tells where the subject ends.      *)
LEMMA PosFacts ==
    ASSUME CacheOK
    PROVE  /\ vm_input_pos \in Nat /\ nchunk \in Nat
           /\ coff < nchunk => chunk[coff] = ByteAt(data, vm_input_pos)
           /\ nchunk = 0 => ByteAt(data, base + coff) = EOF
<1>1. /\ data \in Seq(Bytes) /\ base \in Nat /\ coff \in Nat
      /\ nchunk = Filled(data, base) /\ chunk = Cached(data, base)
  BY DEF CacheOK, CacheFilled
<1>2. coff < nchunk => chunk[coff] = ByteAt(data, vm_input_pos)
  BY <1>1, CachedByte DEF vm_input_pos
<1>3. nchunk = 0 => ByteAt(data, base + coff) = EOF
  <2>1. Len(data) \in Nat
    BY <1>1
  <2>2. nchunk = 0 => Len(data) <= base
    BY <1>1, FilledFacts
  <2> QED BY <1>1, <2>1, <2>2 DEF ByteAt
<1> QED BY <1>1, <1>2, <1>3, FilledFacts DEF vm_input_pos

---------------------------------------------------------------------------

(* The offset of the input stays in step with the cached chunk, over every *)
(* advance, seek and span.                                                 *)
THEOREM CacheInvariant == Spec => []CacheOK
<1>1. Init => CacheOK
  <2> SUFFICES ASSUME Init PROVE CacheOK
    OBVIOUS
  <2>1. data \in Seq(Bytes)
    BY InputAssumption DEF Init
  <2> QED BY <2>1, FilledFacts DEF Init, CacheOK, CacheFilled, CacheCurrent, SpanSound
<1>2. CacheOK /\ [Next]_vars => CacheOK'
  <2> SUFFICES ASSUME CacheOK, [Next]_vars PROVE CacheOK'
    OBVIOUS
  <2>0. /\ data \in Seq(Bytes) /\ base \in Nat /\ coff \in Nat
        /\ furthest \in Nat /\ nchunk \in Nat /\ vm_input_pos \in Nat
        /\ nchunk = Filled(data, base) /\ chunk = Cached(data, base)
    BY PosFacts DEF CacheOK, CacheFilled
  <2>1. CASE UNCHANGED vars
    BY <2>1 DEF vars, CacheOK, CacheFilled, CacheCurrent, SpanSound, vm_input_pos
  <2>2. CASE input_peek
    BY <2>0, <2>2
       DEF input_peek, CacheOK, CacheFilled, CacheCurrent, SpanSound, Track
  <2>3. ASSUME NEW n \in Steps, input_advance(n) PROVE CacheOK'
    <3>1. n \in Nat /\ vm_input_pos + n \in Nat /\ data' = data
      BY <2>0, <2>3, InputAssumption DEF input_advance
    <3>2. CASE coff + n >= nchunk
      <4>1. input_refill(vm_input_pos + n)
        BY <2>3, <3>2 DEF input_advance
      <4> QED BY <2>0, <2>3, <3>1, <4>1, RefillOK
              DEF input_advance, CacheOK, CacheFilled, CacheCurrent, SpanSound
    <3>3. CASE ~ (coff + n >= nchunk)
      BY <2>0, <2>3, <3>1, <3>3
         DEF input_advance, CacheOK, CacheFilled, CacheCurrent, SpanSound
    <3> QED BY <3>2, <3>3
  <2>4. ASSUME NEW p \in Offsets, input_seek_to(p) PROVE CacheOK'
    <3>1. p \in Nat /\ data' = data
      BY <2>4, InputAssumption DEF input_seek_to
    <3>2. CASE p < base + nchunk /\ p >= base
      BY <2>0, <2>4, <3>1, <3>2
         DEF input_seek_to, CacheOK, CacheFilled, CacheCurrent, SpanSound
    <3>3. CASE ~ (p < base + nchunk /\ p >= base)
      <4>1. input_refill(p)
        BY <2>4, <3>3 DEF input_seek_to
      <4> QED BY <2>0, <2>4, <3>1, <4>1, RefillOK
              DEF input_seek_to, CacheOK, CacheFilled, CacheCurrent, SpanSound
    <3> QED BY <3>2, <3>3
  <2>5. ASSUME NEW S \in Sets, input_span(S) PROVE CacheOK'
    BY <2>0, <2>5
       DEF input_span, CacheOK, CacheFilled, CacheCurrent, SpanSound, vm_input_pos
  <2>6. CASE SpanByte
    <3>1. ByteAt(data, vm_input_pos) \in span.set
      BY <2>6, PosFacts DEF SpanByte, InSpan
    <3>2. vm_input_pos' = vm_input_pos + 1 /\ data' = data /\ span' = span
      BY <2>0, <2>6 DEF SpanByte, vm_input_pos
    <3>3. SpanSound'
      BY <2>0, <2>6, <3>1, <3>2 DEF SpanByte, CacheOK, SpanSound
    <3> QED BY <2>0, <2>6, <3>3
            DEF SpanByte, InSpan, CacheOK, CacheFilled, CacheCurrent
  <2>7. CASE SpanEnd
    <3>1. CASE coff < nchunk \/ nchunk = 0
      BY <2>0, <2>7, <3>1
         DEF SpanEnd, CacheOK, CacheFilled, CacheCurrent, SpanSound, Track
    <3>2. CASE ~ (coff < nchunk \/ nchunk = 0)
      <4>1. input_refill(vm_input_pos) /\ span' = span /\ data' = data
            /\ furthest' = Track(vm_input_pos)
        BY <2>7, <3>2 DEF SpanEnd
      <4>2. vm_input_pos' = vm_input_pos
        BY <2>0, <4>1, RefillOK DEF vm_input_pos
      <4>3. SpanSound'
        BY <2>0, <4>1, <4>2 DEF CacheOK, SpanSound, Track
      <4> QED BY <2>0, <2>7, <4>1, <4>3, RefillOK
              DEF SpanEnd, CacheOK, CacheFilled, CacheCurrent, Track
    <3> QED BY <3>1, <3>2
  <2> QED BY <2>1, <2>2, <2>3, <2>4, <2>5, <2>6, <2>7 DEF Next
<1> QED BY <1>1, <1>2, PTL DEF Spec

---------------------------------------------------------------------------

(* The chunked input implements the flat one: input_peek, input_advance,   *)
(* input_seek_to and input_span move the position and the tracker and      *)
(* answer as if the whole subject were read directly, for every size of    *)
(* the chunk.                                                              *)
THEOREM ChunksUnobservable == Spec => ImplementsFlat
<1>1. Init => Flat!Init
  BY DEF Init, Flat!Init, vm_input_pos
<1>2. CacheOK /\ [Next]_vars => [Flat!Next]_(Flat!vars)
  <2> SUFFICES ASSUME CacheOK, [Next]_vars PROVE [Flat!Next]_(Flat!vars)
    OBVIOUS
  <2>0. /\ data \in Seq(Bytes) /\ base \in Nat /\ coff \in Nat
        /\ furthest \in Nat /\ nchunk \in Nat /\ vm_input_pos \in Nat
    BY PosFacts DEF CacheOK, CacheFilled
  <2>1. CASE UNCHANGED vars
    BY <2>1 DEF vars, Flat!vars, vm_input_pos
  <2>2. CASE input_peek
    <3>1. (IF nchunk = 0 \/ coff >= nchunk THEN EOF ELSE chunk[coff])
             = ByteAt(data, vm_input_pos)
      BY <2>0, <2>2, PosFacts
         DEF input_peek, CacheOK, CacheCurrent, vm_input_pos
    <3>2. Flat!Peek
      BY <2>2, <3>1 DEF input_peek, Flat!Peek, Flat!Track, Track,
         vm_input_pos, Flat!ByteAt, ByteAt
    <3> QED BY <3>2 DEF Flat!Next
  <2>3. ASSUME NEW n \in Steps, input_advance(n) PROVE Flat!Next
    <3>1. n \in Nat
      BY InputAssumption
    <3>2. vm_input_pos' = vm_input_pos + n
      BY <2>0, <2>3, <3>1 DEF input_advance, input_refill, vm_input_pos
    <3>3. Flat!Advance(n)
      BY <2>3, <3>2 DEF input_advance, Flat!Advance
    <3> QED BY <3>3 DEF Flat!Next
  <2>4. ASSUME NEW p \in Offsets, input_seek_to(p) PROVE Flat!Next
    <3>1. p \in Nat
      BY InputAssumption
    <3>2. vm_input_pos' = p
      BY <2>0, <2>4, <3>1 DEF input_seek_to, input_refill, vm_input_pos
    <3>3. Flat!Seek(p)
      BY <2>4, <3>2 DEF input_seek_to, Flat!Seek
    <3> QED BY <3>3 DEF Flat!Next
  <2>5. ASSUME NEW S \in Sets, input_span(S) PROVE UNCHANGED Flat!vars
    <3>1. span' # NoSpan
      BY <2>0, <2>5, InputAssumption DEF input_span
    <3> QED BY <2>5, <3>1 DEF input_span, Flat!vars
  <2>6. CASE SpanByte
    BY <2>6 DEF SpanByte, Flat!vars
  <2>7. CASE SpanEnd
    <3>1. CASE coff < nchunk \/ nchunk = 0
      <4> DEFINE q == vm_input_pos
      <4>0. /\ span # NoSpan /\ span' = NoSpan /\ data' = data
            /\ ret' = [done |-> TRUE]
            /\ vm_input_pos' = q /\ furthest' = Track(q)
        BY <2>7, <3>1 DEF SpanEnd, vm_input_pos
      <4>1. /\ span.set \in Sets /\ span.pos \in Nat /\ span.furthest \in Nat
            /\ span.pos <= q
            /\ \A r \in span.pos .. q - 1 : ByteAt(data, r) \in span.set
            /\ furthest >= span.furthest
            /\ furthest = span.furthest \/ furthest <= q
        BY <4>0 DEF CacheOK, SpanSound
      <4>2. ByteAt(data, q) \notin span.set
        <5>1. CASE coff < nchunk
          BY <2>7, <5>1, PosFacts DEF SpanEnd, InSpan
        <5>2. CASE nchunk = 0
          BY <5>2, <4>1, PosFacts, InputAssumption DEF vm_input_pos
        <5> QED BY <3>1, <5>1, <5>2
      <4>3. q <= span.pos + Len(data)
        <5>1. CASE q <= Len(data)
          BY <2>0, <4>1, <5>1
        <5>2. CASE q > Len(data) /\ span.pos < q
          <6>1. ByteAt(data, q - 1) = EOF
            BY <2>0, <5>2 DEF ByteAt
          <6>2. q - 1 \in span.pos .. q - 1
            BY <2>0, <4>1, <5>2
          <6> QED BY <4>1, <6>1, <6>2, InputAssumption
        <5>3. CASE span.pos = q
          BY <2>0, <5>3
        <5> QED BY <2>0, <4>1, <5>1, <5>2, <5>3
      <4>4. q \in span.pos .. span.pos + Len(data)
        BY <2>0, <4>1, <4>3
      <4>5. furthest' = IF q > span.furthest THEN q ELSE span.furthest
        BY <2>0, <4>0, <4>1 DEF Track
      <4>6. Flat!Span(span.set)
        BY <4>0, <4>1, <4>2, <4>4, <4>5 DEF Flat!Span, Flat!Track, Flat!ByteAt, ByteAt
      <4> QED BY <4>1, <4>6 DEF Flat!Next
    <3>2. CASE ~ (coff < nchunk \/ nchunk = 0)
      BY <2>7, <3>2 DEF SpanEnd, Flat!vars
    <3> QED BY <3>1, <3>2
  <2> QED BY <2>1, <2>2, <2>3, <2>4, <2>5, <2>6, <2>7 DEF Next
<1> QED BY <1>1, <1>2, CacheInvariant, PTL DEF Spec, ImplementsFlat, Flat!Spec
=============================================================================
