--------------------------- MODULE DecoderProofs ---------------------------
(***************************************************************************)
(* Proofs about Decoder: any frame sizes, any size of the read buffer, any *)
(* number of frames and any way the stream is cut into reads.              *)
(***************************************************************************)
EXTENDS Decoder, TLAPS

\* The offsets at which frames end, as nsqd lays them out.
LayoutInv ==
    /\ Len(ends) = Len(stream)
    /\ sent = End(Len(stream))
    /\ \A i \in 1..Len(stream) : ends[i] = End(i - 1) + 4 + stream[i]
    /\ \A i, j \in 0..Len(stream) : i <= j => End(i) <= End(j)

\* decode stands at the end of the frames it took, and has torn a frame only
\* if the buffer held frame_size bytes of it and not 4 more.
SyncInv ==
    /\ taken_bytes = End(taken)
    /\ pc \in {"panicked", "torn"} =>
          /\ taken < Len(stream)
          /\ frame_size <= buf_len /\ buf_len < 4 + frame_size

\* Reads that end where frames end: each is used up before the next one, and
\* until then r_buf holds no more than what it brought.
AlignedInv == aligned =>
    /\ \E k \in 0..Len(stream) : read_bytes = End(k)
    /\ WholeFrames
    /\ pc = "idle" => buf_len = 0
    /\ pc = "decode" => buf_len <= size

IInv == TypeOK /\ LayoutInv /\ SyncInv /\ AlignedInv /\ LargeReadDrains

\* The inductive invariant holds of the empty stream.
LEMMA IInvInit == Init => IInv
<1> SUFFICES ASSUME Init PROVE IInv
  OBVIOUS
<1> USE DecoderAssumption DEF Init
<1>1. TypeOK
  BY DEF TypeOK
<1>2. LayoutInv
  BY DEF LayoutInv, End
<1>3. SyncInv
  BY DEF SyncInv, End
<1>4. AlignedInv
  BY DEF AlignedInv, WholeFrames, End, buf_len
<1>5. LargeReadDrains
  BY DEF LargeReadDrains, HEADER_LENGTH
<1> QED BY <1>1, <1>2, <1>3, <1>4, <1>5 DEF IInv

\* A frame that is begun in the buffer is a frame nsqd sent; read to a frame's
\* end, the buffer holds all of it.
LEMMA Begun ==
    ASSUME IInv, buf_len > 0
    PROVE  /\ taken < Len(stream)
           /\ frame_size \in FrameSizes /\ frame_size \in Nat
           /\ End(taken + 1) = taken_bytes + 4 + frame_size
           /\ aligned => buf_len >= 4 + frame_size
<1> USE DecoderAssumption DEF IInv, TypeOK, buf_len
<1>1. taken < Len(stream)
  <2>1. taken_bytes < sent
    OBVIOUS
  <2>2. taken # Len(stream)
    BY <2>1 DEF LayoutInv, SyncInv
  <2> QED BY <2>2
<1>2. frame_size \in FrameSizes /\ frame_size \in Nat
  <2>1. taken + 1 \in 1..Len(stream)
    BY <1>1
  <2>2. stream[taken + 1] \in FrameSizes
    BY <2>1
  <2> QED BY <2>2 DEF frame_size
<1>3. End(taken + 1) = taken_bytes + 4 + frame_size
  <2>1. taken + 1 \in 1..Len(stream) /\ (taken + 1) - 1 = taken /\ taken + 1 # 0
    BY <1>1
  <2>2. ends[taken + 1] = End((taken + 1) - 1) + 4 + stream[taken + 1]
    BY <2>1 DEF LayoutInv
  <2> QED BY <2>1, <2>2 DEF SyncInv, End, frame_size
<1>4. ASSUME aligned PROVE buf_len >= 4 + frame_size
  <2>1. PICK k \in 0..Len(stream) : read_bytes = End(k)
    BY <1>4 DEF AlignedInv
  <2>2. ~(k <= taken)
    <3>1. ASSUME k <= taken PROVE End(k) <= End(taken)
      BY <3>1, <1>1 DEF LayoutInv
    <3> QED BY <3>1, <2>1 DEF SyncInv
  <2>3. End(taken + 1) <= End(k)
    <3>1. taken + 1 \in 0..Len(stream) /\ taken + 1 <= k
      BY <2>2, <1>1
    <3> QED BY <3>1 DEF LayoutInv
  <2> QED BY <2>1, <2>3, <1>2, <1>3
<1> QED BY <1>1, <1>2, <1>3, <1>4

\* One more frame on the wire preserves it.
LEMMA SendStep == ASSUME IInv, NEW s \in FrameSizes, NsqdSend(s) PROVE IInv'
<1> USE DecoderAssumption
<1>n. PICK n \in Nat : n = Len(stream)
  BY DEF IInv, TypeOK
<1>t. /\ stream \in Seq(FrameSizes) /\ ends \in Seq(Nat) /\ sent \in Nat /\ s \in Nat
      /\ Len(stream) = n /\ Len(ends) = n /\ n \in Nat /\ taken \in 0..n
      /\ read_bytes \in 0..sent /\ taken_bytes \in 0..read_bytes
  BY <1>n DEF IInv, TypeOK, LayoutInv
<1>1. /\ stream' = Append(stream, s) /\ ends' = Append(ends, sent + 4 + s)
      /\ sent' = sent + 4 + s
      /\ UNCHANGED <<aligned, read_bytes, taken_bytes, taken, size, pc>>
  BY DEF NsqdSend
<1>2. Len(stream') = n + 1 /\ Len(ends') = n + 1
  BY <1>t, <1>1
<1>3. \A i \in 1..n : stream'[i] = stream[i] /\ ends'[i] = ends[i]
  BY <1>t, <1>1
<1>4. stream'[n + 1] = s /\ ends'[n + 1] = sent + 4 + s
  BY <1>t, <1>1
<1>5. \A i \in 0..n : End(i)' = End(i) /\ End(i) \in Nat
  BY <1>t, <1>3 DEF End
<1>6. End(n + 1)' = sent + 4 + s
  BY <1>t, <1>4 DEF End
<1>7. sent = End(n)
  BY <1>n DEF IInv, LayoutInv
<1>8. TypeOK'
  <2>1. stream' \in Seq(FrameSizes) /\ ends' \in Seq(Nat)
    BY <1>t, <1>1
  <2> QED BY <2>1, <1>t, <1>1, <1>2 DEF IInv, TypeOK
<1>9. LayoutInv'
  <2>1. \A i \in 1..(n + 1) : ends'[i] = End(i - 1)' + 4 + stream'[i]
    <3>1. \A i \in 1..n : ends[i] = End(i - 1) + 4 + stream[i]
      BY <1>n DEF IInv, LayoutInv
    <3>2. ASSUME NEW i \in 1..n PROVE ends'[i] = End(i - 1)' + 4 + stream'[i]
      BY <1>t, <1>3, <1>5, <3>1, SMTT(30)
    <3>3. ends'[n + 1] = End((n + 1) - 1)' + 4 + stream'[n + 1]
      BY <1>t, <1>4, <1>5, <1>7
    <3>4. \A i \in 1..(n + 1) : i \in 1..n \/ i = n + 1
      BY <1>t
    <3> QED BY <3>2, <3>3, <3>4, Zenon
  <2>2. ASSUME NEW i \in 0..(n + 1), NEW j \in 0..(n + 1), i <= j
        PROVE  End(i)' <= End(j)'
    <3>1. \A k, l \in 0..n : k <= l => End(k) <= End(l)
      BY <1>n DEF IInv, LayoutInv
    <3>2. CASE j \in 0..n
      BY <1>t, <1>5, <2>2, <3>1, <3>2
    <3>3. CASE j = n + 1 /\ i = n + 1
      BY <1>t, <1>6, <3>3
    <3>4. CASE j = n + 1 /\ i \in 0..n
      <4>1. End(i) <= sent
        BY <1>t, <1>7, <3>1, <3>4
      <4> QED BY <1>t, <1>5, <1>6, <3>4, <4>1
    <3> QED BY <1>t, <3>2, <3>3, <3>4
  <2> QED BY <1>1, <1>2, <1>6, <2>1, <2>2 DEF LayoutInv
<1>10. SyncInv'
  <2>1. (taken_bytes = End(taken))'
    <3>1. PICK k \in 0..n : k = taken
      BY <1>t
    <3>2. taken_bytes = End(k)
      BY <3>1 DEF IInv, SyncInv
    <3>3. taken_bytes' = End(k)' /\ k = taken'
      BY <1>1, <1>5, <3>1, <3>2
    <3> QED BY <3>3 DEF End
  <2>2. ASSUME pc' \in {"panicked", "torn"}
        PROVE  /\ taken' < Len(stream')
               /\ frame_size' <= buf_len' /\ buf_len' < 4 + frame_size'
    <3>1. taken < n /\ frame_size <= buf_len /\ buf_len < 4 + frame_size
      BY <1>n, <1>1, <2>2 DEF IInv, SyncInv
    <3>2. frame_size' = frame_size /\ buf_len' = buf_len
      BY <1>t, <1>1, <1>3, <3>1 DEF frame_size, buf_len
    <3> QED BY <1>t, <1>1, <1>2, <3>1, <3>2
  <2> QED BY <2>1, <2>2 DEF SyncInv
<1>11. AlignedInv'
  <2>1. ASSUME aligned PROVE \E k \in 0..(n + 1) : read_bytes' = End(k)'
    <3>1. PICK k \in 0..n : read_bytes = End(k)
      BY <1>n, <2>1 DEF IInv, AlignedInv
    <3>2. End(k)' = End(k) /\ k \in 0..(n + 1)
      BY <1>t, <1>5
    <3> QED BY <1>1, <3>1, <3>2
  <2>2. ASSUME aligned
        PROVE  WholeFrames' /\ (pc = "idle" => buf_len = 0)' /\ (pc = "decode" => buf_len <= size)'
    BY <1>1, <2>2 DEF IInv, AlignedInv, WholeFrames, buf_len
  <2> QED BY <1>1, <1>2, <2>1, <2>2 DEF AlignedInv
<1>12. LargeReadDrains'
  <2> SUFFICES ASSUME (pc = "idle")', (size >= HEADER_LENGTH)',
                      (\A i \in 1..Len(stream) : size >= stream[i])', (buf_len >= 4)'
               PROVE  (buf_len < 4 + frame_size)'
    BY DEF LargeReadDrains
  <2>1. buf_len' = buf_len /\ buf_len \in Nat /\ buf_len >= 4
    BY <1>t, <1>1 DEF buf_len
  <2>2. taken < n /\ frame_size \in Nat
    BY <1>n, <2>1, Begun
  <2>3. frame_size' = frame_size
    <3>1. taken + 1 \in 1..n
      BY <1>t, <2>2
    <3> QED BY <1>1, <1>3, <3>1 DEF frame_size
  <2>4. pc = "idle" /\ size >= HEADER_LENGTH
    BY <1>1
  <2>5. \A i \in 1..n : size >= stream[i]
    BY <1>t, <1>1, <1>2, <1>3
  <2>6. buf_len < 4 + frame_size
    BY <1>n, <2>1, <2>4, <2>5 DEF IInv, LargeReadDrains
  <2> QED BY <2>1, <2>3, <2>6
<1> QED BY <1>8, <1>9, <1>10, <1>11, <1>12 DEF IInv

\* read_tcp preserves it.
LEMMA ReadStep == ASSUME IInv, NEW b \in 1..ReadMax, Read(b) PROVE IInv'
<1> USE DecoderAssumption
<1>1. /\ pc = "idle" /\ pc' = "decode" /\ read_bytes' = read_bytes + b /\ size' = b
      /\ read_bytes + b <= sent
      /\ UNCHANGED <<aligned, stream, ends, sent, taken_bytes, taken>>
  BY DEF Read
<1>2. TypeOK'
  BY <1>1 DEF IInv, TypeOK
<1>3. LayoutInv'
  BY <1>1 DEF IInv, LayoutInv, End
<1>4. SyncInv'
  BY <1>1 DEF IInv, SyncInv, End
<1>5. AlignedInv'
  <2>1. ASSUME aligned PROVE \E k \in 0..Len(stream) : read_bytes + b = End(k)
    <3>1. PICK i \in 1..Len(ends) : read_bytes + b = ends[i]
      BY <2>1 DEF Read
    <3>2. i \in 0..Len(stream) /\ End(i) = ends[i]
      BY <3>1 DEF IInv, LayoutInv, End
    <3> QED BY <3>1, <3>2
  <2>2. ASSUME aligned PROVE buf_len' <= size'
    BY <1>1, <2>2 DEF IInv, TypeOK, AlignedInv, buf_len
  <2> QED BY <1>1, <2>1, <2>2 DEF AlignedInv, WholeFrames, End
<1>6. LargeReadDrains'
  BY <1>1 DEF LargeReadDrains
<1> QED BY <1>2, <1>3, <1>4, <1>5, <1>6 DEF IInv

\* Splitting off a whole frame preserves it.
LEMMA TakeStep == ASSUME IInv, TakeFrame PROVE IInv'
<1> USE DecoderAssumption
<1>1. /\ taken' = taken + 1 /\ taken_bytes' = taken_bytes + 4 + frame_size
      /\ buf_len >= 4 + frame_size /\ pc = "decode"
      /\ UNCHANGED <<aligned, stream, ends, sent, read_bytes, size, pc>>
  BY DEF TakeFrame, SplitOff, Continue
<1>2. buf_len > 0
  BY DEF TakeFrame, Enough, HEADER_LENGTH, IInv, TypeOK, buf_len
<1>3. /\ taken < Len(stream) /\ frame_size \in Nat
      /\ End(taken + 1) = taken_bytes + 4 + frame_size
  BY <1>2, Begun
<1>4. TypeOK'
  BY <1>1, <1>3 DEF IInv, TypeOK, buf_len
<1>5. LayoutInv'
  BY <1>1 DEF IInv, LayoutInv, End
<1>6. SyncInv'
  BY <1>1, <1>3 DEF SyncInv, End
<1>7. AlignedInv'
  <2>1. ASSUME aligned PROVE buf_len' <= size'
    BY <1>1, <1>3, <2>1 DEF IInv, TypeOK, AlignedInv, buf_len
  <2> QED BY <1>1, <2>1 DEF IInv, AlignedInv, WholeFrames, End
<1>8. LargeReadDrains'
  BY <1>1 DEF LargeReadDrains
<1> QED BY <1>4, <1>5, <1>6, <1>7, <1>8 DEF IInv

\* Splitting off an incomplete frame preserves it.
LEMMA TearStep == ASSUME IInv, TearFrame PROVE IInv'
<1> USE DecoderAssumption
<1>1. /\ pc' \in {"panicked", "torn"}
      /\ buf_len < 4 + frame_size /\ buf_len >= frame_size
      /\ UNCHANGED <<aligned, stream, ends, sent, read_bytes, taken_bytes, taken, size>>
  BY DEF TearFrame, Enough, IInv, TypeOK, buf_len
<1>2. buf_len > 0
  BY DEF TearFrame, Enough, HEADER_LENGTH, IInv, TypeOK, buf_len
<1>3. taken < Len(stream) /\ frame_size \in Nat /\ ~aligned
  BY <1>1, <1>2, Begun DEF IInv, TypeOK, buf_len
<1>4. TypeOK'
  BY <1>1 DEF IInv, TypeOK
<1>5. LayoutInv'
  BY <1>1 DEF IInv, LayoutInv, End
<1>6. SyncInv'
  BY <1>1, <1>3 DEF IInv, TypeOK, SyncInv, End, frame_size, buf_len
<1>7. AlignedInv'
  BY <1>1, <1>3 DEF AlignedInv
<1>8. LargeReadDrains'
  BY <1>1 DEF LargeReadDrains
<1> QED BY <1>4, <1>5, <1>6, <1>7, <1>8 DEF IInv

\* Returning from decode preserves it: by then the early returns have ruled a
\* whole frame out.
LEMMA ReturnStep == ASSUME IInv, DecodeReturn PROVE IInv'
<1> USE DecoderAssumption
<1>1. /\ pc = "decode" /\ pc' = "idle" /\ ~Enough
      /\ UNCHANGED <<aligned, stream, ends, sent, read_bytes, taken_bytes, taken, size>>
  BY DEF DecodeReturn
<1>2. TypeOK'
  BY <1>1 DEF IInv, TypeOK
<1>3. LayoutInv'
  BY <1>1 DEF IInv, LayoutInv, End
<1>4. SyncInv'
  BY <1>1 DEF IInv, SyncInv, End
<1>5. buf_len' = buf_len /\ buf_len \in Nat /\ size \in Nat /\ frame_size' = frame_size
  BY <1>1 DEF IInv, TypeOK, buf_len, frame_size
<1>6. ASSUME buf_len > 0 PROVE frame_size \in FrameSizes /\ frame_size \in Nat /\ frame_size >= 4
  BY <1>6, Begun
<1>7. AlignedInv'
  <2>1. ASSUME aligned PROVE buf_len = 0
    <3>1. ASSUME buf_len > 0 PROVE FALSE
      <4>1. buf_len >= 4 + frame_size /\ buf_len <= size
        BY <1>1, <2>1, <3>1, Begun DEF IInv, AlignedInv
      <4> QED BY <1>1, <1>5, <1>6, <3>1, <4>1 DEF Enough, HEADER_LENGTH
    <3> QED BY <1>5, <3>1
  <2> QED BY <1>1, <1>5, <2>1 DEF IInv, AlignedInv, WholeFrames, End
<1>8. LargeReadDrains'
  <2> SUFFICES ASSUME size >= HEADER_LENGTH, \A i \in 1..Len(stream) : size >= stream[i],
                      buf_len >= 4
               PROVE  buf_len < 4 + frame_size
    BY <1>1, <1>5 DEF LargeReadDrains
  <2>t. taken + 1 \in 1..Len(stream)
    BY <1>5, Begun DEF IInv, TypeOK
  <2>1. frame_size \in Nat /\ frame_size >= 4 /\ size >= frame_size
    BY <1>5, <1>6, <2>t DEF frame_size
  <2> QED BY <1>1, <1>5, <2>1 DEF Enough, HEADER_LENGTH
<1> QED BY <1>2, <1>3, <1>4, <1>7, <1>8 DEF IInv

\* Every step preserves it.
LEMMA IInvNext == IInv /\ [Next]_vars => IInv'
<1> SUFFICES ASSUME IInv, [Next]_vars PROVE IInv'
  OBVIOUS
<1>1. CASE UNCHANGED vars
  BY <1>1 DEF vars, IInv, TypeOK, LayoutInv, SyncInv, AlignedInv, WholeFrames,
              LargeReadDrains, End, frame_size, buf_len
<1> QED
  BY <1>1, SendStep, ReadStep, TakeStep, TearStep, ReturnStep DEF Next, SomeRead

\* The type invariant: r_buf never runs behind what was split off it.
THEOREM TypeCorrect == Spec => []TypeOK
<1>1. IInv => TypeOK
  BY DEF IInv
<1> QED BY <1>1, IInvInit, IInvNext, PTL DEF Spec

\* Conn::decode takes apart what nsqd put together, and the one way it tears a
\* frame is a buffer that ends within the last 4 bytes of it.
THEOREM TornAtTail == Spec => []TornOnlyAtTail
<1>1. IInv => TornOnlyAtTail
  <2> SUFFICES ASSUME IInv PROVE TornOnlyAtTail
    OBVIOUS
  <2>1. taken_bytes = End(taken)
    BY DEF IInv, SyncInv
  <2>2. ASSUME pc \in {"panicked", "torn"}
        PROVE  \E i \in 1..Len(ends) : ends[i] - read_bytes \in 1..4
    <3>1. /\ taken < Len(stream) /\ stream[taken + 1] <= read_bytes - taken_bytes
          /\ read_bytes - taken_bytes < 4 + stream[taken + 1]
      BY <2>2 DEF IInv, SyncInv, frame_size, buf_len
    <3>2. /\ taken \in Nat /\ read_bytes \in Nat /\ taken_bytes \in Nat
          /\ taken + 1 \in 1..Len(stream) /\ Len(ends) = Len(stream)
      BY <3>1 DEF IInv, TypeOK, LayoutInv
    <3>3. stream[taken + 1] \in Nat
      <4>1. stream[taken + 1] \in FrameSizes
        BY <3>2 DEF IInv, TypeOK
      <4> QED BY <4>1, DecoderAssumption
    <3>4. ends[taken + 1] = End((taken + 1) - 1) + 4 + stream[taken + 1]
      BY <3>2 DEF IInv, LayoutInv
    <3>5. ends[taken + 1] = taken_bytes + 4 + stream[taken + 1]
      <4>1. (taken + 1) - 1 = taken
        BY <3>2
      <4> QED BY <4>1, <3>4, <2>1
    <3>6. ends[taken + 1] - read_bytes \in 1..4
      BY <3>1, <3>2, <3>3, <3>5
    <3> QED BY <3>2, <3>6
  <2> QED BY <2>1, <2>2 DEF TornOnlyAtTail
<1> QED BY <1>1, IInvInit, IInvNext, PTL DEF Spec

\* When every read ends where a frame ends, no frame is ever torn.
THEOREM AlignedNeverTorn == Spec => []AlignedWhole
<1>1. IInv => AlignedWhole
  BY DEF IInv, AlignedInv, AlignedWhole
<1> QED BY <1>1, IInvInit, IInvNext, PTL DEF Spec

\* With such reads decode leaves no whole frame behind in r_buf.
THEOREM AlignedExhausts == Spec => []DecodeExhausts
<1>1. IInv => DecodeExhausts
  BY DEF IInv, AlignedInv, DecodeExhausts
<1> QED BY <1>1, IInvInit, IInvNext, PTL DEF Spec

\* However the stream is cut, a read of at least the largest frame_size makes
\* decode catch up on all that smaller reads left behind.
THEOREM LargeReadsDrain == Spec => []LargeReadDrains
<1>1. IInv => LargeReadDrains
  BY DEF IInv
<1> QED BY <1>1, IInvInit, IInvNext, PTL DEF Spec
=============================================================================
