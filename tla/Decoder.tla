------------------------------ MODULE Decoder ------------------------------
(***************************************************************************)
(* Conn::read_tcp and Conn::decode at the level of bytes: how the stream   *)
(* of nsqd, cut into reads at arbitrary places, is cut into frames again.  *)
(*                                                                         *)
(* A frame is 4 bytes of size followed by frame_size bytes, 4 of them the  *)
(* frame type.  Bytes are only counted: r_buf holds the bytes of the       *)
(* stream from taken_bytes up to read_bytes.                               *)
(***************************************************************************)
EXTENDS Integers, Sequences

CONSTANTS
    FrameSizes,  \* the frame_size values nsqd sends
    ReadMax,     \* config.output_buffer_size, the most one read returns
    MaxFrames    \* bound: frames nsqd sends

HEADER_LENGTH == 8

ASSUME DecoderAssumption ==
    /\ FrameSizes \subseteq {s \in Nat : s >= 4}
    /\ ReadMax \in Nat \ {0}
    /\ MaxFrames \in Nat

VARIABLES
    aligned,     \* external: whether every read ends where a frame ends, fixed
    stream,      \* external: frame_size of every frame nsqd sent
    ends,        \* external: the offset at which each frame ends
    sent,        \* external: bytes nsqd sent
    read_bytes,  \* bytes read from the socket
    taken_bytes, \* bytes split off r_buf
    taken,       \* frames split off r_buf
    size,        \* the argument of decode: bytes of the last read
    pc           \* idle, decode, or what an incomplete frame led to

vars == <<aligned, stream, ends, sent, read_bytes, taken_bytes, taken, size, pc>>

Init ==
    /\ aligned \in BOOLEAN
    /\ stream = <<>> /\ ends = <<>> /\ sent = 0
    /\ read_bytes = 0 /\ taken_bytes = 0 /\ taken = 0
    /\ size = 0 /\ pc = "idle"

\* Where the first k frames end.
End(k) == IF k = 0 THEN 0 ELSE ends[k]

\* External: nsqd sends one more frame.
NsqdSend(s) ==
    /\ Len(stream) < MaxFrames
    /\ stream' = Append(stream, s)
    /\ sent' = sent + 4 + s
    /\ ends' = Append(ends, sent + 4 + s)
    /\ UNCHANGED <<aligned, read_bytes, taken_bytes, taken, size, pc>>

\* read_tcp: socket.read returns b bytes, r_buf takes them, decode(b) follows.
Read(b) ==
    /\ pc = "idle"
    /\ b <= ReadMax /\ read_bytes + b <= sent
    /\ aligned => \E i \in 1..Len(ends) : read_bytes + b = ends[i]
    /\ read_bytes' = read_bytes + b
    /\ size' = b
    /\ pc' = "decode"
    /\ UNCHANGED <<aligned, stream, ends, sent, taken_bytes, taken>>

buf_len == read_bytes - taken_bytes
frame_size == stream[taken + 1]

\* Mutant: the frame is thought to follow the 8 bytes of its header.
Enough_Header ==
    /\ buf_len # 0
    /\ size >= HEADER_LENGTH /\ buf_len >= HEADER_LENGTH
    /\ size >= frame_size + HEADER_LENGTH /\ buf_len >= frame_size + HEADER_LENGTH

\* Mutant: the buffer is not asked whether it holds the frame.
Enough_HeaderOnly ==
    /\ buf_len # 0 /\ size >= HEADER_LENGTH /\ buf_len >= HEADER_LENGTH
    /\ size >= frame_size

\* Past the early returns of decode, in the order of the code.
Enough ==
    /\ buf_len # 0
    /\ size >= HEADER_LENGTH
    /\ buf_len >= HEADER_LENGTH
    /\ size >= frame_size
    /\ buf_len >= frame_size

\* Mutant: the frame type is counted twice.
SplitOff_Double == taken_bytes + HEADER_LENGTH + frame_size

\* split_to(4), split_to(4), split_to(frame_size - 4).
SplitOff == taken_bytes + 4 + frame_size

\* Mutant: one frame for each read.
Continue_Once == "idle"

\* The loop of decode goes on behind a frame.
Continue == "decode"

\* The buffer holds the frame: it goes to the readers, the responses or the
\* heartbeat flag.
TakeFrame ==
    /\ pc = "decode" /\ Enough
    /\ buf_len >= 4 + frame_size
    /\ taken' = taken + 1
    /\ taken_bytes' = SplitOff
    /\ pc' = Continue
    /\ UNCHANGED <<aligned, stream, ends, sent, read_bytes, size>>

\* The same when up to 4 bytes of the frame are missing, which no early return
\* rules out: by the capacity of r_buf, split_to panics or cuts the frame short
\* and the rest of it is taken for the next header.
TearFrame ==
    /\ pc = "decode" /\ Enough
    /\ buf_len < 4 + frame_size
    /\ pc' \in {"panicked", "torn"}
    /\ UNCHANGED <<aligned, stream, ends, sent, read_bytes, taken_bytes, taken, size>>

DecodeReturn ==
    /\ pc = "decode" /\ ~Enough
    /\ pc' = "idle"
    /\ UNCHANGED <<aligned, stream, ends, sent, read_bytes, taken_bytes, taken, size>>

SomeRead == \E b \in 1..ReadMax : Read(b)

Next ==
    \/ \E s \in FrameSizes : NsqdSend(s)
    \/ SomeRead \/ TakeFrame \/ TearFrame \/ DecodeReturn

Spec == Init /\ [][Next]_vars

\* The event loop reads what has come and decode runs to its end.
FairSpec ==
    /\ Spec
    /\ WF_vars(SomeRead) /\ WF_vars(TakeFrame) /\ WF_vars(DecodeReturn)

-----------------------------------------------------------------------------
(* Properties *)

\* The type of every variable.
TypeOK ==
    /\ aligned \in BOOLEAN
    /\ stream \in Seq(FrameSizes)
    /\ ends \in Seq(Nat) /\ sent \in Nat
    /\ read_bytes \in 0..sent /\ taken_bytes \in 0..read_bytes
    /\ taken \in 0..Len(stream) /\ size \in 0..ReadMax
    /\ pc \in {"idle", "decode", "panicked", "torn"}

\* The comment of decode, "take the whole frame for buffer": what it splits off
\* is a whole frame.
WholeFrames == pc \notin {"panicked", "torn"}

\* The same of reads that end where frames end.
AlignedWhole == aligned => WholeFrames

\* The comment of decode, "readed socket bytes are not enought": it goes back
\* to reading only when no whole frame is left in r_buf, given such reads.
DecodeExhausts ==
    aligned /\ pc = "idle" /\ buf_len >= 4 => buf_len < 4 + frame_size

\* However the reads are cut: decode tears a frame only when r_buf ends within
\* the last 4 bytes of one, and up to then every frame it took ended where
\* nsqd ended it.
TornOnlyAtTail ==
    /\ taken_bytes = End(taken)
    /\ pc \in {"panicked", "torn"} =>
          \E i \in 1..Len(ends) : ends[i] - read_bytes \in 1..4

\* A frame that small reads left behind in r_buf is not lost: after any read as
\* large as the largest frame_size that nsqd sent, decode leaves no whole frame.
LargeReadDrains ==
    pc = "idle" /\ size >= HEADER_LENGTH /\ (\A i \in 1..Len(stream) : size >= stream[i])
        /\ buf_len >= 4
    => buf_len < 4 + frame_size

\* With reads that end where frames end every frame is decoded in the end, if
\* one read can hold it and those before it (output_buffer_size in read_tcp),
\* whatever larger ones follow.  A larger one is never taken.
EveryFrameTaken == \A k \in 1..MaxFrames :
    (aligned /\ Len(stream) >= k /\ \A i \in 1..k : 4 + stream[i] <= ReadMax)
        ~> taken >= k
=============================================================================
