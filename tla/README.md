# nsq-client, specified in TLA+

A TLA+ development beside `nsq-client`, a Rust client of the NSQ message queue: models of
its threads, of its event loop, of its connection set-up and of its bytes in both directions,
an abstract specification of a session that the event loop implements, TLC runs that check
all of it on small instances, and TLAPS proofs of the properties that have one. Paths below are relative to
the directory that holds `src/`, the repository.

## 1. The system

A `Client` owns one TCP connection to one `nsqd`. The user calls `spawn(n, reader)` and/or
`spawn_producer(n, producer)`, which start threads, and then `run()`, which starts two more
threads, connects, and is the event loop until it returns.

| Component | State | Operations | Talks to |
|---|---|---|---|
| Reader threads, `Client::spawn` (`client.rs:614-658`) | position in the loop; guard of `CONNECTED` | lock, `recv`, `on_msg`, `on_close` | event loop through `msg_channel`; event loop through `cmd_channel` and `sentinel` (`Context::send`) |
| Producer threads, `Client::spawn_producer` (`client.rs:660-685`) | position; guard | lock, `publish`, `Context::send` | the same two channels |
| `CONNECTED` | one process-wide `Mutex<bool>` | lock, clear, poison | readers, producers, wakers of *every* client |
| Sentinel thread (`client.rs:119-136`) | position | `recv`, `set_readiness`, lock | raises `CLIENT_TOKEN` |
| ConnMsg thread (`client.rs:137-154`) | position | `recv`, `s_close.send(1)`, `set_readiness`, lock | raises `CMD_TOKEN` |
| Event loop, `Client::run` (`client.rs:182-610`) | last heartbeat, TLS stage, poll registrations | poll, read, write, handshake, TLS upgrade, close | everything |
| `Conn` (`conn.rs`) | `state`, `need_response`, `heartbeat`, `responses`, `in_flight`, `r_buf`, `w_buf` | `magic`, `identify`, `auth`, `subscribe`, `rdy`, `read_tcp`, `decode`, `write_messages`, `write_tcp`, `get_response` | socket, channels |
| `connect` (`conn.rs`) | address list, backoff | look up, connect, retry | socket |
| `codec.rs`, `msgs.rs` | none | layout of commands, messages and responses | `Conn`, readers |
| `config.rs` | IDENTIFY parameters | builder methods, JSON | `Conn` |
| `tls.rs`, `state.rs`, `error.rs`, `auth.rs`, `async_context.rs` | - | not reached from `lib.rs` in the built crate | - |

What is hard here:

* **Wake-ups.** A command travels through a channel, a signal through a second one, a thread,
  a coalescing readiness and an edge-triggered poll. Each can overtake or swallow another.
* **One mutex for the process**, held over a blocking `recv()` and over user callbacks, which
  may panic and poison it.
* **Closing.** An empty message in `msg_channel` (the *pill*) means "closed". It is sent on a
  close request and, repeatedly, while heartbeats are late; one reader takes it and tells the
  others through the flag.
* **Edges.** The socket is registered for reading *or* writing, edge triggered, and re-registered
  at every step of the handshake; `break` leaves a batch of events half looked at.
* **Answers without numbers.** Responses are kept on a stack and popped with `unwrap`, so order,
  completeness and interleaving of frames decide whether the handshake works.
* **Bytes.** TCP cuts the stream anywhere; `decode` decides from three different lengths whether
  a frame is complete.
* **Time.** 45 seconds without a heartbeat mean "lost", in one of the two loops, and the clock
  runs from before `connect()`, which blocks in the lookup and sleeps between its attempts, and on
  through the pending connection and the handshake.
* **Writes.** `write_tcp` writes once and clears the buffer, whatever the socket took.

The `hazards` of `PROJECT.json` list these at their lines, each with the properties that
cover it, and what they leave out.

Correctness, component by component:

* threads: a queued command always has a wake-up on its way and is written in the end; messages
  are handled once, in order, by one reader at a time; one pill stops every thread, `on_close`
  runs at most once, and nothing is handled after it;
* event loop: the protocol's order on the wire, each answer taken for the question it answers,
  `in_flight` as documented, no missed edge (handshake ends, heartbeats are answered, commands
  written, closes honoured), and the closed event exactly when the connection is closed;
* decoder: the frames that come out are the frames nsqd put in, none torn, none left behind;
* codec: nsqd parses out of the stream the commands that were written, a message's fields arrive
  as they were sent, and a failed write damages nothing but itself and what follows;
* connect: the first address that can be reached is used, in time for the first heartbeat.

Not all of it holds of this code; section 3 says what does, and what a run refutes.

## 2. Modules

| Module | Models | Lines of code |
|---|---|---|
| `Handlers` | all threads of one process and what they share; the event loop as far as they see it | `client.rs` 30-154, 423-449, 553-556, 595-609, 614-707; `conn.rs` 164-181, 210-213 |
| `EventLoop` | `run()` from the connecting socket to its end, with `Conn`, one connection, and the thread that raises `CLIENT_TOKEN` | `client.rs` 119-136, 155-610, 688-707; `conn.rs` 26-36, 101-150, 164-248, 264-279, 334-343; `config.rs` 25-146, 207-209 |
| `Session` | what one `run()` of a consumer promises; abstract | |
| `Decoder` | `read_tcp` and `decode` on bytes | `conn.rs` 68-94, 183-248 |
| `Codec` | `Conn::write_cmd`, `write_tcp` and `codec.rs` on bytes | `codec.rs` 45-106; `msgs.rs` 26-190; `conn.rs` 101-104, 164-181, 250-279 |
| `Connect` | `connect()` and its backoff | `conn.rs` 282-332; `client.rs` 177-179 |
| `MCHandlers`, `MCEventLoop`, `MCDecoder`, `MCCodec` | constants for TLC | |
| `HandlersProofs`, `DecoderProofs`, `CodecProofs`, `ConnectProofs` | theorems about those modules | |
| `EventLoopProofs`, `SessionProofs`, `FlightProofs` | theorems about `EventLoop`: types and control; order and refinement of a consumer; the handshake of every client and what the loop counts | |
| `Induction` | induction over sets and numbers, and lemmas about sequences, for the proofs | |

The models overlap where the components meet. `Handlers` reduces the loop to `Deliver`,
`Heartbeat`, `WriteEvent`, `ClientEvent`, `CmdEvent`, `HeartbeatLost`, `WouldBlock` and `ReadEof`,
after the handshake; `EventLoop` reduces the threads to `HandlerSend`, `Sentinel` and `UserClose`, the byte
stream to whole frames plus the fault `short_read`, and a write to all or nothing; `Decoder` and
`Codec` are what those abstract. `Connect` is what precedes the initial state of `EventLoop`.

### 2.1 Handlers

A thread's `pc` is `lock` (before `lock.lock()`), `recv` (blocked in `msg_ch.recv()` with the
guard), `on_msg`, `on_close`, `publish`, `published`, `done` (left its loop) or `dead`
(panicked). `Send` and `Signal` are the two sends of `Context::send`, and another thread may
run between them. `AfterLock` is what a thread finds behind `lock().unwrap()`: a poisoned mutex
panics it, a cleared flag ends its loop. `Panic` is a callback that panics under the guard.

The wakers' `recv`, `set`, `lock` are the three places at which they can be overtaken.
`set_readiness` makes `wake` or `cmd_wake` true, however often it is called.

`Deliver` pushes a message in `decode` and leaves the loop before a write, since every read
re-registers the socket writable; several messages in one read are several `Deliver` steps in a
row. `WouldBlock` is the `break` of the TLS loop that drops the rest of a batch (`DropBatch`), and
`ReadEof` that of either loop when nsqd has closed the connection (`Ok(0)`): nothing is read or written
after it, while the user may still close and the heartbeat is still found lost. A message is its position
in the stream, a command is counted.

### 2.2 EventLoop

`Poll` fills `batch`; the `Read...`, `Write...`, `ClientEvent` and `CmdEvent` actions each
take one event from it, guarded by `Dispatch`: the socket's event precedes those of the two
user registrations, which mio's poll adds last. `ReadAnswer`, `ReadUpgrade` and `ReadFatal` are
the three ways out of a read during the handshake; `After` is the state machine of
`client.rs:480-553` (`PlainNext`) and `:291-343` (`TlsNext`). Where those two differ
(the producer, error handling, the poll's timeout), the model differs. `responses` is a stack,
as in the code, `in_flight` is a number modulo `U32`, and with `OverflowChecks` (a debug build)
going below zero is a panic. `ReadWouldBlock` reports to the user and breaks, or panics if the user has
dropped the receiver of the reports.

A command goes its whole way: `HandlerSend` queues it with a signal, `Sentinel` turns a signal into the
readiness of `CLIENT_TOKEN`, when it gets to it, and `ClientEvent` or the write behind a read takes it. In
on_msg a handler sends behind its message; producer threads, which any client may have beside its topic and
channel, and on_close send at any time, a PUB before the connection is made included.

`late` is whether `last_heartbeat` is more than 45 seconds old. It is taken before `connect()`, so it may
become so (`Elapse`) until the first heartbeat is answered (`Settled`): while the lookup blocks, the
connection is pending or the handshake drags on. After that it takes a lost peer or an nsqd whose heartbeats
are rarer than that (`~Punctual`); only the answer to a heartbeat ends it (`StillLate`).

`outcome` is how `run()` stands: `running`, `returned`, `failed` (the error of the TLS
handshake), `panicked`, `exited` (`process::exit(1)`).

External, and modelled from how the code uses them: nsqd (`Answer`, `NsqdAnswer`,
`NsqdMessage`, `NsqdHeartbeat`), the network (`Connected`, `PeerFails`), mio (`SocketReady`,
`Ready`: a condition is reported once per edge, and again after `reregister`) and time
(`Elapse`). nsqd answers each command in turn (`Answer`), a FIN or TOUCH that comes too late with an error
after which it goes on (`TooLate`). `Setups` are the clients and servers an instance considers (`producer`:
no topic and channel; `publishes`: others than on_msg send; `informed`: somebody holds the receiver of the
reports; the secret, the fields of `Config` that matter, a server with or without TLS and AUTH), one of
them chosen initially; `Faults` are the misfortunes it allows. `tls_v1` and `auth_required` are the fields
of `NsqdConfig` as nsqd fills them in: TLS only if both sides want it, nothing at all (an `OK`
instead of the JSON) without `feature_negotiation`.

### 2.3 Session

The abstract specification of a consumer's connection, without socket, poll, buffers or TLS. The
client utters the `script` MAGIC, IDENTIFY, AUTH if it must, SUB, RDY up to a question
(`Utter`), goes on when the server has processed all of it (`Answered`), and after that makes
remarks (NOP, FIN, TOUCH, PUB) and is delivered messages, not before the server has processed RDY.
The readers are told of a closed connection if it is lost, heartbeats are not steady, or none was answered
yet (`Report`), or with the end of `run()` (`Close`); otherwise `run()` ends only while it waits for an
answer, is cut off or has nobody to take its report (`Fail`) or, in a debug build, with a remark; and after
the end it does nothing. `Serve` and `Lose` are the server's and the network's.

The refinement mapping is at the end of `EventLoop` (`S == INSTANCE Session WITH ...`). `uttered` is
computed from `state` and `need_response` (`Uttered`); the TLS upgrade, in which `need_response` stays
set from the answer to IDENTIFY to the `OK` over TLS, is a stuttering step: to the session it is
one long wait. It is the session of consumers that send in on_msg only (`Quiet`). A producer has none, nor
has a consumer with producer threads, whose PUBs come between the steps of the handshake: their steps
stutter, and `HandshakeOrder` is what holds of them.

### 2.4 Decoder

`stream` and `ends` are what nsqd sent. Bytes are not stored, only counted: `read_bytes` and
`taken_bytes` bound what is in `r_buf`. `Enough` is the chain of early returns of `decode` in
the code's order; `size` is its argument, the bytes of the *last* read. `TakeFrame` splits off a
frame the buffer holds; `TearFrame` splits off one of which up to four bytes are missing, which
the comparison with `frame_size` (four bytes less than the frame) lets through. What follows a
torn frame is either a panic of `split_to` or a stream out of step, according to the capacity of
`r_buf`; the model stops there with both outcomes. `aligned`, chosen initially, says whether every
read ends where a frame ends.

### 2.5 Codec

A byte is a number; the text of a command's line, with its arguments, is one byte, since no
property looks into it. `Encoded` is `Conn::write_cmd`, which chooses the layout of the bodies by
their number. `WriteCmd(c, n)` writes one command with whatever was in `w_buf` (MAGIC, before the
first), and the socket takes `n` bytes of it: all, none (`would_block`), or some (`short_write`). The
other side is external: `Parsed` is the grammar by which nsqd reads commands, one after the other from
the start of the stream (a line, then as many sized bodies as the command asks for, none of them larger
than `MaxBody`), `Payload` the layout of its messages, `decode_msg` the code that takes one apart.
`ReadMsg` is the reader that calls it.

### 2.6 Connect

`Lookup`, then `Attempt` and `Backoff` in turn. The socket does not block, so an attempt fails only
at once: an IPv6 address (the socket is IPv4) or no route; a server that refuses shows up in the
event loop. `elapsed`, the age of `last_heartbeat`, is what the lookup took, one of `LookupTimes`, and what
was slept. The figures of the backoff
(500 ms, times 1.5 up to a minute, give or take half, for 15 minutes) are the defaults of the
`backoff` crate, external.

## 3. Runs

All with TLC; the longest takes three and a half minutes.

| Run | Instance | Checks |
|---|---|---|
| `HandlersSafe` | 1 client, 2 readers, 1 producer, 2 messages, 1 ConnMsg, 1 lost heartbeat, panics | `TypeOK`, `CommandCovered`, `NoHandlingAfterClose`, `OnCloseOnce`, `HandledInOrder`, `CloseRequestBehindEvent` hold |
| `HandlersLive` | 1 client, 2 readers, fair | `CommandsFlushed`, `OnePillStopsAll`, `MessagesHandled` hold |
| `HandlersTwoClients` | 2 clients, 1 reader each, fair | `MessagesHandled` **fails** |
| `LoopSafe` | consumers, and consumers and producers with producer threads, plain and TLS, with AUTH and without, secrets good, bad and missing, default and other settings; FIN, TOUCH and PUB, all eight faults, release build | `TypeOK`, `SessionOrder`, `HandshakeOrder`, `TlsProducerNeverSubscribes`, `AnswersTaken`, `InFlightBalance`, `SettledNotReported` and the refinement `ImplementsSession` hold |
| `LoopLive` | consumers, plain, and over TLS with AUTH; FIN and PUB, lost peers and split TLS records, fair | `HandshakeCompletes`, `HeartbeatAnswered`, `CommandsWritten`, `CloseHonoured`, `PlainLossReported` hold |
| `LoopTlsLost` | consumers, TLS, lost peers and failing TLS handshakes, fair | `LostPeerReported` **fails** |
| `LoopRareHeartbeats` | a consumer with `heartbeat_interval` 60000, no faults | `SettledTruthful` **fails** |
| `LoopEarlyPublish` | producers | `IdentifyDecoded` **fails** |
| `Decoder` | frames smaller and larger than the buffer of a read, reads that end where frames end, and reads that end anywhere, fair | `TypeOK`, `AlignedWhole`, `DecodeExhausts`, `TornOnlyAtTail`, `LargeReadDrains`, `EveryFrameTaken` hold |
| `DecoderTorn` | small frames | `WholeFrames` **fails** |
| `Codec` | three commands of every layout, every place a write can be cut, one message | `TypeOK`, `InSync`, `CutHurtsLater`, `MessageFaithful` hold |
| `Connect` | every list of up to 9 addresses, a lookup of 8 or 40 seconds or one that fails, a route that comes and goes, fair | `TypeOK`, `FirstReachable`, `FreshHeartbeat`, `Connects` hold |

The five that fail are disagreements of the code with a comment, an assertion, the documentation of `Config`
or the README of the repository; `findings` in `PROJECT.json` quotes each. The passing runs leave nothing of
this out of their instance; what does not hold is out of the statement, which says how much of a claim is left:

* The closed event. A connection that is pending, or whose first heartbeat is slow to come, is reported
  closed after 45 seconds, and one with rare or no heartbeats every time (`LoopRareHeartbeats`). With
  heartbeats at least every 45 seconds, the first answer ends that, and it does not come back
  (`SettledNotReported`).
* `in_flight`. It is not the "msgs in flight" of its comment: it is messages less commands of any
  kind, in the width of its type, so that TOUCH takes a message out of it and a producer's is below zero from
  its first PUB (`InFlightBalance`). A debug build panics there.
* Publishing. The PUB of a producer thread can be answered in the place of IDENTIFY (`LoopEarlyPublish`),
  and it can take MAGIC with it into a socket that is still connecting. What is left is `HandshakeOrder`:
  the steps are neither repeated, swapped nor skipped, MAGIC apart. For consumers that send in on_msg only,
  `SessionOrder` and `ImplementsSession` say all of it.
* Producers. `TlsProducerNeverSubscribes` is about TLS: the plain loop subscribes a client without topic and
  channel like any other, against the producer example's "no channel and topic means Producer", and the
  error with which nsqd answers is one of the panics below.
* `responses`. The replies to PUB, and the errors of late FINs and TOUCHes, stay on the stack for good.
  `AnswersTaken` does not bound it; it says that nothing else is on it, hence no answer of the
  handshake is left to be popped for another.
* Large frames. A `frame_size` above `output_buffer_size` is refused on every read, though the documentation
  of `Config` takes that for a setting of nsqd's, and what follows is stuck behind it. `EveryFrameTaken` is
  about what comes before.
* Panics. No property claims their absence. With an nsqd that follows the protocol `run()` panics when a
  read of the handshake holds a heartbeat or part of an answer, on the `OK` that a client without
  `feature_negotiation` gets for its IDENTIFY, on a reset, on an error in the place of an answer, and when
  the receiver of its reports is gone. `ImplementsSession` says when: while an answer is awaited, the peer
  is lost, or nobody takes the report.

Other properties stop where the code does:

* `CloseHonoured` and `CommandsWritten` stop at a read that would block; over TLS both begin behind the
  answer to IDENTIFY: the `break` in those places drops the rest of the batch. `CommandsWritten` begins
  when the readiness of `CLIENT_TOKEN` is set or a write is due: before that the sentinel thread may be
  blocked, as `Handlers` shows, and the command waits for a message or a heartbeat (`CommandsFlushed`).
* `DecodeExhausts` fails for reads that are not `aligned`: a frame that came in two reads, the second
  shorter than the frame, stays in `r_buf` although it is complete, until a larger read
  (`LargeReadDrains`).
* `InSync` fails if `Sound` lets an MPUB of one message through: its body has the layout of PUB's,
  and nsqd looks for a count in it. It is also silent once a write is cut, and when the first
  write, which carries MAGIC, is lost: nothing that follows such a loss is claimed.
* `FreshHeartbeat` stops at 9 addresses after a lookup of 8 seconds (with 10, nine sleeps may take 56
  seconds), and at 4 after one of 40; beyond, the loop starts with a pill.

Deadlock is not checked: every behaviour of these models may end, when `run()` has returned, the
threads are done and nsqd has nothing more to say. What must not stop is stated as liveness.

### Bounds

* Two readers and a producer: every property of `Handlers` speaks of at most two threads at a
  time (one that holds the guard and one that does not), and `HandlersProofs` removes the bound
  for every invariant of the run. Two messages are the fewest that can be taken in the wrong
  order. One lost heartbeat and one ConnMsg make two pills, the fewest that could close
  twice. `MaxSends = 1` in each callback already gives several commands in the channel, one from
  each thread. The two readers are interchangeable, hence the symmetry of `HandlersSafe`; the
  liveness runs use none.
* `EventLoop`: a message, a heartbeat and the answers to commands give reads with several frames and
  frames that arrive between a read and its write; `U32 = 8` is larger than every count that can occur
  and wraps below zero as 2^32 does. `MaxExtra` bounds TOUCH and PUB; one comes at every place.
  `LoopRareHeartbeats` has two heartbeats, one answered and one to come. `LoopLive` pairs AUTH with TLS and
  `LoopSafe` AUTH with plain connections; `LoopSafe` lets its quiet consumers ask for TLS in vain or drop the
  receiver of the reports, which takes nothing from what others do. `ReadWouldBlock` happens at
  most once, so that liveness is about a loop that reads on. `EventLoopProofs`, `SessionProofs` and
  `FlightProofs` remove every bound for the safety properties, all but `HandshakeOrder`.
* `Decoder`: frames of 10, 19 and 36 bytes (`OK`, a heartbeat, a message with a body of two),
  buffer 64, the smallest that `config.rs` allows: one read holds less than, exactly or
  more than one frame, and splits any frame at any byte. `Decoder` adds one of 74, which no read holds. Two
  frames are one to be left behind and one to free or follow it.
* `Codec`: three commands are one before a lost or cut write and one behind it. Bodies of up to three
  bytes, one of which looks like a command's line; nsqd takes bodies of up to 40, more than any of them.
* `Connect`: 9 addresses are the most for which `FreshHeartbeat` holds; the cap of the interval and
  the 15 minutes of the backoff lie beyond. The two lookup times are the limits of its two cases.

### Fairness

* `Handlers`: a thread that can run runs, callbacks return, nsqd keeps sending heartbeats (WF of
  `Heartbeat`, i.e. the loop keeps reading). `Mutex::lock` promises no order, so a waiter has only
  weak fairness: it may wait for ever while others take turns. What the user does, what nsqd
  delivers, lost heartbeats, panics and `WouldBlock` are never forced. `HandlersLive` has readers only:
  `publish()` runs under the mutex and nothing makes it return, and while it does not nobody closes or handles
  a message.
* `EventLoop`: the loop's thread runs (WF of `LoopNext`), nsqd answers commands it has, a
  connection attempt ends, a TLS handshake that can end does, and 45 seconds pass. Nothing makes
  nsqd send messages or heartbeats, the peer fail or the user ask, nor the sentinel thread pass a signal
  on: it may be blocked on `CONNECTED`.
* `Decoder`: the loop reads what is there and `decode` runs on.
* `Connect`: the thread of `run()` runs. The route owes nothing.

## 4. Proofs

### HandlersProofs - any number of clients, threads, messages, commands and pills

`Spec => []IInv` (`Inductive`), where `IInv` is

* `TypeOK`;
* `LockInv`: a thread stands in the guarded part of its loop exactly when it owns `CONNECTED`;
* `NoHandlingAfterClose` itself: with `LockInv`, the one thread that clears the flag is the only
  one in the guarded part, so no other can be in `recv` or in a callback when it does;
* `CloseInv`: a client was told `on_close` never, or once and the flag is down. Without the flag
  the bound on `closes` is not inductive, since a second pill may already be in the channel;
* `RequestInv`: the close request is in `r_close` from before `set_readiness` until the loop takes
  it and returns. The property alone forgets the moment between `s_close.send` and the event;
* `CommandCovered` itself, inductive with the types: `Send` sets `signalling`, `Signal` moves it
  to `sentinel`, the sentinel thread to `spc = "set"` and to `wake`, and `wake` goes only with the
  queue (over TLS it may go without, which is why the property excludes it).

Theorems: `TypeCorrect`, `WakeUps` (`CommandCovered`), `ClosedForAll` (`NoHandlingAfterClose`),
`ClosedOnce` (`OnCloseOnce`), `RequestsFirst` (`CloseRequestBehindEvent`).

`InOrder` (`HandledInOrder`) rests on `IInv` and on `OrderInv`, inductive relative to it: while the
flag is up and the mutex sound, `msg_channel` up to its first pill holds the numbers that follow the
messages handled and the one in a reader's hand (`Continues`), and without a pill it ends with the
last one delivered; a poisoned mutex has no owner. Behind the first pill nothing is claimed: the
pill lowers the flag and nobody reads on.

Assumed of the
constants: `HandlersAssumption`, that readers and producers are disjoint, every thread has a
client, and the bounds are numbers.

### DecoderProofs - any frame sizes, any buffer, any cut of the stream

`IInv` is `TypeOK`, `LayoutInv` (frames lie end to end, so ends are monotone), `SyncInv` (what was
split off ends where a frame ends; a torn frame had `frame_size` bytes in the buffer and not
four more), `AlignedInv` and `LargeReadDrains` itself. `AlignedInv` says of aligned reads that they
keep `read_bytes` at a frame's end, hence a frame that is begun in the buffer is whole, and that
`r_buf` is empty before a read and holds no more than `size` after it, hence none of the early
returns keeps decode from a frame that is there. `LargeReadDrains` is inductive with the rest: only
a return of `decode` can disturb it, and the early returns it can have taken rule a whole frame out.

Theorems: `TypeCorrect`, `TornAtTail` (`TornOnlyAtTail`), `AlignedNeverTorn` (`AlignedWhole`),
`AlignedExhausts` (`DecodeExhausts`), `LargeReadsDrain` (`LargeReadDrains`).
`DecoderAssumption`: frame sizes are at least the four bytes of the frame type.

### CodecProofs - any commands, messages and cuts

The stream is read by a recursion over its positions, so the proof starts with `Held(s, p, e)`: behind
the first `p` bytes `s` goes on with `e`. What is held stays held when bytes follow (`HeldMore`), and
nsqd's reading of what is held is what was written: of a length and a body (`SizedReads`), of the several
bodies of an MPUB, which fill the size that `write_mmsg` adds up (`BodySizeCounts`, `MultiReads`), and of a
command with its line (`CommandReads`). That the recursive functions `Laid`, `BodySize`, `Multi` and
`Parsed` exist is shown with each.

The invariant is `Traced`: if VERSION came over, the commands that were taken lie in `stream` one
behind the other (`Trace`), and as long as no write was cut nothing comes behind them. The positions at
which they lie are what `InSync` lacks. A VERSION that is lost with the first write is not made up
for (`NeverGreetedLater`: no command begins with a byte of it), and every command that was taken was
written, hence is sound if all are. `WholeParsed` and `PartParsed` draw the two properties from it.

Theorems: `TypeCorrect`, `Synchronous` (`InSync`), `CutLater` (`CutHurtsLater`) and `Faithful`
(`MessageFaithful`), which is `DecodesPayload`. `CodecAssumption`: lengths fit the i32 of `write_mmsg`
(`MaxBody` below 2^31), a command has the bodies that `msgs.rs` gives its kind, and a message of nsqd
has a timestamp of eight bytes, attempts of two and an id of sixteen ASCII bytes. `Sound`, the hypothesis
on commands in both properties, leaves out the empty body, which NSQ forbids, bodies nsqd does not take,
and the MPUB of one message, for which `InSync` is false.

### ConnectProofs - any list of addresses

`Counted` (no attempt before the lookup, at least one once `connect` sleeps, is through or has
panicked) is inductive with `TypeOK`, by which no more addresses are tried than the lookup returned:
`addrs.next()` is never used past the end. `OnlyV6Failed` adds that, while the route is
there, every address that was passed over is an IPv6 one, which gives `FirstReachableTaken`
(`FirstReachable`). `HeartbeatFresh` (`FreshHeartbeat`) rests on `Paced`: after each of the first
nine attempts the backoff's interval is the one in a table of nine (`Intervals`) and the time slept
at most the sum of the longest sleeps they allow (`Longest`). The bound on `elapsed` alone is not
inductive: how long the next sleep may be depends on the interval. What the table leaves of the 45 seconds,
8 after nine attempts and 41 after four, is the time for the lookup.

### EventLoopProofs - any clients, servers, faults, commands and bounds

`TypeCorrect` is `TypeOK` with `Gone` (a client nsqd sent away has lost its peer), without which the
types are not inductive: `Answer` is defined for the other phases only. Its hardest part is the
stack of responses, a recursion over the frames of a read: `ResponsesFacts` says what it computes
for every read.

`ControlCorrect` is the invariant of the loop's control: `Turns` (the socket is registered for
reading exactly when an answer is due or the handshake is over, and an answer is due in four states
only), `Secured` (TLS is negotiated in state Tls, with an empty batch, and is on in the states that
follow if it was negotiated at all), `Unconnected` (nothing happens before the connection is made) and
`Lateness` (the heartbeat is late only if the peer is lost, heartbeats are rare or none was answered yet;
no NOP is kept back). From it:

* `SettledTrusted` (`SettledNotReported`): once a heartbeat was answered on a connection whose heartbeats
  come at least every 45 seconds (`Punctual`), the check of `last_heartbeat` tells the readers nothing false.
  It takes `late' = late /\ ~heartbeat` of the answering write, for a loop that was late before;
* `TlsProducer` (`TlsProducerNeverSubscribes`): neither `wire` nor `w_buf` holds a SUB, inductive with
  `Secured`, which keeps a TLS client out of the plain loop's state Subscribe.

### SessionProofs - order, and the refinement

The invariant is `Dialogue`, of a consumer that sends in on_msg only: `Said` (while the peer is not lost,
the wire holds exactly what `state` and `need_response` say was uttered, MAGIC is in `w_buf` exactly before that, and remarks
come behind the whole script), `Processed` (nsqd has processed all of it but the question that waits
for its answer), `Returned` (during the handshake at most one answer is on its way, and to all that was
said; messages are on their way only behind RDY) and `Idle` (no command, message or response is kept
while the handshake lasts). `SessionOrder` is a part of `Said`; alone it is not inductive, since a second
read of an old answer would make the client speak too early, and `Returned` and `Idle` are what rules
that out.

Theorems: `DialogueCorrect`, `SessionInOrder` (`SessionOrder`) and `SessionImplemented`
(`ImplementsSession`): `SessionInit` maps initial states to initial states, and `SessionStep` each step of
the loop, of nsqd and of the network to a step of `Session` or a stutter, action by action. `Session`
states no fairness, so this is the whole of the refinement.

### FlightProofs - the handshake of every client, and what the loop counts

Here the handlers send what they like when they like: producers, and consumers with producer threads, are
included, and nothing is assumed of faults, commands or servers.

`StepsCorrect` is `Buffer` (MAGIC is the first word on the wire or none, and `w_buf` holds it or nothing),
`Steps` (no step of the handshake is on the wire beyond the one `state` and `need_response` have come to,
and each stands behind lower ones only: in order, and once at most) and `Subscribed` (nobody says RDY who
has not asked to subscribe, and while the peer is there and RDY not processed, nsqd that processed the SUB
is in phase `sub`). It is `HandshakeOrder` without the clause that no step is missing.

* `Responded` (`AnswersTaken`) needs a balance, `Budget`: the answers that are kept, those on their
  way and those nsqd owes are no more than the commands nobody waits for (PUB, FIN, TOUCH) and the one
  answer that is due. Each action moves an answer from one of these places to another; the property itself
  only sees the first. An RDY, which has no answer, would be answered with an error out of place:
  `Subscribed` rules that out.
* `InFlightCounted` (`InFlightBalance`): each batch of a read adds its messages, each `write_messages` the
  commands it took, also where the counter wraps around, until a debug build panics.

`EventLoopAssumption` asks of the constants that they have the types the comments say and that
`MaxMsgs < U32`.

### Induction

The library's induction theorems take an operator as a parameter, which the provers here cannot
instantiate. `SetInduction` takes a set instead: a set of numbers that holds 0 and with each number the
next is all of `Nat`; to prove a formula for every number is to prove that the set of numbers it is
true of is such a set. On it rest `Recursion`, that a function defined step by step exists, the
facts about the recursive function in `Responses`, and how often a kind of thing occurs in a sequence
(`Many`) when sequences are joined, split or extended.

### Only model-checked

Every liveness property: TLAPS proves no fairness or ENABLED. `HandshakeOrder`, whose `SelectSeq` is a
recursion over the wire; `StepsCorrect` has its order. Each other safety property of the passing runs is a
theorem, for every value of the constants that the named assumptions allow.

## 5. Assumptions and what is left out

* mio reports the socket before the user registrations, each edge once; a re-registration reports a
  condition that holds. The rest of an incomplete TLS record makes a new edge.
* `EventLoop` reads whole frames unless the instance has `short_read`; what decode does to a frame
  that is cut is in `Decoder`, but the loop is not composed with it. Plaintext left inside the TLS
  library after a read is not modelled.
* nsqd closes after an error to a command of the handshake, as its protocol does, and goes on after that
  to a late FIN or TOUCH; it sends one answer per command, and TLS begins without a heartbeat in between.
* In `EventLoop` a write takes all of `w_buf` or, on a connection that is not open, none; short
  writes are in `Codec`.
* The 45 seconds are one fact, `late`. `EventLoop` begins with it false, as after a `connect()` within the
  limits of `FreshHeartbeat`; it may become true at once.
* On a connection that was settled, heartbeats of an open peer arrive and are answered in time: `Elapse` is
  no consequence of a loop that is slow.
* Windows: `socket_connect` binds to a local address there, which is not modelled.

Not modelled:

* the busy loop of the wakers after all senders are dropped;
* the fields of `Config` that are only passed on as JSON, the builder methods that set them, and
  the JSON itself; `msg_timeout`, which travels with each message and decides nothing;
* `tls.rs`, `state.rs`, `error.rs`, `auth.rs` and `async_context.rs`, which no `mod` of `lib.rs`
  reaches: the crate is built without them;
* the examples: `producer` and `consumer` (`main.rs`) are calls of the API; `reader`, and `consumer.rs` and
  `reader.rs` beside `consumer`, use the interface of an earlier version (actix);
* logging.

## 6. Plan

Done, in this order: `Handlers` and its proofs (the threads are what tests reach least),
`EventLoop`, `Decoder` and its proofs, `Codec`, `Connect`, `Session` and the refinement, the proofs
of `Connect`, of every invariant of `EventLoop` and of the refinement, and of `Codec`. Next:

1. what the threads of one client promise together, as an abstract specification (messages handled one
   at a time and in order until the close), and `Handlers` as its implementation, proved;
2. the bytes of `Decoder` below the frames of `EventLoop`: a fault `short_read` as a torn frame of `Decoder`.
