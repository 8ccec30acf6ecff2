------------------------------ MODULE Handlers ------------------------------
(***************************************************************************)
(* The threads of nsq-client and what they share: the reader threads of    *)
(* Client::spawn, the producer threads of Client::spawn_producer, the two  *)
(* waker threads Client::run starts, and the event loop of Client::run     *)
(* reduced to what those threads can see of it.                            *)
(*                                                                         *)
(* CONNECTED is one process-wide Mutex<bool>, shared by every Client.  A   *)
(* reader keeps its guard over the blocking msg_ch.recv() and over on_msg; *)
(* a waker thread takes it once per signal.                                *)
(*                                                                         *)
(* Data abstraction: a message is its position in its connection's         *)
(* stream, a queued command is only counted.                               *)
(***************************************************************************)
EXTENDS Integers, Sequences

CONSTANTS
    Clients,      \* the Client values of the process
    Workers,      \* reader threads, over all clients
    Producers,    \* producer threads, over all clients
    ClientOf,     \* the client that spawned each thread
    NoThread,     \* nobody holds the mutex
    MaxMsgs,      \* bound: messages nsqd sends on one connection
    MaxSends,     \* bound: ctx.send calls in one callback, or of one producer
    MaxConnMsgs,  \* bound: ConnMsg values the user sends to one client
    MaxLost,      \* bound: lost-heartbeat close events of one client
    Panics        \* whether callbacks of the user may panic

Threads == Workers \cup Producers

ASSUME HandlersAssumption ==
    /\ Workers \cap Producers = {}
    /\ NoThread \notin Threads
    /\ ClientOf \in [Threads -> Clients]
    /\ MaxMsgs \in Nat /\ MaxSends \in Nat /\ MaxConnMsgs \in Nat /\ MaxLost \in Nat
    /\ Panics \in BOOLEAN

VARIABLES
    connected,    \* the bool inside CONNECTED
    poisoned,     \* a thread panicked while it held CONNECTED
    owner,        \* the thread that keeps a guard of CONNECTED
    pc,           \* where each reader and producer thread stands
    signalling,   \* the thread is between the two sends of Context::send
    sends,        \* ctx.send calls made (this callback; in all, for a producer)
    cur,          \* the message in a reader's hand
    handled,      \* messages of a client whose on_msg has returned
    delivered,    \* messages of a client pushed into msg_channel
    closes,       \* on_close calls of a client's readers
    msg_channel,  \* event loop -> readers; 0 is the empty BytesMsg
    cmd_channel,  \* number of commands readers and producers queued
    sentinel,     \* number of signals queued for the sentinel thread
    wake,         \* readiness of CLIENT_TOKEN
    in_cmd,       \* ConnMsg values the user sent, not yet received
    r_close,      \* close requests queued for the event loop
    cmd_wake,     \* readiness of CMD_TOKEN
    spc,          \* the sentinel thread of each client
    cpc,          \* the ConnMsg thread of each client
    asked,        \* ConnMsg values the user has sent in all
    lost,         \* lost-heartbeat close events so far
    loop,         \* the event loop: waiting, between a read and its write, going on
                  \* at the end of its connection, over
    tls           \* whether nsqd upgraded the connection

mutexVars == <<connected, poisoned, owner>>
threadVars == <<pc, signalling, sends, cur>>
readerVars == <<handled, closes>>
wakerVars == <<wake, in_cmd, r_close, cmd_wake, spc, cpc, asked>>
loopVars == <<delivered, lost, loop, tls>>
vars == <<mutexVars, threadVars, readerVars, msg_channel, cmd_channel,
          sentinel, wakerVars, loopVars>>

Pill == 0                     \* BytesMsg(0, BytesMut::new())
Holding == {"recv", "on_msg", "on_close", "publish", "published"}
ThreadPc == Holding \cup {"lock", "done", "dead"}
WakerPc == {"recv", "set", "lock", "done", "dead"}
Reading == {"wait", "write"}  \* the loop of a connection that reads and writes

Init ==
    /\ connected = TRUE /\ poisoned = FALSE /\ owner = NoThread
    /\ pc = [t \in Threads |-> "lock"]
    /\ signalling = [t \in Threads |-> FALSE]
    /\ sends = [t \in Threads |-> 0]
    /\ cur = [t \in Threads |-> 0]
    /\ handled = [c \in Clients |-> 0]
    /\ delivered = [c \in Clients |-> 0]
    /\ closes = [c \in Clients |-> 0]
    /\ msg_channel = [c \in Clients |-> <<>>]
    /\ cmd_channel = [c \in Clients |-> 0]
    /\ sentinel = [c \in Clients |-> 0]
    /\ wake = [c \in Clients |-> FALSE]
    /\ in_cmd = [c \in Clients |-> 0]
    /\ r_close = [c \in Clients |-> 0]
    /\ cmd_wake = [c \in Clients |-> FALSE]
    /\ spc = [c \in Clients |-> "recv"]
    /\ cpc = [c \in Clients |-> "recv"]
    /\ asked = [c \in Clients |-> 0]
    /\ lost = [c \in Clients |-> 0]
    /\ loop = [c \in Clients |-> "wait"]
    /\ tls \in [Clients -> BOOLEAN]

-----------------------------------------------------------------------------
(* The mutex *)

\* Mutant: the guard outlives the iteration that took it.
Unlock_Leaked(t) == owner' = owner

\* The guard of CONNECTED goes out of scope.
Unlock(t) == owner' = NoThread

\* Mutant: the loop does not look at the flag it has locked.
AfterLock_NoCheck(goOn) == IF poisoned THEN "dead" ELSE goOn

\* lock.lock().unwrap() panics on a poisoned mutex; a false flag ends the loop.
AfterLock(goOn) ==
    CASE poisoned -> "dead"
      [] ~poisoned /\ ~connected -> "done"
      [] OTHER -> goOn

\* The head of the loop of a reader or a producer thread.
Lock(t) ==
    LET goOn == IF t \in Workers THEN "recv" ELSE "publish"
    IN  /\ pc[t] = "lock"
        /\ owner = NoThread
        /\ AfterLock(goOn) = "publish" => sends[t] < MaxSends
        /\ pc' = [pc EXCEPT ![t] = AfterLock(goOn)]
        /\ owner' = IF AfterLock(goOn) = goOn THEN t ELSE NoThread
        /\ UNCHANGED <<connected, poisoned, signalling, sends, cur,
                       readerVars, msg_channel, cmd_channel, sentinel,
                       wakerVars, loopVars>>

-----------------------------------------------------------------------------
(* Reader threads *)

\* Mutant: the reader that takes the pill leaves the flag alone.
MarkClosed_Forgotten == connected' = connected

\* The reader that takes the pill tells every other thread.
MarkClosed == connected' = FALSE

\* Mutant: the guard is dropped before the callback runs.
RecvMsg_Unguarded(w) ==
    LET c == ClientOf[w]
    IN  /\ Head(msg_channel[c]) # Pill
        /\ pc' = [pc EXCEPT ![w] = "on_msg"]
        /\ cur' = [cur EXCEPT ![w] = Head(msg_channel[c])]
        /\ owner' = NoThread
        /\ UNCHANGED <<connected, closes>>

\* A message: decode it and enter on_msg, still under the guard.
RecvMsg(w) ==
    LET c == ClientOf[w]
    IN  /\ Head(msg_channel[c]) # Pill
        /\ pc' = [pc EXCEPT ![w] = "on_msg"]
        /\ cur' = [cur EXCEPT ![w] = Head(msg_channel[c])]
        /\ UNCHANGED <<owner, connected, closes>>

\* The pill: clear the flag and enter on_close, still under the guard.
RecvPill(w) ==
    LET c == ClientOf[w]
    IN  /\ Head(msg_channel[c]) = Pill
        /\ MarkClosed
        /\ pc' = [pc EXCEPT ![w] = "on_close"]
        /\ closes' = [closes EXCEPT ![c] = @ + 1]
        /\ UNCHANGED <<owner, cur>>

\* msg_ch.recv() returns.
Recv(w) ==
    /\ pc[w] = "recv"
    /\ msg_channel[ClientOf[w]] # <<>>
    /\ msg_channel' = [msg_channel EXCEPT ![ClientOf[w]] = Tail(@)]
    /\ sends' = [sends EXCEPT ![w] = 0]
    /\ RecvMsg(w) \/ RecvPill(w)
    /\ UNCHANGED <<poisoned, signalling, handled, cmd_channel, sentinel,
                   wakerVars, loopVars>>

\* Context::send, first half: the command goes into cmd_channel.  A reader may
\* do it any number of times in a callback, a producer once per publish().
Send(t) ==
    /\ pc[t] \in {"on_msg", "on_close", "publish"}
    /\ ~signalling[t]
    /\ sends[t] < MaxSends
    /\ sends' = [sends EXCEPT ![t] = @ + 1]
    /\ cmd_channel' = [cmd_channel EXCEPT ![ClientOf[t]] = @ + 1]
    /\ signalling' = [signalling EXCEPT ![t] = TRUE]
    /\ pc' = [pc EXCEPT ![t] = IF @ = "publish" THEN "published" ELSE @]
    /\ UNCHANGED <<mutexVars, cur, readerVars, msg_channel, sentinel,
                   wakerVars, loopVars>>

\* Context::send, second half: the signal for the sentinel thread.
Signal(t) ==
    /\ signalling[t]
    /\ signalling' = [signalling EXCEPT ![t] = FALSE]
    /\ sentinel' = [sentinel EXCEPT ![ClientOf[t]] = @ + 1]
    /\ UNCHANGED <<mutexVars, pc, sends, cur, readerVars, msg_channel,
                   cmd_channel, wakerVars, loopVars>>

\* The callback returns and the iteration ends with its guard.
Return(t) ==
    /\ pc[t] \in {"on_msg", "on_close", "published"}
    /\ ~signalling[t]
    /\ pc' = [pc EXCEPT ![t] = IF @ = "on_close" THEN "done" ELSE "lock"]
    /\ handled' = IF pc[t] = "on_msg"
                  THEN [handled EXCEPT ![ClientOf[t]] = @ + 1] ELSE handled
    /\ Unlock(t)
    /\ UNCHANGED <<connected, poisoned, signalling, sends, cur, closes,
                   msg_channel, cmd_channel, sentinel, wakerVars, loopVars>>

\* A callback panics: the thread ends and the guard it held poisons CONNECTED.
Panic(t) ==
    /\ Panics
    /\ pc[t] \in {"on_msg", "on_close", "publish"}
    /\ ~signalling[t]
    /\ pc' = [pc EXCEPT ![t] = "dead"]
    /\ poisoned' = TRUE
    /\ Unlock(t)
    /\ UNCHANGED <<connected, signalling, sends, cur, readerVars,
                   msg_channel, cmd_channel, sentinel, wakerVars, loopVars>>

-----------------------------------------------------------------------------
(* The two waker threads of Client::run *)

\* Mutant: recv() returns without a signal in the channel.
SentinelRecv_Spurious(c) ==
    /\ spc[c] = "recv"
    /\ sentinel' = [sentinel EXCEPT ![c] = @ - 1]
    /\ spc' = [spc EXCEPT ![c] = "set"]
    /\ UNCHANGED <<mutexVars, threadVars, readerVars, msg_channel, cmd_channel,
                   wake, in_cmd, r_close, cmd_wake, cpc, asked, loopVars>>

SentinelRecv(c) ==
    /\ spc[c] = "recv"
    /\ sentinel[c] > 0
    /\ sentinel' = [sentinel EXCEPT ![c] = @ - 1]
    /\ spc' = [spc EXCEPT ![c] = "set"]
    /\ UNCHANGED <<mutexVars, threadVars, readerVars, msg_channel, cmd_channel,
                   wake, in_cmd, r_close, cmd_wake, cpc, asked, loopVars>>

\* set_readiness(Ready::writable()); several calls make one event.
SentinelSet(c) ==
    /\ spc[c] = "set"
    /\ wake' = [wake EXCEPT ![c] = TRUE]
    /\ spc' = [spc EXCEPT ![c] = "lock"]
    /\ UNCHANGED <<mutexVars, threadVars, readerVars, msg_channel, cmd_channel,
                   sentinel, in_cmd, r_close, cmd_wake, cpc, asked, loopVars>>

SentinelLock(c) ==
    /\ spc[c] = "lock"
    /\ owner = NoThread
    /\ spc' = [spc EXCEPT ![c] = AfterLock("recv")]
    /\ UNCHANGED <<mutexVars, threadVars, readerVars, msg_channel, cmd_channel,
                   sentinel, wake, in_cmd, r_close, cmd_wake, cpc, asked, loopVars>>

\* The user sends a ConnMsg: Close, Connect or GetIsConnected.
SendConnMsg(c) ==
    /\ asked[c] < MaxConnMsgs
    /\ asked' = [asked EXCEPT ![c] = @ + 1]
    /\ in_cmd' = [in_cmd EXCEPT ![c] = @ + 1]
    /\ UNCHANGED <<mutexVars, threadVars, readerVars, msg_channel, cmd_channel,
                   sentinel, wake, r_close, cmd_wake, spc, cpc, loopVars>>

\* Mutant: the event is raised without the request it announces.
ConnMsgRecv_NoRequest(c) ==
    /\ cpc[c] = "recv"
    /\ in_cmd[c] > 0
    /\ in_cmd' = [in_cmd EXCEPT ![c] = @ - 1]
    /\ cpc' = [cpc EXCEPT ![c] = "set"]
    /\ UNCHANGED <<mutexVars, threadVars, readerVars, msg_channel, cmd_channel,
                   sentinel, r_close, wake, cmd_wake, spc, asked, loopVars>>

\* Whatever the ConnMsg says, s_close.send(1).
ConnMsgRecv(c) ==
    /\ cpc[c] = "recv"
    /\ in_cmd[c] > 0
    /\ in_cmd' = [in_cmd EXCEPT ![c] = @ - 1]
    /\ r_close' = [r_close EXCEPT ![c] = @ + 1]
    /\ cpc' = [cpc EXCEPT ![c] = "set"]
    /\ UNCHANGED <<mutexVars, threadVars, readerVars, msg_channel, cmd_channel,
                   sentinel, wake, cmd_wake, spc, asked, loopVars>>

ConnMsgSet(c) ==
    /\ cpc[c] = "set"
    /\ cmd_wake' = [cmd_wake EXCEPT ![c] = TRUE]
    /\ cpc' = [cpc EXCEPT ![c] = "lock"]
    /\ UNCHANGED <<mutexVars, threadVars, readerVars, msg_channel, cmd_channel,
                   sentinel, wake, in_cmd, r_close, spc, asked, loopVars>>

ConnMsgLock(c) ==
    /\ cpc[c] = "lock"
    /\ owner = NoThread
    /\ cpc' = [cpc EXCEPT ![c] = AfterLock("recv")]
    /\ UNCHANGED <<mutexVars, threadVars, readerVars, msg_channel, cmd_channel,
                   sentinel, wake, in_cmd, r_close, cmd_wake, spc, asked, loopVars>>

-----------------------------------------------------------------------------
(* What the threads see of the event loop *)

\* Conn::decode pushes a message frame of the current read; the socket is then
\* registered writable, so a write follows.
Deliver(c) ==
    /\ loop[c] \in Reading
    /\ delivered[c] < MaxMsgs
    /\ delivered' = [delivered EXCEPT ![c] = @ + 1]
    /\ msg_channel' = [msg_channel EXCEPT ![c] = Append(@, delivered[c] + 1)]
    /\ loop' = [loop EXCEPT ![c] = "write"]
    /\ UNCHANGED <<mutexVars, threadVars, readerVars, cmd_channel, sentinel,
                   wakerVars, lost, tls>>

\* Mutant: the socket stays registered readable after a heartbeat is read.
Heartbeat_NoWrite(c) == loop[c] = "wait" /\ UNCHANGED vars

\* A read that carries no message, a heartbeat or a response: a write follows.
Heartbeat(c) ==
    /\ loop[c] = "wait"
    /\ loop' = [loop EXCEPT ![c] = "write"]
    /\ UNCHANGED <<mutexVars, threadVars, readerVars, msg_channel, cmd_channel,
                   sentinel, wakerVars, delivered, lost, tls>>

\* Mutant: one command per call, as with try_recv instead of try_iter.
WriteMessages_One(c) ==
    cmd_channel' = [cmd_channel EXCEPT ![c] = IF @ = 0 THEN 0 ELSE @ - 1]

\* Conn::write_messages takes every queued command.
WriteMessages(c) == cmd_channel' = [cmd_channel EXCEPT ![c] = 0]

\* The writable event of the socket in state Started.
WriteEvent(c) ==
    /\ loop[c] = "write"
    /\ WriteMessages(c)
    /\ loop' = [loop EXCEPT ![c] = "wait"]
    /\ UNCHANGED <<mutexVars, threadVars, readerVars, msg_channel, sentinel,
                   wakerVars, delivered, lost, tls>>

\* The CLIENT_TOKEN event.
ClientEvent(c) ==
    /\ loop[c] # "returned"
    /\ wake[c]
    /\ wake' = [wake EXCEPT ![c] = FALSE]
    /\ WriteMessages(c)
    /\ UNCHANGED <<mutexVars, threadVars, readerVars, msg_channel, sentinel,
                   in_cmd, r_close, cmd_wake, spc, cpc, asked, loopVars>>

\* The CMD_TOKEN event: with a close request the loop sends the pill and run()
\* returns, without one it logs an error and goes on.
CmdEvent(c) ==
    /\ loop[c] # "returned"
    /\ cmd_wake[c]
    /\ cmd_wake' = [cmd_wake EXCEPT ![c] = FALSE]
    /\ IF r_close[c] > 0
       THEN /\ r_close' = [r_close EXCEPT ![c] = @ - 1]
            /\ msg_channel' = [msg_channel EXCEPT ![c] = Append(@, Pill)]
            /\ loop' = [loop EXCEPT ![c] = "returned"]
       ELSE UNCHANGED <<r_close, msg_channel, loop>>
    /\ UNCHANGED <<mutexVars, threadVars, readerVars, cmd_channel, sentinel,
                   wake, in_cmd, spc, cpc, asked, delivered, lost, tls>>

\* No heartbeat for 45 seconds: the pill, and the loop goes on.  The inner loop
\* of a TLS connection never looks at the time.
HeartbeatLost(c) ==
    /\ loop[c] # "returned"
    /\ ~tls[c]
    /\ lost[c] < MaxLost
    /\ lost' = [lost EXCEPT ![c] = @ + 1]
    /\ msg_channel' = [msg_channel EXCEPT ![c] = Append(@, Pill)]
    /\ UNCHANGED <<mutexVars, threadVars, readerVars, cmd_channel, sentinel,
                   wakerVars, delivered, loop, tls>>

\* break out of the batch of events: what else it held, edge triggered, is gone.
DropBatch(c) ==
    /\ wake' = [wake EXCEPT ![c] = FALSE]
    /\ cmd_wake' = [cmd_wake EXCEPT ![c] = FALSE]
    /\ UNCHANGED <<mutexVars, threadVars, readerVars, msg_channel, cmd_channel,
                   sentinel, in_cmd, r_close, spc, cpc, asked, delivered, lost, tls>>

\* A TLS read ends in the middle of a record: WouldBlock.
WouldBlock(c) ==
    /\ loop[c] = "wait"
    /\ tls[c]
    /\ DropBatch(c)
    /\ UNCHANGED loop

\* Ok(0), in either loop: nsqd closed the connection.  During the handshake the
\* socket is registered again and the same follows at once.
ReadEof(c) ==
    /\ loop[c] \in {"wait", "ended"}
    /\ DropBatch(c)
    /\ loop' = [loop EXCEPT ![c] = "ended"]

-----------------------------------------------------------------------------
ThreadNext ==
    \/ \E w \in Workers : Recv(w)
    \/ \E t \in Threads :
          Lock(t) \/ Send(t) \/ Signal(t) \/ Return(t) \/ Panic(t)

WakerNext == \E c \in Clients :
    \/ SentinelRecv(c) \/ SentinelSet(c) \/ SentinelLock(c)
    \/ SendConnMsg(c) \/ ConnMsgRecv(c) \/ ConnMsgSet(c) \/ ConnMsgLock(c)

LoopNext == \E c \in Clients :
    \/ Deliver(c) \/ Heartbeat(c) \/ WriteEvent(c) \/ ClientEvent(c)
    \/ CmdEvent(c) \/ HeartbeatLost(c) \/ WouldBlock(c) \/ ReadEof(c)

Next == ThreadNext \/ WakerNext \/ LoopNext

Spec == Init /\ [][Next]_vars

\* The scheduler runs every thread that can run, callbacks return, and nsqd
\* keeps sending heartbeats.  Mutex::lock promises no order among waiters, so a
\* waiter is only weakly fair; what the user and nsqd do besides is not fair.
Fairness ==
    /\ \A w \in Workers : WF_vars(Recv(w))
    /\ \A t \in Threads : WF_vars(Lock(t)) /\ WF_vars(Signal(t)) /\ WF_vars(Return(t))
    /\ \A c \in Clients :
          /\ WF_vars(SentinelRecv(c)) /\ WF_vars(SentinelSet(c)) /\ WF_vars(SentinelLock(c))
          /\ WF_vars(ConnMsgRecv(c)) /\ WF_vars(ConnMsgSet(c)) /\ WF_vars(ConnMsgLock(c))
          /\ WF_vars(WriteEvent(c)) /\ WF_vars(ClientEvent(c)) /\ WF_vars(CmdEvent(c))
          /\ WF_vars(Heartbeat(c))

FairSpec == Spec /\ Fairness
-----------------------------------------------------------------------------
(* Properties *)

\* The parts of the type invariant: the mutex and the threads, ...
ThreadTypes ==
    /\ connected \in BOOLEAN /\ poisoned \in BOOLEAN
    /\ owner \in Threads \cup {NoThread}
    /\ pc \in [Threads -> ThreadPc]
    /\ signalling \in [Threads -> BOOLEAN]
    /\ sends \in [Threads -> Nat]
    /\ cur \in [Threads -> Nat]

\* ... the channels, ...
ChannelTypes ==
    /\ msg_channel \in [Clients -> Seq(Nat)]
    /\ cmd_channel \in [Clients -> Nat]
    /\ sentinel \in [Clients -> Nat]
    /\ in_cmd \in [Clients -> Nat]
    /\ r_close \in [Clients -> Nat]
    /\ handled \in [Clients -> Nat]
    /\ closes \in [Clients -> Nat]
    /\ delivered \in [Clients -> Nat]
    /\ asked \in [Clients -> Nat]
    /\ lost \in [Clients -> Nat]

\* ... the wakers and the event loop.
LoopTypes ==
    /\ wake \in [Clients -> BOOLEAN]
    /\ cmd_wake \in [Clients -> BOOLEAN]
    /\ spc \in [Clients -> WakerPc]
    /\ cpc \in [Clients -> WakerPc]
    /\ loop \in [Clients -> Reading \cup {"ended", "returned"}]
    /\ tls \in [Clients -> BOOLEAN]

\* The type of every variable.
TypeOK == ThreadTypes /\ ChannelTypes /\ LoopTypes

\* No lost wake-up on a plain connection that nsqd has not closed: while a
\* command waits in cmd_channel, a signal for it is on its way through
\* Context::send, the sentinel channel, the sentinel thread or the readiness of
\* CLIENT_TOKEN.  It is no more than on its way: the sentinel thread may be
\* blocked on CONNECTED, or dead.  Ok(0), and over TLS WouldBlock, drop the event.
CommandCovered == \A c \in Clients :
    ~tls[c] /\ loop[c] \in Reading /\ cmd_channel[c] > 0 =>
        \/ sentinel[c] > 0
        \/ spc[c] = "set"
        \/ wake[c]
        \/ \E t \in Threads : ClientOf[t] = c /\ signalling[t]

\* Once a reader has taken the pill, no thread of any client waits for, handles
\* or publishes a message any more, and whoever is in a callback is that reader.
NoHandlingAfterClose == \A t \in Threads :
    pc[t] \in {"recv", "on_msg", "publish", "published"} => connected

\* However many pills lost heartbeats and close requests put in the channel,
\* the readers of a client are told on_close at most once.
OnCloseOnce == \A c \in Clients : closes[c] <= 1

\* Messages are handled one after the other, in the order nsqd sent them: the
\* one in a reader's hand is the successor of all that have been handled.
HandledInOrder == \A w \in Workers :
    pc[w] = "on_msg" => cur[w] = handled[ClientOf[w]] + 1

\* A CMD_TOKEN event never finds r_close empty: the "error on Disconnect"
\* branch is dead.
CloseRequestBehindEvent == \A c \in Clients :
    cmd_wake[c] /\ loop[c] # "returned" => r_close[c] > 0

\* A command a callback queued is taken by write_messages in the end, unless
\* nsqd closes the connection or run() returns.
CommandsFlushed == \A c \in Clients :
    cmd_channel[c] > 0 ~> (cmd_channel[c] = 0 \/ loop[c] \notin Reading)

\* One pill stops every thread: the reader that takes it and, through the flag,
\* all the others.
OnePillStopsAll == \A c \in Clients :
    (\E i \in DOMAIN msg_channel[c] : msg_channel[c][i] = Pill)
        ~> (\A t \in Threads : pc[t] \in {"done", "dead"})

\* A message pushed into msg_channel is handled by some reader of its
\* connection, unless the process closes or a callback panics first.
MessagesHandled == \A c \in Clients : \A k \in 1..MaxMsgs :
    delivered[c] >= k ~> (handled[c] >= k \/ ~connected \/ poisoned)
=============================================================================
