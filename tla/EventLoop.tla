----------------------------- MODULE EventLoop -----------------------------
(***************************************************************************)
(* The event loop of Client::run with the Conn it drives, one connection   *)
(* from connect() to its end: the handshake MAGIC, IDENTIFY, TLS, AUTH,    *)
(* SUB, RDY, then heartbeats, messages and the commands of the handlers.   *)
(*                                                                         *)
(* Its environment is external: nsqd answers commands in order; the poll   *)
(* reports edges of the socket and of the two user registrations; the      *)
(* handlers and the user queue commands and close requests (module         *)
(* Handlers has their threads).                                            *)
(*                                                                         *)
(* Data abstraction: a frame or a command is its kind, a read takes whole  *)
(* frames except under the fault short_read (module Decoder has the        *)
(* bytes), and the clock is the one fact the loop asks of it: whether the  *)
(* last heartbeat is more than 45 seconds old.                             *)
(***************************************************************************)
EXTENDS Integers, Sequences, FiniteSets

CONSTANTS
    Setups,       \* the clients and servers considered, see Setup
    HandlerCmds,  \* what the handlers send: FIN, TOUCH, PUB
    Faults,       \* what may go wrong around the client
    OverflowChecks, \* debug build: arithmetic overflow panics
    U32,          \* size of the counters' type, 2^32 in the code
    MaxMsgs,      \* bound: messages nsqd sends
    MaxBeats,     \* bound: heartbeats nsqd sends
    MaxExtra,     \* bound: commands of the handlers besides FIN
    MaxCloses     \* bound: close requests of the user

AllFaults == {"eof", "reset", "silent", "short_read", "early_heartbeat", "late_command",
              "would_block", "tls_failure"}

\* What the loop or nsqd reads of Config; heartbeat_interval stands for the three
\* cases disabled (-1), shorter and longer than the 45 seconds of the loop.
Config == [feature_negotiation : BOOLEAN, heartbeat_interval : {-1, 30000, 60000},
           tls_v1 : BOOLEAN]

\* impl Default for Config, and the same after tls().
DefaultConfig == [feature_negotiation |-> TRUE, heartbeat_interval |-> 30000, tls_v1 |-> FALSE]
TlsConfig == [DefaultConfig EXCEPT !.tls_v1 = TRUE]

\* A client (no topic and channel or both; whether others than on_msg send, which
\* are producer threads and on_close; whether the receiver of its reports is kept;
\* its secret, its Config) and an nsqd, with a TLS certificate or not, asking for
\* AUTH or not.
Setup == [producer : BOOLEAN, publishes : BOOLEAN, informed : BOOLEAN,
          secret : {"none", "good", "bad"}, config : Config,
          nsqd_tls : BOOLEAN, auth_required : BOOLEAN]

ASSUME EventLoopAssumption ==
    /\ Setups \subseteq Setup
    /\ OverflowChecks \in BOOLEAN
    /\ HandlerCmds \subseteq {"FIN", "TOUCH", "PUB"}
    /\ Faults \subseteq AllFaults
    /\ U32 \in Nat \ {0}
    /\ MaxMsgs \in Nat /\ MaxBeats \in Nat /\ MaxExtra \in Nat /\ MaxCloses \in Nat
    /\ MaxMsgs < U32

VARIABLES
    state,         \* Conn.state
    need_response, \* Conn.need_response
    heartbeat,     \* Conn.heartbeat: a heartbeat was read and not answered
    responses,     \* Conn.responses, a stack
    in_flight,     \* Conn.in_flight
    w_buf,         \* Conn.w_buf: commands encoded and not written
    tls,           \* off, upgrading (the handshake is due), on
    interest,      \* what the socket is registered for
    armed,         \* an edge of the socket is still to be reported
    batch,         \* events of the last poll not yet looked at
    late,          \* last_heartbeat is more than 45 seconds old
    pilled,        \* the empty message has been sent to the readers
    told_down,     \* ConnMsgInfo::IsConnected(false) has been sent
    outcome,       \* how run() stands
    cmds,          \* cmd_channel
    signals,       \* signals of Context::send the sentinel thread has to pass on
    wake,          \* readiness of CLIENT_TOKEN
    r_close,       \* close requests
    cmd_wake,      \* readiness of CMD_TOKEN
    delivered,     \* messages pushed into msg_channel
    finished,      \* FIN commands the handlers queued
    extra,         \* other commands the handlers queued
    asked,         \* close requests of the user in all
    peer,          \* external: the connection as nsqd and the network leave it
    setup,         \* the client and the configuration of nsqd, fixed
    phase,         \* external: how far nsqd is with this client
    wire,          \* commands that reached nsqd's end, ever
    seen,          \* external: how many of them nsqd has processed
    inbox,         \* frames on the way to the client
    msgs,          \* external: messages sent
    beats          \* external: heartbeats sent

connVars == <<state, need_response, heartbeat, responses, in_flight, w_buf>>
regVars == <<interest, armed>>
endVars == <<pilled, told_down, outcome>>
userVars == <<cmds, signals, wake, r_close, cmd_wake, finished, extra, asked>>
peerVars == <<peer, setup, phase, seen, msgs, beats>>
netVars == <<peerVars, wire, inbox>>
ownVars == <<connVars, tls, interest, batch, endVars, userVars, delivered>>
vars == <<ownVars, armed, late, netVars>>

States == {"Identify", "Tls", "Auth", "Subscribe", "Rdy", "Started"}
Frames == {"CONFIG", "OK", "ERR", "HEARTBEAT", "MSG"}
Commands == {"MAGIC", "IDENTIFY", "AUTH", "SUB", "RDY", "NOP", "FIN", "TOUCH", "PUB"}
Lost == {"eof", "reset", "silent"}   \* a peer nothing new comes from
Tokens == {"CONNECTION", "CLIENT", "CMD"}

\* The fields of NsqdConfig the loop reads, as nsqd fills them: external.
tls_v1 == setup.config.tls_v1 /\ setup.config.feature_negotiation /\ setup.nsqd_tls
auth_required == setup.auth_required

\* run() up to its loop: magic() fills w_buf, the socket is connecting.
Init ==
    /\ state = "Identify" /\ need_response = FALSE /\ heartbeat = FALSE
    /\ responses = <<>> /\ in_flight = 0 /\ w_buf = <<"MAGIC">>
    /\ tls = "off" /\ interest = "writable" /\ armed = TRUE
    /\ batch = {} /\ late = FALSE
    /\ pilled = FALSE /\ told_down = FALSE /\ outcome = "running"
    /\ cmds = <<>> /\ signals = 0 /\ wake = FALSE /\ r_close = 0 /\ cmd_wake = FALSE
    /\ finished = 0 /\ extra = 0 /\ asked = 0 /\ delivered = 0
    /\ peer = "connecting" /\ setup \in Setups /\ phase = "new"
    /\ wire = <<>> /\ seen = 0 /\ inbox = <<>> /\ msgs = 0 /\ beats = 0

-----------------------------------------------------------------------------
(* Conn *)

\* poll.reregister: a condition that holds now is reported again.
Reregister(i) == interest' = i /\ armed' = TRUE

IsResponse(f) == f \in {"CONFIG", "OK", "ERR"}
Count(s, x) == Cardinality({i \in DOMAIN s : s[i] = x})

\* Mutant: a message is handed over without being counted.
CountUp_Never(n) == in_flight

\* in_flight += 1, n times.
CountUp(n) == (in_flight + n) % U32

\* Mutant: the counter is a signed number.
CountDown_Signed(n) == in_flight - n

\* in_flight -= 1, n times.
CountDown(n) == (in_flight - n) % U32

\* Conn::decode over the frames of one read, but for the responses.
Decode(frames) ==
    /\ heartbeat' = (heartbeat \/ Count(frames, "HEARTBEAT") > 0)
    /\ in_flight' = CountUp(Count(frames, "MSG"))
    /\ delivered' = delivered + Count(frames, "MSG")

\* Its responses.push, frame by frame.
Responses(frames) ==
    LET pushed[i \in 0..Len(frames)] ==
            IF i = 0 THEN responses
            ELSE IF IsResponse(frames[i]) THEN Append(pushed[i - 1], frames[i])
            ELSE pushed[i - 1]
    IN  pushed[Len(frames)]

\* responses.pop().unwrap() and get_response(..).unwrap(): NONE and ERR panic.
Popped(rs) == IF rs = <<>> THEN "NONE" ELSE rs[Len(rs)]

\* Mutant: the response is looked at and stays.
Rest_Peeked(rs) == rs

\* What pop leaves.
Rest(rs) == SubSeq(rs, 1, Len(rs) - 1)

\* write_tcp: what the socket takes is on the wire, and w_buf is cleared
\* whether it takes it or not.
Write(buf) ==
    /\ wire' = IF peer = "open" THEN wire \o buf ELSE wire
    /\ w_buf' = <<>>

\* write_messages after nop: write each queued command and count in_flight
\* down; the first command past zero panics a debug build once it is written.
WriteMessages(nop) ==
    LET over == Len(cmds) > in_flight /\ OverflowChecks
        sent == IF over THEN SubSeq(cmds, 1, in_flight + 1) ELSE cmds
    IN  /\ cmds' = <<>>
        /\ IF nop \o cmds = <<>> THEN UNCHANGED <<wire, w_buf>>
                                 ELSE Write(w_buf \o nop \o sent)
        /\ in_flight' = IF over THEN 0 ELSE CountDown(Len(cmds))
        /\ outcome' = IF over THEN "panicked" ELSE outcome

-----------------------------------------------------------------------------
(* poll *)

SocketReady ==
    /\ armed
    /\ \/ interest = "writable" /\ peer # "connecting"
       \/ interest = "readable" /\ (inbox # <<>> \/ peer \in {"eof", "reset"})

Ready == {t \in Tokens : \/ t = "CONNECTION" /\ SocketReady
                         \/ t = "CLIENT" /\ wake
                         \/ t = "CMD" /\ cmd_wake}

\* Mutant: nobody looks at the last heartbeat.
LastHeartbeatLost_Never == FALSE

\* last_heartbeat.elapsed() > 45 s, which only the plain loop asks.
LastHeartbeatLost == tls = "off" /\ late

\* poll returns with every pending event, or after 45 seconds without; the
\* plain loop then looks at the last heartbeat, the TLS loop does not.
Poll ==
    LET report == LastHeartbeatLost
    IN  /\ outcome = "running" /\ batch = {} /\ tls # "upgrading"
        /\ Ready # {} \/ (report /\ ~pilled)
        /\ batch' = Ready
        /\ armed' = (armed /\ "CONNECTION" \notin Ready)
        /\ wake' = FALSE /\ cmd_wake' = FALSE
        /\ pilled' = (pilled \/ report)
        /\ UNCHANGED <<connVars, tls, interest, late, told_down, outcome, cmds, signals,
                       r_close, finished, extra, asked, delivered, netVars>>

\* The socket's event precedes those of the user registrations.
Dispatch(t) ==
    /\ outcome = "running"
    /\ t \in batch
    /\ t # "CONNECTION" => "CONNECTION" \notin batch

-----------------------------------------------------------------------------
(* The readable socket *)

\* Mutant: auth_required is not looked at.
AuthOrSubscribe_Ignored == "Subscribe"

\* The state after the connection is identified and, if need be, secured.
AuthOrSubscribe ==
    CASE ~auth_required -> "Subscribe"
      [] auth_required /\ setup.secret # "none" -> "Auth"
      [] OTHER -> "exited"

\* Where the answer r takes the plain loop; "panicked" and "exited" end run().
PlainNext(r) ==
    CASE state = "Identify" -> IF r # "CONFIG" THEN "panicked"
                               ELSE IF tls_v1 THEN "Tls" ELSE AuthOrSubscribe
      [] state = "Tls" -> IF r \in {"NONE", "ERR"} THEN "panicked" ELSE AuthOrSubscribe
      [] state = "Auth" -> IF r \in {"NONE", "ERR"} THEN "panicked" ELSE "Subscribe"
      [] state = "Subscribe" -> IF r \in {"NONE", "ERR"} THEN "panicked" ELSE "Rdy"
      [] OTHER -> state

\* The same in the TLS loop.
TlsNext(r) ==
    CASE state = "Tls" -> IF r \in {"NONE", "ERR"} THEN "panicked" ELSE AuthOrSubscribe
      [] state = "Auth" -> IF r \in {"NONE", "ERR"} THEN "panicked" ELSE "Subscribe"
      [] state = "Subscribe" -> IF setup.producer THEN "Started"
                                ELSE IF r \in {"NONE", "ERR"} THEN "panicked" ELSE "Rdy"
      [] OTHER -> state

After(r) == IF tls = "on" THEN TlsNext(r) ELSE PlainNext(r)

\* conn.read returns bytes: n frames are complete.
TakeFrames(n) ==
    /\ Dispatch("CONNECTION") /\ interest = "readable"
    /\ inbox # <<>> /\ peer # "reset"
    /\ n > 0 \/ "short_read" \in Faults
    /\ Decode(SubSeq(inbox, 1, n))
    /\ inbox' = SubSeq(inbox, n + 1, Len(inbox))
    /\ UNCHANGED <<w_buf, late, pilled, told_down, userVars, peerVars, wire>>

\* Mutant: the socket stays registered for reading.
AfterRead_KeepReading == Reregister("readable")

\* A read is followed by a write.
AfterRead == Reregister("writable")

\* In state Started the frames are all there is to a read.
ReadStarted(n) ==
    /\ state = "Started"
    /\ TakeFrames(n)
    /\ responses' = Responses(SubSeq(inbox, 1, n))
    /\ AfterRead
    /\ batch' = batch \ {"CONNECTION"}
    /\ UNCHANGED <<state, need_response, tls, outcome>>

\* During the handshake the last response decides.
ReadAnswer(n) ==
    LET rs == Responses(SubSeq(inbox, 1, n))
        next == After(Popped(rs))
    IN  /\ state # "Started"
        /\ next \in States /\ ~(state = "Identify" /\ next = "Tls")
        /\ TakeFrames(n)
        /\ state' = next
        /\ responses' = IF state = "Rdy" \/ next = "Started" THEN rs
                        ELSE Rest(rs)
        /\ need_response' = FALSE
        /\ AfterRead
        /\ batch' = batch \ {"CONNECTION"}
        /\ UNCHANGED <<tls, outcome>>

\* IDENTIFY answered with tls_v1: break out of the batch; what else it held,
\* edge triggered, is gone.
ReadUpgrade(n) ==
    LET rs == Responses(SubSeq(inbox, 1, n))
    IN  /\ state = "Identify" /\ After(Popped(rs)) = "Tls"
        /\ TakeFrames(n)
        /\ state' = "Tls"
        /\ responses' = Rest(rs)
        /\ tls' = "upgrading"
        /\ batch' = {}
        /\ UNCHANGED <<need_response, regVars, outcome>>

\* No response, the wrong one or an error: a panic; no secret: the process exits.
ReadFatal(n) ==
    LET next == After(Popped(Responses(SubSeq(inbox, 1, n))))
    IN  /\ state # "Started"
        /\ next \in {"panicked", "exited"}
        /\ TakeFrames(n)
        /\ outcome' = next
        /\ UNCHANGED <<state, responses, need_response, tls, regVars, batch>>

\* Ok(0): wait for the answer again if one is due, and break.
ReadEof ==
    /\ Dispatch("CONNECTION") /\ interest = "readable"
    /\ inbox = <<>> /\ peer = "eof"
    /\ IF need_response THEN Reregister("readable") ELSE UNCHANGED regVars
    /\ batch' = {}
    /\ UNCHANGED <<connVars, tls, late, endVars, userVars, delivered, netVars>>

\* WouldBlock, a TLS record that is not complete: report it and break (bound:
\* once), or panic if the user has dropped the receiver of the report.
ReadWouldBlock ==
    /\ "would_block" \in Faults /\ tls = "on" /\ ~told_down
    /\ Dispatch("CONNECTION") /\ interest = "readable"
    /\ inbox # <<>> /\ peer # "reset"
    /\ \/ /\ told_down' = TRUE
          /\ armed' = TRUE   \* the rest of the record makes the next edge
          /\ batch' = {}
          /\ UNCHANGED outcome
       \/ /\ ~setup.informed
          /\ outcome' = "panicked"
          /\ UNCHANGED <<told_down, armed, batch>>
    /\ UNCHANGED <<connVars, tls, interest, late, pilled, userVars, delivered, netVars>>

\* Any other error of read panics.
ReadError ==
    /\ Dispatch("CONNECTION") /\ interest = "readable"
    /\ peer = "reset"
    /\ outcome' = "panicked"
    /\ UNCHANGED <<connVars, tls, regVars, batch, late, pilled, told_down, userVars,
                   delivered, netVars>>

Read ==
    \/ \E n \in 0..Len(inbox) :
          ReadStarted(n) \/ ReadAnswer(n) \/ ReadUpgrade(n) \/ ReadFatal(n)
    \/ ReadEof \/ ReadWouldBlock \/ ReadError

-----------------------------------------------------------------------------
(* The writable socket *)

\* Mutant: SUB does not ask for its answer.
Greeting_NoWait(st) ==
    CASE st = "Identify"  -> [cmd |-> <<"IDENTIFY">>, to |-> "Identify", wait |-> TRUE]
      [] st = "Auth"      -> [cmd |-> <<"AUTH">>, to |-> "Auth", wait |-> TRUE]
      [] st = "Subscribe" -> [cmd |-> <<"SUB">>, to |-> "Subscribe", wait |-> FALSE]
      [] st = "Rdy"       -> [cmd |-> <<"RDY">>, to |-> "Started", wait |-> FALSE]
      [] OTHER            -> [cmd |-> <<>>, to |-> st, wait |-> need_response]

\* identify, auth, subscribe, rdy: the command, the next state, need_response.
Greeting(st) ==
    CASE st = "Identify"  -> [cmd |-> <<"IDENTIFY">>, to |-> "Identify", wait |-> TRUE]
      [] st = "Auth"      -> [cmd |-> <<"AUTH">>, to |-> "Auth", wait |-> TRUE]
      [] st = "Subscribe" -> [cmd |-> <<"SUB">>, to |-> "Subscribe", wait |-> TRUE]
      [] st = "Rdy"       -> [cmd |-> <<"RDY">>, to |-> "Started", wait |-> FALSE]
      [] OTHER            -> [cmd |-> <<>>, to |-> st, wait |-> need_response]

\* Mutant: the TLS loop subscribes everybody, as the plain loop does.
TlsGreeting_Everybody(st) == Greeting(st)

\* The TLS loop knows the producer, the plain loop does not.
TlsGreeting(st) ==
    IF st = "Subscribe" /\ setup.producer
    THEN [cmd |-> <<>>, to |-> "Started", wait |-> need_response]
    ELSE Greeting(st)

WriteHandshake ==
    LET g == IF tls = "on" THEN TlsGreeting(state) ELSE Greeting(state)
    IN  /\ Dispatch("CONNECTION") /\ interest = "writable"
        /\ state # "Started"
        /\ Write(w_buf \o g.cmd)
        /\ state' = g.to
        /\ need_response' = g.wait
        /\ Reregister(IF g.wait THEN "readable" ELSE "writable")
        /\ batch' = batch \ {"CONNECTION"}
        /\ UNCHANGED <<heartbeat, responses, in_flight, tls, late, endVars,
                       userVars, delivered, peerVars, inbox>>

\* Mutant: a heartbeat is noted and not answered.
Nop_Never == <<>>

\* The answer to a heartbeat.
Nop == IF heartbeat THEN <<"NOP">> ELSE <<>>

\* Mutant: a heartbeat does not renew last_heartbeat.
StillLate_Kept == late

\* last_heartbeat = Instant::now() before a heartbeat is answered.
StillLate == late /\ ~heartbeat

\* Answer a heartbeat, write what the handlers queued, go back to reading.
WriteStarted ==
    /\ Dispatch("CONNECTION") /\ interest = "writable"
    /\ state = "Started"
    /\ late' = StillLate
    /\ heartbeat' = FALSE
    /\ WriteMessages(Nop)
    /\ Reregister("readable")
    /\ batch' = batch \ {"CONNECTION"}
    /\ UNCHANGED <<state, need_response, responses, tls, pilled, told_down, signals, wake,
                   r_close, cmd_wake, finished, extra, asked, delivered, peerVars,
                   inbox>>

-----------------------------------------------------------------------------
(* The user registrations and the TLS handshake *)

\* Mutant: the event is left to the next write of the socket.
ClientEvent_Deferred ==
    /\ Dispatch("CLIENT")
    /\ batch' = batch \ {"CLIENT"}
    /\ UNCHANGED <<connVars, tls, regVars, late, endVars, userVars, delivered, netVars>>

\* The CLIENT_TOKEN event, whatever the state.
ClientEvent ==
    /\ Dispatch("CLIENT")
    /\ WriteMessages(<<>>)
    /\ batch' = batch \ {"CLIENT"}
    /\ UNCHANGED <<state, need_response, heartbeat, responses, tls, regVars, late,
                   pilled, told_down, signals, wake, r_close, cmd_wake, finished, extra,
                   asked, delivered, peerVars, inbox>>

\* Mutant: the pill is sent and the loop goes on.
Closed_Stay == "running"

\* return Ok(()).
Closed == "returned"

\* The CMD_TOKEN event: the pill for the readers, and run() returns.
CmdEvent ==
    /\ Dispatch("CMD")
    /\ batch' = batch \ {"CMD"}
    /\ IF r_close > 0
       THEN r_close' = r_close - 1 /\ pilled' = TRUE /\ outcome' = Closed
       ELSE UNCHANGED <<r_close, pilled, outcome>>
    /\ UNCHANGED <<connVars, tls, regVars, late, told_down, cmds, signals, wake, cmd_wake,
                   finished, extra, asked, delivered, netVars>>

\* connector.connect and the retries of handshake(): plain bytes on the way, or
\* a peer that is gone, make it fail, and run() returns the error.
TlsHandshake ==
    /\ outcome = "running" /\ tls = "upgrading"
    /\ peer = "open" /\ inbox = <<>> /\ phase = "tls" /\ seen = Len(wire)
    /\ tls' = "on"
    /\ Reregister("readable")
    /\ phase' = "init"
    /\ inbox' = <<"OK">>       \* nsqd confirms over TLS
    /\ UNCHANGED <<connVars, batch, late, endVars, userVars, delivered, peer, setup,
                   seen, msgs, beats, wire>>

TlsFailure ==
    /\ outcome = "running" /\ tls = "upgrading"
    /\ peer \in {"eof", "reset"} \/ inbox # <<>> \/ "tls_failure" \in Faults
    /\ outcome' = "failed"
    /\ UNCHANGED <<connVars, tls, regVars, batch, late, pilled, told_down, userVars,
                   delivered, netVars>>

-----------------------------------------------------------------------------
(* The handlers and the user *)

\* Context::send: in on_msg, behind its message; in a producer thread at any time.
\* on_close runs once the pill is taken, before that or after: any time as well.
HandlerSend(cmd) ==
    /\ (cmd = "PUB" /\ setup.publishes) \/ finished < delivered
    /\ IF cmd = "FIN" THEN finished' = finished + 1 /\ UNCHANGED extra
                      ELSE /\ extra < MaxExtra
                           /\ extra' = extra + 1 /\ UNCHANGED finished
    /\ cmds' = Append(cmds, cmd)
    /\ signals' = signals + 1
    /\ UNCHANGED <<connVars, tls, regVars, batch, late, endVars, wake, r_close, cmd_wake,
                   asked, delivered, netVars>>

\* The sentinel thread of run() passes a signal on.  It may be long in coming:
\* the thread waits for CONNECTED between two, which a reader keeps while it
\* blocks in recv() (module Handlers).
Sentinel ==
    /\ signals > 0
    /\ signals' = signals - 1
    /\ wake' = TRUE
    /\ UNCHANGED <<connVars, tls, regVars, batch, late, endVars, cmds, r_close, cmd_wake,
                   finished, extra, asked, delivered, netVars>>

\* A ConnMsg of the user, through its thread.
UserClose ==
    /\ asked < MaxCloses
    /\ asked' = asked + 1
    /\ r_close' = r_close + 1
    /\ cmd_wake' = TRUE
    /\ UNCHANGED <<connVars, tls, regVars, batch, late, endVars, cmds, signals, wake,
                   finished, extra, delivered, netVars>>

-----------------------------------------------------------------------------
(* nsqd, the network and time: external *)

\* The frames nsqd sends for a command, the phase it moves to; "gone" closes.
Answer(cmd) ==
    CASE phase = "new" -> IF cmd = "MAGIC" THEN [reply |-> <<>>, to |-> "init"]
                          ELSE [reply |-> <<>>, to |-> "gone"]
      [] phase = "tls" -> [reply |-> <<>>, to |-> "gone"]
      [] phase \in {"init", "authed", "sub", "ready"} ->
         CASE cmd = "IDENTIFY" ->
                 [reply |-> IF setup.config.feature_negotiation THEN <<"CONFIG">> ELSE <<"OK">>,
                  to |-> IF tls_v1 THEN "tls" ELSE "init"]
           [] cmd = "AUTH" /\ setup.secret = "good" -> [reply |-> <<"OK">>, to |-> "authed"]
           [] cmd = "SUB" /\ ~setup.producer /\ (phase = "authed" \/ ~auth_required) ->
                 [reply |-> <<"OK">>, to |-> "sub"]
           [] cmd = "RDY" /\ phase = "sub" -> [reply |-> <<>>, to |-> "ready"]
           [] cmd = "PUB" /\ (phase # "init" \/ ~auth_required) ->
                 [reply |-> <<"OK">>, to |-> phase]
           [] cmd = "NOP" \/ (cmd \in {"FIN", "TOUCH"} /\ phase \in {"sub", "ready"}) ->
                 [reply |-> <<>>, to |-> phase]
           [] OTHER -> [reply |-> <<"ERR">>, to |-> "gone"]

\* A FIN or TOUCH for a message that timed out: E_FIN_FAILED or E_TOUCH_FAILED,
\* and nsqd goes on.
TooLate(cmd) ==
    IF cmd \in {"FIN", "TOUCH"} /\ phase = "ready" /\ "late_command" \in Faults
    THEN {[reply |-> <<"ERR">>, to |-> phase]} ELSE {}

NsqdAnswer ==
    /\ peer = "open" /\ seen < Len(wire)
    /\ \E a \in {Answer(wire[seen + 1])} \cup TooLate(wire[seen + 1]) :
          /\ phase' = a.to
          /\ inbox' = inbox \o a.reply
          /\ peer' = IF a.to = "gone" THEN "eof" ELSE peer
    /\ seen' = seen + 1
    /\ armed' = TRUE
    /\ UNCHANGED <<ownVars, late, setup, msgs, beats, wire>>

NsqdMessage ==
    /\ peer = "open" /\ phase = "ready" /\ msgs < MaxMsgs
    /\ msgs' = msgs + 1
    /\ inbox' = Append(inbox, "MSG")
    /\ armed' = TRUE
    /\ UNCHANGED <<ownVars, late, peer, setup, phase, seen, beats, wire>>

\* Every heartbeat_interval; a handshake that lasts longer meets one too.
NsqdHeartbeat ==
    /\ peer = "open" /\ beats < MaxBeats
    /\ phase = "ready" \/ ("early_heartbeat" \in Faults /\ phase \notin {"new", "tls"})
    /\ setup.config.heartbeat_interval > 0
    /\ beats' = beats + 1
    /\ inbox' = Append(inbox, "HEARTBEAT")
    /\ armed' = TRUE
    /\ UNCHANGED <<ownVars, late, peer, setup, phase, seen, msgs, wire>>

\* The connection is made; it is refused, closed, reset, or nothing comes through.
Connected ==
    /\ peer = "connecting"
    /\ peer' = "open"
    /\ UNCHANGED <<ownVars, armed, late, setup, phase, seen, msgs, beats, wire, inbox>>

PeerFails ==
    /\ \/ peer = "open" /\ peer' \in Faults \cap Lost
       \/ peer = "connecting" /\ peer' \in Faults \cap {"reset"}
    /\ armed' = TRUE
    /\ UNCHANGED <<ownVars, late, setup, phase, seen, msgs, beats, wire, inbox>>

\* Heartbeats come at least every 45 seconds.
Punctual == setup.config.heartbeat_interval \in 1..45000

\* The client has answered a heartbeat of this connection.
Settled == \E i \in 1..Len(wire) : wire[i] = "NOP"

\* 45 seconds go by without a heartbeat: the peer is lost, its heartbeats are rarer
\* than that or disabled, or connect(), the pending connection, the handshake and
\* the first interval of nsqd have taken that long.
Elapse ==
    /\ ~late
    /\ peer \in Lost \/ ~Punctual \/ ~Settled
    /\ late' = TRUE
    /\ UNCHANGED <<ownVars, armed, netVars>>

-----------------------------------------------------------------------------
LoopNext ==
    \/ Poll \/ Read \/ WriteHandshake \/ WriteStarted
    \/ ClientEvent \/ CmdEvent \/ TlsHandshake \/ TlsFailure

EnvNext ==
    \/ \E cmd \in HandlerCmds : HandlerSend(cmd)
    \/ Sentinel \/ UserClose \/ NsqdAnswer \/ NsqdMessage \/ NsqdHeartbeat
    \/ Connected \/ PeerFails \/ Elapse

Next == LoopNext \/ EnvNext

Spec == Init /\ [][Next]_vars

\* The loop runs on, nsqd answers, time passes.  When a message or a heartbeat
\* comes, when the peer fails, what the user asks and when the sentinel thread
\* gets to a signal is left open.
Fairness ==
    /\ WF_vars(LoopNext) /\ WF_vars(TlsHandshake)
    /\ WF_vars(NsqdAnswer) /\ WF_vars(Connected) /\ WF_vars(Elapse)

FairSpec == Spec /\ Fairness
-----------------------------------------------------------------------------
(* Properties *)

\* The type of every variable, those of Conn, the loop, the channels and nsqd.
ConnTypes ==
    /\ state \in States
    /\ need_response \in BOOLEAN /\ heartbeat \in BOOLEAN
    /\ responses \in Seq(Frames) /\ w_buf \in Seq(Commands)
    /\ in_flight \in 0..(U32 - 1)

LoopTypes ==
    /\ tls \in {"off", "upgrading", "on"}
    /\ interest \in {"readable", "writable"} /\ armed \in BOOLEAN
    /\ batch \subseteq Tokens
    /\ late \in BOOLEAN /\ pilled \in BOOLEAN /\ told_down \in BOOLEAN
    /\ outcome \in {"running", "returned", "failed", "panicked", "exited"}

UserTypes ==
    /\ cmds \in Seq(HandlerCmds) /\ signals \in Nat
    /\ wake \in BOOLEAN /\ r_close \in Nat /\ cmd_wake \in BOOLEAN
    /\ delivered \in Nat /\ finished \in Nat /\ extra \in Nat /\ asked \in Nat

PeerTypes ==
    /\ peer \in {"connecting", "open", "eof", "reset", "silent"}
    /\ setup \in Setups
    /\ phase \in {"new", "init", "tls", "authed", "sub", "ready", "gone"}
    /\ wire \in Seq(Commands) /\ seen \in Nat /\ inbox \in Seq(Frames)
    /\ msgs \in Nat /\ beats \in Nat

TypeOK == ConnTypes /\ LoopTypes /\ UserTypes /\ PeerTypes

\* What a consumer says before it says anything else.
Handshake ==
    <<"MAGIC", "IDENTIFY">> \o (IF auth_required THEN <<"AUTH">> ELSE <<>>)
        \o <<"SUB", "RDY">>

\* A consumer whose commands come from on_msg.
Quiet == ~setup.producer /\ ~setup.publishes

Remarks == {"NOP", "FIN", "TOUCH", "PUB"}

\* A consumer that sends in on_msg only speaks in the order the protocol asks
\* for, whatever nsqd and the network do: each step of the handshake of run()
\* once, and NOP and the handlers' commands (write_messages) only behind all of it.
SessionOrder == Quiet =>
    \A i \in 1..Len(wire) :
        IF i <= Len(Handshake) THEN wire[i] = Handshake[i]
        ELSE wire[i] \in Remarks

\* With producer threads as well its commands may come in between, but they
\* neither repeat, reorder nor skip a step of the handshake; only MAGIC may be
\* lost, to the write of a CLIENT event while the socket is connecting.
HandshakeOrder == ~setup.producer =>
    LET steps == SelectSeq(wire, LAMBDA c : c \notin Remarks)
    IN  \E n \in 0..Len(Handshake) :
            \/ steps = SubSeq(Handshake, 1, n)
            \/ setup.publishes /\ steps = SubSeq(Handshake, 2, n)

\* How much of the Handshake a consumer has written, lost or not.
Uttered ==
    LET all == Len(Handshake)
    IN  CASE state = "Identify"  -> IF need_response THEN 2 ELSE 0
          [] state = "Tls"       -> 2
          [] state = "Auth"      -> IF need_response THEN 3 ELSE 2
          [] state = "Subscribe" -> IF need_response THEN all - 1 ELSE all - 2
          [] state = "Rdy"       -> all - 1
          [] state = "Started"   -> all

\* The session of such a consumer; other clients have none, and leave the initial one.
Consumed(value, initial) == IF Quiet THEN value ELSE initial

S == INSTANCE Session WITH
    script <- Handshake,
    steady <- Punctual,
    heard <- setup.informed,
    uttered <- Consumed(Uttered, 0),
    waiting <- Consumed(need_response, FALSE),
    said <- Consumed(wire, <<>>),
    served <- Consumed(seen, 0),
    cut <- Consumed(peer \in Lost, FALSE),
    got <- Consumed(delivered, 0),
    told <- Consumed(pilled, FALSE),
    over <- Consumed(outcome # "running", FALSE)

\* run() of a consumer that sends in on_msg only is the Session: each question
\* once and in order, nothing further before its answer, messages only after RDY
\* was processed, no failure but while waiting, cut off or with nobody to take its
\* report, nothing at all after the end, and the pill only for a connection that is
\* closed, lost, or has not had a heartbeat answered in 45 seconds.
ImplementsSession == S!Spec

\* What Conn.in_flight counts, commented as "msgs in flight": messages up and
\* commands of any kind down, in the width of its type; a TOUCH takes its message
\* out, and the first command of a producer goes below zero.
InFlightBalance ==
    outcome # "panicked" =>
        in_flight = (delivered - (finished + extra - Len(cmds))) % U32

\* The comment on the empty message, "send fake message as closed connection
\* event": once a heartbeat was answered the readers are told so only when the
\* connection is lost or closed, whatever heartbeat_interval the Config asks for
\* among the values its documentation calls valid.
SettledTruthful ==
    [][Settled /\ pilled' /\ ~pilled
         => outcome' = "returned" \/ peer \in Lost]_vars

\* That much of it holds: a connection on which a heartbeat was answered, from an
\* nsqd whose heartbeats are punctual, is not taken for a closed one by the check
\* of last_heartbeat, however late the loop had believed it before.
SettledNotReported ==
    [][Settled /\ Punctual /\ pilled' /\ ~pilled
         => outcome' = "returned" \/ peer \in Lost]_vars

\* The handshake of run() comes to its end unless the peer is lost: no edge of
\* the socket is missed between its reads and writes.
HandshakeCompletes ==
    outcome = "running" ~>
        \/ state = "Started" \/ outcome # "running"
        \/ peer \in Lost

\* A heartbeat that was read is answered: one more NOP reaches nsqd.
HeartbeatAnswered == \A k \in 0..MaxBeats :
    (heartbeat /\ Count(wire, "NOP") = k) ~>
        \/ Count(wire, "NOP") > k
        \/ outcome # "running" \/ peer \in Lost

\* A command in cmd_channel is taken by write_messages once the readiness of
\* CLIENT_TOKEN is set or the socket is registered for the write that follows a
\* read, and needs no more of nsqd from there, unless a read that would block
\* or the break of the TLS upgrade drops its event.  Until then it may wait: the
\* sentinel thread may be blocked.
CommandsWritten ==
    (cmds # <<>> /\ (wake \/ (state = "Started" /\ interest = "writable"))
        /\ (~tls_v1 \/ state # "Identify"))
    ~> (cmds = <<>> \/ outcome # "running" \/ peer \in Lost \/ told_down)

\* A close request ends run(), unless the peer is lost first or a read that would
\* block dropped its event.  On a connection that is to be secured it must be
\* made after the answer to IDENTIFY: the batch the upgrade breaks out of may
\* hold the event of an earlier one.
CloseHonoured ==
    (r_close > 0 /\ (~tls_v1 \/ (cmd_wake /\ state # "Identify"))) ~>
        (outcome # "running" \/ peer \in Lost \/ told_down)

\* The comments in the loop of run(), "if last_heartbeat is not seen shutdown
\* occurred" and "send fake message as closed connection event": a lost peer, or
\* a TLS handshake that fails, is reported to the readers.
LostPeerReported ==
    (peer \in Lost \/ outcome = "failed") ~>
        (pilled \/ outcome \in {"returned", "panicked", "exited"})

\* The same of plain connections, whose loop looks at last_heartbeat.
PlainLossReported ==
    (peer \in Lost /\ ~tls_v1) ~> (pilled \/ outcome # "running")

\* Each answer of the handshake is taken off the stack of responses, none is
\* there for a later get_response to pop: what the stack holds are replies to
\* commands of the handlers, OK for a PUB, an error for a FIN or TOUCH that is too
\* late.  Those nobody pops: the stack grows by one with each (Conn::decode).
AnswersTaken ==
    state = "Started" =>
        Len(responses) <= Count(wire, "PUB") + Count(wire, "FIN") + Count(wire, "TOUCH")

\* The producer example's "no channel and topic means Producer": without topic
\* and channel the client does not subscribe.
ProducerNeverSubscribes == setup.producer => \A i \in 1..Len(wire) : wire[i] # "SUB"

\* The TLS loop of run() keeps to that, however early the producer publishes.
TlsProducerNeverSubscribes == tls_v1 => ProducerNeverSubscribes

\* expect("failed to decode identify response") in run(): the answer taken for
\* that of IDENTIFY is that of IDENTIFY, and run() goes on.
IdentifyDecoded == state = "Identify" => outcome # "panicked"
=============================================================================
