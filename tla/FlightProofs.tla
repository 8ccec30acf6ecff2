---------------------------- MODULE FlightProofs ----------------------------
(***************************************************************************)
(* The steps of the handshake of every client, consumer or producer, and   *)
(* what the loop counts: the responses it keeps and the messages in        *)
(* flight.                                                                 *)
(***************************************************************************)
EXTENDS SessionProofs

-----------------------------------------------------------------------------
(* What is in w_buf *)

\* MAGIC goes out first or never, and nsqd has a phase for nobody else.
Buffer ==
    /\ w_buf \in {<<>>, <<"MAGIC">>}
    /\ wire # <<>> => w_buf = <<>>
    /\ \A i \in 1..Len(wire) : wire[i] = "MAGIC" => i = 1
    /\ seen <= Len(wire)
    /\ phase = "new" <=> seen = 0

NoMagic(s) == \A i \in 1..Len(s) : s[i] # "MAGIC"

\* A write adds to the wire all it has or nothing, and MAGIC nowhere but first.
LEMMA Written ==
    ASSUME TypeOK, Buffer, NEW more \in Seq(Commands), NoMagic(more), Write(w_buf \o more)
    PROVE  /\ w_buf' = <<>> /\ wire' \in Seq(Commands) /\ Len(wire') >= Len(wire)
           /\ \A i \in 1..Len(wire) : wire'[i] = wire[i]
           /\ \A i \in 1..Len(wire') : wire'[i] = "MAGIC" => i = 1
           /\ \A i \in 1..Len(wire') : i > Len(wire) =>
                 \/ wire'[i] = "MAGIC"
                 \/ \E k \in 1..Len(more) :
                       wire'[i] = more[k] /\ Len(wire') - i = Len(more) - k
           /\ \A X : "MAGIC" \notin X =>
                 Many(wire', X) = Many(wire, X) + (IF peer = "open" THEN Many(more, X) ELSE 0)
<1>1. wire \in Seq(Commands) /\ w_buf \in Seq(Commands) /\ Len(wire) \in Nat
  BY DEF TypeOK, ConnTypes, PeerTypes
<1>2. w_buf' = <<>>
  BY DEF Write
<1>3. CASE peer # "open"
  <2>1. wire' = wire
    BY <1>3 DEF Write
  <2>2. \A X : Many(wire, X) \in Nat
    BY <1>1, ManyType
  <2>3. \A X : Many(wire', X) = Many(wire, X) + 0
    BY <2>1, <2>2
  <2>4. \A i \in 1..Len(wire') : ~(i > Len(wire))
    BY <1>1, <2>1
  <2>5. Len(wire') >= Len(wire)
    BY <1>1, <2>1
  <2> QED
    BY <1>1, <1>2, <1>3, <2>1, <2>3, <2>4, <2>5 DEF Buffer
<1>4. CASE peer = "open"
  <2> DEFINE new == w_buf \o more
  <2>1. /\ new \in Seq(Commands) /\ Len(new) = Len(w_buf) + Len(more)
        /\ \A i \in 1..Len(w_buf) : new[i] = w_buf[i]
        /\ \A i \in 1..Len(more) : new[Len(w_buf) + i] = more[i]
    BY <1>1, Joined
  <2>2. \A X : Many(new, X) = Many(w_buf, X) + Many(more, X)
    BY <1>1, ManyJoined
  <2>3. wire' = wire \o new
    BY <1>4 DEF Write
  <2> HIDE DEF new
  <2>4. /\ wire' \in Seq(Commands) /\ Len(wire') = Len(wire) + Len(new)
        /\ \A i \in 1..Len(wire) : wire'[i] = wire[i]
        /\ \A i \in 1..Len(new) : wire'[Len(wire) + i] = new[i]
    <3>1. new \in Seq(Commands)
      BY <2>1
    <3> QED
      BY <1>1, <2>3, <3>1, Joined
  <2>5. Len(new) \in Nat /\ Len(w_buf) \in Nat /\ Len(more) \in Nat
    BY <1>1, <2>1
  <2>6. ASSUME NEW i \in 1..Len(new)
        PROVE  \/ new[i] = "MAGIC" /\ i = 1 /\ wire = <<>>
               \/ new[i] # "MAGIC"
                  /\ \E k \in 1..Len(more) : new[i] = more[k] /\ Len(new) - i = Len(more) - k
    <3>1. CASE i \in 1..Len(w_buf)
      <4>1. w_buf # <<>>
        BY <1>1, <3>1
      <4>2. w_buf = <<"MAGIC">> /\ wire = <<>>
        BY <4>1 DEF Buffer
      <4>3. Len(w_buf) = 1 /\ w_buf[1] = "MAGIC" /\ i = 1
        BY <3>1, <4>2
      <4> QED
        BY <2>1, <3>1, <4>2, <4>3
    <3>2. CASE i \notin 1..Len(w_buf)
      <4>1. i - Len(w_buf) \in 1..Len(more) /\ Len(w_buf) + (i - Len(w_buf)) = i
        BY <2>1, <2>5, <3>2
      <4>2. new[Len(w_buf) + (i - Len(w_buf))] = more[i - Len(w_buf)]
        BY <2>1, <4>1
      <4>3. Len(new) - i = Len(more) - (i - Len(w_buf))
        BY <2>1, <2>5
      <4> QED
        BY <4>1, <4>2, <4>3 DEF NoMagic
    <3> QED
      BY <3>1, <3>2
  <2>7. ASSUME NEW i \in 1..Len(wire'), i > Len(wire)
        PROVE  i - Len(wire) \in 1..Len(new) /\ wire'[i] = new[i - Len(wire)]
    <3>1. i - Len(wire) \in 1..Len(new) /\ Len(wire) + (i - Len(wire)) = i
      BY <1>1, <2>4, <2>5, <2>7
    <3>2. wire'[Len(wire) + (i - Len(wire))] = new[i - Len(wire)]
      BY <2>4, <3>1
    <3> QED
      BY <3>1, <3>2
  <2>8. ASSUME NEW i \in 1..Len(wire'), wire'[i] = "MAGIC" PROVE i = 1
    <3>1. CASE i \in 1..Len(wire)
      BY <2>4, <2>8, <3>1 DEF Buffer
    <3>2. CASE i \notin 1..Len(wire)
      <4>1. i > Len(wire)
        BY <1>1, <2>4, <2>5, <3>2
      <4>2. i - Len(wire) \in 1..Len(new) /\ new[i - Len(wire)] = "MAGIC"
        BY <2>7, <2>8, <4>1
      <4>3. i - Len(wire) = 1 /\ wire = <<>>
        BY <2>6, <4>2
      <4>4. Len(wire) = 0
        BY <4>3
      <4> QED
        BY <2>4, <2>5, <4>3, <4>4
    <3> QED
      BY <3>1, <3>2
  <2>9. ASSUME NEW X, "MAGIC" \notin X
        PROVE  Many(wire', X) = Many(wire, X) + Many(more, X)
    <3>1. Many(wire', X) = Many(wire, X) + Many(new, X)
      BY <1>1, <2>1, <2>3, ManyJoined
    <3>2. Many(w_buf, X) = 0
      BY <2>9, ManyOne DEF Buffer
    <3>3. Many(more, X) \in Nat /\ Many(new, X) = Many(w_buf, X) + Many(more, X)
      BY <2>2, ManyType
    <3> QED
      BY <3>1, <3>2, <3>3
  <2>10. ASSUME NEW i \in 1..Len(wire'), i > Len(wire)
         PROVE  \/ wire'[i] = "MAGIC"
                \/ \E k \in 1..Len(more) :
                      wire'[i] = more[k] /\ Len(wire') - i = Len(more) - k
    <3>1. i - Len(wire) \in 1..Len(new) /\ wire'[i] = new[i - Len(wire)]
      BY <2>7, <2>10
    <3>2. \A k \in 1..Len(more) :
             Len(new) - (i - Len(wire)) = Len(more) - k => Len(wire') - i = Len(more) - k
      BY <1>1, <2>4, <2>5
    <3> QED
      BY <2>6, <3>1, <3>2
  <2>11. Len(wire') >= Len(wire)
    BY <1>1, <2>4, <2>5
  <2> QED
    BY <1>2, <1>4, <2>4, <2>8, <2>9, <2>10, <2>11
<1> QED
  BY <1>3, <1>4

\* What WriteMessages writes after w_buf.
LEMMA SaidMessages ==
    ASSUME TypeOK, NEW nop \in {<<>>, <<"NOP">>}
    PROVE  /\ nop \o Sent \in Seq(Remarks) /\ nop \o Sent \in Seq(Commands)
           /\ NoMagic(nop \o Sent)
           /\ w_buf \o nop \o Sent = w_buf \o (nop \o Sent)
<1>1. nop \in Seq(Remarks) /\ Sent \in Seq(Remarks)
  <2>1. <<>> \in Seq(Remarks) /\ <<"NOP">> \in Seq(Remarks)
    BY DEF Remarks
  <2>2. HandlerCmds \subseteq Remarks
    BY EventLoopAssumption DEF Remarks
  <2>3. \A s \in Seq(HandlerCmds) : s \in Seq(Remarks)
    BY <2>2
  <2> QED
    BY <2>1, <2>3, SentTypes
<1>2. nop \o Sent \in Seq(Remarks)
  BY <1>1, Joined
<1>3. \A s \in Seq(Remarks) : s \in Seq(Commands) /\ NoMagic(s)
  BY DEF Remarks, Commands, NoMagic
<1>4. w_buf \in Seq(Commands) /\ nop \in Seq(Commands) /\ Sent \in Seq(Commands)
  BY <1>1, <1>3 DEF TypeOK, ConnTypes
<1>5. w_buf \o nop \o Sent = w_buf \o (nop \o Sent)
  BY <1>4
<1> QED
  BY <1>2, <1>3, <1>5

\* What the loop writes while the handshake lasts.
LEMMA SaidGreeting ==
    ASSUME TypeOK
    PROVE  Greets.cmd \in Seq(Commands) /\ NoMagic(Greets.cmd)
<1>1. Greets.cmd \in {<<>>, <<"IDENTIFY">>, <<"AUTH">>, <<"SUB">>, <<"RDY">>}
  BY GreetingTypes DEF Greets
<1>2. ASSUME NEW c \in {"IDENTIFY", "AUTH", "SUB", "RDY"}
      PROVE  <<c>> \in Seq(Commands) /\ NoMagic(<<c>>)
  BY DEF Commands, NoMagic
<1>3. <<>> \in Seq(Commands) /\ NoMagic(<<>>)
  BY DEF NoMagic
<1> QED
  BY <1>1, <1>2, <1>3

\* Who writes, and who changes where nsqd is.
LEMMA WhoWrites ==
    ASSUME [Next]_vars
    PROVE  /\ WriteHandshake \/ WriteStarted \/ ClientEvent \/ UNCHANGED <<wire, w_buf>>
           /\ NsqdAnswer \/ TlsHandshake \/ UNCHANGED <<seen, phase>>
<1>1. WriteHandshake \/ WriteStarted \/ ClientEvent \/ UNCHANGED <<wire, w_buf>>
  BY DEF Next, LoopNext, EnvNext, Poll, Read, ReadStarted, ReadAnswer, ReadUpgrade, ReadFatal,
         TakeFrames, ReadEof, ReadWouldBlock, ReadError, CmdEvent, TlsHandshake, TlsFailure,
         HandlerSend, Sentinel, UserClose, NsqdAnswer, NsqdMessage, NsqdHeartbeat, Connected, PeerFails,
         Elapse, vars, ownVars, connVars, netVars
<1>2. NsqdAnswer \/ TlsHandshake \/ UNCHANGED <<seen, phase>>
  BY DEF Next, LoopNext, EnvNext, Poll, Read, ReadStarted, ReadAnswer, ReadUpgrade, ReadFatal,
         TakeFrames, ReadEof, ReadWouldBlock, ReadError, WriteHandshake, WriteStarted,
         ClientEvent, CmdEvent, TlsFailure, HandlerSend, Sentinel, UserClose, NsqdMessage, NsqdHeartbeat,
         Connected, PeerFails, Elapse, vars, netVars, peerVars
<1> QED
  BY <1>1, <1>2

\* Every write is Written.
LEMMA Writes ==
    ASSUME TypeOK, [Next]_vars
    PROVE  \/ UNCHANGED <<wire, w_buf>>
           \/ \E more \in Seq(Commands) : NoMagic(more) /\ Write(w_buf \o more)
<1>1. CASE WriteHandshake
  <2>1. Write(w_buf \o Greets.cmd)
    BY <1>1 DEF WriteHandshake, Greets
  <2> QED
    BY <2>1, SaidGreeting
<1>2. CASE WriteStarted \/ ClientEvent
  <2>1. PICK nop \in {<<>>, <<"NOP">>} : WriteMessages(nop)
    BY <1>2 DEF WriteStarted, ClientEvent, Nop
  <2>2. CASE nop \o cmds = <<>>
    BY <2>1, <2>2 DEF WriteMessages
  <2>3. CASE nop \o cmds # <<>>
    <3>1. Write(w_buf \o nop \o Sent)
      BY <2>1, <2>3 DEF WriteMessages, Sent
    <3>2. Write(w_buf \o (nop \o Sent))
      BY <3>1, SaidMessages
    <3> QED
      BY <3>2, SaidMessages
  <2> QED
    BY <2>2, <2>3
<1> QED
  BY <1>1, <1>2, WhoWrites

\* Every step keeps the buffer so.
LEMMA BufferStep == TypeOK /\ Gone /\ Buffer /\ [Next]_vars => Buffer'
<1> SUFFICES ASSUME TypeOK, Gone, Buffer, [Next]_vars PROVE Buffer'
  OBVIOUS
<1>1. seen \in Nat /\ wire \in Seq(Commands) /\ Len(wire) \in Nat
  BY DEF TypeOK, PeerTypes
<1>2. /\ w_buf' \in {<<>>, <<"MAGIC">>} /\ (wire' # <<>> => w_buf' = <<>>)
      /\ \A i \in 1..Len(wire') : wire'[i] = "MAGIC" => i = 1
      /\ Len(wire') >= Len(wire) /\ Len(wire') \in Nat
  <2>1. CASE UNCHANGED <<wire, w_buf>>
    BY <1>1, <2>1 DEF Buffer
  <2>2. ASSUME NEW more \in Seq(Commands), NoMagic(more), Write(w_buf \o more)
        PROVE  /\ w_buf' = <<>> /\ Len(wire') >= Len(wire) /\ Len(wire') \in Nat
               /\ \A i \in 1..Len(wire') : wire'[i] = "MAGIC" => i = 1
    <3>1. /\ w_buf' = <<>> /\ Len(wire') >= Len(wire) /\ wire' \in Seq(Commands)
          /\ \A i \in 1..Len(wire') : wire'[i] = "MAGIC" => i = 1
      BY <2>2, Written
    <3> QED
      BY <3>1
  <2> QED
    BY <2>1, <2>2, Writes
<1>3. seen' <= Len(wire') /\ (phase' = "new" <=> seen' = 0)
  <2>1. CASE NsqdAnswer
    <3>1. peer = "open" /\ seen < Len(wire) /\ seen' = seen + 1 /\ wire' = wire
      BY <2>1 DEF NsqdAnswer
    <3>2. PICK a \in {Answer(wire[seen + 1])} \cup TooLate(wire[seen + 1]) : phase' = a.to
      BY <2>1 DEF NsqdAnswer
    <3>3. a.to # "new"
      BY <3>1, <3>2, AnswerTypes, TooLateTypes DEF Gone, Lost
    <3> QED
      BY <1>1, <3>1, <3>2, <3>3
  <2>2. CASE TlsHandshake
    BY <1>1, <2>2 DEF TlsHandshake, Buffer
  <2>3. CASE UNCHANGED <<seen, phase>>
    BY <1>1, <1>2, <2>3 DEF Buffer
  <2> QED
    BY <2>1, <2>2, <2>3, WhoWrites
<1> QED
  BY <1>2, <1>3 DEF Buffer
-----------------------------------------------------------------------------
(* The steps of the handshake *)

\* The place of a command among them; 0 for the others.
Rank(c) ==
    CASE c = "IDENTIFY" -> 1
      [] c = "AUTH" -> 2
      [] c = "SUB" -> 3
      [] c = "RDY" -> 4
      [] OTHER -> 0

\* The last of them the loop has come to, of every client.
Reached ==
    CASE state = "Identify"  -> IF need_response THEN 1 ELSE 0
      [] state = "Tls"       -> 1
      [] state = "Auth"      -> IF need_response THEN 2 ELSE 1
      [] state = "Subscribe" -> IF need_response THEN 3 ELSE 2
      [] state = "Rdy"       -> 3
      [] state = "Started"   -> 4

\* No step beyond it is on the wire, and none behind a later one.
Steps ==
    /\ \A i \in 1..Len(wire) : Rank(wire[i]) <= Reached
    /\ \A i \in 1..Len(wire) : Rank(wire[i]) > 0 =>
          \A j \in 1..(i - 1) : Rank(wire[j]) < Rank(wire[i])

\* Nobody says RDY who has not asked to subscribe; the producer the TLS loop knows
\* waits for no answer then; and who was let in and has not said RDY is in
\* phase sub.
Subscribed ==
    /\ tls = "on" /\ state = "Subscribe" /\ setup.producer => ~need_response
    /\ peer \notin Lost /\ (state = "Rdy" \/ (state = "Subscribe" /\ need_response)) =>
          \E j \in 1..Len(wire) : wire[j] = "SUB"
    /\ \A i \in 1..Len(wire) : wire[i] = "RDY" => \E j \in 1..(i - 1) : wire[j] = "SUB"
    /\ peer \notin Lost /\ (\E j \in 1..seen : wire[j] = "SUB")
          /\ (\A j \in 1..seen : wire[j] # "RDY") => phase = "sub"

\* The ranks are numbers, and nothing but the four steps has one.
LEMMA RankTypes ==
    ASSUME NEW c
    PROVE  /\ Rank(c) \in 0..4
           /\ c \notin {"IDENTIFY", "AUTH", "SUB", "RDY"} => Rank(c) = 0
BY DEF Rank

\* What a write adds: MAGIC, remarks, and the step of WriteHandshake as the last.
LEMMA NewWords ==
    ASSUME TypeOK, Buffer, [Next]_vars
    PROVE  /\ Len(wire) \in Nat /\ Len(wire') \in Nat
           /\ Len(wire') >= Len(wire) /\ \A i \in 1..Len(wire) : wire'[i] = wire[i]
           /\ \A i \in 1..Len(wire') : i > Len(wire) /\ Rank(wire'[i]) # 0 =>
                 /\ WriteHandshake /\ Greets.cmd = <<wire'[i]>>
                 /\ i = Len(wire') /\ peer = "open"
<1>1. wire \in Seq(Commands) /\ Len(wire) \in Nat
  BY DEF TypeOK, PeerTypes
<1>2. ASSUME NEW more \in Seq(Commands), NoMagic(more), Write(w_buf \o more)
      PROVE  /\ Len(wire') >= Len(wire) /\ Len(wire') \in Nat
             /\ \A i \in 1..Len(wire) : wire'[i] = wire[i]
             /\ \A i \in 1..Len(wire') : i > Len(wire) =>
                   \/ wire'[i] = "MAGIC"
                   \/ \E k \in 1..Len(more) :
                         wire'[i] = more[k] /\ Len(wire') - i = Len(more) - k
             /\ peer # "open" => wire' = wire
  <2>1. wire' \in Seq(Commands)
    BY <1>2, Written
  <2>2. peer # "open" => wire' = wire
    BY <1>2 DEF Write
  <2> QED
    BY <1>2, <2>1, <2>2, Written, SMTT(30)
<1>3. CASE UNCHANGED <<wire, w_buf>>
  BY <1>1, <1>3
<1>4. CASE WriteHandshake
  <2> DEFINE more == Greets.cmd
  <2>1. Write(w_buf \o more)
    BY <1>4 DEF WriteHandshake, Greets
  <2>2. more \in Seq(Commands) /\ NoMagic(more)
    BY SaidGreeting
  <2>3. more \in {<<>>, <<"IDENTIFY">>, <<"AUTH">>, <<"SUB">>, <<"RDY">>}
    BY GreetingTypes DEF Greets
  <2> HIDE DEF more
  <2>4. /\ Len(wire') >= Len(wire) /\ Len(wire') \in Nat
        /\ \A i \in 1..Len(wire) : wire'[i] = wire[i]
        /\ \A i \in 1..Len(wire') : i > Len(wire) =>
              \/ wire'[i] = "MAGIC"
              \/ \E k \in 1..Len(more) :
                    wire'[i] = more[k] /\ Len(wire') - i = Len(more) - k
        /\ peer # "open" => wire' = wire
    BY <1>2, <2>1, <2>2
  <2>5. ASSUME NEW i \in 1..Len(wire'), i > Len(wire), Rank(wire'[i]) # 0
        PROVE  more = <<wire'[i]>> /\ i = Len(wire') /\ peer = "open"
    <3>1. wire'[i] # "MAGIC"
      BY <2>5 DEF Rank
    <3>2. PICK k \in 1..Len(more) : wire'[i] = more[k] /\ Len(wire') - i = Len(more) - k
      BY <2>4, <2>5, <3>1
    <3>3. PICK c : more = <<c>>
      <4>1. more # <<>>
        BY <3>2
      <4> QED
        BY <2>3, <4>1
    <3>4. Len(more) = 1 /\ k = 1 /\ more[1] = c
      BY <3>2, <3>3
    <3>5. i = Len(wire')
      BY <2>4, <2>5, <3>2, <3>4
    <3>6. peer = "open"
      BY <1>1, <2>4, <2>5
    <3> QED
      BY <3>2, <3>3, <3>4, <3>5, <3>6
  <2> QED
    BY <1>1, <1>4, <2>4, <2>5 DEF more
<1>5. CASE WriteStarted \/ ClientEvent
  <2>1. PICK nop \in {<<>>, <<"NOP">>} : WriteMessages(nop)
    BY <1>5 DEF WriteStarted, ClientEvent, Nop
  <2>2. CASE nop \o cmds = <<>>
    BY <1>3, <2>1, <2>2 DEF WriteMessages
  <2>3. CASE nop \o cmds # <<>>
    <3>1. Write(w_buf \o nop \o Sent)
      BY <2>1, <2>3 DEF WriteMessages, Sent
    <3>2. Write(w_buf \o (nop \o Sent))
      BY <3>1, SaidMessages
    <3> DEFINE more == nop \o Sent
    <3>3. more \in Seq(Remarks) /\ more \in Seq(Commands) /\ NoMagic(more)
      BY SaidMessages
    <3> HIDE DEF more
    <3>4. \A k \in 1..Len(more) : Rank(more[k]) = 0
      <4>1. \A c \in Remarks : Rank(c) = 0
        BY RankTypes DEF Remarks
      <4> QED
        BY <3>3, <4>1
    <3>5. Write(w_buf \o more)
      BY <3>2 DEF more
    <3>6. Rank("MAGIC") = 0
      BY DEF Rank
    <3> QED
      BY <1>1, <1>2, <3>3, <3>4, <3>5, <3>6
  <2> QED
    BY <2>2, <2>3
<1> QED
  BY <1>3, <1>4, <1>5, WhoWrites

\* Who answers, upgrades and changes the state.
LEMMA WhoTurns ==
    ASSUME [Next]_vars
    PROVE  \/ WriteHandshake
           \/ \E n \in 0..Len(inbox) : ReadAnswer(n) \/ ReadUpgrade(n)
           \/ UNCHANGED <<state, need_response>> /\ (TlsHandshake \/ UNCHANGED tls)
BY DEF Next, LoopNext, EnvNext, Poll, Read, ReadStarted, ReadFatal, ReadEof, ReadWouldBlock,
       ReadError, WriteStarted, ClientEvent, CmdEvent, TlsHandshake, TlsFailure, HandlerSend, Sentinel,
       UserClose, NsqdAnswer, NsqdMessage, NsqdHeartbeat, Connected, PeerFails, Elapse, vars,
       ownVars, connVars
\* What WriteHandshake does to the state, and what it says there.
LEMMA Greeted ==
    ASSUME TypeOK, Control, WriteHandshake
    PROVE  /\ peer' = peer /\ tls' = tls /\ tls # "upgrading" /\ ~need_response
           /\ state' # "Rdy" /\ state' = Greets.to /\ need_response' = Greets.wait
           /\ Reached <= Reached'
           /\ \A c : Greets.cmd = <<c>> => Rank(c) > Reached /\ Rank(c) = Reached'
           /\ Greets.cmd = <<"RDY">> => state = "Rdy"
           /\ state' = "Subscribe" => Greets.cmd = <<"SUB">> /\ (tls = "on" => ~setup.producer)
<1>1. /\ Dispatch("CONNECTION") /\ interest = "writable" /\ state # "Started"
      /\ tls' = tls /\ peer' = peer /\ state' = Greets.to /\ need_response' = Greets.wait
  BY DEF WriteHandshake, Greets, peerVars
<1>2. /\ ~need_response /\ tls # "upgrading"
      /\ state \in {"Identify", "Auth", "Subscribe", "Rdy"}
  BY <1>1 DEF Control, Turns, Secured, Dispatch, TypeOK, ConnTypes, States
<1>3. CASE state = "Subscribe" /\ tls = "on" /\ setup.producer
  <2>0. need_response = FALSE
    BY <1>2 DEF TypeOK, ConnTypes
  <2>1. Greets = [cmd |-> <<>>, to |-> "Started", wait |-> FALSE]
    BY <1>3, <2>0 DEF Greets, TlsGreeting
  <2>2. \A c : <<c>> # <<>>
    OBVIOUS
  <2>3. Reached = 2 /\ Reached' = 4
    BY <1>1, <1>2, <1>3, <2>1 DEF Reached
  <2> QED
    BY <1>1, <1>2, <2>1, <2>2, <2>3
<1>4. CASE ~(state = "Subscribe" /\ tls = "on" /\ setup.producer)
  <2>1. Greets = Greeting(state)
    BY <1>4 DEF Greets, TlsGreeting
  <2>2. /\ state = "Identify" => Greets = [cmd |-> <<"IDENTIFY">>, to |-> "Identify", wait |-> TRUE]
        /\ state = "Auth" => Greets = [cmd |-> <<"AUTH">>, to |-> "Auth", wait |-> TRUE]
        /\ state = "Subscribe" => Greets = [cmd |-> <<"SUB">>, to |-> "Subscribe", wait |-> TRUE]
        /\ state = "Rdy" => Greets = [cmd |-> <<"RDY">>, to |-> "Started", wait |-> FALSE]
    BY <2>1 DEF Greeting
  <2>3. \A c, d : <<c>> = <<d>> => c = d
    OBVIOUS
  <2>4. CASE state = "Identify"
    BY <1>1, <1>2, <2>2, <2>3, <2>4 DEF Reached, Rank
  <2>5. CASE state = "Auth"
    BY <1>1, <1>2, <2>2, <2>3, <2>5 DEF Reached, Rank
  <2>6. CASE state = "Subscribe"
    BY <1>1, <1>2, <1>4, <2>2, <2>3, <2>6 DEF Reached, Rank
  <2>7. CASE state = "Rdy"
    BY <1>1, <1>2, <2>2, <2>3, <2>7 DEF Reached, Rank
  <2> QED
    BY <1>2, <2>4, <2>5, <2>6, <2>7
<1> QED
  BY <1>3, <1>4

\* Where an answer takes the loop.
LEMMA Answered ==
    ASSUME TypeOK, Control, NEW n \in 0..Len(inbox), ReadAnswer(n) \/ ReadUpgrade(n)
    PROVE  /\ need_response /\ tls # "upgrading" /\ Reached <= Reached'
           /\ state' = "Rdy" => state = "Subscribe"
           /\ state' = "Subscribe" => ~need_response'
<1> DEFINE r == Popped(Responses(SubSeq(inbox, 1, n)))
<1>1. /\ Dispatch("CONNECTION") /\ interest = "readable" /\ state # "Started"
      /\ state' = After(r) /\ state' \in States /\ (state' # "Tls" => need_response' = FALSE)
  BY DEF ReadAnswer, ReadUpgrade, TakeFrames, States
<1> HIDE DEF r
<1>2. /\ need_response /\ tls # "upgrading"
      /\ state \in {"Identify", "Tls", "Auth", "Subscribe"}
  BY <1>1 DEF Control, Turns, Secured, Dispatch
<1>3. /\ state = "Identify" => state' \in {"Tls", "Auth", "Subscribe"}
      /\ state = "Tls" => state' \in {"Auth", "Subscribe"}
      /\ state = "Auth" => state' = "Subscribe"
      /\ state = "Subscribe" => state' \in {"Rdy", "Started"}
  BY <1>1, <1>2, AfterControl DEF Control, States
<1>4. Reached <= Reached'
  BY <1>1, <1>2, <1>3 DEF Reached
<1> QED
  BY <1>1, <1>2, <1>3, <1>4

\* Every step keeps the order of the steps.
LEMMA StepsStep == TypeOK /\ Gone /\ Control /\ Buffer /\ Steps /\ [Next]_vars => Steps'
<1> SUFFICES ASSUME TypeOK, Gone, Control, Buffer, Steps, [Next]_vars PROVE Steps'
  OBVIOUS
<1>1. Reached \in 0..4 /\ Reached' \in 0..4
  <2>1. Reached \in 0..4
    BY DEF Reached, TypeOK, ConnTypes, States
  <2>2. state' \in {"Identify", "Tls", "Auth", "Subscribe", "Rdy", "Started"}
    BY TypeStep DEF TypeOK, ConnTypes, States
  <2>3. Reached' \in 0..4
    BY <2>2 DEF Reached
  <2> QED
    BY <2>1, <2>3
<1>2. Reached <= Reached'
  <2>1. CASE WriteHandshake
    BY <2>1, Greeted
  <2>2. CASE \E n \in 0..Len(inbox) : ReadAnswer(n) \/ ReadUpgrade(n)
    BY <2>2, Answered
  <2>3. CASE UNCHANGED <<state, need_response>>
    <3>1. Reached' = Reached
      BY <2>3 DEF Reached
    <3> QED
      BY <1>1, <3>1
  <2> QED
    BY <2>1, <2>2, <2>3, WhoTurns
<1>3. /\ Len(wire) \in Nat /\ Len(wire') \in Nat
      /\ Len(wire') >= Len(wire) /\ \A i \in 1..Len(wire) : wire'[i] = wire[i]
      /\ \A i \in 1..Len(wire') : i > Len(wire) /\ Rank(wire'[i]) # 0 =>
            Rank(wire'[i]) > Reached /\ Rank(wire'[i]) = Reached' /\ i = Len(wire')
  BY NewWords, Greeted
<1>4. \A i \in 1..Len(wire') : Rank(wire'[i]) \in 0..4
  BY RankTypes
<1>5. \A i \in 1..Len(wire) : Rank(wire[i]) <= Reached
  BY DEF Steps
<1>6. ASSUME NEW i \in 1..Len(wire') PROVE Rank(wire'[i]) <= Reached'
  <2>1. CASE i \in 1..Len(wire)
    BY <1>1, <1>2, <1>3, <1>4, <1>5, <2>1
  <2>2. CASE i \notin 1..Len(wire)
    <3>1. i > Len(wire)
      BY <1>3, <2>2
    <3> QED
      BY <1>1, <1>3, <1>4, <3>1
  <2> QED
    BY <2>1, <2>2
<1>7. ASSUME NEW i \in 1..Len(wire'), Rank(wire'[i]) > 0, NEW j \in 1..(i - 1)
      PROVE  Rank(wire'[j]) < Rank(wire'[i])
  <2>1. j \in 1..Len(wire') /\ j < i
    BY <1>3
  <2>2. CASE i \in 1..Len(wire)
    <3>1. j \in 1..Len(wire)
      BY <1>3, <2>2
    <3>2. wire'[i] = wire[i] /\ wire'[j] = wire[j]
      BY <1>3, <2>2, <3>1
    <3> QED
      BY <1>7, <2>2, <3>2 DEF Steps
  <2>3. CASE i \notin 1..Len(wire)
    <3>1. i > Len(wire)
      BY <1>3, <2>3
    <3>2. Rank(wire'[i]) > Reached /\ i = Len(wire')
      BY <1>3, <1>4, <1>7, <3>1
    <3>3. CASE j \in 1..Len(wire)
      <4>1. wire'[j] = wire[j] /\ Rank(wire[j]) <= Reached
        BY <1>3, <1>5, <3>3
      <4> QED
        BY <1>1, <1>4, <2>1, <3>2, <4>1
    <3>4. CASE j \notin 1..Len(wire)
      <4>1. j > Len(wire) /\ j # Len(wire')
        BY <1>3, <2>1, <3>2, <3>4
      <4>2. Rank(wire'[j]) = 0
        BY <1>3, <2>1, <4>1
      <4> QED
        BY <1>4, <1>7, <4>2
    <3> QED
      BY <3>3, <3>4
  <2> QED
    BY <2>2, <2>3
<1> QED
  BY <1>6, <1>7 DEF Steps

\* A command of rank r comes behind none of that rank or a higher one.
LEMMA RankBefore ==
    ASSUME TypeOK, Buffer, Steps, seen < Len(wire), Rank(wire[seen + 1]) > 0
    PROVE  \A j \in 1..seen : Rank(wire[j]) < Rank(wire[seen + 1])
<1>1. seen \in Nat /\ Len(wire) \in Nat
  BY DEF TypeOK, PeerTypes
<1>2. seen + 1 \in 1..Len(wire) /\ (seen + 1) - 1 = seen
  BY <1>1
<1> QED
  BY <1>2 DEF Steps

\* Every step keeps who has subscribed.
LEMMA SubscribedStep ==
    TypeOK /\ Gone /\ Control /\ Buffer /\ Steps /\ Subscribed /\ [Next]_vars => Subscribed'
<1> SUFFICES ASSUME TypeOK, Gone, Control, Buffer, Steps, Subscribed, [Next]_vars
             PROVE  Subscribed'
  OBVIOUS
<1>1. /\ tls = "on" /\ state = "Subscribe" /\ setup.producer => ~need_response
      /\ peer \notin Lost /\ (state = "Rdy" \/ (state = "Subscribe" /\ need_response)) =>
            \E j \in 1..Len(wire) : wire[j] = "SUB"
      /\ \A i \in 1..Len(wire) : wire[i] = "RDY" => \E j \in 1..(i - 1) : wire[j] = "SUB"
      /\ peer \notin Lost /\ (\E j \in 1..seen : wire[j] = "SUB")
            /\ (\A j \in 1..seen : wire[j] # "RDY") => phase = "sub"
  BY DEF Subscribed
<1>2. seen \in Nat /\ seen <= Len(wire) /\ (peer \in Lost => peer' \in Lost) /\ setup' = setup
  BY EndStays, SetupFixed DEF TypeOK, PeerTypes, Buffer
<1>3. /\ Len(wire) \in Nat /\ Len(wire') \in Nat
      /\ Len(wire') >= Len(wire) /\ \A i \in 1..Len(wire) : wire'[i] = wire[i]
      /\ \A i \in 1..Len(wire') : i > Len(wire) /\ Rank(wire'[i]) # 0 =>
            WriteHandshake /\ Greets.cmd = <<wire'[i]>> /\ i = Len(wire') /\ peer = "open"
  BY NewWords
<1>4. (\E j \in 1..Len(wire) : wire[j] = "SUB") => \E j \in 1..Len(wire') : wire'[j] = "SUB"
  <2>1. \A j \in 1..Len(wire) : j \in 1..Len(wire')
    BY <1>3
  <2> QED
    BY <1>3, <2>1
<1>5. ASSUME NEW i \in 1..Len(wire'), wire'[i] = "RDY" PROVE \E j \in 1..(i - 1) : wire'[j] = "SUB"
  <2>1. CASE i \in 1..Len(wire)
    <3>1. PICK j \in 1..(i - 1) : wire[j] = "SUB"
      BY <1>1, <1>3, <1>5, <2>1
    <3>2. j \in 1..Len(wire)
      BY <1>3, <2>1
    <3> QED
      BY <1>3, <3>1, <3>2
  <2>2. CASE i \notin 1..Len(wire)
    <3>1. i > Len(wire) /\ Rank(wire'[i]) # 0
      BY <1>3, <1>5, <2>2 DEF Rank
    <3>2. WriteHandshake /\ Greets.cmd = <<"RDY">> /\ peer = "open"
      BY <1>3, <1>5, <3>1
    <3>3. state = "Rdy" /\ peer \notin Lost
      BY <3>2, Greeted DEF Lost
    <3>4. PICK j \in 1..Len(wire) : wire[j] = "SUB"
      BY <1>1, <3>3
    <3>5. j \in 1..(i - 1)
      BY <1>3, <3>1
    <3> QED
      BY <1>3, <3>4, <3>5
  <2> QED
    BY <2>1, <2>2
<1>6. peer' \notin Lost /\ (\E j \in 1..seen' : wire'[j] = "SUB")
         /\ (\A j \in 1..seen' : wire'[j] # "RDY") => phase' = "sub"
  <2>1. CASE NsqdAnswer
    <3> DEFINE c == wire[seen + 1]
    <3>1. PICK a \in {Answer(c)} \cup TooLate(c) :
             phase' = a.to /\ peer' = IF a.to = "gone" THEN "eof" ELSE peer
      BY <2>1 DEF NsqdAnswer
    <3>2. peer = "open" /\ seen < Len(wire) /\ seen' = seen + 1 /\ wire' = wire
      BY <2>1 DEF NsqdAnswer
    <3>3. phase \in {"new", "tls", "init", "authed", "sub", "ready"} /\ peer \notin Lost
      BY <3>2 DEF Gone, Lost, TypeOK, PeerTypes
    <3>4. SUFFICES ASSUME a.to # "gone", \E j \in 1..seen' : wire[j] = "SUB",
                          \A j \in 1..seen' : wire[j] # "RDY"
                   PROVE  a.to = "sub"
      BY <3>1, <3>2 DEF Lost
    <3>5. /\ \A j \in 1..seen' : j \in 1..seen \/ j = seen + 1
          /\ \A j \in 1..seen : j \in 1..seen'
          /\ seen + 1 \in 1..seen' /\ seen + 1 \in 1..Len(wire)
      BY <1>2, <1>3, <3>2
    <3>6. c # "RDY" /\ c \in Commands
      <4>1. wire \in Seq(Commands)
        BY DEF TypeOK, PeerTypes
      <4> QED
        BY <3>4, <3>5, <4>1
    <3> HIDE DEF c
    <3>7. CASE c = "SUB"
      <4>1. a = Answer(c)
        BY <3>1, <3>7, TooLateTypes
      <4>2. phase \in {"new", "tls"} => Answer(c).to = "gone"
        BY <3>7 DEF Answer
      <4>3. phase \in {"init", "authed", "sub", "ready"} => Answer(c).to \in {"sub", "gone"}
        BY <3>7 DEF Answer
      <4> QED
        BY <3>3, <3>4, <4>1, <4>2, <4>3
    <3>8. CASE c # "SUB"
      <4>1. PICK j \in 1..seen : wire[j] = "SUB"
        BY <3>4, <3>5, <3>8 DEF c
      <4>2. phase = "sub"
        BY <1>1, <3>3, <3>4, <3>5, <4>1
      <4>3. c \notin {"IDENTIFY", "AUTH"}
        <5>1. Rank(c) > 0 => Rank("SUB") < Rank(c)
          BY <3>2, <4>1, RankBefore DEF c
        <5> QED
          BY <5>1 DEF Rank
      <4>4. c # "MAGIC"
        <5>1. c = "MAGIC" => seen + 1 = 1
          BY <3>5 DEF Buffer, c
        <5> QED
          BY <1>2, <4>1, <5>1
      <4>5. a = Answer(c)
        BY <3>1, <4>2, TooLateTypes
      <4>6. c \in {"NOP", "FIN", "TOUCH", "PUB"}
        BY <3>6, <3>8, <4>3, <4>4 DEF Commands
      <4>7. Answer(c).to \in {"sub", "gone"}
        BY <4>2, <4>6 DEF Answer
      <4> QED
        BY <3>4, <4>5, <4>7
    <3> QED
      BY <3>7, <3>8
  <2>2. CASE TlsHandshake
    <3>1. phase = "tls" /\ peer = "open" /\ UNCHANGED <<seen, wire>>
      BY <2>2 DEF TlsHandshake
    <3> QED
      BY <1>1, <3>1 DEF Lost
  <2>3. CASE UNCHANGED <<seen, phase>>
    <3>1. \A j \in 1..seen : j \in 1..Len(wire)
      BY <1>2, <1>3
    <3>2. \A j \in 1..seen' : wire'[j] = wire[j]
      BY <1>3, <2>3, <3>1
    <3> QED
      BY <1>1, <1>2, <2>3, <3>2
  <2> QED
    BY <2>1, <2>2, <2>3, WhoWrites
<1>7. CASE WriteHandshake
  <2>1. /\ state' # "Rdy" /\ peer' = peer /\ tls' = tls
        /\ state' = "Subscribe" => Greets.cmd = <<"SUB">> /\ (tls = "on" => ~setup.producer)
    BY <1>7, Greeted
  <2>2. ASSUME peer' \notin Lost, state' = "Subscribe" PROVE \E j \in 1..Len(wire') : wire'[j] = "SUB"
    <3>1. Greets.cmd = <<"SUB">> /\ Write(w_buf \o <<"SUB">>)
      BY <1>7, <2>1, <2>2 DEF WriteHandshake, Greets
    <3>2. peer = "open"
      <4>1. peer # "connecting"
        BY <1>7 DEF WriteHandshake, Dispatch, Control, Unconnected
      <4> QED
        BY <2>1, <2>2, <4>1 DEF TypeOK, PeerTypes, Lost
    <3>3. <<"SUB">> \in Seq(Commands) /\ w_buf \in Seq(Commands) /\ wire \in Seq(Commands)
      BY DEF Commands, TypeOK, ConnTypes, PeerTypes
    <3> DEFINE new == w_buf \o <<"SUB">>
    <3>4. new \in Seq(Commands) /\ Len(new) = Len(w_buf) + 1 /\ new[Len(w_buf) + 1] = "SUB"
      BY <3>3
    <3>5. wire' = wire \o new
      BY <3>1, <3>2 DEF Write
    <3> HIDE DEF new
    <3>6. Len(wire') = Len(wire) + Len(new) /\ \A i \in 1..Len(new) : wire'[Len(wire) + i] = new[i]
      <4>1. new \in Seq(Commands)
        BY <3>4
      <4> QED
        BY <3>3, <3>5, <4>1, Joined
    <3>7. Len(w_buf) + 1 \in 1..Len(new) /\ Len(wire) + (Len(w_buf) + 1) \in 1..Len(wire')
      BY <1>3, <3>3, <3>4, <3>6
    <3> QED
      BY <3>4, <3>6, <3>7
  <2> QED
    BY <1>2, <1>5, <1>6, <2>1, <2>2 DEF Subscribed
<1>8. ASSUME NEW n \in 0..Len(inbox), ReadAnswer(n) \/ ReadUpgrade(n) PROVE Subscribed'
  <2>1. /\ need_response /\ (state' = "Rdy" => state = "Subscribe")
        /\ (state' = "Subscribe" => ~need_response')
    BY <1>8, Answered
  <2> QED
    BY <1>1, <1>2, <1>4, <1>5, <1>6, <2>1 DEF Subscribed
<1>9. CASE UNCHANGED <<state, need_response>> /\ (TlsHandshake \/ UNCHANGED tls)
  <2>1. TlsHandshake => state = "Tls"
    BY DEF TlsHandshake, Control, Secured
  <2> QED
    BY <1>1, <1>2, <1>4, <1>5, <1>6, <1>9, <2>1 DEF Subscribed
<1> QED
  BY <1>7, <1>8, <1>9, WhoTurns

\* Every client and every nsqd, whatever the producer threads send and when: the
\* steps of the handshake are on the wire in their order and once at most, and RDY
\* meets an nsqd that has let the client subscribe.
THEOREM StepsCorrect == Spec => [](TypeOK /\ Gone /\ Control /\ Buffer /\ Steps /\ Subscribed)
<1>1. Init => Buffer /\ Steps /\ Subscribed
  <2> SUFFICES ASSUME Init PROVE Buffer /\ Steps /\ Subscribed
    OBVIOUS
  <2>1. /\ w_buf = <<"MAGIC">> /\ wire = <<>> /\ seen = 0 /\ phase = "new" /\ Len(wire) = 0
        /\ state = "Identify" /\ tls = "off"
    BY DEF Init
  <2>2. Buffer
    BY <2>1 DEF Buffer
  <2>3. Steps
    BY <2>1 DEF Steps
  <2>4. Subscribed
    BY <2>1 DEF Subscribed
  <2> QED
    BY <2>2, <2>3, <2>4
<1>2. TypeOK /\ Gone /\ Control /\ Buffer /\ Steps /\ Subscribed /\ [Next]_vars
      => Buffer' /\ Steps' /\ Subscribed'
  BY BufferStep, StepsStep, SubscribedStep
<1> QED
  BY <1>1, <1>2, ControlCorrect, PTL DEF Spec

-----------------------------------------------------------------------------
(* The answers *)

\* The commands whose answer nobody waits for, all those nsqd may answer, and what with.
Unawaited == {"PUB", "FIN", "TOUCH"}
Asking == {"IDENTIFY", "AUTH", "SUB"} \cup Unawaited
Answers == {"CONFIG", "OK", "ERR"}

\* The answers that are kept and those on their way, the questions that were put,
\* how many of them nsqd has dealt with, and those whose answer nobody waits for.
Kept == Len(responses)
Coming == Many(inbox, Answers)
Questions == Many(wire, Asking)
Dealt == Many(SubSeq(wire, 1, seen), Asking)
Sought == Many(wire, Unawaited)

\* The answer that a read of the handshake will take.
Due == IF need_response /\ tls # "upgrading" THEN 1 ELSE 0

\* Every answer that is kept or on its way, or that nsqd still owes, is one that
\* nobody waits for or the one that is due.
Budget == Kept + Coming + Questions <= Sought + Due + Dealt

\* What is of one of two kinds that have nothing in common is counted with each.
LEMMA ManyEither ==
    ASSUME NEW V, NEW s \in Seq(V), NEW X, NEW Y, X \cap Y = {}
    PROVE  Many(s, X \cup Y) = Many(s, X) + Many(s, Y)
<1> DEFINE A == {i \in 1..Len(s) : s[i] \in X}
           B == {i \in 1..Len(s) : s[i] \in Y}
           C == {i \in 1..Len(s) : s[i] \in X \cup Y}
<1>1. Len(s) \in Nat /\ A \in SUBSET (1..Len(s)) /\ B \in SUBSET (1..Len(s))
  OBVIOUS
<1>2. C = A \cup B /\ A \cap B = {}
  OBVIOUS
<1>3. IsFiniteSet(A) /\ IsFiniteSet(B) /\ Cardinality(A) \in Nat /\ Cardinality(B) \in Nat
  BY <1>1, Positions
<1> HIDE DEF A, B, C
<1>4. Cardinality(A \cup B) = Cardinality(A) + Cardinality(B) - Cardinality(A \cap B)
  BY <1>3, FS_Union
<1>5. Cardinality(A \cap B) = 0
  BY <1>2, FS_EmptySet
<1>6. Cardinality(C) = Cardinality(A) + Cardinality(B)
  BY <1>2, <1>3, <1>4, <1>5
<1> QED
  BY <1>6 DEF Many, A, B, C

\* nsqd is silent unless it is asked.
LEMMA Silent ==
    ASSUME TypeOK, Gone, Buffer, Steps, Subscribed,
           peer = "open", seen < Len(wire), wire[seen + 1] \notin Asking,
           NEW a \in {Answer(wire[seen + 1])} \cup TooLate(wire[seen + 1])
    PROVE  a.reply = <<>>
<1> DEFINE c == wire[seen + 1]
<1>1. seen \in Nat /\ wire \in Seq(Commands) /\ Len(wire) \in Nat /\ seen + 1 \in 1..Len(wire)
      /\ (seen + 1) - 1 = seen
  BY DEF TypeOK, PeerTypes
<1>2. c \in {"MAGIC", "RDY", "NOP"}
  BY <1>1 DEF Commands, Asking, Unawaited
<1>3. phase # "gone" /\ peer \notin Lost
  BY DEF Gone, Lost
<1>4. a = Answer(c)
  BY <1>2, TooLateTypes
<1>5. CASE phase \in {"new", "tls"}
  BY <1>4, <1>5 DEF Answer
<1>6. CASE phase \in {"init", "authed", "sub", "ready"}
  <2>1. c # "MAGIC"
    <3>1. c = "MAGIC" => seen + 1 = 1
      BY <1>1 DEF Buffer
    <3> QED
      BY <1>1, <1>6, <3>1 DEF Buffer
  <2>2. ASSUME c = "RDY" PROVE phase = "sub"
    <3>1. \E j \in 1..seen : wire[j] = "SUB"
      BY <1>1, <2>2 DEF Subscribed
    <3>2. Rank(c) = 4
      BY <2>2 DEF Rank
    <3>3. \A j \in 1..seen : Rank(wire[j]) < 4
      BY <3>2, RankBefore
    <3>4. \A j \in 1..seen : wire[j] # "RDY"
      BY <3>3 DEF Rank
    <3> QED
      BY <1>3, <3>1, <3>4 DEF Subscribed
  <2>3. CASE c = "RDY"
    BY <1>4, <2>2, <2>3 DEF Answer
  <2>4. CASE c = "NOP"
    BY <1>4, <1>6, <2>4 DEF Answer
  <2> QED
    BY <1>2, <2>1, <2>3, <2>4
<1> QED
  BY <1>3, <1>5, <1>6 DEF TypeOK, PeerTypes

\* A read moves the answers among its frames to the stack.
LEMMA AnswersMoved ==
    ASSUME TypeOK, NEW n \in 0..Len(inbox), TakeFrames(n)
    PROVE  /\ Responses(SubSeq(inbox, 1, n)) \in Seq(Frames)
           /\ Len(Responses(SubSeq(inbox, 1, n))) + Many(inbox', Answers)
                 = Len(responses) + Many(inbox, Answers)
<1> DEFINE frames == SubSeq(inbox, 1, n)
           left == SubSeq(inbox, n + 1, Len(inbox))
           rs == Responses(frames)
<1>1. inbox \in Seq(Frames) /\ responses \in Seq(Frames) /\ frames \in Seq(Frames)
      /\ left \in Seq(Frames)
  BY Split DEF TypeOK, ConnTypes, PeerTypes
<1>2. Many(inbox, Answers) = Many(frames, Answers) + Many(left, Answers)
  BY <1>1, ManySplit
<1>3. inbox' = left
  BY DEF TakeFrames
<1>4. Replies(frames) = {i \in 1..Len(frames) : frames[i] \in Answers}
  BY DEF Replies, IsResponse, Answers
<1>5. rs \in Seq(Frames) /\ Len(rs) = Len(responses) + Cardinality(Replies(frames))
  BY <1>1, ResponsesFacts
<1>6. Cardinality(Replies(frames)) = Many(frames, Answers)
  BY <1>4 DEF Many
<1> HIDE DEF frames, left, rs
<1>7. Many(frames, Answers) \in Nat /\ Many(left, Answers) \in Nat /\ Len(responses) \in Nat
  BY <1>1, ManyType
<1>8. Len(rs) + Many(inbox', Answers) = Len(responses) + Many(inbox, Answers)
  BY <1>2, <1>3, <1>5, <1>6, <1>7
<1> QED
  BY <1>5, <1>8 DEF frames, rs

\* Going on with the handshake takes an answer off the stack.
LEMMA AnswerPopped ==
    ASSUME Secured, Subscribed, need_response, state \in {"Identify", "Tls", "Auth", "Subscribe"},
           NEW rs \in Seq(Frames), After(Popped(rs)) \in States
    PROVE  /\ After(Popped(rs)) # "Started"
           /\ Rest(rs) \in Seq(Frames) /\ Len(Rest(rs)) = Len(rs) - 1
<1> DEFINE r == Popped(rs)
<1>1. ~(setup.producer /\ tls = "on" /\ state = "Subscribe")
  BY DEF Subscribed
<1>2. r # "NONE" /\ After(r) # "Started"
  <2>0. After(r) \in States
    OBVIOUS
  <2> HIDE DEF r
  <2>1. CASE tls = "on"
    BY <1>1, <2>0, <2>1 DEF After, TlsNext, States, AuthOrSubscribe, Secured
  <2>2. CASE tls # "on"
    BY <2>0, <2>2 DEF After, PlainNext, States, AuthOrSubscribe, Secured
  <2> QED
    BY <2>1, <2>2
<1>3. rs # <<>>
  BY <1>2 DEF Popped
<1>4. Len(rs) \in Nat /\ Len(rs) > 0
  BY <1>3
<1>5. Len(rs) - 1 \in 0..Len(rs)
  BY <1>4
<1> QED
  BY <1>2, <1>5, Split DEF Rest

\* What nsqd has processed stays as it is when more is written.
LEMMA SeenKept ==
    ASSUME TypeOK, Buffer, wire' \in Seq(Commands), Len(wire') >= Len(wire),
           \A i \in 1..Len(wire) : wire'[i] = wire[i]
    PROVE  SubSeq(wire', 1, seen) = SubSeq(wire, 1, seen)
<1>1. /\ wire \in Seq(Commands) /\ Len(wire) \in Nat /\ seen \in Nat /\ seen <= Len(wire)
      /\ Len(wire') \in Nat
  BY DEF TypeOK, PeerTypes, Buffer
<1>2. seen \in 0..Len(wire) /\ seen \in 0..Len(wire')
  BY <1>1
<1> DEFINE a == SubSeq(wire, 1, seen)
           b == SubSeq(wire', 1, seen)
<1>3. a \in Seq(Commands) /\ Len(a) = seen /\ \A i \in 1..seen : a[i] = wire[i]
  BY <1>1, <1>2, Split
<1>4. b \in Seq(Commands) /\ Len(b) = seen /\ \A i \in 1..seen : b[i] = wire'[i]
  BY <1>2, Split
<1>5. \A i \in 1..seen : i \in 1..Len(wire)
  BY <1>1
<1> HIDE DEF a, b
<1>6. \A i \in 1..Len(a) : a[i] = b[i]
  BY <1>3, <1>4, <1>5
<1>7. a = b
  BY <1>3, <1>4, <1>6, SameSequence
<1> QED
  BY <1>7 DEF a, b

\* The numbers of the Budget.
LEMMA BudgetTypes ==
    ASSUME TypeOK, Buffer
    PROVE  /\ Kept \in Nat /\ Coming \in Nat /\ Due \in {0, 1}
           /\ Questions \in Nat /\ Sought \in Nat /\ Dealt \in Nat
<1>1. /\ responses \in Seq(Frames) /\ inbox \in Seq(Frames) /\ wire \in Seq(Commands)
      /\ seen \in 0..Len(wire)
  BY DEF TypeOK, ConnTypes, PeerTypes, Buffer
<1>2. SubSeq(wire, 1, seen) \in Seq(Commands)
  BY <1>1, Split
<1>3. Due \in {0, 1}
  BY DEF Due
<1>4. Many(inbox, Answers) \in Nat /\ Many(wire, Asking) \in Nat /\ Many(wire, Unawaited) \in Nat
  BY <1>1, ManyType
<1>5. Many(SubSeq(wire, 1, seen), Asking) \in Nat
  BY <1>2, ManyType
<1> QED
  BY <1>1, <1>3, <1>4, <1>5 DEF Kept, Coming, Questions, Sought, Dealt

\* What is written asks no more than is unawaited, but for the question whose
\* answer is due from then on.
LEMMA AskedFor ==
    ASSUME TypeOK, Gone, Control, Buffer, Steps, Subscribed, [Next]_vars
    PROVE  /\ \/ UNCHANGED wire
              \/ SubSeq(wire', 1, seen) = SubSeq(wire, 1, seen)
           /\ WriteHandshake =>
                 Many(wire', Asking) <= Many(wire, Asking) + Due'
                 /\ Many(wire', Unawaited) = Many(wire, Unawaited) /\ Due = 0
           /\ ~WriteHandshake =>
                 Many(wire', Asking) + Many(wire, Unawaited) = Many(wire, Asking) + Many(wire', Unawaited)
<1>1. wire \in Seq(Commands) /\ Many(wire, Asking) \in Nat /\ Many(wire, Unawaited) \in Nat
  <2>1. wire \in Seq(Commands)
    BY DEF TypeOK, PeerTypes
  <2> QED
    BY <2>1, ManyType
<1>2. ASSUME NEW more \in Seq(Commands), NoMagic(more), Write(w_buf \o more)
      PROVE  /\ SubSeq(wire', 1, seen) = SubSeq(wire, 1, seen)
             /\ Many(wire', Asking)
                   = Many(wire, Asking) + (IF peer = "open" THEN Many(more, Asking) ELSE 0)
             /\ Many(wire', Unawaited)
                   = Many(wire, Unawaited) + (IF peer = "open" THEN Many(more, Unawaited) ELSE 0)
             /\ Many(more, Asking) \in Nat /\ Many(more, Unawaited) \in Nat
  <2>1. /\ wire' \in Seq(Commands) /\ Len(wire') >= Len(wire)
        /\ \A i \in 1..Len(wire) : wire'[i] = wire[i]
        /\ \A X : "MAGIC" \notin X =>
              Many(wire', X) = Many(wire, X) + (IF peer = "open" THEN Many(more, X) ELSE 0)
    BY <1>2, Written
  <2>2. "MAGIC" \notin Asking /\ "MAGIC" \notin Unawaited
    BY DEF Asking, Unawaited
  <2>3. SubSeq(wire', 1, seen) = SubSeq(wire, 1, seen)
    BY <2>1, SeenKept
  <2> QED
    BY <2>1, <2>2, <2>3, ManyType
<1>3. CASE WriteHandshake
  <2>1. /\ Write(w_buf \o Greets.cmd) /\ need_response' = Greets.wait /\ tls' = tls
        /\ Dispatch("CONNECTION") /\ interest = "writable" /\ state # "Started"
    BY <1>3 DEF WriteHandshake, Greets
  <2>2. /\ ~need_response /\ tls # "upgrading"
        /\ state \in {"Identify", "Auth", "Subscribe", "Rdy"}
    BY <2>1 DEF Control, Turns, Secured, Dispatch, TypeOK, ConnTypes, States
  <2>3. \/ Greets.cmd \in {<<"IDENTIFY">>, <<"AUTH">>, <<"SUB">>} /\ Greets.wait
        \/ Greets.cmd \in {<<>>, <<"RDY">>} /\ ~Greets.wait
    <3>1. CASE Greets = Greeting(state)
      BY <2>2, <3>1 DEF Greeting
    <3>2. CASE Greets # Greeting(state)
      BY <2>2, <3>2 DEF Greets, TlsGreeting
    <3> QED
      BY <3>1, <3>2
  <2>4. Due = 0 /\ Due' = IF Greets.wait THEN 1 ELSE 0
    BY <2>1, <2>2 DEF Due
  <2>5. Many(Greets.cmd, Asking) = Due' /\ Many(Greets.cmd, Unawaited) = 0
    <3>1. \A x : Many(<<x>>, Asking) = (IF x \in Asking THEN 1 ELSE 0)
                 /\ Many(<<x>>, Unawaited) = (IF x \in Unawaited THEN 1 ELSE 0)
                 /\ Many(<<>>, Asking) = 0 /\ Many(<<>>, Unawaited) = 0
      BY ManyOne
    <3>2. CASE Greets.cmd \in {<<"IDENTIFY">>, <<"AUTH">>, <<"SUB">>} /\ Greets.wait
      BY <2>4, <3>1, <3>2 DEF Asking, Unawaited
    <3>3. CASE Greets.cmd \in {<<>>, <<"RDY">>} /\ ~Greets.wait
      BY <2>4, <3>1, <3>3 DEF Asking, Unawaited
    <3> QED
      BY <2>3, <3>2, <3>3
  <2>6. Due' \in {0, 1}
    BY DEF Due
  <2>7. Greets.cmd \in Seq(Commands) /\ NoMagic(Greets.cmd)
    BY SaidGreeting
  <2>8. /\ SubSeq(wire', 1, seen) = SubSeq(wire, 1, seen)
        /\ Many(wire', Asking)
              = Many(wire, Asking) + (IF peer = "open" THEN Many(Greets.cmd, Asking) ELSE 0)
        /\ Many(wire', Unawaited)
              = Many(wire, Unawaited) + (IF peer = "open" THEN Many(Greets.cmd, Unawaited) ELSE 0)
    BY <1>2, <2>1, <2>7
  <2>9. Many(wire', Asking) <= Many(wire, Asking) + Due'
        /\ Many(wire', Unawaited) = Many(wire, Unawaited)
    BY <1>1, <2>5, <2>6, <2>8
  <2> QED
    BY <1>3, <2>4, <2>8, <2>9
<1>4. CASE UNCHANGED wire /\ ~WriteHandshake
  BY <1>1, <1>4
<1>5. CASE (WriteStarted \/ ClientEvent) /\ ~WriteHandshake
  <2>1. PICK nop \in {<<>>, <<"NOP">>} : WriteMessages(nop)
    BY <1>5 DEF WriteStarted, ClientEvent, Nop
  <2>2. CASE nop \o cmds = <<>>
    BY <1>4, <1>5, <2>1, <2>2 DEF WriteMessages
  <2>3. CASE nop \o cmds # <<>>
    <3> DEFINE more == nop \o Sent
    <3>1. Write(w_buf \o more)
      <4>1. Write(w_buf \o nop \o Sent)
        BY <2>1, <2>3 DEF WriteMessages, Sent
      <4> QED
        BY <4>1, SaidMessages
    <3>2. more \in Seq(Remarks) /\ more \in Seq(Commands) /\ NoMagic(more)
      BY SaidMessages
    <3> HIDE DEF more
    <3>3. {i \in 1..Len(more) : more[i] \in Asking} = {i \in 1..Len(more) : more[i] \in Unawaited}
      BY <3>2 DEF Remarks, Asking, Unawaited
    <3>4. Many(more, Asking) = Many(more, Unawaited)
      BY <3>3 DEF Many
    <3>5. /\ SubSeq(wire', 1, seen) = SubSeq(wire, 1, seen)
          /\ Many(wire', Asking)
                = Many(wire, Asking) + (IF peer = "open" THEN Many(more, Asking) ELSE 0)
          /\ Many(wire', Unawaited)
                = Many(wire, Unawaited) + (IF peer = "open" THEN Many(more, Unawaited) ELSE 0)
          /\ Many(more, Asking) \in Nat
      BY <1>2, <3>1, <3>2
    <3>6. Many(wire', Asking) + Many(wire, Unawaited) = Many(wire, Asking) + Many(wire', Unawaited)
      BY <1>1, <3>4, <3>5
    <3> QED
      BY <1>5, <3>5, <3>6
  <2> QED
    BY <2>2, <2>3
<1> QED
  BY <1>3, <1>4, <1>5, WhoWrites

\* Who takes answers, and who gives them.
LEMMA WhoAnswers ==
    ASSUME [Next]_vars
    PROVE  \/ WriteHandshake /\ UNCHANGED <<responses, inbox, seen>>
           \/ \E n \in 0..Len(inbox) : /\ ReadStarted(n) \/ ReadAnswer(n) \/ ReadUpgrade(n)
                                          \/ ReadFatal(n)
                                       /\ ~WriteHandshake /\ UNCHANGED <<wire, seen>>
           \/ TlsHandshake /\ ~WriteHandshake /\ UNCHANGED <<responses, need_response, wire, seen>>
           \/ /\ NsqdAnswer \/ NsqdMessage \/ NsqdHeartbeat
              /\ ~WriteHandshake /\ UNCHANGED <<responses, need_response, tls, wire>>
           \/ ~WriteHandshake /\ UNCHANGED <<responses, need_response, tls, inbox, seen>>
<1>1. WriteHandshake => UNCHANGED <<responses, inbox, seen>>
  BY DEF WriteHandshake, peerVars
<1>2. ASSUME NEW n \in 0..Len(inbox),
             ReadStarted(n) \/ ReadAnswer(n) \/ ReadUpgrade(n) \/ ReadFatal(n)
      PROVE  UNCHANGED <<wire, seen>>
  BY <1>2 DEF ReadStarted, ReadAnswer, ReadUpgrade, ReadFatal, TakeFrames, peerVars
<1>3. TlsHandshake => UNCHANGED <<responses, need_response, wire, seen>>
  BY DEF TlsHandshake, connVars
<1>4. NsqdAnswer \/ NsqdMessage \/ NsqdHeartbeat => UNCHANGED <<responses, need_response, tls, wire>>
  BY DEF NsqdAnswer, NsqdMessage, NsqdHeartbeat, ownVars, connVars
<1>5. \/ WriteHandshake
      \/ \E n \in 0..Len(inbox) : ReadStarted(n) \/ ReadAnswer(n) \/ ReadUpgrade(n) \/ ReadFatal(n)
      \/ TlsHandshake \/ NsqdAnswer \/ NsqdMessage \/ NsqdHeartbeat
      \/ UNCHANGED <<responses, need_response, tls, inbox, seen>>
  BY DEF Next, LoopNext, EnvNext, Poll, Read, ReadEof, ReadWouldBlock, ReadError, WriteStarted,
         ClientEvent, CmdEvent, TlsFailure, HandlerSend, Sentinel, UserClose, Connected, PeerFails, Elapse,
         vars, ownVars, connVars, netVars, peerVars
<1> QED
  BY <1>1, <1>2, <1>3, <1>4, <1>5

\* Every step keeps the Budget.
LEMMA BudgetStep ==
    /\ TypeOK /\ Gone /\ Control /\ Buffer /\ Steps /\ Subscribed /\ Budget
    /\ [Next]_vars
    => Budget'
<1> SUFFICES ASSUME TypeOK, Gone, Control, Buffer, Steps, Subscribed, Budget, [Next]_vars
             PROVE  Budget'
  OBVIOUS
<1>1. /\ Kept \in Nat /\ Coming \in Nat /\ Questions \in Nat
      /\ Sought \in Nat /\ Dealt \in Nat /\ Due \in Nat
      /\ Kept + Coming + Questions <= Sought + Due + Dealt
  BY BudgetTypes DEF Budget
<1>2. TypeOK' /\ Buffer'
  BY TypeStep, BufferStep
<1>0. /\ Kept' \in Nat /\ Coming' \in Nat /\ Questions' \in Nat
      /\ Sought' \in Nat /\ Dealt' \in Nat /\ Due' \in Nat
  <2>1. /\ responses' \in Seq(Frames) /\ inbox' \in Seq(Frames) /\ wire' \in Seq(Commands)
        /\ seen' \in 0..Len(wire')
    BY <1>2 DEF TypeOK, ConnTypes, PeerTypes, Buffer
  <2>2. SubSeq(wire', 1, seen') \in Seq(Commands)
    BY <2>1, Split
  <2>3. Due' \in Nat
    BY DEF Due
  <2>4. Many(inbox', Answers) \in Nat /\ Many(wire', Asking) \in Nat /\ Many(wire', Unawaited) \in Nat
    BY <2>1, ManyType
  <2>5. Many(SubSeq(wire', 1, seen'), Asking) \in Nat
    BY <2>2, ManyType
  <2> QED
    BY <2>1, <2>3, <2>4, <2>5 DEF Kept, Coming, Questions, Sought, Dealt
<1>3. PICK l1 \in Nat, i1 \in Nat, w1 \in Nat, p1 \in Nat, d1 \in Nat, t1 \in Nat :
         /\ l1 = Kept' /\ i1 = Coming' /\ w1 = Questions'
         /\ p1 = Sought' /\ d1 = Due' /\ t1 = Dealt'
  BY <1>0
<1>4. seen' = seen => t1 = Dealt
  BY <1>3, AskedFor DEF Dealt
<1>5. /\ WriteHandshake => w1 <= Questions + d1 /\ p1 = Sought /\ Due = 0
      /\ ~WriteHandshake => w1 + Sought = Questions + p1
  BY <1>3, AskedFor DEF Questions, Sought
<1>6. l1 + i1 + w1 <= p1 + d1 + t1 => Budget'
  BY <1>3 DEF Budget
<1>7. ASSUME NEW n \in 0..Len(inbox),
             ReadStarted(n) \/ ReadAnswer(n) \/ ReadUpgrade(n) \/ ReadFatal(n)
      PROVE  l1 + i1 + Due <= Kept + Coming + d1
  <2> DEFINE rs == Responses(SubSeq(inbox, 1, n))
  <2>1. TakeFrames(n)
    BY <1>7 DEF ReadStarted, ReadAnswer, ReadUpgrade, ReadFatal
  <2>2. rs \in Seq(Frames) /\ Len(rs) + i1 = Kept + Coming
    BY <1>3, <2>1, AnswersMoved DEF Kept, Coming
  <2>3. tls # "upgrading" /\ interest = "readable"
    BY <2>1 DEF TakeFrames, Dispatch, Control, Secured
  <2>4. CASE ReadStarted(n)
    <3>1. responses' = rs /\ need_response' = need_response /\ tls' = tls
      BY <2>4 DEF ReadStarted
    <3> HIDE DEF rs
    <3>2. d1 = Due /\ l1 = Len(rs)
      BY <1>3, <3>1 DEF Due, Kept
    <3> QED
      BY <1>1, <2>2, <3>2
  <2>5. CASE ReadAnswer(n) \/ ReadUpgrade(n)
    <3>1. state # "Started" /\ After(Popped(rs)) \in States
      BY <2>5 DEF ReadAnswer, ReadUpgrade, States
    <3>2. need_response /\ state \in {"Identify", "Tls", "Auth", "Subscribe"}
      BY <2>3, <3>1 DEF Control, Turns
    <3>3. After(Popped(rs)) # "Started" /\ Len(Rest(rs)) = Len(rs) - 1
      <4> HIDE DEF rs
      <4> QED
        BY <2>2, <3>1, <3>2, AnswerPopped DEF Control
    <3>4. responses' = Rest(rs)
      BY <2>5, <3>2, <3>3 DEF ReadAnswer, ReadUpgrade
    <3>5. Due = 1
      BY <2>3, <3>2 DEF Due
    <3>6. d1 = 0
      BY <1>3, <2>5 DEF ReadAnswer, ReadUpgrade, Due
    <3> HIDE DEF rs
    <3>7. l1 = Len(rs) - 1
      BY <1>3, <3>3, <3>4 DEF Kept
    <3> QED
      BY <1>1, <2>2, <3>5, <3>6, <3>7
  <2>6. CASE ReadFatal(n)
    <3>1. UNCHANGED <<responses, need_response, tls>>
      BY <2>6 DEF ReadFatal
    <3>2. d1 = Due /\ l1 = Kept
      BY <1>3, <3>1 DEF Due, Kept
    <3>3. Len(rs) \in Nat /\ Len(rs) >= Kept
      <4>1. SubSeq(inbox, 1, n) \in Seq(Frames) /\ responses \in Seq(Frames)
        BY Split DEF TypeOK, ConnTypes, PeerTypes
      <4>2. Len(rs) = Kept + Cardinality(Replies(SubSeq(inbox, 1, n)))
        BY <4>1, ResponsesFacts DEF Kept
      <4>3. Replies(SubSeq(inbox, 1, n)) = {i \in 1..Len(SubSeq(inbox, 1, n)) :
                                               SubSeq(inbox, 1, n)[i] \in Answers}
        BY DEF Replies, IsResponse, Answers
      <4>4. Cardinality(Replies(SubSeq(inbox, 1, n))) = Many(SubSeq(inbox, 1, n), Answers)
        BY <4>3 DEF Many
      <4>5. Many(SubSeq(inbox, 1, n), Answers) \in Nat
        BY <4>1, ManyType
      <4> HIDE DEF rs
      <4> QED
        BY <1>1, <4>2, <4>4, <4>5
    <3> HIDE DEF rs
    <3> QED
      BY <1>1, <2>2, <3>2, <3>3
  <2> QED
    BY <1>7, <2>4, <2>5, <2>6
<1>8. ASSUME TlsHandshake PROVE l1 + i1 + Due <= Kept + Coming + d1
  <2>1. /\ inbox = <<>> /\ inbox' = <<"OK">> /\ tls = "upgrading" /\ tls' = "on"
        /\ UNCHANGED <<responses, need_response>>
    BY <1>8 DEF TlsHandshake, connVars
  <2>2. need_response
    BY <2>1 DEF Control, Secured
  <2>3. Due = 0 /\ d1 = 1 /\ l1 = Kept
    BY <1>3, <2>1, <2>2 DEF Due, Kept
  <2>4. Coming = 0 /\ i1 = 1
    <3>1. Many(<<"OK">>, Answers) = (IF "OK" \in Answers THEN 1 ELSE 0) /\ Many(<<>>, Answers) = 0
      BY ManyOne
    <3> QED
      BY <1>3, <2>1, <3>1 DEF Coming, Answers
  <2> QED
    BY <1>1, <2>3, <2>4
<1>9. ASSUME NsqdAnswer PROVE i1 + Dealt <= Coming + t1 /\ ~WriteHandshake
  <2> DEFINE c == wire[seen + 1]
  <2>0. PICK a \in {Answer(c)} \cup TooLate(c) : inbox' = inbox \o a.reply
    BY <1>9 DEF NsqdAnswer
  <2> DEFINE reply == a.reply
  <2>1. /\ peer = "open" /\ seen < Len(wire) /\ seen' = seen + 1 /\ inbox' = inbox \o reply
        /\ wire' = wire
    BY <1>9, <2>0 DEF NsqdAnswer
  <2>2. seen \in 0..(Len(wire) - 1) /\ wire \in Seq(Commands) /\ inbox \in Seq(Frames)
    BY <2>1 DEF TypeOK, PeerTypes
  <2>3. t1 = Dealt + (IF c \in Asking THEN 1 ELSE 0)
    BY <1>3, <2>1, <2>2, ManyNext, SMTT(30) DEF Dealt
  <2>4. reply \in {<<>>, <<"CONFIG">>, <<"OK">>, <<"ERR">>} /\ (c \notin Asking => reply = <<>>)
    <3>1. phase # "gone"
      BY <2>1 DEF Gone, Lost
    <3> QED
      BY <2>1, <3>1, AnswerTypes, TooLateTypes, Silent
  <2>5. reply \in Seq(Frames) /\ Many(reply, Answers) \in {0, 1}
        /\ (reply = <<>> => Many(reply, Answers) = 0)
    <3> HIDE DEF reply
    <3>1. \A x : Many(<<x>>, Answers) = (IF x \in Answers THEN 1 ELSE 0) /\ Many(<<>>, Answers) = 0
      BY ManyOne
    <3>2. /\ <<>> \in Seq(Frames) /\ <<"CONFIG">> \in Seq(Frames) /\ <<"OK">> \in Seq(Frames)
          /\ <<"ERR">> \in Seq(Frames)
      BY DEF Frames
    <3> QED
      BY <2>4, <3>1, <3>2
  <2>6. i1 = Coming + Many(reply, Answers)
    <3> HIDE DEF reply
    <3>1. inbox \in Seq(Frames) /\ reply \in Seq(Frames)
      BY <2>2, <2>5
    <3> QED
      BY <1>3, <2>1, <3>1, ManyJoined DEF Coming
  <2>7. ~WriteHandshake
    BY <2>1, <2>2 DEF WriteHandshake, peerVars
  <2> HIDE DEF c, reply
  <2>8. i1 + Dealt <= Coming + t1
    BY <1>1, <2>3, <2>4, <2>5, <2>6
  <2> QED
    BY <2>7, <2>8
<1>10. ASSUME NsqdMessage \/ NsqdHeartbeat PROVE i1 = Coming /\ seen' = seen
  <2>1. PICK f \in {"MSG", "HEARTBEAT"} : inbox' = Append(inbox, f)
    BY <1>10 DEF NsqdMessage, NsqdHeartbeat
  <2>2. inbox \in Seq(Frames) /\ f \in Frames /\ f \notin Answers
    BY DEF TypeOK, PeerTypes, Frames, Answers
  <2>3. i1 = Coming + 0
    BY <1>3, <2>1, <2>2, ManyAppended DEF Coming
  <2> QED
    BY <1>1, <1>10, <2>3 DEF NsqdMessage, NsqdHeartbeat
<1>11. UNCHANGED <<need_response, tls>> => d1 = Due
  BY <1>3 DEF Due
<1>12. /\ UNCHANGED responses => l1 = Kept
       /\ UNCHANGED inbox => i1 = Coming
  BY <1>3 DEF Kept, Coming
<1>13. CASE WriteHandshake /\ UNCHANGED <<responses, inbox, seen>>
  <2>1. /\ l1 = Kept /\ i1 = Coming /\ t1 = Dealt
        /\ w1 <= Questions + d1 /\ p1 = Sought /\ Due = 0
    BY <1>4, <1>5, <1>12, <1>13
  <2>2. l1 + i1 + w1 <= p1 + d1 + t1
    BY <1>1, <2>1
  <2> QED
    BY <1>6, <2>2
<1>14. ASSUME ~WriteHandshake, UNCHANGED seen, l1 + i1 + Due <= Kept + Coming + d1
       PROVE  Budget'
  <2>1. t1 = Dealt /\ w1 + Sought = Questions + p1
    BY <1>4, <1>5, <1>14
  <2>2. l1 + i1 + w1 <= p1 + d1 + t1
    BY <1>1, <1>14, <2>1
  <2> QED
    BY <1>6, <2>2
<1>15. CASE NsqdAnswer /\ UNCHANGED <<responses, need_response, tls, wire>>
  <2>1. /\ w1 + Sought = Questions + p1
        /\ i1 + Dealt <= Coming + t1 /\ l1 = Kept /\ d1 = Due
    BY <1>5, <1>9, <1>11, <1>12, <1>15
  <2>2. l1 + i1 + w1 <= p1 + d1 + t1
    BY <1>1, <2>1
  <2> QED
    BY <1>6, <2>2
<1>16. CASE /\ NsqdMessage \/ NsqdHeartbeat
            /\ ~WriteHandshake /\ UNCHANGED <<responses, need_response, tls, wire>>
  <2>1. l1 = Kept /\ i1 = Coming /\ d1 = Due /\ seen' = seen
    BY <1>10, <1>11, <1>12, <1>16
  <2> QED
    BY <1>1, <1>14, <1>16, <2>1
<1>17. CASE ~WriteHandshake /\ UNCHANGED <<responses, need_response, tls, inbox, seen>>
  <2>1. l1 = Kept /\ i1 = Coming /\ d1 = Due
    BY <1>11, <1>12, <1>17
  <2> QED
    BY <1>1, <1>14, <1>17, <2>1
<1> QED
  BY <1>7, <1>8, <1>13, <1>14, <1>15, <1>16, <1>17, WhoAnswers

\* What the stack of responses holds once the handshake is over is replies to what
\* was published, finished and touched, for every set of clients, servers, faults and
\* commands: no answer of the handshake stays behind in Conn.
THEOREM Responded == Spec => []AnswersTaken
<1>1. Init => Budget
  <2> SUFFICES ASSUME Init PROVE Budget
    OBVIOUS
  <2>1. responses = <<>> /\ inbox = <<>> /\ wire = <<>> /\ seen = 0 /\ ~need_response
    BY DEF Init
  <2>2. \A X : Many(<<>>, X) = 0
    BY ManyOne
  <2>3. SubSeq(wire, 1, seen) = <<>>
    BY <2>1
  <2>4. Kept = 0 /\ Due = 0
    BY <2>1 DEF Kept, Due
  <2>5. Coming = 0 /\ Questions = 0 /\ Sought = 0 /\ Dealt = 0
    BY <2>1, <2>2, <2>3 DEF Coming, Questions, Sought, Dealt
  <2> QED
    BY <2>4, <2>5 DEF Budget
<1>2. TypeOK /\ Control /\ Buffer /\ Budget => AnswersTaken
  <2> SUFFICES ASSUME TypeOK, Control, Buffer, Budget, state = "Started"
               PROVE  Len(responses)
                          <= Count(wire, "PUB") + Count(wire, "FIN") + Count(wire, "TOUCH")
    BY DEF AnswersTaken
  <2>1. Due = 0
    BY DEF Due, Control, Turns
  <2>2. Count(wire, "PUB") + Count(wire, "FIN") + Count(wire, "TOUCH") = Sought
    <3>1. wire \in Seq(Commands)
      BY DEF TypeOK, PeerTypes
    <3>2. \A x : Count(wire, x) = Many(wire, {x})
      <4>1. \A x : {i \in DOMAIN wire : wire[i] = x} = {i \in 1..Len(wire) : wire[i] \in {x}}
        BY <3>1
      <4> QED
        BY <4>1 DEF Count, Many
    <3>3. Many(wire, {"PUB"} \cup {"FIN"}) = Many(wire, {"PUB"}) + Many(wire, {"FIN"})
      BY <3>1, ManyEither
    <3>4. Many(wire, ({"PUB"} \cup {"FIN"}) \cup {"TOUCH"})
             = Many(wire, {"PUB"} \cup {"FIN"}) + Many(wire, {"TOUCH"})
      BY <3>1, ManyEither
    <3>5. ({"PUB"} \cup {"FIN"}) \cup {"TOUCH"} = Unawaited
      BY DEF Unawaited
    <3>6. Many(wire, Unawaited) = (Many(wire, {"PUB"}) + Many(wire, {"FIN"})) + Many(wire, {"TOUCH"})
      BY <3>3, <3>4, <3>5
    <3> QED
      BY <3>2, <3>6 DEF Sought
  <2>3. Dealt <= Questions
    <3>1. wire \in Seq(Commands) /\ seen \in 0..Len(wire)
      BY DEF TypeOK, PeerTypes, Buffer
    <3>2. /\ SubSeq(wire, 1, seen) \in Seq(Commands)
          /\ SubSeq(wire, seen + 1, Len(wire)) \in Seq(Commands)
      BY <3>1, Split
    <3>3. /\ Many(SubSeq(wire, 1, seen), Asking) \in Nat
          /\ Many(SubSeq(wire, seen + 1, Len(wire)), Asking) \in Nat
      BY <3>2, ManyType
    <3>4. Many(wire, Asking) = Many(SubSeq(wire, 1, seen), Asking)
                                  + Many(SubSeq(wire, seen + 1, Len(wire)), Asking)
      BY <3>1, ManySplit
    <3> QED
      BY <3>3, <3>4 DEF Dealt, Questions
  <2>4. Kept <= Sought
    BY <2>1, <2>3, BudgetTypes DEF Budget
  <2> QED
    BY <2>2, <2>4 DEF Kept
<1> QED
  BY <1>1, <1>2, BudgetStep, StepsCorrect, PTL DEF Spec
-----------------------------------------------------------------------------
(* What is in flight *)

\* Division with a remainder.
LEMMA Division ==
    ASSUME NEW a \in Int, NEW u \in Nat \ {0}
    PROVE  a = u * (a \div u) + (a % u) /\ a % u \in 0..(u - 1) /\ a \div u \in Int
OBVIOUS

LEMMA Multiple ==
    ASSUME NEW u \in Nat, NEW d \in Int, d >= 1
    PROVE  u * d >= u
OBVIOUS

\* There is one remainder.
LEMMA OneRemainder ==
    ASSUME NEW u \in Nat \ {0}, NEW p \in Int, NEW q \in Int,
           NEW r \in 0..(u - 1), NEW s \in 0..(u - 1), u * p + r = u * q + s
    PROVE  r = s
<1>1. CASE p > q
  <2>1. u * (p - q) >= u
    BY <1>1, Multiple
  <2>2. u * (p - q) = s - r
    OBVIOUS
  <2> QED
    BY <2>1, <2>2
<1>2. CASE p < q
  <2>1. u * (q - p) >= u
    BY <1>2, Multiple
  <2>2. u * (q - p) = r - s
    OBVIOUS
  <2> QED
    BY <2>1, <2>2
<1>3. CASE p = q
  BY <1>3
<1> QED
  BY <1>1, <1>2, <1>3

\* A counter that wraps around, and wraps around again, is the sum that does so once.
LEMMA WrappedTwice ==
    ASSUME NEW a \in Int, NEW k \in Int, NEW u \in Nat \ {0}
    PROVE  ((a % u) + k) % u = (a + k) % u
<1> DEFINE r == a % u
           b == r + k
           c == a + k
<1>1. a = u * (a \div u) + r /\ r \in 0..(u - 1) /\ a \div u \in Int
  BY Division
<1>2. b \in Int /\ c \in Int
  BY <1>1
<1>3. /\ b = u * (b \div u) + (b % u) /\ b % u \in 0..(u - 1) /\ b \div u \in Int
      /\ c = u * (c \div u) + (c % u) /\ c % u \in 0..(u - 1) /\ c \div u \in Int
  BY <1>2, Division
<1>4. PICK x \in Int, y \in Int, z \in Int : x = a \div u /\ y = b \div u /\ z = c \div u
  BY <1>1, <1>3
<1>5. PICK s \in 0..(u - 1), t \in 0..(u - 1) : s = b % u /\ t = c % u
  BY <1>3
<1>6. c = b + u * x
  BY <1>1, <1>4
<1> HIDE DEF b, c
<1>7. u * z + t = u * y + s + u * x
  BY <1>3, <1>4, <1>5, <1>6
<1>8. u * y + s + u * x = u * (y + x) + s
  OBVIOUS
<1>9. s = t
  BY <1>7, <1>8, OneRemainder
<1> QED
  BY <1>5, <1>9 DEF b, c

\* What was handed over, less what was taken for writing.
Taken == delivered - ((finished + extra) - Len(cmds))

LEMMA TakenType ==
    ASSUME TypeOK
    PROVE  Taken \in Int /\ Len(cmds) \in Nat /\ U32 \in Nat \ {0}
<1>1. Len(cmds) \in Nat /\ delivered \in Nat /\ finished \in Nat /\ extra \in Nat
  BY DEF TypeOK, UserTypes
<1> QED
  BY <1>1, EventLoopAssumption DEF Taken

\* The balance as a step can keep it.
Balance == outcome # "panicked" => in_flight = Taken % U32

\* Who counts.
LEMMA WhoCounts ==
    ASSUME [Next]_vars
    PROVE  \/ \E n \in 0..Len(inbox) : TakeFrames(n)
           \/ \E nop : WriteMessages(nop) /\ UNCHANGED <<finished, extra, delivered>>
           \/ \E cmd \in HandlerCmds : HandlerSend(cmd)
           \/ UNCHANGED <<cmds, finished, extra, delivered, in_flight>>
<1>1. WriteStarted \/ ClientEvent =>
         \E nop : WriteMessages(nop) /\ UNCHANGED <<finished, extra, delivered>>
  BY DEF WriteStarted, ClientEvent, peerVars
<1>2. ASSUME NEW n \in 0..Len(inbox),
             ReadStarted(n) \/ ReadAnswer(n) \/ ReadUpgrade(n) \/ ReadFatal(n)
      PROVE  TakeFrames(n)
  BY <1>2 DEF ReadStarted, ReadAnswer, ReadUpgrade, ReadFatal
<1>3. \/ \E n \in 0..Len(inbox) : ReadStarted(n) \/ ReadAnswer(n) \/ ReadUpgrade(n) \/ ReadFatal(n)
      \/ WriteStarted \/ ClientEvent
      \/ \E cmd \in HandlerCmds : HandlerSend(cmd)
      \/ UNCHANGED <<cmds, finished, extra, delivered, in_flight>>
  BY DEF Next, LoopNext, EnvNext, Poll, Read, ReadEof, ReadWouldBlock, ReadError, WriteHandshake,
         CmdEvent, TlsHandshake, TlsFailure, Sentinel, UserClose, NsqdAnswer, NsqdMessage,
         NsqdHeartbeat, Connected, PeerFails, Elapse,
         vars, ownVars, connVars, userVars, netVars, peerVars
<1> QED
  BY <1>1, <1>2, <1>3

\* Who has panicked has.
LEMMA PanicStays == [Next]_vars /\ outcome = "panicked" => outcome' = "panicked"
BY DEF Next, LoopNext, EnvNext, Poll, Read, ReadStarted, ReadAnswer, ReadUpgrade, ReadFatal,
       TakeFrames, ReadEof, ReadWouldBlock, ReadError, WriteHandshake, WriteStarted,
       ClientEvent, CmdEvent, TlsHandshake, TlsFailure, HandlerSend, Sentinel, UserClose, NsqdAnswer,
       NsqdMessage, NsqdHeartbeat, Connected, PeerFails, Elapse, vars, ownVars, endVars,
       Dispatch

\* Every step keeps the balance.
LEMMA BalanceStep == TypeOK /\ Gone /\ Balance /\ [Next]_vars => Balance'
<1> SUFFICES ASSUME TypeOK, Gone, Balance, [Next]_vars, outcome' # "panicked"
             PROVE  in_flight' = Taken' % U32
  BY DEF Balance
<1>1. in_flight = Taken % U32
  BY PanicStays DEF Balance
<1>2. /\ Taken \in Int /\ U32 \in Nat \ {0} /\ Len(cmds) \in Nat
      /\ delivered \in Nat /\ finished \in Nat /\ extra \in Nat
  BY TakenType DEF TypeOK, UserTypes
<1>3. ASSUME NEW n \in 0..Len(inbox), TakeFrames(n) PROVE in_flight' = Taken' % U32
  <2> DEFINE k == Count(SubSeq(inbox, 1, n), "MSG")
  <2>1. /\ in_flight' = (in_flight + k) % U32 /\ delivered' = delivered + k
        /\ UNCHANGED <<cmds, finished, extra>>
    BY <1>3 DEF TakeFrames, Decode, CountUp, userVars
  <2>2. k \in Nat
    <3>1. inbox \in Seq(Frames)
      BY DEF TypeOK, PeerTypes
    <3>2. SubSeq(inbox, 1, n) \in Seq(Frames)
      BY <3>1, Split
    <3> QED
      BY <3>2, CountType
  <2> HIDE DEF k
  <2>3. Taken' = Taken + k
    BY <1>2, <2>1, <2>2 DEF Taken
  <2>4. ((Taken % U32) + k) % U32 = (Taken + k) % U32
    <3>1. k \in Int
      BY <2>2
    <3> QED
      BY <1>2, <3>1, WrappedTwice
  <2> QED
    BY <1>1, <2>1, <2>3, <2>4
<1>4. ASSUME NEW nop, WriteMessages(nop), UNCHANGED <<finished, extra, delivered>>
      PROVE  in_flight' = Taken' % U32
  <2> DEFINE k == Len(cmds)
  <2>1. cmds' = <<>> /\ in_flight' = (in_flight - k) % U32
    BY <1>4 DEF WriteMessages, CountDown
  <2>2. Len(cmds') = 0
    BY <2>1
  <2>3. Taken' = Taken + (0 - k)
    BY <1>2, <1>4, <2>2 DEF Taken
  <2>4. ((Taken % U32) + (0 - k)) % U32 = (Taken + (0 - k)) % U32
    <3>1. 0 - k \in Int
      BY <1>2
    <3> QED
      BY <1>2, <3>1, WrappedTwice
  <2>5. in_flight - k = in_flight + (0 - k)
    <3>1. in_flight \in Int
      BY EventLoopAssumption DEF TypeOK, ConnTypes
    <3> QED
      BY <1>2, <3>1
  <2> QED
    BY <1>1, <2>1, <2>3, <2>4, <2>5
<1>5. ASSUME NEW cmd \in HandlerCmds, HandlerSend(cmd) PROVE in_flight' = Taken' % U32
  <2>1. /\ cmds' = Append(cmds, cmd) /\ UNCHANGED <<delivered, in_flight>>
        /\ \/ finished' = finished + 1 /\ extra' = extra
           \/ finished' = finished /\ extra' = extra + 1
    BY <1>5 DEF HandlerSend, connVars
  <2>2. Len(cmds') = Len(cmds) + 1
    BY <1>5, <2>1 DEF TypeOK, UserTypes
  <2>3. Taken' = Taken
    BY <1>2, <2>1, <2>2 DEF Taken
  <2> QED
    BY <1>1, <2>1, <2>3
<1>6. CASE UNCHANGED <<cmds, finished, extra, delivered, in_flight>>
  BY <1>1, <1>6 DEF Taken
<1> QED
  BY <1>3, <1>4, <1>5, <1>6, WhoCounts

\* What in_flight counts, for every client, whatever its handlers and producer
\* threads send and whatever becomes of the connection: the messages handed to the
\* readers less the commands of any kind taken for writing, in the width of u32.
THEOREM InFlightCounted == Spec => []InFlightBalance
<1>1. Init => Balance
  <2> SUFFICES ASSUME Init PROVE Balance
    OBVIOUS
  <2>1. in_flight = 0 /\ delivered = 0 /\ finished = 0 /\ extra = 0
    BY DEF Init
  <2>2. Len(cmds) = 0
    <3>1. cmds = <<>>
      BY DEF Init
    <3> QED
      BY <3>1
  <2>3. Taken = 0
    BY <2>1, <2>2 DEF Taken
  <2>4. U32 \in Nat \ {0}
    BY EventLoopAssumption
  <2>5. 0 % U32 = 0
    BY <2>4
  <2> QED
    BY <2>1, <2>3, <2>5 DEF Balance
<1>2. TypeOK /\ Gone /\ Balance /\ [Next]_vars => Balance'
  BY BalanceStep
<1>3. TypeOK /\ Balance => InFlightBalance
  <2> SUFFICES ASSUME TypeOK, Balance, outcome # "panicked"
               PROVE  in_flight = (delivered - (finished + extra - Len(cmds))) % U32
    BY DEF InFlightBalance
  <2>1. finished + extra - Len(cmds) = (finished + extra) - Len(cmds)
    BY TakenType DEF TypeOK, UserTypes
  <2> QED
    BY <2>1 DEF Balance, Taken
<1> QED
  BY <1>1, <1>2, <1>3, TypeCorrect, PTL DEF Spec
=============================================================================
