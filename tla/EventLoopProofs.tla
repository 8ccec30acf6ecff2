-------------------------- MODULE EventLoopProofs --------------------------
(***************************************************************************)
(* Proofs about EventLoop for every set of clients and servers, every set  *)
(* of faults and commands, and every bound.                                *)
(***************************************************************************)
EXTENDS EventLoop, Induction

-----------------------------------------------------------------------------
(* Counting and the stack of responses *)

\* Count counts.
LEMMA CountType ==
    ASSUME NEW X, NEW s \in Seq(X), NEW x
    PROVE  /\ Count(s, x) \in Nat /\ Count(s, x) <= Len(s)
           /\ Count(s, x) = 0 <=> \A i \in 1..Len(s) : s[i] # x
<1>1. {i \in DOMAIN s : s[i] = x} \in SUBSET (1..Len(s)) /\ Len(s) \in Nat
  OBVIOUS
<1> QED
  BY <1>1, Positions DEF Count

\* The positions of the responses among the frames.
Replies(frames) == {i \in 1..Len(frames) : IsResponse(frames[i])}

\* What Responses computes step by step.
Stacks(frames, n) ==
    {g \in [0..n -> Seq(Frames)] :
        /\ g[0] = responses
        /\ \A i \in 1..n : g[i] = IF IsResponse(frames[i]) THEN Append(g[i - 1], frames[i])
                                  ELSE g[i - 1]}

\* The steps can be taken.
LEMMA StacksExist ==
    ASSUME NEW frames \in Seq(Frames), responses \in Seq(Frames)
    PROVE  \A n \in 0..Len(frames) : Stacks(frames, n) # {}
<1> DEFINE T == {n \in 0..Len(frames) : \E g : g \in Stacks(frames, n)}
<1>1. 0 \in T
  <2>1. [i \in 0..0 |-> responses] \in Stacks(frames, 0)
    BY DEF Stacks
  <2> QED
    BY <2>1
<1>2. ASSUME NEW n \in 0..(Len(frames) - 1), n \in T PROVE n + 1 \in T
  <2>1. PICK g : g \in Stacks(frames, n)
    BY <1>2
  <2>2. frames[n + 1] \in Frames /\ n \in Nat /\ n + 1 \in 0..Len(frames)
    BY <1>2
  <2> DEFINE last == IF IsResponse(frames[n + 1]) THEN Append(g[n], frames[n + 1]) ELSE g[n]
             h == [i \in 0..(n + 1) |-> IF i = n + 1 THEN last ELSE g[i]]
  <2>3. last \in Seq(Frames)
    <3>1. g[n] \in Seq(Frames)
      BY <2>2, <2>1 DEF Stacks
    <3> QED
      BY <2>2, <3>1
  <2>4. h \in [0..(n + 1) -> Seq(Frames)] /\ h[0] = responses
    BY <2>1, <2>2, <2>3 DEF Stacks
  <2>5. ASSUME NEW i \in 1..(n + 1)
        PROVE  h[i] = IF IsResponse(frames[i]) THEN Append(h[i - 1], frames[i]) ELSE h[i - 1]
    <3>1. CASE i = n + 1
      <4>1. i \in 0..(n + 1) /\ i - 1 \in 0..(n + 1) /\ i - 1 = n /\ i - 1 # n + 1
        BY <3>1, <2>2
      <4> QED
        BY <3>1, <4>1
    <3>2. CASE i # n + 1
      <4>1. i \in 1..n /\ i \in 0..(n + 1) /\ i - 1 \in 0..(n + 1) /\ i - 1 # n + 1
        BY <3>2, <2>2
      <4> QED
        BY <3>2, <4>1, <2>1 DEF Stacks
    <3> QED
      BY <3>1, <3>2
  <2>6. h \in Stacks(frames, n + 1)
    <3> HIDE DEF h
    <3> QED
      BY <2>4, <2>5 DEF Stacks
  <2> QED
    BY <2>2, <2>6
<1>3. Len(frames) \in Nat
  OBVIOUS
<1>4. \A n \in 0..Len(frames) : n \in T
  <2> HIDE DEF T
  <2> QED
    BY <1>1, <1>2, <1>3, BoundedInduction
<1> QED
  BY <1>4

\* Responses takes them.
LEMMA ResponsesStack ==
    ASSUME NEW frames \in Seq(Frames), responses \in Seq(Frames)
    PROVE  \E g \in Stacks(frames, Len(frames)) : Responses(frames) = g[Len(frames)]
<1> DEFINE F(g) == [i \in 0..Len(frames) |->
                       IF i = 0 THEN responses
                       ELSE IF IsResponse(frames[i]) THEN Append(g[i - 1], frames[i])
                       ELSE g[i - 1]]
           pushed == CHOOSE g : g = F(g)
<1>0. Len(frames) \in Nat /\ Len(frames) \in 0..Len(frames)
  OBVIOUS
<1>1. Responses(frames) = pushed[Len(frames)]
  BY DEF Responses
<1>2. PICK g : g \in Stacks(frames, Len(frames))
  BY <1>0, StacksExist
<1>3. g = F(g)
  <2>1. g \in [0..Len(frames) -> Seq(Frames)] /\ g[0] = responses
    BY <1>2 DEF Stacks
  <2>2. ASSUME NEW i \in 0..Len(frames) PROVE g[i] = F(g)[i]
    <3>1. CASE i = 0
      BY <2>1, <3>1
    <3>2. CASE i # 0
      <4>1. i \in 1..Len(frames)
        BY <3>2, <1>0
      <4> QED
        BY <1>2, <3>2, <4>1 DEF Stacks
    <3> QED
      BY <3>1, <3>2
  <2> QED
    BY <2>1, <2>2
<1>4. pushed = F(pushed)
  <2> HIDE DEF F
  <2> QED
    BY <1>3
<1>5. \A i \in 0..Len(frames) : pushed[i] = g[i]
  <2> HIDE DEF pushed
  <2> DEFINE T == {i \in 0..Len(frames) : pushed[i] = g[i]}
  <2>1. 0 \in T
    BY <1>0, <1>3, <1>4
  <2>2. ASSUME NEW n \in 0..(Len(frames) - 1), n \in T PROVE n + 1 \in T
    <3>1. n + 1 \in 0..Len(frames) /\ n + 1 # 0 /\ (n + 1) - 1 = n /\ pushed[n] = g[n]
      BY <2>2, <1>0
    <3>2. pushed[n + 1] = F(pushed)[n + 1] /\ g[n + 1] = F(g)[n + 1]
      BY <1>3, <1>4
    <3> QED
      BY <3>1, <3>2
  <2>3. \A i \in 0..Len(frames) : i \in T
    <3> HIDE DEF T
    <3> QED
      BY <1>0, <2>1, <2>2, BoundedInduction
  <2> QED
    BY <2>3
<1> QED
  BY <1>0, <1>1, <1>2, <1>5

\* Responses keeps what was there and adds each response, and nothing else.
LEMMA ResponsesFacts ==
    ASSUME NEW frames \in Seq(Frames), responses \in Seq(Frames)
    PROVE  LET rs == Responses(frames)
           IN  /\ rs \in Seq(Frames)
               /\ Len(rs) = Len(responses) + Cardinality(Replies(frames))
               /\ \A k \in 1..Len(rs) : \/ k <= Len(responses) /\ rs[k] = responses[k]
                                        \/ \E i \in Replies(frames) : rs[k] = frames[i]
<1> DEFINE Upto(n) == {i \in 1..n : IsResponse(frames[i])}
           Good(rs, n) == /\ Len(rs) = Len(responses) + Cardinality(Upto(n))
                          /\ \A k \in 1..Len(rs) :
                                \/ k <= Len(responses) /\ rs[k] = responses[k]
                                \/ \E i \in Upto(n) : rs[k] = frames[i]
<1>0. Len(frames) \in Nat /\ Len(frames) \in 0..Len(frames)
  OBVIOUS
<1>1. PICK g \in Stacks(frames, Len(frames)) : Responses(frames) = g[Len(frames)]
  BY ResponsesStack
<1>2. g \in [0..Len(frames) -> Seq(Frames)]
  BY <1>1 DEF Stacks
<1> DEFINE T == {n \in 0..Len(frames) : Good(g[n], n)}
<1>3. 0 \in T
  <2>1. Upto(0) = {} /\ Cardinality(Upto(0)) = 0
    BY FS_EmptySet
  <2>2. g[0] = responses
    BY <1>1 DEF Stacks
  <2> QED
    BY <1>0, <2>1, <2>2
<1>4. ASSUME NEW n \in 0..(Len(frames) - 1), n \in T PROVE n + 1 \in T
  <2>1. n \in Nat /\ n + 1 \in 1..Len(frames) /\ n + 1 \in 0..Len(frames) /\ (n + 1) - 1 = n
    BY <1>0
  <2>2. g[n + 1] = IF IsResponse(frames[n + 1]) THEN Append(g[n], frames[n + 1]) ELSE g[n]
    BY <1>1, <2>1 DEF Stacks
  <2>3. g[n] \in Seq(Frames) /\ g[n + 1] \in Seq(Frames) /\ frames[n + 1] \in Frames
    BY <1>2, <2>1, SMTT(30)
  <2>4. Good(g[n], n)
    BY <1>4
  <2>5. IsFiniteSet(Upto(n)) /\ Cardinality(Upto(n)) \in Nat
    <3>1. Upto(n) \in SUBSET (1..n)
      OBVIOUS
    <3> HIDE DEF Upto
    <3> QED
      BY <2>1, <3>1, Positions
  <2>6. CASE IsResponse(frames[n + 1])
    <3>1. Upto(n + 1) = Upto(n) \cup {n + 1} /\ n + 1 \notin Upto(n)
      BY <2>1, <2>6
    <3>2. Cardinality(Upto(n + 1)) = Cardinality(Upto(n)) + 1
      <4> HIDE DEF Upto
      <4> QED
        BY <2>5, <3>1, FS_AddElement
    <3>3. g[n + 1] = Append(g[n], frames[n + 1])
      BY <2>2, <2>6
    <3>4. Len(g[n + 1]) = Len(g[n]) + 1
          /\ \A k \in 1..Len(g[n]) : g[n + 1][k] = g[n][k]
          /\ g[n + 1][Len(g[n]) + 1] = frames[n + 1]
      BY <2>3, <3>3
    <3>5. ASSUME NEW k \in 1..Len(g[n + 1])
          PROVE  \/ k <= Len(responses) /\ g[n + 1][k] = responses[k]
                 \/ \E i \in Upto(n + 1) : g[n + 1][k] = frames[i]
      <4>1. CASE k \in 1..Len(g[n])
        <5> HIDE DEF Upto
        <5> QED
          BY <2>4, <3>1, <3>4, <4>1
      <4>2. CASE k = Len(g[n]) + 1
        <5>1. n + 1 \in Upto(n + 1)
          BY <2>1, <2>6
        <5>2. g[n + 1][k] = frames[n + 1]
          <6> HIDE DEF Upto
          <6> QED
            BY <2>3, <3>3, <4>2
        <5> HIDE DEF Upto
        <5> QED
          BY <5>1, <5>2
      <4> QED
        BY <2>3, <3>4, <4>1, <4>2, SMTT(30)
    <3>6. Len(g[n + 1]) = Len(responses) + Cardinality(Upto(n + 1))
      <4> HIDE DEF Upto
      <4> QED
        BY <2>4, <2>5, <3>2, <3>4
    <3> HIDE DEF Upto
    <3> QED
      BY <2>1, <3>5, <3>6
  <2>7. CASE ~IsResponse(frames[n + 1])
    <3>1. Upto(n + 1) = Upto(n)
      BY <2>1, <2>7
    <3>2. g[n + 1] = g[n]
      BY <2>2, <2>7
    <3> HIDE DEF Upto
    <3> QED
      BY <2>1, <2>4, <3>1, <3>2
  <2> QED
    BY <2>6, <2>7
<1>5. \A n \in 0..Len(frames) : n \in T
  <2> HIDE DEF T
  <2> QED
    BY <1>0, <1>3, <1>4, BoundedInduction
<1>6. Good(Responses(frames), Len(frames))
  <2>1. Good(g[Len(frames)], Len(frames))
    <3>1. Len(frames) \in T
      BY <1>0, <1>5
    <3> HIDE DEF Good
    <3> QED
      BY <3>1
  <2> HIDE DEF Good
  <2> QED
    BY <1>1, <2>1
<1>7. Upto(Len(frames)) = Replies(frames)
  BY DEF Replies
<1>8. Responses(frames) \in Seq(Frames)
  BY <1>0, <1>1, <1>2
<1> HIDE DEF Upto
<1> QED
  BY <1>6, <1>7, <1>8

-----------------------------------------------------------------------------
(* Types *)

\* The counters wrap around within their type.
LEMMA Wrapped ==
    ASSUME NEW a \in Int
    PROVE  a % U32 \in 0..(U32 - 1)
BY EventLoopAssumption

\* What a read changes.
LEMMA TakeFramesTypes ==
    ASSUME TypeOK, NEW n \in 0..Len(inbox), TakeFrames(n)
    PROVE  /\ inbox' \in Seq(Frames) /\ heartbeat' \in BOOLEAN
           /\ in_flight' \in 0..(U32 - 1) /\ delivered' \in Nat
           /\ SubSeq(inbox, 1, n) \in Seq(Frames)
           /\ Responses(SubSeq(inbox, 1, n)) \in Seq(Frames)
<1>1. inbox \in Seq(Frames) /\ SubSeq(inbox, 1, n) \in Seq(Frames)
  BY Split DEF TypeOK, ConnTypes, LoopTypes, UserTypes, PeerTypes
<1>2. inbox' \in Seq(Frames)
  BY <1>1, Split DEF TakeFrames
<1>3. Count(SubSeq(inbox, 1, n), "MSG") \in Nat
  BY <1>1, CountType
<1>4. delivered' \in Nat /\ in_flight' \in 0..(U32 - 1)
  <2>1. in_flight \in Int /\ delivered \in Nat
    BY EventLoopAssumption DEF TypeOK, ConnTypes, LoopTypes, UserTypes, PeerTypes
  <2>2. in_flight + Count(SubSeq(inbox, 1, n), "MSG") \in Int
    BY <1>3, <2>1
  <2>3. in_flight' = (in_flight + Count(SubSeq(inbox, 1, n), "MSG")) % U32
        /\ delivered' = delivered + Count(SubSeq(inbox, 1, n), "MSG")
    BY DEF TakeFrames, Decode, CountUp
  <2>4. in_flight' \in 0..(U32 - 1)
    BY <2>2, <2>3, Wrapped
  <2> QED
    BY <1>3, <2>1, <2>3, <2>4
<1>5. heartbeat' \in BOOLEAN
  BY DEF TakeFrames, Decode
<1>6. Responses(SubSeq(inbox, 1, n)) \in Seq(Frames)
  BY <1>1, ResponsesFacts DEF TypeOK, ConnTypes, LoopTypes, UserTypes, PeerTypes
<1> QED
  BY <1>1, <1>2, <1>4, <1>5, <1>6

\* What a write changes.
LEMMA WriteTypes ==
    ASSUME TypeOK, NEW buf \in Seq(Commands), Write(buf)
    PROVE  wire' \in Seq(Commands) /\ w_buf' \in Seq(Commands)
BY Joined DEF Write, TypeOK, ConnTypes, LoopTypes, UserTypes, PeerTypes

\* What write_messages takes off the channel.
Sent == IF Len(cmds) > in_flight /\ OverflowChecks THEN SubSeq(cmds, 1, in_flight + 1) ELSE cmds

\* It takes something if there is something.
LEMMA SentTypes ==
    ASSUME TypeOK
    PROVE  Sent \in Seq(HandlerCmds) /\ (cmds # <<>> => Sent # <<>>)
<1>1. cmds \in Seq(HandlerCmds) /\ in_flight \in Nat /\ Len(cmds) \in Nat
  BY EventLoopAssumption DEF TypeOK, ConnTypes, LoopTypes, UserTypes, PeerTypes
<1>2. CASE Len(cmds) > in_flight /\ OverflowChecks
  <2>1. in_flight + 1 \in 0..Len(cmds)
    BY <1>1, <1>2
  <2>2. SubSeq(cmds, 1, in_flight + 1) \in Seq(HandlerCmds)
        /\ Len(SubSeq(cmds, 1, in_flight + 1)) = in_flight + 1
    BY <1>1, <2>1, Split
  <2> QED
    BY <1>1, <1>2, <2>2 DEF Sent
<1>3. CASE ~(Len(cmds) > in_flight /\ OverflowChecks)
  BY <1>1, <1>3 DEF Sent
<1> QED
  BY <1>2, <1>3

\* What write_messages changes.
LEMMA WriteMessagesTypes ==
    ASSUME TypeOK, NEW nop \in Seq(Commands), WriteMessages(nop)
    PROVE  /\ wire' \in Seq(Commands) /\ w_buf' \in Seq(Commands)
           /\ cmds' \in Seq(HandlerCmds) /\ in_flight' \in 0..(U32 - 1)
           /\ outcome' \in {outcome, "panicked"}
<1>1. w_buf \in Seq(Commands) /\ Sent \in Seq(Commands)
  <2>1. HandlerCmds \subseteq Commands
    BY EventLoopAssumption DEF Commands
  <2>2. \A s \in Seq(HandlerCmds) : s \in Seq(Commands)
    BY <2>1
  <2> QED
    BY <2>2, SentTypes DEF TypeOK, ConnTypes, LoopTypes, UserTypes, PeerTypes
<1>2. w_buf \o nop \o Sent \in Seq(Commands)
  BY <1>1, Joined
<1>3. wire' \in Seq(Commands) /\ w_buf' \in Seq(Commands)
  <2>1. CASE nop \o cmds = <<>>
    BY <2>1 DEF WriteMessages, TypeOK, ConnTypes, LoopTypes, UserTypes, PeerTypes
  <2>2. CASE nop \o cmds # <<>>
    <3>1. Write(w_buf \o nop \o Sent)
      BY <2>2 DEF WriteMessages, Sent
    <3> QED
      BY <1>2, <3>1, WriteTypes
  <2> QED
    BY <2>1, <2>2
<1>4. in_flight' \in 0..(U32 - 1)
  <2>1. in_flight - Len(cmds) \in Int /\ 0 \in 0..(U32 - 1)
    BY EventLoopAssumption DEF TypeOK, ConnTypes, LoopTypes, UserTypes, PeerTypes
  <2> QED
    BY <2>1, Wrapped DEF WriteMessages, CountDown
<1>5. cmds' \in Seq(HandlerCmds)
  BY DEF WriteMessages
<1>6. outcome' \in {outcome, "panicked"}
  BY DEF WriteMessages
<1> QED
  BY <1>3, <1>4, <1>5, <1>6

\* The peer that was sent away is gone: nsqd has no answer for it.
Gone == phase = "gone" => peer \in Lost

\* What nsqd answers, and where it moves.
LEMMA AnswerTypes ==
    ASSUME TypeOK, phase # "gone", NEW cmd
    PROVE  /\ Answer(cmd).reply \in {<<>>, <<"CONFIG">>, <<"OK">>, <<"ERR">>}
           /\ Answer(cmd).to \in {"init", "tls", "authed", "sub", "ready", "gone"}
<1>1. CASE phase = "new"
  BY <1>1 DEF Answer
<1>2. CASE phase = "tls"
  BY <1>2 DEF Answer
<1>3. CASE phase \in {"init", "authed", "sub", "ready"}
  <2>1. CASE cmd = "IDENTIFY"
    BY <1>3, <2>1 DEF Answer
  <2>2. CASE cmd = "AUTH"
    BY <1>3, <2>2 DEF Answer
  <2>3. CASE cmd = "SUB"
    BY <1>3, <2>3 DEF Answer
  <2>4. CASE cmd = "RDY"
    BY <1>3, <2>4 DEF Answer
  <2>5. CASE cmd = "PUB"
    BY <1>3, <2>5 DEF Answer
  <2>6. CASE cmd \notin {"IDENTIFY", "AUTH", "SUB", "RDY", "PUB"}
    BY <1>3, <2>6 DEF Answer
  <2> QED
    BY <2>1, <2>2, <2>3, <2>4, <2>5, <2>6
<1> QED
  BY <1>1, <1>2, <1>3 DEF TypeOK, ConnTypes, LoopTypes, UserTypes, PeerTypes

\* And to a command that comes too late.
LEMMA TooLateTypes ==
    ASSUME NEW cmd, NEW a \in TooLate(cmd)
    PROVE  /\ a.reply = <<"ERR">> /\ a.to = phase /\ phase = "ready"
           /\ cmd \in {"FIN", "TOUCH"}
BY DEF TooLate

\* What the loop says in each state.
LEMMA GreetingTypes ==
    ASSUME TypeOK
    PROVE  LET g == IF tls = "on" THEN TlsGreeting(state) ELSE Greeting(state)
           IN  /\ g.cmd \in {<<>>, <<"IDENTIFY">>, <<"AUTH">>, <<"SUB">>, <<"RDY">>}
               /\ g.to \in States /\ g.wait \in BOOLEAN
<1>1. CASE state = "Identify"
  BY <1>1 DEF Greeting, TlsGreeting, States
<1>2. CASE state = "Auth"
  BY <1>2 DEF Greeting, TlsGreeting, States
<1>3. CASE state = "Subscribe"
  BY <1>3 DEF Greeting, TlsGreeting, States, TypeOK, ConnTypes, LoopTypes, UserTypes, PeerTypes
<1>4. CASE state = "Rdy"
  BY <1>4 DEF Greeting, TlsGreeting, States
<1>5. CASE state \in {"Tls", "Started"}
  BY <1>5 DEF Greeting, TlsGreeting, States, TypeOK, ConnTypes, LoopTypes, UserTypes, PeerTypes
<1> QED
  BY <1>1, <1>2, <1>3, <1>4, <1>5 DEF TypeOK, ConnTypes, LoopTypes, UserTypes, PeerTypes, States

\* Every step keeps the types.
LEMMA TypeStep == TypeOK /\ Gone /\ [Next]_vars => TypeOK' /\ Gone'
<1> SUFFICES ASSUME TypeOK, Gone, [Next]_vars PROVE TypeOK' /\ Gone'
  OBVIOUS
<1>0. ConnTypes /\ LoopTypes /\ UserTypes /\ PeerTypes
  BY DEF TypeOK
<1>a. UNCHANGED connVars => ConnTypes'
  BY <1>0 DEF ConnTypes, connVars
<1>b. UNCHANGED <<tls, interest, armed, batch, late, endVars>> => LoopTypes'
  BY <1>0 DEF LoopTypes, endVars
<1>c. UNCHANGED <<userVars, delivered>> => UserTypes'
  BY <1>0 DEF UserTypes, userVars
<1>d. UNCHANGED netVars => PeerTypes' /\ Gone'
  BY <1>0 DEF PeerTypes, netVars, peerVars, Gone
<1>e. \A rs \in Seq(Frames) : Rest(rs) \in Seq(Frames)
  BY DEF Rest
<1>1. CASE Poll
  <2>1. LoopTypes'
    <3>1. batch' \subseteq Tokens
      BY <1>1 DEF Poll, Ready
    <3>2. armed' \in BOOLEAN /\ pilled' \in BOOLEAN
      BY <1>1 DEF Poll
    <3> QED
      BY <1>0, <1>1, <3>1, <3>2 DEF Poll, LoopTypes
  <2>2. UserTypes'
    BY <1>0, <1>1 DEF Poll, UserTypes
  <2> QED
    BY <1>1, <1>a, <1>d, <2>1, <2>2 DEF Poll, TypeOK
<1>2. ASSUME NEW n \in 0..Len(inbox), ReadStarted(n) PROVE TypeOK' /\ Gone'
  <2>1. TakeFrames(n)
    BY <1>2 DEF ReadStarted
  <2>2. ConnTypes'
    BY <1>0, <1>2, <2>1, TakeFramesTypes DEF ReadStarted, TakeFrames, ConnTypes
  <2>3. LoopTypes'
    BY <1>0, <1>2, <2>1 DEF ReadStarted, TakeFrames, AfterRead, Reregister, LoopTypes
  <2>4. UserTypes'
    BY <1>0, <2>1, TakeFramesTypes DEF TakeFrames, UserTypes, userVars
  <2>5. PeerTypes' /\ Gone'
    BY <1>0, <2>1, TakeFramesTypes DEF TakeFrames, PeerTypes, Gone, peerVars
  <2> QED
    BY <2>2, <2>3, <2>4, <2>5 DEF TypeOK
<1>3. ASSUME NEW n \in 0..Len(inbox), ReadAnswer(n) PROVE TypeOK' /\ Gone'
  <2>1. TakeFrames(n)
    BY <1>3 DEF ReadAnswer
  <2>2. ConnTypes'
    <3>1. responses' \in Seq(Frames)
      BY <1>3, <2>1, <1>e, TakeFramesTypes DEF ReadAnswer
    <3>2. state' \in States /\ need_response' = FALSE
      BY <1>3 DEF ReadAnswer
    <3> QED
      BY <1>0, <2>1, <3>1, <3>2, TakeFramesTypes DEF TakeFrames, ConnTypes
  <2>3. LoopTypes'
    BY <1>0, <1>3, <2>1 DEF ReadAnswer, TakeFrames, AfterRead, Reregister, LoopTypes
  <2>4. UserTypes'
    BY <1>0, <2>1, TakeFramesTypes DEF TakeFrames, UserTypes, userVars
  <2>5. PeerTypes' /\ Gone'
    BY <1>0, <2>1, TakeFramesTypes DEF TakeFrames, PeerTypes, Gone, peerVars
  <2> QED
    BY <2>2, <2>3, <2>4, <2>5 DEF TypeOK
<1>4. ASSUME NEW n \in 0..Len(inbox), ReadUpgrade(n) PROVE TypeOK' /\ Gone'
  <2>1. TakeFrames(n)
    BY <1>4 DEF ReadUpgrade
  <2>2. ConnTypes'
    <3>1. responses' \in Seq(Frames)
      BY <1>4, <2>1, <1>e, TakeFramesTypes DEF ReadUpgrade
    <3> QED
      BY <1>0, <1>4, <2>1, <3>1, TakeFramesTypes DEF ReadUpgrade, TakeFrames, ConnTypes, States
  <2>3. LoopTypes'
    BY <1>0, <1>4, <2>1 DEF ReadUpgrade, TakeFrames, LoopTypes, regVars
  <2>4. UserTypes'
    BY <1>0, <2>1, TakeFramesTypes DEF TakeFrames, UserTypes, userVars
  <2>5. PeerTypes' /\ Gone'
    BY <1>0, <2>1, TakeFramesTypes DEF TakeFrames, PeerTypes, Gone, peerVars
  <2> QED
    BY <2>2, <2>3, <2>4, <2>5 DEF TypeOK
<1>5. ASSUME NEW n \in 0..Len(inbox), ReadFatal(n) PROVE TypeOK' /\ Gone'
  <2>1. TakeFrames(n)
    BY <1>5 DEF ReadFatal
  <2>2. ConnTypes'
    BY <1>0, <1>5, <2>1, TakeFramesTypes DEF ReadFatal, TakeFrames, ConnTypes
  <2>3. LoopTypes'
    BY <1>0, <1>5, <2>1 DEF ReadFatal, TakeFrames, LoopTypes, regVars
  <2>4. UserTypes'
    BY <1>0, <2>1, TakeFramesTypes DEF TakeFrames, UserTypes, userVars
  <2>5. PeerTypes' /\ Gone'
    BY <1>0, <2>1, TakeFramesTypes DEF TakeFrames, PeerTypes, Gone, peerVars
  <2> QED
    BY <2>2, <2>3, <2>4, <2>5 DEF TypeOK
<1>6. CASE ReadEof \/ ReadWouldBlock \/ ReadError \/ TlsFailure
  <2>1. LoopTypes'
    BY <1>0, <1>6 DEF ReadEof, ReadWouldBlock, ReadError, TlsFailure, Reregister, LoopTypes,
                      regVars, endVars
  <2> QED
    BY <1>6, <1>a, <1>c, <1>d, <2>1
       DEF ReadEof, ReadWouldBlock, ReadError, TlsFailure, TypeOK
<1>7. CASE WriteHandshake
  <2> DEFINE g == IF tls = "on" THEN TlsGreeting(state) ELSE Greeting(state)
  <2>1. g.cmd \in Seq(Commands) /\ g.to \in States /\ g.wait \in BOOLEAN
    <3>1. {<<>>, <<"IDENTIFY">>, <<"AUTH">>, <<"SUB">>, <<"RDY">>} \subseteq Seq(Commands)
      BY DEF Commands
    <3> HIDE DEF g
    <3> QED
      BY <3>1, GreetingTypes DEF g
  <2>2. Write(w_buf \o g.cmd) /\ state' = g.to /\ need_response' = g.wait
    BY <1>7 DEF WriteHandshake
  <2>3. wire' \in Seq(Commands) /\ w_buf' \in Seq(Commands)
    <3> HIDE DEF g
    <3>1. w_buf \o g.cmd \in Seq(Commands)
      BY <1>0, <2>1, Joined DEF ConnTypes
    <3> QED
      BY <2>2, <3>1, WriteTypes
  <2>4. LoopTypes'
    BY <1>0, <1>7 DEF WriteHandshake, Reregister, LoopTypes, endVars
  <2> HIDE DEF g
  <2>5. ConnTypes'
    BY <1>0, <1>7, <2>1, <2>2, <2>3 DEF WriteHandshake, ConnTypes
  <2>6. PeerTypes' /\ Gone'
    BY <1>0, <1>7, <2>3 DEF WriteHandshake, PeerTypes, Gone, peerVars
  <2> QED
    BY <1>7, <1>c, <2>4, <2>5, <2>6 DEF WriteHandshake, TypeOK
<1>8. CASE WriteStarted
  <2>1. Nop \in Seq(Commands) /\ WriteMessages(Nop)
    <3>1. <<>> \in Seq(Commands) /\ <<"NOP">> \in Seq(Commands)
      BY DEF Commands
    <3> QED
      BY <1>8, <3>1 DEF WriteStarted, Nop
  <2>2. /\ wire' \in Seq(Commands) /\ w_buf' \in Seq(Commands)
        /\ cmds' \in Seq(HandlerCmds) /\ in_flight' \in 0..(U32 - 1)
        /\ outcome' \in {outcome, "panicked"}
    BY <2>1, WriteMessagesTypes
  <2>3. ConnTypes'
    BY <1>0, <1>8, <2>2 DEF WriteStarted, ConnTypes
  <2>4. LoopTypes'
    <3>1. late' \in BOOLEAN /\ interest' = "readable" /\ armed' = TRUE
      BY <1>0, <1>8 DEF WriteStarted, Reregister, StillLate, ConnTypes, LoopTypes
    <3> QED
      BY <1>0, <1>8, <2>2, <3>1 DEF WriteStarted, LoopTypes
  <2>5. UserTypes'
    BY <1>0, <1>8, <2>2 DEF WriteStarted, UserTypes
  <2>6. PeerTypes' /\ Gone'
    BY <1>0, <1>8, <2>2 DEF WriteStarted, PeerTypes, Gone, peerVars
  <2> QED
    BY <2>3, <2>4, <2>5, <2>6 DEF TypeOK
<1>9. CASE ClientEvent
  <2>1. <<>> \in Seq(Commands) /\ WriteMessages(<<>>)
    BY <1>9 DEF ClientEvent
  <2>2. /\ wire' \in Seq(Commands) /\ w_buf' \in Seq(Commands)
        /\ cmds' \in Seq(HandlerCmds) /\ in_flight' \in 0..(U32 - 1)
        /\ outcome' \in {outcome, "panicked"}
    BY <2>1, WriteMessagesTypes
  <2>3. ConnTypes'
    BY <1>0, <1>9, <2>2 DEF ClientEvent, ConnTypes
  <2>4. LoopTypes'
    BY <1>0, <1>9, <2>2 DEF ClientEvent, LoopTypes, regVars
  <2>5. UserTypes'
    BY <1>0, <1>9, <2>2 DEF ClientEvent, UserTypes
  <2>6. PeerTypes' /\ Gone'
    BY <1>0, <1>9, <2>2 DEF ClientEvent, PeerTypes, Gone, peerVars
  <2> QED
    BY <2>3, <2>4, <2>5, <2>6 DEF TypeOK
<1>10. CASE CmdEvent
  <2>1. LoopTypes'
    <3>1. pilled' \in {pilled, TRUE} /\ outcome' \in {outcome, "returned"} /\ batch' \subseteq batch
      BY <1>10 DEF CmdEvent, Closed
    <3> QED
      BY <1>0, <1>10, <3>1 DEF CmdEvent, LoopTypes, regVars
  <2>2. UserTypes'
    BY <1>0, <1>10 DEF CmdEvent, UserTypes
  <2> QED
    BY <1>10, <1>a, <1>d, <2>1, <2>2 DEF CmdEvent, TypeOK
<1>11. CASE TlsHandshake
  <2>1. LoopTypes'
    BY <1>0, <1>11 DEF TlsHandshake, Reregister, LoopTypes, endVars
  <2>2. PeerTypes' /\ Gone'
    BY <1>0, <1>11 DEF TlsHandshake, PeerTypes, Gone, Frames
  <2> QED
    BY <1>11, <1>a, <1>c, <2>1, <2>2 DEF TlsHandshake, TypeOK
<1>12. ASSUME NEW cmd \in HandlerCmds, HandlerSend(cmd) PROVE TypeOK' /\ Gone'
  <2>1. UserTypes'
    <3>1. cmds' \in Seq(HandlerCmds) /\ finished' \in Nat /\ extra' \in Nat
          /\ signals' \in Nat
      BY <1>0, <1>12 DEF HandlerSend, UserTypes
    <3> QED
      BY <1>0, <1>12, <3>1 DEF HandlerSend, UserTypes
  <2> QED
    BY <1>12, <1>a, <1>b, <1>d, <2>1 DEF HandlerSend, TypeOK, regVars
<1>13. CASE UserClose \/ Sentinel
  <2>1. UserTypes'
    <3>1. CASE UserClose
      BY <1>0, <3>1 DEF UserClose, UserTypes
    <3>2. CASE Sentinel
      <4>1. signals' \in Nat
        BY <1>0, <3>2 DEF Sentinel, UserTypes
      <4> QED
        BY <1>0, <3>2, <4>1 DEF Sentinel, UserTypes
    <3> QED
      BY <1>13, <3>1, <3>2
  <2> QED
    BY <1>13, <1>a, <1>b, <1>d, <2>1 DEF UserClose, Sentinel, TypeOK, regVars
<1>14. CASE NsqdAnswer
  <2> DEFINE cmd == wire[seen + 1]
  <2>2. PICK a \in {Answer(cmd)} \cup TooLate(cmd) :
          /\ inbox' = inbox \o a.reply /\ phase' = a.to
          /\ peer' = IF a.to = "gone" THEN "eof" ELSE peer
    BY <1>14 DEF NsqdAnswer
  <2>1. a.reply \in Seq(Frames)
        /\ a.to \in {"init", "tls", "authed", "sub", "ready", "gone"}
    <3>1. phase # "gone"
      BY <1>14 DEF NsqdAnswer, Gone, Lost
    <3>2. {<<>>, <<"CONFIG">>, <<"OK">>, <<"ERR">>} \subseteq Seq(Frames)
      BY DEF Frames
    <3> HIDE DEF cmd
    <3> QED
      BY <2>2, <3>1, <3>2, AnswerTypes, TooLateTypes
  <2>3. inbox' \in Seq(Frames)
    BY <1>0, <2>1, <2>2, Joined DEF PeerTypes
  <2>4. PeerTypes' /\ Gone'
    BY <1>0, <1>14, <2>1, <2>2, <2>3 DEF NsqdAnswer, PeerTypes, Gone, Lost
  <2>5. LoopTypes'
    BY <1>0, <1>14 DEF NsqdAnswer, LoopTypes, ownVars, endVars
  <2> QED
    BY <1>14, <1>a, <1>c, <2>4, <2>5 DEF NsqdAnswer, TypeOK, ownVars
<1>15. CASE NsqdMessage \/ NsqdHeartbeat
  <2>1. inbox' \in Seq(Frames) /\ msgs' \in Nat /\ beats' \in Nat
    <3>1. Append(inbox, "MSG") \in Seq(Frames) /\ Append(inbox, "HEARTBEAT") \in Seq(Frames)
      BY <1>0 DEF PeerTypes, Frames
    <3> QED
      <4>1. CASE NsqdMessage
        BY <1>0, <3>1, <4>1, SMTT(30) DEF NsqdMessage, PeerTypes
      <4>2. CASE NsqdHeartbeat
        BY <1>0, <3>1, <4>2, SMTT(30) DEF NsqdHeartbeat, PeerTypes
      <4> QED
        BY <1>15, <4>1, <4>2
  <2>2. PeerTypes' /\ Gone'
    BY <1>0, <1>15, <2>1 DEF NsqdMessage, NsqdHeartbeat, PeerTypes, Gone
  <2>3. LoopTypes'
    BY <1>0, <1>15 DEF NsqdMessage, NsqdHeartbeat, LoopTypes, ownVars, endVars
  <2> QED
    BY <1>15, <1>a, <1>c, <2>2, <2>3 DEF NsqdMessage, NsqdHeartbeat, TypeOK, ownVars
<1>16. CASE Connected \/ PeerFails
  <2>1. PeerTypes' /\ Gone'
    BY <1>0, <1>16 DEF Connected, PeerFails, PeerTypes, Gone, Lost
  <2>2. LoopTypes'
    BY <1>0, <1>16 DEF Connected, PeerFails, LoopTypes, ownVars, endVars
  <2> QED
    BY <1>16, <1>a, <1>c, <2>1, <2>2 DEF Connected, PeerFails, TypeOK, ownVars
<1>17. CASE Elapse
  <2>0. late' = TRUE /\ UNCHANGED <<ownVars, armed, netVars>>
    BY <1>17 DEF Elapse
  <2>1. LoopTypes'
    <3>1. late' = TRUE /\ UNCHANGED <<tls, interest, armed, batch, endVars>>
      BY <2>0 DEF ownVars
    <3> QED
      BY <1>0, <3>1 DEF LoopTypes, endVars
  <2>2. UNCHANGED connVars /\ UNCHANGED <<userVars, delivered>> /\ UNCHANGED netVars
    BY <2>0 DEF ownVars
  <2> QED
    BY <1>a, <1>c, <1>d, <2>1, <2>2 DEF TypeOK
<1>18. CASE UNCHANGED vars
  BY <1>18, <1>a, <1>b, <1>c, <1>d DEF vars, TypeOK, ownVars
<1> QED
  BY <1>1, <1>2, <1>3, <1>4, <1>5, <1>6, <1>7, <1>8, <1>9, <1>10, <1>11, <1>12, <1>13,
     <1>14, <1>15, <1>16, <1>17, <1>18
     DEF Next, LoopNext, EnvNext, Read

\* Each variable keeps its type whatever the clients, the servers and the faults:
\* no read, write or event of run() takes the Conn out of its types.
THEOREM TypeCorrect == Spec => [](TypeOK /\ Gone)
<1>1. Init => TypeOK /\ Gone
  <2> SUFFICES ASSUME Init PROVE TypeOK /\ Gone
    OBVIOUS
  <2>1. ConnTypes
    <3>1. 0 \in 0..(U32 - 1) /\ w_buf \in Seq(Commands) /\ responses \in Seq(Frames)
      BY EventLoopAssumption DEF Init, Commands
    <3> QED
      BY <3>1, Zenon DEF Init, ConnTypes, States
  <2>2. LoopTypes
    BY Zenon DEF Init, LoopTypes
  <2>3. UserTypes
    <3>1. 0 \in Nat /\ <<>> \in Seq(HandlerCmds)
      OBVIOUS
    <3> QED
      BY <3>1, Zenon DEF Init, UserTypes
  <2>4. PeerTypes /\ Gone
    BY DEF Init, PeerTypes, Gone
  <2> QED
    BY <2>1, <2>2, <2>3, <2>4 DEF TypeOK
<1> QED
  BY <1>1, TypeStep, PTL DEF Spec

-----------------------------------------------------------------------------
(* What is never said *)

Without(s, c) == \A i \in 1..Len(s) : s[i] # c

\* Saying one thing after another.
LEMMA WithoutJoined ==
    ASSUME NEW c, NEW s \in Seq(Commands), NEW t \in Seq(Commands), Without(s, c), Without(t, c)
    PROVE  Without(s \o t, c)
<1> SUFFICES ASSUME NEW i \in 1..Len(s \o t) PROVE (s \o t)[i] # c
  BY DEF Without
<1>1. CASE i \in 1..Len(s)
  BY <1>1, Joined DEF Without
<1>2. CASE i \notin 1..Len(s)
  <2>1. i - Len(s) \in 1..Len(t) /\ Len(s) + (i - Len(s)) = i
    BY <1>2, Joined
  <2>2. (s \o t)[Len(s) + (i - Len(s))] = t[i - Len(s)]
    BY <2>1, Joined
  <2> QED
    BY <2>1, <2>2 DEF Without
<1> QED
  BY <1>1, <1>2

\* write_messages says nothing but nop and what the handlers queued.
LEMMA WithoutMessages ==
    ASSUME TypeOK, NEW c \in {"SUB", "NOP"}, NEW nop \in Seq(Commands), Without(nop, c),
           WriteMessages(nop), Without(wire, c), Without(w_buf, c)
    PROVE  Without(wire', c) /\ Without(w_buf', c)
<1>1. Sent \in Seq(Commands) /\ Without(Sent, c) /\ w_buf \in Seq(Commands) /\ wire \in Seq(Commands)
  <2>1. HandlerCmds \subseteq Commands /\ c \notin HandlerCmds
    BY EventLoopAssumption DEF Commands
  <2>2. Sent \in Seq(HandlerCmds)
    BY SentTypes
  <2> QED
    BY <2>1, <2>2 DEF TypeOK, ConnTypes, PeerTypes, Without
<1>2. w_buf \o nop \in Seq(Commands) /\ Without(w_buf \o nop, c)
  BY <1>1, WithoutJoined, Joined
<1>3. w_buf \o nop \o Sent \in Seq(Commands) /\ Without(w_buf \o nop \o Sent, c)
  BY <1>1, <1>2, WithoutJoined, Joined
<1>4. Without(wire \o (w_buf \o nop \o Sent), c)
  BY <1>1, <1>3, WithoutJoined
<1>5. Without(<<>>, c)
  BY DEF Without
<1>6. CASE nop \o cmds = <<>>
  BY <1>6 DEF WriteMessages
<1>7. CASE nop \o cmds # <<>>
  <2>1. Write(w_buf \o nop \o Sent)
    BY <1>7 DEF WriteMessages, Sent
  <2> QED
    BY <1>4, <1>5, <2>1 DEF Write
<1> QED
  BY <1>6, <1>7

\* What it says has left w_buf.
LEMMA MessagesLeave ==
    ASSUME NEW nop, WriteMessages(nop)
    PROVE  w_buf' \in {w_buf, <<>>}
BY DEF WriteMessages, Write

-----------------------------------------------------------------------------
(* The control of the loop *)

\* The socket is registered for reading exactly when an answer is due or the
\* handshake is over, and an answer is due in no other state.
Turns ==
    /\ need_response => state \in {"Identify", "Tls", "Auth", "Subscribe"} /\ interest = "readable"
    /\ interest = "readable" => need_response \/ state = "Started"

\* TLS is negotiated in state Tls and in no other, nothing is dispatched
\* meanwhile, and the TLS loop has the states that follow.
Secured ==
    /\ state = "Tls" => need_response /\ tls # "off"
    /\ state = "Identify" => tls = "off"
    /\ tls = "upgrading" => state = "Tls" /\ batch = {}
    /\ tls # "off" => tls_v1
    /\ tls_v1 /\ state # "Identify" => tls # "off"
    /\ state = "Auth" => auth_required

\* Nothing happens before the connection is made.
Unconnected ==
    peer = "connecting" =>
        /\ "CONNECTION" \notin batch /\ state = "Identify" /\ ~need_response
        /\ interest = "writable"
        /\ wire = <<>> /\ seen = 0 /\ inbox = <<>> /\ phase = "new"

\* The last heartbeat is old only if the peer is lost, heartbeats are rare, or none
\* was answered; no answer is kept back.
Lateness ==
    /\ late => peer \in Lost \/ ~Punctual \/ ~Settled
    /\ Without(w_buf, "NOP")

Control == Turns /\ Secured /\ Unconnected /\ Lateness

\* A heartbeat has been answered if NOP is on the wire.
LEMMA SettledSays == Settled <=> ~Without(wire, "NOP")
BY DEF Settled, Without

\* The client and the server are the same throughout.
LEMMA SetupFixed == [Next]_vars => setup' = setup
BY DEF Next, LoopNext, EnvNext, Poll, Read, ReadStarted, ReadAnswer, ReadUpgrade, ReadFatal,
       TakeFrames, ReadEof, ReadWouldBlock, ReadError, WriteHandshake, WriteStarted,
       ClientEvent, CmdEvent, TlsHandshake, TlsFailure, HandlerSend, Sentinel, UserClose, NsqdAnswer,
       NsqdMessage, NsqdHeartbeat, Connected, PeerFails, Elapse, vars, netVars, peerVars

\* So is what is read off them.
LEMMA SetupFacts ==
    [Next]_vars => /\ setup' = setup /\ tls_v1' = tls_v1 /\ auth_required' = auth_required
                   /\ Punctual' = Punctual
<1> SUFFICES ASSUME setup' = setup
             PROVE  tls_v1' = tls_v1 /\ auth_required' = auth_required /\ Punctual' = Punctual
  BY SetupFixed
<1>1. tls_v1' = tls_v1 /\ auth_required' = auth_required
  BY DEF tls_v1, auth_required
<1>2. Punctual' = Punctual
  BY DEF Punctual
<1> QED
  BY <1>1, <1>2

\* Where an answer leads, for what Secured says of it.
LEMMA AfterControl ==
    ASSUME TypeOK, Secured, NEW r, tls # "upgrading", need_response
    PROVE  /\ state = "Identify" => After(r) \in {"panicked", "exited", "Tls", "Auth", "Subscribe"}
           /\ state = "Identify" /\ After(r) = "Tls" => tls_v1
           /\ state = "Identify" /\ tls_v1 => After(r) \in {"panicked", "Tls"}
           /\ state = "Tls" => After(r) \in {"panicked", "exited", "Auth", "Subscribe"}
           /\ state = "Auth" => After(r) \in {"panicked", "Subscribe"}
           /\ state = "Subscribe" => After(r) \in {"panicked", "Rdy", "Started"}
           /\ state = "Subscribe" /\ ~setup.producer => After(r) \in {"panicked", "Rdy"}
           /\ After(r) = "Auth" => auth_required
           /\ state \in {"Identify", "Tls"} /\ After(r) = "Subscribe" => ~auth_required
BY DEF After, PlainNext, TlsNext, AuthOrSubscribe, Secured, TypeOK, LoopTypes

\* Every step keeps the control.
LEMMA ControlStep == TypeOK /\ Control /\ [Next]_vars => Control'
<1> SUFFICES ASSUME TypeOK, Control, [Next]_vars PROVE Control'
  OBVIOUS
<1>0. setup' = setup /\ tls_v1' = tls_v1 /\ auth_required' = auth_required /\ Punctual' = Punctual
  BY SetupFacts
<1>a. state \in States /\ need_response \in BOOLEAN /\ tls \in {"off", "upgrading", "on"}
      /\ interest \in {"readable", "writable"} /\ batch \subseteq Tokens
      /\ peer \in {"connecting", "open", "eof", "reset", "silent"}
  BY DEF TypeOK, ConnTypes, LoopTypes, PeerTypes
<1>b. Turns /\ Secured /\ Unconnected /\ Lateness
  BY DEF Control
<1>t. UNCHANGED <<state, need_response, interest>> => Turns'
  BY <1>b DEF Turns
<1>s. UNCHANGED <<state, need_response, tls, batch>> => Secured'
  BY <1>b, <1>0 DEF Secured
<1>u. UNCHANGED <<state, need_response, interest, batch, netVars>> => Unconnected'
  BY <1>b DEF Unconnected, netVars, peerVars
<1>l. late' = late /\ peer' = peer /\ wire' = wire /\ w_buf' = w_buf => Lateness'
  BY <1>b, <1>0 DEF Lateness, Settled
<1>w. ASSUME w_buf' = <<>> \/ w_buf' = w_buf, peer' = peer, late' => late,
             Without(wire, "NOP") => Without(wire', "NOP")
      PROVE  Lateness'
  <2>1. Settled' <=> ~Without(wire', "NOP")
    BY DEF Settled, Without
  <2>2. Without(w_buf', "NOP")
    BY <1>b, <1>w DEF Lateness, Without
  <2> QED
    BY <1>b, <1>0, <1>w, <2>1, <2>2, SettledSays DEF Lateness
<1>m. ASSUME WriteMessages(<<>>), peer' = peer, late' => late PROVE Lateness'
  <2>1. <<>> \in Seq(Commands) /\ Without(<<>>, "NOP")
    BY DEF Without
  <2>2. Without(wire, "NOP") => Without(wire', "NOP")
    BY <1>b, <1>m, <2>1, WithoutMessages DEF Lateness
  <2> QED
    BY <1>m, <1>w, <2>2, MessagesLeave
<1>1. CASE Poll
  <2>1. Secured'
    BY <1>1, <1>b, <1>0 DEF Poll, Secured, connVars
  <2>2. Unconnected'
    <3>1. peer = "connecting" => "CONNECTION" \notin Ready
      BY <1>b DEF Ready, SocketReady, Unconnected
    <3> QED
      BY <1>1, <1>b, <3>1 DEF Poll, Unconnected, connVars, netVars, peerVars
  <2> QED
    BY <1>1, <1>t, <1>l, <2>1, <2>2 DEF Poll, Control, connVars, netVars, peerVars
<1>2. ASSUME NEW n \in 0..Len(inbox), ReadStarted(n) PROVE Control'
  <2>1. Dispatch("CONNECTION") /\ peer # "connecting" /\ tls # "upgrading" /\ ~need_response
    BY <1>2, <1>b DEF ReadStarted, TakeFrames, Dispatch, Unconnected, Secured, Turns
  <2>2. Turns' /\ Secured'
    BY <1>2, <1>b, <1>0, <2>1 DEF ReadStarted, AfterRead, Reregister, Turns, Secured
  <2>3. Unconnected' /\ Lateness'
    BY <1>2, <1>l, <2>1 DEF ReadStarted, TakeFrames, Unconnected, peerVars
  <2> QED
    BY <2>2, <2>3 DEF Control
<1>3. ASSUME NEW n \in 0..Len(inbox), ReadAnswer(n) PROVE Control'
  <2>1. Dispatch("CONNECTION") /\ peer # "connecting" /\ tls # "upgrading" /\ need_response
    BY <1>3, <1>b DEF ReadAnswer, TakeFrames, Dispatch, Unconnected, Secured, Turns
  <2>2. PICK r : state' = After(r) /\ ~(state = "Identify" /\ After(r) = "Tls")
                 /\ After(r) \in States
    BY <1>3 DEF ReadAnswer
  <2>3. Turns'
    BY <1>3 DEF ReadAnswer, AfterRead, Reregister, Turns
  <2>4. Secured'
    <3>1. UNCHANGED tls
      BY <1>3 DEF ReadAnswer
    <3>2. state \in {"Identify", "Tls", "Auth", "Subscribe"}
      BY <1>b, <2>1 DEF Turns
    <3>3. state' \notin {"Identify", "Tls"} /\ (state' = "Auth" => auth_required)
          /\ ~(state = "Identify" /\ tls_v1)
      BY <1>b, <2>1, <2>2, <3>2, AfterControl DEF States
    <3> QED
      BY <1>b, <1>0, <2>1, <3>1, <3>2, <3>3 DEF Secured
  <2>5. Unconnected' /\ Lateness'
    BY <1>3, <1>l, <2>1 DEF ReadAnswer, TakeFrames, Unconnected, peerVars
  <2> QED
    BY <2>3, <2>4, <2>5 DEF Control
<1>4. ASSUME NEW n \in 0..Len(inbox), ReadUpgrade(n) PROVE Control'
  <2>1. Dispatch("CONNECTION") /\ peer # "connecting" /\ tls # "upgrading" /\ need_response
    BY <1>4, <1>b DEF ReadUpgrade, TakeFrames, Dispatch, Unconnected, Secured, Turns
  <2>2. tls_v1
    BY <1>4, <1>b, <2>1, AfterControl DEF ReadUpgrade
  <2>3. Turns'
    BY <1>4, <1>b, <2>1 DEF ReadUpgrade, Turns, regVars
  <2>4. Secured'
    BY <1>4, <1>0, <2>1, <2>2 DEF ReadUpgrade, Secured
  <2>5. Unconnected' /\ Lateness'
    BY <1>4, <1>l, <2>1 DEF ReadUpgrade, TakeFrames, Unconnected, peerVars
  <2> QED
    BY <2>3, <2>4, <2>5 DEF Control
<1>5. ASSUME NEW n \in 0..Len(inbox), ReadFatal(n) PROVE Control'
  <2>1. peer # "connecting"
    BY <1>5, <1>b DEF ReadFatal, TakeFrames, Dispatch, Unconnected
  <2>2. Unconnected'
    BY <1>5, <2>1 DEF ReadFatal, TakeFrames, Unconnected, peerVars
  <2> QED
    BY <1>5, <1>t, <1>s, <1>l, <2>2 DEF ReadFatal, TakeFrames, Control, regVars, peerVars
<1>6. CASE ReadEof
  <2>1. peer = "eof" /\ interest = "readable" /\ interest' = "readable"
    BY <1>6 DEF ReadEof, Reregister, regVars
  <2>2. Secured'
    BY <1>6, <1>b, <1>0 DEF ReadEof, Secured, connVars
  <2>3. Unconnected'
    BY <1>6, <2>1 DEF ReadEof, Unconnected, netVars, peerVars
  <2> QED
    BY <1>6, <1>t, <1>l, <2>1, <2>2, <2>3 DEF ReadEof, Control, connVars, netVars, peerVars
<1>7. CASE ReadWouldBlock
  <2>1. Secured'
    BY <1>7, <1>b, <1>0 DEF ReadWouldBlock, Secured, connVars
  <2>2. Unconnected'
    BY <1>7, <1>b DEF ReadWouldBlock, Unconnected, netVars, peerVars
  <2> QED
    BY <1>7, <1>t, <1>l, <2>1, <2>2 DEF ReadWouldBlock, Control, connVars, netVars, peerVars
<1>8. CASE ReadError \/ TlsFailure \/ UserClose \/ Sentinel \/ \E cmd \in HandlerCmds : HandlerSend(cmd)
  <2>1. UNCHANGED <<connVars, tls, regVars, batch, late, netVars>>
    BY <1>8 DEF ReadError, TlsFailure, UserClose, Sentinel, HandlerSend
  <2> QED
    BY <1>t, <1>s, <1>u, <1>l, <2>1 DEF Control, connVars, regVars, netVars, peerVars
<1>9. CASE WriteHandshake
  <2> DEFINE g == IF tls = "on" THEN TlsGreeting(state) ELSE Greeting(state)
  <2>1. Dispatch("CONNECTION") /\ interest = "writable" /\ state # "Started"
    BY <1>9 DEF WriteHandshake
  <2>2. ~need_response /\ tls # "upgrading" /\ state # "Tls" /\ peer # "connecting"
    BY <1>b, <2>1 DEF Dispatch, Turns, Secured, Unconnected
  <2>3. state' = g.to /\ need_response' = g.wait
        /\ interest' = IF g.wait THEN "readable" ELSE "writable"
    BY <1>9 DEF WriteHandshake, Reregister
  <2>8. tls' = tls /\ late' = late /\ peer' = peer
    BY <1>9 DEF WriteHandshake, peerVars
  <2>4. /\ g.wait \in BOOLEAN
        /\ g.wait => g.to = state /\ state \in {"Identify", "Auth", "Subscribe"}
        /\ ~g.wait => g.to = "Started" /\ state # "Identify"
    <3>1. CASE state = "Identify"
      BY <3>1, <2>2 DEF Greeting, TlsGreeting
    <3>2. CASE state = "Auth"
      BY <3>2, <2>2 DEF Greeting, TlsGreeting
    <3>3. CASE state = "Subscribe"
      <4>1. CASE tls = "on" /\ setup.producer
        <5>1. g = [cmd |-> <<>>, to |-> "Started", wait |-> need_response]
          BY <3>3, <4>1 DEF TlsGreeting
        <5>2. g.wait = need_response /\ g.to = "Started"
          <6> HIDE DEF g
          <6> QED
            BY <5>1
        <5> HIDE DEF g
        <5> QED
          BY <1>a, <2>2, <3>3, <5>2, Zenon
      <4>2. CASE ~(tls = "on" /\ setup.producer)
        BY <3>3, <4>2 DEF Greeting, TlsGreeting
      <4> QED
        BY <4>1, <4>2
    <3>4. CASE state = "Rdy"
      BY <3>4, <2>2 DEF Greeting, TlsGreeting
    <3> QED
      BY <1>a, <2>1, <2>2, <3>1, <3>2, <3>3, <3>4 DEF States
  <2>9. g.cmd \in Seq(Commands) /\ Without(g.cmd, "NOP")
    <3>1. ASSUME NEW c \in Commands \ {"NOP"}
          PROVE  <<c>> \in Seq(Commands) /\ Without(<<c>>, "NOP")
      BY <3>1 DEF Without
    <3>2. <<>> \in Seq(Commands) /\ Without(<<>>, "NOP")
      BY DEF Without
    <3>3. {"IDENTIFY", "AUTH", "SUB", "RDY"} \subseteq Commands \ {"NOP"}
      BY DEF Commands
    <3> HIDE DEF g
    <3> QED
      BY <3>1, <3>2, <3>3, GreetingTypes DEF g
  <2>10. Write(w_buf \o g.cmd)
    BY <1>9 DEF WriteHandshake
  <2> HIDE DEF g
  <2>5. Turns'
    BY <2>3, <2>4 DEF Turns
  <2>6. Secured'
    <3>1. state' # "Tls" /\ (state' = "Identify" <=> state = "Identify")
          /\ (state' = "Auth" => state = "Auth")
      BY <2>2, <2>3, <2>4
    <3> QED
      BY <1>b, <1>0, <2>2, <2>8, <3>1 DEF Secured
  <2>7. Unconnected'
    BY <2>2, <2>8 DEF Unconnected
  <2>11. Lateness'
    <3>1. w_buf \in Seq(Commands) /\ wire \in Seq(Commands) /\ Without(w_buf, "NOP")
      BY <1>b DEF TypeOK, ConnTypes, PeerTypes, Lateness
    <3>2. w_buf \o g.cmd \in Seq(Commands) /\ Without(w_buf \o g.cmd, "NOP")
      BY <2>9, <3>1, WithoutJoined, Joined
    <3>3. Without(wire, "NOP") => Without(wire \o (w_buf \o g.cmd), "NOP")
      BY <3>1, <3>2, WithoutJoined
    <3> QED
      BY <1>w, <2>8, <2>10, <3>3 DEF Write
  <2> QED
    BY <2>5, <2>6, <2>7, <2>11 DEF Control
<1>10. CASE WriteStarted
  <2>1. Dispatch("CONNECTION") /\ state = "Started" /\ peer # "connecting"
    BY <1>10, <1>b DEF WriteStarted, Unconnected
  <2>2. Turns' /\ Secured'
    BY <1>10, <1>b, <1>0, <2>1 DEF WriteStarted, Reregister, Turns, Secured, Dispatch
  <2>3. Unconnected'
    BY <1>10, <2>1 DEF WriteStarted, Unconnected, peerVars
  <2>4. Lateness'
    <3>1. CASE heartbeat
      <4>1. late' = FALSE /\ w_buf' \in {w_buf, <<>>}
        BY <1>10, <3>1, MessagesLeave DEF WriteStarted, StillLate
      <4> QED
        BY <1>b, <4>1 DEF Lateness, Without
    <3>2. CASE ~heartbeat
      BY <1>10, <1>m, <3>2 DEF WriteStarted, StillLate, Nop, peerVars
    <3> QED
      BY <3>1, <3>2
  <2> QED
    BY <2>2, <2>3, <2>4 DEF Control
<1>11. CASE ClientEvent
  <2>1. Secured'
    BY <1>11, <1>b, <1>0 DEF ClientEvent, Dispatch, Secured
  <2>2. Unconnected'
    <3>1. peer = "connecting" => wire' = wire
      BY <1>11 DEF ClientEvent, WriteMessages, Write
    <3> QED
      BY <1>11, <1>b, <3>1 DEF ClientEvent, Unconnected, peerVars, regVars
  <2> QED
    BY <1>11, <1>t, <1>m, <2>1, <2>2 DEF ClientEvent, Control, peerVars, regVars
<1>12. CASE CmdEvent
  <2>1. Secured'
    BY <1>12, <1>b, <1>0 DEF CmdEvent, Dispatch, Secured, connVars
  <2>2. Unconnected'
    BY <1>12, <1>b DEF CmdEvent, Unconnected, connVars, netVars, peerVars, regVars
  <2> QED
    BY <1>12, <1>t, <1>l, <2>1, <2>2 DEF CmdEvent, Control, connVars, netVars, peerVars, regVars
<1>13. CASE TlsHandshake
  <2>1. Turns' /\ Secured' /\ Unconnected'
    BY <1>13, <1>b, <1>0 DEF TlsHandshake, Reregister, Turns, Secured, Unconnected, connVars
  <2> QED
    BY <1>13, <1>l, <2>1 DEF TlsHandshake, Control, connVars
<1>14. CASE NsqdAnswer \/ NsqdMessage \/ NsqdHeartbeat
  <2>1. UNCHANGED <<connVars, tls, interest, batch, late>> /\ peer' # "connecting"
        /\ (peer \in Lost => peer' \in Lost) /\ wire' = wire
    BY <1>14 DEF NsqdAnswer, NsqdMessage, NsqdHeartbeat, ownVars, Lost
  <2>2. Unconnected' /\ Lateness'
    BY <1>b, <1>0, <2>1 DEF Unconnected, Lateness, Settled, connVars
  <2> QED
    BY <1>t, <1>s, <2>1, <2>2 DEF Control, connVars
<1>15. CASE Connected \/ PeerFails
  <2>1. UNCHANGED <<connVars, tls, interest, batch, late>> /\ peer' # "connecting"
        /\ (peer \in Lost => peer' \in Lost) /\ wire' = wire
    BY <1>15 DEF Connected, PeerFails, ownVars, Lost
  <2>2. Unconnected' /\ Lateness'
    BY <1>b, <1>0, <2>1 DEF Unconnected, Lateness, Settled, connVars
  <2> QED
    BY <1>t, <1>s, <2>1, <2>2 DEF Control, connVars
<1>16. CASE Elapse
  <2>1. UNCHANGED <<connVars, tls, interest, batch, netVars>>
    BY <1>16 DEF Elapse, ownVars
  <2>2. Lateness'
    BY <1>16, <1>0, <1>b, <2>1 DEF Elapse, Lateness, Settled, netVars, peerVars, connVars
  <2> QED
    BY <1>t, <1>s, <1>u, <2>1, <2>2 DEF Control, connVars
<1>17. CASE UNCHANGED vars
  BY <1>17, <1>t, <1>s, <1>u, <1>l DEF vars, ownVars, connVars, netVars, peerVars, Control
<1> QED
  BY <1>1, <1>2, <1>3, <1>4, <1>5, <1>6, <1>7, <1>8, <1>9, <1>10, <1>11, <1>12, <1>13,
     <1>14, <1>15, <1>16, <1>17
     DEF Next, LoopNext, EnvNext, Read

\* The initial states have it.
LEMMA ControlInit == Init => Control
BY DEF Init, Control, Turns, Secured, Unconnected, Lateness, Without

\* The loop of run() reads only when an answer is due or the handshake is over,
\* leaves the socket alone while TLS is negotiated, and once it has answered a
\* heartbeat believes the last one lost only when it is or when they are rare.
THEOREM ControlCorrect == Spec => [](TypeOK /\ Gone /\ Control)
<1>1. Init => Control
  BY ControlInit
<1>2. TypeOK /\ Gone /\ Control /\ [Next]_vars => Control'
  BY ControlStep
<1> QED
  BY <1>1, <1>2, TypeCorrect, PTL DEF Spec

-----------------------------------------------------------------------------
(* The closed event *)

\* A step of the loop is taken while run() runs, and a lost peer stays lost.
LEMMA EndStays ==
    ASSUME [Next]_vars
    PROVE  /\ outcome = "returned" => outcome' = "returned"
           /\ peer \in Lost => peer' \in Lost
<1>1. outcome = "returned" => outcome' = "returned"
  BY DEF Next, LoopNext, EnvNext, Poll, Read, ReadStarted, ReadAnswer, ReadUpgrade, ReadFatal,
         TakeFrames, ReadEof, ReadWouldBlock, ReadError, WriteHandshake, WriteStarted,
         ClientEvent, CmdEvent, TlsHandshake, TlsFailure, HandlerSend, Sentinel, UserClose, NsqdAnswer,
         NsqdMessage, NsqdHeartbeat, Connected, PeerFails, Elapse, vars, ownVars, endVars,
         Dispatch
<1>2. peer \in Lost => peer' \in Lost
  BY DEF Next, LoopNext, EnvNext, Poll, Read, ReadStarted, ReadAnswer, ReadUpgrade, ReadFatal,
         TakeFrames, ReadEof, ReadWouldBlock, ReadError, WriteHandshake, WriteStarted,
         ClientEvent, CmdEvent, TlsHandshake, TlsFailure, HandlerSend, Sentinel, UserClose, NsqdAnswer,
         NsqdMessage, NsqdHeartbeat, Connected, PeerFails, Elapse, vars, netVars, peerVars, Lost
<1> QED
  BY <1>1, <1>2

\* Who tells the readers: the poll that finds the heartbeat lost, and a close.
LEMMA PilledBy ==
    ASSUME [Next]_vars, pilled'
    PROVE  pilled \/ late \/ outcome' = "returned"
<1>1. CASE Poll
  BY <1>1 DEF Poll, LastHeartbeatLost
<1>2. CASE CmdEvent
  BY <1>2 DEF CmdEvent, Closed
<1>3. CASE ~(Poll \/ CmdEvent)
  <2>1. UNCHANGED pilled
    BY <1>3
       DEF Next, LoopNext, EnvNext, Read, ReadStarted, ReadAnswer, ReadUpgrade, ReadFatal,
           TakeFrames, ReadEof, ReadWouldBlock, ReadError, WriteHandshake, WriteStarted,
           ClientEvent, TlsHandshake, TlsFailure, HandlerSend, Sentinel, UserClose, NsqdAnswer,
           NsqdMessage, NsqdHeartbeat, Connected, PeerFails, Elapse, vars, ownVars, endVars
  <2> QED
    BY <2>1
<1> QED
  BY <1>1, <1>2, <1>3

\* The check of last_heartbeat takes no connection for a closed one on which a
\* heartbeat was answered and heartbeats are punctual, whatever the clients and
\* the faults, and though the loop may have believed it lost before the first.
THEOREM SettledTrusted == Spec => SettledNotReported
<1>1. Control /\ [Next]_vars =>
        [Settled /\ Punctual /\ pilled' /\ ~pilled
           => outcome' = "returned" \/ peer \in Lost]_vars
  <2> SUFFICES ASSUME Control, [Next]_vars, Settled, Punctual, pilled', ~pilled
               PROVE  outcome' = "returned" \/ peer \in Lost
    OBVIOUS
  <2>1. late \/ outcome' = "returned"
    BY PilledBy
  <2> QED
    BY <2>1 DEF Control, Lateness
<1> QED
  BY <1>1, ControlCorrect, PTL DEF Spec, SettledNotReported

-----------------------------------------------------------------------------
(* Producers over TLS *)

NoSub(s) == Without(s, "SUB")

\* Neither what was written nor what is about to be.
Unsubscribed == tls_v1 /\ setup.producer => NoSub(wire) /\ NoSub(w_buf)

\* A producer (no topic, no channel) that asked for TLS and got it never
\* subscribes, however early it publishes and whatever nsqd answers: the TLS
\* loop has the state Subscribe to itself.
THEOREM TlsProducer == Spec => []TlsProducerNeverSubscribes
<1>1. Init => Unsubscribed
  BY DEF Init, Unsubscribed, NoSub, Without
<1>2. TypeOK /\ Gone /\ Control /\ Unsubscribed /\ [Next]_vars => Unsubscribed'
  <2> SUFFICES ASSUME TypeOK, Control, Unsubscribed, [Next]_vars, tls_v1', setup'.producer
               PROVE  NoSub(wire') /\ NoSub(w_buf')
    BY DEF Unsubscribed
  <2>1. tls_v1 /\ setup.producer /\ NoSub(wire) /\ NoSub(w_buf)
    <3>1. setup' = setup
      BY SetupFixed
    <3> QED
      BY <3>1 DEF tls_v1, Unsubscribed
  <2>2. wire \in Seq(Commands) /\ w_buf \in Seq(Commands)
    BY DEF TypeOK, ConnTypes, PeerTypes
  <2>3. CASE WriteHandshake
    <3> DEFINE g == IF tls = "on" THEN TlsGreeting(state) ELSE Greeting(state)
    <3>1. tls # "upgrading" /\ state # "Tls" /\ tls \in {"off", "upgrading", "on"} /\ state \in States
      BY <2>3 DEF WriteHandshake, Dispatch, Control, Turns, Secured, TypeOK, ConnTypes, LoopTypes
    <3>2. g.cmd \in {<<>>, <<"IDENTIFY">>, <<"AUTH">>, <<"RDY">>}
      <4>1. CASE state = "Subscribe"
        <5>1. tls = "on"
          BY <2>1, <3>1, <4>1 DEF Control, Secured
        <5> QED
          BY <2>1, <4>1, <5>1 DEF TlsGreeting
      <4>2. CASE state # "Subscribe"
        BY <3>1, <4>2 DEF TlsGreeting, Greeting, States
      <4> QED
        BY <4>1, <4>2
    <3>3. Write(w_buf \o g.cmd)
      BY <2>3 DEF WriteHandshake
    <3> HIDE DEF g
    <3>4. g.cmd \in Seq(Commands) /\ NoSub(g.cmd)
      <4>1. ASSUME NEW c \in Commands \ {"SUB"} PROVE <<c>> \in Seq(Commands) /\ NoSub(<<c>>)
        BY <4>1 DEF NoSub, Without
      <4>2. <<>> \in Seq(Commands) /\ NoSub(<<>>)
        BY DEF NoSub, Without
      <4>3. {"IDENTIFY", "AUTH", "RDY"} \subseteq Commands \ {"SUB"}
        BY DEF Commands
      <4> QED
        BY <3>2, <4>1, <4>2, <4>3
    <3>5. w_buf \o g.cmd \in Seq(Commands) /\ NoSub(w_buf \o g.cmd)
      BY <2>1, <2>2, <3>4, WithoutJoined, Joined DEF NoSub
    <3>6. NoSub(wire \o (w_buf \o g.cmd))
      BY <2>1, <2>2, <3>5, WithoutJoined DEF NoSub
    <3>7. NoSub(<<>>)
      BY DEF NoSub, Without
    <3> QED
      BY <2>1, <3>3, <3>6, <3>7 DEF Write
  <2>4. CASE WriteStarted
    <3>1. Nop \in Seq(Commands) /\ NoSub(Nop)
      <4>1. <<>> \in Seq(Commands) /\ NoSub(<<>>) /\ <<"NOP">> \in Seq(Commands) /\ NoSub(<<"NOP">>)
        BY DEF Commands, NoSub, Without
      <4> QED
        BY <4>1 DEF Nop
    <3> QED
      BY <2>1, <2>4, <3>1, WithoutMessages DEF WriteStarted, NoSub
  <2>5. CASE ClientEvent
    <3>1. <<>> \in Seq(Commands) /\ NoSub(<<>>)
      BY DEF NoSub, Without
    <3> QED
      BY <2>1, <2>5, <3>1, WithoutMessages DEF ClientEvent, NoSub
  <2>6. CASE ~(WriteHandshake \/ WriteStarted \/ ClientEvent)
    <3>1. UNCHANGED <<wire, w_buf>>
      BY <2>6 DEF Next, LoopNext, EnvNext, Poll, Read, ReadStarted, ReadAnswer, ReadUpgrade,
             ReadFatal, TakeFrames, ReadEof, ReadWouldBlock, ReadError, CmdEvent, TlsHandshake,
             TlsFailure, HandlerSend, Sentinel, UserClose, NsqdAnswer, NsqdMessage, NsqdHeartbeat,
             Connected, PeerFails, Elapse, vars, ownVars, connVars, netVars
    <3> QED
      BY <2>1, <3>1
  <2> QED
    BY <2>3, <2>4, <2>5, <2>6
<1>3. Unsubscribed => TlsProducerNeverSubscribes
  BY DEF Unsubscribed, TlsProducerNeverSubscribes, ProducerNeverSubscribes, NoSub, Without
<1> QED
  BY <1>1, <1>2, <1>3, ControlCorrect, PTL DEF Spec
=============================================================================
