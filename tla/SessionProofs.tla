--------------------------- MODULE SessionProofs ---------------------------
(***************************************************************************)
(* run() of a consumer that sends in on_msg only is a Session: the order   *)
(* of what it says, and the refinement, for every set of clients, servers, *)
(* faults and commands.                                                    *)
(***************************************************************************)
EXTENDS EventLoopProofs

-----------------------------------------------------------------------------
(* The invariant *)

\* What a consumer has said: what it has uttered of the Handshake, unless the
\* peer was lost before, and remarks only behind that.
Said ==
    /\ SessionOrder
    /\ w_buf = IF state = "Identify" /\ ~need_response THEN <<"MAGIC">> ELSE <<>>
    /\ state # "Started" => Len(wire) <= Uttered
    /\ peer \notin Lost => IF state = "Started" THEN Len(wire) >= Len(Handshake)
                           ELSE Len(wire) = Uttered

\* What nsqd has processed of it: all but the question that waits for its answer.
Processed ==
    /\ seen <= Len(wire)
    /\ phase = "new" <=> seen = 0
    /\ phase = "ready" => seen >= Len(Handshake)
    /\ state # "Started" /\ peer \notin Lost =>
          /\ state = "Tls" \/ ~need_response => seen = Uttered
          /\ state # "Identify" => seen >= Uttered - 1

\* What is on the way back: messages only when the client is ready for them, and
\* during the handshake one answer at most, to all that was said.
Returned ==
    /\ \A i \in 1..Len(inbox) : inbox[i] = "MSG" => seen >= Len(Handshake)
    /\ state # "Started" => \A i \in 1..Len(inbox) : IsResponse(inbox[i]) =>
          /\ need_response /\ Len(wire) = Uttered /\ seen = Uttered
          /\ \A j \in 1..Len(inbox) : IsResponse(inbox[j]) => i = j

\* During the handshake there is nothing else to do.
Idle == state # "Started" => cmds = <<>> /\ delivered = 0 /\ responses = <<>>

Dialogue == Quiet => Said /\ Processed /\ Returned /\ Idle

-----------------------------------------------------------------------------
(* The script *)

\* The Handshake, word by word.
LEMMA Words ==
    /\ Handshake \in Seq(Commands)
    /\ Len(Handshake) = IF auth_required THEN 5 ELSE 4
    /\ Handshake[1] = "MAGIC" /\ Handshake[2] = "IDENTIFY"
    /\ auth_required => Handshake[3] = "AUTH"
    /\ Handshake[Len(Handshake) - 1] = "SUB" /\ Handshake[Len(Handshake)] = "RDY"
<1> DEFINE a == <<"MAGIC", "IDENTIFY">>
           b == IF auth_required THEN <<"AUTH">> ELSE <<>>
           c == <<"SUB", "RDY">>
<1>1. a \in Seq(Commands) /\ Len(a) = 2 /\ a[1] = "MAGIC" /\ a[2] = "IDENTIFY"
  BY DEF Commands
<1>2. b \in Seq(Commands) /\ Len(b) = (IF auth_required THEN 1 ELSE 0)
      /\ (auth_required => b[1] = "AUTH")
  <2>1. <<"AUTH">> \in Seq(Commands) /\ Len(<<"AUTH">>) = 1 /\ <<"AUTH">>[1] = "AUTH"
        /\ <<>> \in Seq(Commands) /\ Len(<<>>) = 0
    BY DEF Commands
  <2>2. CASE auth_required
    BY <2>1, <2>2
  <2>3. CASE ~auth_required
    BY <2>1, <2>3
  <2> QED
    BY <2>2, <2>3
<1>3. c \in Seq(Commands) /\ Len(c) = 2 /\ c[1] = "SUB" /\ c[2] = "RDY"
  BY DEF Commands
<1>4. Handshake = (a \o b) \o c
  BY DEF Handshake
<1> HIDE DEF a, b, c
<1>5. /\ a \o b \in Seq(Commands) /\ Len(a \o b) = 2 + Len(b)
      /\ (a \o b)[1] = "MAGIC" /\ (a \o b)[2] = "IDENTIFY"
      /\ auth_required => (a \o b)[3] = "AUTH"
  <2>1. \A i \in 1..2 : (a \o b)[i] = a[i]
    <3>1. a \in Seq(Commands) /\ b \in Seq(Commands) /\ Len(a) = 2
      BY <1>1, <1>2
    <3>2. \A i \in 1..Len(a) : (a \o b)[i] = a[i]
      BY <3>1, Joined, ZenonT(60)
    <3> QED
      BY <3>1, <3>2
  <2>2. \A i \in 1..Len(b) : (a \o b)[2 + i] = b[i]
    BY <1>1, <1>2, Joined
  <2>3. a \o b \in Seq(Commands) /\ Len(a \o b) = 2 + Len(b)
    BY <1>1, <1>2, Joined
  <2> QED
    BY <1>1, <1>2, <2>1, <2>2, <2>3
<1>6. /\ Handshake \in Seq(Commands) /\ Len(Handshake) = (2 + Len(b)) + 2
      /\ \A i \in 1..(2 + Len(b)) : Handshake[i] = (a \o b)[i]
      /\ \A i \in 1..2 : Handshake[(2 + Len(b)) + i] = c[i]
  BY <1>3, <1>4, <1>5, Joined, SMTT(30)
<1>7. Len(Handshake) = IF auth_required THEN 5 ELSE 4
  BY <1>2, <1>6
<1>8. Handshake[1] = "MAGIC" /\ Handshake[2] = "IDENTIFY"
      /\ (auth_required => Handshake[3] = "AUTH")
  BY <1>2, <1>5, <1>6
<1>9. Handshake[Len(Handshake) - 1] = "SUB" /\ Handshake[Len(Handshake)] = "RDY"
  <2>1. Len(Handshake) - 1 = (2 + Len(b)) + 1 /\ Len(Handshake) = (2 + Len(b)) + 2
    BY <1>2, <1>6
  <2>2. Handshake[(2 + Len(b)) + 1] = "SUB" /\ Handshake[(2 + Len(b)) + 2] = "RDY"
    BY <1>3, <1>6
  <2> QED
    BY <2>1, <2>2
<1> QED
  BY <1>6, <1>7, <1>8, <1>9

\* How far each state is.
LEMMA Far ==
    ASSUME state \in States, state = "Auth" => auth_required
    PROVE  /\ state = "Identify" => Uttered = IF need_response THEN 2 ELSE 0
           /\ state = "Tls" => Uttered = 2
           /\ state = "Auth" => Uttered = IF need_response THEN 3 ELSE 2
           /\ state = "Subscribe" => Uttered = IF need_response THEN Len(Handshake) - 1
                                               ELSE Len(Handshake) - 2
           /\ state = "Rdy" => Uttered = Len(Handshake) - 1
           /\ state = "Started" => Uttered = Len(Handshake)
           /\ Uttered \in 0..Len(Handshake)
           /\ state # "Started" => Uttered < Len(Handshake)
<1>1. Len(Handshake) = IF auth_required THEN 5 ELSE 4
  BY Words
<1>2. CASE state = "Identify"
  BY <1>1, <1>2 DEF Uttered
<1>3. CASE state = "Tls"
  BY <1>1, <1>3 DEF Uttered
<1>4. CASE state = "Auth"
  BY <1>1, <1>4 DEF Uttered
<1>5. CASE state = "Subscribe"
  BY <1>1, <1>5 DEF Uttered
<1>6. CASE state = "Rdy"
  BY <1>1, <1>6 DEF Uttered
<1>7. CASE state = "Started"
  BY <1>1, <1>7 DEF Uttered
<1> QED
  BY <1>2, <1>3, <1>4, <1>5, <1>6, <1>7 DEF States

\* The same after a step.
LEMMA FarNext ==
    ASSUME state' \in States, state' = "Auth" => auth_required'
    PROVE  /\ state' = "Identify" => Uttered' = IF need_response' THEN 2 ELSE 0
           /\ state' = "Tls" => Uttered' = 2
           /\ state' = "Auth" => Uttered' = IF need_response' THEN 3 ELSE 2
           /\ state' = "Subscribe" => Uttered' = IF need_response' THEN Len(Handshake') - 1
                                                 ELSE Len(Handshake') - 2
           /\ state' = "Rdy" => Uttered' = Len(Handshake') - 1
           /\ state' = "Started" => Uttered' = Len(Handshake')
<1>2. CASE state' = "Identify"
  BY <1>2 DEF Uttered
<1>3. CASE state' = "Tls"
  BY <1>3 DEF Uttered
<1>4. CASE state' = "Auth"
  BY <1>4 DEF Uttered
<1>5. CASE state' = "Subscribe"
  BY <1>5 DEF Uttered
<1>6. CASE state' = "Rdy"
  BY <1>6 DEF Uttered
<1>7. CASE state' = "Started"
  BY <1>7 DEF Uttered
<1> QED
  BY <1>2, <1>3, <1>4, <1>5, <1>6, <1>7 DEF States

\* The Handshake is fixed, and Uttered changes with the state alone.
LEMMA ScriptFixed ==
    ASSUME [Next]_vars, state \in States
    PROVE  /\ Handshake' = Handshake
           /\ UNCHANGED <<state, need_response>> => Uttered' = Uttered
<1>1. Handshake' = Handshake
  BY SetupFacts DEF Handshake
<1>2. ASSUME UNCHANGED <<state, need_response>> PROVE Uttered' = Uttered
  <2>1. CASE state = "Identify"
    BY <1>2, <2>1 DEF Uttered
  <2>2. CASE state = "Tls"
    BY <1>2, <2>2 DEF Uttered
  <2>3. CASE state = "Auth"
    BY <1>2, <2>3 DEF Uttered
  <2>4. CASE state = "Subscribe"
    BY <1>1, <1>2, <2>4 DEF Uttered
  <2>5. CASE state = "Rdy"
    BY <1>1, <1>2, <2>5 DEF Uttered
  <2>6. CASE state = "Started"
    BY <1>1, <1>2, <2>6 DEF Uttered
  <2> QED
    BY <2>1, <2>2, <2>3, <2>4, <2>5, <2>6 DEF States
<1> QED
  BY <1>1, <1>2

\* Nothing is said before the loop starts.
LEMMA DialogueInit == Init => Dialogue
<1> SUFFICES ASSUME Init PROVE Said /\ Processed /\ Returned /\ Idle
  BY DEF Dialogue
<1>1. Uttered = 0 /\ Len(wire) = 0 /\ Len(inbox) = 0
  BY Far DEF Init, States
<1>2. Said
  BY <1>1 DEF Init, Said, SessionOrder, Lost
<1>3. Processed
  BY <1>1 DEF Init, Processed
<1>4. Returned /\ Idle
  BY <1>1 DEF Init, Returned, Idle
<1> QED
  BY <1>2, <1>3, <1>4

-----------------------------------------------------------------------------
(* Reading *)

\* What is left after a read.
LEMMA LeftOver ==
    ASSUME TypeOK, NEW n \in 0..Len(inbox), TakeFrames(n)
    PROVE  /\ Len(inbox') = Len(inbox) - n
           /\ \A i \in 1..Len(inbox') : inbox'[i] = inbox[n + i] /\ n + i \in 1..Len(inbox)
<1>1. inbox \in Seq(Frames) /\ inbox' = SubSeq(inbox, n + 1, Len(inbox))
  BY DEF TakeFrames, TypeOK, PeerTypes
<1>2. Len(inbox') = Len(inbox) - n /\ Len(inbox) \in Nat
  BY <1>1, Split
<1>3. \A i \in 1..(Len(inbox) - n) : inbox'[i] = inbox[n + i]
  BY <1>1, Split
<1>4. \A i \in 1..Len(inbox') : n + i \in 1..Len(inbox)
  BY <1>2
<1> QED
  BY <1>2, <1>3, <1>4

\* A read during the handshake hands over no message.
LEMMA NoMessages ==
    ASSUME TypeOK, Control, Said, Processed, Returned, state # "Started"
    PROVE  /\ \A i \in 1..Len(inbox) : inbox[i] # "MSG"
           /\ \A n \in 0..Len(inbox) : TakeFrames(n) => delivered' = delivered
<1>1. seen < Len(Handshake)
  <2>1. Uttered < Len(Handshake) /\ Uttered \in 0..Len(Handshake)
    BY Far DEF Control, Secured, TypeOK, ConnTypes
  <2> QED
    BY <2>1, Words DEF Said, Processed, TypeOK, PeerTypes
<1>2. \A i \in 1..Len(inbox) : inbox[i] # "MSG"
  BY <1>1, Words DEF Returned, TypeOK, PeerTypes
<1>3. ASSUME NEW n \in 0..Len(inbox), TakeFrames(n) PROVE delivered' = delivered
  <2>1. inbox \in Seq(Frames) /\ delivered \in Nat
    BY DEF TypeOK, PeerTypes, UserTypes
  <2>2. SubSeq(inbox, 1, n) \in Seq(Frames)
        /\ \A i \in 1..Len(SubSeq(inbox, 1, n)) : SubSeq(inbox, 1, n)[i] # "MSG"
    BY <1>2, <2>1, Split
  <2>3. Count(SubSeq(inbox, 1, n), "MSG") = 0
    BY <2>2, CountType
  <2> QED
    BY <1>3, <2>1, <2>3 DEF TakeFrames, Decode
<1> QED
  BY <1>2, <1>3

\* Going on with the handshake takes a response off the stack.
LEMMA NotNothing ==
    ASSUME Secured, Quiet, state \in {"Identify", "Tls", "Auth", "Subscribe"}, NEW r,
           After(r) \in States
    PROVE  r # "NONE"
BY DEF After, PlainNext, TlsNext, States, Secured, Quiet

\* The answer that takes the handshake on is the one to all that was said, and
\* leaves no other behind.
LEMMA AnswerTaken ==
    ASSUME TypeOK, Control, Quiet, Said, Processed, Returned, Idle,
           NEW n \in 0..Len(inbox), TakeFrames(n), state # "Started",
           After(Popped(Responses(SubSeq(inbox, 1, n)))) \in States
    PROVE  /\ need_response /\ Len(wire) = Uttered /\ seen = Uttered
           /\ Rest(Responses(SubSeq(inbox, 1, n))) = <<>>
           /\ \A i \in 1..Len(inbox') : ~IsResponse(inbox'[i])
<1> DEFINE frames == SubSeq(inbox, 1, n)
           rs == Responses(frames)
<1>1. inbox \in Seq(Frames) /\ frames \in Seq(Frames) /\ Len(frames) = n
      /\ \A i \in 1..n : frames[i] = inbox[i]
  BY Split DEF TypeOK, PeerTypes
<1>2. responses = <<>> /\ responses \in Seq(Frames)
  BY DEF Idle, TypeOK, ConnTypes
<1>3. state \in {"Identify", "Tls", "Auth", "Subscribe"}
  BY DEF TakeFrames, Control, Turns
<1> HIDE DEF frames
<1>4. /\ rs \in Seq(Frames) /\ Len(rs) = Len(responses) + Cardinality(Replies(frames))
      /\ \A k \in 1..Len(rs) : \/ k <= Len(responses) /\ rs[k] = responses[k]
                               \/ \E i \in Replies(frames) : rs[k] = frames[i]
  BY <1>1, <1>2, ResponsesFacts
<1>5. Popped(rs) # "NONE"
  BY <1>3, NotNothing DEF frames, Control
<1>6. rs # <<>>
  BY <1>5 DEF Popped
<1> HIDE DEF rs
<1>7. PICK i \in Replies(frames) : TRUE
  BY <1>2, <1>4, <1>6
<1>8. i \in 1..n /\ i \in 1..Len(inbox) /\ IsResponse(inbox[i])
  BY <1>1, <1>7 DEF Replies
<1>9. /\ need_response /\ Len(wire) = Uttered /\ seen = Uttered
      /\ \A j \in 1..Len(inbox) : IsResponse(inbox[j]) => i = j
  BY <1>8 DEF Returned
<1>10. Len(rs) = 1
  <2>1. Replies(frames) \in SUBSET (1..n) /\ \A j \in Replies(frames) : j = i
    BY <1>1, <1>9 DEF Replies
  <2>2. Cardinality(Replies(frames)) <= 1 /\ Cardinality(Replies(frames)) \in Nat
    <3>1. n \in Nat
      BY <1>1
    <3>2. \A k, j \in Replies(frames) : k = j
      BY <2>1
    <3> QED
      BY <2>1, <3>1, <3>2, OnePosition, Positions
  <2>3. Len(responses) = 0 /\ Len(rs) \in Nat /\ Len(rs) # 0
    BY <1>2, <1>4, <1>6
  <2> QED
    BY <1>4, <2>2, <2>3
<1>11. Rest(rs) = <<>>
  <2>1. Rest(rs) = SubSeq(rs, 1, 0) /\ 0 \in 0..Len(rs)
    BY <1>10 DEF Rest
  <2>2. Rest(rs) \in Seq(Frames) /\ Len(Rest(rs)) = 0
    BY <1>4, <2>1, Split
  <2> QED
    BY <2>2
<1>12. ASSUME NEW k \in 1..Len(inbox'), IsResponse(inbox'[k]) PROVE FALSE
  <2>1. inbox'[k] = inbox[n + k] /\ n + k \in 1..Len(inbox)
    BY LeftOver
  <2>2. n + k = i
    BY <1>9, <1>12, <2>1
  <2> QED
    BY <1>8, <1>12, <2>2
<1> QED
  BY <1>9, <1>11, <1>12 DEF rs, frames

\* An answer takes the state on, and utters nothing.
LEMMA AnswerUtters ==
    ASSUME TypeOK, Control, Quiet, Said, Processed, Returned, Idle, [Next]_vars,
           NEW n \in 0..Len(inbox), ReadAnswer(n) \/ ReadUpgrade(n)
    PROVE  /\ Uttered' = Uttered /\ state' \notin {"Started", "Identify"} /\ state # "Rdy"
           /\ need_response' <=> state' = "Tls"
<1> DEFINE rs == Responses(SubSeq(inbox, 1, n))
<1>1. /\ TakeFrames(n) /\ state # "Started" /\ After(Popped(rs)) \in States
      /\ state' = After(Popped(rs))
  BY DEF ReadAnswer, ReadUpgrade, States
<1>2. need_response /\ state \in States /\ need_response \in BOOLEAN
  BY <1>1, AnswerTaken DEF TypeOK, ConnTypes
<1>3. tls # "upgrading" /\ Secured
  BY <1>1 DEF Control, Secured, TakeFrames, Dispatch
<1>4. /\ state = "Identify" => state' \in {"Tls", "Auth", "Subscribe"}
      /\ state = "Tls" => state' \in {"Auth", "Subscribe"}
      /\ state = "Auth" => state' = "Subscribe"
      /\ state = "Subscribe" => state' = "Rdy"
      /\ state' = "Auth" => auth_required
      /\ state \in {"Identify", "Tls"} /\ state' = "Subscribe" => ~auth_required
      /\ state \in {"Identify", "Tls", "Auth", "Subscribe"}
  <2>1. state \in {"Identify", "Tls", "Auth", "Subscribe"}
    BY <1>2 DEF Control, Turns
  <2> HIDE DEF rs
  <2> QED
    BY <1>1, <1>2, <1>3, <2>1, AfterControl DEF States, Quiet
<1>5. need_response' = (state' = "Tls")
  <2>1. CASE ReadAnswer(n)
    <3>1. state' # "Tls"
      BY <1>4, <2>1 DEF ReadAnswer
    <3> QED
      BY <2>1, <3>1 DEF ReadAnswer
  <2>2. CASE ReadUpgrade(n)
    BY <1>2, <2>2 DEF ReadUpgrade
  <2> QED
    BY <2>1, <2>2
<1>6. Uttered' = Uttered
  <2>1. state' \in States /\ auth_required' = auth_required /\ Handshake' = Handshake
    BY <1>1, <1>2, SetupFacts, ScriptFixed
  <2>2. /\ state' = "Tls" => Uttered' = 2
        /\ state' = "Auth" => Uttered' = 2
        /\ state' = "Subscribe" => Uttered' = Len(Handshake) - 2
        /\ state' = "Rdy" => Uttered' = Len(Handshake) - 1
    BY <1>4, <1>5, <2>1, FarNext
  <2>3. /\ state = "Identify" => Uttered = 2
        /\ state = "Tls" => Uttered = 2
        /\ state = "Auth" => Uttered = 3
        /\ state = "Subscribe" => Uttered = Len(Handshake) - 1
    BY <1>2, <1>3, Far DEF Secured
  <2>4. Len(Handshake) = (IF auth_required THEN 5 ELSE 4) /\ (state = "Auth" => auth_required)
    BY <1>3, Words DEF Secured
  <2> HIDE DEF rs
  <2> QED
    BY <1>4, <2>2, <2>3, <2>4
<1> QED
  BY <1>4, <1>5, <1>6

-----------------------------------------------------------------------------
(* Writing *)

\* One word of the script.
LEMMA OneWord ==
    ASSUME NEW k \in 1..Len(Handshake)
    PROVE  SubSeq(Handshake, k, k) = <<Handshake[k]>>
<1>1. Handshake \in Seq(Commands) /\ k \in 1..(Len(Handshake) + 1) /\ k \in (k - 1)..Len(Handshake)
      /\ Handshake[k] \in Commands /\ (k - k) + 1 = 1 /\ (k + 1) - 1 = k
  BY Words
<1>2. /\ SubSeq(Handshake, k, k) \in Seq(Commands) /\ Len(SubSeq(Handshake, k, k)) = 1
      /\ SubSeq(Handshake, k, k)[1] = Handshake[k]
  BY <1>1, Middle
<1>3. <<Handshake[k]>> \in Seq(Commands) /\ Len(<<Handshake[k]>>) = 1
      /\ <<Handshake[k]>>[1] = Handshake[k]
  BY <1>1
<1>4. \A i \in 1..1 : i = 1
  OBVIOUS
<1>5. \A i \in 1..Len(SubSeq(Handshake, k, k)) :
         SubSeq(Handshake, k, k)[i] = <<Handshake[k]>>[i]
  BY <1>2, <1>3, <1>4
<1> QED
  BY <1>2, <1>3, <1>5, SameSequence

\* Its first two.
LEMMA FirstWords == SubSeq(Handshake, 1, 2) = <<"MAGIC", "IDENTIFY">>
<1>1. /\ SubSeq(Handshake, 1, 2) \in Seq(Commands) /\ Len(SubSeq(Handshake, 1, 2)) = 2
      /\ \A i \in 1..2 : SubSeq(Handshake, 1, 2)[i] = Handshake[i]
  <2>1. Handshake \in Seq(Commands) /\ 2 \in 0..Len(Handshake)
    BY Words
  <2> QED
    BY <2>1, Split
<1>2. <<"MAGIC", "IDENTIFY">> \in Seq(Commands) /\ Len(<<"MAGIC", "IDENTIFY">>) = 2
  BY DEF Commands
<1>3. \A i \in 1..2 : SubSeq(Handshake, 1, 2)[i] = <<"MAGIC", "IDENTIFY">>[i]
  BY <1>1, Words
<1> QED
  BY <1>1, <1>2, <1>3, SameSequence

Asks(word) == word \in {"IDENTIFY", "AUTH", "SUB"}

\* What the loop writes next, and where that takes it.
Greets == IF tls = "on" THEN TlsGreeting(state) ELSE Greeting(state)
Reaches == IF state = "Identify" THEN 2 ELSE Uttered + 1

\* It goes on where it stopped, up to a question.
LEMMA NextWords ==
    ASSUME TypeOK, Control, Quiet, Said, Dispatch("CONNECTION"),
           interest = "writable", state # "Started"
    PROVE  /\ state \in {"Identify", "Auth", "Subscribe", "Rdy"} /\ ~need_response
           /\ Reaches \in (Uttered + 1)..Len(Handshake)
           /\ w_buf \o Greets.cmd = SubSeq(Handshake, Uttered + 1, Reaches)
           /\ Greets.wait = Asks(Handshake[Reaches])
           /\ \A i \in (Uttered + 1)..(Reaches - 1) : ~Asks(Handshake[i])
           /\ Greets.to = IF state = "Rdy" THEN "Started" ELSE state
           /\ Greets.wait = (state # "Rdy")
<1>1. ~need_response /\ state \in {"Identify", "Auth", "Subscribe", "Rdy"} /\ state \in States
      /\ (state = "Auth" => auth_required)
  BY DEF Control, Turns, Secured, TypeOK, ConnTypes, States
<1>2. Greets = Greeting(state)
  BY DEF TlsGreeting, Greets, Quiet
<1>3. CASE state = "Identify"
  <2>1. Greets.cmd = <<"IDENTIFY">> /\ Greets.to = "Identify" /\ Greets.wait = TRUE
    BY <1>2, <1>3 DEF Greeting
  <2>2. w_buf = <<"MAGIC">> /\ Uttered = 0 /\ Reaches = 2
    BY <1>1, <1>3, Far DEF Said, Reaches
  <2>3. <<"MAGIC">> \o <<"IDENTIFY">> = <<"MAGIC", "IDENTIFY">>
    <3>1. <<"MAGIC">> \in Seq(Commands) /\ <<"IDENTIFY">> \in Seq(Commands)
          /\ <<"MAGIC", "IDENTIFY">> \in Seq(Commands)
      BY DEF Commands
    <3>2. /\ <<"MAGIC">> \o <<"IDENTIFY">> \in Seq(Commands)
          /\ Len(<<"MAGIC">> \o <<"IDENTIFY">>) = 2
          /\ (<<"MAGIC">> \o <<"IDENTIFY">>)[1] = "MAGIC"
          /\ (<<"MAGIC">> \o <<"IDENTIFY">>)[1 + 1] = "IDENTIFY"
      BY <3>1, Joined
    <3>3. \A i \in 1..2 : i = 1 \/ i = 2
      OBVIOUS
    <3>4. /\ Len(<<"MAGIC", "IDENTIFY">>) = 2 /\ <<"MAGIC", "IDENTIFY">>[1] = "MAGIC"
          /\ <<"MAGIC", "IDENTIFY">>[2] = "IDENTIFY" /\ 1 + 1 = 2
      OBVIOUS
    <3>5. \A i \in 1..2 : (<<"MAGIC">> \o <<"IDENTIFY">>)[i] = <<"MAGIC", "IDENTIFY">>[i]
      BY <3>2, <3>3, <3>4
    <3> QED
      BY <3>1, <3>2, <3>4, <3>5, SameSequence
  <2>4. Reaches \in (Uttered + 1)..Len(Handshake) /\ Uttered + 1 = 1 /\ \A i \in 1..1 : i = 1
    BY <2>2, Words
  <2>5. w_buf \o Greets.cmd = SubSeq(Handshake, Uttered + 1, Reaches)
    BY <2>1, <2>2, <2>3, <2>4, FirstWords
  <2>6. \A i \in (Uttered + 1)..(Reaches - 1) : ~Asks(Handshake[i])
    BY <2>2, <2>4, Words DEF Asks
  <2>7. Asks(Handshake[Reaches]) = TRUE
    BY <2>2, Words DEF Asks
  <2> QED
    BY <1>1, <1>3, <2>1, <2>4, <2>5, <2>6, <2>7
<1>4. CASE state = "Auth"
  <2>1. Greets.cmd = <<"AUTH">> /\ Greets.to = "Auth" /\ Greets.wait = TRUE
    BY <1>2, <1>4 DEF Greeting
  <2>2. w_buf = <<>> /\ Uttered = 2 /\ Reaches = 3
    BY <1>1, <1>4, Far DEF Said, Reaches
  <2>3. <<>> \o <<"AUTH">> = <<"AUTH">>
    OBVIOUS
  <2>4. /\ 3 \in 1..Len(Handshake) /\ Handshake[3] = "AUTH"
        /\ Reaches \in (Uttered + 1)..Len(Handshake)
    BY <1>1, <1>4, <2>2, Words
  <2>5. w_buf \o Greets.cmd = SubSeq(Handshake, Uttered + 1, Reaches)
    BY <2>1, <2>2, <2>3, <2>4, OneWord
  <2>6. \A i \in (Uttered + 1)..(Reaches - 1) : ~Asks(Handshake[i])
    BY <2>2
  <2>7. Asks(Handshake[Reaches]) = TRUE
    BY <2>2, <2>4 DEF Asks
  <2> QED
    BY <1>1, <1>4, <2>1, <2>4, <2>5, <2>6, <2>7
<1>5. CASE state = "Subscribe"
  <2>1. Greets.cmd = <<"SUB">> /\ Greets.to = "Subscribe" /\ Greets.wait = TRUE
    BY <1>2, <1>5 DEF Greeting
  <2>2. w_buf = <<>> /\ Uttered = Len(Handshake) - 2 /\ Reaches = Uttered + 1
    BY <1>1, <1>5, Far DEF Said, Reaches
  <2>3. <<>> \o <<"SUB">> = <<"SUB">>
    OBVIOUS
  <2>4. /\ Reaches \in 1..Len(Handshake) /\ Handshake[Reaches] = "SUB"
        /\ Uttered \in Nat /\ Reaches \in (Uttered + 1)..Len(Handshake)
    <3>1. Reaches = Len(Handshake) - 1 /\ Len(Handshake) \in 4..5
      BY <2>2, Words
    <3> QED
      BY <2>2, <3>1, Words
  <2>5. w_buf \o Greets.cmd = SubSeq(Handshake, Uttered + 1, Reaches)
    BY <2>1, <2>2, <2>3, <2>4, OneWord
  <2>6. \A i \in (Uttered + 1)..(Reaches - 1) : ~Asks(Handshake[i])
    BY <2>2, <2>4
  <2>7. Asks(Handshake[Reaches]) = TRUE
    BY <2>4 DEF Asks
  <2> QED
    BY <1>1, <1>5, <2>1, <2>4, <2>5, <2>6, <2>7
<1>6. CASE state = "Rdy"
  <2>1. Greets.cmd = <<"RDY">> /\ Greets.to = "Started" /\ Greets.wait = FALSE
    BY <1>2, <1>6 DEF Greeting
  <2>2. w_buf = <<>> /\ Uttered = Len(Handshake) - 1 /\ Reaches = Uttered + 1
    BY <1>1, <1>6, Far DEF Said, Reaches
  <2>3. <<>> \o <<"RDY">> = <<"RDY">>
    OBVIOUS
  <2>4. /\ Reaches \in 1..Len(Handshake) /\ Handshake[Reaches] = "RDY"
        /\ Uttered \in Nat /\ Reaches \in (Uttered + 1)..Len(Handshake)
    <3>1. Reaches = Len(Handshake) /\ Len(Handshake) \in 4..5
      BY <2>2, Words
    <3> QED
      BY <2>2, <3>1, Words
  <2>5. w_buf \o Greets.cmd = SubSeq(Handshake, Uttered + 1, Reaches)
    BY <2>1, <2>2, <2>3, <2>4, OneWord
  <2>6. \A i \in (Uttered + 1)..(Reaches - 1) : ~Asks(Handshake[i])
    BY <2>2, <2>4
  <2>7. Asks(Handshake[Reaches]) = FALSE
    BY <2>4 DEF Asks
  <2> QED
    BY <1>1, <1>6, <2>1, <2>4, <2>5, <2>6, <2>7
<1> QED
  BY <1>1, <1>3, <1>4, <1>5, <1>6

\* It says them, to whom it reaches, and waits if they end in a question.
LEMMA Utters ==
    ASSUME TypeOK, Control, Quiet, Said, [Next]_vars, WriteHandshake
    PROVE  /\ wire' = IF peer \in Lost THEN wire
                      ELSE wire \o SubSeq(Handshake, Uttered + 1, Reaches)
           /\ w_buf' = <<>>
           /\ state' = IF state = "Rdy" THEN "Started" ELSE state
           /\ need_response' = (state # "Rdy")
           /\ Uttered' = Reaches
<1>1. Dispatch("CONNECTION") /\ interest = "writable" /\ state # "Started"
      /\ Write(w_buf \o Greets.cmd) /\ state' = Greets.to /\ need_response' = Greets.wait
  BY DEF WriteHandshake, Greets
<1>2. /\ state \in {"Identify", "Auth", "Subscribe", "Rdy"} /\ ~need_response
      /\ w_buf \o Greets.cmd = SubSeq(Handshake, Uttered + 1, Reaches)
      /\ Greets.to = (IF state = "Rdy" THEN "Started" ELSE state)
      /\ Greets.wait = (state # "Rdy")
  BY <1>1, NextWords
<1>3. peer \in Lost <=> peer # "open"
  BY <1>1 DEF Control, Unconnected, Dispatch, Lost, TypeOK, PeerTypes
<1>4. Handshake' = Handshake /\ auth_required' = auth_required
  BY ScriptFixed, SetupFacts DEF TypeOK, ConnTypes
<1>5. state' \in States /\ (state' = "Auth" => auth_required')
  BY <1>1, <1>2, <1>4 DEF States, Control, Secured
<1>6. /\ state' = "Identify" => Uttered' = IF need_response' THEN 2 ELSE 0
      /\ state' = "Auth" => Uttered' = IF need_response' THEN 3 ELSE 2
      /\ state' = "Subscribe" => Uttered' = IF need_response' THEN Len(Handshake') - 1
                                            ELSE Len(Handshake') - 2
      /\ state' = "Started" => Uttered' = Len(Handshake')
  BY <1>5, FarNext
<1>7. /\ state = "Auth" => Uttered = 2
      /\ state = "Subscribe" => Uttered = Len(Handshake) - 2
      /\ state = "Rdy" => Uttered = Len(Handshake) - 1
  BY <1>2, Far DEF States, Control, Secured
<1>8. Uttered' = Reaches
  <2>1. Len(Handshake) \in {4, 5}
    BY Words
  <2>2. state # "Rdy" => need_response' /\ state' = state
    BY <1>1, <1>2
  <2>3. CASE state = "Identify"
    BY <1>6, <2>2, <2>3 DEF Reaches
  <2>4. CASE state = "Auth"
    BY <1>6, <1>7, <2>2, <2>4 DEF Reaches
  <2>5. CASE state = "Subscribe"
    BY <1>4, <1>6, <1>7, <2>1, <2>2, <2>5 DEF Reaches
  <2>6. CASE state = "Rdy"
    BY <1>1, <1>2, <1>4, <1>6, <1>7, <2>1, <2>6 DEF Reaches
  <2> QED
    BY <1>2, <2>3, <2>4, <2>5, <2>6
<1> QED
  BY <1>1, <1>2, <1>3, <1>8 DEF Write

\* write_messages says nothing else, and without anything to say does nothing.
LEMMA OnlyRemarks ==
    ASSUME TypeOK, w_buf = <<>>, NEW nop \in {<<>>, <<"NOP">>}, WriteMessages(nop)
    PROVE  /\ w_buf' = <<>>
           /\ \E more \in Seq(Remarks) :
                 /\ wire' = IF peer = "open" THEN wire \o more ELSE wire
                 /\ more = <<>> => outcome' = outcome
<1>1. nop \in Seq(Remarks) /\ cmds \in Seq(HandlerCmds) /\ wire \in Seq(Commands)
  <2>1. <<>> \in Seq(Remarks) /\ <<"NOP">> \in Seq(Remarks)
    BY DEF Remarks
  <2> QED
    BY <2>1 DEF TypeOK, UserTypes, PeerTypes
<1>2. Sent \in Seq(Remarks) /\ (cmds # <<>> => Sent # <<>>)
  <2>1. HandlerCmds \subseteq Remarks
    BY EventLoopAssumption DEF Remarks
  <2>2. \A s \in Seq(HandlerCmds) : s \in Seq(Remarks)
    BY <2>1
  <2> QED
    BY <2>2, SentTypes
<1>3. CASE nop \o cmds = <<>>
  <2>1. cmds = <<>> /\ Len(cmds) = 0
    <3>1. Len(nop \o cmds) = Len(nop) + Len(cmds) /\ Len(nop) \in Nat /\ Len(cmds) \in Nat
      BY <1>1
    <3>2. Len(nop \o cmds) = 0
      BY <1>3
    <3>3. Len(cmds) = 0
      BY <3>1, <3>2
    <3> QED
      BY <1>1, <3>3
  <2>2. ~(Len(cmds) > in_flight)
    BY <2>1, EventLoopAssumption DEF TypeOK, ConnTypes
  <2>3. wire' = wire /\ w_buf' = w_buf /\ outcome' = outcome
    BY <1>3, <2>2 DEF WriteMessages
  <2>4. wire \o <<>> = wire /\ <<>> \in Seq(Remarks)
    BY <1>1
  <2> QED
    BY <2>3, <2>4
<1>4. CASE nop \o cmds # <<>>
  <2>1. Write(w_buf \o nop \o Sent)
    BY <1>4 DEF WriteMessages, Sent
  <2>2. w_buf \o nop \o Sent = nop \o Sent
    BY <1>1, <1>2
  <2>3. nop \o Sent \in Seq(Remarks)
    BY <1>1, <1>2
  <2>4. nop \o Sent # <<>>
    <3>1. Len(nop \o Sent) = Len(nop) + Len(Sent) /\ Len(nop) \in Nat /\ Len(Sent) \in Nat
      BY <1>1, <1>2
    <3>2. nop # <<>> \/ cmds # <<>>
      BY <1>4
    <3>3. Len(nop) # 0 \/ Len(Sent) # 0
      BY <1>1, <1>2, <3>2
    <3> QED
      BY <3>1, <3>3
  <2> QED
    BY <2>1, <2>2, <2>3, <2>4 DEF Write
<1> QED
  BY <1>3, <1>4

-----------------------------------------------------------------------------
(* The dialogue goes on *)

\* The next words of the script are in order.
LEMMA OrderUttered ==
    ASSUME TypeOK, Quiet, SessionOrder, [Next]_vars,
           Len(wire) = Uttered, NEW k \in (Uttered + 1)..Len(Handshake),
           wire' = wire \o SubSeq(Handshake, Uttered + 1, k)
    PROVE  SessionOrder' /\ Len(wire') = k
<1>1. Handshake' = Handshake
  BY ScriptFixed DEF TypeOK, ConnTypes
<1>2. wire \in Seq(Commands) /\ Handshake \in Seq(Commands) /\ Len(Handshake) \in Nat
      /\ Len(wire) \in Nat /\ Uttered \in Nat
  BY Words DEF TypeOK, PeerTypes
<1> DEFINE more == SubSeq(Handshake, Uttered + 1, k)
<1>3. /\ more \in Seq(Commands) /\ Len(more) = k - Uttered
      /\ \A i \in 1..(k - Uttered) : more[i] = Handshake[Uttered + i]
  <2>1. Uttered + 1 \in 1..(Len(Handshake) + 1) /\ k \in ((Uttered + 1) - 1)..Len(Handshake)
        /\ (k - (Uttered + 1)) + 1 = k - Uttered
    BY <1>2
  <2>2. \A i \in 1..(k - Uttered) : ((Uttered + 1) + i) - 1 = Uttered + i
    BY <1>2
  <2> QED
    BY <1>2, <2>1, <2>2, Middle
<1> HIDE DEF more
<1>4. wire' = wire \o more
  BY DEF more
<1>5. Len(wire') = k
  <2>1. Len(wire') = Len(wire) + Len(more)
    BY <1>2, <1>3, <1>4, Joined
  <2> QED
    BY <1>2, <1>3, <2>1
<1>6. ASSUME NEW i \in 1..k PROVE wire'[i] = Handshake[i]
  <2>1. CASE i \in 1..Len(wire)
    <3>1. wire'[i] = wire[i] /\ i <= Len(Handshake)
      BY <1>2, <1>3, <1>4, <2>1, Joined
    <3> QED
      BY <2>1, <3>1 DEF SessionOrder
  <2>2. CASE i \notin 1..Len(wire)
    <3>1. i - Uttered \in 1..Len(more) /\ Len(wire) + (i - Uttered) = i
          /\ i - Uttered \in 1..(k - Uttered) /\ Uttered + (i - Uttered) = i
      BY <1>2, <1>3, <2>2
    <3>2. wire'[Len(wire) + (i - Uttered)] = more[i - Uttered]
      BY <1>2, <1>3, <1>4, <3>1, Joined, SMTT(30)
    <3> QED
      BY <1>3, <3>1, <3>2
  <2> QED
    BY <2>1, <2>2
<1>7. SessionOrder'
  <2>1. \A i \in 1..Len(wire') : i <= Len(Handshake') /\ wire'[i] = Handshake'[i]
    BY <1>1, <1>2, <1>5, <1>6
  <2> QED
    BY <2>1 DEF SessionOrder
<1> QED
  BY <1>5, <1>7

\* So are remarks behind the script.
LEMMA OrderRemarks ==
    ASSUME TypeOK, Quiet, SessionOrder, [Next]_vars,
           Len(wire) >= Len(Handshake), NEW more \in Seq(Remarks), wire' = wire \o more
    PROVE  SessionOrder' /\ Len(wire') >= Len(Handshake)
<1>1. Handshake' = Handshake
  BY ScriptFixed DEF TypeOK, ConnTypes
<1>2. wire \in Seq(Commands) /\ Len(Handshake) \in Nat /\ Len(wire) \in Nat
      /\ more \in Seq(Commands)
  <2>1. \A t \in Seq(Remarks) : t \in Seq(Commands)
    BY DEF Remarks, Commands
  <2> QED
    BY <2>1, Words DEF TypeOK, PeerTypes
<1>3. Len(wire') = Len(wire) + Len(more) /\ Len(more) \in Nat
  BY <1>2, Joined
<1>4. ASSUME NEW i \in 1..Len(wire')
      PROVE  IF i <= Len(Handshake') THEN wire'[i] = Handshake'[i] ELSE wire'[i] \in Remarks
  <2>1. CASE i \in 1..Len(wire)
    <3>1. wire'[i] = wire[i]
      BY <1>2, <2>1, Joined
    <3> QED
      BY <1>1, <2>1, <3>1 DEF SessionOrder, Remarks
  <2>2. CASE i \notin 1..Len(wire)
    <3>1. i - Len(wire) \in 1..Len(more) /\ Len(wire) + (i - Len(wire)) = i
          /\ ~(i <= Len(Handshake))
      BY <1>2, <1>3, <2>2
    <3>2. wire'[Len(wire) + (i - Len(wire))] = more[i - Len(wire)]
      BY <1>2, <3>1, Joined
    <3>3. more[i - Len(wire)] \in Remarks
      BY <3>1
    <3> QED
      BY <1>1, <3>1, <3>2, <3>3
  <2> QED
    BY <2>1, <2>2
<1> QED
  BY <1>2, <1>3, <1>4 DEF SessionOrder, Remarks

\* There is one RDY, and it is the last word of the script.
LEMMA RdyLast ==
    ASSUME TypeOK, Quiet, SessionOrder, NEW k \in 1..Len(wire), wire[k] = "RDY"
    PROVE  k = Len(Handshake)
<1>1. Len(Handshake) \in {4, 5} /\ k \in Nat
  BY Words DEF TypeOK, PeerTypes
<1>2. k <= Len(Handshake) /\ Handshake[k] = "RDY"
  BY DEF SessionOrder, Remarks
<1>3. SUFFICES ASSUME k < Len(Handshake) PROVE Handshake[k] # "RDY"
  BY <1>1, <1>2
<1>4. CASE auth_required
  <2>1. Len(Handshake) = 5
    BY <1>4, Words
  <2>2. Handshake[5 - 1] = "SUB"
    BY <2>1, Words
  <2>3. k \in {1, 2, 3, 4} /\ 5 - 1 = 4
    BY <1>1, <1>3, <2>1
  <2> QED
    BY <1>4, <2>2, <2>3, Words
<1>5. CASE ~auth_required
  <2>1. Len(Handshake) = 4
    BY <1>5, Words
  <2>2. Handshake[4 - 1] = "SUB"
    BY <2>1, Words
  <2>3. k \in {1, 2, 3} /\ 4 - 1 = 3
    BY <1>1, <1>3, <2>1
  <2> QED
    BY <2>2, <2>3, Words
<1> QED
  BY <1>4, <1>5

\* A client is ready once nsqd has processed all of the script.
LEMMA ReadyAfterAll ==
    ASSUME TypeOK, Quiet, SessionOrder, Processed, phase # "gone",
           seen < Len(wire), Answer(wire[seen + 1]).to = "ready"
    PROVE  seen + 1 >= Len(Handshake)
<1>1. phase = "ready" \/ wire[seen + 1] = "RDY"
  <2>1. CASE phase = "new"
    BY <2>1 DEF Answer
  <2>2. CASE phase = "tls"
    BY <2>2 DEF Answer
  <2>3. CASE phase \in {"init", "authed", "sub", "ready"}
    BY <2>3 DEF Answer
  <2> QED
    BY <2>1, <2>2, <2>3 DEF TypeOK, PeerTypes
<1>2. CASE phase = "ready"
  BY <1>2, Words DEF Processed, TypeOK, PeerTypes
<1>3. CASE wire[seen + 1] = "RDY"
  <2>1. seen + 1 \in 1..Len(wire) /\ seen + 1 \in Nat
    BY DEF TypeOK, PeerTypes
  <2>2. seen + 1 = Len(Handshake)
    BY <1>3, <2>1, RdyLast
  <2> QED
    BY <2>1, <2>2
<1> QED
  BY <1>1, <1>2, <1>3

\* While the client waits, what nsqd takes is its question, or MAGIC before it,
\* which has no answer.
LEMMA OneAnswer ==
    ASSUME TypeOK, Control, Quiet, Said, Processed, state # "Started",
           peer = "open", seen < Len(wire)
    PROVE  /\ need_response /\ Len(wire) = Uttered /\ state # "Tls"
           /\ \/ seen + 1 = Uttered
              \/ state = "Identify" /\ seen = 0 /\ Answer(wire[seen + 1]).reply = <<>>
<1>1. Len(wire) = Uttered /\ Uttered \in Nat /\ seen \in Nat
  BY Words, Far DEF Said, Lost, TypeOK, PeerTypes, ConnTypes, Control, Secured
<1>2. need_response /\ state # "Tls"
  BY <1>1 DEF Processed, Lost
<1>3. CASE state # "Identify"
  BY <1>1, <1>2, <1>3 DEF Processed, Lost
<1>4. CASE state = "Identify"
  <2>1. Uttered = 2
    BY <1>2, <1>4, Far DEF States
  <2>2. CASE seen = 0
    <3>1. phase = "new" /\ wire[1] = "MAGIC" /\ seen + 1 = 1
      <4>1. 1 \in 1..Len(wire) /\ 1 <= Len(Handshake)
        BY <1>1, <2>1, Words
      <4> QED
        BY <2>2, <4>1, Words DEF Said, SessionOrder, Processed
    <3> QED
      BY <1>1, <1>2, <1>4, <2>2, <3>1 DEF Answer
  <2>3. CASE seen # 0
    BY <1>1, <1>2, <2>1, <2>3
  <2> QED
    BY <2>2, <2>3
<1> QED
  BY <1>1, <1>2, <1>3, <1>4

\* Every step keeps the dialogue.
LEMMA DialogueStep == TypeOK /\ Gone /\ Control /\ Dialogue /\ [Next]_vars => Dialogue'
<1> SUFFICES ASSUME TypeOK, Gone, Control, Dialogue, [Next]_vars, Quiet'
             PROVE  Said' /\ Processed' /\ Returned' /\ Idle'
  BY DEF Dialogue
<1>0. Quiet /\ Said /\ Processed /\ Returned /\ Idle
  BY SetupFixed DEF Dialogue, Quiet
<1>1. Handshake' = Handshake /\ (UNCHANGED <<state, need_response>> => Uttered' = Uttered)
  BY ScriptFixed DEF TypeOK, ConnTypes
<1>2. peer \in Lost => peer' \in Lost
  BY EndStays
<1>3. /\ state \in States /\ need_response \in BOOLEAN /\ inbox \in Seq(Frames)
      /\ wire \in Seq(Commands) /\ Len(wire) \in Nat /\ Len(inbox) \in Nat /\ seen \in Nat
  BY DEF TypeOK, ConnTypes, PeerTypes
<1>4. Uttered \in 0..Len(Handshake) /\ (state # "Started" => Uttered < Len(Handshake))
      /\ Len(Handshake) \in {4, 5}
  BY Far, Words, <1>3 DEF Control, Secured
<1>s. UNCHANGED <<state, need_response, w_buf, wire>> => Said'
  <2> SUFFICES ASSUME UNCHANGED <<state, need_response, w_buf, wire>> PROVE Said'
    OBVIOUS
  <2>1. SessionOrder'
    BY <1>0, <1>1 DEF Said, SessionOrder
  <2> QED
    BY <1>0, <1>1, <1>2, <2>1 DEF Said
<1>p. UNCHANGED <<state, need_response, wire, seen, phase>> => Processed'
  BY <1>0, <1>1, <1>2 DEF Processed
<1>r. UNCHANGED <<state, need_response, wire, seen, inbox>> => Returned'
  BY <1>0, <1>1 DEF Returned
<1>i. UNCHANGED <<state, cmds, delivered, responses>> => Idle'
  BY <1>0 DEF Idle
<1>5. CASE \/ Poll \/ ReadEof \/ ReadWouldBlock \/ ReadError \/ TlsFailure \/ CmdEvent
           \/ UserClose \/ Sentinel \/ Connected \/ PeerFails \/ Elapse \/ UNCHANGED vars
  <2>1. UNCHANGED <<state, need_response, w_buf, wire, seen, phase, inbox, cmds, delivered,
                    responses>>
    BY <1>5 DEF Poll, ReadEof, ReadWouldBlock, ReadError, TlsFailure, CmdEvent, UserClose,
                Sentinel, Connected, PeerFails, Elapse, vars, ownVars, connVars, netVars, peerVars, userVars
  <2> QED
    BY <1>s, <1>p, <1>r, <1>i, <2>1
<1>6. ASSUME NEW n \in 0..Len(inbox), ReadStarted(n) \/ ReadFatal(n)
      PROVE  Said' /\ Processed' /\ Returned' /\ Idle'
  <2>1. /\ TakeFrames(n)
        /\ UNCHANGED <<state, need_response, w_buf, wire, seen, phase, cmds>>
    BY <1>6 DEF ReadStarted, ReadFatal, TakeFrames, userVars, peerVars
  <2>2. Returned'
    <3>1. \A i \in 1..Len(inbox') : inbox'[i] = inbox[n + i] /\ n + i \in 1..Len(inbox)
      BY <2>1, LeftOver
    <3>2. Len(inbox') \in Nat
      BY <2>1, LeftOver, <1>3
    <3>3. \A i \in 1..Len(inbox') : inbox'[i] = "MSG" => seen' >= Len(Handshake')
      BY <1>0, <1>1, <2>1, <3>1 DEF Returned
    <3>4. ASSUME state' # "Started", NEW i \in 1..Len(inbox'), IsResponse(inbox'[i])
          PROVE  /\ need_response' /\ Len(wire') = Uttered' /\ seen' = Uttered'
                 /\ \A j \in 1..Len(inbox') : IsResponse(inbox'[j]) => i = j
      <4>1. n + i \in 1..Len(inbox) /\ IsResponse(inbox[n + i]) /\ state # "Started"
        BY <2>1, <3>1, <3>4
      <4>2. /\ need_response /\ Len(wire) = Uttered /\ seen = Uttered
            /\ \A j \in 1..Len(inbox) : IsResponse(inbox[j]) => n + i = j
        BY <1>0, <4>1 DEF Returned
      <4>3. ASSUME NEW j \in 1..Len(inbox'), IsResponse(inbox'[j]) PROVE i = j
        <5>1. n + i = n + j
          BY <3>1, <4>2, <4>3
        <5> QED
          BY <3>2, <5>1
      <4> QED
        BY <1>1, <2>1, <4>2, <4>3
    <3>5. \A i \in 1..Len(inbox') : IsResponse(inbox[i])' = IsResponse(inbox'[i])
      BY DEF IsResponse
    <3> QED
      BY <3>3, <3>4, <3>5 DEF Returned
  <2>3. Idle'
    <3>1. CASE state = "Started"
      BY <2>1, <3>1 DEF Idle
    <3>2. CASE state # "Started"
      <4>1. delivered' = delivered
        BY <1>0, <2>1, <3>2, NoMessages
      <4>2. responses' = responses
        BY <1>6, <3>2 DEF ReadStarted, ReadFatal
      <4> QED
        BY <1>i, <2>1, <4>1, <4>2
    <3> QED
      BY <3>1, <3>2
  <2> QED
    BY <1>s, <1>p, <2>1, <2>2, <2>3
<1>7. ASSUME NEW n \in 0..Len(inbox), ReadAnswer(n) \/ ReadUpgrade(n)
      PROVE  Said' /\ Processed' /\ Returned' /\ Idle'
  <2> DEFINE rs == Responses(SubSeq(inbox, 1, n))
  <2>1. /\ TakeFrames(n) /\ state # "Started" /\ After(Popped(rs)) \in States
        /\ state' = After(Popped(rs))
        /\ UNCHANGED <<w_buf, wire, seen, phase, cmds>>
    BY <1>7 DEF ReadAnswer, ReadUpgrade, TakeFrames, userVars, peerVars, States
  <2>2. /\ need_response /\ Len(wire) = Uttered /\ seen = Uttered /\ Rest(rs) = <<>>
        /\ \A i \in 1..Len(inbox') : ~IsResponse(inbox'[i])
    BY <1>0, <2>1, AnswerTaken
  <2>6. /\ Uttered' = Uttered /\ state' \notin {"Started", "Identify"} /\ state # "Rdy"
        /\ need_response' <=> state' = "Tls"
    BY <1>0, <1>7, AnswerUtters
  <2>7. Said'
    <3>1. SessionOrder'
      BY <1>0, <1>1, <2>1 DEF Said, SessionOrder
    <3>2. w_buf' = <<>>
      BY <1>0, <2>1, <2>2 DEF Said
    <3> QED
      BY <2>1, <2>2, <2>6, <3>1, <3>2 DEF Said
  <2>8. Processed'
    BY <1>0, <1>1, <2>1, <2>2, <2>6, <1>3, <1>4 DEF Processed
  <2>9. Returned'
    <3>1. \A i \in 1..Len(inbox') : inbox'[i] # "MSG"
      <4>1. \A i \in 1..Len(inbox) : inbox[i] # "MSG"
        BY <1>0, <2>1, NoMessages
      <4> QED
        BY <2>1, <4>1, LeftOver
    <3> QED
      BY <2>2, <3>1 DEF Returned, IsResponse
  <2>10. Idle'
    <3>1. responses' = <<>>
      BY <1>7, <2>2, <2>6 DEF ReadAnswer, ReadUpgrade
    <3>2. delivered' = delivered
      BY <1>0, <2>1, NoMessages
    <3> QED
      BY <1>0, <2>1, <3>1, <3>2 DEF Idle
  <2> QED
    BY <2>7, <2>8, <2>9, <2>10
<1>8. CASE WriteHandshake
  <2>1. /\ wire' = IF peer \in Lost THEN wire
                   ELSE wire \o SubSeq(Handshake, Uttered + 1, Reaches)
        /\ w_buf' = <<>> /\ state' = (IF state = "Rdy" THEN "Started" ELSE state)
        /\ need_response' = (state # "Rdy") /\ Uttered' = Reaches
    BY <1>0, <1>8, Utters
  <2>2. /\ state \in {"Identify", "Auth", "Subscribe", "Rdy"} /\ ~need_response
        /\ Reaches \in (Uttered + 1)..Len(Handshake)
    BY <1>0, <1>8, NextWords DEF WriteHandshake
  <2>3. UNCHANGED <<seen, phase, peer, inbox, cmds, delivered, responses>>
    BY <1>8 DEF WriteHandshake, peerVars, userVars
  <2>4. CASE peer \in Lost
    <3>1. wire' = wire /\ SessionOrder' /\ peer' \in Lost
      BY <1>0, <1>1, <2>1, <2>3, <2>4 DEF Said, SessionOrder
    <3>2. Len(wire) <= Uttered
      BY <1>0, <2>2 DEF Said
    <3>3. Said'
      <4>1. Len(wire') <= Uttered'
        BY <1>3, <1>4, <2>1, <2>2, <3>1, <3>2
      <4>2. state' = "Identify" => need_response'
        BY <2>1, <2>2
      <4> QED
        BY <2>1, <3>1, <4>1, <4>2 DEF Said
    <3>4. Processed'
      BY <1>0, <1>1, <2>3, <3>1 DEF Processed
    <3> QED
      <4>1. \A i \in 1..Len(inbox) : ~IsResponse(inbox[i])
        BY <1>0, <2>2 DEF Returned
      <4>2. Returned'
        BY <1>0, <1>1, <2>3, <4>1 DEF Returned, IsResponse
      <4>3. Idle'
        BY <1>0, <2>2, <2>3 DEF Idle
      <4> QED
        BY <3>3, <3>4, <4>2, <4>3
  <2>5. CASE peer \notin Lost
    <3>1. Len(wire) = Uttered /\ seen = Uttered
      BY <1>0, <2>2, <2>5 DEF Said, Processed
    <3>2. SessionOrder' /\ Len(wire') = Reaches
      BY <1>0, <2>1, <2>2, <2>5, <3>1, OrderUttered DEF Said
    <3>3. Said'
      <4>1. state' = "Identify" => need_response'
        BY <2>1, <2>2
      <4>2. state' = "Started" => Len(wire') >= Len(Handshake')
        <5>1. state' = "Started" => state = "Rdy"
          BY <2>1, <2>2
        <5>2. state = "Rdy" => Uttered = Len(Handshake) - 1
          BY <1>3, Far DEF Control, Secured
        <5> QED
          BY <1>1, <1>4, <2>2, <3>2, <5>1, <5>2
      <4>3. Len(wire') <= Uttered' /\ Len(wire') = Uttered'
        BY <1>4, <2>1, <2>2, <3>2
      <4> QED
        BY <2>1, <3>2, <4>1, <4>2, <4>3 DEF Said
    <3>4. Processed'
      <4>1. seen' <= Len(wire') /\ (state' # "Identify" => seen' >= Uttered' - 1)
        <5>1. state # "Identify" => Reaches = Uttered + 1
          BY DEF Reaches
        <5> QED
          BY <1>3, <1>4, <2>1, <2>2, <2>3, <3>1, <3>2, <5>1
      <4>2. state' # "Started" => need_response' /\ state' # "Tls"
        BY <2>1, <2>2
      <4> QED
        BY <1>0, <1>1, <2>3, <4>1, <4>2 DEF Processed
    <3> QED
      <4>1. \A i \in 1..Len(inbox) : ~IsResponse(inbox[i])
        BY <1>0, <2>2 DEF Returned
      <4>2. Returned'
        BY <1>0, <1>1, <2>3, <4>1 DEF Returned, IsResponse
      <4>3. Idle'
        BY <1>0, <2>2, <2>3 DEF Idle
      <4> QED
        BY <3>3, <3>4, <4>2, <4>3
  <2> QED
    BY <2>4, <2>5
<1>9. CASE WriteStarted \/ (ClientEvent /\ state = "Started")
  <2>1. state = "Started" /\ UNCHANGED <<state, need_response, seen, phase, peer, inbox>>
    BY <1>9 DEF WriteStarted, ClientEvent, peerVars
  <2>2. PICK nop \in {<<>>, <<"NOP">>} : WriteMessages(nop)
    BY <1>9 DEF WriteStarted, ClientEvent, Nop
  <2>3. w_buf = <<>>
    BY <1>0, <2>1 DEF Said
  <2>4. w_buf' = <<>> /\ \E more \in Seq(Remarks) :
                            wire' = IF peer = "open" THEN wire \o more ELSE wire
    BY <2>2, <2>3, OnlyRemarks
  <2>5. peer # "connecting" /\ (peer = "open" => peer \notin Lost)
    BY <2>1 DEF Control, Unconnected, Lost
  <2>6. SessionOrder' /\ Len(wire') \in Nat /\ Len(wire') >= Len(wire)
        /\ (peer \notin Lost => Len(wire') >= Len(Handshake))
    <3>1. CASE peer = "open"
      <4>1. PICK more \in Seq(Remarks) : wire' = wire \o more
        BY <2>4, <3>1
      <4>2. SessionOrder' /\ Len(wire') >= Len(Handshake)
        BY <1>0, <2>1, <2>5, <3>1, <4>1, OrderRemarks DEF Said
      <4>3. Len(wire') = Len(wire) + Len(more) /\ Len(more) \in Nat
        <5>1. more \in Seq(Commands)
          BY DEF Remarks, Commands
        <5> QED
          BY <1>3, <4>1, <5>1, Joined
      <4> QED
        BY <1>3, <4>2, <4>3
    <3>2. CASE peer # "open"
      <4>1. wire' = wire /\ peer \in Lost
        BY <2>4, <2>5, <3>2 DEF TypeOK, PeerTypes, Lost
      <4> QED
        BY <1>0, <1>1, <1>3, <4>1 DEF Said, SessionOrder
    <3> QED
      BY <3>1, <3>2
  <2>7. Said'
    BY <1>0, <1>1, <2>1, <2>4, <2>6 DEF Said
  <2>8. Processed' /\ Returned' /\ Idle'
    <3>1. Processed'
      BY <1>0, <1>1, <1>3, <2>1, <2>6 DEF Processed
    <3>2. Returned'
      BY <1>0, <1>1, <2>1 DEF Returned
    <3> QED
      BY <2>1, <3>1, <3>2 DEF Idle
  <2> QED
    BY <2>7, <2>8
<1>10. CASE ClientEvent /\ state # "Started"
  <2>1. cmds = <<>>
    BY <1>0, <1>10 DEF Idle
  <2>2. wire' = wire /\ w_buf' = w_buf /\ cmds' = <<>>
    <3>1. <<>> \o cmds = <<>>
      BY <2>1
    <3> QED
      BY <1>10, <3>1 DEF ClientEvent, WriteMessages
  <2>3. UNCHANGED <<state, need_response, w_buf, wire, seen, phase, inbox, cmds, delivered,
                    responses>>
    BY <1>10, <2>1, <2>2 DEF ClientEvent, peerVars
  <2> QED
    BY <1>s, <1>p, <1>r, <1>i, <2>3
<1>11. CASE TlsHandshake
  <2>1. /\ state = "Tls" /\ need_response /\ peer = "open" /\ seen = Len(wire)
        /\ inbox' = <<"OK">> /\ phase = "tls" /\ phase' = "init"
        /\ UNCHANGED <<state, need_response, w_buf, wire, seen, cmds, delivered, responses>>
    BY <1>11 DEF TlsHandshake, Control, Secured, connVars, userVars
  <2>2. Len(wire) = Uttered
    BY <1>0, <2>1 DEF Said, Lost
  <2>3. Len(inbox') = 1 /\ inbox'[1] = "OK" /\ \A i \in 1..1 : i = 1
    BY <2>1
  <2>4. Returned'
    BY <1>1, <2>1, <2>2, <2>3 DEF Returned
  <2>5. Processed'
    BY <1>0, <1>1, <1>2, <2>1 DEF Processed
  <2> QED
    BY <1>s, <1>i, <2>1, <2>4, <2>5
<1>12. ASSUME NEW cmd \in HandlerCmds, HandlerSend(cmd)
       PROVE  Said' /\ Processed' /\ Returned' /\ Idle'
  <2>1. UNCHANGED <<state, need_response, w_buf, wire, seen, phase, inbox>>
    BY <1>12 DEF HandlerSend, connVars, netVars, peerVars
  <2>2. state = "Started"
    <3>1. finished < delivered /\ finished \in Nat
      BY <1>0, <1>12 DEF HandlerSend, Quiet, TypeOK, UserTypes
    <3> QED
      BY <1>0, <3>1 DEF Idle
  <2>3. Idle'
    BY <2>1, <2>2 DEF Idle
  <2> QED
    BY <1>s, <1>p, <1>r, <2>1, <2>3
<1>13. CASE NsqdAnswer
  <2> DEFINE cmd == wire[seen + 1]
  <2>1. /\ peer = "open" /\ seen < Len(wire) /\ seen' = seen + 1
        /\ UNCHANGED <<state, need_response, w_buf, wire, cmds, delivered, responses>>
    BY <1>13 DEF NsqdAnswer, ownVars, connVars, userVars
  <2>8. PICK a \in {Answer(cmd)} \cup TooLate(cmd) : phase' = a.to /\ inbox' = inbox \o a.reply
    BY <1>13 DEF NsqdAnswer
  <2> HIDE DEF cmd
  <2>2. phase # "gone"
    BY <2>1 DEF Gone, Lost
  <2>3. /\ a.reply \in {<<>>, <<"CONFIG">>, <<"OK">>, <<"ERR">>}
        /\ a.to \in {"init", "tls", "authed", "sub", "ready", "gone"}
    BY <2>2, <2>8, AnswerTypes, TooLateTypes
  <2>9. a \in TooLate(cmd) => seen >= Len(Handshake)
    BY <1>0, TooLateTypes DEF Processed
  <2>4. a.to = "ready" => seen + 1 >= Len(Handshake)
    <3>1. CASE a \in TooLate(cmd)
      BY <1>3, <1>4, <2>9, <3>1
    <3>2. CASE a = Answer(cmd)
      BY <1>0, <2>1, <2>2, <3>2, ReadyAfterAll DEF Said, cmd
    <3> QED
      BY <2>8, <3>1, <3>2
  <2>5. state # "Started" =>
           /\ need_response /\ Len(wire) = Uttered /\ state # "Tls"
           /\ \/ seen + 1 = Uttered
              \/ state = "Identify" /\ seen = 0 /\ a.reply = <<>>
    <3>1. CASE a \in TooLate(cmd)
      <4>1. state # "Started" => seen < Len(Handshake)
        BY <1>0, <1>3, <1>4, <2>1 DEF Said
      <4> QED
        BY <1>3, <1>4, <2>9, <3>1, <4>1
    <3>2. CASE a = Answer(cmd)
      BY <1>0, <2>1, <3>2, OneAnswer DEF cmd
    <3> QED
      BY <2>8, <3>1, <3>2
  <2>6. Processed'
    <3>1. /\ seen' <= Len(wire') /\ seen' # 0 /\ phase' # "new"
          /\ (phase' = "ready" => seen' >= Len(Handshake'))
      BY <1>1, <1>3, <2>1, <2>3, <2>4, <2>8
    <3>2. ASSUME state' # "Started"
          PROVE  ~(state' = "Tls" \/ ~need_response') /\ (state' # "Identify" => seen' >= Uttered' - 1)
      BY <1>1, <1>3, <1>4, <2>1, <2>5, <3>2
    <3> QED
      BY <3>1, <3>2 DEF Processed
  <2>7. Returned'
    <3>1. /\ a.reply \in Seq(Frames) /\ Len(a.reply) \in {0, 1}
          /\ \A i \in 1..Len(a.reply) : a.reply[i] # "MSG"
      <4>1. ASSUME NEW f \in {"CONFIG", "OK", "ERR"}
            PROVE  <<f>> \in Seq(Frames) /\ Len(<<f>>) = 1 /\ \A i \in 1..1 : <<f>>[i] # "MSG"
        BY DEF Frames
      <4>2. CASE a.reply = <<>>
        BY <4>2
      <4>3. CASE a.reply # <<>>
        <5>1. PICK f \in {"CONFIG", "OK", "ERR"} : a.reply = <<f>>
          BY <2>3, <4>3
        <5>2. <<f>> \in Seq(Frames) /\ Len(<<f>>) = 1 /\ \A i \in 1..1 : <<f>>[i] # "MSG"
          BY <4>1
        <5> QED
          BY <5>1, <5>2
      <4> QED
        BY <4>2, <4>3
    <3>2. /\ Len(inbox') = Len(inbox) + Len(a.reply)
          /\ \A i \in 1..Len(inbox) : inbox'[i] = inbox[i]
          /\ \A i \in 1..Len(a.reply) : inbox'[Len(inbox) + i] = a.reply[i]
      BY <1>3, <2>8, <3>1, Joined
    <3>3. ASSUME NEW i \in 1..Len(inbox'), i \notin 1..Len(inbox)
          PROVE  i = Len(inbox) + 1 /\ Len(a.reply) = 1 /\ inbox'[i] = a.reply[1]
      <4>1. Len(a.reply) = 1 /\ i = Len(inbox) + 1
        <5>1. i \in 1..(Len(inbox) + Len(a.reply)) /\ Len(a.reply) \in {0, 1}
          BY <3>1, <3>2, <3>3
        <5>2. i \in Nat /\ i > Len(inbox) /\ i <= Len(inbox) + Len(a.reply)
          BY <1>3, <3>3, <5>1
        <5>3. CASE Len(a.reply) = 0
          BY <1>3, <5>2, <5>3
        <5>4. CASE Len(a.reply) = 1
          BY <1>3, <5>2, <5>4
        <5> QED
          BY <5>1, <5>3, <5>4
      <4> QED
        BY <3>2, <4>1
    <3>4. ASSUME NEW i \in 1..Len(inbox'), inbox'[i] = "MSG" PROVE seen' >= Len(Handshake')
      <4>1. i \in 1..Len(inbox)
        <5>1. SUFFICES ASSUME i \notin 1..Len(inbox) PROVE FALSE
          OBVIOUS
        <5>2. inbox'[i] = a.reply[1] /\ 1 \in 1..Len(a.reply)
          BY <3>3, <5>1
        <5> QED
          BY <3>1, <3>4, <5>2
      <4>2. seen >= Len(Handshake)
        BY <1>0, <3>2, <3>4, <4>1 DEF Returned
      <4> QED
        BY <1>1, <1>3, <1>4, <2>1, <4>2
    <3>5. ASSUME state' # "Started", NEW i \in 1..Len(inbox'), IsResponse(inbox'[i])
          PROVE  /\ need_response' /\ Len(wire') = Uttered' /\ seen' = Uttered'
                 /\ \A j \in 1..Len(inbox') : IsResponse(inbox'[j]) => i = j
      <4>1. need_response /\ Len(wire) = Uttered /\ seen # Uttered /\ Uttered' = Uttered
        BY <1>1, <1>3, <2>1, <2>5, <3>5
      <4>2. \A j \in 1..Len(inbox) : ~IsResponse(inbox[j])
        BY <1>0, <2>1, <3>5, <4>1 DEF Returned
      <4>3. ASSUME NEW j \in 1..Len(inbox'), IsResponse(inbox'[j])
            PROVE  j = Len(inbox) + 1 /\ Len(a.reply) = 1
        <5>1. j \notin 1..Len(inbox)
          BY <3>2, <4>2, <4>3
        <5> QED
          BY <3>3, <5>1
      <4>4. a.reply # <<>>
        <5>1. Len(a.reply) = 1
          BY <3>5, <4>3
        <5> QED
          BY <5>1
      <4>5. seen + 1 = Uttered
        BY <2>1, <2>5, <3>5, <4>4
      <4> QED
        BY <2>1, <3>5, <4>1, <4>3, <4>5
    <3>6. \A i \in 1..Len(inbox') : IsResponse(inbox[i])' = IsResponse(inbox'[i])
      BY DEF IsResponse
    <3> QED
      BY <3>4, <3>5, <3>6 DEF Returned
  <2> QED
    BY <1>s, <1>i, <2>1, <2>6, <2>7
<1>14. CASE NsqdMessage \/ NsqdHeartbeat
  <2>1. PICK f \in {"MSG", "HEARTBEAT"} : inbox' = Append(inbox, f) /\ (f = "MSG" => phase = "ready")
    BY <1>14 DEF NsqdMessage, NsqdHeartbeat
  <2>2. UNCHANGED <<state, need_response, w_buf, wire, seen, phase, cmds, delivered, responses>>
    BY <1>14 DEF NsqdMessage, NsqdHeartbeat, ownVars, connVars, userVars
  <2>3. /\ Len(inbox') = Len(inbox) + 1 /\ inbox'[Len(inbox) + 1] = f
        /\ \A i \in 1..Len(inbox) : inbox'[i] = inbox[i]
    BY <1>3, <2>1 DEF Frames
  <2>4. Returned'
    <3>1. ASSUME NEW i \in 1..Len(inbox'), inbox'[i] = "MSG" PROVE seen' >= Len(Handshake')
      <4>1. CASE i \in 1..Len(inbox)
        BY <1>0, <1>1, <2>2, <2>3, <3>1, <4>1 DEF Returned
      <4>2. CASE i = Len(inbox) + 1
        BY <1>0, <1>1, <2>1, <2>2, <2>3, <3>1, <4>2 DEF Processed
      <4> QED
        BY <1>3, <2>3, <4>1, <4>2
    <3>2. \A i \in 1..Len(inbox') : IsResponse(inbox'[i]) => i \in 1..Len(inbox) /\ IsResponse(inbox[i])
      <4>1. ~IsResponse(f)
        BY <2>1 DEF IsResponse
      <4> QED
        BY <1>3, <2>3, <4>1
    <3>3. \A i \in 1..Len(inbox') : IsResponse(inbox[i])' = IsResponse(inbox'[i])
      BY DEF IsResponse
    <3> QED
      BY <1>0, <1>1, <2>2, <3>1, <3>2, <3>3 DEF Returned
  <2> QED
    BY <1>s, <1>p, <1>i, <2>2, <2>4
<1> QED
  BY <1>5, <1>6, <1>7, <1>8, <1>9, <1>10, <1>11, <1>12, <1>13, <1>14
     DEF Next, LoopNext, EnvNext, Read

\* The loop and nsqd keep to the dialogue.
THEOREM DialogueCorrect == Spec => [](TypeOK /\ Gone /\ Control /\ Dialogue)
<1>1. Init => Dialogue
  BY DialogueInit
<1>2. TypeOK /\ Gone /\ Control /\ Dialogue /\ [Next]_vars => Dialogue'
  BY DialogueStep
<1> QED
  BY <1>1, <1>2, ControlCorrect, PTL DEF Spec

\* A consumer that sends in on_msg only speaks in the order the protocol asks for,
\* for every set of clients, servers, faults and commands and however many messages.
THEOREM SessionInOrder == Spec => []SessionOrder
<1>1. Dialogue => SessionOrder
  BY DEF Dialogue, Said, SessionOrder
<1> QED
  BY <1>1, DialogueCorrect, PTL

-----------------------------------------------------------------------------
(* The refinement *)

\* The loop starts as a Session does.
LEMMA SessionInit == Init => S!Init
<1> SUFFICES ASSUME Init PROVE S!Init
  OBVIOUS
<1>1. Handshake \in {<<"MAGIC", "IDENTIFY">> \o auth \o <<"SUB", "RDY">> : auth \in {<<>>, <<"AUTH">>}}
  BY DEF Handshake
<1>2. Punctual \in BOOLEAN
  <2>1. ASSUME NEW x, NEW y PROVE (x \in y) \in BOOLEAN
    BY SMTT(30)
  <2>2. (setup.config.heartbeat_interval \in 1..45000) \in BOOLEAN
    BY <2>1
  <2> QED
    BY <2>2, SMTT(60) DEF Punctual
<1>3. Uttered = 0
  BY Far DEF Init, States
<1>4. Consumed(Uttered, 0) = 0 /\ Consumed(wire, <<>>) = <<>> /\ Consumed(seen, 0) = 0
      /\ Consumed(delivered, 0) = 0
  BY <1>3 DEF Init, Consumed
<1>5. Consumed(need_response, FALSE) = FALSE /\ Consumed(pilled, FALSE) = FALSE
  BY DEF Init, Consumed
<1>6. Consumed(peer \in Lost, FALSE) = FALSE /\ Consumed(outcome # "running", FALSE) = FALSE
  BY DEF Init, Consumed, Lost
<1>7. setup.informed \in BOOLEAN
  BY EventLoopAssumption DEF Init, Setup
<1> QED
  BY <1>1, <1>2, <1>4, <1>5, <1>6, <1>7, Zenon DEF S!Init

\* Other clients have no session.
LEMMA OthersStutter ==
    ASSUME [Next]_vars, ~Quiet
    PROVE  UNCHANGED S!vars
<1>1. setup' = setup /\ Handshake' = Handshake /\ Punctual' = Punctual
  BY SetupFacts DEF Handshake
<1>3. Quiet' = Quiet
  BY <1>1 DEF Quiet
<1>2. /\ Consumed(Uttered, 0) = 0 /\ Consumed(Uttered, 0)' = 0
      /\ Consumed(need_response, FALSE) = FALSE /\ Consumed(need_response, FALSE)' = FALSE
      /\ Consumed(wire, <<>>) = <<>> /\ Consumed(wire, <<>>)' = <<>>
      /\ Consumed(seen, 0) = 0 /\ Consumed(seen, 0)' = 0
      /\ Consumed(peer \in Lost, FALSE) = FALSE /\ Consumed(peer \in Lost, FALSE)' = FALSE
      /\ Consumed(delivered, 0) = 0 /\ Consumed(delivered, 0)' = 0
      /\ Consumed(pilled, FALSE) = FALSE /\ Consumed(pilled, FALSE)' = FALSE
      /\ Consumed(outcome # "running", FALSE) = FALSE
      /\ Consumed(outcome # "running", FALSE)' = FALSE
  BY <1>3 DEF Consumed
<1> QED
  BY <1>1, <1>2 DEF S!vars

\* What is behind a sequence is what was added.
LEMMA AddedWords ==
    ASSUME NEW X, NEW s \in Seq(X), NEW Y, NEW t \in Seq(Y)
    PROVE  SubSeq(s \o t, Len(s) + 1, Len(s \o t)) = t
OBVIOUS

\* The session of a consumer.
LEMMA ConsumerSession ==
    ASSUME [Next]_vars, Quiet
    PROVE  /\ Consumed(Uttered, 0) = Uttered /\ Consumed(Uttered, 0)' = Uttered'
           /\ Consumed(need_response, FALSE) = need_response
           /\ Consumed(need_response, FALSE)' = need_response'
           /\ Consumed(wire, <<>>) = wire /\ Consumed(wire, <<>>)' = wire'
           /\ Consumed(seen, 0) = seen /\ Consumed(seen, 0)' = seen'
           /\ Consumed(peer \in Lost, FALSE) = (peer \in Lost)
           /\ Consumed(peer \in Lost, FALSE)' = (peer' \in Lost)
           /\ Consumed(delivered, 0) = delivered /\ Consumed(delivered, 0)' = delivered'
           /\ Consumed(pilled, FALSE) = pilled /\ Consumed(pilled, FALSE)' = pilled'
           /\ Consumed(outcome # "running", FALSE) = (outcome # "running")
           /\ Consumed(outcome # "running", FALSE)' = (outcome' # "running")
           /\ Handshake' = Handshake /\ Punctual' = Punctual /\ setup' = setup
<1>1. setup' = setup /\ Handshake' = Handshake /\ Punctual' = Punctual
  BY SetupFacts DEF Handshake
<1>2. Quiet' = Quiet
  BY <1>1 DEF Quiet
<1> QED
  BY <1>1, <1>2 DEF Consumed, Lost

\* What a step that Session does not see leaves alone.
LEMMA Unseen ==
    ASSUME [Next]_vars, TypeOK, Quiet,
           UNCHANGED <<state, need_response, wire, seen, delivered, pilled>>,
           peer \in Lost <=> peer' \in Lost,
           outcome = "running" <=> outcome' = "running"
    PROVE  UNCHANGED S!vars
<1>1. Uttered' = Uttered
  BY ScriptFixed DEF TypeOK, ConnTypes
<1>2. (peer' \in Lost) = (peer \in Lost) /\ (outcome' # "running") = (outcome # "running")
  OBVIOUS
<1> QED
  BY <1>1, <1>2, ConsumerSession DEF S!vars

\* Every step of the loop and of nsqd is one of the Session or none.
LEMMA SessionStep ==
    TypeOK /\ Gone /\ Control /\ Dialogue /\ [Next]_vars => [S!Next]_(S!vars)
<1> SUFFICES ASSUME TypeOK, Gone, Control, Dialogue, [Next]_vars, Quiet
             PROVE  S!Next \/ UNCHANGED S!vars
  BY OthersStutter
<1>0. Said /\ Processed /\ Returned /\ Idle
  BY DEF Dialogue
<1>1. /\ Handshake' = Handshake /\ Punctual' = Punctual
      /\ (UNCHANGED <<state, need_response>> => Uttered' = Uttered)
  BY ScriptFixed, SetupFacts DEF TypeOK, ConnTypes
<1>3. /\ state \in States /\ need_response \in BOOLEAN /\ inbox \in Seq(Frames)
      /\ wire \in Seq(Commands) /\ Len(wire) \in Nat /\ seen \in Nat
      /\ (state = "Auth" => auth_required)
  BY DEF TypeOK, ConnTypes, PeerTypes, Control, Secured
<1>4. state = "Started" => Uttered = Len(Handshake) /\ ~need_response
  BY <1>3, Far DEF Control, Turns
<1>5. CASE \/ ReadEof \/ TlsHandshake \/ UserClose \/ Sentinel \/ NsqdMessage
           \/ NsqdHeartbeat \/ Connected \/ Elapse \/ UNCHANGED vars
           \/ \E cmd \in HandlerCmds : HandlerSend(cmd)
  <2>1. /\ UNCHANGED <<state, need_response, wire, seen, delivered, pilled, outcome>>
        /\ peer \in Lost <=> peer' \in Lost
    BY <1>5 DEF ReadEof, TlsHandshake, UserClose, Sentinel, NsqdMessage, NsqdHeartbeat,
                Connected, Elapse, HandlerSend, vars, ownVars, connVars, endVars, netVars,
                peerVars, userVars, Lost
  <2> QED
    BY <2>1, Unseen
<1>6. CASE Poll
  <2>1. UNCHANGED <<state, need_response, wire, seen, delivered, outcome, peer>>
        /\ outcome = "running"
    BY <1>6 DEF Poll, connVars, netVars, peerVars
  <2>2. CASE late
    <3>1. peer \in Lost \/ ~Punctual \/ ~Settled
      BY <2>2 DEF Control, Lateness
    <3>2. CASE pilled' = pilled
      BY <2>1, <3>2, Unseen
    <3>3. CASE pilled' # pilled
      <4>1. pilled' = TRUE
        BY <1>6, <3>3 DEF Poll, TypeOK, LoopTypes
      <4>2. S!Report
        BY <1>1, <2>1, <3>1, <4>1, ConsumerSession DEF S!Report, S!Settled, S!fixed, Settled
      <4> QED
        BY <4>2 DEF S!Next
    <3> QED
      BY <3>2, <3>3
  <2>3. CASE ~late
    <3>1. pilled' = pilled
      BY <1>6, <2>3 DEF Poll, LastHeartbeatLost, TypeOK, LoopTypes
    <3> QED
      BY <2>1, <3>1, Unseen
  <2> QED
    BY <2>2, <2>3
<1>7. ASSUME NEW n \in 0..Len(inbox), ReadStarted(n) PROVE S!Next \/ UNCHANGED S!vars
  <2>1. /\ TakeFrames(n) /\ state = "Started" /\ outcome = "running"
        /\ UNCHANGED <<state, need_response, wire, seen, pilled, outcome, peer>>
    BY <1>7 DEF ReadStarted, TakeFrames, Dispatch, peerVars
  <2>2. CASE delivered' = delivered
    BY <2>1, <2>2, Unseen
  <2>3. CASE delivered' # delivered
    <3> DEFINE frames == SubSeq(inbox, 1, n)
    <3>1. frames \in Seq(Frames) /\ Len(frames) = n /\ \A i \in 1..n : frames[i] = inbox[i]
      BY <1>3, Split
    <3> HIDE DEF frames
    <3>2. delivered' = delivered + Count(frames, "MSG") /\ delivered \in Nat
      BY <2>1 DEF TakeFrames, Decode, TypeOK, UserTypes, frames
    <3>3. Count(frames, "MSG") \in Nat
          /\ (Count(frames, "MSG") = 0 <=> \A i \in 1..Len(frames) : frames[i] # "MSG")
      BY <3>1, CountType
    <3>4. PICK i \in 1..n : inbox[i] = "MSG"
      BY <2>3, <3>1, <3>2, <3>3
    <3>5. seen >= Len(Handshake)
      <4>1. i \in 1..Len(inbox)
        BY <1>3
      <4> QED
        BY <1>0, <3>4, <4>1 DEF Returned
    <3>6. delivered' > delivered
      BY <2>3, <3>2, <3>3
    <3>7. S!Deliver
      BY <1>1, <1>4, <2>1, <3>5, <3>6, ConsumerSession DEF S!Deliver, S!Subscribed, S!fixed
    <3> QED
      BY <3>7 DEF S!Next
  <2> QED
    BY <2>2, <2>3
<1>8. ASSUME NEW n \in 0..Len(inbox), ReadAnswer(n) \/ ReadUpgrade(n)
      PROVE  S!Next \/ UNCHANGED S!vars
  <2> DEFINE rs == Responses(SubSeq(inbox, 1, n))
  <2>1. /\ TakeFrames(n) /\ state # "Started" /\ After(Popped(rs)) \in States
        /\ state' = After(Popped(rs)) /\ outcome = "running"
        /\ UNCHANGED <<wire, seen, pilled, outcome, peer>>
    BY <1>8 DEF ReadAnswer, ReadUpgrade, TakeFrames, Dispatch, peerVars, States
  <2>2. need_response /\ Len(wire) = Uttered /\ seen = Uttered
    BY <1>0, <2>1, AnswerTaken
  <2>3. delivered' = delivered
    BY <1>0, <2>1, NoMessages
  <2>4. Uttered' = Uttered /\ (need_response' <=> state' = "Tls")
    BY <1>0, <1>8, AnswerUtters
  <2>5. CASE ReadAnswer(n)
    <3>1. need_response' = FALSE
      BY <2>5 DEF ReadAnswer
    <3>2. S!Answered
      BY <1>1, <2>1, <2>2, <2>3, <2>4, <3>1, ConsumerSession DEF S!Answered, S!fixed
    <3> QED
      BY <3>2 DEF S!Next
  <2>6. CASE ReadUpgrade(n)
    <3>1. need_response' = need_response
      BY <2>6 DEF ReadUpgrade
    <3> QED
      BY <2>1, <2>3, <2>4, <3>1, ConsumerSession DEF S!vars
  <2> QED
    BY <1>8, <2>5, <2>6
<1>9. CASE \/ \E n \in 0..Len(inbox) : ReadFatal(n)
           \/ ReadError \/ TlsFailure
  <2>1. /\ outcome = "running" /\ outcome' # "running"
        /\ UNCHANGED <<state, need_response, wire, seen, pilled, peer>>
    BY <1>9 DEF ReadFatal, ReadError, TlsFailure, TakeFrames, Dispatch, connVars, netVars, peerVars
  <2>2. delivered' = delivered
    <3>1. ASSUME NEW n \in 0..Len(inbox), ReadFatal(n) PROVE delivered' = delivered
      BY <1>0, <3>1, NoMessages DEF ReadFatal
    <3> QED
      BY <1>9, <3>1 DEF ReadError, TlsFailure
  <2>3. need_response \/ peer \in Lost
    BY <1>9 DEF ReadFatal, ReadError, TlsFailure, TakeFrames, Control, Turns, Secured, Lost
  <2>4. S!Fail
    BY <1>1, <2>1, <2>2, <2>3, ConsumerSession DEF S!Fail, S!fixed
  <2> QED
    BY <2>4 DEF S!Next
<1>10. CASE WriteHandshake
  <2>1. /\ wire' = IF peer \in Lost THEN wire
                   ELSE wire \o SubSeq(Handshake, Uttered + 1, Reaches)
        /\ Uttered' = Reaches
    BY <1>0, <1>10, Utters
  <2>2. /\ ~need_response /\ Reaches \in (Uttered + 1)..Len(Handshake)
        /\ need_response' = Asks(Handshake[Reaches])
        /\ \A i \in (Uttered + 1)..(Reaches - 1) : ~Asks(Handshake[i])
    BY <1>0, <1>10, NextWords DEF WriteHandshake, Greets
  <2>3. outcome = "running" /\ UNCHANGED <<seen, peer, delivered, pilled, outcome>>
    BY <1>10 DEF WriteHandshake, Dispatch, peerVars, endVars
  <2>4. S!Utter(Reaches)
    BY <1>1, <2>1, <2>2, <2>3, ConsumerSession DEF S!Utter, S!Questions, S!fixed, Asks
  <2>5. Reaches \in (Consumed(Uttered, 0) + 1)..Len(Handshake)
    BY <2>2, ConsumerSession
  <2> QED
    BY <2>4, <2>5 DEF S!Next
<1>11. CASE WriteStarted \/ (ClientEvent /\ state = "Started")
  <2>1. /\ state = "Started" /\ outcome = "running"
        /\ UNCHANGED <<state, need_response, seen, peer, pilled, delivered>>
    BY <1>11 DEF WriteStarted, ClientEvent, Dispatch, peerVars
  <2>2. PICK nop \in {<<>>, <<"NOP">>} : WriteMessages(nop)
    BY <1>11 DEF WriteStarted, ClientEvent, Nop
  <2>3. PICK more \in Seq(Remarks) :
           /\ wire' = IF peer = "open" THEN wire \o more ELSE wire
           /\ more = <<>> => outcome' = outcome
    <3>1. w_buf = <<>>
      BY <1>0, <2>1 DEF Said
    <3> QED
      BY <2>2, <3>1, OnlyRemarks
  <2>4. CASE more = <<>>
    <3>1. wire \o <<>> = wire
      BY <1>3
    <3> QED
      BY <2>1, <2>3, <2>4, <3>1, Unseen
  <2>5. CASE more # <<>> /\ peer = "open"
    <3>1. wire' = wire \o more
      BY <2>3, <2>5
    <3>2. SubSeq(wire', Len(wire) + 1, Len(wire')) = more
      BY <1>3, <3>1, AddedWords
    <3>3. peer \notin Lost
      BY <2>5 DEF Lost
    <3>4. S!Remark
      BY <1>1, <1>4, <2>1, <2>5, <3>1, <3>2, <3>3, ConsumerSession
         DEF S!Remark, S!Subscribed, S!Remarks, S!fixed, Remarks
    <3> QED
      BY <3>4 DEF S!Next
  <2>6. CASE peer # "open"
    <3>1. wire' = wire /\ peer \in Lost
      BY <2>1, <2>3, <2>6 DEF Control, Unconnected, Lost, TypeOK, PeerTypes
    <3>2. CASE outcome' = outcome
      BY <2>1, <3>1, <3>2, Unseen
    <3>3. CASE outcome' # outcome
      <4>1. S!Fail
        BY <1>1, <2>1, <3>1, <3>3, ConsumerSession DEF S!Fail, S!fixed
      <4> QED
        BY <4>1 DEF S!Next
    <3> QED
      BY <3>2, <3>3
  <2> QED
    BY <2>4, <2>5, <2>6
<1>12. CASE ClientEvent /\ state # "Started"
  <2>1. cmds = <<>> /\ <<>> \o cmds = <<>> /\ Len(cmds) = 0
    BY <1>0, <1>12 DEF Idle
  <2>2. ~(Len(cmds) > in_flight)
    BY <2>1, EventLoopAssumption DEF TypeOK, ConnTypes
  <2>3. UNCHANGED <<state, need_response, wire, seen, delivered, pilled, outcome, peer>>
    BY <1>12, <2>1, <2>2 DEF ClientEvent, WriteMessages, peerVars
  <2> QED
    BY <2>3, Unseen
<1>13. CASE CmdEvent
  <2>1. /\ outcome = "running"
        /\ UNCHANGED <<state, need_response, wire, seen, delivered, peer>>
    BY <1>13 DEF CmdEvent, Dispatch, connVars, netVars, peerVars
  <2>2. CASE r_close > 0
    <3>1. outcome' # "running" /\ pilled' = TRUE
      BY <1>13, <2>2 DEF CmdEvent, Closed
    <3>2. S!Close
      BY <1>1, <2>1, <3>1, ConsumerSession DEF S!Close, S!fixed
    <3> QED
      BY <3>2 DEF S!Next
  <2>3. CASE ~(r_close > 0)
    <3>1. UNCHANGED <<outcome, pilled>>
      BY <1>13, <2>3 DEF CmdEvent
    <3> QED
      BY <2>1, <3>1, Unseen
  <2> QED
    BY <2>2, <2>3
<1>16. CASE ReadWouldBlock
  <2>1. /\ outcome = "running"
        /\ UNCHANGED <<state, need_response, wire, seen, delivered, pilled, peer>>
    BY <1>16 DEF ReadWouldBlock, Dispatch, connVars, netVars, peerVars
  <2>2. CASE outcome' = outcome
    BY <2>1, <2>2, Unseen
  <2>3. CASE outcome' # outcome
    <3>1. ~setup.informed /\ outcome' # "running"
      BY <1>16, <2>3 DEF ReadWouldBlock
    <3>2. S!Fail
      BY <1>1, <2>1, <3>1, ConsumerSession DEF S!Fail, S!fixed
    <3> QED
      BY <3>2 DEF S!Next
  <2> QED
    BY <2>2, <2>3
<1>14. CASE NsqdAnswer
  <2>1. /\ peer = "open" /\ seen < Len(wire) /\ seen' = seen + 1
        /\ UNCHANGED <<state, need_response, wire, delivered, pilled, outcome>>
    BY <1>14 DEF NsqdAnswer, ownVars, connVars, endVars
  <2>2. peer \notin Lost /\ (peer' \in Lost) \in BOOLEAN
    BY <2>1 DEF Lost
  <2>3. S!Serve
    BY <1>1, <2>1, <2>2, ConsumerSession DEF S!Serve, S!fixed
  <2> QED
    BY <2>3 DEF S!Next
<1>15. CASE PeerFails
  <2>1. /\ UNCHANGED <<state, need_response, wire, seen, delivered, pilled, outcome>>
        /\ peer \notin Lost /\ peer' \in Lost
    BY <1>15 DEF PeerFails, ownVars, connVars, endVars, Lost
  <2>2. S!Lose
    BY <1>1, <2>1, ConsumerSession DEF S!Lose, S!fixed
  <2> QED
    BY <2>2 DEF S!Next
<1> QED
  BY <1>5, <1>6, <1>7, <1>8, <1>9, <1>10, <1>11, <1>12, <1>13, <1>14, <1>15, <1>16
     DEF Next, LoopNext, EnvNext, Read

\* run() of a consumer that sends in on_msg only implements the Session, for every set of clients, servers,
\* faults and commands: no step of the socket, the buffers, TLS or the channels
\* breaks what it promises to nsqd and to the readers.
THEOREM SessionImplemented == Spec => ImplementsSession
<1>1. Init => S!Init
  BY SessionInit
<1>2. TypeOK /\ Gone /\ Control /\ Dialogue /\ [Next]_vars => [S!Next]_(S!vars)
  BY SessionStep
<1> QED
  BY <1>1, <1>2, DialogueCorrect, PTL DEF Spec, ImplementsSession, S!Spec
=============================================================================
