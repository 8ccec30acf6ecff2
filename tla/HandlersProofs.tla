--------------------------- MODULE HandlersProofs ---------------------------
(***************************************************************************)
(* Proofs about Handlers, for any number of clients, readers, producers    *)
(* and messages.                                                           *)
(***************************************************************************)
EXTENDS Handlers, TLAPS

\* A thread belongs to a client.
LEMMA ClientOfThread == ASSUME NEW t \in Threads PROVE ClientOf[t] \in Clients
BY HandlersAssumption

\* Readers are threads.
LEMMA WorkerIsThread == ASSUME NEW w \in Workers PROVE w \in Threads
BY DEF Threads

\* Counting up one entry of a table of counters leaves a table of counters.
LEMMA Incremented ==
    ASSUME NEW S, NEW f \in [S -> Nat], NEW x \in S
    PROVE  [f EXCEPT ![x] = @ + 1] \in [S -> Nat]
OBVIOUS

\* The initial states have the right types.
LEMMA TypeInit == Init => TypeOK
<1> SUFFICES ASSUME Init PROVE TypeOK
  OBVIOUS
<1>1. ThreadTypes
  BY DEF Init, ThreadTypes, ThreadPc
<1>2. ChannelTypes
  BY DEF Init, ChannelTypes
<1>3. LoopTypes
  BY DEF Init, LoopTypes, WakerPc, Reading
<1> QED BY <1>1, <1>2, <1>3 DEF TypeOK

\* Counting down an entry that is not zero leaves a table of counters.
LEMMA Decremented ==
    ASSUME NEW S, NEW f \in [S -> Nat], NEW x \in S, f[x] > 0
    PROVE  [f EXCEPT ![x] = @ - 1] \in [S -> Nat]
OBVIOUS

\* Appending to one queue leaves a table of queues.
LEMMA Queued ==
    ASSUME NEW S, NEW f \in [S -> Seq(Nat)], NEW x \in S, NEW n \in Nat
    PROVE  [f EXCEPT ![x] = Append(@, n)] \in [S -> Seq(Nat)]
OBVIOUS

\* What the wakers and the event loop leave alone.
LEMMA WakerLoopFrame ==
    WakerNext \/ LoopNext => UNCHANGED <<mutexVars, threadVars, readerVars>>
BY DEF WakerNext, LoopNext, SentinelRecv, SentinelSet, SentinelLock, SendConnMsg,
       ConnMsgRecv, ConnMsgSet, ConnMsgLock, Deliver, Heartbeat, WriteEvent,
       ClientEvent, CmdEvent, HeartbeatLost, WouldBlock, ReadEof, DropBatch

\* What the readers and producers leave alone.
LEMMA ThreadFrame == ThreadNext => UNCHANGED <<wakerVars, loopVars>>
BY DEF ThreadNext, Recv, Lock, Send, Signal, Return, Panic

\* Every step preserves the types of the mutex and the threads.
LEMMA ThreadTypesNext == TypeOK /\ [Next]_vars => ThreadTypes'
<1> SUFFICES ASSUME TypeOK, [Next]_vars PROVE ThreadTypes'
  OBVIOUS
<1>a. ThreadTypes
  BY DEF TypeOK
<1>1. ASSUME NEW w \in Workers, Recv(w), RecvMsg(w) PROVE ThreadTypes'
  <2>1. w \in Threads /\ ClientOf[w] \in Clients
    BY WorkerIsThread, ClientOfThread
  <2>2. Head(msg_channel[ClientOf[w]]) \in Nat
    BY <2>1, <1>1 DEF TypeOK, ChannelTypes, Recv
  <2>3. cur' \in [Threads -> Nat]
    BY <2>1, <2>2, <1>a, <1>1 DEF ThreadTypes, RecvMsg
  <2>4. sends' \in [Threads -> Nat]
    BY <2>1, <1>a, <1>1 DEF ThreadTypes, Recv
  <2>5. pc' \in [Threads -> ThreadPc]
    BY <2>1, <1>a, <1>1 DEF ThreadTypes, RecvMsg, ThreadPc, Holding
  <2>6. UNCHANGED <<connected, poisoned, owner, signalling>>
    BY <1>1 DEF Recv, RecvMsg
  <2> QED BY <1>a, <2>3, <2>4, <2>5, <2>6 DEF ThreadTypes
<1>2. ASSUME NEW w \in Workers, Recv(w), RecvPill(w) PROVE ThreadTypes'
  <2>1. w \in Threads
    BY WorkerIsThread
  <2>2. sends' \in [Threads -> Nat]
    BY <2>1, <1>a, <1>2 DEF ThreadTypes, Recv
  <2>3. pc' \in [Threads -> ThreadPc]
    BY <2>1, <1>a, <1>2 DEF ThreadTypes, RecvPill, ThreadPc, Holding
  <2>4. connected' = FALSE /\ UNCHANGED <<poisoned, owner, signalling, cur>>
    BY <1>2 DEF Recv, RecvPill, MarkClosed
  <2> QED BY <1>a, <2>2, <2>3, <2>4 DEF ThreadTypes
<1>3. ASSUME NEW t \in Threads, Lock(t) PROVE ThreadTypes'
  BY <1>a, <1>3 DEF ThreadTypes, Lock, AfterLock, ThreadPc, Holding
<1>4. ASSUME NEW t \in Threads, Send(t) PROVE ThreadTypes'
  <2>1. sends' \in [Threads -> Nat]
    BY <1>a, <1>4, Incremented DEF ThreadTypes, Send
  <2>2. pc' \in [Threads -> ThreadPc] /\ signalling' \in [Threads -> BOOLEAN]
    BY <1>a, <1>4 DEF ThreadTypes, Send, ThreadPc, Holding
  <2>3. UNCHANGED <<connected, poisoned, owner, cur>>
    BY <1>4 DEF Send, mutexVars
  <2> QED BY <1>a, <2>1, <2>2, <2>3 DEF ThreadTypes
<1>5. ASSUME NEW t \in Threads, Signal(t) PROVE ThreadTypes'
  BY <1>a, <1>5 DEF ThreadTypes, Signal, mutexVars
<1>6. ASSUME NEW t \in Threads, Return(t) PROVE ThreadTypes'
  BY <1>a, <1>6 DEF ThreadTypes, Return, Unlock, ThreadPc, Holding
<1>7. ASSUME NEW t \in Threads, Panic(t) PROVE ThreadTypes'
  BY <1>a, <1>7 DEF ThreadTypes, Panic, Unlock, ThreadPc, Holding
<1>8. CASE WakerNext \/ LoopNext \/ UNCHANGED vars
  <2>1. UNCHANGED <<mutexVars, threadVars>>
    BY <1>8, WakerLoopFrame DEF vars
  <2> QED BY <1>a, <2>1 DEF ThreadTypes, mutexVars, threadVars
<1> QED
  BY <1>1, <1>2, <1>3, <1>4, <1>5, <1>6, <1>7, <1>8 DEF Next, ThreadNext, Recv

\* Every step preserves the types of the channels and counters.
LEMMA ChannelTypesNext == TypeOK /\ [Next]_vars => ChannelTypes'
<1> SUFFICES ASSUME TypeOK, [Next]_vars PROVE ChannelTypes'
  OBVIOUS
<1> USE DEF readerVars, wakerVars, loopVars
<1>a. ChannelTypes
  BY DEF TypeOK
<1>1. ASSUME NEW w \in Workers, Recv(w), RecvMsg(w) PROVE ChannelTypes'
  <2>1. ClientOf[w] \in Clients
    BY WorkerIsThread, ClientOfThread
  <2>2. msg_channel' \in [Clients -> Seq(Nat)]
    BY <1>a, <1>1, <2>1 DEF ChannelTypes, Recv
  <2>3. UNCHANGED <<cmd_channel, sentinel, in_cmd, r_close, handled, closes,
                    delivered, asked, lost>>
    BY <1>1 DEF Recv, RecvMsg
  <2> QED BY <1>a, <2>2, <2>3 DEF ChannelTypes
<1>2. ASSUME NEW w \in Workers, Recv(w), RecvPill(w) PROVE ChannelTypes'
  <2>1. ClientOf[w] \in Clients
    BY WorkerIsThread, ClientOfThread
  <2>2. msg_channel' \in [Clients -> Seq(Nat)]
    BY <1>a, <1>2, <2>1 DEF ChannelTypes, Recv
  <2>3. closes' \in [Clients -> Nat]
    BY <1>a, <1>2, <2>1, Incremented DEF ChannelTypes, RecvPill
  <2>4. UNCHANGED <<cmd_channel, sentinel, in_cmd, r_close, handled, delivered,
                    asked, lost>>
    BY <1>2 DEF Recv, RecvPill
  <2> QED BY <1>a, <2>2, <2>3, <2>4 DEF ChannelTypes
<1>3. ASSUME NEW t \in Threads, Send(t) PROVE ChannelTypes'
  <2>1. ClientOf[t] \in Clients
    BY ClientOfThread
  <2>2. cmd_channel' \in [Clients -> Nat]
    BY <1>a, <1>3, <2>1, Incremented DEF ChannelTypes, Send
  <2>3. UNCHANGED <<msg_channel, sentinel, in_cmd, r_close, handled, closes,
                    delivered, asked, lost>>
    BY <1>3 DEF Send
  <2> QED BY <1>a, <2>2, <2>3 DEF ChannelTypes
<1>4. ASSUME NEW t \in Threads, Signal(t) PROVE ChannelTypes'
  <2>1. ClientOf[t] \in Clients
    BY ClientOfThread
  <2>2. sentinel' \in [Clients -> Nat]
    BY <1>a, <1>4, <2>1, Incremented DEF ChannelTypes, Signal
  <2>3. UNCHANGED <<msg_channel, cmd_channel, in_cmd, r_close, handled, closes,
                    delivered, asked, lost>>
    BY <1>4 DEF Signal
  <2> QED BY <1>a, <2>2, <2>3 DEF ChannelTypes
<1>5. ASSUME NEW t \in Threads, Return(t) PROVE ChannelTypes'
  <2>1. ClientOf[t] \in Clients
    BY ClientOfThread
  <2>2. handled' \in [Clients -> Nat]
    BY <1>a, <1>5, <2>1, Incremented DEF ChannelTypes, Return
  <2>3. UNCHANGED <<msg_channel, cmd_channel, sentinel, in_cmd, r_close, closes,
                    delivered, asked, lost>>
    BY <1>5 DEF Return
  <2> QED BY <1>a, <2>2, <2>3 DEF ChannelTypes
<1>6. ASSUME NEW c \in Clients, SentinelRecv(c) PROVE ChannelTypes'
  <2>1. sentinel' \in [Clients -> Nat]
    BY <1>a, <1>6, Decremented DEF ChannelTypes, SentinelRecv
  <2>2. UNCHANGED <<msg_channel, cmd_channel, in_cmd, r_close, handled, closes,
                    delivered, asked, lost>>
    BY <1>6 DEF SentinelRecv
  <2> QED BY <1>a, <2>1, <2>2 DEF ChannelTypes
<1>7. ASSUME NEW c \in Clients, SendConnMsg(c) PROVE ChannelTypes'
  <2>1. in_cmd' \in [Clients -> Nat]
    BY <1>a, <1>7, Incremented DEF ChannelTypes, SendConnMsg
  <2>2. asked' \in [Clients -> Nat]
    BY <1>a, <1>7, Incremented DEF ChannelTypes, SendConnMsg
  <2>3. UNCHANGED <<msg_channel, cmd_channel, sentinel, r_close, handled, closes,
                    delivered, lost>>
    BY <1>7 DEF SendConnMsg
  <2> QED BY <1>a, <2>1, <2>2, <2>3 DEF ChannelTypes
<1>8. ASSUME NEW c \in Clients, ConnMsgRecv(c) PROVE ChannelTypes'
  <2>1. in_cmd' \in [Clients -> Nat]
    BY <1>a, <1>8, Decremented DEF ChannelTypes, ConnMsgRecv
  <2>2. r_close' \in [Clients -> Nat]
    BY <1>a, <1>8, Incremented DEF ChannelTypes, ConnMsgRecv
  <2>3. UNCHANGED <<msg_channel, cmd_channel, sentinel, handled, closes, delivered,
                    asked, lost>>
    BY <1>8 DEF ConnMsgRecv
  <2> QED BY <1>a, <2>1, <2>2, <2>3 DEF ChannelTypes
<1>9. ASSUME NEW c \in Clients, Deliver(c) PROVE ChannelTypes'
  <2>1. delivered' \in [Clients -> Nat]
    BY <1>a, <1>9, Incremented DEF ChannelTypes, Deliver
  <2>2. msg_channel' \in [Clients -> Seq(Nat)]
    <3>1. delivered[c] + 1 \in Nat
      BY <1>a DEF ChannelTypes
    <3> QED BY <3>1, <1>a, <1>9, Queued DEF ChannelTypes, Deliver
  <2>3. UNCHANGED <<cmd_channel, sentinel, in_cmd, r_close, handled, closes,
                    asked, lost>>
    BY <1>9 DEF Deliver
  <2> QED BY <1>a, <2>1, <2>2, <2>3 DEF ChannelTypes
<1>10. ASSUME NEW c \in Clients, WriteEvent(c) PROVE ChannelTypes'
  <2>1. cmd_channel' \in [Clients -> Nat]
    BY <1>a, <1>10 DEF ChannelTypes, WriteEvent, WriteMessages
  <2>2. UNCHANGED <<msg_channel, sentinel, in_cmd, r_close, handled, closes,
                    delivered, asked, lost>>
    BY <1>10 DEF WriteEvent
  <2> QED BY <1>a, <2>1, <2>2 DEF ChannelTypes
<1>11. ASSUME NEW c \in Clients, ClientEvent(c) PROVE ChannelTypes'
  <2>1. cmd_channel' \in [Clients -> Nat]
    BY <1>a, <1>11 DEF ChannelTypes, ClientEvent, WriteMessages
  <2>2. UNCHANGED <<msg_channel, sentinel, in_cmd, r_close, handled, closes,
                    delivered, asked, lost>>
    BY <1>11 DEF ClientEvent
  <2> QED BY <1>a, <2>1, <2>2 DEF ChannelTypes
<1>12. ASSUME NEW c \in Clients, HeartbeatLost(c) PROVE ChannelTypes'
  <2>1. lost' \in [Clients -> Nat]
    BY <1>a, <1>12, Incremented DEF ChannelTypes, HeartbeatLost
  <2>2. msg_channel' \in [Clients -> Seq(Nat)]
    BY <1>a, <1>12, Queued DEF ChannelTypes, HeartbeatLost, Pill
  <2>3. UNCHANGED <<cmd_channel, sentinel, in_cmd, r_close, handled, closes,
                    delivered, asked>>
    BY <1>12 DEF HeartbeatLost
  <2> QED BY <1>a, <2>1, <2>2, <2>3 DEF ChannelTypes
<1>13. ASSUME NEW c \in Clients, CmdEvent(c) PROVE ChannelTypes'
  <2>1. UNCHANGED <<cmd_channel, sentinel, in_cmd, handled, closes, delivered, asked, lost>>
    BY <1>13 DEF CmdEvent
  <2>2. CASE r_close[c] > 0
    <3>1. r_close' = [r_close EXCEPT ![c] = @ - 1]
      BY <1>13, <2>2 DEF CmdEvent
    <3>2. msg_channel' = [msg_channel EXCEPT ![c] = Append(@, 0)]
      BY <1>13, <2>2 DEF CmdEvent, Pill
    <3>3. r_close' \in [Clients -> Nat]
      BY <1>a, <2>2, <3>1, Decremented DEF ChannelTypes
    <3>4. msg_channel' \in [Clients -> Seq(Nat)]
      BY <1>a, <3>2, Queued DEF ChannelTypes
    <3> QED BY <1>a, <2>1, <3>3, <3>4 DEF ChannelTypes
  <2>3. CASE ~(r_close[c] > 0)
    <3>1. UNCHANGED <<r_close, msg_channel>>
      BY <1>13, <2>3 DEF CmdEvent
    <3> QED BY <1>a, <2>1, <3>1 DEF ChannelTypes
  <2> QED BY <2>2, <2>3
<1>14. ASSUME UNCHANGED <<msg_channel, cmd_channel, sentinel, in_cmd, r_close,
                          handled, closes, delivered, asked, lost>>
       PROVE  ChannelTypes'
  BY <1>a, <1>14 DEF ChannelTypes
<1>15. ASSUME NEW t \in Threads, Lock(t) \/ Panic(t) PROVE ChannelTypes'
  BY <1>14, <1>15 DEF Lock, Panic
<1>16. ASSUME NEW c \in Clients,
              SentinelSet(c) \/ SentinelLock(c) \/ ConnMsgSet(c) \/ ConnMsgLock(c)
              \/ Heartbeat(c) \/ WouldBlock(c) \/ ReadEof(c)
       PROVE  ChannelTypes'
  BY <1>14, <1>16 DEF SentinelSet, SentinelLock, ConnMsgSet, ConnMsgLock, Heartbeat,
                           WouldBlock, ReadEof, DropBatch
<1>17. CASE UNCHANGED vars
  BY <1>14, <1>17 DEF vars
<1> QED
  BY <1>1, <1>2, <1>3, <1>4, <1>5, <1>6, <1>7, <1>8, <1>9,
     <1>10, <1>11, <1>12, <1>13, <1>15, <1>16, <1>17
     DEF Next, ThreadNext, WakerNext, LoopNext, Recv

\* Every step preserves the types of the wakers and the event loop.
LEMMA LoopTypesNext == TypeOK /\ [Next]_vars => LoopTypes'
<1> SUFFICES ASSUME TypeOK, [Next]_vars PROVE LoopTypes'
  OBVIOUS
<1> USE DEF wakerVars, loopVars
<1>a. LoopTypes
  BY DEF TypeOK
<1>1. CASE ThreadNext \/ UNCHANGED vars
  <2>1. UNCHANGED <<wake, cmd_wake, spc, cpc, loop, tls>>
    BY <1>1, ThreadFrame DEF vars
  <2> QED BY <1>a, <2>1 DEF LoopTypes
<1>2. ASSUME NEW c \in Clients, SentinelRecv(c) PROVE LoopTypes'
  BY <1>a, <1>2 DEF LoopTypes, SentinelRecv, WakerPc
<1>3. ASSUME NEW c \in Clients, SentinelSet(c) PROVE LoopTypes'
  BY <1>a, <1>3 DEF LoopTypes, SentinelSet, WakerPc
<1>4. ASSUME NEW c \in Clients, SentinelLock(c) PROVE LoopTypes'
  BY <1>a, <1>4 DEF LoopTypes, SentinelLock, AfterLock, WakerPc
<1>5. ASSUME NEW c \in Clients, SendConnMsg(c) PROVE LoopTypes'
  BY <1>a, <1>5 DEF LoopTypes, SendConnMsg
<1>6. ASSUME NEW c \in Clients, ConnMsgRecv(c) PROVE LoopTypes'
  BY <1>a, <1>6 DEF LoopTypes, ConnMsgRecv, WakerPc
<1>7. ASSUME NEW c \in Clients, ConnMsgSet(c) PROVE LoopTypes'
  BY <1>a, <1>7 DEF LoopTypes, ConnMsgSet, WakerPc
<1>8. ASSUME NEW c \in Clients, ConnMsgLock(c) PROVE LoopTypes'
  BY <1>a, <1>8 DEF LoopTypes, ConnMsgLock, AfterLock, WakerPc
<1>9. ASSUME NEW c \in Clients, Deliver(c) PROVE LoopTypes'
  BY <1>a, <1>9 DEF LoopTypes, Deliver, Reading
<1>10. ASSUME NEW c \in Clients, Heartbeat(c) PROVE LoopTypes'
  BY <1>a, <1>10 DEF LoopTypes, Heartbeat, Reading
<1>11. ASSUME NEW c \in Clients, WriteEvent(c) PROVE LoopTypes'
  BY <1>a, <1>11 DEF LoopTypes, WriteEvent, Reading
<1>12. ASSUME NEW c \in Clients, ClientEvent(c) PROVE LoopTypes'
  BY <1>a, <1>12 DEF LoopTypes, ClientEvent
<1>13. ASSUME NEW c \in Clients, CmdEvent(c) PROVE LoopTypes'
  BY <1>a, <1>13 DEF LoopTypes, CmdEvent
<1>14. ASSUME NEW c \in Clients, HeartbeatLost(c) PROVE LoopTypes'
  BY <1>a, <1>14 DEF LoopTypes, HeartbeatLost
<1>15. ASSUME NEW c \in Clients, WouldBlock(c) \/ ReadEof(c) PROVE LoopTypes'
  BY <1>a, <1>15 DEF LoopTypes, WouldBlock, ReadEof, DropBatch
<1> QED
  BY <1>1, <1>2, <1>3, <1>4, <1>5, <1>6, <1>7, <1>8, <1>9,
     <1>10, <1>11, <1>12, <1>13, <1>14, <1>15
     DEF Next, WakerNext, LoopNext

\* Every step preserves the types.
LEMMA TypeNext == TypeOK /\ [Next]_vars => TypeOK'
BY ThreadTypesNext, ChannelTypesNext, LoopTypesNext DEF TypeOK

\* The type invariant holds of every number of clients and threads.
THEOREM TypeCorrect == Spec => []TypeOK
BY TypeInit, TypeNext, PTL DEF Spec

-----------------------------------------------------------------------------
(* The inductive invariant.  NoHandlingAfterClose, OnCloseOnce,            *)
(* CloseRequestBehindEvent and CommandCovered are the properties; the      *)
(* other parts say what makes them last.                                   *)

\* The mutex: its owner is the one thread that stands in the guarded part.
LockInv == \A t \in Threads : pc[t] \in Holding <=> owner = t

\* The flag tells every thread what a reader did with the pill.
CloseInv == \A c \in Clients : closes[c] = 0 \/ (closes[c] = 1 /\ ~connected)

\* The request is in r_close before the ConnMsg thread raises the event, and
\* stays there until the event loop takes it and returns.
RequestInv == \A c \in Clients :
    (cmd_wake[c] \/ cpc[c] = "set") /\ loop[c] # "returned" => r_close[c] > 0

IInv ==
    /\ TypeOK /\ LockInv /\ NoHandlingAfterClose /\ CloseInv
    /\ RequestInv /\ CommandCovered

\* Every step keeps the callbacks and recv() under the guard of CONNECTED.
LEMMA LockNext == TypeOK /\ LockInv /\ [Next]_vars => LockInv'
<1> SUFFICES ASSUME TypeOK, LockInv, [Next]_vars PROVE LockInv'
  OBVIOUS
<1> USE HandlersAssumption DEF LockInv, Holding, TypeOK, ThreadTypes
<1>1. ASSUME NEW w \in Workers, Recv(w) PROVE LockInv'
  BY <1>1, WorkerIsThread DEF Recv, RecvMsg, RecvPill
<1>2. ASSUME NEW t \in Threads, Lock(t) PROVE LockInv'
  BY <1>2 DEF Lock, AfterLock
<1>3. ASSUME NEW t \in Threads, Send(t) PROVE LockInv'
  BY <1>3 DEF Send, mutexVars
<1>4. ASSUME NEW t \in Threads, Signal(t) PROVE LockInv'
  BY <1>4 DEF Signal, mutexVars
<1>5. ASSUME NEW t \in Threads, Return(t) PROVE LockInv'
  BY <1>5 DEF Return, Unlock
<1>6. ASSUME NEW t \in Threads, Panic(t) PROVE LockInv'
  BY <1>6 DEF Panic, Unlock
<1>7. CASE WakerNext \/ LoopNext
  BY <1>7, WakerLoopFrame DEF mutexVars, threadVars
<1>8. CASE UNCHANGED vars
  BY <1>8 DEF vars, mutexVars, threadVars
<1> QED
  BY <1>1, <1>2, <1>3, <1>4, <1>5, <1>6, <1>7, <1>8 DEF Next, ThreadNext

\* Every step keeps the pill's promise: no reader past it, on_close counted once.
LEMMA CloseNext ==
    TypeOK /\ LockInv /\ NoHandlingAfterClose /\ CloseInv /\ [Next]_vars
        => NoHandlingAfterClose' /\ CloseInv'
<1> SUFFICES ASSUME TypeOK, LockInv, NoHandlingAfterClose, CloseInv, [Next]_vars
             PROVE  NoHandlingAfterClose' /\ CloseInv'
  OBVIOUS
<1> USE HandlersAssumption DEF NoHandlingAfterClose, CloseInv
<1>t. pc \in [Threads -> ThreadPc] /\ closes \in [Clients -> Nat]
  BY DEF TypeOK, ThreadTypes, ChannelTypes
<1>1. ASSUME NEW w \in Workers, Recv(w), RecvMsg(w)
      PROVE  NoHandlingAfterClose' /\ CloseInv'
  BY <1>1, <1>t, WorkerIsThread DEF Recv, RecvMsg
<1>2. ASSUME NEW w \in Workers, Recv(w), RecvPill(w)
      PROVE  NoHandlingAfterClose' /\ CloseInv'
  <2>1. w \in Threads /\ ClientOf[w] \in Clients
    BY WorkerIsThread, ClientOfThread
  <2>2. connected
    BY <1>2, <2>1 DEF Recv
  <2>3. \A t \in Threads : t # w => pc[t] \notin Holding
    BY <1>2, <2>1 DEF Recv, LockInv, Holding
  <2>4. NoHandlingAfterClose'
    BY <1>2, <1>t, <2>1, <2>3 DEF RecvPill, Holding
  <2>5. CloseInv'
    BY <1>2, <1>t, <2>1, <2>2 DEF RecvPill, MarkClosed
  <2> QED BY <2>4, <2>5
<1>3. ASSUME NEW t \in Threads, Lock(t) PROVE NoHandlingAfterClose' /\ CloseInv'
  BY <1>3, <1>t DEF Lock, AfterLock, readerVars
<1>4. ASSUME NEW t \in Threads, Send(t) PROVE NoHandlingAfterClose' /\ CloseInv'
  BY <1>4, <1>t DEF Send, mutexVars, readerVars
<1>5. ASSUME NEW t \in Threads, Signal(t) PROVE NoHandlingAfterClose' /\ CloseInv'
  BY <1>5 DEF Signal, mutexVars, readerVars
<1>6. ASSUME NEW t \in Threads, Return(t) PROVE NoHandlingAfterClose' /\ CloseInv'
  BY <1>6, <1>t DEF Return
<1>7. ASSUME NEW t \in Threads, Panic(t) PROVE NoHandlingAfterClose' /\ CloseInv'
  BY <1>7, <1>t DEF Panic, readerVars
<1>8. CASE WakerNext \/ LoopNext
  BY <1>8, WakerLoopFrame DEF mutexVars, threadVars, readerVars
<1>9. CASE UNCHANGED vars
  BY <1>9 DEF vars, mutexVars, threadVars, readerVars
<1> QED
  BY <1>1, <1>2, <1>3, <1>4, <1>5, <1>6, <1>7, <1>8, <1>9 DEF Next, ThreadNext, Recv

\* Every step keeps a close request behind each CMD_TOKEN event.
LEMMA RequestNext == TypeOK /\ RequestInv /\ [Next]_vars => RequestInv'
<1> SUFFICES ASSUME TypeOK, RequestInv, [Next]_vars PROVE RequestInv'
  OBVIOUS
<1> USE DEF RequestInv
<1>t. /\ r_close \in [Clients -> Nat] /\ cmd_wake \in [Clients -> BOOLEAN]
      /\ cpc \in [Clients -> WakerPc]
      /\ loop \in [Clients -> {"wait", "write", "ended", "returned"}]
  BY DEF TypeOK, ChannelTypes, LoopTypes, Reading
<1>1. CASE ThreadNext
  BY <1>1, ThreadFrame DEF wakerVars, loopVars
<1>2. ASSUME NEW c \in Clients,
             SentinelRecv(c) \/ SentinelSet(c) \/ SentinelLock(c) \/ SendConnMsg(c)
      PROVE  RequestInv'
  BY <1>2 DEF SentinelRecv, SentinelSet, SentinelLock, SendConnMsg, loopVars
<1>3. ASSUME NEW c \in Clients, ConnMsgRecv(c) PROVE RequestInv'
  BY <1>3, <1>t DEF ConnMsgRecv, loopVars
<1>4. ASSUME NEW c \in Clients, ConnMsgSet(c) PROVE RequestInv'
  BY <1>4, <1>t DEF ConnMsgSet, loopVars
<1>5. ASSUME NEW c \in Clients, ConnMsgLock(c) PROVE RequestInv'
  BY <1>5, <1>t DEF ConnMsgLock, AfterLock, loopVars
<1>6. ASSUME NEW c \in Clients, Deliver(c) PROVE RequestInv'
  BY <1>6, <1>t DEF Deliver, Reading, wakerVars
<1>7. ASSUME NEW c \in Clients, Heartbeat(c) PROVE RequestInv'
  BY <1>7, <1>t DEF Heartbeat, wakerVars
<1>8. ASSUME NEW c \in Clients, WriteEvent(c) PROVE RequestInv'
  BY <1>8, <1>t DEF WriteEvent, wakerVars
<1>9. ASSUME NEW c \in Clients, ClientEvent(c) PROVE RequestInv'
  BY <1>9 DEF ClientEvent, loopVars
<1>10. ASSUME NEW c \in Clients, CmdEvent(c) PROVE RequestInv'
  <2>1. r_close[c] > 0
    BY <1>10 DEF CmdEvent
  <2>2. /\ r_close' = [r_close EXCEPT ![c] = @ - 1]
        /\ loop' = [loop EXCEPT ![c] = "returned"]
        /\ cmd_wake' = [cmd_wake EXCEPT ![c] = FALSE]
        /\ cpc' = cpc
    BY <1>10, <2>1 DEF CmdEvent
  <2> QED BY <1>t, <2>2
<1>11. ASSUME NEW c \in Clients, HeartbeatLost(c) PROVE RequestInv'
  BY <1>11 DEF HeartbeatLost, wakerVars
<1>12. ASSUME NEW c \in Clients, WouldBlock(c) \/ ReadEof(c) PROVE RequestInv'
  BY <1>12, <1>t DEF WouldBlock, ReadEof, DropBatch, loopVars
<1>13. CASE UNCHANGED vars
  BY <1>13 DEF vars, wakerVars, loopVars
<1> QED
  BY <1>1, <1>2, <1>3, <1>4, <1>5, <1>6, <1>7, <1>8, <1>9, <1>10, <1>11, <1>12, <1>13
     DEF Next, WakerNext, LoopNext

\* Every step keeps a wake-up behind each queued command of a plain connection
\* that nsqd has not closed.
LEMMA CoveredNext == TypeOK /\ CommandCovered /\ [Next]_vars => CommandCovered'
<1> SUFFICES ASSUME TypeOK, CommandCovered, [Next]_vars PROVE CommandCovered'
  OBVIOUS
<1> USE DEF CommandCovered
<1>t. /\ cmd_channel \in [Clients -> Nat] /\ sentinel \in [Clients -> Nat]
      /\ wake \in [Clients -> BOOLEAN] /\ spc \in [Clients -> WakerPc]
      /\ signalling \in [Threads -> BOOLEAN] /\ tls \in [Clients -> BOOLEAN]
      /\ loop \in [Clients -> {"wait", "write", "ended", "returned"}]
      /\ Reading = {"wait", "write"}
  BY DEF TypeOK, ThreadTypes, ChannelTypes, LoopTypes, Reading
<1>1. ASSUME NEW w \in Workers, Recv(w) PROVE CommandCovered'
  BY <1>1 DEF Recv, wakerVars, loopVars
<1>2. ASSUME NEW t \in Threads, Lock(t) \/ Return(t) \/ Panic(t) PROVE CommandCovered'
  BY <1>2 DEF Lock, Return, Panic, wakerVars, loopVars
<1>3. ASSUME NEW t \in Threads, Send(t) PROVE CommandCovered'
  BY <1>3, <1>t, ClientOfThread DEF Send, wakerVars, loopVars
<1>4. ASSUME NEW t \in Threads, Signal(t) PROVE CommandCovered'
  BY <1>4, <1>t, ClientOfThread DEF Signal, wakerVars, loopVars
<1>5. ASSUME NEW c \in Clients, SentinelRecv(c) PROVE CommandCovered'
  BY <1>5, <1>t DEF SentinelRecv, threadVars, loopVars
<1>6. ASSUME NEW c \in Clients, SentinelSet(c) PROVE CommandCovered'
  BY <1>6, <1>t DEF SentinelSet, threadVars, loopVars
<1>7. ASSUME NEW c \in Clients, SentinelLock(c) PROVE CommandCovered'
  BY <1>7, <1>t DEF SentinelLock, threadVars, loopVars
<1>8. ASSUME NEW c \in Clients,
             SendConnMsg(c) \/ ConnMsgRecv(c) \/ ConnMsgSet(c) \/ ConnMsgLock(c)
      PROVE  CommandCovered'
  BY <1>8 DEF SendConnMsg, ConnMsgRecv, ConnMsgSet, ConnMsgLock, threadVars, loopVars
<1>9. ASSUME NEW c \in Clients, Deliver(c) \/ Heartbeat(c) \/ HeartbeatLost(c)
      PROVE  CommandCovered'
  BY <1>9, <1>t DEF Deliver, Heartbeat, HeartbeatLost, threadVars, wakerVars
<1>10. ASSUME NEW c \in Clients, WriteEvent(c) PROVE CommandCovered'
  BY <1>10, <1>t DEF WriteEvent, WriteMessages, threadVars, wakerVars
<1>11. ASSUME NEW c \in Clients, ClientEvent(c) PROVE CommandCovered'
  BY <1>11, <1>t DEF ClientEvent, WriteMessages, threadVars, loopVars
<1>12. ASSUME NEW c \in Clients, CmdEvent(c) PROVE CommandCovered'
  <2>1. UNCHANGED <<cmd_channel, sentinel, spc, wake, signalling, tls>>
    BY <1>12 DEF CmdEvent, threadVars
  <2>2. \A d \in Clients : loop'[d] \in Reading => loop[d] \in Reading
    BY <1>12, <1>t DEF CmdEvent
  <2> QED BY <2>1, <2>2
<1>13. ASSUME NEW c \in Clients, WouldBlock(c) \/ ReadEof(c) PROVE CommandCovered'
  BY <1>13, <1>t DEF WouldBlock, ReadEof, DropBatch, threadVars, loopVars
<1>14. CASE UNCHANGED vars
  BY <1>14 DEF vars, threadVars, wakerVars, loopVars
<1> QED
  BY <1>1, <1>2, <1>3, <1>4, <1>5, <1>6, <1>7, <1>8, <1>9, <1>10, <1>11, <1>12,
     <1>13, <1>14
     DEF Next, ThreadNext, WakerNext, LoopNext

\* The inductive invariant holds initially ...
LEMMA IInvInit == Init => IInv
<1> SUFFICES ASSUME Init PROVE IInv
  OBVIOUS
<1>1. LockInv /\ NoHandlingAfterClose
  BY HandlersAssumption DEF Init, LockInv, NoHandlingAfterClose, Holding
<1>2. CloseInv /\ RequestInv /\ CommandCovered
  BY DEF Init, CloseInv, RequestInv, CommandCovered
<1> QED BY <1>1, <1>2, TypeInit DEF IInv

\* ... and is preserved.
LEMMA IInvNext == IInv /\ [Next]_vars => IInv'
BY TypeNext, LockNext, CloseNext, RequestNext, CoveredNext DEF IInv

\* The inductive invariant of the threads of Client::spawn, Client::spawn_producer
\* and Client::run holds in every reachable state; the theorems below are its
\* consequences.
THEOREM Inductive == Spec => []IInv
BY IInvInit, IInvNext, PTL DEF Spec

\* No wake-up of a plain connection that is open is lost between Context::send, the sentinel
\* thread and the event loop, with any number of threads and commands.
THEOREM WakeUps == Spec => []CommandCovered
<1>1. IInv => CommandCovered
  BY DEF IInv
<1> QED BY <1>1, Inductive, PTL

\* The reader that takes the pill is the last one in a callback.
THEOREM ClosedForAll == Spec => []NoHandlingAfterClose
<1>1. IInv => NoHandlingAfterClose
  BY DEF IInv
<1> QED BY <1>1, Inductive, PTL

\* The readers of a client are told on_close at most once, however many pills
\* the event loop sends.
THEOREM ClosedOnce == Spec => []OnCloseOnce
<1>1. IInv => CloseInv
  BY DEF IInv
<1>2. CloseInv => OnCloseOnce
  <2> SUFFICES ASSUME CloseInv, NEW c \in Clients PROVE closes[c] <= 1
    BY DEF OnCloseOnce
  <2>1. closes[c] = 0 \/ closes[c] = 1
    BY DEF CloseInv
  <2> QED BY <2>1
<1> QED BY <1>1, <1>2, Inductive, PTL

\* The event loop never sees a CMD_TOKEN event without its close request.
THEOREM RequestsFirst == Spec => []CloseRequestBehindEvent
<1>1. IInv => CloseRequestBehindEvent
  BY DEF IInv, RequestInv, CloseRequestBehindEvent
<1> QED BY <1>1, Inductive, PTL

-----------------------------------------------------------------------------
(* Messages in order.  HandledInOrder speaks of one reader's hand; what    *)
(* lasts is that msg_channel, up to the first pill, continues that hand.   *)

\* The messages of a client that a reader is handling: none or one.
InHand(c) == IF \E t \in Threads : pc[t] = "on_msg" /\ ClientOf[t] = c THEN 1 ELSE 0

\* Up to the first pill the queue goes on where the readers are; without a pill
\* it ends with the last message delivered.
Continues(c) ==
    /\ \A i \in 1..Len(msg_channel[c]) :
          (\A j \in 1..i : msg_channel[c][j] # Pill)
              => msg_channel[c][i] = handled[c] + InHand(c) + i
    /\ (\A j \in 1..Len(msg_channel[c]) : msg_channel[c][j] # Pill)
          => delivered[c] = handled[c] + InHand(c) + Len(msg_channel[c])

\* Nobody gets past a poisoned mutex; behind a sound one the queue continues.
OrderInv ==
    /\ poisoned => owner = NoThread
    /\ connected /\ ~poisoned => \A c \in Clients : Continues(c)
    /\ HandledInOrder

\* A step that moves no thread into or out of on_msg leaves InHand alone.
LEMMA SameHand ==
    ASSUME \A t \in Threads : (pc[t] = "on_msg") <=> (pc'[t] = "on_msg"),
           NEW c \in Clients
    PROVE  InHand(c)' = InHand(c)
BY DEF InHand

\* A queue that nobody touched still continues.
LEMMA SameQueue ==
    ASSUME NEW c \in Clients, Continues(c), InHand(c)' = InHand(c),
           UNCHANGED <<msg_channel, handled, delivered>>
    PROVE  Continues(c)'
BY DEF Continues

\* A message that leaves the queue enters a hand, and the sum stays the same.
LEMMA OneMore ==
    ASSUME NEW h \in Nat, NEW n \in Nat, NEW m, m = n - 1
    PROVE  h + 0 + n = h + 1 + m
OBVIOUS

\* A message that is delivered makes the queue one longer.
LEMMA Longer ==
    ASSUME NEW h \in Nat, NEW k \in Nat, NEW n \in Nat
    PROVE  (h + k + n) + 1 = h + k + (n + 1)
OBVIOUS

\* The initial states are in order: every queue is empty.
LEMMA OrderInit == Init => OrderInv
<1> SUFFICES ASSUME Init PROVE OrderInv
  OBVIOUS
<1>1. ASSUME NEW c \in Clients PROVE Continues(c)
  BY DEF Init, Continues, InHand
<1> QED BY <1>1, WorkerIsThread DEF Init, OrderInv, HandledInOrder

\* Every step keeps the messages in order.
LEMMA OrderNext == IInv /\ OrderInv /\ [Next]_vars => OrderInv'
<1> SUFFICES ASSUME IInv, OrderInv, [Next]_vars PROVE OrderInv'
  OBVIOUS
<1> USE DEF mutexVars, threadVars, readerVars, wakerVars, loopVars
<1>a. ThreadTypes /\ ChannelTypes
  BY DEF IInv, TypeOK
<1>b. LockInv
  BY DEF IInv
<1>c. NoThread \notin Threads
  BY HandlersAssumption
<1>d. \A w \in Workers : w \in Threads /\ ClientOf[w] \in Clients
  BY WorkerIsThread, ClientOfThread
<1>1. ASSUME NEW w \in Workers, Recv(w), RecvMsg(w) PROVE OrderInv'
  <2> DEFINE d == ClientOf[w]
  <2>1. w \in Threads /\ d \in Clients /\ pc[w] = "recv" /\ owner = w
    BY <1>1, <1>b, <1>d DEF Recv, LockInv, Holding
  <2>2. ~poisoned /\ connected
    BY <2>1, <1>c DEF OrderInv, IInv, NoHandlingAfterClose
  <2>3. pc' = [pc EXCEPT ![w] = "on_msg"]
    BY <1>1 DEF RecvMsg
  <2>4. \A t \in Threads : pc[t] # "on_msg"
    BY <2>1, <1>b DEF LockInv, Holding
  <2>5. InHand(d) = 0 /\ InHand(d)' = 1
    BY <2>1, <2>3, <2>4, <1>a DEF InHand, ThreadTypes
  <2>6. UNCHANGED <<handled, delivered, poisoned, owner>>
    BY <1>1 DEF Recv, RecvMsg
  <2>7. msg_channel[d] \in Seq(Nat) /\ msg_channel[d] # <<>> /\ Head(msg_channel[d]) # Pill
    BY <1>1, <2>1, <1>a DEF Recv, RecvMsg, ChannelTypes
  <2>8. Continues(d)
    BY <2>1, <2>2 DEF OrderInv
  <2>9. Continues(d)'
    <3> DEFINE q == msg_channel[d]
    <3>1. msg_channel'[d] = Tail(q)
      BY <1>1, <2>1, <1>a DEF Recv, ChannelTypes
    <3>2. Len(Tail(q)) = Len(q) - 1 /\ \A i \in 1..Len(Tail(q)) : Tail(q)[i] = q[i + 1]
      BY <2>7
    <3>3. Len(q) \in Nat /\ handled[d] \in Nat /\ q[1] # Pill
      BY <2>1, <2>7, <1>a DEF ChannelTypes
    <3>4. ASSUME NEW i \in 1..Len(Tail(q)), \A j \in 1..i : Tail(q)[j] # Pill
          PROVE  Tail(q)[i] = handled[d] + 1 + i
      <4>1. i + 1 \in 1..Len(q)
        BY <3>2, <3>3
      <4>2. \A j \in 1..(i + 1) : q[j] # Pill
        <5> SUFFICES ASSUME NEW j \in 1..(i + 1), j # 1 PROVE q[j] # Pill
          BY <3>3
        <5>1. j - 1 \in 1..i /\ j - 1 \in 1..Len(Tail(q)) /\ (j - 1) + 1 = j
          BY <3>2, <3>3
        <5> QED BY <5>1, <3>2, <3>4
      <4>3. q[i + 1] = handled[d] + 0 + (i + 1)
        BY <4>1, <4>2, <2>5, <2>8 DEF Continues
      <4> QED BY <4>3, <3>2, <3>3
    <3>5. ASSUME \A j \in 1..Len(Tail(q)) : Tail(q)[j] # Pill
          PROVE  delivered[d] = handled[d] + 1 + Len(Tail(q))
      <4>1. \A j \in 1..Len(q) : q[j] # Pill
        <5> SUFFICES ASSUME NEW j \in 1..Len(q), j # 1 PROVE q[j] # Pill
          BY <3>3
        <5>1. j - 1 \in 1..Len(Tail(q)) /\ (j - 1) + 1 = j
          BY <3>2, <3>3
        <5> QED BY <5>1, <3>2, <3>5
      <4>2. delivered[d] = handled[d] + 0 + Len(q)
        BY <4>1, <2>5, <2>8 DEF Continues
      <4>3. Len(Tail(q)) = Len(q) - 1 /\ Len(q) \in Nat /\ handled[d] \in Nat
        BY <3>2, <3>3
      <4> QED BY <4>2, <4>3, OneMore, Zenon
    <3> QED BY <3>1, <3>4, <3>5, <2>5, <2>6 DEF Continues, Pill
  <2>10. ASSUME NEW c \in Clients, c # d PROVE Continues(c)'
    <3>1. InHand(c)' = InHand(c)
      BY <2>1, <2>3, <2>4, <2>10, <1>a DEF InHand, ThreadTypes
    <3>2. msg_channel'[c] = msg_channel[c]
      BY <1>1, <2>1, <2>10, <1>a DEF Recv, ChannelTypes
    <3>3. Continues(c)
      BY <2>2 DEF OrderInv
    <3> QED BY <3>1, <3>2, <3>3, <2>6 DEF Continues
  <2>11. HandledInOrder'
    <3>1. cur'[w] = handled[d] + 1
      <4>1. 1 \in 1..Len(msg_channel[d]) /\ Head(msg_channel[d]) = msg_channel[d][1]
        BY <2>7
      <4>2. \A j \in 1..1 : msg_channel[d][j] # Pill
        BY <4>1, <2>7
      <4>3. msg_channel[d][1] = handled[d] + 0 + 1
        BY <4>1, <4>2, <2>5, <2>8 DEF Continues
      <4>4. cur'[w] = Head(msg_channel[d])
        BY <1>1, <2>1, <1>a DEF RecvMsg, ThreadTypes
      <4>5. handled[d] \in Nat
        BY <2>1, <1>a DEF ChannelTypes
      <4> QED BY <4>1, <4>3, <4>4, <4>5
    <3>2. \A v \in Workers : v # w => pc'[v] # "on_msg"
      BY <2>1, <2>3, <2>4, <1>a, <1>d DEF ThreadTypes
    <3> QED BY <3>1, <3>2, <2>6 DEF HandledInOrder
  <2> QED BY <2>2, <2>6, <2>9, <2>10, <2>11 DEF OrderInv
<1>2. ASSUME NEW w \in Workers, Recv(w), RecvPill(w) PROVE OrderInv'
  <2>1. w \in Threads /\ pc[w] = "recv" /\ owner = w
    BY <1>2, <1>b, <1>d DEF Recv, LockInv, Holding
  <2>2. \A v \in Workers : pc'[v] # "on_msg"
    BY <1>2, <2>1, <1>a, <1>b, <1>d DEF RecvPill, LockInv, Holding, ThreadTypes
  <2>3. ~connected' /\ UNCHANGED <<poisoned, owner>>
    BY <1>2 DEF Recv, RecvPill, MarkClosed
  <2> QED BY <2>2, <2>3 DEF OrderInv, HandledInOrder
<1>3. ASSUME NEW t \in Threads, Return(t) PROVE OrderInv'
  <2> DEFINE d == ClientOf[t]
  <2>1. pc[t] \in Holding /\ owner = t /\ d \in Clients
    BY <1>3, <1>b, ClientOfThread DEF Return, LockInv, Holding
  <2>2. ~poisoned
    BY <2>1, <1>c DEF OrderInv
  <2>3. \A u \in Threads : u # t => pc[u] # "on_msg"
    BY <2>1, <1>b DEF LockInv, Holding
  <2>4. \A u \in Threads : pc'[u] # "on_msg"
    BY <1>3, <2>3, <1>a DEF Return, ThreadTypes
  <2>5. UNCHANGED <<connected, poisoned, msg_channel, delivered>> /\ owner' = NoThread
    BY <1>3 DEF Return, Unlock
  <2>6. \A c \in Clients : handled'[c] + InHand(c)' = handled[c] + InHand(c)
    <3>1. \A c \in Clients : InHand(c)' = 0 /\ handled[c] \in Nat
      BY <2>4, <1>a DEF InHand, ChannelTypes
    <3>2. CASE pc[t] = "on_msg"
      <4>1. \A c \in Clients : handled'[c] = IF c = d THEN handled[c] + 1 ELSE handled[c]
        BY <3>2, <2>1, <1>3, <1>a DEF Return, ChannelTypes
      <4>2. \A c \in Clients : InHand(c) = IF c = d THEN 1 ELSE 0
        BY <3>2, <2>3 DEF InHand
      <4> QED BY <4>1, <4>2, <3>1
    <3>3. CASE pc[t] # "on_msg"
      <4>1. handled' = handled
        BY <3>3, <1>3 DEF Return
      <4>2. \A c \in Clients : InHand(c) = 0
        BY <3>3, <2>3 DEF InHand
      <4> QED BY <4>1, <4>2, <3>1
    <3> QED BY <3>2, <3>3
  <2>7. ASSUME connected, NEW c \in Clients PROVE Continues(c)'
    <3>1. Continues(c)
      BY <2>2, <2>7 DEF OrderInv
    <3> QED BY <3>1, <2>5, <2>6 DEF Continues
  <2>8. HandledInOrder'
    BY <2>4, <1>d DEF HandledInOrder
  <2> QED BY <2>5, <2>7, <2>8 DEF OrderInv
<1>4. ASSUME NEW t \in Threads, Panic(t) PROVE OrderInv'
  <2>1. pc[t] \in Holding /\ owner = t
    BY <1>4, <1>b DEF Panic, LockInv, Holding
  <2>2. \A u \in Threads : pc'[u] # "on_msg"
    BY <1>4, <2>1, <1>a, <1>b DEF Panic, LockInv, Holding, ThreadTypes
  <2>3. poisoned' /\ owner' = NoThread
    BY <1>4 DEF Panic, Unlock
  <2> QED BY <2>2, <2>3, <1>d DEF OrderInv, HandledInOrder
<1>5. ASSUME NEW t \in Threads, Lock(t) \/ Send(t) \/ Signal(t) PROVE OrderInv'
  <2>1. \A u \in Threads : (pc[u] = "on_msg") <=> (pc'[u] = "on_msg")
    <3>1. CASE Lock(t)
      BY <3>1, <1>a DEF Lock, AfterLock, ThreadTypes
    <3>2. CASE Send(t)
      BY <3>2, <1>a DEF Send, ThreadTypes
    <3>3. CASE Signal(t)
      BY <3>3 DEF Signal
    <3> QED BY <1>5, <3>1, <3>2, <3>3
  <2>2. UNCHANGED <<connected, poisoned, cur, msg_channel, handled, delivered>>
    BY <1>5 DEF Lock, Send, Signal
  <2>3. poisoned => owner' = NoThread
    BY <1>5 DEF Lock, Send, Signal, AfterLock, OrderInv
  <2>4. ASSUME connected, ~poisoned, NEW c \in Clients PROVE Continues(c)'
    BY <2>1, <2>2, <2>4, SameHand, SameQueue DEF OrderInv
  <2>5. HandledInOrder'
    BY <2>1, <2>2, <1>d DEF OrderInv, HandledInOrder
  <2> QED BY <2>2, <2>3, <2>4, <2>5 DEF OrderInv
<1>6. ASSUME UNCHANGED <<mutexVars, threadVars, readerVars>>,
             connected /\ ~poisoned => \A c \in Clients : Continues(c)'
      PROVE  OrderInv'
  BY <1>6 DEF OrderInv, HandledInOrder
<1>7. ASSUME NEW d \in Clients, Deliver(d) PROVE OrderInv'
  <2>1. UNCHANGED <<mutexVars, threadVars, readerVars>>
    BY <1>7 DEF Deliver
  <2>2. \A c \in Clients : InHand(c)' = InHand(c) /\ InHand(c) \in Nat
    BY <2>1 DEF InHand
  <2>3. ASSUME connected, ~poisoned, NEW c \in Clients PROVE Continues(c)'
    <3> DEFINE q == msg_channel[c]
    <3>1. Continues(c) /\ q \in Seq(Nat) /\ handled[c] \in Nat /\ delivered[c] \in Nat
      BY <2>3, <1>a DEF OrderInv, ChannelTypes
    <3>2. CASE c = d
      <4>1. msg_channel'[c] = Append(q, delivered[c] + 1) /\ delivered'[c] = delivered[c] + 1
        BY <3>2, <1>7, <1>a DEF Deliver, ChannelTypes
      <4>2. /\ Len(Append(q, delivered[c] + 1)) = Len(q) + 1
            /\ \A i \in 1..Len(q) : Append(q, delivered[c] + 1)[i] = q[i]
            /\ Append(q, delivered[c] + 1)[Len(q) + 1] = delivered[c] + 1
            /\ Len(q) \in Nat
        BY <3>1
      <4>3. (handled[c] + InHand(c) + Len(q)) + 1 = handled[c] + InHand(c) + (Len(q) + 1)
        <5>1. handled[c] \in Nat /\ InHand(c) \in Nat /\ Len(q) \in Nat
          BY <4>2, <3>1, <2>2
        <5> QED BY <5>1, Longer, Zenon
      <4>4. ASSUME NEW i \in 1..(Len(q) + 1),
                   \A j \in 1..i : Append(q, delivered[c] + 1)[j] # Pill
            PROVE  Append(q, delivered[c] + 1)[i] = handled[c] + InHand(c) + i
        <5>1. CASE i \in 1..Len(q)
          <6>1. \A j \in 1..i : q[j] # Pill
            BY <5>1, <4>2, <4>4
          <6> QED BY <6>1, <5>1, <4>2, <3>1 DEF Continues
        <5>2. CASE i = Len(q) + 1
          <6>1. \A j \in 1..Len(q) : q[j] # Pill
            BY <5>2, <4>2, <4>4
          <6>2. delivered[c] = handled[c] + InHand(c) + Len(q)
            BY <6>1, <3>1 DEF Continues
          <6>3. delivered[c] + 1 = handled[c] + InHand(c) + (Len(q) + 1)
            BY <6>2, <4>3, Zenon
          <6> QED BY <6>3, <5>2, <4>2
        <5> QED BY <5>1, <5>2, <4>2
      <4>5. ASSUME \A j \in 1..(Len(q) + 1) : Append(q, delivered[c] + 1)[j] # Pill
            PROVE  delivered[c] + 1 = handled[c] + InHand(c) + (Len(q) + 1)
        <5>1. \A j \in 1..Len(q) : q[j] # Pill
          BY <4>2, <4>5
        <5>2. delivered[c] = handled[c] + InHand(c) + Len(q)
          BY <5>1, <3>1 DEF Continues
        <5> QED BY <5>2, <4>3, Zenon
      <4>6. handled' = handled
        BY <1>7 DEF Deliver
      <4> QED BY <4>1, <4>2, <4>4, <4>5, <4>6, <2>2 DEF Continues, Pill
    <3>3. CASE c # d
      <4>1. msg_channel'[c] = q /\ delivered'[c] = delivered[c] /\ handled' = handled
        BY <3>3, <1>7, <1>a DEF Deliver, ChannelTypes
      <4> QED BY <4>1, <3>1, <2>2 DEF Continues
    <3> QED BY <3>2, <3>3
  <2> QED BY <2>1, <2>3, <1>6
<1>8. ASSUME NEW d \in Clients,
             msg_channel' = [msg_channel EXCEPT ![d] = Append(@, Pill)],
             UNCHANGED <<mutexVars, threadVars, readerVars, delivered>>
      PROVE  OrderInv'
  <2>1. \A c \in Clients : InHand(c)' = InHand(c)
    BY <1>8 DEF InHand
  <2>2. ASSUME connected, ~poisoned, NEW c \in Clients PROVE Continues(c)'
    <3> DEFINE q == msg_channel[c]
    <3>1. Continues(c) /\ q \in Seq(Nat)
      BY <2>2, <1>a DEF OrderInv, ChannelTypes
    <3>2. CASE c = d
      <4>1. msg_channel'[c] = Append(q, Pill)
        BY <3>2, <1>8, <1>a DEF ChannelTypes
      <4>2. /\ Len(Append(q, Pill)) = Len(q) + 1
            /\ \A i \in 1..Len(q) : Append(q, Pill)[i] = q[i]
            /\ Append(q, Pill)[Len(q) + 1] = Pill
            /\ Len(q) \in Nat
        BY <3>1 DEF Pill
      <4>3. ASSUME NEW i \in 1..(Len(q) + 1), \A j \in 1..i : Append(q, Pill)[j] # Pill
            PROVE  Append(q, Pill)[i] = handled[c] + InHand(c) + i
        <5>1. i \in 1..Len(q)
          BY <4>2, <4>3
        <5>2. \A j \in 1..i : q[j] # Pill
          BY <5>1, <4>2, <4>3
        <5> QED BY <5>1, <5>2, <4>2, <3>1 DEF Continues
      <4>4. ~\A j \in 1..(Len(q) + 1) : Append(q, Pill)[j] # Pill
        BY <4>2
      <4>5. handled' = handled
        BY <1>8
      <4> QED BY <4>1, <4>2, <4>3, <4>4, <4>5, <2>1 DEF Continues, Pill
    <3>3. CASE c # d
      <4>1. msg_channel'[c] = q /\ delivered' = delivered /\ handled' = handled
        BY <3>3, <1>8, <1>a DEF ChannelTypes
      <4> QED BY <4>1, <3>1, <2>1 DEF Continues
    <3> QED BY <3>2, <3>3
  <2> QED BY <2>2, <1>6, <1>8
<1>9. ASSUME UNCHANGED <<mutexVars, threadVars, readerVars, msg_channel, delivered>>
      PROVE  OrderInv'
  <2>1. \A c \in Clients : InHand(c)' = InHand(c)
    BY <1>9 DEF InHand
  <2>2. ASSUME connected, ~poisoned, NEW c \in Clients PROVE Continues(c)'
    BY <2>1, <2>2, <1>9, SameQueue DEF OrderInv
  <2> QED BY <2>2, <1>6, <1>9
<1>10. ASSUME WakerNext PROVE OrderInv'
  BY <1>9, <1>10 DEF WakerNext, SentinelRecv, SentinelSet, SentinelLock, SendConnMsg,
     ConnMsgRecv, ConnMsgSet, ConnMsgLock
<1>11. ASSUME LoopNext PROVE OrderInv'
  <2>1. PICK c \in Clients :
          \/ Deliver(c) \/ Heartbeat(c) \/ WriteEvent(c) \/ ClientEvent(c)
          \/ CmdEvent(c) \/ HeartbeatLost(c) \/ WouldBlock(c) \/ ReadEof(c)
    BY <1>11 DEF LoopNext
  <2>2. CASE Deliver(c)
    BY <2>2, <1>7
  <2>3. CASE Heartbeat(c) \/ WriteEvent(c) \/ ClientEvent(c) \/ WouldBlock(c) \/ ReadEof(c)
    BY <2>3, <1>9 DEF Heartbeat, WriteEvent, ClientEvent, WouldBlock, ReadEof, DropBatch
  <2>4. CASE CmdEvent(c)
    <3>1. CASE r_close[c] > 0
      BY <2>4, <3>1, <1>8 DEF CmdEvent
    <3>2. CASE ~(r_close[c] > 0)
      BY <2>4, <3>2, <1>9 DEF CmdEvent
    <3> QED BY <3>1, <3>2
  <2>5. CASE HeartbeatLost(c)
    BY <2>5, <1>8 DEF HeartbeatLost
  <2> QED BY <2>1, <2>2, <2>3, <2>4, <2>5
<1>12. ASSUME UNCHANGED vars PROVE OrderInv'
  BY <1>9, <1>12 DEF vars
<1> QED
  BY <1>1, <1>2, <1>3, <1>4, <1>5, <1>10, <1>11, <1>12 DEF Next, ThreadNext, Recv

\* However many readers pull from one msg_channel, the messages of a connection
\* are handled one at a time and in the order in which nsqd sent them.
THEOREM InOrder == Spec => []HandledInOrder
<1>1. OrderInv => HandledInOrder
  BY DEF OrderInv
<1> QED BY <1>1, Inductive, OrderInit, OrderNext, PTL DEF Spec
=============================================================================
