------------------------------ MODULE Session ------------------------------
(***************************************************************************)
(* What one run() of a consumer promises, to nsqd and to its readers, with *)
(* nothing of how the event loop gets there: no socket, no poll, no        *)
(* buffers, no TLS.  EventLoop implements it for clients that send in      *)
(* on_msg only.                                                            *)
(***************************************************************************)
EXTENDS Integers, Sequences

VARIABLES
    script,   \* what the client has to say before anything else, fixed
    steady,   \* heartbeats come at least every 45 seconds, fixed
    heard,    \* somebody takes the reports on the connection, fixed
    uttered,  \* how much of the script it has uttered
    waiting,  \* it waits for the answer to the last of that
    said,     \* what reached the server
    served,   \* how much of that the server has processed
    cut,      \* the connection is lost
    got,      \* messages handed to the readers
    told,     \* the readers have been told that the connection is closed
    over      \* run() has ended

vars == <<script, steady, heard, uttered, waiting, said, served, cut, got, told, over>>
fixed == <<script, steady, heard>>

Questions == {"IDENTIFY", "AUTH", "SUB"}     \* what is answered before going on
Remarks == {"NOP", "FIN", "TOUCH", "PUB"}    \* what a subscribed client may say

Init ==
    /\ script \in {<<"MAGIC", "IDENTIFY">> \o auth \o <<"SUB", "RDY">> : auth \in {<<>>, <<"AUTH">>}}
    /\ steady \in BOOLEAN /\ heard \in BOOLEAN
    /\ uttered = 0 /\ waiting = FALSE /\ said = <<>> /\ served = 0
    /\ cut = FALSE /\ got = 0 /\ told = FALSE /\ over = FALSE

\* The next words of the script, up to a question; on a lost connection nobody
\* hears them.
Utter(n) ==
    /\ ~over /\ ~waiting
    /\ \A i \in (uttered + 1)..(n - 1) : script[i] \notin Questions
    /\ uttered' = n
    /\ waiting' = (script[n] \in Questions)
    /\ said' = IF cut THEN said ELSE said \o SubSeq(script, uttered + 1, n)
    /\ UNCHANGED <<fixed, served, cut, got, told, over>>

\* The server has processed the question, and all that was said before it.
Answered ==
    /\ ~over /\ waiting
    /\ Len(said) = uttered /\ served = uttered
    /\ waiting' = FALSE
    /\ UNCHANGED <<fixed, uttered, said, served, cut, got, told, over>>

Subscribed == uttered = Len(script) /\ ~waiting

\* Remarks of a subscribed client; the last may be the end of run().
Remark ==
    LET more == SubSeq(said', Len(said) + 1, Len(said'))
    IN  /\ ~over /\ ~cut /\ Subscribed
        /\ more \in Seq(Remarks) \ {<<>>}
        /\ said' = said \o more
        /\ over' \in BOOLEAN
        /\ UNCHANGED <<fixed, uttered, waiting, served, cut, got, told>>

\* Messages come to a client that is ready for them in the server's eyes.
Deliver ==
    /\ ~over /\ Subscribed /\ served >= Len(script)
    /\ got' > got
    /\ UNCHANGED <<fixed, uttered, waiting, said, served, cut, told, over>>

\* A heartbeat has been answered.
Settled == \E i \in 1..Len(said) : said[i] = "NOP"

\* A connection believed lost is reported and run() goes on; it may be wrong where
\* heartbeats are rare, and until the first is answered.
Report ==
    /\ ~over /\ (cut \/ ~steady \/ ~Settled)
    /\ told' = TRUE
    /\ UNCHANGED <<fixed, uttered, waiting, said, served, cut, got, over>>

\* The user closes: the readers are told, and run() ends.
Close ==
    /\ ~over
    /\ over' = TRUE /\ told' = TRUE
    /\ UNCHANGED <<fixed, uttered, waiting, said, served, cut, got>>

\* run() fails at nothing but an answer it waits for, a lost connection or a
\* report that nobody takes.
Fail ==
    /\ ~over /\ (waiting \/ cut \/ ~heard)
    /\ over' = TRUE
    /\ UNCHANGED <<fixed, uttered, waiting, said, served, cut, got, told>>

\* The server takes what was said in order; it may hang up on it.
Serve ==
    /\ ~cut /\ served < Len(said)
    /\ served' = served + 1
    /\ cut' \in BOOLEAN
    /\ UNCHANGED <<fixed, uttered, waiting, said, got, told, over>>

Lose ==
    /\ ~cut
    /\ cut' = TRUE
    /\ UNCHANGED <<fixed, uttered, waiting, said, served, got, told, over>>

Next ==
    \/ \E n \in (uttered + 1)..Len(script) : Utter(n)
    \/ Answered \/ Remark \/ Deliver \/ Report \/ Close \/ Fail \/ Serve \/ Lose

Spec == Init /\ [][Next]_vars
=============================================================================
