------------------------------ MODULE Connect ------------------------------
(***************************************************************************)
(* connect(): the addresses of nsqd are looked up once and each is given   *)
(* one attempt, with an exponential backoff between the attempts, before   *)
(* the loop of Client::run starts.  last_heartbeat is taken before, so the *)
(* time the lookup blocks and the time slept both count against the 45     *)
(* seconds of that loop.                                                   *)
(*                                                                         *)
(* The socket does not block: an attempt fails at once, for an address the *)
(* IPv4 socket cannot take or without a route; a server that refuses is    *)
(* seen by the loop.  Times are milliseconds.                              *)
(***************************************************************************)
EXTENDS Integers, Sequences

CONSTANTS
    MaxAddrs,    \* bound: addresses of a lookup
    LookupTimes, \* for how long the lookup may block
    Faults       \* lookup, route, recv_buffer: what may fail

\* External: ExponentialBackoff::default().
InitialInterval == 500
MaxInterval == 60000
MaxElapsed == 900000

ASSUME ConnectAssumption ==
    /\ MaxAddrs \in Nat
    /\ LookupTimes \subseteq Nat
    /\ Faults \subseteq {"lookup", "route", "recv_buffer"}

VARIABLES
    addrs,     \* what the lookup returned
    tried,     \* attempts made: where addrs.next() stands
    interval,  \* the backoff's current interval
    blocked,   \* time to_socket_addrs took
    slept,     \* time slept between attempts: since the backoff was made
    route,     \* external: whether IPv4 addresses can be reached
    outage,    \* there was a time when they could not
    stage      \* where connect() stands, or how it ended

vars == <<addrs, tried, interval, blocked, slept, route, outage, stage>>

\* The age of last_heartbeat.
elapsed == blocked + slept

Families == {"v4", "v6"}
Lookups == UNION {[1..n -> Families] : n \in 0..MaxAddrs}

Init ==
    /\ addrs = <<>> /\ tried = 0 /\ interval = InitialInterval
    /\ blocked = 0 /\ slept = 0
    /\ route = TRUE /\ outage = FALSE /\ stage = "lookup"

\* to_socket_addrs, which blocks, or process::exit(1).
Lookup ==
    /\ stage = "lookup"
    /\ \/ addrs' \in Lookups /\ stage' = "attempt"
       \/ "lookup" \in Faults /\ stage' = "exited" /\ UNCHANGED addrs
    /\ blocked' \in LookupTimes
    /\ UNCHANGED <<tried, interval, slept, route, outage>>

\* socket_connect: an IPv4 socket, whatever the address.
Reached(a) == route /\ a = "v4"

\* Mutant: an error ends the attempts.
Failed_GiveUp == "exhausted"

\* Where a failed attempt leads.
Failed == "backoff"

\* Mutant: a failed attempt costs two addresses.
Advance_Two == tried' = tried + 2

\* addrs.next().
Advance == tried' = tried + 1

\* addrs.next().expect(..), socket_connect, set_recv_buffer_size.
Attempt ==
    /\ stage = "attempt"
    /\ \/ /\ tried >= Len(addrs)
          /\ stage' = "exhausted" /\ UNCHANGED tried
       \/ /\ tried < Len(addrs)
          /\ Advance
          /\ \/ Reached(addrs[tried + 1]) /\ stage' = "connected"
             \/ Reached(addrs[tried + 1]) /\ "recv_buffer" \in Faults /\ stage' = "panicked"
             \/ ~Reached(addrs[tried + 1]) /\ stage' = Failed
    /\ UNCHANGED <<addrs, interval, blocked, slept, route, outage>>

\* External: the multiplier is 1.5.
Longer(t) == IF (3 * t) \div 2 > MaxInterval THEN MaxInterval ELSE (3 * t) \div 2

\* External: the interval give or take half of it; its ends.
Jittered(t) == {t \div 2, t + t \div 2}

\* Mutant: milliseconds are taken for seconds.
Sleep_Seconds(t) == slept' = slept + 1000 * t

\* thread::sleep.
Sleep(t) == slept' = slept + t

\* backoff.next_backoff() and the sleep, which None leaves out.
Backoff ==
    /\ stage = "backoff"
    /\ stage' = "attempt"
    /\ IF slept > MaxElapsed THEN UNCHANGED <<interval, slept>>
       ELSE /\ \E t \in Jittered(interval) : Sleep(t)
            /\ interval' = Longer(interval)
    /\ UNCHANGED <<addrs, tried, blocked, route, outage>>

\* External: the route comes and goes while the lookup or the sleep takes its time.
RouteChanges ==
    /\ "route" \in Faults /\ stage \in {"lookup", "backoff"}
    /\ route' = ~route
    /\ outage' = TRUE
    /\ UNCHANGED <<addrs, tried, interval, blocked, slept, stage>>

Next == Lookup \/ Attempt \/ Backoff \/ RouteChanges

Spec == Init /\ [][Next]_vars

\* The thread of run() goes on.
FairSpec == Spec /\ WF_vars(Lookup) /\ WF_vars(Attempt) /\ WF_vars(Backoff)

-----------------------------------------------------------------------------
(* Properties *)

\* The type of every variable.
TypeOK ==
    /\ addrs \in Seq(Families) /\ tried \in 0..Len(addrs)
    /\ interval \in Nat /\ blocked \in Nat /\ slept \in Nat
    /\ route \in BOOLEAN /\ outage \in BOOLEAN
    /\ stage \in {"lookup", "attempt", "backoff",
                  "connected", "exhausted", "panicked", "exited"}

\* connect() takes the first address that can be reached: every address before
\* the one it ends with failed, and it panics for want of an address only when
\* none of them could be reached all the time.
FirstReachable ==
    ~outage =>
        /\ stage \in {"connected", "panicked"} =>
              addrs[tried] = "v4" /\ \A i \in 1..(tried - 1) : addrs[i] = "v6"
        /\ stage = "exhausted" => \A i \in 1..Len(addrs) : addrs[i] = "v6"

\* The loop of run() does not start with a last_heartbeat that is late already,
\* for all the waiting connect() does: a lookup of up to 8 seconds leaves time
\* for 9 addresses, one of up to 40 seconds for 4.  Beyond that it may.
FreshHeartbeat ==
    /\ stage = "connected"
    /\ (blocked <= 8000 /\ tried <= 9) \/ (blocked <= 40000 /\ tried <= 4)
    => elapsed <= 45000

\* connect() hands over a stream in the end, if the lookup has an address the
\* socket can take and the route to it is there.
Connects ==
    (stage = "attempt" /\ tried = 0 /\ \E i \in 1..Len(addrs) : addrs[i] = "v4")
        ~> (stage \in {"connected", "panicked"} \/ outage)
=============================================================================
