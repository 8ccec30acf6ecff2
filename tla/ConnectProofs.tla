--------------------------- MODULE ConnectProofs ---------------------------
(***************************************************************************)
(* What connect() does for every list of addresses and every set of        *)
(* faults: proofs about module Connect.                                    *)
(***************************************************************************)
EXTENDS Connect, TLAPS

\* No address is tried before the lookup, and one has been once connect() waits,
\* is through or has panicked.
Counted ==
    /\ stage = "lookup" => tried = 0
    /\ stage \in {"connected", "panicked", "backoff"} => tried >= 1

\* Without an outage the route is there, and only an address of the other family
\* has failed.
OnlyV6Failed ==
    ~outage =>
        /\ route
        /\ stage \in {"attempt", "backoff"} => \A i \in 1..tried : addrs[i] = "v6"
        /\ stage \in {"connected", "panicked"} =>
              addrs[tried] = "v4" /\ \A i \in 1..(tried - 1) : addrs[i] = "v6"
        /\ stage = "exhausted" => \A i \in 1..Len(addrs) : addrs[i] = "v6"

\* How often connect() has slept.
Slept == IF stage \in {"lookup", "attempt"} THEN tried ELSE tried - 1

\* The interval and the longest time slept, after so many sleeps.
Intervals == <<500, 750, 1125, 1687, 2530, 3795, 5692, 8538, 12807>>
Longest == <<0, 750, 1875, 3562, 6092, 9887, 15579, 24117, 36924>>

\* The table, for as long as it lasts.
Paced ==
    stage # "exhausted" /\ stage # "exited" /\ Slept <= 8 =>
        /\ interval = Intervals[Slept + 1]
        /\ slept <= Longest[Slept + 1]

-----------------------------------------------------------------------------
\* What lookup_host returns is a sequence of addresses.
LEMMA LookupIsSequence ==
    ASSUME NEW s \in Lookups
    PROVE  s \in Seq(Families)
  BY ConnectAssumption DEF Lookups

\* TypeOK with Counted is inductive: addrs.next() is called only while there
\* is an address left.
THEOREM TypeCorrect == Spec => [](TypeOK /\ Counted)
<1> USE DEF TypeOK, Counted
<1>1. Init => TypeOK /\ Counted
  <2>1. <<>> \in Seq(Families) /\ Len(<<>>) = 0
    OBVIOUS
  <2> SUFFICES ASSUME Init PROVE TypeOK /\ Counted
    OBVIOUS
  <2>2. addrs \in Seq(Families) /\ tried \in 0..Len(addrs)
    BY <2>1 DEF Init
  <2>3. interval \in Nat /\ blocked \in Nat /\ slept \in Nat
    BY DEF Init, InitialInterval
  <2> QED
    BY <2>2, <2>3, Zenon DEF Init
<1>2. TypeOK /\ Counted /\ [Next]_vars => (TypeOK /\ Counted)'
  <2> SUFFICES ASSUME TypeOK, Counted, [Next]_vars
               PROVE  (TypeOK /\ Counted)'
    OBVIOUS
  <2>1. CASE Lookup
    BY <2>1, LookupIsSequence, ConnectAssumption DEF Lookup
  <2>2. CASE Attempt
    BY <2>2 DEF Attempt, Advance, Failed
  <2>3. CASE Backoff
    <3>1. interval' \in Nat /\ slept' \in Nat
      BY <2>3 DEF Backoff, Jittered, Longer, Sleep, MaxInterval, MaxElapsed
    <3> QED
      BY <2>3, <3>1 DEF Backoff
  <2>4. CASE RouteChanges
    BY <2>4 DEF RouteChanges
  <2>5. CASE UNCHANGED vars
    BY <2>5 DEF vars
  <2> QED
    BY <2>1, <2>2, <2>3, <2>4, <2>5 DEF Next
<1> QED
  BY <1>1, <1>2, PTL DEF Spec

\* However long the list: connect() ends with the first address it can reach,
\* and with none only when there is none.
THEOREM FirstReachableTaken == Spec => []FirstReachable
<1>1. Init => OnlyV6Failed
  BY DEF Init, OnlyV6Failed
<1>2. TypeOK /\ Counted /\ OnlyV6Failed /\ [Next]_vars => OnlyV6Failed'
  <2> SUFFICES ASSUME TypeOK, Counted, OnlyV6Failed, [Next]_vars, ~outage'
               PROVE  OnlyV6Failed'
    BY DEF OnlyV6Failed
  <2> USE DEF OnlyV6Failed
  <2>1. CASE Lookup
    BY <2>1 DEF Lookup, Counted, TypeOK
  <2>2. CASE Attempt
    <3>1. ~outage /\ route /\ route' /\ addrs' = addrs
          /\ tried \in 0..Len(addrs) /\ \A i \in 1..tried : addrs[i] = "v6"
      BY <2>2 DEF Attempt, TypeOK
    <3>2. CASE tried >= Len(addrs)
      BY <2>2, <3>1, <3>2 DEF Attempt, TypeOK
    <3>3. CASE tried < Len(addrs)
      <4>1. tried' = tried + 1 /\ addrs[tried + 1] \in Families
        BY <2>2, <3>1, <3>3 DEF Attempt, Advance, TypeOK
      <4>2. CASE addrs[tried + 1] = "v4"
        BY <2>2, <3>1, <3>3, <4>1, <4>2 DEF Attempt, Reached, TypeOK
      <4>3. CASE addrs[tried + 1] = "v6"
        <5>1. stage' = "backoff"
          BY <2>2, <3>1, <3>3, <4>3 DEF Attempt, Reached, Failed, TypeOK
        <5>2. \A i \in 1..(tried + 1) : i \in 1..tried \/ i = tried + 1
          BY <3>1
        <5> QED
          BY <3>1, <4>1, <4>3, <5>1, <5>2
      <4> QED
        BY <4>1, <4>2, <4>3 DEF Families
    <3> QED
      BY <3>1, <3>2, <3>3 DEF TypeOK
  <2>3. CASE Backoff
    BY <2>3 DEF Backoff
  <2>4. CASE RouteChanges
    BY <2>4 DEF RouteChanges
  <2>5. CASE UNCHANGED vars
    BY <2>5 DEF vars
  <2> QED
    BY <2>1, <2>2, <2>3, <2>4, <2>5 DEF Next
<1>3. OnlyV6Failed => FirstReachable
  BY DEF OnlyV6Failed, FirstReachable
<1> QED
  BY <1>1, <1>2, <1>3, TypeCorrect, PTL DEF Spec

\* One sleep takes a line of the table to the next, whatever the jitter.
LEMMA OneSleep ==
    ASSUME NEW k \in 0..7, NEW i \in Nat, NEW e \in Nat, NEW t \in Jittered(i),
           i = Intervals[k + 1], e <= Longest[k + 1]
    PROVE  /\ Longer(i) = Intervals[k + 2]
           /\ e + t <= Longest[k + 2]
           /\ e <= MaxElapsed
<1> USE DEF Intervals, Longest, Longer, Jittered, MaxInterval, MaxElapsed
<1>1. CASE k = 0
  BY <1>1
<1>2. CASE k = 1
  BY <1>2
<1>3. CASE k = 2
  BY <1>3
<1>4. CASE k = 3
  BY <1>4
<1>5. CASE k = 4
  BY <1>5
<1>6. CASE k = 5
  BY <1>6
<1>7. CASE k = 6
  BY <1>7
<1>8. CASE k = 7
  BY <1>8
<1> QED
  BY <1>1, <1>2, <1>3, <1>4, <1>5, <1>6, <1>7, <1>8

\* Nine addresses cost less than 37 seconds of backoff and four less than 4,
\* whatever the jitter: the table is inductive, and what is left of the 45
\* seconds is there for the lookup.
THEOREM HeartbeatFresh == Spec => []FreshHeartbeat
<1>1. Init => Paced
  BY DEF Init, Paced, Slept, Intervals, Longest, InitialInterval
<1>2. TypeOK /\ Counted /\ Paced /\ [Next]_vars => Paced'
  <2> SUFFICES ASSUME TypeOK, Counted, Paced, [Next]_vars
               PROVE  Paced'
    OBVIOUS
  <2>1. CASE Lookup
    BY <2>1 DEF Lookup, Paced, Slept
  <2>2. CASE Attempt
    BY <2>2 DEF Attempt, Advance, Failed, Paced, Slept, TypeOK
  <2>3. CASE Backoff
    <3> SUFFICES ASSUME Slept' <= 8
                 PROVE  interval' = Intervals[Slept' + 1] /\ slept' <= Longest[Slept' + 1]
      BY DEF Paced
    <3>1. Slept' = tried /\ Slept = tried - 1 /\ tried \in 1..8 /\ Slept \in 0..7
      BY <2>3 DEF Backoff, Slept, Counted, TypeOK
    <3>2. interval = Intervals[Slept + 1] /\ slept <= Longest[Slept + 1]
          /\ interval \in Nat /\ slept \in Nat
      BY <2>3, <3>1 DEF Paced, Backoff, TypeOK
    <3>3. interval \div 2 \in Jittered(interval)
      BY DEF Jittered
    <3>4. slept <= MaxElapsed
      BY <3>1, <3>2, <3>3, OneSleep
    <3>5. ~(slept > MaxElapsed)
      BY <3>2, <3>4 DEF MaxElapsed
    <3>6. PICK t \in Jittered(interval) : slept' = slept + t
      BY <2>3, <3>5 DEF Backoff, Sleep
    <3>7. interval' = Longer(interval)
      BY <2>3, <3>5 DEF Backoff
    <3>8. interval' = Intervals[Slept + 2] /\ slept' <= Longest[Slept + 2]
      BY <3>1, <3>2, <3>6, <3>7, OneSleep
    <3>9. Slept' + 1 = Slept + 2
      BY <3>1
    <3> QED
      BY <3>8, <3>9
  <2>4. CASE RouteChanges
    BY <2>4 DEF RouteChanges, Paced, Slept
  <2>5. CASE UNCHANGED vars
    BY <2>5 DEF vars, Paced, Slept
  <2> QED
    BY <2>1, <2>2, <2>3, <2>4, <2>5 DEF Next
<1>3. TypeOK /\ Counted /\ Paced => FreshHeartbeat
  <2> SUFFICES ASSUME TypeOK, Counted, Paced, stage = "connected"
               PROVE  /\ blocked <= 8000 /\ tried <= 9 => elapsed <= 45000
                      /\ blocked <= 40000 /\ tried <= 4 => elapsed <= 45000
    BY DEF FreshHeartbeat
  <2>1. blocked \in Nat /\ slept \in Nat /\ tried \in Nat /\ tried >= 1 /\ Slept = tried - 1
    BY DEF TypeOK, Counted, Slept
  <2>2. tried <= 9 => slept <= Longest[Slept + 1]
    BY <2>1 DEF Paced
  <2>3. tried <= 9 => Longest[Slept + 1] <= 36924
    <3> SUFFICES ASSUME tried <= 9 PROVE Longest[Slept + 1] <= 36924
      OBVIOUS
    <3>1. Slept + 1 \in 1..9
      BY <2>1
    <3> QED
      BY <3>1 DEF Longest
  <2>4. tried <= 4 => Longest[Slept + 1] <= 3562
    <3> SUFFICES ASSUME tried <= 4 PROVE Longest[Slept + 1] <= 3562
      OBVIOUS
    <3>1. Slept + 1 \in 1..4
      BY <2>1
    <3> QED
      BY <3>1 DEF Longest
  <2>5. \A i \in 1..9 : Longest[i] \in Nat
    BY DEF Longest
  <2>6. tried <= 9 => Longest[Slept + 1] \in Nat
    BY <2>1, <2>5
  <2> QED
    BY <2>1, <2>2, <2>3, <2>4, <2>6 DEF elapsed
<1> QED
  BY <1>1, <1>2, <1>3, TypeCorrect, PTL DEF Spec
=============================================================================
