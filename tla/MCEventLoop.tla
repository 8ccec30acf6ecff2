---------------------------- MODULE MCEventLoop ----------------------------
(* Small instances of EventLoop. *)
EXTENDS EventLoop

\* Clients with the right secret, on servers with and without AUTH and TLS; a
\* client without topic and channel has producer threads, another may have.
Sound == {s \in Setup : /\ s.secret = "good" /\ s.informed /\ (s.producer => s.publishes)
                        /\ s.config \in {DefaultConfig, TlsConfig}
                        /\ s.nsqd_tls = s.config.tls_v1}
QuietConsumers == {s \in Sound : ~s.producer /\ ~s.publishes}
TlsConsumers == {s \in QuietConsumers : s.nsqd_tls}
Producers == {s \in Sound : s.producer}

\* For liveness: plain, and over TLS with AUTH.
Steady == {s \in QuietConsumers : s.auth_required = s.nsqd_tls}

\* The other two of them, with producer threads.
Publishers == {s \in Sound : s.publishes /\ s.auth_required # s.nsqd_tls}

\* A consumer with AUTH that asks for TLS in vain; one with TLS whose user drops the
\* receiver of the reports.
Plain == {s \in Setup : /\ s.secret = "good" /\ s.auth_required /\ s.informed
                        /\ s.config = TlsConfig /\ ~s.nsqd_tls}
Tls == {s \in Setup : /\ s.secret = "none" /\ ~s.auth_required /\ ~s.informed
                      /\ s.config = TlsConfig /\ s.nsqd_tls}

\* Settings of Config other than the default.
NoNegotiation == [DefaultConfig EXCEPT !.feature_negotiation = FALSE]
NoHeartbeats == [DefaultConfig EXCEPT !.heartbeat_interval = -1]
RareHeartbeats == [DefaultConfig EXCEPT !.heartbeat_interval = 60000]
Set(configs) == {s \in Setup : /\ s.secret = "none" /\ ~s.auth_required /\ s.informed
                               /\ s.config \in configs /\ s.nsqd_tls}

\* Clients that AUTH turns away.
Refused == {s \in Setup : /\ s.secret # "good" /\ s.auth_required /\ s.nsqd_tls /\ s.informed
                          /\ s.config \in {DefaultConfig, TlsConfig}}

Quietly(setups) == {s \in setups : ~s.producer /\ ~s.publishes}
All == Publishers \cup Quietly(Plain \cup Tls \cup Refused \cup Set({NoNegotiation, NoHeartbeats}))
Rare == Quietly(Set({RareHeartbeats}))
=============================================================================
