----------------------------- MODULE MCHandlers -----------------------------
(* Small instances of Handlers. *)
EXTENDS Handlers, TLC

\* Threads are spread over the clients so that every client has one.
MCClientOf ==
    CHOOSE f \in [Threads -> Clients] : \A c \in Clients : \E t \in Threads : f[t] = c

MCSymmetry == Permutations(Workers)
=============================================================================
