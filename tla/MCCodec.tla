------------------------------ MODULE MCCodec ------------------------------
(* Small instances of Codec. *)
EXTENDS Codec

\* A body of n bytes; n messages of lengths 1, 2, ...
Body(n) == [i \in 1..n |-> 97 + i]
Batch(n) == [i \in 1..n |-> Body(i)]
Cmd(kind, bodies) == [cmd |-> kind, msg |-> bodies]

\* A command of each form: a line, one body (one that looks like a line too),
\* several.
Forms == {Cmd(FIN, <<>>), Cmd(IDENTIFY, <<Body(3)>>), Cmd(PUB, <<Body(1)>>),
          Cmd(PUB, << <<NL, FIN, NL>> >>), Cmd(MPUB, Batch(2))}

\* Messages at the ends of the range of attemps, with and without a body.
SomeMessages ==
    {[timestamp |-> [i \in 1..8 |-> i], attemps |-> n[1], id |-> [i \in 1..16 |-> 48 + (i % 10)],
      body |-> Body(n[2])] : n \in {<<1, 0>>, <<256, 1>>, <<65535, 3>>}}
=============================================================================
