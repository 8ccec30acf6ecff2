----------------------------- MODULE MCDecoder -----------------------------
(* Small instances of Decoder. *)
EXTENDS Decoder

OK == 4 + 2             \* "OK"
Heartbeat == 4 + 11     \* "_heartbeat_"
Message(n) == 4 + 26 + n \* timestamp, attempts, id and a body of n bytes

SmallFrames == {OK, Heartbeat, Message(2)}
LargeFrame == {Message(40)}
MixedFrames == SmallFrames \cup LargeFrame
=============================================================================
