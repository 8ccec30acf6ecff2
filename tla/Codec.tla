------------------------------- MODULE Codec -------------------------------
(***************************************************************************)
(* The commands of msgs.rs as the bytes of codec.rs: what Conn::write_cmd  *)
(* puts into w_buf, what write_tcp gets of it into the socket, and what    *)
(* nsqd makes of the stream; and the way back, a message frame and the     *)
(* fields decode_msg cuts it into.                                         *)
(*                                                                         *)
(* A byte is a number.  The text of a command with its arguments is one    *)
(* byte; the line ends, the lengths and the bodies are those of the code.  *)
(***************************************************************************)
EXTENDS Integers, Sequences, SequencesExt

CONSTANTS
    Cmds,     \* the commands handed to Conn::write_cmd, see Command
    Messages, \* the messages nsqd sends, see Message
    Faults,   \* what a write may do: would_block, short_write
    MaxBody,  \* external: the size of a body nsqd takes
    MaxCmds   \* bound: commands written

NL == 10                                    \* '\n'
VERSION == <<32, 32, 86, 50>>               \* "  V2"
NOP == 78
SUB == 83
RDY == 82
CLS == 67
FIN == 70
TOUCH == 84
REQ == 81
IDENTIFY == 73
AUTH == 65
PUB == 80
DPUB == 68
MPUB == 77
Lines == {NOP, SUB, RDY, CLS, FIN, TOUCH, REQ}   \* their msg() is the default, vec![]
Bodies == {IDENTIFY, AUTH, PUB, DPUB}            \* their msg() is a vector of one
Kinds == Lines \cup Bodies \cup {MPUB}

Byte == 0..255
U16 == {n \in Nat : n \div 256 \in Byte}

\* A value of Cmd: cmd() and msg().
Command == {c \in [cmd : Kinds, msg : Seq(Seq(Byte))] :
              /\ c.cmd \in Lines => c.msg = <<>>
              /\ c.cmd \in Bodies => Len(c.msg) = 1}

\* A message of nsqd: eight bytes, cut out as they are, two, sixteen of ASCII
\* and the rest.
Message == [timestamp : [1..8 -> Byte], attemps : U16, id : [1..16 -> 0..127],
            body : Seq(Byte)]

ASSUME CodecAssumption ==
    /\ Cmds \subseteq Command /\ Messages \subseteq Message
    /\ Faults \subseteq {"would_block", "short_write"}
    /\ MaxBody \in Nat /\ MaxBody \div 256 < 128 * 256 * 256   \* an i32
    /\ MaxCmds \in Nat

VARIABLES
    w_buf,    \* Conn.w_buf
    written,  \* commands handed to write_cmd
    taken,    \* those of them the socket took to the last byte
    cut,      \* a write took a part of w_buf
    stream,   \* external: the bytes that reached nsqd
    message,  \* external: the last message nsqd sent, if any
    handed    \* what on_msg got of it

vars == <<w_buf, written, taken, cut, stream, message, handed>>

-----------------------------------------------------------------------------
(* codec.rs *)

\* put_u32_be.
U32(n) == <<(((n \div 256) \div 256) \div 256) % 256, ((n \div 256) \div 256) % 256,
            (n \div 256) % 256, n % 256>>

write_cmd(cmd) == <<cmd, NL>>

\* Mutant: the length counts its own four bytes.
write_msg_Inclusive(body) == U32(4 + Len(body)) \o body

write_msg(body) == U32(Len(body)) \o body

\* Mutant: the size leaves out the lengths of the messages.
BodySize_Short(msgs) ==
    LET sum[k \in 0..Len(msgs)] == IF k = 0 THEN 0 ELSE sum[k - 1] + Len(msgs[k])
    IN  sum[Len(msgs)] + 4

\* The fold of write_mmsg, in an i32: one that overflows is no Sound command's.
BodySize(msgs) ==
    LET sum[k \in 0..Len(msgs)] == IF k = 0 THEN 0 ELSE sum[k - 1] + Len(msgs[k]) + 4
    IN  sum[Len(msgs)] + 4

\* Its loop, after each of the messages.
Laid(msgs) ==
    LET laid[k \in 0..Len(msgs)] == IF k = 0 THEN <<>> ELSE laid[k - 1] \o write_msg(msgs[k])
    IN  laid

write_mmsg(msgs) == U32(BodySize(msgs)) \o U32(Len(msgs)) \o Laid(msgs)[Len(msgs)]

\* Conn::write_cmd goes by the number of bodies.
Encoded(c) ==
    write_cmd(c.cmd) \o
        CASE Len(c.msg) = 0 -> <<>>
          [] Len(c.msg) = 1 -> write_msg(c.msg[1])
          [] OTHER -> write_mmsg(c.msg)

\* str::from_utf8, of ids in ASCII; one that fails is taken for "".
Text(s) == IF \A i \in DOMAIN s : s[i] < 128 THEN s ELSE <<>>

\* Mutant: the number of attempts is read little-endian.
decode_msg_Little(buf) ==
    [timestamp |-> SubSeq(buf, 1, 8), attemps |-> buf[9] + 256 * buf[10],
     id |-> Text(SubSeq(buf, 11, 26)), body |-> SubSeq(buf, 27, Len(buf))]

\* split_to(8), split_to(2), split_to(16) and the rest.
decode_msg(buf) ==
    [timestamp |-> SubSeq(buf, 1, 8), attemps |-> 256 * buf[9] + buf[10],
     id |-> Text(SubSeq(buf, 11, 26)), body |-> SubSeq(buf, 27, Len(buf))]

-----------------------------------------------------------------------------
(* External: the grammar of nsqd's input, read command by command *)

Number(s, i) == 256 * (256 * (256 * s[i] + s[i + 1]) + s[i + 2]) + s[i + 3]

\* What a reader at i comes to: how it stands, where, and the bodies it has.
At(is, end, bodies) == [is |-> is, end |-> end, bodies |-> bodies]

\* A length and as many bytes; no length is 0, and what is missing is waited for.
Sized(s, i) ==
    IF i + 3 > Len(s) THEN At("wait", i, <<>>)
    ELSE IF Number(s, i) \notin 1..MaxBody THEN At("error", i, <<>>)
    ELSE IF i + 3 + Number(s, i) > Len(s) THEN At("wait", i, <<>>)
    ELSE At("body", i + 4 + Number(s, i), <<SubSeq(s, i + 4, i + 3 + Number(s, i))>>)

\* One more message of an MPUB.
OneMore(s, r) ==
    LET m == Sized(s, r.end)
    IN  IF r.is = "body" /\ m.is = "body" THEN At("body", m.end, r.bodies \o m.bodies)
        ELSE At("error", r.end, <<>>)

\* The body of MPUB: its size, the number of messages, each with its length,
\* which fill the body.
Multi(s, i) ==
    LET whole == Sized(s, i)
        count == Number(s, i + 4)
        took[k \in 0..count] == IF k = 0 THEN At("body", i + 8, <<>>)
                                ELSE OneMore(s, took[k - 1])
    IN  IF whole.is # "body" THEN whole
        ELSE IF whole.end < i + 8 \/ count > MaxBody THEN At("error", i, <<>>)
        ELSE IF took[count].end # whole.end THEN At("error", i, <<>>)
        ELSE took[count]

\* What follows the line of a command.
Following(s, i) ==
    CASE s[i] \in Lines -> At("body", i + 2, <<>>)
      [] s[i] \in Bodies -> Sized(s, i + 2)
      [] s[i] = MPUB -> Multi(s, i + 2)
      [] OTHER -> At("error", i, <<>>)

\* One command, at r.at; cmds are those before it.
OneCommand(s, r) ==
    LET i == r.at
        ends == {j \in DOMAIN s : j >= i /\ s[j] = NL}
        body == Following(s, i)
    IN  IF r.is # "go" THEN r
        ELSE IF i \notin DOMAIN s THEN [r EXCEPT !.is = "end"]
        ELSE IF ends = {} THEN [r EXCEPT !.is = "wait"]
        ELSE IF i \in ends \/ i + 1 \notin ends THEN [r EXCEPT !.is = "error"]
        ELSE IF body.is # "body" THEN [r EXCEPT !.is = body.is]
        ELSE [is |-> "go", at |-> body.end,
              cmds |-> Append(r.cmds, [cmd |-> s[i], msg |-> body.bodies])]

\* The commands nsqd gets out of s, and how it stands at the end of it: it takes
\* two bytes at least for each.
Parsed(s) ==
    LET read[k \in 0..Len(s)] ==
            IF k = 0 THEN [is |-> "go", at |-> Len(VERSION) + 1, cmds |-> <<>>]
            ELSE OneCommand(s, read[k - 1])
    IN  read[Len(s)]

\* External: the payload of a message frame.
Payload(m) == m.timestamp \o <<m.attemps \div 256, m.attemps % 256>> \o m.id \o m.body

-----------------------------------------------------------------------------
\* Conn::magic.
Init ==
    /\ w_buf = VERSION
    /\ written = <<>> /\ taken = <<>> /\ cut = FALSE /\ stream = <<>>
    /\ message = <<>> /\ handed = <<>>

\* Mutant: what the socket did not take stays for the next write.
write_tcp_Kept(buf, n) ==
    /\ stream' = stream \o SubSeq(buf, 1, n)
    /\ w_buf' = IF n = 0 THEN buf ELSE <<>>

\* write_tcp: one write, of which the socket takes n bytes, or none with an
\* error; w_buf is cleared in each case.
write_tcp(buf, n) ==
    /\ stream' = stream \o SubSeq(buf, 1, n)
    /\ w_buf' = <<>>

\* write_cmd of a command and the write that follows it.
WriteCmd(c, n) ==
    LET buf == w_buf \o Encoded(c)
    IN  /\ Len(written) < MaxCmds
        /\ \/ n = Len(buf)
           \/ n = 0 /\ "would_block" \in Faults
           \/ n \in 1..(Len(buf) - 1) /\ "short_write" \in Faults
        /\ write_tcp(buf, n)
        /\ written' = Append(written, c)
        /\ taken' = IF n = Len(buf) /\ ~cut THEN Append(taken, c) ELSE taken
        /\ cut' = (cut \/ n \in 1..(Len(buf) - 1))
        /\ UNCHANGED <<message, handed>>

\* A message frame comes out of msg_channel (bound: one), and a reader hands its
\* fields to on_msg.
ReadMsg(m) ==
    /\ message = <<>>
    /\ message' = <<m>>
    /\ handed' = <<decode_msg(Payload(m))>>
    /\ UNCHANGED <<w_buf, written, taken, cut, stream>>

Next ==
    \/ \E c \in Cmds : \E n \in 0..(Len(w_buf) + Len(Encoded(c))) : WriteCmd(c, n)
    \/ \E m \in Messages : ReadMsg(m)

Spec == Init /\ [][Next]_vars

-----------------------------------------------------------------------------
(* Properties *)

\* The type of every variable; after a write w_buf is empty.
TypeOK ==
    /\ w_buf \in {VERSION, <<>>} /\ stream \in Seq(Byte)
    /\ written \in Seq(Cmds) /\ taken \in Seq(Cmds)
    /\ cut \in BOOLEAN /\ message \in Seq(Messages)

\* A command that comes over as it is: no body is empty, which NSQ forbids, or
\* larger than nsqd takes, and an MPUB has several, since Conn::write_cmd gives
\* the only one of an MPUB the layout of PUB.
Sound(c) ==
    /\ \A i \in DOMAIN c.msg : Len(c.msg[i]) \in 1..MaxBody
    /\ c.cmd = MPUB => Len(c.msg) > 1 /\ BodySize(c.msg) <= MaxBody

\* What nsqd is given to parse.
AllSound == \A i \in DOMAIN written : Sound(written[i])
Greeted == IsPrefix(VERSION, stream)

\* Conn::write_cmd and write_tcp: as long as a write is taken as a whole or
\* not at all, nsqd executes exactly the commands whose write was taken, in
\* order and with their bodies, and none that was lost disturbs another.
InSync ==
    Greeted /\ AllSound /\ ~cut => Parsed(stream).is = "end" /\ Parsed(stream).cmds = taken

\* A write that is cut short damages nothing that went before it: nsqd has
\* executed every command written up to there.
CutHurtsLater == Greeted /\ AllSound /\ cut => IsPrefix(taken, Parsed(stream).cmds)

\* Client::spawn hands on_msg the fields of the message nsqd sent.
MessageFaithful == handed = message
=============================================================================
