---------------------------- MODULE CodecProofs ----------------------------
(***************************************************************************)
(* What reaches nsqd of any commands, of any size nsqd takes, and what     *)
(* on_msg gets of any message: proofs about module Codec.                  *)
(***************************************************************************)
EXTENDS Codec, Induction

-----------------------------------------------------------------------------
(* Numbers as bytes *)

\* The last byte of a number and the others.
LEMMA LastByte ==
    ASSUME NEW n \in Nat
    PROVE  /\ n \div 256 \in Nat /\ n % 256 \in 0..255
           /\ n = 256 * (n \div 256) + (n % 256)
OBVIOUS

\* Four bytes are enough.
LEMMA FourBytes ==
    ASSUME NEW r \in Nat, NEW z \in Nat, NEW y \in Nat, NEW x \in Nat,
           256 * (256 * (256 * r + z) + y) + x < 256 * 256 * 256 * 256
    PROVE  r \in 0..255 /\ r % 256 = r
OBVIOUS

\* Enough for the size of every body nsqd takes.
LEMMA MaxBodyFits == MaxBody \in Nat /\ MaxBody < 256 * 256 * 256 * 256
<1>1. MaxBody \in Nat /\ MaxBody \div 256 < 256 * 256 * 256
  BY CodecAssumption, 128 * 256 * 256 < 256 * 256 * 256
<1>2. PICK q \in Nat, r \in 0..255 : MaxBody = 256 * q + r /\ q < 256 * 256 * 256
  BY <1>1, LastByte
<1> QED
  BY <1>1, <1>2

\* A length of four bytes.
LEMMA U32Bytes ==
    ASSUME NEW n \in Nat, n < 256 * 256 * 256 * 256
    PROVE  /\ U32(n) \in Seq(Byte) /\ Len(U32(n)) = 4
           /\ 256 * (256 * (256 * U32(n)[1] + U32(n)[2]) + U32(n)[3]) + U32(n)[4] = n
<1> DEFINE p == n \div 256
           q == p \div 256
           r == q \div 256
<1>1. p \in Nat /\ n % 256 \in 0..255 /\ n = 256 * p + (n % 256)
  BY LastByte
<1>2. q \in Nat /\ p % 256 \in 0..255 /\ p = 256 * q + (p % 256)
  BY <1>1, LastByte
<1>3. r \in Nat /\ q % 256 \in 0..255 /\ q = 256 * r + (q % 256)
  BY <1>2, LastByte
<1>4. U32(n) = <<r % 256, q % 256, p % 256, n % 256>>
  BY DEF U32
<1> HIDE DEF p, q, r
<1>5. PICK x \in 0..255 : x = n % 256
  BY <1>1
<1>6. PICK y \in 0..255 : y = p % 256
  BY <1>2
<1>7. PICK z \in 0..255 : z = q % 256
  BY <1>3
<1>8. n = 256 * (256 * (256 * r + z) + y) + x
  BY <1>1, <1>2, <1>3, <1>5, <1>6, <1>7
<1>9. r \in 0..255 /\ r % 256 = r
  <2>1. z \in Nat /\ y \in Nat /\ x \in Nat
    OBVIOUS
  <2> QED
    BY <1>3, <1>8, <2>1, FourBytes
<1>10. U32(n) = <<r, z, y, x>>
  BY <1>4, <1>5, <1>6, <1>7, <1>9
<1>11. U32(n) \in Seq(Byte) /\ Len(U32(n)) = 4
  <2> DEFINE u == <<r, z, y, x>>
  <2>1. r \in Byte /\ z \in Byte /\ y \in Byte /\ x \in Byte
    BY <1>9 DEF Byte
  <2> QED
    BY <1>10, <2>1
<1>12. U32(n)[1] = r /\ U32(n)[2] = z /\ U32(n)[3] = y /\ U32(n)[4] = x
  BY <1>10
<1> QED
  BY <1>8, <1>11, <1>12

\* Whatever the number, they are four.
LEMMA U32Type ==
    ASSUME NEW n \in Nat
    PROVE  U32(n) \in Seq(Byte) /\ Len(U32(n)) = 4
<1> DEFINE p == n \div 256
           q == p \div 256
           r == q \div 256
<1>1. p \in Nat /\ q \in Nat /\ r \in Nat
  BY LastByte
<1>2. n % 256 \in Byte /\ p % 256 \in Byte /\ q % 256 \in Byte /\ r % 256 \in Byte
  <2> HIDE DEF p, q, r
  <2> QED
    BY <1>1, LastByte DEF Byte
<1>3. U32(n) = <<r % 256, q % 256, p % 256, n % 256>>
  BY DEF U32
<1> DEFINE w == r % 256
           x == q % 256
           y == p % 256
           z == n % 256
<1> HIDE DEF w, x, y, z
<1>4. U32(n) = <<w, x, y, z>> /\ w \in Byte /\ x \in Byte /\ y \in Byte /\ z \in Byte
  BY <1>2, <1>3 DEF w, x, y, z
<1> QED
  BY <1>4

-----------------------------------------------------------------------------
(* Parts of what was joined *)

\* The beginning is that of the first.
LEMMA FirstOf ==
    ASSUME NEW S, NEW s \in Seq(S), NEW t \in Seq(S), NEW n \in 0..Len(s)
    PROVE  SubSeq(s \o t, 1, n) = SubSeq(s, 1, n)
<1>1. /\ s \o t \in Seq(S) /\ Len(s \o t) = Len(s) + Len(t)
      /\ \A i \in 1..Len(s) : (s \o t)[i] = s[i]
  BY Joined
<1>2. n \in 0..Len(s \o t)
  BY <1>1
<1>3. /\ SubSeq(s, 1, n) \in Seq(S) /\ Len(SubSeq(s, 1, n)) = n
      /\ \A i \in 1..n : SubSeq(s, 1, n)[i] = s[i]
  BY Split
<1>4. /\ SubSeq(s \o t, 1, n) \in Seq(S) /\ Len(SubSeq(s \o t, 1, n)) = n
      /\ \A i \in 1..n : SubSeq(s \o t, 1, n)[i] = (s \o t)[i]
  <2> DEFINE w == s \o t
  <2>1. w \in Seq(S) /\ n \in 0..Len(w)
    BY <1>1, <1>2
  <2> HIDE DEF w
  <2>2. /\ SubSeq(w, 1, n) \in Seq(S) /\ Len(SubSeq(w, 1, n)) = n
        /\ \A i \in 1..n : SubSeq(w, 1, n)[i] = w[i]
    BY <2>1, Split
  <2> QED
    BY <2>2 DEF w
<1>5. \A i \in 1..n : SubSeq(s \o t, 1, n)[i] = SubSeq(s, 1, n)[i]
  BY <1>1, <1>3, <1>4
<1> QED
  BY <1>3, <1>4, <1>5, SameSequence

\* What is behind the first is the second.
LEMMA LastOf ==
    ASSUME NEW S, NEW s \in Seq(S), NEW t \in Seq(S)
    PROVE  SubSeq(s \o t, Len(s) + 1, Len(s) + Len(t)) = t
<1> DEFINE w == s \o t
<1>1. /\ w \in Seq(S) /\ Len(w) = Len(s) + Len(t)
      /\ \A i \in 1..Len(t) : w[Len(s) + i] = t[i]
  BY Joined
<1> HIDE DEF w
<1>2. Len(s) \in 0..Len(w) /\ Len(s) \in Nat /\ Len(t) \in Nat /\ Len(w) - Len(s) = Len(t)
  BY <1>1
<1> DEFINE v == SubSeq(w, Len(s) + 1, Len(w))
<1>3. v \in Seq(S) /\ Len(v) = Len(t) /\ \A i \in 1..Len(t) : v[i] = w[Len(s) + i]
  BY <1>1, <1>2, Split
<1> HIDE DEF v
<1>4. v = t
  BY <1>1, <1>3, SameSequence
<1> QED
  BY <1>1, <1>4 DEF v, w

\* What is behind the first, up to the third, is the second.
LEMMA MiddleOf ==
    ASSUME NEW S, NEW s \in Seq(S), NEW t \in Seq(S), NEW u \in Seq(S)
    PROVE  SubSeq((s \o t) \o u, Len(s) + 1, Len(s) + Len(t)) = t
<1> DEFINE w == (s \o t) \o u
<1>1. /\ s \o t \in Seq(S) /\ Len(s \o t) = Len(s) + Len(t)
      /\ \A i \in 1..Len(t) : (s \o t)[Len(s) + i] = t[i]
  BY Joined
<1>2. /\ w \in Seq(S) /\ Len(w) = Len(s \o t) + Len(u)
      /\ \A i \in 1..Len(s \o t) : w[i] = (s \o t)[i]
  BY <1>1, Joined
<1> HIDE DEF w
<1> DEFINE v == SubSeq(w, Len(s) + 1, Len(s) + Len(t))
<1>3. Len(s) \in Nat /\ Len(t) \in Nat /\ Len(w) >= Len(s) + Len(t)
  BY <1>1, <1>2
<1>4. v \in Seq(S) /\ Len(v) = Len(t) /\ \A i \in 1..Len(t) : v[i] = w[Len(s) + i]
  <2>1. Len(s) + 1 \in 1..(Len(w) + 1) /\ Len(s) + Len(t) \in ((Len(s) + 1) - 1)..Len(w)
        /\ (Len(s) + Len(t)) - (Len(s) + 1) + 1 = Len(t)
        /\ \A i \in 1..Len(t) : ((Len(s) + 1) + i) - 1 = Len(s) + i
    BY <1>3
  <2> QED
    BY <1>2, <2>1, Middle
<1>5. \A i \in 1..Len(t) : w[Len(s) + i] = t[i]
  BY <1>1, <1>2, <1>3
<1> HIDE DEF v
<1>6. v = t
  BY <1>4, <1>5, SameSequence
<1> QED
  BY <1>6 DEF v, w

-----------------------------------------------------------------------------
(* Messages *)

\* A function on the first n numbers is a sequence of that length.
LEMMA IsSequence ==
    ASSUME NEW S, NEW n \in Nat, NEW f \in [1..n -> S]
    PROVE  f \in Seq(S) /\ Len(f) = n /\ DOMAIN f = 1..n
OBVIOUS

\* An id comes through from_utf8 as it is.
LEMMA IdText ==
    ASSUME NEW n \in Nat, NEW f \in [1..n -> 0..127]
    PROVE  f \in Seq(Byte) /\ Len(f) = n /\ Text(f) = f
<1>1. ASSUME NEW i \in 1..n PROVE f[i] \in Byte /\ f[i] < 128
  <2>1. PICK x \in 0..127 : x = f[i]
    OBVIOUS
  <2>2. x \in 0..255 /\ x < 128
    OBVIOUS
  <2> QED
    BY <2>1, <2>2 DEF Byte
<1>2. f \in [1..n -> Byte] /\ DOMAIN f = 1..n
  BY <1>1
<1>3. Text(f) = f
  BY <1>1, <1>2 DEF Text
<1> QED
  BY <1>2, <1>3, IsSequence

\* decode_msg undoes the layout of a message.
LEMMA DecodesPayload ==
    ASSUME NEW m \in Message
    PROVE  decode_msg(Payload(m)) = m
<1> DEFINE a == m.timestamp
           p == m.attemps \div 256
           x == m.attemps % 256
           b == <<p, x>>
           c == m.id
           d == m.body
<1>1. /\ a \in [1..8 -> Byte] /\ c \in [1..16 -> 0..127] /\ d \in Seq(Byte)
      /\ m.attemps \in U16
      /\ m = [timestamp |-> a, attemps |-> m.attemps, id |-> c, body |-> d]
  BY DEF Message
<1>2. p \in Byte /\ x \in Byte /\ 256 * p + x = m.attemps
  <2> DEFINE n == m.attemps
  <2>1. n \in Nat /\ n \div 256 \in Byte
    BY <1>1 DEF U16
  <2> HIDE DEF n
  <2>2. x \in 0..255 /\ n = 256 * p + x
    <3>1. n % 256 \in 0..255 /\ n = 256 * (n \div 256) + (n % 256)
      BY <2>1, LastByte
    <3> QED
      BY <3>1 DEF n
  <2> HIDE DEF x
  <2> QED
    BY <2>1, <2>2 DEF Byte, n
<1> HIDE DEF p, x
<1>3. a \in Seq(Byte) /\ b \in Seq(Byte) /\ c \in Seq(Byte) /\ d \in Seq(Byte)
  <2>1. a \in Seq(Byte)
    BY <1>1, IsSequence
  <2>2. c \in Seq(Byte)
    BY <1>1, IdText
  <2>3. b \in Seq(Byte)
    BY <1>2
  <2> QED
    BY <1>1, <2>1, <2>2, <2>3
<1>4. Len(a) = 8 /\ Len(b) = 2 /\ Len(c) = 16
  <2>1. Len(a) = 8
    BY <1>1, IsSequence
  <2>2. Len(c) = 16
    BY <1>1, IdText
  <2> QED
    BY <2>1, <2>2
<1>5. b[1] = p /\ b[2] = x
  OBVIOUS
<1>6. Payload(m) = ((a \o b) \o c) \o d
  BY ZenonT(30) DEF Payload, p, x
<1> HIDE DEF a, b, c, d
<1>7. Text(c) = c
  <2>1. c \in [1..16 -> 0..127] /\ 16 \in Nat
    BY <1>1
  <2> QED
    BY <2>1, IdText
<1> DEFINE e == a \o b
<1>8. /\ e \in Seq(Byte) /\ Len(e) = Len(a) + Len(b)
      /\ \A i \in 1..Len(a) : e[i] = a[i]
      /\ \A i \in 1..Len(b) : e[Len(a) + i] = b[i]
  BY <1>3, Joined
<1> DEFINE f == e \o c
<1>9. f \in Seq(Byte) /\ Len(f) = Len(e) + Len(c)
      /\ \A i \in 1..Len(e) : f[i] = e[i]
  <2> HIDE DEF e
  <2>1. e \in Seq(Byte) /\ c \in Seq(Byte)
    BY <1>3, <1>8
  <2> QED
    BY <2>1, Joined
<1> DEFINE w == f \o d
<1>10. w \in Seq(Byte) /\ Len(w) = Len(f) + Len(d)
       /\ \A i \in 1..Len(f) : w[i] = f[i]
  <2> HIDE DEF f
  <2> QED
    BY <1>3, <1>9, Joined
<1>11. Len(e) = 10 /\ Len(f) = 26 /\ Len(w) = 26 + Len(d) /\ Len(d) \in Nat
  <2>1. Len(d) \in Nat
    BY <1>3
  <2> HIDE DEF e, f, w
  <2> QED
    BY <1>4, <1>8, <1>9, <1>10, <2>1
<1>12. SubSeq(w, 1, 8) = a
  <2>1. Len(a) \in 0..Len(a) /\ Len(a) \in 0..Len(e) /\ Len(a) \in 0..Len(f)
    <3> HIDE DEF e, f
    <3> QED
      BY <1>4, <1>11
  <2>2. SubSeq(w, 1, Len(a)) = SubSeq(f, 1, Len(a))
    <3> HIDE DEF f
    <3> QED
      BY <1>3, <1>9, <2>1, FirstOf
  <2>3. SubSeq(f, 1, Len(a)) = SubSeq(e, 1, Len(a))
    <3> HIDE DEF e
    <3> QED
      BY <1>3, <1>8, <2>1, FirstOf
  <2>4. SubSeq(e, 1, Len(a)) = SubSeq(a, 1, Len(a))
    BY <1>3, <2>1, FirstOf
  <2>5. SubSeq(a, 1, Len(a)) = a
    BY <1>3
  <2> HIDE DEF e, f, w
  <2> QED
    BY <1>4, <2>2, <2>3, <2>4, <2>5
<1>13. w[9] = p /\ w[10] = x
  <2> HIDE DEF e, f, w
  <2>1. 1 \in 1..Len(b) /\ 2 \in 1..Len(b) /\ Len(a) + 1 = 9 /\ Len(a) + 2 = 10
    BY <1>4
  <2>2. e[9] = b[1] /\ e[10] = b[2]
    BY <1>8, <2>1
  <2>3. 9 \in 1..Len(e) /\ 10 \in 1..Len(e) /\ 9 \in 1..Len(f) /\ 10 \in 1..Len(f)
    BY <1>11
  <2> QED
    BY <1>5, <1>9, <1>10, <2>2, <2>3
<1>14. SubSeq(w, 11, 26) = c
  <2>1. SubSeq(w, Len(e) + 1, Len(e) + Len(c)) = c
    <3> HIDE DEF e
    <3> QED
      BY <1>3, <1>8, MiddleOf
  <2> HIDE DEF e, f, w
  <2>2. Len(e) + 1 = 11 /\ Len(e) + Len(c) = 26
    BY <1>4, <1>11
  <2> QED
    BY <2>1, <2>2
<1>15. SubSeq(w, 27, Len(w)) = d
  <2>1. SubSeq(w, Len(f) + 1, Len(f) + Len(d)) = d
    <3> HIDE DEF f
    <3> QED
      BY <1>3, <1>9, LastOf
  <2> HIDE DEF e, f, w
  <2>2. Len(f) + 1 = 27 /\ Len(f) + Len(d) = Len(w)
    BY <1>10, <1>11
  <2> QED
    BY <2>1, <2>2
<1>16. Payload(m) = w
  BY <1>6
<1> HIDE DEF e, f, w
<1>17. decode_msg(w) = [timestamp |-> a, attemps |-> 256 * p + x, id |-> c, body |-> d]
  BY <1>7, <1>12, <1>13, <1>14, <1>15 DEF decode_msg
<1> QED
  BY <1>1, <1>2, <1>16, <1>17 DEF a, c, d

-----------------------------------------------------------------------------
(* What is in the stream *)

\* Behind its first p bytes s goes on with e.
Held(s, p, e) == p + Len(e) <= Len(s) /\ \A j \in 1..Len(e) : s[p + j] = e[j]

\* A part of it, and the other.
LEMMA HeldParts ==
    ASSUME NEW S, NEW s \in Seq(S), NEW p \in Nat, NEW e \in Seq(S), NEW f \in Seq(S),
           Held(s, p, e \o f)
    PROVE  Held(s, p, e) /\ Held(s, p + Len(e), f)
<1> DEFINE w == e \o f
<1>1. /\ w \in Seq(S) /\ Len(w) = Len(e) + Len(f)
      /\ \A i \in 1..Len(e) : w[i] = e[i]
      /\ \A i \in 1..Len(f) : w[Len(e) + i] = f[i]
  BY Joined
<1>2. p + Len(w) <= Len(s) /\ \A j \in 1..Len(w) : s[p + j] = w[j]
  BY DEF Held
<1> HIDE DEF w
<1>3. Len(e) \in Nat /\ Len(f) \in Nat /\ Len(s) \in Nat
  OBVIOUS
<1>4. p + Len(e) <= Len(s) /\ (p + Len(e)) + Len(f) <= Len(s)
  BY <1>1, <1>2, <1>3
<1>5. \A j \in 1..Len(e) : s[p + j] = e[j]
  BY <1>1, <1>2, <1>3
<1>6. ASSUME NEW j \in 1..Len(f) PROVE s[(p + Len(e)) + j] = f[j]
  <2>1. Len(e) + j \in 1..Len(w) /\ (p + Len(e)) + j = p + (Len(e) + j)
    BY <1>1, <1>3
  <2> QED
    BY <1>1, <1>2, <2>1
<1> QED
  BY <1>4, <1>5, <1>6 DEF Held

\* It stays when more comes.
LEMMA HeldMore ==
    ASSUME NEW S, NEW s \in Seq(S), NEW t \in Seq(S), NEW p \in Nat, NEW e \in Seq(S),
           Held(s, p, e)
    PROVE  Held(s \o t, p, e)
<1> DEFINE w == s \o t
<1>1. /\ w \in Seq(S) /\ Len(w) = Len(s) + Len(t)
      /\ \A i \in 1..Len(s) : w[i] = s[i]
  BY Joined
<1> HIDE DEF w
<1>2. Len(e) \in Nat /\ Len(s) \in Nat /\ Len(t) \in Nat
  OBVIOUS
<1>3. p + Len(e) <= Len(w)
  BY <1>1, <1>2 DEF Held
<1>4. ASSUME NEW j \in 1..Len(e) PROVE w[p + j] = e[j]
  <2>1. p + j \in 1..Len(s)
    BY <1>2 DEF Held
  <2> QED
    BY <1>1, <2>1 DEF Held
<1> QED
  BY <1>3, <1>4 DEF Held, w

\* What comes is there.
LEMMA HeldLast ==
    ASSUME NEW S, NEW s \in Seq(S), NEW e \in Seq(S)
    PROVE  Held(s \o e, Len(s), e)
<1>1. Len(s \o e) = Len(s) + Len(e) /\ \A i \in 1..Len(e) : (s \o e)[Len(s) + i] = e[i]
  BY Joined
<1>2. Len(e) \in Nat /\ Len(s) \in Nat
  OBVIOUS
<1> QED
  BY <1>1, <1>2 DEF Held

\* It can be taken out.
LEMMA HeldTaken ==
    ASSUME NEW S, NEW s \in Seq(S), NEW p \in Nat, NEW e \in Seq(S), Held(s, p, e)
    PROVE  SubSeq(s, p + 1, p + Len(e)) = e
<1> DEFINE v == SubSeq(s, p + 1, p + Len(e))
<1>1. Len(e) \in Nat /\ Len(s) \in Nat
  OBVIOUS
<1>2. v \in Seq(S) /\ Len(v) = Len(e) /\ \A j \in 1..Len(e) : v[j] = s[p + j]
  <2>1. p + 1 \in 1..(Len(s) + 1) /\ p + Len(e) \in ((p + 1) - 1)..Len(s)
        /\ (p + Len(e)) - (p + 1) + 1 = Len(e)
        /\ \A j \in 1..Len(e) : ((p + 1) + j) - 1 = p + j
    BY <1>1 DEF Held
  <2> QED
    BY <2>1, Middle
<1>3. \A j \in 1..Len(e) : s[p + j] = e[j]
  BY DEF Held
<1> HIDE DEF v
<1>4. v = e
  BY <1>2, <1>3, SameSequence
<1> QED
  BY <1>4 DEF v

\* Four bytes of a length are read as that length.
LEMMA NumberHeld ==
    ASSUME NEW s \in Seq(Byte), NEW p \in Nat, NEW n \in Nat, n < 256 * 256 * 256 * 256,
           Held(s, p, U32(n))
    PROVE  Number(s, p + 1) = n /\ p + 4 <= Len(s)
<1> DEFINE u == U32(n)
<1>1. /\ u \in Seq(Byte) /\ Len(u) = 4
      /\ 256 * (256 * (256 * u[1] + u[2]) + u[3]) + u[4] = n
  BY U32Bytes
<1>2. p + Len(u) <= Len(s) /\ \A j \in 1..Len(u) : s[p + j] = u[j]
  BY DEF Held
<1> HIDE DEF u
<1>3. s[p + 1] = u[1] /\ s[p + 2] = u[2] /\ s[p + 3] = u[3] /\ s[p + 4] = u[4]
  BY <1>1, <1>2
<1>4. (p + 1) + 1 = p + 2 /\ (p + 1) + 2 = p + 3 /\ (p + 1) + 3 = p + 4
  OBVIOUS
<1>5. Number(s, p + 1) = 256 * (256 * (256 * u[1] + u[2]) + u[3]) + u[4]
  BY <1>3, <1>4 DEF Number
<1> QED
  BY <1>1, <1>2, <1>5

\* A body with its length.
LEMMA WriteMsgBytes ==
    ASSUME NEW b \in Seq(Byte)
    PROVE  write_msg(b) \in Seq(Byte) /\ Len(write_msg(b)) = 4 + Len(b)
<1>1. Len(b) \in Nat
  OBVIOUS
<1>2. U32(Len(b)) \in Seq(Byte) /\ Len(U32(Len(b))) = 4
  BY <1>1, U32Type
<1> DEFINE u == U32(Len(b))
<1>3. u \in Seq(Byte)
  BY <1>2
<1> HIDE DEF u
<1>4. u \o b \in Seq(Byte) /\ Len(u \o b) = Len(u) + Len(b)
  BY <1>3, Joined
<1> QED
  BY <1>2, <1>4 DEF u, write_msg

\* nsqd gets it, if it is of a size it takes.
LEMMA SizedReads ==
    ASSUME NEW s \in Seq(Byte), NEW p \in Nat, NEW b \in Seq(Byte), Len(b) \in 1..MaxBody,
           Held(s, p, write_msg(b))
    PROVE  /\ Sized(s, p + 1) = At("body", (p + 5) + Len(b), <<b>>)
           /\ Held(s, p + 4, b)
<1> DEFINE u == U32(Len(b))
           n == Len(b)
<1>1. n \in Nat /\ n < 256 * 256 * 256 * 256 /\ n \in 1..MaxBody
  BY MaxBodyFits
<1>2. u \in Seq(Byte) /\ Len(u) = 4
  BY <1>1, U32Bytes
<1>3. Held(s, p, u) /\ Held(s, p + Len(u), b)
  <2>1. Held(s, p, u \o b)
    BY DEF write_msg
  <2>2. u \in Seq(Byte)
    BY <1>2
  <2> HIDE DEF u
  <2> QED
    BY <2>1, <2>2, HeldParts
<1>4. Number(s, p + 1) = n /\ p + 4 <= Len(s)
  <2> HIDE DEF n
  <2> QED
    BY <1>1, <1>3, NumberHeld DEF n
<1>5. Held(s, p + 4, b)
  BY <1>2, <1>3
<1>6. SubSeq(s, (p + 4) + 1, (p + 4) + n) = b /\ (p + 4) + n <= Len(s)
  <2>1. p + 4 \in Nat
    OBVIOUS
  <2> QED
    BY <1>5, <2>1, HeldTaken DEF Held
<1> HIDE DEF u, n
<1>7. /\ ~((p + 1) + 3 > Len(s)) /\ ~((p + 1) + 3 + n > Len(s))
      /\ (p + 1) + 4 + n = (p + 5) + n /\ (p + 1) + 4 = (p + 4) + 1
      /\ (p + 1) + 3 + n = (p + 4) + n
  <2>1. Len(s) \in Nat
    OBVIOUS
  <2> QED
    BY <1>1, <1>4, <1>6, <2>1
<1>8. Sized(s, p + 1) = At("body", (p + 5) + n, <<b>>)
  BY <1>1, <1>4, <1>6, <1>7 DEF Sized
<1> QED
  BY <1>5, <1>8 DEF n

-----------------------------------------------------------------------------
(* Several bodies *)

\* The loop of write_mmsg appends one message after the other.
LEMMA LaidSteps ==
    ASSUME NEW bs \in Seq(Seq(Byte))
    PROVE  /\ Laid(bs)[0] = <<>>
           /\ \A k \in 1..Len(bs) : Laid(bs)[k] = Laid(bs)[k - 1] \o write_msg(bs[k])
           /\ \A k \in 0..Len(bs) : Laid(bs)[k] \in Seq(Byte)
<1> DEFINE n == Len(bs)
           R(g) == [k \in 0..n |-> IF k = 0 THEN <<>> ELSE g[k - 1] \o write_msg(bs[k])]
           laid == CHOOSE g : g = R(g)
           F == [k \in 1..n |-> [x \in Seq(Byte) |-> x \o write_msg(bs[k])]]
<1>1. Laid(bs) = laid
  BY DEF Laid
<1>2. n \in Nat
  OBVIOUS
<1>3. ASSUME NEW k \in 1..n
      PROVE  write_msg(bs[k]) \in Seq(Byte) /\ Len(write_msg(bs[k])) = 4 + Len(bs[k])
             /\ Len(bs[k]) \in Nat
  <2>1. bs[k] \in Seq(Byte)
    OBVIOUS
  <2>2. Len(bs[k]) \in Nat
    BY <2>1
  <2> QED
    BY <2>1, <2>2, WriteMsgBytes
<1>4. F \in [1..n -> [Seq(Byte) -> Seq(Byte)]]
  <2>1. ASSUME NEW k \in 1..n, NEW x \in Seq(Byte) PROVE x \o write_msg(bs[k]) \in Seq(Byte)
    BY <1>3, Joined
  <2> QED
    BY <2>1
<1>5. PICK g \in [0..n -> Seq(Byte)] : g[0] = <<>> /\ \A k \in 1..n : g[k] = F[k][g[k - 1]]
  <2> DEFINE A == Seq(Byte)
             a == <<>>
  <2>1. a \in A
    OBVIOUS
  <2>2. F \in [1..n -> [A -> A]] /\ n \in Nat
    BY <1>2, <1>4
  <2> HIDE DEF F, n, A, a
  <2>3. Iterates(n, A, a, F) # {}
    BY <2>1, <2>2, Recursion
  <2> QED
    BY <2>3 DEF A, a, Iterates
<1>6. \A k \in 1..n : g[k] = g[k - 1] \o write_msg(bs[k])
  <2>1. ASSUME NEW k \in 1..n PROVE g[k] = g[k - 1] \o write_msg(bs[k])
    <3>1. k - 1 \in 0..n
      BY <1>2
    <3>2. g[k - 1] \in Seq(Byte) /\ g[k] = F[k][g[k - 1]]
      BY <1>5, <3>1
    <3> QED
      BY <3>2
  <2> QED
    BY <2>1
<1>7. g = R(g)
  <2>1. ASSUME NEW k \in 0..n PROVE g[k] = IF k = 0 THEN <<>> ELSE g[k - 1] \o write_msg(bs[k])
    <3>1. CASE k = 0
      BY <1>5, <3>1
    <3>2. CASE k # 0
      <4>1. k \in 1..n
        BY <1>2, <3>2
      <4> QED
        BY <1>6, <3>2, <4>1
    <3> QED
      BY <3>1, <3>2
  <2> QED
    BY <2>1
<1>8. laid = R(laid)
  <2> HIDE DEF R
  <2> QED
    BY <1>7
<1>9. laid[0] = <<>> /\ \A k \in 1..n : laid[k] = laid[k - 1] \o write_msg(bs[k])
  <2> HIDE DEF laid
  <2>1. 0 \in 0..n /\ \A k \in 1..n : k \in 0..n /\ k # 0
    BY <1>2
  <2> QED
    BY <1>8, <2>1
<1> HIDE DEF laid, R, F
<1>10. \A k \in 0..n : laid[k] \in Seq(Byte)
  <2> DEFINE T == {k \in 0..n : laid[k] \in Seq(Byte)}
  <2>1. 0 \in T
    <3>1. <<>> \in Seq(Byte) /\ 0 \in 0..n
      BY <1>2
    <3> QED
      BY <1>9, <3>1
  <2>2. ASSUME NEW k \in 0..(n - 1), k \in T PROVE k + 1 \in T
    <3>1. k + 1 \in 1..n /\ k + 1 \in 0..n /\ (k + 1) - 1 = k
      BY <1>2
    <3>2. laid[k + 1] = laid[k] \o write_msg(bs[k + 1]) /\ laid[k] \in Seq(Byte)
      BY <1>9, <2>2, <3>1
    <3>3. write_msg(bs[k + 1]) \in Seq(Byte)
      BY <1>3, <3>1
    <3>4. laid[k] \o write_msg(bs[k + 1]) \in Seq(Byte)
      BY <3>2, <3>3, Joined
    <3> QED
      BY <3>1, <3>2, <3>4
  <2>3. \A k \in 0..n : k \in T
    <3> HIDE DEF T
    <3> QED
      BY <1>2, <2>1, <2>2, BoundedInduction
  <2> QED
    BY <2>3
<1> QED
  BY <1>1, <1>9, <1>10

\* The fold of write_mmsg computes how much that is, and the four bytes of the
\* number; no message is laid in fewer than one byte.
LEMMA BodySizeCounts ==
    ASSUME NEW bs \in Seq(Seq(Byte))
    PROVE  /\ BodySize(bs) = 4 + Len(Laid(bs)[Len(bs)])
           /\ Len(bs) <= Len(Laid(bs)[Len(bs)])
<1> DEFINE n == Len(bs)
           l == [k \in 0..n |-> Len(Laid(bs)[k])]
           R(g) == [k \in 0..n |-> IF k = 0 THEN 0 ELSE g[k - 1] + Len(bs[k]) + 4]
           sum == CHOOSE g : g = R(g)
<1>1. BodySize(bs) = sum[n] + 4
  BY DEF BodySize
<1>2. n \in Nat /\ n \in 0..n
  OBVIOUS
<1>3. ASSUME NEW k \in 0..n PROVE l[k] \in Nat /\ l[k] = Len(Laid(bs)[k])
  <2>1. Laid(bs)[k] \in Seq(Byte)
    BY LaidSteps
  <2> QED
    BY <2>1
<1>4. l[0] = 0
  <2>1. Laid(bs)[0] = <<>> /\ Len(<<>>) = 0
    BY LaidSteps
  <2> QED
    BY <1>2, <2>1
<1>5. ASSUME NEW k \in 1..n
      PROVE  l[k] = l[k - 1] + Len(bs[k]) + 4 /\ Len(bs[k]) \in Nat /\ l[k - 1] \in Nat
  <2>1. bs[k] \in Seq(Byte)
    OBVIOUS
  <2>3. write_msg(bs[k]) \in Seq(Byte) /\ Len(write_msg(bs[k])) = 4 + Len(bs[k])
    BY <2>1, WriteMsgBytes
  <2>4. k - 1 \in 0..n /\ k \in 0..n
    BY <1>2
  <2>5. Laid(bs)[k] = Laid(bs)[k - 1] \o write_msg(bs[k]) /\ Laid(bs)[k - 1] \in Seq(Byte)
    BY <2>4, LaidSteps
  <2>6. Len(Laid(bs)[k]) = Len(Laid(bs)[k - 1]) + Len(write_msg(bs[k]))
    <3> DEFINE x == Laid(bs)[k - 1]
               y == write_msg(bs[k])
    <3>1. x \in Seq(Byte) /\ y \in Seq(Byte) /\ Laid(bs)[k] = x \o y
      BY <2>3, <2>5
    <3> HIDE DEF x, y
    <3>2. Len(x \o y) = Len(x) + Len(y)
      BY <3>1, Joined
    <3> QED
      BY <3>1, <3>2 DEF x, y
  <2>7. l[k] = Len(Laid(bs)[k]) /\ l[k - 1] = Len(Laid(bs)[k - 1]) /\ l[k - 1] \in Nat
    BY <1>3, <2>4
  <2>8. Len(bs[k]) \in Nat
    BY <2>1
  <2> HIDE DEF l
  <2>9. PICK a \in Nat, b \in Nat : a = l[k - 1] /\ b = Len(bs[k])
    BY <2>7, <2>8
  <2>10. l[k] = a + (4 + b)
    BY <2>3, <2>6, <2>7, <2>9
  <2>11. a + (4 + b) = a + b + 4
    OBVIOUS
  <2> QED
    BY <2>7, <2>8, <2>9, <2>10, <2>11
<1> HIDE DEF l
<1>6. l \in [0..n -> Nat]
  BY <1>3 DEF l
<1>7. l = R(l)
  <2>1. ASSUME NEW k \in 0..n PROVE l[k] = IF k = 0 THEN 0 ELSE l[k - 1] + Len(bs[k]) + 4
    <3>1. CASE k = 0
      BY <1>4, <3>1
    <3>2. CASE k # 0
      BY <1>2, <1>5, <3>2
    <3> QED
      BY <3>1, <3>2
  <2> QED
    BY <1>6, <2>1
<1>8. sum = R(sum)
  <2> HIDE DEF R
  <2> QED
    BY <1>7
<1> HIDE DEF sum
<1>9. \A k \in 0..n : sum[k] = l[k]
  <2> DEFINE T == {k \in 0..n : sum[k] = l[k]}
  <2>1. 0 \in T
    BY <1>2, <1>4, <1>8
  <2>2. ASSUME NEW k \in 0..(n - 1), k \in T PROVE k + 1 \in T
    <3>1. k + 1 \in 1..n /\ k + 1 \in 0..n /\ k + 1 # 0 /\ (k + 1) - 1 = k
      BY <1>2
    <3>2. sum[k + 1] = sum[k] + Len(bs[k + 1]) + 4
      BY <1>8, <3>1
    <3>3. l[k + 1] = l[k] + Len(bs[k + 1]) + 4
      BY <1>5, <3>1
    <3> QED
      BY <2>2, <3>1, <3>2, <3>3
  <2>3. \A k \in 0..n : k \in T
    <3> HIDE DEF T
    <3> QED
      BY <1>2, <2>1, <2>2, BoundedInduction
  <2> QED
    BY <2>3
<1>10. \A k \in 0..n : k <= l[k]
  <2> DEFINE T == {k \in 0..n : k <= l[k]}
  <2>1. 0 \in T
    BY <1>2, <1>4
  <2>2. ASSUME NEW k \in 0..(n - 1), k \in T PROVE k + 1 \in T
    <3>1. k + 1 \in 1..n /\ k + 1 \in 0..n /\ (k + 1) - 1 = k /\ k \in Nat /\ k <= l[k]
      BY <1>2, <2>2
    <3>2. PICK a \in Nat, b \in Nat : a = l[k] /\ b = Len(bs[k + 1])
      BY <1>5, <3>1
    <3>3. l[k + 1] = a + b + 4
      BY <1>5, <3>1, <3>2
    <3>4. k + 1 <= a + b + 4
      BY <3>1, <3>2
    <3> QED
      BY <3>1, <3>3, <3>4
  <2>3. \A k \in 0..n : k \in T
    <3> HIDE DEF T
    <3> QED
      BY <1>2, <2>1, <2>2, BoundedInduction
  <2> QED
    BY <2>3
<1>11. l[n] \in Nat /\ l[n] = Len(Laid(bs)[n]) /\ sum[n] = l[n] /\ n <= l[n]
  BY <1>2, <1>3, <1>9, <1>10
<1> HIDE DEF n
<1>12. sum[n] + 4 = 4 + l[n]
  BY <1>11
<1> QED
  BY <1>1, <1>11, <1>12 DEF n

\* What write_mmsg writes is a body of BodySize bytes with its length.
LEMMA WriteMmsgBytes ==
    ASSUME NEW bs \in Seq(Seq(Byte)), BodySize(bs) <= MaxBody
    PROVE  LET body == U32(Len(bs)) \o Laid(bs)[Len(bs)]
           IN  /\ body \in Seq(Byte) /\ Len(body) = BodySize(bs) /\ Len(body) \in 4..MaxBody
               /\ write_mmsg(bs) = write_msg(body)
               /\ write_mmsg(bs) \in Seq(Byte) /\ Len(write_mmsg(bs)) = 4 + BodySize(bs)
               /\ Len(bs) <= MaxBody /\ Len(bs) < 256 * 256 * 256 * 256
               /\ Len(U32(Len(bs))) = 4 /\ U32(Len(bs)) \in Seq(Byte)
<1> DEFINE n == Len(bs)
           l == Laid(bs)[n]
           u == U32(n)
           body == u \o l
<1>1. n \in Nat /\ n \in 0..n
  OBVIOUS
<1>2. l \in Seq(Byte) /\ BodySize(bs) = 4 + Len(l) /\ n <= Len(l)
  BY <1>1, LaidSteps, BodySizeCounts
<1>3. Len(l) \in Nat
  BY <1>2
<1> DEFINE m == Len(l)
<1> HIDE DEF m, n
<1>4. m \in Nat /\ n <= MaxBody /\ n < 256 * 256 * 256 * 256 /\ 4 + m \in 4..MaxBody
  BY <1>1, <1>2, <1>3, MaxBodyFits DEF m
<1>5. u \in Seq(Byte) /\ Len(u) = 4
  BY <1>1, <1>4, U32Bytes
<1> HIDE DEF u, l
<1>6. body \in Seq(Byte) /\ Len(body) = Len(u) + Len(l)
  <2>1. u \in Seq(Byte) /\ l \in Seq(Byte)
    BY <1>2, <1>5
  <2> QED
    BY <2>1, Joined
<1> HIDE DEF body
<1>7. Len(body) = 4 + m /\ BodySize(bs) = 4 + m
  BY <1>2, <1>5, <1>6 DEF m
<1>8. write_mmsg(bs) = write_msg(body)
  <2>1. write_mmsg(bs) = U32(BodySize(bs)) \o u \o l
    BY DEF write_mmsg, u, l, n
  <2>2. write_msg(body) = U32(BodySize(bs)) \o (u \o l)
    BY <1>7 DEF write_msg, body
  <2>3. U32(BodySize(bs)) \in Seq(Byte)
    <3>1. 4 + m \in Nat /\ 4 + m < 256 * 256 * 256 * 256
      BY <1>4, MaxBodyFits
    <3> QED
      BY <1>7, <3>1, U32Bytes
  <2> DEFINE v == U32(BodySize(bs))
  <2> HIDE DEF v
  <2>4. (v \o u) \o l = v \o (u \o l)
    <3>1. v \in Seq(Byte) /\ u \in Seq(Byte) /\ l \in Seq(Byte)
      BY <1>2, <1>5, <2>3 DEF v
    <3> QED
      BY <3>1
  <2> QED
    BY <2>1, <2>2, <2>4 DEF v
<1>9. write_msg(body) \in Seq(Byte) /\ Len(write_msg(body)) = 4 + Len(body)
  BY <1>6, WriteMsgBytes
<1> QED
  BY <1>4, <1>5, <1>6, <1>7, <1>8, <1>9 DEF body, u, l, n

\* What is laid up to a message is the beginning of what is laid.
LEMMA LaidHeld ==
    ASSUME NEW s \in Seq(Byte), NEW p \in Nat, NEW bs \in Seq(Seq(Byte)),
           Held(s, p, Laid(bs)[Len(bs)]), NEW k \in 1..Len(bs)
    PROVE  Held(s, p + Len(Laid(bs)[k - 1]), write_msg(bs[k]))
<1> DEFINE n == Len(bs)
           T == {i \in 0..n : n - i = 0 \/ Held(s, p, Laid(bs)[n - i])}
<1>1. n \in Nat
  OBVIOUS
<1>2. ASSUME NEW i \in 1..n
      PROVE  /\ Laid(bs)[i - 1] \in Seq(Byte) /\ write_msg(bs[i]) \in Seq(Byte)
             /\ Laid(bs)[i] = Laid(bs)[i - 1] \o write_msg(bs[i])
  <2>1. i - 1 \in 0..n
    BY <1>1
  <2>2. bs[i] \in Seq(Byte)
    OBVIOUS
  <2> QED
    BY <2>1, <2>2, LaidSteps, WriteMsgBytes
<1>3. ASSUME NEW i \in 1..n, Held(s, p, Laid(bs)[i])
      PROVE  /\ Held(s, p, Laid(bs)[i - 1])
             /\ Held(s, p + Len(Laid(bs)[i - 1]), write_msg(bs[i]))
  <2> DEFINE x == Laid(bs)[i - 1]
             y == write_msg(bs[i])
  <2>1. x \in Seq(Byte) /\ y \in Seq(Byte) /\ Held(s, p, x \o y)
    BY <1>2, <1>3
  <2> HIDE DEF x, y
  <2>2. Held(s, p, x) /\ Held(s, p + Len(x), y)
    BY <2>1, HeldParts
  <2> QED
    BY <2>2 DEF x, y
<1>4. 0 \in T
  <2>1. 0 \in 0..n /\ n - 0 = n
    BY <1>1
  <2> QED
    BY <2>1
<1>5. ASSUME NEW i \in 0..(n - 1), i \in T PROVE i + 1 \in T
  <2>1. i + 1 \in 0..n /\ n - i \in 1..n /\ n - i # 0 /\ (n - i) - 1 = n - (i + 1)
    BY <1>1
  <2>2. Held(s, p, Laid(bs)[n - i])
    BY <1>5, <2>1
  <2>3. Held(s, p, Laid(bs)[(n - i) - 1])
    BY <1>3, <2>1, <2>2
  <2> QED
    BY <2>1, <2>3
<1>6. \A i \in 0..n : i \in T
  <2> HIDE DEF T
  <2> QED
    BY <1>1, <1>4, <1>5, BoundedInduction
<1>7. n - k \in 0..n /\ n - (n - k) = k /\ k # 0
  BY <1>1
<1>8. Held(s, p, Laid(bs)[k])
  <2>1. n - k \in T
    BY <1>6, <1>7
  <2> QED
    BY <1>7, <2>1
<1> QED
  BY <1>3, <1>8

\* Bodies of a size nsqd takes.
Fit(bodies) == \A k \in 1..Len(bodies) : Len(bodies[k]) \in 1..MaxBody

\* nsqd gets the bodies, one after the other, and they fill what their size says.
LEMMA MultiReads ==
    ASSUME NEW s \in Seq(Byte), NEW p \in Nat, NEW bs \in Seq(Seq(Byte)), Fit(bs),
           Len(bs) >= 1, BodySize(bs) <= MaxBody, Held(s, p, write_mmsg(bs))
    PROVE  Multi(s, p + 1) = At("body", (p + 1) + Len(write_mmsg(bs)), bs)
<1> DEFINE n == Len(bs)
           L(k) == Len(Laid(bs)[k])
           u == U32(n)
           l == Laid(bs)[n]
           body == u \o l
           size == BodySize(bs)
           S(k) == At("body", (p + 9) + L(k), SubSeq(bs, 1, k))
<1>1. /\ body \in Seq(Byte) /\ Len(body) = size /\ Len(body) \in 1..MaxBody
      /\ write_mmsg(bs) = write_msg(body) /\ Len(write_mmsg(bs)) = 4 + size
      /\ n <= MaxBody /\ n < 256 * 256 * 256 * 256
      /\ u \in Seq(Byte) /\ Len(u) = 4
  BY WriteMmsgBytes
<1>2. n \in Nat /\ n >= 1 /\ n \in 0..n /\ 0 \in 0..n
  OBVIOUS
<1>3. l \in Seq(Byte) /\ size = 4 + Len(l) /\ \A k \in 0..n : L(k) \in Nat
  <2>1. \A k \in 0..n : Laid(bs)[k] \in Seq(Byte)
    BY LaidSteps
  <2>2. size = 4 + Len(l)
    BY BodySizeCounts
  <2> QED
    BY <1>2, <2>1, <2>2
<1>4. Sized(s, p + 1) = At("body", (p + 5) + size, <<body>>) /\ Held(s, p + 4, body)
  <2> HIDE DEF body, size
  <2>1. Held(s, p, write_msg(body))
    BY <1>1
  <2> QED
    BY <1>1, <2>1, SizedReads
<1>5. Held(s, p + 4, u) /\ Held(s, p + 8, l)
  <2>1. p + 4 \in Nat /\ (p + 4) + 4 = p + 8
    OBVIOUS
  <2> HIDE DEF u, l
  <2>2. Held(s, p + 4, u) /\ Held(s, (p + 4) + Len(u), l)
    BY <1>1, <1>3, <1>4, <2>1, HeldParts
  <2> QED
    BY <1>1, <2>1, <2>2
<1>6. Number(s, (p + 1) + 4) = n
  <2>1. p + 4 \in Nat /\ (p + 1) + 4 = (p + 4) + 1
    OBVIOUS
  <2> HIDE DEF n
  <2>2. Held(s, p + 4, U32(n))
    BY <1>5
  <2>3. Number(s, (p + 4) + 1) = n
    BY <1>1, <1>2, <2>1, <2>2, NumberHeld
  <2> QED
    BY <2>1, <2>3
<1>7. ASSUME NEW k \in 1..n
      PROVE  OneMore(s, S(k - 1)) = S(k)
  <2> DEFINE q == (p + 8) + L(k - 1)
             b == bs[k]
  <2>1. k - 1 \in 0..n /\ k \in 0..n
    BY <1>2
  <2>2. q \in Nat /\ (p + 9) + L(k - 1) = q + 1
    <3>1. L(k - 1) \in Nat
      BY <1>3, <2>1
    <3> HIDE DEF L
    <3> QED
      BY <3>1
  <2>3. b \in Seq(Byte) /\ Len(b) \in 1..MaxBody /\ Len(b) \in Nat
    BY DEF Fit
  <2>4. Held(s, q, write_msg(b))
    <3>1. p + 8 \in Nat /\ Held(s, p + 8, Laid(bs)[Len(bs)])
      BY <1>5
    <3> QED
      BY <3>1, LaidHeld
  <2>5. Sized(s, q + 1) = At("body", (q + 5) + Len(b), <<b>>)
    <3> HIDE DEF q, b
    <3> QED
      BY <2>2, <2>3, <2>4, SizedReads
  <2>6. L(k) = L(k - 1) + (4 + Len(b))
    <3> DEFINE x == Laid(bs)[k - 1]
               y == write_msg(b)
    <3>1. x \in Seq(Byte) /\ Laid(bs)[k] = x \o y
      BY <2>1, LaidSteps
    <3>2. y \in Seq(Byte) /\ Len(y) = 4 + Len(b)
      <4> HIDE DEF b
      <4> QED
        BY <2>3, WriteMsgBytes
    <3> HIDE DEF x, y
    <3>3. Len(x \o y) = Len(x) + Len(y)
      BY <3>1, <3>2, Joined
    <3> QED
      BY <3>1, <3>2, <3>3 DEF x
  <2>7. (q + 5) + Len(b) = (p + 9) + L(k)
    <3>1. PICK x \in Nat, y \in Nat : x = L(k - 1) /\ y = Len(b)
      BY <1>3, <2>1, <2>3
    <3>2. L(k) = x + (4 + y) /\ q = (p + 8) + x
      BY <2>6, <3>1
    <3>3. (((p + 8) + x) + 5) + y = (p + 9) + (x + (4 + y))
      OBVIOUS
    <3> HIDE DEF L, q
    <3> QED
      BY <3>1, <3>2, <3>3
  <2>8. SubSeq(bs, 1, k - 1) \o <<b>> = SubSeq(bs, 1, k)
    <3> DEFINE v == SubSeq(bs, 1, k - 1)
               w == SubSeq(bs, 1, k)
    <3>1. /\ v \in Seq(Seq(Byte)) /\ Len(v) = k - 1 /\ \A i \in 1..(k - 1) : v[i] = bs[i]
          /\ w \in Seq(Seq(Byte)) /\ Len(w) = k /\ \A i \in 1..k : w[i] = bs[i]
      BY <2>1, Split
    <3>2. b \in Seq(Byte)
      BY <2>3
    <3> HIDE DEF v, w
    <3>3. /\ Append(v, b) \in Seq(Seq(Byte)) /\ Len(Append(v, b)) = (k - 1) + 1
          /\ \A i \in 1..(k - 1) : Append(v, b)[i] = v[i]
          /\ Append(v, b)[(k - 1) + 1] = b
      <4> HIDE DEF b
      <4> QED
        BY <3>1, <3>2
    <3>4. (k - 1) + 1 = k /\ \A i \in 1..k : i \in 1..(k - 1) \/ i = k
      BY <1>2
    <3>5. \A i \in 1..k : Append(v, b)[i] = w[i]
      BY <3>1, <3>3, <3>4
    <3>6. Append(v, b) = w
      <4> HIDE DEF b
      <4> QED
        BY <3>1, <3>3, <3>4, <3>5, SameSequence
    <3>7. v \o <<b>> = Append(v, b)
      <4> HIDE DEF b
      <4> QED
        BY <3>1, <3>2
    <3> QED
      BY <3>6, <3>7 DEF v, w
  <2>9. S(k - 1).is = "body" /\ S(k - 1).end = q + 1 /\ S(k - 1).bodies = SubSeq(bs, 1, k - 1)
    BY <2>2 DEF At
  <2> DEFINE m == Sized(s, q + 1)
  <2>10. m.is = "body" /\ m.end = (p + 9) + L(k) /\ m.bodies = <<b>>
    <3> HIDE DEF q, b, L, m
    <3>1. m = At("body", (p + 9) + L(k), <<b>>)
      BY <2>5, <2>7 DEF m
    <3> QED
      BY <3>1 DEF At
  <2> HIDE DEF S, m, q, b, L
  <2>11. OneMore(s, S(k - 1)) = At("body", (p + 9) + L(k), SubSeq(bs, 1, k))
    BY <2>8, <2>9, <2>10 DEF OneMore, m
  <2> QED
    BY <2>11 DEF S
<1> DEFINE R(g) == [k \in 0..n |-> IF k = 0 THEN At("body", (p + 1) + 8, <<>>)
                                   ELSE OneMore(s, g[k - 1])]
           Took(c) == CHOOSE g : g = [k \in 0..c |-> IF k = 0 THEN At("body", (p + 1) + 8, <<>>)
                                                     ELSE OneMore(s, g[k - 1])]
           took == Took(n)
           f == [k \in 0..n |-> S(k)]
<1>8. S(0) = At("body", (p + 1) + 8, <<>>)
  <2>1. L(0) = 0
    <3>1. Laid(bs)[0] = <<>>
      BY LaidSteps
    <3> QED
      BY <3>1
  <2>2. SubSeq(bs, 1, 0) = <<>> /\ (p + 9) + 0 = (p + 1) + 8
    OBVIOUS
  <2> HIDE DEF L
  <2> QED
    BY <2>1, <2>2
<1> HIDE DEF S
<1>9. f = R(f)
  <2>1. ASSUME NEW k \in 0..n
        PROVE  f[k] = IF k = 0 THEN At("body", (p + 1) + 8, <<>>) ELSE OneMore(s, f[k - 1])
    <3>1. CASE k = 0
      BY <1>8, <3>1
    <3>2. CASE k # 0
      <4>1. k \in 1..n /\ k - 1 \in 0..n
        BY <1>2, <3>2
      <4>2. f[k] = S(k) /\ f[k - 1] = S(k - 1)
        BY <4>1
      <4> QED
        BY <1>7, <3>2, <4>1, <4>2
    <3> QED
      BY <3>1, <3>2
  <2> HIDE DEF n
  <2> QED
    BY <2>1
<1>10. took = R(took)
  <2>1. took = CHOOSE g : g = R(g)
    OBVIOUS
  <2> DEFINE h == CHOOSE g : g = R(g)
  <2> HIDE DEF R, f
  <2>2. h = R(h)
    BY <1>9
  <2> HIDE DEF h, took
  <2>3. took = h
    BY <2>1 DEF h
  <2> QED
    BY <2>2, <2>3
<1> HIDE DEF Took
<1>11. \A k \in 0..n : took[k] = S(k)
  <2> DEFINE T == {k \in 0..n : took[k] = S(k)}
  <2>1. 0 \in T
    BY <1>2, <1>8, <1>10
  <2>2. ASSUME NEW k \in 0..(n - 1), k \in T PROVE k + 1 \in T
    <3>1. k + 1 \in 1..n /\ k + 1 \in 0..n /\ k + 1 # 0 /\ (k + 1) - 1 = k
      BY <1>2
    <3>2. took[k + 1] = OneMore(s, took[k])
      BY <1>10, <3>1
    <3>3. OneMore(s, S(k)) = S(k + 1)
      BY <1>7, <3>1
    <3> QED
      BY <2>2, <3>1, <3>2, <3>3
  <2>3. \A k \in 0..n : k \in T
    <3> HIDE DEF T
    <3> QED
      BY <1>2, <2>1, <2>2, BoundedInduction
  <2> QED
    BY <2>3
<1>12. took[n] = At("body", (p + 9) + Len(l), bs)
  <2>1. SubSeq(bs, 1, n) = bs
    OBVIOUS
  <2> QED
    BY <1>2, <1>11, <2>1 DEF S
<1>13. (p + 5) + size = (p + 9) + Len(l) /\ (p + 1) + (4 + size) = (p + 9) + Len(l)
       /\ ~((p + 5) + size < (p + 1) + 8)
  <2>1. PICK x \in Nat : x = Len(l)
    BY <1>3
  <2>2. size = 4 + x
    BY <1>3, <2>1
  <2> HIDE DEF l, size
  <2> QED
    BY <2>1, <2>2
<1> DEFINE whole == Sized(s, p + 1)
<1>14. whole.is = "body" /\ whole.end = (p + 5) + size
  BY <1>4 DEF At
<1>15. took[n].end = (p + 9) + Len(l)
  BY <1>12 DEF At
<1>16. Multi(s, p + 1) = IF whole.is # "body" THEN whole
                         ELSE IF whole.end < (p + 1) + 8 \/ n > MaxBody
                              THEN At("error", p + 1, <<>>)
                         ELSE IF took[n].end # whole.end THEN At("error", p + 1, <<>>)
                         ELSE took[n]
  <2> DEFINE count == Number(s, (p + 1) + 4)
  <2>1. Multi(s, p + 1) = IF whole.is # "body" THEN whole
                          ELSE IF whole.end < (p + 1) + 8 \/ count > MaxBody
                               THEN At("error", p + 1, <<>>)
                          ELSE IF Took(count)[count].end # whole.end THEN At("error", p + 1, <<>>)
                          ELSE Took(count)[count]
    BY DEF Multi, Took
  <2>2. count = n
    BY <1>6
  <2> HIDE DEF n, whole, count
  <2> QED
    BY <2>1, <2>2
<1> HIDE DEF whole, n, l, size, body, u
<1>17. ~(n > MaxBody)
  BY <1>1, <1>2, MaxBodyFits
<1>18. Multi(s, p + 1) = took[n]
  BY <1>13, <1>14, <1>15, <1>16, <1>17
<1> QED
  BY <1>1, <1>12, <1>13, <1>18 DEF n

-----------------------------------------------------------------------------
(* A command *)

\* The first byte of a command ends no line, begins no VERSION and tells what
\* follows.
LEMMA KindFacts ==
    ASSUME NEW k \in Kinds
    PROVE  /\ k \in Byte /\ NL \in Byte /\ k # NL
           /\ k \notin {32, 86, 50}
           /\ k \in Lines => k \notin Bodies /\ k # MPUB
           /\ k \in Bodies => k \notin Lines /\ k # MPUB
           /\ k \notin Lines /\ k \notin Bodies => k = MPUB
BY DEF Kinds, Lines, Bodies, Byte, NL, NOP, SUB, RDY, CLS, FIN, TOUCH, REQ, IDENTIFY, AUTH,
       PUB, DPUB, MPUB

\* What write_cmd of Conn puts behind the line.
Rest(c) ==
    CASE Len(c.msg) = 0 -> <<>>
      [] Len(c.msg) = 1 -> write_msg(c.msg[1])
      [] OTHER -> write_mmsg(c.msg)

\* The parts of a command.
LEMMA CommandFacts ==
    ASSUME NEW c \in Command
    PROVE  /\ c.cmd \in Kinds /\ c.msg \in Seq(Seq(Byte)) /\ Len(c.msg) \in Nat
           /\ c.cmd \in Lines => c.msg = <<>>
           /\ c.cmd \in Bodies => Len(c.msg) = 1
           /\ c = [cmd |-> c.cmd, msg |-> c.msg]
BY DEF Command

\* The bytes of a command.
LEMMA EncodedBytes ==
    ASSUME NEW c \in Command
    PROVE  /\ Encoded(c) = <<c.cmd, NL>> \o Rest(c)
           /\ <<c.cmd, NL>> \in Seq(Byte) /\ Rest(c) \in Seq(Byte)
           /\ Encoded(c) \in Seq(Byte) /\ Len(Encoded(c)) = 2 + Len(Rest(c))
           /\ Len(Encoded(c)) >= 2 /\ Encoded(c)[1] = c.cmd
<1> DEFINE x == Rest(c)
           y == <<c.cmd, NL>>
           n == Len(c.msg)
<1>1. c.cmd \in Byte /\ NL \in Byte /\ c.msg \in Seq(Seq(Byte)) /\ n \in Nat
  BY CommandFacts, KindFacts
<1>2. y \in Seq(Byte) /\ Len(y) = 2 /\ y[1] = c.cmd
  BY <1>1
<1>3. x \in Seq(Byte)
  <2>1. CASE n = 0
    <3>1. x = <<>>
      BY <2>1 DEF Rest
    <3> QED
      BY <3>1
  <2>2. CASE n = 1
    <3>1. x = write_msg(c.msg[1])
      BY <2>2 DEF Rest
    <3>2. c.msg[1] \in Seq(Byte)
      BY <1>1, <2>2
    <3> QED
      BY <3>1, <3>2, WriteMsgBytes
  <2>3. CASE n # 0 /\ n # 1
    <3>1. x = write_mmsg(c.msg)
      BY <2>3 DEF Rest
    <3> DEFINE bs == c.msg
               u == U32(BodySize(bs))
               v == U32(Len(bs))
               l == Laid(bs)[Len(bs)]
    <3>2. bs \in Seq(Seq(Byte)) /\ Len(bs) \in Nat /\ Len(bs) \in 0..Len(bs)
      BY <1>1
    <3> HIDE DEF bs
    <3>3. l \in Seq(Byte) /\ BodySize(bs) = 4 + Len(l)
      BY <3>2, LaidSteps, BodySizeCounts
    <3>4. BodySize(bs) \in Nat
      <4>1. Len(l) \in Nat
        BY <3>3
      <4> HIDE DEF l
      <4> QED
        BY <3>3, <4>1
    <3>5. u \in Seq(Byte) /\ v \in Seq(Byte)
      BY <3>2, <3>4, U32Type
    <3>6. write_mmsg(bs) = (u \o v) \o l
      BY DEF write_mmsg
    <3> HIDE DEF u, v, l
    <3>7. u \o v \in Seq(Byte)
      BY <3>5, Joined
    <3>8. (u \o v) \o l \in Seq(Byte)
      BY <3>3, <3>7, Joined
    <3> QED
      BY <3>1, <3>6, <3>8 DEF bs
  <2> QED
    BY <2>1, <2>2, <2>3
<1>4. Encoded(c) = y \o x
  BY ZenonT(30) DEF Encoded, write_cmd, Rest
<1> HIDE DEF x, y, n
<1>5. /\ y \o x \in Seq(Byte) /\ Len(y \o x) = Len(y) + Len(x)
      /\ \A i \in 1..Len(y) : (y \o x)[i] = y[i]
  <2>1. y \in Seq(Byte) /\ x \in Seq(Byte)
    BY <1>2, <1>3
  <2> QED
    BY <2>1, Joined
<1>6. Len(x) \in Nat
  BY <1>3
<1>7. 1 \in 1..Len(y) /\ Len(y) + Len(x) = 2 + Len(x) /\ 2 + Len(x) >= 2
  BY <1>2, <1>6
<1> QED
  BY <1>2, <1>3, <1>4, <1>5, <1>7 DEF x, y

\* More than one.
LEMMA Several ==
    ASSUME NEW n \in Nat, n > 1
    PROVE  n # 0 /\ n # 1
OBVIOUS

\* nsqd reads what follows the line of a command.
LEMMA FollowingReads ==
    ASSUME NEW c \in Command, Sound(c), NEW s \in Seq(Byte), NEW p \in Nat,
           s[p + 1] = c.cmd, Held(s, p + 2, Rest(c))
    PROVE  Following(s, p + 1) = At("body", (p + 3) + Len(Rest(c)), c.msg)
<1>1. /\ c.cmd \in Kinds /\ c.msg \in Seq(Seq(Byte)) /\ Len(c.msg) \in Nat
      /\ c.cmd \in Lines => c.msg = <<>>
      /\ c.cmd \in Bodies => Len(c.msg) = 1
  BY CommandFacts
<1>2. p + 2 \in Nat /\ (p + 1) + 2 = (p + 2) + 1 /\ (p + 2) + 1 = p + 3
  OBVIOUS
<1>3. CASE c.cmd \in Lines
  <2>1. Following(s, p + 1) = At("body", (p + 1) + 2, <<>>)
    BY <1>3, <1>1, KindFacts DEF Following
  <2>2. c.msg = <<>> /\ Len(c.msg) = 0
    BY <1>1, <1>3
  <2>3. Rest(c) = <<>> /\ Len(Rest(c)) = 0
    BY <2>2 DEF Rest
  <2>4. (p + 3) + Len(Rest(c)) = (p + 1) + 2
    BY <2>3
  <2> QED
    BY <2>1, <2>2, <2>4
<1>4. CASE c.cmd \in Bodies
  <2> DEFINE b == c.msg[1]
  <2>1. Following(s, p + 1) = Sized(s, (p + 2) + 1)
    BY <1>1, <1>2, <1>4, KindFacts DEF Following
  <2>2. Rest(c) = write_msg(b)
    BY <1>1, <1>4 DEF Rest
  <2>3. b \in Seq(Byte) /\ Len(b) \in 1..MaxBody /\ c.msg = <<b>>
    BY <1>1, <1>4 DEF Sound
  <2> HIDE DEF b
  <2>4. Sized(s, (p + 2) + 1) = At("body", ((p + 2) + 5) + Len(b), <<b>>)
    BY <1>2, <2>2, <2>3, SizedReads
  <2>5. Len(Rest(c)) = 4 + Len(b)
    BY <2>2, <2>3, WriteMsgBytes
  <2>6. ((p + 2) + 5) + Len(b) = (p + 3) + Len(Rest(c))
    <3>1. PICK n \in Nat : n = Len(b)
      BY <2>3
    <3>2. ((p + 2) + 5) + n = (p + 3) + (4 + n)
      OBVIOUS
    <3> QED
      BY <2>5, <3>1, <3>2
  <2> QED
    BY <2>1, <2>3, <2>4, <2>6
<1>5. CASE c.cmd = MPUB
  <2> DEFINE bs == c.msg
  <2>1. Following(s, p + 1) = Multi(s, (p + 2) + 1)
    BY <1>1, <1>2, <1>5, KindFacts DEF Following
  <2>2. bs \in Seq(Seq(Byte)) /\ Len(bs) > 1 /\ BodySize(bs) <= MaxBody
    BY <1>1, <1>5 DEF Sound
  <2>3. Fit(bs)
    <3>1. DOMAIN c.msg = 1..Len(c.msg)
      BY <1>1
    <3> QED
      BY <3>1 DEF Sound, Fit
  <2>4. Rest(c) = write_mmsg(bs)
    <3>1. Len(c.msg) # 0 /\ Len(c.msg) # 1
      BY <1>1, <2>2, Several
    <3> QED
      BY <3>1 DEF Rest
  <2>5. Len(bs) >= 1
    BY <1>1, <2>2
  <2> HIDE DEF bs
  <2>6. Multi(s, (p + 2) + 1) = At("body", ((p + 2) + 1) + Len(write_mmsg(bs)), bs)
    BY <1>2, <2>2, <2>3, <2>4, <2>5, MultiReads
  <2> QED
    BY <1>2, <2>1, <2>4, <2>6 DEF bs
<1> QED
  BY <1>1, <1>3, <1>4, <1>5, KindFacts

\* nsqd reads a sound command that is there, and goes on behind it.
LEMMA CommandReads ==
    ASSUME NEW c \in Command, Sound(c), NEW s \in Seq(Byte), NEW p \in Nat,
           Held(s, p, Encoded(c)), NEW cmds
    PROVE  OneCommand(s, [is |-> "go", at |-> p + 1, cmds |-> cmds])
             = [is |-> "go", at |-> (p + Len(Encoded(c))) + 1, cmds |-> Append(cmds, c)]
<1> DEFINE x == Rest(c)
           y == <<c.cmd, NL>>
           r == [is |-> "go", at |-> p + 1, cmds |-> cmds]
           ends == {j \in DOMAIN s : j >= p + 1 /\ s[j] = NL}
           body == Following(s, p + 1)
<1>1. /\ Encoded(c) = y \o x /\ y \in Seq(Byte) /\ x \in Seq(Byte)
      /\ Len(Encoded(c)) = 2 + Len(x)
  BY EncodedBytes
<1>2. Len(y) = 2 /\ y[1] = c.cmd /\ y[2] = NL
  OBVIOUS
<1>3. c.cmd # NL /\ c = [cmd |-> c.cmd, msg |-> c.msg]
  BY CommandFacts, KindFacts
<1>4. Held(s, p, y) /\ Held(s, p + 2, x)
  <2> HIDE DEF x, y
  <2>1. Held(s, p, y) /\ Held(s, p + Len(y), x)
    BY <1>1, HeldParts
  <2> QED
    BY <1>2, <2>1
<1>5. s[p + 1] = c.cmd /\ s[p + 2] = NL /\ p + 2 <= Len(s)
  <2> HIDE DEF y
  <2>1. 1 \in 1..Len(y) /\ 2 \in 1..Len(y)
    BY <1>2
  <2> QED
    BY <1>2, <1>4, <2>1 DEF Held
<1>6. /\ p + 1 \in DOMAIN s /\ p + 2 \in DOMAIN s /\ (p + 1) + 1 = p + 2
      /\ p + 2 >= p + 1
  <2>1. DOMAIN s = 1..Len(s) /\ Len(s) \in Nat
    OBVIOUS
  <2>2. PICK n \in Nat : n = Len(s)
    BY <2>1
  <2> QED
    BY <1>5, <2>1, <2>2
<1>7. p + 2 \in ends /\ p + 1 \notin ends
  BY <1>3, <1>5, <1>6
<1>8. body = At("body", (p + 3) + Len(x), c.msg)
  BY <1>4, <1>5, FollowingReads
<1>9. (p + 3) + Len(x) = (p + Len(Encoded(c))) + 1
  <2>1. PICK n \in Nat : n = Len(x)
    BY <1>1
  <2>2. (p + 3) + n = (p + (2 + n)) + 1
    OBVIOUS
  <2> HIDE DEF x
  <2> QED
    BY <1>1, <2>1, <2>2
<1>10. body.is = "body" /\ body.end = (p + Len(Encoded(c))) + 1 /\ body.bodies = c.msg
  <2> HIDE DEF body, x
  <2> QED
    BY <1>8, <1>9 DEF At
<1>11. r.is = "go" /\ r.at = p + 1 /\ r.cmds = cmds
  OBVIOUS
<1>12. OneCommand(s, r) =
           IF r.is # "go" THEN r
           ELSE IF p + 1 \notin DOMAIN s THEN [r EXCEPT !.is = "end"]
           ELSE IF ends = {} THEN [r EXCEPT !.is = "wait"]
           ELSE IF p + 1 \in ends \/ (p + 1) + 1 \notin ends THEN [r EXCEPT !.is = "error"]
           ELSE IF body.is # "body" THEN [r EXCEPT !.is = body.is]
           ELSE [is |-> "go", at |-> body.end,
                 cmds |-> Append(r.cmds, [cmd |-> s[p + 1], msg |-> body.bodies])]
  <2> HIDE DEF r
  <2> QED
    BY <1>11 DEF OneCommand
<1> HIDE DEF r, ends, body, x, y
<1>13. OneCommand(s, r) = [is |-> "go", at |-> body.end,
                           cmds |-> Append(r.cmds, [cmd |-> s[p + 1], msg |-> body.bodies])]
  BY <1>6, <1>7, <1>10, <1>11, <1>12
<1> QED
  BY <1>3, <1>5, <1>10, <1>11, <1>13 DEF r

-----------------------------------------------------------------------------
(* The stream *)

\* The first bytes nsqd gets are VERSION.
LEMMA GreetedHeld ==
    ASSUME NEW s \in Seq(Byte)
    PROVE  IsPrefix(VERSION, s) <=> Held(s, 0, VERSION)
<1> DEFINE v == VERSION
           n == Len(v)
<1>1. v \in Seq(Byte) /\ n \in Nat
  BY DEF VERSION, Byte
<1>2. IsPrefix(VERSION, s) <=> n <= Len(s) /\ SubSeq(v, 1, n) = SubSeq(s, 1, n)
  BY DEF IsPrefix
<1> HIDE DEF v
<1>3. SubSeq(v, 1, n) = v
  BY <1>1
<1>4. Held(s, 0, v) <=> n <= Len(s) /\ \A j \in 1..n : s[j] = v[j]
  <2>1. 0 + n = n /\ \A j \in 1..n : 0 + j = j
    BY <1>1
  <2> QED
    BY <2>1 DEF Held
<1>5. ASSUME n <= Len(s) PROVE SubSeq(s, 1, n) = v <=> \A j \in 1..n : s[j] = v[j]
  <2>1. n \in 0..Len(s)
    BY <1>1, <1>5
  <2> DEFINE w == SubSeq(s, 1, n)
  <2>2. w \in Seq(Byte) /\ Len(w) = n /\ \A j \in 1..n : w[j] = s[j]
    BY <2>1, Split
  <2> HIDE DEF w
  <2>3. (\A j \in 1..n : w[j] = v[j]) => w = v
    BY <1>1, <2>2, SameSequence
  <2> QED
    BY <2>2, <2>3 DEF w
<1> HIDE DEF n
<1>6. IsPrefix(VERSION, s) <=> n <= Len(s) /\ SubSeq(s, 1, n) = v
  BY <1>2, <1>3
<1> QED
  BY <1>4, <1>5, <1>6 DEF v

\* The commands tk lie one behind the other in s, behind VERSION and up to end.
Trace(s, tk, end) ==
    \E q \in [0..Len(tk) -> Nat] :
        /\ q[0] = Len(VERSION)
        /\ \A k \in 1..Len(tk) : /\ Held(s, q[k - 1], Encoded(tk[k]))
                                 /\ q[k] = q[k - 1] + Len(Encoded(tk[k]))
        /\ q[Len(tk)] = end
        /\ end <= Len(s)

\* VERSION alone.
LEMMA TraceStart ==
    ASSUME NEW s \in Seq(Byte), Held(s, 0, VERSION)
    PROVE  Trace(s, <<>>, Len(VERSION))
<1> DEFINE n == Len(VERSION)
           q == [k \in 0..0 |-> n]
<1>1. n \in Nat
  BY DEF VERSION
<1>2. n <= Len(s)
  <2>1. 0 + n <= Len(s)
    BY DEF Held
  <2> HIDE DEF n
  <2> QED
    BY <1>1, <2>1
<1> HIDE DEF n
<1>3. q \in [0..Len(<<>>) -> Nat] /\ q[0] = n /\ Len(<<>>) = 0 /\ 1..Len(<<>>) = {}
  BY <1>1
<1> HIDE DEF q
<1> QED
  BY <1>2, <1>3 DEF Trace, n

\* More bytes leave the commands where they are.
LEMMA TraceMore ==
    ASSUME NEW s \in Seq(Byte), NEW more \in Seq(Byte), NEW tk \in Seq(Command), NEW end \in Nat,
           Trace(s, tk, end)
    PROVE  Trace(s \o more, tk, end)
<1> DEFINE n == Len(tk)
           w == s \o more
<1>1. n \in Nat /\ n \in 0..n
  OBVIOUS
<1>2. PICK q \in [0..n -> Nat] :
        /\ q[0] = Len(VERSION)
        /\ \A k \in 1..n : /\ Held(s, q[k - 1], Encoded(tk[k]))
                           /\ q[k] = q[k - 1] + Len(Encoded(tk[k]))
        /\ q[n] = end /\ end <= Len(s)
  BY DEF Trace
<1>3. w \in Seq(Byte) /\ Len(w) = Len(s) + Len(more)
  BY Joined
<1>4. ASSUME NEW k \in 1..n PROVE Held(w, q[k - 1], Encoded(tk[k]))
  <2>1. k - 1 \in 0..n /\ q[k - 1] \in Nat
    <3>1. k - 1 \in 0..n
      BY <1>1
    <3> QED
      BY <3>1
  <2>2. tk[k] \in Command
    OBVIOUS
  <2>3. Encoded(tk[k]) \in Seq(Byte)
    BY <2>2, EncodedBytes
  <2> QED
    BY <1>2, <2>1, <2>3, HeldMore
<1>5. end <= Len(w)
  <2>1. PICK b \in Nat, e \in Nat : b = Len(s) /\ e = Len(more)
    OBVIOUS
  <2>2. end <= b + e
    BY <1>2, <2>1
  <2> HIDE DEF w
  <2> QED
    BY <1>3, <2>1, <2>2
<1> HIDE DEF w
<1>6. Trace(w, tk, end)
  BY <1>2, <1>4, <1>5 DEF Trace
<1> QED
  BY <1>6 DEF w

\* A command that is taken comes behind the others.
LEMMA TraceTaken ==
    ASSUME NEW s \in Seq(Byte), NEW tk \in Seq(Command), NEW c \in Command,
           Trace(s, tk, Len(s))
    PROVE  Trace(s \o Encoded(c), Append(tk, c), Len(s \o Encoded(c)))
<1> DEFINE n == Len(tk)
           e == Encoded(c)
           w == s \o e
           tk2 == Append(tk, c)
<1>1. n \in Nat /\ n \in 0..n
  OBVIOUS
<1>2. PICK q \in [0..n -> Nat] :
        /\ q[0] = Len(VERSION)
        /\ \A k \in 1..n : /\ Held(s, q[k - 1], Encoded(tk[k]))
                           /\ q[k] = q[k - 1] + Len(Encoded(tk[k]))
        /\ q[n] = Len(s)
  BY DEF Trace
<1>3. e \in Seq(Byte) /\ Len(e) \in Nat
  <2>1. e \in Seq(Byte)
    BY EncodedBytes
  <2> HIDE DEF e
  <2> QED
    BY <2>1
<1>4. w \in Seq(Byte) /\ Len(w) = Len(s) + Len(e) /\ Len(w) \in Nat
  <2> HIDE DEF e
  <2>1. w \in Seq(Byte) /\ Len(w) = Len(s) + Len(e)
    BY <1>3, Joined
  <2> QED
    BY <2>1
<1>5. /\ tk2 \in Seq(Command) /\ Len(tk2) = n + 1 /\ tk2[n + 1] = c
      /\ \A k \in 1..n : tk2[k] = tk[k]
  OBVIOUS
<1> DEFINE h == [k \in 0..(n + 1) |-> IF k = n + 1 THEN Len(w) ELSE q[k]]
<1> HIDE DEF e, w, tk2
<1>6. h \in [0..(n + 1) -> Nat] /\ h[0] = Len(VERSION)
  <2>1. 0 \in 0..(n + 1) /\ 0 # n + 1
    BY <1>1
  <2>2. ASSUME NEW k \in 0..(n + 1), k # n + 1 PROVE k \in 0..n
    BY <1>1, <2>2
  <2> QED
    BY <1>2, <1>4, <2>1, <2>2
<1>7. h[n + 1] = Len(w)
  BY <1>1
<1>8. ASSUME NEW k \in 1..(n + 1)
      PROVE  /\ Held(w, h[k - 1], Encoded(tk2[k]))
             /\ h[k] = h[k - 1] + Len(Encoded(tk2[k]))
  <2>1. CASE k = n + 1
    <3>1. k - 1 = n /\ n \in 0..(n + 1) /\ n # n + 1
      BY <1>1, <2>1
    <3>2. h[k - 1] = Len(s) /\ h[k] = Len(w)
      BY <1>2, <1>7, <2>1, <3>1
    <3>3. Encoded(tk2[k]) = e
      BY <1>5, <2>1 DEF e
    <3>4. Held(w, Len(s), e)
      BY <1>3, HeldLast DEF w
    <3> HIDE DEF h
    <3> QED
      BY <1>4, <3>2, <3>3, <3>4
  <2>2. CASE k # n + 1
    <3>1. k \in 1..n /\ k \in 0..(n + 1) /\ k - 1 \in 0..(n + 1) /\ k - 1 # n + 1 /\ k - 1 \in 0..n
      BY <1>1, <2>2
    <3>2. h[k] = q[k] /\ h[k - 1] = q[k - 1] /\ q[k - 1] \in Nat
      BY <1>2, <2>2, <3>1
    <3>3. tk2[k] = tk[k] /\ tk[k] \in Command
      BY <1>5, <3>1
    <3>4. Encoded(tk[k]) \in Seq(Byte)
      BY <3>3, EncodedBytes
    <3>5. Held(s, q[k - 1], Encoded(tk[k])) /\ q[k] = q[k - 1] + Len(Encoded(tk[k]))
      BY <1>2, <3>1
    <3>6. Held(w, q[k - 1], Encoded(tk[k]))
      BY <1>3, <3>2, <3>4, <3>5, HeldMore DEF w
    <3> HIDE DEF h
    <3> QED
      BY <3>2, <3>3, <3>5, <3>6
  <2> QED
    BY <2>1, <2>2
<1> HIDE DEF h
<1>9. Len(w) <= Len(w)
  BY <1>4
<1>10. Trace(w, tk2, Len(w))
  BY <1>5, <1>6, <1>7, <1>8, <1>9 DEF Trace
<1> QED
  BY <1>10 DEF w, e, tk2

-----------------------------------------------------------------------------
(* What nsqd makes of it *)

\* How nsqd's reading stands.
Reading(r) == r = [is |-> r.is, at |-> r.at, cmds |-> r.cmds]

\* One command more leaves those before it, and nothing follows an end.
LEMMA OneCommandKeeps ==
    ASSUME NEW s, NEW r, Reading(r), NEW S, r.cmds \in Seq(S)
    PROVE  LET v == OneCommand(s, r)
           IN  /\ Reading(v)
               /\ v.cmds = r.cmds \/ \E e : v.cmds = Append(r.cmds, e)
               /\ r.is # "go" => v = r
<1> DEFINE v == OneCommand(s, r)
           body == Following(s, r.at)
           e == [cmd |-> s[r.at], msg |-> body.bodies]
<1>1. \/ v = r
      \/ r.is = "go" /\ \E x : v = [r EXCEPT !.is = x]
      \/ r.is = "go" /\ v = [is |-> "go", at |-> body.end, cmds |-> Append(r.cmds, e)]
  BY DEF OneCommand
<1> HIDE DEF v, body, e
<1>2. ASSUME NEW x PROVE [r EXCEPT !.is = x] = [is |-> x, at |-> r.at, cmds |-> r.cmds]
  <2>1. PICK a, b, d : r = [is |-> a, at |-> b, cmds |-> d]
    BY DEF Reading
  <2> QED
    BY <2>1
<1> DEFINE Kept == /\ Reading(v)
                   /\ v.cmds = r.cmds \/ \E x : v.cmds = Append(r.cmds, x)
                   /\ r.is # "go" => v = r
<1>3. ASSUME v = r PROVE Kept
  BY <1>3
<1>4. ASSUME r.is = "go", NEW x, v = [r EXCEPT !.is = x] PROVE Kept
  <2>1. v = [is |-> x, at |-> r.at, cmds |-> r.cmds]
    BY <1>2, <1>4
  <2>2. v.is = x /\ v.at = r.at /\ v.cmds = r.cmds
    BY <2>1
  <2>3. Reading(v)
    BY <2>1, <2>2 DEF Reading
  <2> QED
    BY <1>4, <2>2, <2>3
<1>5. ASSUME r.is = "go", v = [is |-> "go", at |-> body.end, cmds |-> Append(r.cmds, e)]
      PROVE  Kept
  <2>1. v.is = "go" /\ v.at = body.end /\ v.cmds = Append(r.cmds, e)
    BY <1>5
  <2>2. Reading(v)
    BY <1>5, <2>1 DEF Reading
  <2> QED
    BY <1>5, <2>1, <2>2
<1>6. Kept
  <2> HIDE DEF Kept
  <2> QED
    BY <1>1, <1>3, <1>4, <1>5
<1> QED
  BY <1>6 DEF v

\* Parsed takes them one after the other.
LEMMA ParsedSteps ==
    ASSUME NEW s \in Seq(Byte)
    PROVE  \E h : /\ Parsed(s) = h[Len(s)]
                  /\ h[0] = [is |-> "go", at |-> Len(VERSION) + 1, cmds |-> <<>>]
                  /\ \A k \in 1..Len(s) : h[k] = OneCommand(s, h[k - 1])
<1> DEFINE n == Len(s)
           r0 == [is |-> "go", at |-> Len(VERSION) + 1, cmds |-> <<>>]
           R(m, g) == [k \in 0..m |-> IF k = 0 THEN r0 ELSE OneCommand(s, g[k - 1])]
           read == CHOOSE g : g = R(n, g)
           T == {m \in 0..n : \E g : g = R(m, g)}
<1>1. n \in Nat /\ n \in 0..n /\ 0 \in 0..n
  OBVIOUS
<1>2. Parsed(s) = read[n]
  BY DEF Parsed
<1> HIDE DEF r0
<1>3. 0 \in T
  <2> DEFINE g == [k \in 0..0 |-> r0]
  <2>1. g = R(0, g)
    OBVIOUS
  <2> HIDE DEF g, R
  <2> QED
    BY <1>1, <2>1
<1>4. ASSUME NEW m \in 0..(n - 1), m \in T PROVE m + 1 \in T
  <2>1. PICK g : g = R(m, g)
    BY <1>4
  <2>2. m \in Nat /\ m + 1 \in 0..n
    BY <1>1
  <2> DEFINE last == OneCommand(s, g[m])
             h == [k \in 0..(m + 1) |-> IF k = m + 1 THEN last ELSE g[k]]
  <2>3. ASSUME NEW k \in 0..(m + 1)
        PROVE  h[k] = IF k = 0 THEN r0 ELSE OneCommand(s, h[k - 1])
    <3>1. CASE k = m + 1
      <4>1. k # 0 /\ k - 1 \in 0..(m + 1) /\ k - 1 = m /\ k - 1 # m + 1
        BY <2>2, <3>1
      <4>2. h[k - 1] = g[m] /\ h[k] = last
        <5> HIDE DEF last
        <5> QED
          BY <3>1, <4>1
      <4> HIDE DEF h
      <4> QED
        BY <4>1, <4>2
    <3>2. CASE k # m + 1 /\ k # 0
      <4>1. k \in 0..m /\ k - 1 \in 0..(m + 1) /\ k - 1 # m + 1
        BY <2>2, <3>2
      <4>2. h[k - 1] = g[k - 1] /\ h[k] = g[k]
        <5> HIDE DEF last
        <5> QED
          BY <3>2, <4>1
      <4>3. g[k] = OneCommand(s, g[k - 1])
        BY <2>1, <3>2, <4>1
      <4> HIDE DEF h
      <4> QED
        BY <3>2, <4>2, <4>3
    <3>3. CASE k = 0
      <4>1. 0 \in 0..m /\ 0 # m + 1
        BY <2>2
      <4>2. h[k] = g[0]
        <5> HIDE DEF last
        <5> QED
          BY <3>3, <4>1
      <4>3. g[0] = r0
        BY <2>1, <4>1
      <4> HIDE DEF h
      <4> QED
        BY <3>3, <4>2, <4>3
    <3> QED
      BY <3>1, <3>2, <3>3
  <2>4. h = R(m + 1, h)
    <3> HIDE DEF last
    <3> QED
      BY <2>3
  <2> HIDE DEF h, R
  <2> QED
    BY <2>2, <2>4
<1>5. n \in T
  <2> HIDE DEF T
  <2>1. \A m \in 0..n : m \in T
    BY <1>1, <1>3, <1>4, BoundedInduction
  <2> QED
    BY <1>1, <2>1
<1>6. read = R(n, read)
  <2> HIDE DEF R
  <2> QED
    BY <1>5
<1> HIDE DEF read
<1>7. read[0] = r0
  BY <1>1, <1>6
<1>8. ASSUME NEW k \in 1..n PROVE read[k] = OneCommand(s, read[k - 1])
  <2>1. k \in 0..n /\ k # 0
    BY <1>1
  <2> QED
    BY <1>6, <2>1
<1> QED
  BY <1>2, <1>7, <1>8 DEF r0

\* nsqd reads the commands that lie there, as long as they are sound.
LEMMA TraceRead ==
    ASSUME NEW s \in Seq(Byte), NEW tk \in Seq(Command), NEW end \in Nat, Trace(s, tk, end),
           \A k \in 1..Len(tk) : Sound(tk[k]),
           NEW h, h[0] = [is |-> "go", at |-> Len(VERSION) + 1, cmds |-> <<>>],
           \A k \in 1..Len(s) : h[k] = OneCommand(s, h[k - 1])
    PROVE  /\ Len(tk) + 1 \in 1..Len(s) /\ end <= Len(s)
           /\ h[Len(tk)] = [is |-> "go", at |-> end + 1, cmds |-> tk]
<1> DEFINE n == Len(tk)
           H(k, p) == [is |-> "go", at |-> p + 1, cmds |-> SubSeq(tk, 1, k)]
           v == Len(VERSION)
<1>1. n \in Nat /\ n \in 0..n /\ 0 \in 0..n /\ Len(s) \in Nat
  OBVIOUS
<1>2. v = 4
  BY DEF VERSION
<1>3. PICK q \in [0..n -> Nat] :
        /\ q[0] = v
        /\ \A k \in 1..n : /\ Held(s, q[k - 1], Encoded(tk[k]))
                           /\ q[k] = q[k - 1] + Len(Encoded(tk[k]))
        /\ q[n] = end /\ end <= Len(s)
  BY DEF Trace
<1> HIDE DEF v
<1>4. ASSUME NEW k \in 1..n
      PROVE  /\ k - 1 \in 0..n /\ q[k - 1] \in Nat /\ tk[k] \in Command /\ Sound(tk[k])
             /\ q[k] >= q[k - 1] + 2 /\ q[k] <= Len(s)
  <2>1. k - 1 \in 0..n
    BY <1>1
  <2>2. q[k - 1] \in Nat /\ tk[k] \in Command /\ Sound(tk[k])
    BY <2>1
  <2>3. Len(Encoded(tk[k])) >= 2 /\ Encoded(tk[k]) \in Seq(Byte)
    BY <2>2, EncodedBytes
  <2>4. PICK a \in Nat, b \in Nat : a = q[k - 1] /\ b = Len(Encoded(tk[k]))
    BY <2>2, <2>3
  <2>5. q[k] = a + b /\ a + b <= Len(s)
    BY <1>3, <2>4 DEF Held
  <2>6. b >= 2
    BY <2>3, <2>4
  <2>7. a + b >= a + 2
    BY <2>6
  <2> QED
    BY <2>1, <2>2, <2>4, <2>5, <2>7
<1>5. \A k \in 0..n : k + 4 <= q[k]
  <2> DEFINE T == {k \in 0..n : k + 4 <= q[k]}
  <2>1. 0 \in T
    BY <1>1, <1>2, <1>3
  <2>2. ASSUME NEW k \in 0..(n - 1), k \in T PROVE k + 1 \in T
    <3>1. k \in Nat /\ k + 1 \in 1..n /\ k + 1 \in 0..n /\ (k + 1) - 1 = k /\ k + 4 <= q[k]
      BY <1>1, <2>2
    <3>2. q[k] \in Nat /\ q[k + 1] \in Nat
      <4>1. k \in 0..n
        BY <1>1
      <4> QED
        BY <1>3, <3>1, <4>1, Zenon
    <3>3. PICK a \in Nat, b \in Nat : a = q[k] /\ b = q[k + 1]
      BY <3>2
    <3>4. b >= a + 2 /\ k + 4 <= a
      <4>1. q[k + 1] >= q[(k + 1) - 1] + 2
        BY <1>4, <3>1, Zenon
      <4> QED
        BY <3>1, <3>3, <4>1
    <3>5. (k + 1) + 4 <= b
      BY <3>1, <3>4, SMTT(30)
    <3> QED
      BY <3>1, <3>3, <3>5
  <2>3. \A k \in 0..n : k \in T
    <3> HIDE DEF T
    <3> QED
      BY <1>1, <2>1, <2>2, BoundedInduction
  <2> QED
    BY <2>3
<1>6. n + 4 <= end /\ end <= Len(s)
  BY <1>1, <1>3, <1>5
<1>7. n + 1 \in 1..Len(s) /\ \A k \in 1..n : k \in 1..Len(s)
  <2>1. PICK m \in Nat : m = Len(s)
    BY <1>1
  <2>2. n + 4 <= m
    BY <1>1, <1>6, <2>1
  <2> HIDE DEF n
  <2> QED
    BY <1>1, <2>1, <2>2
<1>8. \A k \in 0..n : h[k] = H(k, q[k])
  <2> DEFINE T == {k \in 0..n : h[k] = H(k, q[k])}
  <2>1. 0 \in T
    <3>1. SubSeq(tk, 1, 0) = <<>>
      OBVIOUS
    <3>2. h[0] = H(0, q[0])
      BY <1>3, <3>1 DEF v
    <3> HIDE DEF H
    <3> QED
      BY <1>1, <3>2
  <2>2. ASSUME NEW k \in 0..(n - 1), k \in T PROVE k + 1 \in T
    <3> DEFINE c == tk[k + 1]
               xs == SubSeq(tk, 1, k)
               ys == SubSeq(tk, 1, k + 1)
               p == q[k]
    <3>1. k \in 0..n /\ k + 1 \in 1..n /\ k + 1 \in 0..n /\ (k + 1) - 1 = k
      BY <1>1
    <3>2. c \in Command /\ Sound(c) /\ p \in Nat /\ Held(s, p, Encoded(c))
          /\ q[k + 1] = p + Len(Encoded(c))
      BY <1>3, <1>4, <3>1
    <3>3. h[k] = [is |-> "go", at |-> p + 1, cmds |-> xs]
      BY <2>2, <3>1
    <3>4. h[k + 1] = OneCommand(s, h[k])
      BY <1>7, <3>1
    <3>5. /\ xs \in Seq(Command) /\ Len(xs) = k /\ \A i \in 1..k : xs[i] = tk[i]
          /\ ys \in Seq(Command) /\ Len(ys) = k + 1 /\ \A i \in 1..(k + 1) : ys[i] = tk[i]
      BY <3>1, Split
    <3> HIDE DEF c, xs, ys, p
    <3>6. h[k + 1] = [is |-> "go", at |-> (p + Len(Encoded(c))) + 1, cmds |-> Append(xs, c)]
      BY <3>2, <3>3, <3>4, CommandReads
    <3>7. Append(xs, c) = ys
      <4>1. /\ Append(xs, c) \in Seq(Command) /\ Len(Append(xs, c)) = k + 1
            /\ \A i \in 1..k : Append(xs, c)[i] = xs[i]
            /\ Append(xs, c)[k + 1] = c
        BY <3>2, <3>5
      <4>2. \A i \in 1..(k + 1) : i \in 1..k \/ i = k + 1
        BY <3>1
      <4>3. ys[k + 1] = c
        BY <3>1, <3>5 DEF c
      <4>4. \A i \in 1..(k + 1) : Append(xs, c)[i] = ys[i]
        BY <3>5, <4>1, <4>2, <4>3
      <4> QED
        BY <3>5, <4>1, <4>4, SameSequence
    <3>8. h[k + 1] = H(k + 1, q[k + 1])
      BY <3>2, <3>6, <3>7 DEF ys
    <3> HIDE DEF H
    <3> QED
      BY <3>1, <3>8
  <2>3. \A k \in 0..n : k \in T
    <3> HIDE DEF T
    <3> QED
      BY <1>1, <2>1, <2>2, BoundedInduction
  <2> HIDE DEF H
  <2> QED
    BY <2>3
<1>9. SubSeq(tk, 1, n) = tk
  OBVIOUS
<1>10. h[n] = [is |-> "go", at |-> end + 1, cmds |-> tk]
  BY <1>1, <1>3, <1>8, <1>9
<1> QED
  BY <1>6, <1>7, <1>10

\* A stream that ends with the last of them is read to its end.
LEMMA WholeParsed ==
    ASSUME NEW s \in Seq(Byte), NEW tk \in Seq(Command), Trace(s, tk, Len(s)),
           \A k \in 1..Len(tk) : Sound(tk[k])
    PROVE  Parsed(s).is = "end" /\ Parsed(s).cmds = tk
<1> DEFINE n == Len(tk)
           m == Len(s)
           r == [is |-> "go", at |-> m + 1, cmds |-> tk]
           e == [is |-> "end", at |-> m + 1, cmds |-> tk]
<1>1. n \in Nat /\ m \in Nat
  OBVIOUS
<1>2. PICK h : /\ Parsed(s) = h[m]
               /\ h[0] = [is |-> "go", at |-> Len(VERSION) + 1, cmds |-> <<>>]
               /\ \A k \in 1..m : h[k] = OneCommand(s, h[k - 1])
  BY ParsedSteps
<1>3. n + 1 \in 1..m /\ h[n] = r
  <2> HIDE DEF r
  <2> QED
    BY <1>1, <1>2, TraceRead DEF r
<1>4. OneCommand(s, r) = e
  <2>1. r.is = "go" /\ r.at = m + 1 /\ m + 1 \notin DOMAIN s /\ [r EXCEPT !.is = "end"] = e
    BY <1>1
  <2> HIDE DEF r, e, m
  <2> QED
    BY <2>1 DEF OneCommand
<1>5. OneCommand(s, e) = e
  <2>1. e.is # "go"
    OBVIOUS
  <2> HIDE DEF e
  <2> QED
    BY <2>1 DEF OneCommand
<1> HIDE DEF r, e
<1> DEFINE T == {k \in 0..m : k >= n + 1 => h[k] = e}
<1>6. 0 \in T
  BY <1>1
<1>7. ASSUME NEW k \in 0..(m - 1), k \in T PROVE k + 1 \in T
  <2>1. k \in Nat /\ k + 1 \in 1..m /\ k + 1 \in 0..m /\ (k + 1) - 1 = k
    BY <1>1
  <2>2. h[k + 1] = OneCommand(s, h[k])
    BY <1>2, <2>1
  <2>3. CASE k = n
    BY <1>3, <1>4, <2>1, <2>2, <2>3
  <2>4. CASE k >= n + 1
    BY <1>5, <1>7, <2>1, <2>2, <2>4
  <2>5. CASE k < n
    BY <1>1, <2>1, <2>5
  <2> QED
    BY <1>1, <2>1, <2>3, <2>4, <2>5
<1>8. \A k \in 0..m : k \in T
  <2> HIDE DEF T
  <2> QED
    BY <1>1, <1>6, <1>7, BoundedInduction
<1>9. h[m] = e
  <2>1. m \in 0..m /\ m >= n + 1
    BY <1>1, <1>3
  <2> QED
    BY <1>8, <2>1
<1> QED
  BY <1>2, <1>9 DEF e

\* Whatever follows, nsqd has read these before it.
LEMMA PartParsed ==
    ASSUME NEW s \in Seq(Byte), NEW tk \in Seq(Command), NEW end \in Nat, Trace(s, tk, end),
           \A k \in 1..Len(tk) : Sound(tk[k])
    PROVE  IsPrefix(tk, Parsed(s).cmds)
<1> DEFINE n == Len(tk)
           m == Len(s)
           Behind(r) == /\ Reading(r)
                        /\ \E S : r.cmds \in Seq(S)
                        /\ n <= Len(r.cmds) /\ \A i \in 1..n : r.cmds[i] = tk[i]
<1>1. n \in Nat /\ m \in Nat
  OBVIOUS
<1>2. PICK h : /\ Parsed(s) = h[m]
               /\ h[0] = [is |-> "go", at |-> Len(VERSION) + 1, cmds |-> <<>>]
               /\ \A k \in 1..m : h[k] = OneCommand(s, h[k - 1])
  BY ParsedSteps
<1>3. n + 1 \in 1..m /\ h[n] = [is |-> "go", at |-> end + 1, cmds |-> tk]
  BY <1>1, <1>2, TraceRead
<1>4. Behind(h[n])
  <2> DEFINE r == h[n]
  <2>1. r.is = "go" /\ r.at = end + 1 /\ r.cmds = tk
    BY <1>3
  <2>2. Reading(r)
    BY <1>3, <2>1 DEF Reading
  <2> HIDE DEF r
  <2> QED
    BY <1>1, <2>1, <2>2 DEF r
<1>5. ASSUME NEW r, Behind(r) PROVE Behind(OneCommand(s, r))
  <2> DEFINE v == OneCommand(s, r)
  <2>1. PICK S : r.cmds \in Seq(S)
    BY <1>5
  <2>2. Reading(v) /\ (v.cmds = r.cmds \/ \E e : v.cmds = Append(r.cmds, e))
    BY <1>5, <2>1, OneCommandKeeps
  <2> HIDE DEF v
  <2>3. ASSUME v.cmds = r.cmds PROVE Behind(v)
    <3>1. \E U : v.cmds \in Seq(U)
      <4>1. v.cmds \in Seq(S)
        BY <2>1, <2>3
      <4> QED
        BY <4>1
    <3>2. n <= Len(v.cmds) /\ \A i \in 1..n : v.cmds[i] = tk[i]
      BY <1>5, <2>3
    <3> QED
      BY <2>2, <3>1, <3>2
  <2>4. ASSUME NEW e, v.cmds = Append(r.cmds, e) PROVE Behind(v)
    <3> DEFINE x == r.cmds
               y == Append(x, e)
               U == S \cup {e}
    <3>1. x \in Seq(U) /\ e \in U
      BY <2>1
    <3> HIDE DEF x, U
    <3>2. /\ y \in Seq(U) /\ Len(y) = Len(x) + 1 /\ Len(x) \in Nat
          /\ \A i \in 1..Len(x) : y[i] = x[i]
      BY <3>1
    <3>3. n <= Len(x) /\ \A i \in 1..n : x[i] = tk[i]
      BY <1>5 DEF x
    <3> HIDE DEF y
    <3>4. n <= Len(y) /\ \A i \in 1..n : y[i] = tk[i]
      BY <1>1, <3>2, <3>3
    <3>5. v.cmds = y
      BY <2>4 DEF x, y
    <3>6. \E W : v.cmds \in Seq(W)
      <4>1. v.cmds \in Seq(U)
        BY <3>2, <3>5
      <4> QED
        BY <4>1
    <3>7. n <= Len(v.cmds) /\ \A i \in 1..n : v.cmds[i] = tk[i]
      BY <3>4, <3>5
    <3> QED
      BY <2>2, <3>6, <3>7
  <2>5. Behind(v)
    BY <2>2, <2>3, <2>4
  <2> QED
    BY <2>5 DEF v
<1> DEFINE T == {k \in 0..m : k >= n => Behind(h[k])}
<1> HIDE DEF Behind
<1>6. 0 \in T
  BY <1>1, <1>4
<1>7. ASSUME NEW k \in 0..(m - 1), k \in T PROVE k + 1 \in T
  <2>1. k \in Nat /\ k + 1 \in 1..m /\ k + 1 \in 0..m /\ (k + 1) - 1 = k
    BY <1>1
  <2>2. h[k + 1] = OneCommand(s, h[k])
    BY <1>2, <2>1
  <2>3. CASE k >= n
    <3>1. Behind(h[k])
      BY <1>7, <2>3
    <3> QED
      BY <1>5, <2>1, <2>2, <3>1
  <2>4. CASE k < n
    <3>1. CASE k + 1 = n
      BY <1>4, <2>1, <3>1
    <3>2. CASE k + 1 < n
      BY <1>1, <2>1, <3>2
    <3> QED
      BY <1>1, <2>1, <2>4, <3>1, <3>2
  <2> QED
    BY <1>1, <2>1, <2>3, <2>4
<1>8. \A k \in 0..m : k \in T
  <2> HIDE DEF T
  <2> QED
    BY <1>1, <1>6, <1>7, BoundedInduction
<1>9. Behind(h[m])
  <2>1. m \in 0..m /\ m >= n
    BY <1>1, <1>3
  <2> QED
    BY <1>8, <2>1
<1> DEFINE z == Parsed(s).cmds
<1>10. (\E S : z \in Seq(S)) /\ n <= Len(z) /\ \A i \in 1..n : z[i] = tk[i]
  BY <1>2, <1>9 DEF Behind
<1> HIDE DEF z
<1>11. PICK S : z \in Seq(S)
  BY <1>10
<1>12. SubSeq(z, 1, n) = tk
  <2> DEFINE U == S \cup Command
             w == SubSeq(z, 1, n)
  <2>1. z \in Seq(U) /\ tk \in Seq(U)
    BY <1>11
  <2> HIDE DEF U
  <2>2. n \in 0..Len(z)
    BY <1>1, <1>10, <2>1
  <2>3. w \in Seq(U) /\ Len(w) = n /\ \A i \in 1..n : w[i] = z[i]
    BY <2>1, <2>2, Split
  <2> HIDE DEF w
  <2>4. w = tk
    BY <1>10, <2>1, <2>3, SameSequence
  <2> QED
    BY <2>4 DEF w
<1>13. IsPrefix(tk, z) <=> n <= Len(z) /\ SubSeq(z, 1, n) = tk
  BY DEF IsPrefix
<1> QED
  BY <1>10, <1>12, <1>13 DEF z

-----------------------------------------------------------------------------
(* What holds in every state *)

\* No command makes up for a VERSION that did not come.
LEMMA NeverGreetedLater ==
    ASSUME NEW s \in Seq(Byte), NEW e \in Seq(Byte), Len(e) > 0 => e[1] \notin {32, 86, 50},
           Held(s \o e, 0, VERSION)
    PROVE  Held(s, 0, VERSION)
<1> DEFINE w == s \o e
           v == VERSION
<1>1. /\ w \in Seq(Byte) /\ Len(w) = Len(s) + Len(e)
      /\ \A i \in 1..Len(s) : w[i] = s[i]
      /\ \A i \in 1..Len(e) : w[Len(s) + i] = e[i]
  BY Joined
<1>2. Len(v) = 4 /\ \A j \in 1..4 : v[j] \in {32, 86, 50}
  BY DEF VERSION
<1>3. PICK a \in Nat, b \in Nat : a = Len(s) /\ b = Len(e)
  OBVIOUS
<1> HIDE DEF w, v
<1>4. 4 <= a + b /\ \A j \in 1..4 : w[j] = v[j]
  <2>1. 0 + Len(v) <= Len(w) /\ \A j \in 1..Len(v) : w[0 + j] = v[j]
    BY DEF Held, w, v
  <2>2. 0 + 4 <= a + b
    BY <1>1, <1>2, <1>3, <2>1
  <2>3. \A j \in 1..4 : 0 + j = j
    OBVIOUS
  <2> QED
    BY <1>2, <2>1, <2>2, <2>3
<1>5. 4 <= a
  <2> SUFFICES ASSUME a < 4 PROVE FALSE
    OBVIOUS
  <2>1. a + 1 \in 1..4 /\ 1 \in 1..b /\ b > 0
    BY <1>4
  <2>2. w[a + 1] = e[1]
    BY <1>1, <1>3, <2>1
  <2>3. w[a + 1] \in {32, 86, 50}
    BY <1>2, <1>4, <2>1
  <2>4. Len(e) > 0
    BY <1>3, <2>1
  <2> QED
    BY <2>2, <2>3, <2>4
<1>6. \A j \in 1..4 : j \in 1..a
  BY <1>5
<1>7. \A j \in 1..Len(v) : s[0 + j] = v[j]
  <2>1. \A j \in 1..4 : s[j] = v[j] /\ 0 + j = j
    BY <1>1, <1>3, <1>4, <1>6
  <2> QED
    BY <1>2, <2>1
<1>8. 0 + Len(v) <= Len(s)
  BY <1>2, <1>3, <1>5
<1> QED
  BY <1>7, <1>8 DEF Held, v

\* The start of nsqd's stream: whatever was taken lies there as it was written.
Traced ==
    /\ w_buf = VERSION => stream = <<>> /\ taken = <<>>
    /\ \A k \in 1..Len(taken) : \E j \in 1..Len(written) : written[j] = taken[k]
    /\ Greeted => \E end \in Nat : Trace(stream, taken, end)
    /\ Greeted /\ ~cut => Trace(stream, taken, Len(stream))

\* A write, with what the socket takes of it.
LEMMA WriteFacts ==
    ASSUME TypeOK, NEW c \in Cmds, NEW n \in 0..(Len(w_buf) + Len(Encoded(c))), WriteCmd(c, n)
    PROVE  /\ c \in Command /\ w_buf \o Encoded(c) \in Seq(Byte)
           /\ SubSeq(w_buf \o Encoded(c), 1, n) \in Seq(Byte)
           /\ Len(SubSeq(w_buf \o Encoded(c), 1, n)) = n
           /\ Len(w_buf \o Encoded(c)) >= 2
           /\ n = 0 \/ SubSeq(w_buf \o Encoded(c), 1, n)[1] = (w_buf \o Encoded(c))[1]
<1> DEFINE e == Encoded(c)
           buf == w_buf \o e
           more == SubSeq(buf, 1, n)
<1>1. c \in Command
  BY CodecAssumption
<1>2. e \in Seq(Byte) /\ Len(e) >= 2 /\ Len(e) \in Nat
  <2>1. e \in Seq(Byte) /\ Len(e) >= 2
    BY <1>1, EncodedBytes
  <2> HIDE DEF e
  <2> QED
    BY <2>1
<1>3. w_buf \in Seq(Byte) /\ Len(w_buf) \in Nat
  <2>1. VERSION \in Seq(Byte)
    BY DEF VERSION, Byte
  <2>2. w_buf \in {VERSION, <<>>}
    BY DEF TypeOK
  <2>3. <<>> \in Seq(Byte)
    OBVIOUS
  <2>4. w_buf \in Seq(Byte)
    BY <2>1, <2>2, <2>3, Zenon
  <2> QED
    BY <2>4
<1> HIDE DEF e
<1>4. buf \in Seq(Byte) /\ Len(buf) = Len(w_buf) + Len(e)
  BY <1>2, <1>3, Joined
<1>5. n \in 0..Len(buf) /\ Len(buf) >= 2
  BY <1>2, <1>3, <1>4 DEF e
<1> HIDE DEF buf
<1>6. more \in Seq(Byte) /\ Len(more) = n /\ \A i \in 1..n : more[i] = buf[i]
  BY <1>4, <1>5, Split
<1>7. n = 0 \/ 1 \in 1..n
  <2>1. n \in Nat
    BY <1>4, <1>5
  <2> QED
    BY <2>1
<1> HIDE DEF more
<1>8. n = 0 \/ more[1] = buf[1]
  BY <1>6, <1>7
<1> QED
  BY <1>1, <1>4, <1>5, <1>6, <1>8 DEF more, buf, e

\* The type of every variable (Conn and the fields of Client it works on).
THEOREM TypeCorrect == Spec => []TypeOK
<1>1. Init => TypeOK
  <2>1. \A S : <<>> \in Seq(S)
    OBVIOUS
  <2> QED
    BY <2>1, Zenon DEF Init, TypeOK
<1>2. TypeOK /\ [Next]_vars => TypeOK'
  <2> SUFFICES ASSUME TypeOK, [Next]_vars PROVE TypeOK'
    OBVIOUS
  <2>1. ASSUME NEW c \in Cmds, NEW n \in 0..(Len(w_buf) + Len(Encoded(c))), WriteCmd(c, n)
        PROVE  TypeOK'
    <3> DEFINE buf == w_buf \o Encoded(c)
               more == SubSeq(buf, 1, n)
    <3>1. buf \in Seq(Byte) /\ more \in Seq(Byte)
      BY <2>1, WriteFacts
    <3>2. /\ w_buf' = <<>> /\ stream' = stream \o more
          /\ written' = Append(written, c)
          /\ taken' = Append(taken, c) \/ taken' = taken
          /\ message' = message
      BY <2>1 DEF WriteCmd, write_tcp
    <3>3. cut' \in BOOLEAN
      <4> HIDE DEF buf
      <4>1. cut' = (cut \/ n \in 1..(Len(buf) - 1))
        BY <2>1 DEF WriteCmd, buf
      <4> QED
        BY <4>1, Zenon
    <3> HIDE DEF more, buf
    <3>4. stream' \in Seq(Byte)
      BY <3>1, <3>2 DEF TypeOK
    <3>5. written' \in Seq(Cmds) /\ taken' \in Seq(Cmds)
      <4>1. written \in Seq(Cmds) /\ taken \in Seq(Cmds)
        BY DEF TypeOK
      <4>2. Append(written, c) \in Seq(Cmds) /\ Append(taken, c) \in Seq(Cmds)
        BY <4>1
      <4> QED
        BY <3>2, <4>1, <4>2, Zenon
    <3> QED
      BY <3>2, <3>3, <3>4, <3>5 DEF TypeOK
  <2>2. ASSUME NEW m \in Messages, ReadMsg(m) PROVE TypeOK'
    BY <2>2 DEF ReadMsg, TypeOK
  <2>3. CASE UNCHANGED vars
    BY <2>3 DEF vars, TypeOK
  <2> QED
    BY <2>1, <2>2, <2>3 DEF Next
<1> QED
  BY <1>1, <1>2, PTL DEF Spec

\* What a write leaves behind.
LEMMA WriteKeeps ==
    ASSUME TypeOK, Traced, NEW c \in Cmds, NEW n \in 0..(Len(w_buf) + Len(Encoded(c))),
           WriteCmd(c, n), TypeOK'
    PROVE  Traced'
<1> DEFINE e == Encoded(c)
           buf == w_buf \o e
           more == SubSeq(buf, 1, n)
<1>1. /\ c \in Command /\ buf \in Seq(Byte) /\ Len(buf) >= 2
      /\ more \in Seq(Byte) /\ Len(more) = n /\ (n = 0 \/ more[1] = buf[1])
  BY WriteFacts
<1>2. e \in Seq(Byte) /\ Len(e) >= 2 /\ e[1] = c.cmd /\ e[1] \notin {32, 86, 50}
  <2>1. e \in Seq(Byte) /\ Len(e) >= 2 /\ e[1] = c.cmd
    BY <1>1, EncodedBytes
  <2>2. c.cmd \in Kinds
    BY <1>1, CommandFacts
  <2> HIDE DEF e
  <2> QED
    BY <2>1, <2>2, KindFacts
<1> HIDE DEF e
<1>3. /\ w_buf' = <<>> /\ stream' = stream \o more
      /\ n = Len(buf) \/ n = 0 \/ n \in 1..(Len(buf) - 1)
      /\ written' = Append(written, c)
      /\ taken' = IF n = Len(buf) /\ ~cut THEN Append(taken, c) ELSE taken
      /\ cut' = (cut \/ n \in 1..(Len(buf) - 1))
  BY DEF WriteCmd, write_tcp, e
<1>4. SubSeq(buf, 1, Len(buf)) = buf
  BY <1>1
<1>5. n \in Nat /\ Len(buf) \in Nat /\ Len(buf) # 0
  <2> HIDE DEF buf
  <2> QED
    BY <1>1
<1> HIDE DEF buf, more
<1>6. /\ stream \in Seq(Byte) /\ taken \in Seq(Cmds) /\ written \in Seq(Cmds)
      /\ stream' \in Seq(Byte) /\ taken' \in Seq(Cmds)
      /\ w_buf = VERSION \/ w_buf = <<>>
  BY DEF TypeOK
<1>7. taken \in Seq(Command) /\ taken' \in Seq(Command)
  BY <1>6, CodecAssumption
<1>8. VERSION # <<>> /\ VERSION \in Seq(Byte) /\ Len(VERSION) \in Nat /\ Len(VERSION) > 0
  BY DEF VERSION, Byte
<1>9. \A k \in 1..Len(taken') : \E j \in 1..Len(written') : written'[j] = taken'[k]
  <2>1. /\ Len(written') = Len(written) + 1 /\ Len(written) \in Nat
        /\ \A j \in 1..Len(written) : written'[j] = written[j]
        /\ written'[Len(written) + 1] = c
    BY <1>3, <1>6
  <2>2. Len(written) + 1 \in 1..Len(written') /\ \A j \in 1..Len(written) : j \in 1..Len(written')
    BY <2>1
  <2> SUFFICES ASSUME NEW k \in 1..Len(taken')
               PROVE  \E j \in 1..Len(written') : written'[j] = taken'[k]
    OBVIOUS
  <2>3. taken'[k] = c \/ (k \in 1..Len(taken) /\ taken'[k] = taken[k])
    <3>1. taken' = taken \/ taken' = Append(taken, c)
      BY <1>3
    <3>2. ASSUME taken' = Append(taken, c)
          PROVE  taken'[k] = c \/ (k \in 1..Len(taken) /\ taken'[k] = taken[k])
      <4>1. /\ Len(Append(taken, c)) = Len(taken) + 1 /\ Append(taken, c)[Len(taken) + 1] = c
            /\ \A i \in 1..Len(taken) : Append(taken, c)[i] = taken[i]
            /\ Len(taken) \in Nat
        BY <1>6
      <4>2. k \in 1..(Len(taken) + 1)
        BY <3>2, <4>1
      <4>3. k = Len(taken) + 1 \/ k \in 1..Len(taken)
        BY <4>1, <4>2
      <4> QED
        BY <3>2, <4>1, <4>3
    <3> QED
      BY <3>1, <3>2
  <2>4. CASE taken'[k] = c
    BY <2>1, <2>2, <2>4
  <2>5. CASE k \in 1..Len(taken) /\ taken'[k] = taken[k]
    <3>1. PICK j \in 1..Len(written) : written[j] = taken[k]
      BY <2>5 DEF Traced
    <3> QED
      BY <2>1, <2>2, <2>5, <3>1
  <2> QED
    BY <2>3, <2>4, <2>5
<1>10. Greeted' <=> Held(stream', 0, VERSION)
  <2>1. Greeted' <=> IsPrefix(VERSION, stream')
    BY DEF Greeted, VERSION
  <2> QED
    BY <1>6, <2>1, GreetedHeld
<1>11. ASSUME w_buf = VERSION, Greeted'
       PROVE  /\ \E end \in Nat : Trace(stream', taken', end)
              /\ ~cut' => Trace(stream', taken', Len(stream'))
  <2>1. buf = VERSION \o e /\ stream = <<>> /\ taken = <<>>
    BY <1>11 DEF Traced, buf
  <2>2. stream' = more
    BY <1>1, <1>3, <2>1
  <2>3. Held(stream', 0, VERSION)
    BY <1>10, <1>11
  <2>4. n # 0
    <3> SUFFICES ASSUME n = 0 PROVE FALSE
      OBVIOUS
    <3>1. Len(stream') = 0
      BY <1>1, <2>2
    <3>2. 0 + Len(VERSION) <= Len(stream')
      BY <2>3 DEF Held
    <3> QED
      BY <1>8, <3>1, <3>2
  <2>5. CASE taken' = <<>> /\ cut'
    BY <1>6, <1>8, <2>3, <2>5, TraceStart
  <2>6. CASE taken' = <<>> /\ ~cut'
    <3>1. FALSE
      <4>1. n = Len(buf) /\ ~cut
        BY <1>3, <2>4, <2>6
      <4>2. taken' = Append(<<>>, c)
        BY <1>3, <2>1, <4>1
      <4>3. Append(<<>>, c) # <<>>
        OBVIOUS
      <4> QED
        BY <2>6, <4>2, <4>3
    <3> QED
      BY <3>1
  <2>7. CASE taken' # <<>>
    <3>1. n = Len(buf) /\ taken' = Append(<<>>, c)
      BY <1>3, <2>1, <2>7
    <3>2. stream' = VERSION \o e
      BY <1>4, <2>1, <2>2, <3>1 DEF more
    <3>3. Held(VERSION, 0, VERSION)
      <4>1. \A j \in 1..Len(VERSION) : 0 + j = j
        BY <1>8
      <4>2. 0 + Len(VERSION) <= Len(VERSION)
        BY <1>8
      <4> QED
        BY <4>1, <4>2 DEF Held
    <3>4. Trace(VERSION, <<>>, Len(VERSION))
      BY <1>8, <3>3, TraceStart
    <3>5. <<>> \in Seq(Command)
      OBVIOUS
    <3>6. Trace(VERSION \o Encoded(c), Append(<<>>, c), Len(VERSION \o Encoded(c)))
      BY <1>1, <1>8, <3>4, <3>5, TraceTaken
    <3>7. Trace(stream', taken', Len(stream'))
      BY <3>1, <3>2, <3>6 DEF e
    <3>8. Len(stream') \in Nat
      BY <1>6
    <3> QED
      BY <3>7, <3>8
  <2> QED
    BY <2>5, <2>6, <2>7
<1>12. ASSUME w_buf = <<>>, Greeted'
       PROVE  /\ \E end \in Nat : Trace(stream', taken', end)
              /\ ~cut' => Trace(stream', taken', Len(stream'))
  <2>1. buf = e
    BY <1>2, <1>12 DEF buf
  <2>2. Greeted
    <3>1. Len(more) > 0 => more[1] \notin {32, 86, 50}
      BY <1>1, <1>2, <2>1
    <3>2. Held(stream \o more, 0, VERSION)
      BY <1>3, <1>10, <1>12
    <3>3. Held(stream, 0, VERSION)
      BY <1>1, <1>6, <3>1, <3>2, NeverGreetedLater
    <3> QED
      BY <1>6, <3>3, GreetedHeld DEF Greeted
  <2>3. PICK end \in Nat : Trace(stream, taken, end)
    BY <2>2 DEF Traced
  <2>4. Trace(stream', taken, end)
    BY <1>1, <1>3, <1>6, <1>7, <2>3, TraceMore
  <2>5. CASE n = Len(buf) /\ ~cut
    <3>1. Trace(stream, taken, Len(stream))
      BY <2>2, <2>5 DEF Traced
    <3>2. Trace(stream \o e, Append(taken, c), Len(stream \o e))
      BY <1>1, <1>6, <1>7, <3>1, TraceTaken DEF e
    <3>3. stream' = stream \o e /\ taken' = Append(taken, c)
      BY <1>3, <1>4, <2>1, <2>5 DEF more
    <3>4. Trace(stream', taken', Len(stream'))
      BY <3>2, <3>3
    <3>5. Len(stream') \in Nat
      BY <1>6
    <3> QED
      BY <3>4, <3>5
  <2>6. CASE ~(n = Len(buf) /\ ~cut)
    <3>1. taken' = taken
      BY <1>3, <2>6
    <3>2. ASSUME ~cut' PROVE Trace(stream', taken', Len(stream'))
      <4>1. ~cut /\ n = 0
        BY <1>3, <2>6, <3>2
      <4>2. stream' = stream
        BY <1>1, <1>3, <1>6, <4>1
      <4>3. Trace(stream, taken, Len(stream))
        BY <2>2, <4>1 DEF Traced
      <4> QED
        BY <3>1, <4>2, <4>3
    <3> QED
      BY <2>4, <3>1, <3>2
  <2> QED
    BY <2>5, <2>6
<1> QED
  BY <1>3, <1>6, <1>8, <1>9, <1>11, <1>12 DEF Traced

\* It stays so: VERSION comes first, and each command taken behind the one before.
LEMMA AlwaysTraced == Spec => []Traced
<1>1. Init => Traced
  <2> SUFFICES ASSUME Init PROVE Traced
    OBVIOUS
  <2>1. w_buf = VERSION /\ stream = <<>> /\ taken = <<>>
    BY DEF Init
  <2>2. ~Greeted
    <3>1. stream \in Seq(Byte)
      BY <2>1
    <3>2. Greeted <=> Held(stream, 0, VERSION)
      BY <3>1, GreetedHeld DEF Greeted
    <3>3. Len(VERSION) > 0 /\ Len(VERSION) \in Nat /\ Len(stream) = 0
      BY <2>1 DEF VERSION
    <3>4. ~(0 + Len(VERSION) <= Len(stream))
      BY <3>3
    <3> QED
      BY <3>2, <3>4 DEF Held
  <2>3. 1..Len(taken) = {}
    BY <2>1
  <2> QED
    BY <2>1, <2>2, <2>3 DEF Traced
<1>2. TypeOK /\ TypeOK' /\ Traced /\ [Next]_vars => Traced'
  <2> SUFFICES ASSUME TypeOK, TypeOK', Traced, [Next]_vars PROVE Traced'
    OBVIOUS
  <2>1. ASSUME NEW c \in Cmds, NEW n \in 0..(Len(w_buf) + Len(Encoded(c))), WriteCmd(c, n)
        PROVE  Traced'
    BY <2>1, WriteKeeps
  <2>2. ASSUME UNCHANGED <<w_buf, written, taken, cut, stream>> PROVE Traced'
    <3>1. (Greeted' <=> Greeted) /\ \A end : Trace(stream, taken, end)' <=> Trace(stream, taken, end)
      BY <2>2 DEF Greeted, Trace
    <3> QED
      BY <2>2, <3>1 DEF Traced
  <2>3. ASSUME NEW m \in Messages, ReadMsg(m) PROVE Traced'
    BY <2>2, <2>3 DEF ReadMsg
  <2>4. CASE UNCHANGED vars
    BY <2>2, <2>4 DEF vars
  <2> QED
    BY <2>1, <2>3, <2>4 DEF Next
<1> QED
  BY <1>1, <1>2, TypeCorrect, PTL DEF Spec

\* What was taken is sound where all that was written is.
LEMMA TakenSound ==
    ASSUME TypeOK, Traced, AllSound
    PROVE  /\ taken \in Seq(Command) /\ stream \in Seq(Byte)
           /\ \A k \in 1..Len(taken) : Sound(taken[k])
<1>1. taken \in Seq(Command) /\ stream \in Seq(Byte)
  <2>1. taken \in Seq(Cmds) /\ stream \in Seq(Byte)
    BY DEF TypeOK
  <2> QED
    BY <2>1, CodecAssumption
<1>2. DOMAIN written = 1..Len(written)
  BY DEF TypeOK
<1>3. ASSUME NEW k \in 1..Len(taken) PROVE Sound(taken[k])
  <2>1. PICK j \in 1..Len(written) : written[j] = taken[k]
    BY DEF Traced
  <2>2. Sound(written[j])
    BY <1>2, <2>1 DEF AllSound
  <2> QED
    BY <2>1, <2>2
<1> QED
  BY <1>1, <1>3

\* As long as each write (Conn::write_cmd, write_tcp) is taken as a whole or not
\* at all, nsqd executes exactly the commands that were taken, each with its
\* bodies, whatever their number and their bytes.
THEOREM Synchronous == Spec => []InSync
<1>1. TypeOK /\ Traced => InSync
  <2> SUFFICES ASSUME TypeOK, Traced, Greeted, AllSound, ~cut
               PROVE  Parsed(stream).is = "end" /\ Parsed(stream).cmds = taken
    BY DEF InSync
  <2>1. Trace(stream, taken, Len(stream))
    BY DEF Traced
  <2> QED
    BY <2>1, TakenSound, WholeParsed
<1> QED
  BY <1>1, TypeCorrect, AlwaysTraced, PTL

\* A write that write_tcp leaves incomplete damages no command before it.
THEOREM CutLater == Spec => []CutHurtsLater
<1>1. TypeOK /\ Traced => CutHurtsLater
  <2> SUFFICES ASSUME TypeOK, Traced, Greeted, AllSound, cut
               PROVE  IsPrefix(taken, Parsed(stream).cmds)
    BY DEF CutHurtsLater
  <2>1. PICK end \in Nat : Trace(stream, taken, end)
    BY DEF Traced
  <2> QED
    BY <2>1, TakenSound, PartParsed
<1> QED
  BY <1>1, TypeCorrect, AlwaysTraced, PTL

\* on_msg gets the fields of the message nsqd sent (decode_msg, Client::spawn),
\* whatever they are.
THEOREM Faithful == Spec => []MessageFaithful
<1>1. Init => MessageFaithful
  BY DEF Init, MessageFaithful
<1>2. MessageFaithful /\ [Next]_vars => MessageFaithful'
  <2> SUFFICES ASSUME MessageFaithful, [Next]_vars PROVE MessageFaithful'
    OBVIOUS
  <2>1. ASSUME NEW c \in Cmds, NEW n \in 0..(Len(w_buf) + Len(Encoded(c))), WriteCmd(c, n)
        PROVE  MessageFaithful'
    BY <2>1 DEF WriteCmd, MessageFaithful
  <2>2. ASSUME NEW m \in Messages, ReadMsg(m) PROVE MessageFaithful'
    <3>1. decode_msg(Payload(m)) = m
      BY CodecAssumption, DecodesPayload
    <3>2. message' = <<m>> /\ handed' = <<decode_msg(Payload(m))>>
      BY <2>2 DEF ReadMsg
    <3> QED
      BY <3>1, <3>2 DEF MessageFaithful
  <2>3. CASE UNCHANGED vars
    BY <2>3 DEF vars, MessageFaithful
  <2> QED
    BY <2>1, <2>2, <2>3 DEF Next
<1> QED
  BY <1>1, <1>2, PTL DEF Spec
=============================================================================
