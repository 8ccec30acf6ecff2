----------------------------- MODULE Induction -----------------------------
(***************************************************************************)
(* Induction over the natural numbers as a fact about sets of them, which  *)
(* needs no operator as a parameter, and what the other proof modules use  *)
(* of counting in sequences.                                               *)
(***************************************************************************)
EXTENDS Integers, Sequences, FiniteSets, FiniteSetTheorems, TLAPS

\* A set of numbers that holds 0 and with every number the next one holds all.
THEOREM SetInduction ==
    ASSUME NEW T \in SUBSET Nat, 0 \in T, \A n \in T : n + 1 \in T
    PROVE  T = Nat
<1> DEFINE U == Nat \ T
           Less == {ss \in Nat \X Nat : ss[1] < ss[2]}
<1>1. IsWellFoundedOn(Less, Nat)
  BY NatLessThanWellFounded DEF OpToRel
<1>2. SUFFICES ASSUME U # {} PROVE FALSE
  OBVIOUS
<1>3. PICK x \in U : \A y \in U : ~ (<<y, x>> \in Less)
  <2> HIDE DEF Less
  <2> QED
    BY <1>1, <1>2, WFMin
<1>4. x \in Nat /\ x # 0 /\ x - 1 \in Nat
  OBVIOUS
<1>5. x - 1 \notin U
  <2>1. <<x - 1, x>> \in Less
    BY <1>4
  <2> QED
    BY <2>1, <1>3
<1>6. x \in T
  BY <1>4, <1>5
<1> QED
  BY <1>6

\* The same up to a bound.
THEOREM BoundedInduction ==
    ASSUME NEW m \in Nat, NEW T, 0 \in T, \A n \in 0..(m - 1) : n \in T => n + 1 \in T
    PROVE  \A n \in 0..m : n \in T
<1> DEFINE U == {n \in Nat : n <= m => n \in T}
<1>1. 0 \in U
  OBVIOUS
<1>2. ASSUME NEW n \in U PROVE n + 1 \in U
  BY <1>2
<1>3. U = Nat
  <2> HIDE DEF U
  <2>1. U \in SUBSET Nat
    BY DEF U
  <2> QED
    BY <1>1, <1>2, <2>1, SetInduction
<1> QED
  BY <1>3

-----------------------------------------------------------------------------
(* Recursion *)

\* The functions that start with a and take the steps F.
Iterates(n, A, a, F) == {g \in [0..n -> A] : g[0] = a /\ \A i \in 1..n : g[i] = F[i][g[i - 1]]}

\* There is one, if the start is in A and the steps stay there.
THEOREM Recursion ==
    ASSUME NEW n \in Nat, NEW A, NEW a \in A, NEW F \in [1..n -> [A -> A]]
    PROVE  Iterates(n, A, a, F) # {}
<1> DEFINE G(m) == {g \in [0..m -> A] : g[0] = a /\ \A i \in 1..m : g[i] = F[i][g[i - 1]]}
           T == {m \in 0..n : G(m) # {}}
<1>1. 0 \in T
  <2>1. [i \in 0..0 |-> a] \in G(0)
    OBVIOUS
  <2> QED
    BY <2>1
<1>2. ASSUME NEW m \in 0..(n - 1), m \in T PROVE m + 1 \in T
  <2>1. PICK g : g \in G(m)
    BY <1>2
  <2>2. m \in Nat /\ m + 1 \in 1..n /\ m + 1 \in 0..n /\ g[m] \in A
    BY <2>1
  <2> DEFINE last == F[m + 1][g[m]]
             h == [i \in 0..(m + 1) |-> IF i = m + 1 THEN last ELSE g[i]]
  <2>3. last \in A
    <3>1. F[m + 1] \in [A -> A]
      BY <2>2
    <3> QED
      BY <2>2, <3>1
  <2>4. h \in [0..(m + 1) -> A] /\ h[0] = a
    <3> HIDE DEF last
    <3> QED
      BY <2>1, <2>2, <2>3
  <2>5. ASSUME NEW i \in 1..(m + 1) PROVE h[i] = F[i][h[i - 1]]
    <3>1. CASE i = m + 1
      <4>1. i \in 0..(m + 1) /\ i - 1 \in 0..(m + 1) /\ i - 1 = m /\ i - 1 # m + 1
        BY <3>1, <2>2
      <4>2. h[i] = last /\ h[i - 1] = g[m]
        <5> HIDE DEF last
        <5> QED
          BY <3>1, <4>1
      <4> QED
        BY <3>1, <4>2
    <3>2. CASE i # m + 1
      <4>1. i \in 1..m /\ i \in 0..(m + 1) /\ i - 1 \in 0..(m + 1) /\ i - 1 # m + 1
        BY <3>2, <2>2
      <4>2. h[i] = g[i] /\ h[i - 1] = g[i - 1]
        <5> HIDE DEF last
        <5> QED
          BY <3>2, <4>1
      <4> QED
        BY <4>1, <4>2, <2>1
    <3> QED
      BY <3>1, <3>2
  <2>6. h \in G(m + 1)
    <3> HIDE DEF h
    <3> QED
      BY <2>4, <2>5
  <2> QED
    BY <2>2, <2>6
<1>3. \A m \in 0..n : m \in T
  <2> HIDE DEF T
  <2> QED
    BY <1>1, <1>2, BoundedInduction
<1>4. n \in T
  <2> HIDE DEF T
  <2> QED
    BY <1>3
<1> QED
  BY <1>4 DEF Iterates

-----------------------------------------------------------------------------
(* Parts of sequences *)

\* The first n and the others.
LEMMA Split ==
    ASSUME NEW S, NEW s \in Seq(S), NEW n \in 0..Len(s)
    PROVE  /\ SubSeq(s, 1, n) \in Seq(S) /\ Len(SubSeq(s, 1, n)) = n
           /\ \A i \in 1..n : SubSeq(s, 1, n)[i] = s[i]
           /\ SubSeq(s, n + 1, Len(s)) \in Seq(S)
           /\ Len(SubSeq(s, n + 1, Len(s))) = Len(s) - n
           /\ \A i \in 1..(Len(s) - n) : SubSeq(s, n + 1, Len(s))[i] = s[n + i]
OBVIOUS

\* Two sequences one after the other.
LEMMA Joined ==
    ASSUME NEW S, NEW s \in Seq(S), NEW t \in Seq(S)
    PROVE  /\ s \o t \in Seq(S) /\ Len(s \o t) = Len(s) + Len(t)
           /\ \A i \in 1..Len(s) : (s \o t)[i] = s[i]
           /\ \A i \in 1..Len(t) : (s \o t)[Len(s) + i] = t[i]
OBVIOUS

\* Sequences with the same members are the same.
LEMMA SameSequence ==
    ASSUME NEW S, NEW s \in Seq(S), NEW t \in Seq(S), Len(s) = Len(t),
           \A i \in 1..Len(s) : s[i] = t[i]
    PROVE  s = t
OBVIOUS

\* Members m to n.
LEMMA Middle ==
    ASSUME NEW S, NEW s \in Seq(S), NEW m \in 1..(Len(s) + 1), NEW n \in (m - 1)..Len(s)
    PROVE  /\ SubSeq(s, m, n) \in Seq(S) /\ Len(SubSeq(s, m, n)) = (n - m) + 1
           /\ \A i \in 1..((n - m) + 1) : SubSeq(s, m, n)[i] = s[(m + i) - 1]
OBVIOUS

-----------------------------------------------------------------------------
(* Sets of positions of a sequence *)

\* They are finite, and count no more than the sequence has.
LEMMA Positions ==
    ASSUME NEW n \in Nat, NEW A \in SUBSET (1..n)
    PROVE  /\ IsFiniteSet(A) /\ Cardinality(A) \in Nat /\ Cardinality(A) <= n
           /\ Cardinality(A) = 0 <=> A = {}
<1>1. IsFiniteSet(1..n) /\ Cardinality(1..n) = n
  BY FS_Interval
<1>2. IsFiniteSet(A) /\ Cardinality(A) <= n
  BY <1>1, FS_Subset
<1> QED
  BY <1>2, FS_CardinalityType, FS_EmptySet

Shifted(m, B) == {m + i : i \in B}

\* Those of two sequences one after the other.
LEMMA ShiftedPositions ==
    ASSUME NEW m \in Nat, NEW n \in Nat,
           NEW A \in SUBSET (1..m), NEW B \in SUBSET (1..n)
    PROVE  Cardinality(A \cup Shifted(m, B)) = Cardinality(A) + Cardinality(B)
<1> DEFINE C == Shifted(m, B)
           f == [i \in B |-> m + i]
<1>1. IsFiniteSet(A) /\ IsFiniteSet(B) /\ Cardinality(A) \in Nat /\ Cardinality(B) \in Nat
  BY Positions
<1>2. f \in Bijection(B, C)
  BY DEF Bijection, Injection, Surjection, IsInjective, Shifted
<1>3. IsFiniteSet(C) /\ Cardinality(C) = Cardinality(B)
  <2>1. ExistsBijection(B, C)
    BY <1>2 DEF ExistsBijection
  <2> QED
    BY <1>1, <2>1, FS_Bijection
<1>4. A \cap C = {}
  BY DEF Shifted
<1>5. Cardinality(A \cup C) = Cardinality(A) + Cardinality(C) - 0
  BY <1>1, <1>3, <1>4, FS_Union, FS_EmptySet
<1> QED
  BY <1>1, <1>3, <1>5

\* A set of positions without two members counts at most one.
LEMMA OnePosition ==
    ASSUME NEW n \in Nat, NEW A \in SUBSET (1..n), \A i, j \in A : i = j
    PROVE  Cardinality(A) <= 1
<1>1. CASE A = {}
  BY <1>1, FS_EmptySet
<1>2. CASE A # {}
  <2>1. PICK i \in A : A = {i}
    BY <1>2
  <2> QED
    BY <2>1, FS_Singleton
<1> QED
  BY <1>1, <1>2

-----------------------------------------------------------------------------
(* How many members of a sequence are of a kind *)

Many(s, X) == Cardinality({i \in 1..Len(s) : s[i] \in X})

\* A number, and none if there is none.
LEMMA ManyType ==
    ASSUME NEW S, NEW s \in Seq(S), NEW X
    PROVE  /\ Many(s, X) \in Nat /\ Many(s, X) <= Len(s)
           /\ Many(s, X) = 0 <=> \A i \in 1..Len(s) : s[i] \notin X
<1>1. {i \in 1..Len(s) : s[i] \in X} \in SUBSET (1..Len(s)) /\ Len(s) \in Nat
  OBVIOUS
<1> QED
  BY <1>1, Positions DEF Many

\* If all are, as many as there are.
LEMMA ManyAll ==
    ASSUME NEW S, NEW s \in Seq(S), NEW X, \A i \in 1..Len(s) : s[i] \in X
    PROVE  Many(s, X) = Len(s)
<1>1. {i \in 1..Len(s) : s[i] \in X} = 1..Len(s) /\ Len(s) \in Nat
  OBVIOUS
<1>2. \A n \in Nat : Cardinality(1..n) = n
  BY FS_Interval
<1>3. Cardinality(1..Len(s)) = Len(s)
  BY <1>1, <1>2
<1> QED
  BY <1>1, <1>3 DEF Many

\* In two sequences one after the other.
LEMMA ManyJoined ==
    ASSUME NEW S, NEW s \in Seq(S), NEW t \in Seq(S), NEW X
    PROVE  Many(s \o t, X) = Many(s, X) + Many(t, X)
<1> DEFINE A == {i \in 1..Len(s) : s[i] \in X}
           B == {i \in 1..Len(t) : t[i] \in X}
           C == {i \in 1..Len(s \o t) : (s \o t)[i] \in X}
<1>1. Len(s) \in Nat /\ Len(t) \in Nat /\ A \in SUBSET (1..Len(s)) /\ B \in SUBSET (1..Len(t))
  OBVIOUS
<1>2. /\ Len(s \o t) = Len(s) + Len(t)
      /\ \A i \in 1..Len(s) : (s \o t)[i] = s[i]
      /\ \A i \in 1..Len(t) : (s \o t)[Len(s) + i] = t[i]
  BY Joined
<1>3. ASSUME NEW k PROVE k \in C <=> k \in A \/ \E i \in B : k = Len(s) + i
  <2>1. ASSUME k \in C PROVE k \in A \/ \E i \in B : k = Len(s) + i
    <3>1. k \in 1..(Len(s) + Len(t)) /\ (s \o t)[k] \in X
      BY <1>2, <2>1
    <3>2. CASE k \in 1..Len(s)
      BY <1>2, <3>1, <3>2
    <3>3. CASE k \notin 1..Len(s)
      <4>1. k - Len(s) \in 1..Len(t) /\ Len(s) + (k - Len(s)) = k
        BY <1>1, <3>1, <3>3
      <4>2. t[k - Len(s)] = (s \o t)[Len(s) + (k - Len(s))]
        BY <1>2, <4>1
      <4>3. k - Len(s) \in B
        BY <3>1, <4>1, <4>2
      <4> QED
        BY <4>1, <4>3
    <3> QED
      BY <3>2, <3>3
  <2>2. ASSUME k \in A PROVE k \in C
    BY <1>1, <1>2, <2>2
  <2>3. ASSUME NEW i \in B, k = Len(s) + i PROVE k \in C
    BY <1>1, <1>2, <2>3
  <2> QED
    BY <2>1, <2>2, <2>3
<1>5. Cardinality(C) = Cardinality(A) + Cardinality(B)
  <2>1. C = A \cup Shifted(Len(s), B)
    <3> HIDE DEF A, B, C
    <3> QED
      BY <1>3 DEF Shifted
  <2> HIDE DEF A, B, C
  <2> QED
    <3>1. Cardinality(A \cup Shifted(Len(s), B)) = Cardinality(A) + Cardinality(B)
      BY <1>1, ShiftedPositions, ZenonT(60)
    <3> QED
      BY <2>1, <3>1
<1> QED
  BY <1>5 DEF Many

\* In one more, and in none.
LEMMA ManyOne ==
    ASSUME NEW x, NEW X
    PROVE  Many(<<x>>, X) = (IF x \in X THEN 1 ELSE 0) /\ Many(<<>>, X) = 0
<1>1. {i \in 1..Len(<<>>) : <<>>[i] \in X} = {}
  OBVIOUS
<1>2. Len(<<x>>) = 1 /\ <<x>>[1] = x /\ 1..1 = {1}
  OBVIOUS
<1>3. CASE x \in X
  <2>1. {i \in 1..Len(<<x>>) : <<x>>[i] \in X} = {1}
    BY <1>2, <1>3
  <2> QED
    BY <1>1, <1>3, <2>1, FS_Singleton, FS_EmptySet DEF Many
<1>4. CASE x \notin X
  <2>1. {i \in 1..Len(<<x>>) : <<x>>[i] \in X} = {}
    BY <1>2, <1>4
  <2> QED
    BY <1>1, <1>4, <2>1, FS_EmptySet DEF Many
<1> QED
  BY <1>3, <1>4

\* In a sequence with one more at its end.
LEMMA ManyAppended ==
    ASSUME NEW S, NEW s \in Seq(S), NEW x \in S, NEW X
    PROVE  Many(Append(s, x), X) = Many(s, X) + (IF x \in X THEN 1 ELSE 0)
<1>1. Append(s, x) = s \o <<x>> /\ <<x>> \in Seq(S)
  OBVIOUS
<1>2. Many(s \o <<x>>, X) = Many(s, X) + Many(<<x>>, X)
  BY <1>1, ManyJoined
<1> QED
  BY <1>1, <1>2, ManyOne

\* In the first n and in the others.
LEMMA ManySplit ==
    ASSUME NEW S, NEW s \in Seq(S), NEW n \in 0..Len(s), NEW X
    PROVE  Many(s, X) = Many(SubSeq(s, 1, n), X) + Many(SubSeq(s, n + 1, Len(s)), X)
<1> DEFINE a == SubSeq(s, 1, n)
           b == SubSeq(s, n + 1, Len(s))
<1>1. /\ a \in Seq(S) /\ Len(a) = n /\ \A i \in 1..n : a[i] = s[i]
      /\ b \in Seq(S) /\ Len(b) = Len(s) - n
      /\ \A i \in 1..(Len(s) - n) : b[i] = s[n + i]
  BY Split
<1> HIDE DEF a, b
<1>2. /\ a \o b \in Seq(S) /\ Len(a \o b) = Len(a) + Len(b)
      /\ \A i \in 1..Len(a) : (a \o b)[i] = a[i]
      /\ \A i \in 1..Len(b) : (a \o b)[Len(a) + i] = b[i]
  <2>1. a \in Seq(S) /\ b \in Seq(S)
    BY <1>1
  <2> QED
    BY <2>1, Joined
<1>3. ASSUME NEW i \in 1..Len(s) PROVE (a \o b)[i] = s[i]
  <2>1. CASE i \in 1..n
    BY <1>1, <1>2, <2>1
  <2>2. CASE i \notin 1..n
    <3>1. i - n \in 1..(Len(s) - n) /\ n + (i - n) = i
      BY <2>2
    <3>2. (a \o b)[n + (i - n)] = b[i - n] /\ b[i - n] = s[n + (i - n)]
      BY <1>1, <1>2, <3>1
    <3> QED
      BY <3>1, <3>2
  <2> QED
    BY <2>1, <2>2
<1>4. Len(a \o b) = Len(s)
  BY <1>1, <1>2
<1>5. a \o b = s
  BY <1>2, <1>3, <1>4, SameSequence
<1>6. Many(a \o b, X) = Many(a, X) + Many(b, X)
  BY <1>1, ManyJoined
<1> QED
  BY <1>5, <1>6 DEF a, b

\* In the first n + 1.
LEMMA ManyNext ==
    ASSUME NEW S, NEW s \in Seq(S), NEW n \in 0..(Len(s) - 1), NEW X
    PROVE  Many(SubSeq(s, 1, n + 1), X)
             = Many(SubSeq(s, 1, n), X) + (IF s[n + 1] \in X THEN 1 ELSE 0)
<1>1. n \in 0..Len(s) /\ n + 1 \in 0..Len(s) /\ s[n + 1] \in S /\ n \in Nat
  OBVIOUS
<1> DEFINE a == SubSeq(s, 1, n)
           b == SubSeq(s, 1, n + 1)
<1>2. /\ a \in Seq(S) /\ Len(a) = n /\ \A i \in 1..n : a[i] = s[i]
      /\ b \in Seq(S) /\ Len(b) = n + 1 /\ \A i \in 1..(n + 1) : b[i] = s[i]
  BY <1>1, Split
<1> HIDE DEF a, b
<1>3. b = Append(a, s[n + 1])
  <2>1. /\ Append(a, s[n + 1]) \in Seq(S) /\ Len(Append(a, s[n + 1])) = n + 1
        /\ \A i \in 1..n : Append(a, s[n + 1])[i] = a[i]
        /\ Append(a, s[n + 1])[n + 1] = s[n + 1]
    BY <1>1, <1>2
  <2>2. \A i \in 1..(n + 1) : i \in 1..n \/ i = n + 1
    BY <1>1
  <2>3. \A i \in 1..(n + 1) : b[i] = Append(a, s[n + 1])[i]
    BY <1>1, <1>2, <2>1, <2>2
  <2> QED
    BY <1>2, <2>1, <2>3, SameSequence
<1>4. a \in Seq(S) /\ s[n + 1] \in S
  BY <1>1, <1>2
<1>5. Many(b, X) = Many(a, X) + (IF s[n + 1] \in X THEN 1 ELSE 0)
  BY <1>3, <1>4, ManyAppended
<1> QED
  BY <1>5 DEF a, b
=============================================================================
