----------------------------- MODULE FrameProofs -----------------------------
(***************************************************************************)
(* What both streams rest on, for every length and content: the checksum   *)
(* object absorbs each byte once and in its place and has the same digest  *)
(* however its input was cut (XxHash), and a wire decodes to what its      *)
(* parts do, one after the other (FrameFormat).                            *)
(*                                                                         *)
(* HashOf relates the object to all that was put into it.  It is an        *)
(* invariant of every user of the object, by UpdatedHolds.                 *)
(***************************************************************************)
EXTENDS FrameFormat, FiniteSetTheorems, WellFoundedInduction,
        SequenceTheorems, TLAPS

----------------------------------------------------------------------------
(* Induction.  The library's theorem takes an operator as its parameter,   *)
(* which no prover here can instantiate; this one takes the set of the     *)
(* numbers for which the claim holds.                                      *)

\* Naturals have a least element: the order of 0..n by inclusion is well-founded.
LEMMA LeastNatural ==
  ASSUME NEW T, T \subseteq Nat, T # {}
  PROVE  \E n \in T : \A m \in T : n <= m
<1> DEFINE Below == {0..n : n \in T}
<1>1. IsWellFoundedOn(StrictSubsetOrdering(Nat), FiniteSubsetsOf(Nat))
  BY FS_StrictSubsetOrderingWellFounded
<1>2. Below \subseteq FiniteSubsetsOf(Nat)
  <2>1. ASSUME NEW n \in T PROVE 0..n \in FiniteSubsetsOf(Nat)
    <3>1. IsFiniteSet(0..n) BY FS_Interval
    <3>2. 0..n \in SUBSET Nat OBVIOUS
    <3> QED BY <3>1, <3>2 DEF FiniteSubsetsOf
  <2> QED BY <2>1
<1>3. Below # {} OBVIOUS
<1>4. \E x \in Below : \A y \in Below : ~ (<<y, x>> \in StrictSubsetOrdering(Nat))
  <2> HIDE DEF Below
  <2> QED BY <1>1, <1>2, <1>3, WFMin
<1>5. PICK n \in T : \A y \in Below : ~ (<<y, 0..n>> \in StrictSubsetOrdering(Nat))
  BY <1>4
<1>6. ASSUME NEW m \in T PROVE n <= m
  <2>1. ~ (<<0..m, 0..n>> \in StrictSubsetOrdering(Nat)) BY <1>5
  <2>2. SUFFICES ASSUME m < n PROVE FALSE OBVIOUS
  <2>3. 0..m \subseteq 0..n /\ 0..m # 0..n
     <3>1. n \in 0..n /\ n \notin 0..m BY <2>2
     <3> QED BY <3>1, <2>2
  <2>4. 0..m \in SUBSET Nat /\ 0..n \in SUBSET Nat OBVIOUS
  <2> QED BY <2>1, <2>3, <2>4 DEF StrictSubsetOrdering
<1> QED BY <1>6

\* Induction over the naturals, for a set in place of a predicate.
LEMMA Induction ==
  ASSUME NEW T, 0 \in T, \A n \in Nat : n \in T => n + 1 \in T
  PROVE  \A n \in Nat : n \in T
<1> SUFFICES ASSUME NEW n \in Nat, n \notin T PROVE FALSE OBVIOUS
<1> DEFINE Out == {m \in Nat : m \notin T}
<1>1. PICK m \in Out : \A k \in Out : m <= k
  <2>1. Out \subseteq Nat /\ Out # {} OBVIOUS
  <2> HIDE DEF Out
  <2> QED BY <2>1, LeastNatural
<1>2. m \in Nat /\ m \notin T OBVIOUS
<1>3. m - 1 \in Nat BY <1>2
<1>4. m - 1 \in T BY <1>1, <1>3
<1> QED BY <1>2, <1>3, <1>4

----------------------------------------------------------------------------
\* j joins the first n parts of p, one by one.
JoinsUpTo(j, p, n) ==
  j = [i \in 0..n |-> IF i = 0 THEN <<>> ELSE j[i - 1] \o p[i]]

\* There is such a j for every n.
LEMMA JoinExists ==
  ASSUME NEW p
  PROVE  \A n \in Nat : \E j : JoinsUpTo(j, p, n)
<1> DEFINE T == {n \in Nat : \E j : JoinsUpTo(j, p, n)}
<1>1. 0 \in T
  <2> DEFINE j == [i \in 0..0 |-> <<>>]
  <2>1. JoinsUpTo(j, p, 0) BY DEF JoinsUpTo
  <2> QED BY <2>1
<1>2. ASSUME NEW n \in Nat, n \in T PROVE n + 1 \in T
  <2>1. PICK g : JoinsUpTo(g, p, n) BY <1>2
  <2> DEFINE j == [i \in 0..(n + 1) |-> IF i \in 0..n THEN g[i] ELSE g[n] \o p[n + 1]]
  <2>2. JoinsUpTo(j, p, n + 1)
    <3>1. ASSUME NEW i \in 0..(n + 1)
          PROVE  j[i] = IF i = 0 THEN <<>> ELSE j[i - 1] \o p[i]
      <4>1. CASE i = 0 BY <2>1, <4>1 DEF JoinsUpTo
      <4>2. CASE i \in 1..n
        <5>1. j[i] = g[i] /\ j[i - 1] = g[i - 1] BY <4>2
        <5>2. g[i] = g[i - 1] \o p[i]
          <6>1. i \in 0..n /\ i # 0 BY <4>2
          <6> QED BY <2>1, <6>1 DEF JoinsUpTo
        <5>3. i # 0 BY <4>2
        <5> HIDE DEF j
        <5> QED BY <5>1, <5>2, <5>3
      <4>3. CASE i = n + 1
        <5>1. j[i] = g[n] \o p[n + 1] /\ j[i - 1] = g[n] BY <4>3
        <5> QED BY <5>1, <4>3
      <4> QED BY <4>1, <4>2, <4>3
    <3> HIDE DEF j
    <3>2. j = [i \in 0..(n + 1) |-> j[i]] BY DEF j
    <3> QED BY <3>1, <3>2 DEF JoinsUpTo
  <2> QED BY <2>2
<1> HIDE DEF T
<1>3. \A n \in Nat : n \in T BY <1>1, <1>2, Induction
<1> QED BY <1>3 DEF T

\* The joined parts, up to each of them.
LEMMA JoinSteps ==
  ASSUME NEW p, NEW n \in Nat, NEW j, JoinsUpTo(j, p, n)
  PROVE  /\ j[0] = <<>>
         /\ \A i \in Nat : i < n => j[i + 1] = j[i] \o p[i + 1]
<1>1. j[0] = <<>> BY DEF JoinsUpTo
<1>2. ASSUME NEW i \in Nat, i < n PROVE j[i + 1] = j[i] \o p[i + 1]
  <2>1. i + 1 \in 0..n /\ i + 1 # 0 /\ i + 1 - 1 = i BY <1>2
  <2> QED BY <2>1 DEF JoinsUpTo
<1> QED BY <1>1, <1>2

\* It depends on the first n parts alone.
LEMMA JoinUnique ==
  ASSUME NEW p, NEW q, NEW n \in Nat, NEW m \in Nat, n <= m,
         \A i \in 1..n : p[i] = q[i],
         NEW g, JoinsUpTo(g, p, n), NEW h, JoinsUpTo(h, q, m)
  PROVE  g[n] = h[n]
<1> DEFINE T == {i \in Nat : i <= n => g[i] = h[i]}
<1>g. g[0] = <<>> /\ \A i \in Nat : i < n => g[i + 1] = g[i] \o p[i + 1] BY JoinSteps
<1>h. h[0] = <<>> /\ \A i \in Nat : i < m => h[i + 1] = h[i] \o q[i + 1] BY JoinSteps
<1>1. 0 \in T BY <1>g, <1>h
<1>2. ASSUME NEW i \in Nat, i \in T PROVE i + 1 \in T
  <2> SUFFICES ASSUME i + 1 <= n PROVE g[i + 1] = h[i + 1] OBVIOUS
  <2>1. g[i] = h[i] BY <1>2
  <2>0. i < n OBVIOUS
  <2>2. g[i + 1] = g[i] \o p[i + 1] BY <2>0, <1>g
  <2>3. i < m BY <1>2
  <2>5. h[i + 1] = h[i] \o q[i + 1] BY <2>3, <1>h
  <2>4. p[i + 1] = q[i + 1] BY <1>2
  <2> QED BY <2>1, <2>2, <2>5, <2>4
<1> HIDE DEF T
<1>3. \A i \in Nat : i \in T BY <1>1, <1>2, Induction
<1> QED BY <1>3 DEF T

\* Joined is what it ends with.
LEMMA JoinedBy ==
  ASSUME NEW p, Len(p) \in Nat
  PROVE  \E j : JoinsUpTo(j, p, Len(p)) /\ Joined(p) = j[Len(p)]
<1> DEFINE j == CHOOSE j : j = [i \in 0..Len(p) |-> IF i = 0 THEN <<>> ELSE j[i - 1] \o p[i]]
<1>1. \E g : g = [i \in 0..Len(p) |-> IF i = 0 THEN <<>> ELSE g[i - 1] \o p[i]]
  BY JoinExists DEF JoinsUpTo
<1>2. JoinsUpTo(j, p, Len(p)) BY <1>1 DEF JoinsUpTo
<1>3. Joined(p) = j[Len(p)] BY DEF Joined
<1> QED BY <1>2, <1>3

\* Nothing joined is nothing.
LEMMA JoinedEmpty == Joined(<<>>) = <<>>
<1>1. Len(<<>>) = 0 OBVIOUS
<1>2. PICK j : JoinsUpTo(j, <<>>, 0) /\ Joined(<<>>) = j[0] BY JoinedBy, <1>1
<1> QED BY <1>2 DEF JoinsUpTo

\* A part at the end is joined at the end.
LEMMA JoinedOneMore ==
  ASSUME NEW S, NEW p \in Seq(S), NEW x \in S
  PROVE  Joined(Append(p, x)) = Joined(p) \o x
<1> DEFINE q == Append(p, x)
           n == Len(p)
           m == n + 1
<1>1. /\ n \in Nat /\ m \in Nat /\ n < m /\ m = n + 1
      /\ q \in Seq(S) /\ Len(q) = m /\ q[m] = x /\ \A i \in 1..n : p[i] = q[i]
  OBVIOUS
<1>2. PICK g : JoinsUpTo(g, p, n) /\ Joined(p) = g[n] BY JoinedBy, <1>1
<1> HIDE DEF q, n, m
<1>3. PICK h : JoinsUpTo(h, q, m) /\ Joined(q) = h[m] BY JoinedBy, <1>1
<1>4. g[n] = h[n] BY JoinUnique, <1>1, <1>2, <1>3, SMTT(30)
<1>5. \A i \in Nat : i < m => h[i + 1] = h[i] \o q[i + 1] BY <1>1, <1>3, JoinSteps
<1>6. h[m] = h[n] \o q[m] BY <1>1, <1>5
<1>7. Joined(q) = Joined(p) \o x BY <1>1, <1>2, <1>3, <1>4, <1>6
<1> QED BY <1>7 DEF q

\* Joining sequences of elements of S gives one.
LEMMA JoinsTyped ==
  ASSUME NEW S, NEW p \in Seq(Seq(S)), NEW j, JoinsUpTo(j, p, Len(p))
  PROVE  \A i \in 0..Len(p) : j[i] \in Seq(S)
<1> DEFINE n == Len(p)
           T == {i \in Nat : i <= n => j[i] \in Seq(S)}
<1>0. n \in Nat OBVIOUS
<1>j. j[0] = <<>> /\ \A i \in Nat : i < n => j[i + 1] = j[i] \o p[i + 1]
  BY <1>0, JoinSteps
<1>1. 0 \in T
  <2>1. <<>> \in Seq(S) OBVIOUS
  <2> QED BY <2>1, <1>j
<1>2. ASSUME NEW i \in Nat, i \in T PROVE i + 1 \in T
  <2> SUFFICES ASSUME i + 1 <= n PROVE j[i + 1] \in Seq(S) OBVIOUS
  <2>0. i < n /\ i + 1 \in 1..n OBVIOUS
  <2>1. j[i] \in Seq(S) BY <1>2, <2>0
  <2>2. p[i + 1] \in Seq(S) BY <2>0
  <2>3. j[i + 1] = j[i] \o p[i + 1] BY <2>0, <1>j
  <2> QED BY <2>1, <2>2, <2>3
<1> HIDE DEF T
<1>3. \A i \in Nat : i \in T BY <1>1, <1>2, Induction
<1> QED BY <1>3 DEF T

\* Joined pieces of S are a sequence of S.
LEMMA JoinedTyped ==
  ASSUME NEW S, NEW p \in Seq(Seq(S))
  PROVE  Joined(p) \in Seq(S)
<1>1. Len(p) \in Nat OBVIOUS
<1>2. PICK j : JoinsUpTo(j, p, Len(p)) /\ Joined(p) = j[Len(p)] BY JoinedBy, <1>1
<1>3. \A i \in 0..Len(p) : j[i] \in Seq(S) BY <1>2, JoinsTyped
<1> QED BY <1>1, <1>2, <1>3

\* The community module's FlattenSeq and the model's own Joined agree.
THEOREM FlattenIsJoined ==
  ASSUME NEW S, NEW p \in Seq(Seq(S))
  PROVE  FlattenSeq(p) = Joined(p)
<1> DEFINE n == Len(p)
           F(f) == f = [i \in 1..n |-> IF i = 1 THEN p[i] ELSE f[i - 1] \o p[i]]
           flat == CHOOSE f : f = [i \in 1..n |-> IF i = 1 THEN p[i] ELSE f[i - 1] \o p[i]]
<1>1. n \in Nat OBVIOUS
<1>2. PICK j : JoinsUpTo(j, p, n) /\ Joined(p) = j[n] BY JoinedBy, <1>1
<1>3. CASE n = 0
  <2>1. p = <<>> BY <1>3
  <2>2. FlattenSeq(p) = <<>> BY <1>3, <2>1 DEF FlattenSeq
  <2> QED BY <2>1, <2>2, JoinedEmpty
<1>4. CASE n # 0
  <2>j. j[0] = <<>> /\ \A i \in Nat : i < n => j[i + 1] = j[i] \o p[i + 1]
    BY <1>1, <1>2, JoinSteps
  <2>t. \A i \in 0..n : j[i] \in Seq(S) BY <1>2, JoinsTyped
  <2> DEFINE g == [i \in 1..n |-> j[i]]
  <2>1. F(g)
    <3>1. ASSUME NEW i \in 1..n PROVE g[i] = IF i = 1 THEN p[i] ELSE g[i - 1] \o p[i]
      <4>0. i - 1 \in Nat /\ i - 1 < n /\ i - 1 + 1 = i BY <1>1
      <4>1. j[i] = j[i - 1] \o p[i] BY <2>j, <4>0
      <4>2. CASE i = 1
        <5>1. p[1] \in Seq(S) BY <4>2
        <5>2. i - 1 = 0 BY <4>2
        <5>3. j[1] = <<>> \o p[1] BY <4>1, <4>2, <5>2, <2>j
        <5>4. j[1] = p[1] BY <5>1, <5>3
        <5> QED BY <5>4, <4>2
      <4>3. CASE i # 1
        <5>1. i - 1 \in 1..n BY <4>3
        <5>2. g[i] = j[i] /\ g[i - 1] = j[i - 1] BY <5>1
        <5> HIDE DEF g
        <5> QED BY <4>1, <4>3, <5>2
      <4> QED BY <4>2, <4>3
    <3>2. g = [i \in 1..n |-> g[i]] OBVIOUS
    <3> HIDE DEF g
    <3> QED BY <3>1, <3>2
  <2>2. F(flat) BY <2>1
  <2> HIDE DEF flat
  <2> DEFINE T == {i \in Nat : i + 1 <= n => flat[i + 1] = j[i + 1]}
  <2>3. 0 \in T
    <3>0. 1 \in 1..n BY <1>1, <1>4
    <3>1. flat[1] = p[1] BY <2>2, <3>0
    <3>2. p[1] \in Seq(S) BY <3>0
    <3>4. 0 < n /\ 0 + 1 = 1 BY <1>1, <1>4
    <3>5. j[0 + 1] = j[0] \o p[0 + 1] BY <2>j, <3>4
    <3>3. j[1] = <<>> \o p[1] BY <3>4, <3>5, <2>j
    <3> QED BY <3>1, <3>2, <3>3
  <2>4. ASSUME NEW i \in Nat, i \in T PROVE i + 1 \in T
    <3> SUFFICES ASSUME i + 1 + 1 <= n PROVE flat[i + 1 + 1] = j[i + 1 + 1] OBVIOUS
    <3> DEFINE k == i + 1
    <3>0. k \in Nat /\ k + 1 \in 1..n /\ k < n /\ k + 1 # 1 /\ k + 1 - 1 = k OBVIOUS
    <3>1. flat[k] = j[k] BY <2>4, <3>0
    <3> HIDE DEF k
    <3>5. \A m \in 1..n : flat[m] = IF m = 1 THEN p[m] ELSE flat[m - 1] \o p[m] BY <2>2
    <3> DEFINE m == k + 1
    <3>6. m \in 1..n /\ m # 1 /\ m - 1 = k BY <3>0
    <3> HIDE DEF m
    <3>7. flat[m] = flat[m - 1] \o p[m] BY <3>5, <3>6
    <3>2. flat[k + 1] = flat[k] \o p[k + 1] BY <3>6, <3>7 DEF m
    <3>3. j[k + 1] = j[k] \o p[k + 1] BY <2>j, <3>0
    <3>4. flat[k + 1] = j[k + 1] BY <3>1, <3>2, <3>3
    <3> QED BY <3>4 DEF k
  <2> HIDE DEF T
  <2>5. \A i \in Nat : i \in T BY <2>3, <2>4, Induction
  <2>6. flat[n] = j[n]
    <3>1. n - 1 \in Nat /\ n - 1 + 1 <= n /\ n - 1 + 1 = n BY <1>1, <1>4
    <3>2. n - 1 \in T BY <2>5, <3>1
    <3> QED BY <3>1, <3>2 DEF T
  <2>7. FlattenSeq(p) = flat[n] BY <1>4 DEF FlattenSeq, flat
  <2> QED BY <1>2, <2>6, <2>7
<1> QED BY <1>3, <1>4

----------------------------------------------------------------------------
(* Sequences that are cut into pieces.                                     *)

\* Products of naturals, as the proofs about stripes need them.
LEMMA Multiples ==
  ASSUME NEW L \in Nat, NEW a \in Nat, NEW b \in Nat
  PROVE  /\ a * L \in Nat /\ (a + 1) * L = a * L + L
         /\ a <= b => a * L <= b * L
         /\ a < b => a * L + L <= b * L
<1>1. a * L \in Nat /\ (a + 1) * L = a * L + L OBVIOUS
<1>2. a <= b => a * L <= b * L
  <2> SUFFICES ASSUME a <= b PROVE a * L <= b * L OBVIOUS
  <2>1. PICK c \in Nat : b = a + c
    <3>1. b - a \in Nat /\ b = a + (b - a) OBVIOUS
    <3> QED BY <3>1
  <2>2. b * L = a * L + c * L BY <2>1
  <2>3. c * L \in Nat OBVIOUS
  <2> QED BY <2>2, <2>3
<1>3. a < b => a * L + L <= b * L
  <2> SUFFICES ASSUME a < b PROVE a * L + L <= b * L OBVIOUS
  <2>1. PICK c \in Nat : b = a + 1 + c
    <3>1. b - a - 1 \in Nat /\ b = a + 1 + (b - a - 1) OBVIOUS
    <3> QED BY <3>1
  <2>2. b * L = a * L + L + c * L BY <2>1
  <2>3. c * L \in Nat OBVIOUS
  <2> QED BY <2>2, <2>3
<1> QED BY <1>1, <1>2, <1>3

\* \div by its quotient and remainder.
LEMMA Division ==
  ASSUME NEW a \in Nat, NEW d \in Nat \ {0}
  PROVE  /\ a \div d \in Nat
         /\ (a \div d) * d <= a /\ a - (a \div d) * d < d
         /\ \A q \in Nat : q * d <= a /\ a - q * d < d => q = a \div d
<1>1. /\ a \div d \in Nat /\ (a \div d) * d <= a /\ a - (a \div d) * d < d
  OBVIOUS
<1>2. ASSUME NEW q \in Nat, q * d <= a, a - q * d < d PROVE q = a \div d
  <2> DEFINE r == a \div d
  <2>1. r \in Nat /\ r * d <= a /\ a - r * d < d BY <1>1
  <2> HIDE DEF r
  <2>2. q * d \in Nat /\ r * d \in Nat BY <2>1, Multiples
  <2>3. CASE q < r
    <3>1. q * d + d <= r * d BY <2>1, <2>3, Multiples
    <3> QED BY <3>1, <2>1, <2>2, <1>2
  <2>4. CASE r < q
    <3>1. r * d + d <= q * d BY <2>1, <2>4, Multiples
    <3> QED BY <3>1, <2>1, <2>2, <1>2
  <2>5. q = r BY <2>1, <2>3, <2>4
  <2> QED BY <2>5 DEF r
<1> QED BY <1>1, <1>2

\* One sequence behind another.
LEMMA Concatenated ==
  ASSUME NEW S, NEW s \in Seq(S), NEW u \in Seq(S)
  PROVE  /\ s \o u \in Seq(S) /\ Len(s \o u) = Len(s) + Len(u)
         /\ \A i \in 1..Len(s) : (s \o u)[i] = s[i]
         /\ \A i \in (Len(s) + 1)..(Len(s) + Len(u)) : (s \o u)[i] = u[i - Len(s)]
  OBVIOUS

\* A piece of a sequence.
LEMMA Pieces ==
  ASSUME NEW B, NEW s \in Seq(B), NEW a \in Nat, NEW b \in Nat, a <= b, b <= Len(s)
  PROVE  /\ SubSeq(s, a + 1, b) \in Seq(B)
         /\ Len(SubSeq(s, a + 1, b)) = b - a
         /\ \A i \in 1..(b - a) : SubSeq(s, a + 1, b)[i] = s[a + i]
<1>1. \A i \in (a + 1)..b : s[i] \in B
  <2>1. \A i \in (a + 1)..b : i \in 1..Len(s) OBVIOUS
  <2> QED BY <2>1, ElementOfSeq
<1>2. /\ SubSeq(s, a + 1, b) \in Seq(B)
      /\ Len(SubSeq(s, a + 1, b)) = IF a + 1 <= b THEN b - (a + 1) + 1 ELSE 0
      /\ \A i \in 1..(b - (a + 1) + 1) : SubSeq(s, a + 1, b)[i] = s[a + 1 + i - 1]
  BY <1>1, SubSeqProperties
<1> QED BY <1>2

\* A piece by its place and length.
LEMMA Piece ==
  ASSUME NEW B, NEW s \in Seq(B), NEW a \in Nat, NEW c \in Nat, a + c <= Len(s)
  PROVE  /\ SubSeq(s, a + 1, a + c) \in Seq(B)
         /\ Len(SubSeq(s, a + 1, a + c)) = c
         /\ \A i \in 1..c : SubSeq(s, a + 1, a + c)[i] = s[a + i]
<1> DEFINE b == a + c
<1>1. b \in Nat /\ a <= b /\ b <= Len(s) /\ b - a = c OBVIOUS
<1> HIDE DEF b
<1>2. /\ SubSeq(s, a + 1, b) \in Seq(B)
      /\ Len(SubSeq(s, a + 1, b)) = b - a
      /\ \A i \in 1..(b - a) : SubSeq(s, a + 1, b)[i] = s[a + i]
  BY <1>1, Pieces
<1>3. /\ SubSeq(s, a + 1, b) \in Seq(B)
      /\ Len(SubSeq(s, a + 1, b)) = c
      /\ \A i \in 1..c : SubSeq(s, a + 1, b)[i] = s[a + i]
  BY <1>1, <1>2
<1> QED BY <1>3 DEF b

\* The m pieces of L elements each that s has from o on.
Cut(s, o, L, m) == [k \in 1..m |-> SubSeq(s, o + (k - 1) * L + 1, o + k * L)]

\* Joined, the pieces are what they were cut from.
LEMMA CutJoined ==
  ASSUME NEW B, NEW s \in Seq(B), NEW L \in Nat, NEW o \in Nat
  PROVE  \A m \in Nat :
           o + m * L <= Len(s) =>
             /\ Cut(s, o, L, m) \in Seq(Seq(B))
             /\ Joined(Cut(s, o, L, m)) = SubSeq(s, o + 1, o + m * L)
<1> DEFINE x(k) == SubSeq(s, o + (k - 1) * L + 1, o + k * L)
           P(m) == [k \in 1..m |-> x(k)]
           Q(m) == P(m) \in Seq(Seq(B)) /\ Joined(P(m)) = SubSeq(s, o + 1, o + m * L)
           T == {m \in Nat : o + m * L <= Len(s) => Q(m)}
<1>1. 0 \in T
  <2>1. P(0) = <<>> OBVIOUS
  <2>2. SubSeq(s, o + 1, o + 0 * L) = <<>> BY SubSeqEmpty
  <2>3. <<>> \in Seq(Seq(B)) OBVIOUS
  <2> QED BY <2>1, <2>2, <2>3, JoinedEmpty
<1>2. ASSUME NEW m \in Nat, m \in T PROVE m + 1 \in T
  <2> SUFFICES ASSUME o + (m + 1) * L <= Len(s)
               PROVE  Q(m + 1)
    <3> HIDE DEF Q
    <3> QED OBVIOUS
  <2>1. m * L \in Nat /\ (m + 1) * L = m * L + L BY Multiples
  <2>2. P(m) \in Seq(Seq(B)) /\ Joined(P(m)) = SubSeq(s, o + 1, o + m * L)
    <3>1. o + m * L <= Len(s) BY <2>1
    <3>2. Q(m)
      <4> HIDE DEF Q
      <4> QED BY <1>2, <3>1
    <3> QED BY <3>2
  <2>3. x(m + 1) = SubSeq(s, o + m * L + 1, o + (m + 1) * L) OBVIOUS
  <2>4. x(m + 1) \in Seq(B) BY <2>1, <2>3, Pieces
  <2>5. P(m + 1) = Append(P(m), x(m + 1))
    <3>1. Len(P(m)) = m /\ \A k \in 1..m : P(m)[k] = x(k) OBVIOUS
    <3>2. DOMAIN P(m + 1) = 1..(m + 1) /\ \A k \in 1..(m + 1) : P(m + 1)[k] = x(k) OBVIOUS
    <3> DEFINE q == P(m)
               y == x(m + 1)
               a == Append(q, y)
    <3>3. a \in Seq(Seq(B)) /\ Len(a) = m + 1 /\ a[m + 1] = y /\ \A k \in 1..m : a[k] = q[k]
      <4> HIDE DEF q, y
      <4>1. q \in Seq(Seq(B)) /\ y \in Seq(B) /\ Len(q) = m BY <2>2, <2>4, <3>1 DEF q, y
      <4> QED BY <4>1
    <3>4. ASSUME NEW k \in 1..(m + 1) PROVE a[k] = x(k)
      <4> HIDE DEF a, y, q
      <4>1. CASE k = m + 1 BY <3>3, <4>1 DEF y
      <4>2. CASE k \in 1..m BY <3>1, <3>3, <4>2 DEF q
      <4> QED BY <4>1, <4>2
    <3>5. a = [k \in 1..(m + 1) |-> a[k]]
      <4> HIDE DEF a
      <4> QED BY <3>3
    <3>6. a = P(m + 1)
      <4> HIDE DEF a
      <4> QED BY <3>4, <3>5
    <3> QED BY <3>6
  <2>6. P(m + 1) \in Seq(Seq(B))
    <3> DEFINE q == P(m)
               y == x(m + 1)
               z == P(m + 1)
    <3>1. q \in Seq(Seq(B)) /\ y \in Seq(B) /\ z = Append(q, y) BY <2>2, <2>4, <2>5
    <3> HIDE DEF q, y, z
    <3>2. z \in Seq(Seq(B)) BY <3>1
    <3> QED BY <3>2 DEF z
  <2>7. Joined(P(m + 1)) = SubSeq(s, o + 1, o + m * L) \o x(m + 1)
    <3> HIDE DEF P, x
    <3> QED BY <2>2, <2>4, <2>5, JoinedOneMore
  <2>8. SubSeq(s, o + 1, o + m * L) \o SubSeq(s, o + m * L + 1, o + (m + 1) * L)
          = SubSeq(s, o + 1, o + (m + 1) * L)
    <3>1. o + 1 \in 1..(Len(s) + 1) /\ o + m * L \in (o + 1 - 1)..Len(s)
          /\ o + (m + 1) * L \in (o + m * L)..Len(s)
      BY <2>1
    <3> QED BY <3>1, ConcatAdjacentSubSeq
  <2> QED BY <2>3, <2>6, <2>7, <2>8
<1> HIDE DEF T
<1>3. \A m \in Nat : m \in T BY <1>1, <1>2, Induction
<1> QED BY <1>3 DEF T, Cut

\* Two runs of parts join to the two joined runs.
LEMMA JoinedConcat ==
  ASSUME NEW B, NEW a \in Seq(Seq(B)), NEW b \in Seq(Seq(B))
  PROVE  Joined(a \o b) = Joined(a) \o Joined(b)
<1> DEFINE S == Seq(B)
           c(i) == SubSeq(b, 1, i)
           Q(i) == Joined(a \o c(i)) = Joined(a) \o Joined(c(i))
           T == {i \in Nat : i <= Len(b) => Q(i)}
<1>a. Joined(a) \in S BY JoinedTyped
<1>1. 0 \in T
  <2>1. c(0) = <<>> BY SubSeqEmpty
  <2>2. a \o <<>> = a OBVIOUS
  <2>3. Joined(a) \o <<>> = Joined(a) BY <1>a
  <2>4. Q(0) BY <2>1, <2>2, <2>3, JoinedEmpty
  <2> HIDE DEF Q
  <2> QED BY <2>4
<1>2. ASSUME NEW i \in Nat, i \in T PROVE i + 1 \in T
  <2> SUFFICES ASSUME i + 1 <= Len(b) PROVE Q(i + 1)
    <3> HIDE DEF Q
    <3> QED OBVIOUS
  <2>1. Q(i)
    <3>1. i <= Len(b) OBVIOUS
    <3> HIDE DEF Q
    <3> QED BY <1>2, <3>1
  <2> DEFINE d == c(i)
             x == b[i + 1]
  <2>2. x \in S /\ d \in Seq(S)
    <3>1. i + 1 \in 1..Len(b) OBVIOUS
    <3>2. x \in S BY <3>1, ElementOfSeq
    <3>3. 0 <= i /\ i <= Len(b) /\ 0 + 1 = 1 OBVIOUS
    <3>4. SubSeq(b, 0 + 1, i) \in Seq(Seq(B)) BY <3>3, Pieces
    <3> QED BY <3>2, <3>3, <3>4
  <2>3. c(i + 1) = Append(d, x)
    <3>1. SubSeq(b, 1, i + 1) = SubSeq(b, 1, i + 1 - 1) \o <<b[i + 1]>>
      <4>1. 1 \in 1..Len(b) /\ i + 1 \in 1..Len(b) OBVIOUS
      <4> QED BY <4>1, SubSeqRecursiveSecond
    <3>2. i + 1 - 1 = i OBVIOUS
    <3>3. Append(d, x) = d \o <<x>>
      <4> HIDE DEF d, x
      <4> QED BY <2>2, AppendIsConcat
    <3> QED BY <3>1, <3>2, <3>3
  <2>4. a \o c(i + 1) = Append(a \o d, x) /\ a \o d \in Seq(S)
    <3> HIDE DEF d, x, c
    <3>1. a \o Append(d, x) = Append(a \o d, x) /\ a \o d \in Seq(S)
      BY <2>2
    <3> QED BY <3>1, <2>3
  <2>5. Joined(a \o c(i + 1)) = Joined(a \o d) \o x
    <3> HIDE DEF d, x, c
    <3> QED BY <2>2, <2>4, JoinedOneMore
  <2>6. Joined(c(i + 1)) = Joined(d) \o x
    <3> HIDE DEF d, x, c
    <3> QED BY <2>2, <2>3, JoinedOneMore
  <2>7. Joined(d) \in S
    <3> HIDE DEF d
    <3> QED BY <2>2, JoinedTyped
  <2>8. Joined(a) \o (Joined(d) \o x) = (Joined(a) \o Joined(d)) \o x
    <3> DEFINE ja == Joined(a)
               jd == Joined(d)
    <3>1. ja \in Seq(B) /\ jd \in Seq(B) /\ x \in Seq(B) BY <1>a, <2>2, <2>7
    <3> HIDE DEF ja, jd, x
    <3>2. (ja \o jd) \o x = ja \o (jd \o x)
      BY <3>1, SMTT(30)
    <3> QED BY <3>2 DEF ja, jd
  <2>9. Joined(a \o d) = Joined(a) \o Joined(d) BY <2>1
  <2> HIDE DEF d, x, c
  <2> QED BY <2>5, <2>6, <2>8, <2>9
<1> HIDE DEF T
<1>3. \A i \in Nat : i \in T BY <1>1, <1>2, Induction
<1>4. Len(b) \in T BY <1>3
<1>5. Q(Len(b)) BY <1>4 DEF T
<1>6. c(Len(b)) = b
  <2>1. SubSeq(b, 1, Len(b)) = b OBVIOUS
  <2> QED BY <2>1
<1> QED BY <1>5, <1>6

----------------------------------------------------------------------------
(* The checksum.                                                           *)

\* The first n stripes of s.
StripesOf(s, n) ==
  [k \in 1..n |-> SubSeq(s, (k - 1) * StripeSize + 1, k * StripeSize)]

\* The types of a hash's fields.
HashRecords(B) ==
  [total : Nat, buffered : Nat, absorbed : Seq(Seq(B)), buffer : [1..StripeSize -> B]]

\* h is what content s leaves behind, whatever the pieces it came in: its whole
\* stripes are absorbed and the rest is in the buffer.
HashOf(h, s, B) ==
  /\ h \in HashRecords(B)
  /\ h.total = Len(s)
  /\ h.buffered < StripeSize
  /\ \E n \in Nat :
       /\ n * StripeSize + h.buffered = Len(s)
       /\ h.absorbed = StripesOf(s, n)
       /\ \A i \in 1..h.buffered : h.buffer[i] = s[n * StripeSize + i]

\* The first n stripes join to the first n * StripeSize elements.
LEMMA StripesTyped ==
  ASSUME NEW B, NEW s \in Seq(B), NEW n \in Nat, n * StripeSize <= Len(s)
  PROVE  /\ StripesOf(s, n) \in Seq(Seq(B))
         /\ Joined(StripesOf(s, n)) = SubSeq(s, 1, n * StripeSize)
<1> DEFINE L == StripeSize
<1>0. L \in Nat /\ n * L \in Nat /\ 0 \in Nat BY StripesAssumption, Multiples
<1>1. Cut(s, 0, L, n) \in Seq(Seq(B)) /\ Joined(Cut(s, 0, L, n)) = SubSeq(s, 0 + 1, 0 + n * L)
  <2>1. 0 + n * L <= Len(s) BY <1>0
  <2> QED BY <1>0, <2>1, CutJoined
<1>2. Cut(s, 0, L, n) = StripesOf(s, n)
  <2>1. ASSUME NEW k \in 1..n
        PROVE  0 + (k - 1) * L + 1 = (k - 1) * L + 1 /\ 0 + k * L = k * L
    BY <1>0
  <2> QED BY <2>1 DEF StripesOf, Cut
<1>3. 0 + 1 = 1 /\ 0 + n * L = n * L BY <1>0
<1> QED BY <1>1, <1>2, <1>3

\* A new hash has absorbed nothing.
LEMMA FreshHolds ==
  ASSUME NEW B, NoByte \in B
  PROVE  HashOf(Fresh, <<>>, B)
<1>1. Fresh \in HashRecords(B)
  <2>1. [i \in 1..StripeSize |-> NoByte] \in [1..StripeSize -> B] OBVIOUS
  <2>2. <<>> \in Seq(Seq(B)) OBVIOUS
  <2> HIDE DEF NoByte
  <2> QED BY <2>1, <2>2 DEF Fresh, HashRecords
<1>2. /\ Fresh.total = 0 /\ Fresh.buffered = 0 /\ Fresh.absorbed = <<>> BY DEF Fresh
<1>3. StripesOf(<<>>, 0) = <<>> BY DEF StripesOf
<1>4. 0 * StripeSize + 0 = 0 /\ 0 < StripeSize BY StripesAssumption
<1>5. Len(<<>>) = 0 OBVIOUS
<1> QED BY <1>1, <1>2, <1>3, <1>4, <1>5 DEF HashOf

\* Nor has one that was reset, whatever is in its buffer.
LEMMA ClearedHolds ==
  ASSUME NEW B, NEW s, NEW h, HashOf(h, s, B)
  PROVE  HashOf(Cleared(h), <<>>, B)
<1> DEFINE c == Cleared(h)
<1>0. h \in HashRecords(B) BY DEF HashOf
<1>1. c \in HashRecords(B) /\ c.total = 0 /\ c.buffered = 0 /\ c.absorbed = <<>>
  <2>1. <<>> \in Seq(Seq(B)) OBVIOUS
  <2>2. /\ c = [h EXCEPT !.total = 0, !.buffered = 0, !.absorbed = <<>>] BY DEF Cleared
  <2> HIDE DEF c
  <2> QED BY <1>0, <2>1, <2>2 DEF HashRecords
<1>3. StripesOf(<<>>, 0) = <<>> BY DEF StripesOf
<1>4. 0 * StripeSize + 0 = 0 /\ 0 < StripeSize BY StripesAssumption
<1>5. Len(<<>>) = 0 OBVIOUS
<1> HIDE DEF c
<1>6. HashOf(c, <<>>, B) BY <1>1, <1>3, <1>4, <1>5 DEF HashOf
<1> QED BY <1>6 DEF c

\* Content added behind s changes none of its stripes.
LEMMA StripesKept ==
  ASSUME NEW B, NEW s \in Seq(B), NEW u \in Seq(B), NEW n \in Nat, n * StripeSize <= Len(s)
  PROVE  StripesOf(s \o u, n) = StripesOf(s, n)
<1> DEFINE L == StripeSize
           t == s \o u
<1>0. L \in Nat \ {0} /\ n * L \in Nat BY StripesAssumption, Multiples
<1>1. t \in Seq(B) /\ Len(t) = Len(s) + Len(u) /\ \A i \in 1..Len(s) : t[i] = s[i]
  OBVIOUS
<1> HIDE DEF t
<1>2. ASSUME NEW k \in 1..n
      PROVE  SubSeq(t, (k - 1) * L + 1, k * L) = SubSeq(s, (k - 1) * L + 1, k * L)
  <2> DEFINE a == (k - 1) * L
             b == k * L
  <2>1. a \in Nat /\ b = a + L /\ b <= n * L
    <3>1. k - 1 \in Nat /\ k - 1 + 1 = k /\ k <= n /\ k \in Nat OBVIOUS
    <3>2. a \in Nat /\ (k - 1 + 1) * L = a + L BY <1>0, <3>1, Multiples
    <3>3. b <= n * L BY <1>0, <3>1, Multiples
    <3> QED BY <3>1, <3>2, <3>3
  <2>2. b \in Nat /\ a <= b /\ b <= Len(s) /\ b <= Len(t) BY <2>1, <1>0, <1>1
  <2> HIDE DEF a, b
  <2> DEFINE x == SubSeq(t, a + 1, b)
             y == SubSeq(s, a + 1, b)
  <2>3. x \in Seq(B) /\ Len(x) = b - a /\ \A i \in 1..(b - a) : x[i] = t[a + i]
    BY <1>1, <2>1, <2>2, Pieces
  <2>4. y \in Seq(B) /\ Len(y) = b - a /\ \A i \in 1..(b - a) : y[i] = s[a + i]
    BY <1>1, <2>1, <2>2, Pieces, SMTT(30)
  <2>5. ASSUME NEW i \in 1..(b - a) PROVE t[a + i] = s[a + i]
    <3>1. a + i \in 1..Len(s) BY <2>1, <2>2
    <3> QED BY <3>1, <1>1
  <2> HIDE DEF x, y
  <2>6. x = y BY <2>3, <2>4, <2>5, SeqEqual
  <2> QED BY <2>6 DEF x, y, a, b
<1>3. StripesOf(t, n) = StripesOf(s, n) BY <1>2 DEF StripesOf
<1> QED BY <1>3 DEF t

\* A piece that does not complete a stripe waits in the buffer.
LEMMA WaitingHolds ==
  ASSUME NEW B, NEW s \in Seq(B), NEW u \in Seq(B), NEW h, HashOf(h, s, B), Waits(h, u)
  PROVE  HashOf(Updated(h, u), s \o u, B)
<1> DEFINE L == StripeSize
           b == h.buffered
           t == s \o u
           g == Updated(h, u)
           f == Filled(h.buffer, b, u)
<1>0. L \in Nat \ {0} BY StripesAssumption
<1>1. /\ h \in HashRecords(B) /\ h.total = Len(s) /\ b < L
      /\ b \in Nat /\ h.buffer \in [1..L -> B] /\ h.absorbed \in Seq(Seq(B))
  BY DEF HashOf, HashRecords
<1>2. b + Len(u) < L BY DEF Waits
<1>3. g = [h EXCEPT !.total = @ + Len(u), !.buffered = @ + Len(u), !.buffer = Filled(@, b, u)]
  BY DEF Updated
<1>4. /\ t \in Seq(B) /\ Len(t) = Len(s) + Len(u)
      /\ \A i \in 1..Len(s) : t[i] = s[i]
      /\ \A i \in 1..Len(u) : t[Len(s) + i] = u[i]
  OBVIOUS
<1>5. f \in [1..L -> B]
  <2>1. ASSUME NEW i \in 1..L
        PROVE  (IF i \in (b + 1)..(b + Len(u)) THEN u[i - b] ELSE h.buffer[i]) \in B
    <3>1. CASE i \in (b + 1)..(b + Len(u))
      <4>1. i - b \in 1..Len(u) BY <1>1, <3>1
      <4> QED BY <4>1, <3>1, ElementOfSeq
    <3>2. CASE i \notin (b + 1)..(b + Len(u)) BY <3>2, <1>1
    <3> QED BY <3>1, <3>2
  <2> QED BY <2>1 DEF Filled
<1>6. /\ g \in HashRecords(B) /\ g.total = Len(t) /\ g.buffered = b + Len(u)
      /\ g.absorbed = h.absorbed /\ g.buffer = f
  <2> HIDE DEF g, f, t
  <2>1. /\ g.total = h.total + Len(u) /\ g.buffered = b + Len(u)
        /\ g.absorbed = h.absorbed /\ g.buffer = f
    BY <1>1, <1>3 DEF HashRecords, f
  <2>2. g = [total |-> g.total, buffered |-> g.buffered, absorbed |-> g.absorbed, buffer |-> g.buffer]
    BY <1>1, <1>3 DEF HashRecords
  <2>3. g.total = Len(t) /\ g.total \in Nat /\ g.buffered \in Nat BY <1>1, <1>4, <2>1
  <2>4. g \in HashRecords(B) BY <1>1, <1>5, <2>1, <2>2, <2>3 DEF HashRecords
  <2> QED BY <2>1, <2>3, <2>4
<1>7. PICK n \in Nat : /\ n * L + b = Len(s)
                       /\ h.absorbed = StripesOf(s, n)
                       /\ \A i \in 1..b : h.buffer[i] = s[n * L + i]
  BY DEF HashOf
<1> DEFINE k == n * L
<1>8. k \in Nat /\ k <= Len(s) BY <1>0, <1>1, <1>7, Multiples
<1>9. StripesOf(t, n) = StripesOf(s, n) BY <1>8, StripesKept
<1> HIDE DEF k
<1>10. ASSUME NEW i \in 1..(b + Len(u)) PROVE f[i] = t[k + i]
  <2>1. i \in 1..L BY <1>0, <1>1, <1>2
  <2>2. CASE i \in 1..b
    <3>1. f[i] = h.buffer[i] BY <2>1, <2>2, <1>1 DEF Filled
    <3>2. h.buffer[i] = s[k + i] BY <1>7, <2>2 DEF k
    <3>3. k + i \in 1..Len(s) BY <1>7, <1>8, <2>2, <1>1 DEF k
    <3> QED BY <3>1, <3>2, <3>3, <1>4
  <2>3. CASE i \in (b + 1)..(b + Len(u))
    <3>1. f[i] = u[i - b] BY <2>1, <2>3, <1>1 DEF Filled
    <3>2. i - b \in 1..Len(u) BY <2>3, <1>1
    <3>3. Len(s) + (i - b) = k + i BY <1>7, <1>8, <1>1 DEF k
    <3> QED BY <3>1, <3>2, <3>3, <1>4
  <2>4. i \in 1..b \/ i \in (b + 1)..(b + Len(u))
    <3>1. Len(u) \in Nat OBVIOUS
    <3> QED BY <3>1, <1>1
  <2> QED BY <2>2, <2>3, <2>4
<1>11. k + (b + Len(u)) = Len(t)
  <2>1. k + b = Len(s) BY <1>7 DEF k
  <2>2. Len(u) \in Nat OBVIOUS
  <2>3. Len(t) = Len(s) + Len(u) BY <1>4
  <2>4. b \in Nat /\ k \in Nat BY <1>1, <1>8
  <2> HIDE DEF t, b
  <2> QED BY <2>1, <2>2, <2>3, <2>4
<1> HIDE DEF g, f, t, b
<1>12. HashOf(g, t, B) BY <1>2, <1>6, <1>7, <1>9, <1>10, <1>11 DEF HashOf, k
<1> QED BY <1>12 DEF g, t

\* The buffer after bytes are put into it.
LEMMA FilledBuffer ==
  ASSUME NEW B, NEW buf \in [1..StripeSize -> B], NEW c \in Nat, NEW u \in Seq(B),
         NEW f, f = Filled(buf, c, u)
  PROVE  /\ f \in [1..StripeSize -> B]
         /\ \A i \in 1..StripeSize :
              /\ i \in (c + 1)..(c + Len(u)) => f[i] = u[i - c]
              /\ i \notin (c + 1)..(c + Len(u)) => f[i] = buf[i]
<1>1. ASSUME NEW i \in 1..StripeSize
      PROVE  (IF i \in (c + 1)..(c + Len(u)) THEN u[i - c] ELSE buf[i]) \in B
  <2>1. CASE i \in (c + 1)..(c + Len(u))
    <3>1. i - c \in 1..Len(u) BY <2>1
    <3> QED BY <3>1, <2>1, ElementOfSeq
  <2>2. CASE i \notin (c + 1)..(c + Len(u)) BY <2>2
  <2> QED BY <2>1, <2>2
<1> QED BY <1>1 DEF Filled

\* A piece that completes a stripe: the buffer is filled and absorbed, then
\* whole stripes of the piece, and the rest waits.
LEMMA AbsorbingHolds ==
  ASSUME NEW B, NEW s \in Seq(B), NEW u \in Seq(B), NEW h, HashOf(h, s, B), ~Waits(h, u)
  PROVE  HashOf(Updated(h, u), s \o u, B)
<1> DEFINE L == StripeSize
           b == h.buffered
           t == s \o u
           g == Updated(h, u)
           needed == IF b = 0 THEN 0 ELSE L - b
           part == SubSeq(u, 1, needed)
           full == Filled(h.buffer, b, part)
           count == (Len(u) - needed) \div L
           stripes == [k \in 1..count |->
                         SubSeq(u, needed + (k - 1) * L + 1, needed + k * L)]
           rest == SubSeq(u, needed + count * L + 1, Len(u))
           first == IF b = 0 THEN <<>> ELSE <<full>>
<1>0. L \in Nat \ {0} BY StripesAssumption
<1>1. /\ h \in HashRecords(B) /\ h.total = Len(s) /\ b < L
      /\ b \in Nat /\ h.buffer \in [1..L -> B] /\ h.absorbed \in Seq(Seq(B))
      /\ Len(u) \in Nat /\ Len(s) \in Nat
  BY DEF HashOf, HashRecords
<1>2. b + Len(u) >= L BY <1>0, <1>1 DEF Waits
<1>3. g = [total |-> h.total + Len(u), buffered |-> Len(rest),
           absorbed |-> h.absorbed \o first \o stripes,
           buffer |-> Filled(full, 0, rest)]
  BY DEF Updated
<1>4. /\ t \in Seq(B) /\ Len(t) = Len(s) + Len(u)
      /\ \A i \in 1..Len(s) : t[i] = s[i]
      /\ \A i \in 1..Len(u) : t[Len(s) + i] = u[i]
  OBVIOUS
<1>5. PICK n \in Nat : /\ n * L + b = Len(s)
                       /\ h.absorbed = StripesOf(s, n)
                       /\ \A i \in 1..b : h.buffer[i] = s[n * L + i]
  BY DEF HashOf
<1> DEFINE m == IF b = 0 THEN n ELSE n + 1
           nL == n * L
           mL == m * L
<1>6. needed \in Nat /\ needed <= Len(u) /\ (b # 0 => needed = L - b) /\ (b = 0 => needed = 0)
  BY <1>0, <1>1, <1>2
<1>7. nL \in Nat /\ (n + 1) * L = nL + L /\ nL + b = Len(s) BY <1>0, <1>5, Multiples
<1> HIDE DEF needed, b, nL
<1>8. m \in Nat /\ mL \in Nat /\ mL = Len(s) + needed
  <2>1. CASE b = 0
    <3>1. m = n /\ mL = nL BY <2>1 DEF nL
    <3> HIDE DEF mL, m
    <3> QED BY <3>1, <2>1, <1>6, <1>7, <1>1
  <2>2. CASE b # 0
    <3>1. m = n + 1 /\ mL = nL + L BY <2>2, <1>7
    <3> HIDE DEF mL, m
    <3>2. needed = L - b BY <2>2, <1>6
    <3>3. nL \in Nat /\ nL + b = Len(s) BY <1>7
    <3>4. L \in Nat /\ b \in Nat /\ Len(s) \in Nat BY <1>0, <1>1
    <3> HIDE DEF L
    <3> QED BY <3>1, <3>2, <3>3, <3>4
  <2> QED BY <2>1, <2>2
<1>9. /\ count \in Nat /\ count * L \in Nat
      /\ needed + count * L <= Len(u) /\ Len(u) - (needed + count * L) < L
  <2> DEFINE a == Len(u) - needed
  <2>1. a \in Nat BY <1>1, <1>6
  <2>2. a \div L \in Nat /\ (a \div L) * L <= a /\ a - (a \div L) * L < L
    BY <2>1, <1>0, Division
  <2>3. count = a \div L OBVIOUS
  <2> HIDE DEF a, count
  <2>4. count \in Nat /\ count * L <= a /\ a - count * L < L BY <2>2, <2>3
  <2>5. count * L \in Nat BY <2>4, <1>0, Multiples
  <2>6. a = Len(u) - needed BY DEF a
  <2> DEFINE x == count * L
  <2>7. x \in Nat /\ x <= a /\ a - x < L BY <2>4, <2>5
  <2> HIDE DEF x
  <2>8. needed + x <= Len(u) /\ Len(u) - (needed + x) < L BY <2>1, <2>6, <2>7, <1>0, <1>1, <1>6
  <2> QED BY <2>4, <2>5, <2>8 DEF x
<1> DEFINE cL == count * L
           e == needed + cL
<1> HIDE DEF count, m, mL, cL
<1>10. (m + count) * L = Len(s) + e /\ m + count \in Nat
  <2>1. (m + count) * L = mL + cL BY <1>0, <1>8, <1>9 DEF mL, cL
  <2>2. cL \in Nat BY <1>9 DEF cL
  <2>3. mL + cL = Len(s) + e BY <2>2, <1>1, <1>6, <1>8
  <2> QED BY <2>1, <2>3, <1>8, <1>9
<1>11. e \in Nat /\ e <= Len(u) /\ Len(u) - e < L
  <2>1. cL \in Nat /\ needed + cL <= Len(u) /\ Len(u) - (needed + cL) < L BY <1>9 DEF cL
  <2> QED BY <2>1, <1>1, <1>6
<1> HIDE DEF e
<1>12. rest \in Seq(B) /\ Len(rest) = Len(u) - e /\ \A i \in 1..(Len(u) - e) : rest[i] = u[e + i]
  <2>1. rest = SubSeq(u, e + 1, Len(u)) BY DEF e, cL
  <2> HIDE DEF rest
  <2> QED BY <2>1, <1>1, <1>11, Pieces
<1>13. part \in Seq(B) /\ Len(part) = needed /\ \A i \in 1..needed : part[i] = u[i]
  <2>1. part = SubSeq(u, 0 + 1, needed) OBVIOUS
  <2>2. 0 <= needed /\ needed - 0 = needed BY <1>6
  <2> HIDE DEF part
  <2>3. /\ part \in Seq(B) /\ Len(part) = needed - 0
        /\ \A i \in 1..(needed - 0) : part[i] = u[0 + i]
    BY <2>1, <2>2, <1>6, Pieces
  <2>4. \A i \in 1..needed : 0 + i = i OBVIOUS
  <2> QED BY <2>2, <2>3, <2>4
<1> HIDE DEF rest, part
<1>14. full \in [1..L -> B]
       /\ \A i \in 1..L : /\ i \in (b + 1)..(b + Len(part)) => full[i] = part[i - b]
                          /\ i \notin (b + 1)..(b + Len(part)) => full[i] = h.buffer[i]
  <2>1. full = [i \in 1..L |-> IF i \in (b + 1)..(b + Len(part)) THEN part[i - b] ELSE h.buffer[i]]
    BY DEF Filled
  <2> HIDE DEF full, L
  <2>2. ASSUME NEW i \in 1..L PROVE full[i] \in B
    <3>1. CASE i \in (b + 1)..(b + Len(part))
      <4>1. i - b \in 1..Len(part) BY <1>1, <1>13, <3>1
      <4>2. part[i - b] \in B BY <4>1, <1>13, ElementOfSeq
      <4> QED BY <2>1, <3>1, <4>2
    <3>2. CASE i \notin (b + 1)..(b + Len(part)) BY <2>1, <3>2, <1>1
    <3> QED BY <3>1, <3>2
  <2>3. \A i \in 1..L : /\ i \in (b + 1)..(b + Len(part)) => full[i] = part[i - b]
                        /\ i \notin (b + 1)..(b + Len(part)) => full[i] = h.buffer[i]
    BY <2>1
  <2>4. full = [i \in 1..L |-> full[i]] BY <2>1
  <2> QED BY <2>2, <2>3, <2>4
<1> HIDE DEF full, t
\* The last stripe that the buffer held the start of.
<1>15. b # 0 => full = SubSeq(t, (m - 1) * L + 1, m * L)
  <2> SUFFICES ASSUME b # 0 PROVE full = SubSeq(t, (m - 1) * L + 1, m * L) OBVIOUS
  <2>1. m = n + 1 BY DEF m
  <2>2. (m - 1) * L = nL /\ m * L = nL + L
    <3>1. m - 1 = n BY <2>1
    <3> QED BY <3>1, <2>1, <1>7 DEF nL
  <2>3. needed = L - b BY <1>6
  <2>4. nL + L <= Len(t) BY <2>3, <1>0, <1>1, <1>4, <1>6, <1>7
  <2> DEFINE y == SubSeq(t, nL + 1, nL + L)
  <2>5. y \in Seq(B) /\ Len(y) = L /\ \A i \in 1..L : y[i] = t[nL + i]
    <3> DEFINE z == nL + L
    <3>1. nL \in Nat /\ L \in Nat BY <1>7, <1>0
    <3>2. z <= Len(t) BY <2>4
    <3>3. z \in Nat /\ nL <= z /\ z - nL = L
      <4> HIDE DEF L, nL
      <4> QED BY <3>1
    <3> HIDE DEF z
    <3>4. /\ SubSeq(t, nL + 1, z) \in Seq(B)
          /\ Len(SubSeq(t, nL + 1, z)) = z - nL
          /\ \A i \in 1..(z - nL) : SubSeq(t, nL + 1, z)[i] = t[nL + i]
      BY <3>1, <3>2, <3>3, <1>4, Pieces
    <3>5. y = SubSeq(t, nL + 1, z) BY DEF z
    <3> HIDE DEF y, nL
    <3> QED BY <3>3, <3>4, <3>5
  <2>6. full \in Seq(B) /\ Len(full) = L BY <1>14, <1>0
  <2> HIDE DEF y
  <2>7. ASSUME NEW i \in 1..L PROVE full[i] = y[i]
    <3>0. y[i] = t[nL + i] BY <2>5
    <3>1. CASE i \in 1..b
      <4>1. full[i] = h.buffer[i] BY <1>14, <3>1, <1>1
      <4>2. h.buffer[i] = s[nL + i] BY <1>5, <3>1 DEF nL
      <4>3. nL + i \in 1..Len(s) BY <3>1, <1>1, <1>7
      <4>4. t[nL + i] = s[nL + i] BY <4>3, <1>4
      <4> QED BY <4>1, <4>2, <4>4, <3>0
    <3>2. CASE i \in (b + 1)..L
      <4>1. i - b \in 1..needed /\ i \in (b + 1)..(b + needed) BY <2>3, <3>2, <1>0, <1>1
      <4>2. full[i] = part[i - b] BY <1>13, <1>14, <4>1
      <4>3. part[i - b] = u[i - b] BY <4>1, <1>13
      <4>4. i - b \in 1..Len(u) BY <4>1, <1>1, <1>6
      <4>5. Len(s) + (i - b) = nL + i BY <1>1, <1>7
      <4> DEFINE w == i - b
      <4>7. w \in 1..Len(u) BY <4>4
      <4> HIDE DEF w
      <4>8. t[Len(s) + w] = u[w] BY <4>7 DEF t
      <4>6. t[Len(s) + (i - b)] = u[i - b] BY <4>8 DEF w
      <4> QED BY <4>2, <4>3, <4>5, <4>6, <3>0
    <3>3. i \in 1..b \/ i \in (b + 1)..L BY <1>0, <1>1
    <3> QED BY <3>1, <3>2, <3>3
  <2>8. full = y BY <2>5, <2>6, <2>7, SeqEqual
  <2> QED BY <2>2, <2>8 DEF y
<1> DEFINE x(k) == SubSeq(t, (k - 1) * L + 1, k * L)
<1>16. ASSUME NEW j \in 1..count
       PROVE  stripes[j] = x(m + j) /\ stripes[j] \in Seq(B)
  <2> DEFINE p == (j - 1) * L
  <2>1. p \in Nat /\ j * L = p + L /\ p + L <= cL /\ j \in Nat
    <3>1. j - 1 \in Nat /\ j - 1 + 1 = j /\ j \in Nat /\ j <= count BY <1>9
    <3>2. p \in Nat /\ (j - 1 + 1) * L = p + L BY <1>0, <3>1, Multiples
    <3>3. j * L <= cL BY <1>0, <1>9, <3>1, Multiples DEF cL
    <3> QED BY <3>1, <3>2, <3>3
  <2>3. (m + j - 1) * L = mL + p /\ (m + j) * L = mL + p + L
    <3>1. (m + j - 1) * L = m * L + (j - 1) * L /\ (m + j) * L = m * L + j * L
      BY <1>0, <1>8, <1>9
    <3>2. mL \in Nat /\ L \in Nat BY <1>0, <1>8
    <3>3. m * L = mL BY DEF mL
    <3> HIDE DEF p
    <3>4. mL + (p + L) = mL + p + L BY <3>2, <2>1
    <3> QED BY <3>1, <3>3, <3>4, <2>1 DEF p
  <2>4. stripes[j] = SubSeq(u, needed + p + 1, needed + p + L)
    <3>2. stripes[j] = SubSeq(u, needed + (j - 1) * L + 1, needed + j * L) OBVIOUS
    <3>3. stripes[j] = SubSeq(u, needed + p + 1, needed + (p + L)) BY <3>2, <2>1
    <3> HIDE DEF p, stripes
    <3>1. needed + (p + L) = needed + p + L BY <2>1, <1>0, <1>6
    <3> QED BY <3>1, <3>3
  <2>6. x(m + j) = SubSeq(t, mL + p + 1, mL + p + L)
    <3> DEFINE mj == m + j
    <3>0. mj - 1 = m + j - 1 BY <1>8, <2>1
    <3> HIDE DEF p
    <3>1. (mj - 1) * L = mL + p /\ mj * L = mL + p + L BY <2>3, <3>0
    <3> HIDE DEF mj
    <3>2. x(mj) = SubSeq(t, mL + p + 1, mL + p + L) BY <3>1
    <3> QED BY <3>2 DEF mj
  <2> HIDE DEF p, x, stripes
  <2>5. needed + p + L <= Len(u)
    <3>1. cL \in Nat /\ needed + cL <= Len(u) BY <1>9 DEF cL
    <3> QED BY <3>1, <2>1, <1>0, <1>1, <1>6
  <2> DEFINE q == stripes[j]
             r == x(m + j)
             a == needed + p
             d == mL + p
  <2>7. q \in Seq(B) /\ Len(q) = L /\ \A i \in 1..L : q[i] = u[a + i]
    <3>1. a \in Nat /\ a + L <= Len(u)
      BY <2>1, <2>5, <1>0, <1>1, <1>6
    <3>2. q = SubSeq(u, a + 1, a + L) BY <2>4
    <3> HIDE DEF a, q
    <3> QED BY <3>1, <3>2, <1>0, Piece
  <2>8. r \in Seq(B) /\ Len(r) = L /\ \A i \in 1..L : r[i] = t[d + i]
    <3>1. d \in Nat /\ d + L <= Len(t)
      BY <2>1, <2>5, <1>0, <1>1, <1>4, <1>6, <1>8
    <3>2. r = SubSeq(t, d + 1, d + L) BY <2>6
    <3> HIDE DEF d, r
    <3> QED BY <3>1, <3>2, <1>0, <1>4, Piece
  <2>9. ASSUME NEW i \in 1..L PROVE q[i] = r[i]
    <3>1. d + i = Len(s) + (a + i) BY <2>1, <1>0, <1>1, <1>6, <1>8
    <3>2. a + i \in 1..Len(u) BY <2>1, <2>5, <1>0, <1>1, <1>6
    <3> HIDE DEF a, d, q, r
    <3> DEFINE w == a + i
    <3>4. w \in 1..Len(u) BY <3>2
    <3> HIDE DEF w
    <3>5. t[Len(s) + w] = u[w] BY <3>4 DEF t
    <3>3. t[Len(s) + (a + i)] = u[a + i] BY <3>5 DEF w
    <3> QED BY <3>1, <3>3, <2>7, <2>8
  <2> HIDE DEF q, r
  <2>10. q = r BY <2>7, <2>8, <2>9, SeqEqual
  <2> QED BY <2>7, <2>10 DEF q, r
<1>17. stripes \in Seq(Seq(B)) /\ Len(stripes) = count
  <2>1. DOMAIN stripes = 1..count /\ \A j \in 1..count : stripes[j] \in Seq(B) BY <1>16
  <2>2. stripes = [j \in 1..count |-> stripes[j]] OBVIOUS
  <2> HIDE DEF stripes
  <2> QED BY <2>1, <2>2, <1>9
<1>18. first \in Seq(Seq(B)) /\ Len(first) = m - n /\ (b # 0 => first[1] = full)
  <2>1. full \in Seq(B) BY <1>14, <1>0
  <2> QED BY <2>1 DEF m
<1>19. n * L <= Len(s) BY <1>1, <1>7 DEF nL
<1>20. /\ StripesOf(t, n) \in Seq(Seq(B)) /\ Len(StripesOf(t, n)) = n
       /\ \A k \in 1..n : StripesOf(t, n)[k] = x(k)
       /\ h.absorbed = StripesOf(t, n)
  <2>1. StripesOf(t, n) = StripesOf(s, n) BY <1>19, StripesKept DEF t
  <2>2. n * L <= Len(t) BY <1>1, <1>4, <1>7 DEF nL
  <2>3. StripesOf(t, n) \in Seq(Seq(B)) BY <1>4, <2>2, StripesTyped
  <2>5. StripesOf(t, n) = [k \in 1..n |-> x(k)] BY DEF StripesOf
  <2> HIDE DEF x
  <2>4. Len(StripesOf(t, n)) = n /\ \A k \in 1..n : StripesOf(t, n)[k] = x(k) BY <2>5
  <2> QED BY <2>1, <2>3, <2>4, <1>5
<1>21. h.absorbed \o first \o stripes = StripesOf(t, m + count)
  <2> DEFINE y == StripesOf(t, n)
             z == y \o first \o stripes
  <2> HIDE DEF x, first, stripes, y
  <2>1. n <= m /\ (m # n => m = n + 1 /\ b # 0) BY DEF m
  <2>2. y \in Seq(Seq(B)) /\ Len(y) = n /\ \A k \in 1..n : y[k] = x(k) BY <1>20 DEF y
  <2>3. /\ z \in Seq(Seq(B)) /\ Len(z) = m + count
        /\ \A k \in 1..n : z[k] = y[k]
        /\ \A k \in (n + 1)..m : z[k] = first[k - n]
        /\ \A k \in (m + 1)..(m + count) : z[k] = stripes[k - m]
    <3>1. /\ y \o first \in Seq(Seq(B)) /\ Len(y \o first) = m
          /\ \A k \in 1..n : (y \o first)[k] = y[k]
          /\ \A k \in (n + 1)..m : (y \o first)[k] = first[k - n]
      BY <2>1, <2>2, <1>8, <1>18
    <3> DEFINE w == y \o first
    <3>w. w \in Seq(Seq(B)) /\ Len(w) = m BY <3>1
    <3> HIDE DEF w
    <3>2. /\ w \o stripes \in Seq(Seq(B)) /\ Len(w \o stripes) = m + count
          /\ \A k \in 1..m : (w \o stripes)[k] = w[k]
          /\ \A k \in (m + 1)..(m + count) : (w \o stripes)[k] = stripes[k - m]
      <4>1. stripes \in Seq(Seq(B)) /\ Len(stripes) = count BY <1>8, <1>9, <1>17
      <4>2. /\ w \o stripes \in Seq(Seq(B)) /\ Len(w \o stripes) = Len(w) + Len(stripes)
            /\ \A k \in 1..Len(w) : (w \o stripes)[k] = w[k]
            /\ \A k \in (Len(w) + 1)..(Len(w) + Len(stripes)) :
                 (w \o stripes)[k] = stripes[k - Len(w)]
        BY <3>w, <4>1, Concatenated
      <4> QED BY <3>w, <4>1, <4>2
    <3>3. z = w \o stripes BY DEF w
    <3>4. \A k \in 1..n : k \in 1..m BY <2>1, <1>8
    <3>5. \A k \in (n + 1)..m : k \in 1..m BY <1>8
    <3> HIDE DEF z
    <3> QED BY <3>1, <3>2, <3>3, <3>4, <3>5 DEF w
  <2> HIDE DEF z
  <2>4. ASSUME NEW k \in 1..(m + count) PROVE z[k] = x(k)
    <3>1. CASE k \in 1..n BY <3>1, <2>2, <2>3
    <3>2. CASE k \in (n + 1)..m
      <4>1. m = n + 1 /\ b # 0 /\ k = m /\ k - n = 1 BY <2>1, <3>2, <1>8
      <4>2. z[k] = full BY <4>1, <2>3, <3>2, <1>18
      <4>3. x(m) = full BY <4>1, <1>15 DEF x
      <4> QED BY <4>1, <4>2, <4>3
    <3>3. CASE k \in (m + 1)..(m + count)
      <4>1. k - m \in 1..count /\ m + (k - m) = k BY <3>3, <1>8, <1>9
      <4>2. stripes[k - m] = x(m + (k - m)) BY <4>1, <1>16
      <4> QED BY <4>1, <4>2, <2>3, <3>3
    <3>4. k \in 1..n \/ k \in (n + 1)..m \/ k \in (m + 1)..(m + count) BY <1>8, <1>9
    <3> QED BY <3>1, <3>2, <3>3, <3>4
  <2>5. z = [k \in 1..(m + count) |-> z[k]] BY <2>3, <1>10
  <2>6. z = [k \in 1..(m + count) |-> x(k)] BY <2>4, <2>5
  <2>7. z = StripesOf(t, m + count) BY <2>6 DEF StripesOf, x
  <2> QED BY <2>7, <1>20 DEF z, y
<1> DEFINE v == Len(u) - e
           f == Filled(full, 0, rest)
<1>22. f \in [1..L -> B] /\ \A i \in 1..v : f[i] = rest[i]
  <2>1. v \in Nat /\ v < L /\ Len(rest) = v BY <1>1, <1>11, <1>12
  <2>2. f \in [1..L -> B]
        /\ \A i \in 1..L : i \in (0 + 1)..(0 + Len(rest)) => f[i] = rest[i - 0]
    <3>1. 0 \in Nat OBVIOUS
    <3> QED BY <3>1, <1>12, <1>14, FilledBuffer
  <2> HIDE DEF f, v
  <2>3. ASSUME NEW i \in 1..v PROVE f[i] = rest[i]
    <3>1. i \in 1..L /\ i \in (0 + 1)..(0 + Len(rest)) /\ i - 0 = i BY <2>1, <1>0
    <3> QED BY <3>1, <2>2
  <2> QED BY <2>2, <2>3
<1> HIDE DEF f, stripes, first, x
<1>23. /\ g \in HashRecords(B) /\ g.total = Len(t) /\ g.buffered = v
       /\ g.absorbed = StripesOf(t, m + count) /\ g.buffer = f
  <2>1. StripesOf(t, m + count) \in Seq(Seq(B))
    <3>1. (m + count) * L <= Len(t) BY <1>1, <1>4, <1>10, <1>11
    <3> QED BY <3>1, <1>4, <1>10, StripesTyped
  <2>2. v \in Nat /\ Len(rest) = v BY <1>1, <1>11, <1>12
  <2>3. h.total + Len(u) = Len(t) /\ Len(t) \in Nat BY <1>1, <1>4
  <2>4. g = [total |-> Len(t), buffered |-> v, absorbed |-> StripesOf(t, m + count), buffer |-> f]
    BY <1>3, <1>21, <2>2, <2>3 DEF f
  <2> HIDE DEF g, v
  <2> QED BY <2>1, <2>2, <2>3, <2>4, <1>22 DEF HashRecords
<1> HIDE DEF g
<1>24. v < L /\ (m + count) * L + v = Len(t)
  BY <1>1, <1>4, <1>10, <1>11
<1>25. ASSUME NEW i \in 1..v PROVE f[i] = t[(m + count) * L + i]
  <2>1. f[i] = u[e + i] BY <1>12, <1>22
  <2>2. e + i \in 1..Len(u) BY <1>1, <1>11
  <2>3. (m + count) * L + i = Len(s) + (e + i) BY <1>1, <1>10, <1>11
  <2> DEFINE w == e + i
  <2>5. w \in 1..Len(u) BY <2>2
  <2> HIDE DEF w
  <2>6. t[Len(s) + w] = u[w] BY <2>5 DEF t
  <2>4. t[Len(s) + (e + i)] = u[e + i] BY <2>6 DEF w
  <2> QED BY <2>1, <2>3, <2>4
<1> HIDE DEF v
<1>26. HashOf(g, t, B) BY <1>10, <1>23, <1>24, <1>25 DEF HashOf
<1> QED BY <1>26 DEF g, t
\* update() keeps what the state stands for, wherever the pieces are split.
THEOREM UpdatedHolds ==
  ASSUME NEW B, NEW s \in Seq(B), NEW u \in Seq(B), NEW h, HashOf(h, s, B)
  PROVE  HashOf(Updated(h, u), s \o u, B)
<1>1. CASE Waits(h, u) BY <1>1, WaitingHolds
<1>2. CASE ~Waits(h, u) BY <1>2, AbsorbingHolds
<1> QED BY <1>1, <1>2

\* The digest says nothing of how the content was split, nor of what an earlier
\* frame left behind the bytes that count.
LEMMA DigestUnique ==
  ASSUME NEW B, NEW s \in Seq(B), NEW g, HashOf(g, s, B), NEW h, HashOf(h, s, B)
  PROVE  Digest(g) = Digest(h)
<1> DEFINE L == StripeSize
           N == Len(s)
<1>0. L \in Nat \ {0} /\ N \in Nat BY StripesAssumption
<1>1. \A f : HashOf(f, s, B) =>
        \E n \in Nat : /\ n = N \div L /\ f.total = N /\ f.buffered = N - n * L
                       /\ f.absorbed = StripesOf(s, n) /\ f.buffered \in Nat /\ f.buffered < L
                       /\ f.buffer \in [1..L -> B]
                       /\ \A i \in 1..f.buffered : f.buffer[i] = s[n * L + i]
  <2> SUFFICES ASSUME NEW f, HashOf(f, s, B)
               PROVE  \E n \in Nat :
                        /\ n = N \div L /\ f.total = N /\ f.buffered = N - n * L
                        /\ f.absorbed = StripesOf(s, n) /\ f.buffered \in Nat /\ f.buffered < L
                        /\ f.buffer \in [1..L -> B]
                        /\ \A i \in 1..f.buffered : f.buffer[i] = s[n * L + i]
    OBVIOUS
  <2>1. /\ f.total = N /\ f.buffered < L /\ f.buffered \in Nat /\ f.buffer \in [1..L -> B]
    BY DEF HashOf, HashRecords
  <2>2. PICK n \in Nat : /\ n * L + f.buffered = N
                         /\ f.absorbed = StripesOf(s, n)
                         /\ \A i \in 1..f.buffered : f.buffer[i] = s[n * L + i]
    BY DEF HashOf
  <2> HIDE DEF N, L
  <2>3. n * L \in Nat BY <1>0, Multiples
  <2> DEFINE x == n * L
             b == f.buffered
  <2>4. x \in Nat /\ b \in Nat /\ x + b = N /\ b < L BY <2>1, <2>2, <2>3
  <2> HIDE DEF x, b
  <2>5. b = N - x /\ x <= N /\ N - x < L BY <2>4, <1>0
  <2>6. n = N \div L BY <2>5, <1>0, Division DEF x
  <2>7. f.buffered = N - n * L BY <2>5 DEF x, b
  <2> QED BY <2>1, <2>2, <2>6, <2>7
<1> DEFINE n == N \div L
           b == N - n * L
<1>2. /\ g.total = N /\ h.total = N /\ g.absorbed = h.absorbed
      /\ g.buffered = b /\ h.buffered = b /\ b \in Nat /\ b < L
      /\ g.buffer \in [1..L -> B] /\ h.buffer \in [1..L -> B]
      /\ \A i \in 1..b : g.buffer[i] = h.buffer[i]
  <2>g. PICK x \in Nat : /\ x = N \div L /\ g.total = N /\ g.buffered = N - x * L
                         /\ g.absorbed = StripesOf(s, x) /\ g.buffered \in Nat /\ g.buffered < L
                         /\ g.buffer \in [1..L -> B]
                         /\ \A i \in 1..g.buffered : g.buffer[i] = s[x * L + i]
    BY <1>1
  <2>h. PICK y \in Nat : /\ y = N \div L /\ h.total = N /\ h.buffered = N - y * L
                         /\ h.absorbed = StripesOf(s, y) /\ h.buffered \in Nat /\ h.buffered < L
                         /\ h.buffer \in [1..L -> B]
                         /\ \A i \in 1..h.buffered : h.buffer[i] = s[y * L + i]
    BY <1>1
  <2>1. x = n /\ y = n BY <2>g, <2>h
  <2> HIDE DEF n
  <2> QED BY <2>g, <2>h, <2>1
<1> HIDE DEF b, n
<1>3. SubSeq(g.buffer, 1, b) = SubSeq(h.buffer, 1, b)
  <2> DEFINE p == g.buffer
             q == h.buffer
             x == SubSeq(p, 0 + 1, b)
             y == SubSeq(q, 0 + 1, b)
  <2>1. p \in Seq(B) /\ q \in Seq(B) /\ Len(p) = L /\ Len(q) = L BY <1>0, <1>2
  <2>2. b \in Nat /\ b <= L /\ 0 <= b /\ 0 \in Nat BY <1>0, <1>2
  <2> HIDE DEF p, q
  <2>3. x \in Seq(B) /\ Len(x) = b - 0 /\ \A i \in 1..(b - 0) : x[i] = p[0 + i]
    BY <2>1, <2>2, Pieces
  <2>4. y \in Seq(B) /\ Len(y) = b - 0 /\ \A i \in 1..(b - 0) : y[i] = q[0 + i]
    BY <2>1, <2>2, Pieces
  <2> HIDE DEF x, y
  <2>5. ASSUME NEW i \in 1..(b - 0) PROVE x[i] = y[i]
    <3>1. 0 + i = i /\ i \in 1..b BY <2>2
    <3>2. p[i] = q[i] BY <3>1, <1>2 DEF p, q
    <3> QED BY <2>3, <2>4, <3>1, <3>2
  <2>6. x = y BY <2>3, <2>4, <2>5, SeqEqual
  <2>7. SubSeq(p, 0 + 1, b) = SubSeq(q, 0 + 1, b) BY <2>6 DEF x, y
  <2>8. 0 + 1 = 1 OBVIOUS
  <2>9. SubSeq(p, 1, b) = SubSeq(q, 1, b) BY <2>7, <2>8
  <2> QED BY <2>9 DEF p, q
<1> QED BY <1>2, <1>3 DEF Digest

\* What the digest reads of the buffer, joined again, is the buffer.
LEMMA WordsJoined ==
  ASSUME NEW B, NEW s \in Seq(B)
  PROVE  Joined(Words(s)) = s /\ Words(s) \in Seq(Seq(B))
<1> DEFINE N == Len(s)
           W == Word
           words == N \div W
           w == words * W
           rest == N - w
           half == IF rest >= Half THEN Half ELSE 0
           done == w + half
           r == rest - half
           p1 == [i \in 1..words |-> SubSeq(s, (i - 1) * W + 1, i * W)]
           p2 == IF half > 0 THEN <<SubSeq(s, w + 1, done)>> ELSE <<>>
           p3 == [i \in 1..r |-> <<s[done + i]>>]
<1>0. N \in Nat /\ W \in Nat \ {0} /\ Half \in Nat BY StripesAssumption
<1>1. Words(s) = p1 \o p2 \o p3 BY DEF Words
<1>2. words \in Nat /\ w \in Nat /\ w <= N
  <2>1. words \in Nat /\ w <= N BY <1>0, Division
  <2> QED BY <2>1, <1>0, Multiples
<1>3. /\ rest \in Nat /\ half \in Nat /\ done \in Nat /\ r \in Nat
      /\ w <= done /\ done + r = N
  <2> HIDE DEF w, N
  <2> QED BY <1>0, <1>2
<1>4. p1 \in Seq(Seq(B)) /\ Joined(p1) = SubSeq(s, 1, w)
  <2>1. 0 \in Nat /\ 0 + words * W <= Len(s) BY <1>2
  <2>2. Cut(s, 0, W, words) \in Seq(Seq(B))
        /\ Joined(Cut(s, 0, W, words)) = SubSeq(s, 0 + 1, 0 + words * W)
    <3> DEFINE o == 0
    <3>1. o \in Nat /\ o + words * W <= Len(s) BY <2>1
    <3> HIDE DEF words, W, o
    <3>3. \A m \in Nat : o + m * W <= Len(s) =>
            /\ Cut(s, o, W, m) \in Seq(Seq(B))
            /\ Joined(Cut(s, o, W, m)) = SubSeq(s, o + 1, o + m * W)
      <4> HIDE DEF N, w, rest, half, done, r, p1, p2, p3
      <4>1. o \in Nat /\ W \in Nat BY <3>1, <1>0
      <4> QED BY <4>1, CutJoined
    <3>2. Cut(s, o, W, words) \in Seq(Seq(B))
          /\ Joined(Cut(s, o, W, words)) = SubSeq(s, o + 1, o + words * W)
      BY <3>1, <1>2, <3>3
    <3> QED BY <3>2 DEF o
  <2>3. Cut(s, 0, W, words) = p1
    <3>1. ASSUME NEW k \in 1..words
          PROVE  0 + (k - 1) * W + 1 = (k - 1) * W + 1 /\ 0 + k * W = k * W
      <4> HIDE DEF words, W
      <4> QED BY <1>0, <1>2
    <3> QED BY <3>1 DEF Cut
  <2>4. 0 + 1 = 1 /\ 0 + words * W = w BY <1>2
  <2> HIDE DEF p1, w, words
  <2> QED BY <2>2, <2>3, <2>4
<1>5. p2 \in Seq(Seq(B)) /\ Joined(p2) = SubSeq(s, w + 1, done)
  <2> HIDE DEF w, rest
  <2> DEFINE y == SubSeq(s, w + 1, done)
  <2>1. CASE half > 0
    <3>1. done <= Len(s) BY <1>3, <1>0
    <3>2. y \in Seq(B)
      <4> HIDE DEF done
      <4> QED BY <3>1, <1>2, <1>3, Pieces
    <3>3. p2 = Append(<<>>, y) BY <2>1
    <3> HIDE DEF y, p2
    <3>4. Joined(Append(<<>>, y)) = Joined(<<>>) \o y
      <4>1. <<>> \in Seq(Seq(B)) OBVIOUS
      <4> QED BY <4>1, <3>2, JoinedOneMore
    <3>5. <<>> \o y = y BY <3>2
    <3>7. Append(<<>>, y) \in Seq(Seq(B)) BY <3>2
    <3>6. p2 \in Seq(Seq(B)) /\ Joined(p2) = y BY <3>3, <3>4, <3>5, <3>7, JoinedEmpty
    <3> QED BY <3>6 DEF y
  <2>2. CASE ~(half > 0)
    <3>1. done = w /\ p2 = <<>> BY <1>2, <1>3, <2>2
    <3>2. SubSeq(s, w + 1, w) = <<>> BY <1>2, SubSeqEmpty
    <3>3. <<>> \in Seq(Seq(B)) OBVIOUS
    <3> HIDE DEF done, p2
    <3> QED BY <3>1, <3>2, <3>3, JoinedEmpty
  <2> QED BY <2>1, <2>2
<1>6. p3 \in Seq(Seq(B)) /\ Joined(p3) = SubSeq(s, done + 1, N)
  <2> HIDE DEF done, r
  <2>1. r * 1 = r /\ done + r * 1 <= Len(s) /\ done + r * 1 = N BY <1>0, <1>3
  <2>2. Cut(s, done, 1, r) \in Seq(Seq(B))
        /\ Joined(Cut(s, done, 1, r)) = SubSeq(s, done + 1, done + r * 1)
    <3> DEFINE one == 1
    <3>1. one \in Nat /\ done + r * one <= Len(s) BY <2>1
    <3> HIDE DEF one
    <3>3. \A m \in Nat : done + m * one <= Len(s) =>
            /\ Cut(s, done, one, m) \in Seq(Seq(B))
            /\ Joined(Cut(s, done, one, m)) = SubSeq(s, done + 1, done + m * one)
      <4>1. one \in Nat /\ done \in Nat BY <3>1, <1>3
      <4> HIDE DEF N, W, words, w, rest, half, r, p1, p2, p3
      <4> QED BY <4>1, CutJoined
    <3>2. Cut(s, done, one, r) \in Seq(Seq(B))
          /\ Joined(Cut(s, done, one, r)) = SubSeq(s, done + 1, done + r * one)
      BY <3>1, <1>3, <3>3
    <3> QED BY <3>2 DEF one
  <2>3. ASSUME NEW k \in 1..r
        PROVE  SubSeq(s, done + (k - 1) * 1 + 1, done + k * 1) = <<s[done + k]>>
    <3>1. done + (k - 1) * 1 + 1 = done + k /\ done + k * 1 = done + k BY <1>3
    <3>2. done + k \in 1..Len(s) BY <1>0, <1>3
    <3> DEFINE x == done + k
    <3> HIDE DEF x
    <3>4. x \in 1..Len(s) BY <3>2 DEF x
    <3>5. SubSeq(s, x, x) = <<s[x]>>
      <4>1. SubSeq(s, x, x) = [i \in 1..(x - x + 1) |-> s[x + i - 1]] BY <3>4
      <4>2. x - x + 1 = 1 /\ x + 1 - 1 = x BY <3>4
      <4> QED BY <4>1, <4>2
    <3> QED BY <3>1, <3>5 DEF x
  <2>4. Cut(s, done, 1, r) = p3 BY <2>3 DEF Cut
  <2> HIDE DEF p3
  <2> QED BY <2>1, <2>2, <2>4
<1> HIDE DEF p1, p2, p3, done
<1>7. p1 \o p2 \in Seq(Seq(B)) /\ p1 \o p2 \o p3 \in Seq(Seq(B)) BY <1>4, <1>5, <1>6
<1>8. Joined(p1 \o p2 \o p3) = (Joined(p1) \o Joined(p2)) \o Joined(p3)
  <2>1. Joined(p1 \o p2) = Joined(p1) \o Joined(p2) BY <1>4, <1>5, JoinedConcat
  <2> DEFINE q == p1 \o p2
  <2>2. q \in Seq(Seq(B)) BY <1>7
  <2> HIDE DEF q
  <2>3. Joined(q \o p3) = Joined(q) \o Joined(p3) BY <2>2, <1>6, JoinedConcat
  <2> QED BY <2>1, <2>3 DEF q
<1>9. SubSeq(s, 1, w) \o SubSeq(s, w + 1, done) = SubSeq(s, 1, done)
  <2>1. 1 \in 1..(Len(s) + 1) /\ w \in (1 - 1)..Len(s) /\ done \in w..Len(s)
    <3> HIDE DEF w
    <3> QED BY <1>0, <1>2, <1>3
  <2> HIDE DEF w
  <2> QED BY <2>1, ConcatAdjacentSubSeq
<1>10. SubSeq(s, 1, done) \o SubSeq(s, done + 1, N) = SubSeq(s, 1, N)
  <2>1. 1 \in 1..(Len(s) + 1) /\ done \in (1 - 1)..Len(s) /\ N \in done..Len(s)
    BY <1>0, <1>2, <1>3
  <2> QED BY <2>1, ConcatAdjacentSubSeq
<1>11. SubSeq(s, 1, N) = s OBVIOUS
<1> QED BY <1>1, <1>4, <1>5, <1>6, <1>7, <1>8, <1>9, <1>10, <1>11

\* What is mixed into the digest is the content, in order.
THEOREM MixedIsContent ==
  ASSUME NEW B, NEW s \in Seq(B), NEW h, HashOf(h, s, B)
  PROVE  Mixed(Digest(h)) = s /\ Digest(h).size = Len(s)
<1> DEFINE L == StripeSize
           N == Len(s)
           b == h.buffered
           rest == SubSeq(h.buffer, 1, b)
<1>0. L \in Nat \ {0} /\ N \in Nat BY StripesAssumption
<1>1. /\ h.total = N /\ b < L /\ b \in Nat /\ h.buffer \in [1..L -> B]
  BY DEF HashOf, HashRecords
<1>2. PICK n \in Nat : /\ n * L + b = N
                       /\ h.absorbed = StripesOf(s, n)
                       /\ \A i \in 1..b : h.buffer[i] = s[n * L + i]
  BY DEF HashOf
<1> DEFINE k == n * L
<1>3. k \in Nat /\ k <= N /\ k + b = N
  <2>1. k \in Nat BY <1>0, Multiples
  <2> HIDE DEF N, b
  <2>2. k + b = N BY <1>2
  <2> HIDE DEF k
  <2> QED BY <2>1, <2>2, <1>0, <1>1
<1>4. h.absorbed \in Seq(Seq(B)) /\ Joined(h.absorbed) = SubSeq(s, 1, k)
  BY <1>2, <1>3, StripesTyped
<1>5. Digest(h).stripes = h.absorbed
  <2>1. CASE h.total >= L BY <2>1 DEF Digest
  <2>2. CASE ~(h.total >= L)
    <3>1. n = 0
      <4>1. SUFFICES ASSUME n # 0 PROVE FALSE OBVIOUS
      <4>2. L <= k
        <5>1. 0 < n /\ 0 \in Nat BY <4>1
        <5>2. 0 * L + L <= n * L BY <5>1, <1>0, Multiples
        <5> QED BY <5>2, <1>0
      <4> HIDE DEF k
      <4> QED BY <4>2, <2>2, <1>0, <1>1, <1>3
    <3>2. StripesOf(s, 0) = <<>> BY DEF StripesOf
    <3> QED BY <3>1, <3>2, <2>2, <1>2 DEF Digest
  <2> QED BY <2>1, <2>2
<1> HIDE DEF k
<1>6. rest \in Seq(B) /\ rest = SubSeq(s, k + 1, N)
  <2> DEFINE q == h.buffer
             o == 0
             x == SubSeq(q, o + 1, b)
             y == SubSeq(s, k + 1, N)
  <2>1. q \in Seq(B) /\ Len(q) = L BY <1>0, <1>1
  <2>2. o \in Nat /\ o <= b /\ b <= L /\ b - o = b BY <1>0, <1>1
  <2>3. x = rest /\ o + 1 = 1 /\ \A i \in 1..b : o + i = i OBVIOUS
  <2>6. N - k = b /\ N <= Len(s) BY <1>1, <1>3, <1>0
  <2> HIDE DEF q, o, b, N
  <2>4. x \in Seq(B) /\ Len(x) = b /\ \A i \in 1..b : x[i] = q[o + i]
    BY <1>0, <1>1, <2>1, <2>2, Pieces
  <2>5. y \in Seq(B) /\ Len(y) = b /\ \A i \in 1..b : y[i] = s[k + i]
    BY <1>0, <1>3, <2>6, Pieces
  <2> HIDE DEF x, y
  <2>7. ASSUME NEW i \in 1..b PROVE x[i] = y[i]
    <3>1. x[i] = q[i] BY <2>4, <2>3
    <3>2. q[i] = s[k + i] BY <1>2 DEF q, b, k
    <3> QED BY <3>1, <3>2, <2>5
  <2>8. x = y BY <2>4, <2>5, <2>7, SeqEqual
  <2> QED BY <2>3, <2>4, <2>8 DEF y
<1> HIDE DEF rest
<1>7. Joined(Digest(h).words) = rest
  <2>1. Digest(h).words = Words(rest) BY DEF Digest, rest
  <2> QED BY <2>1, <1>6, WordsJoined
<1>8. SubSeq(s, 1, k) \o SubSeq(s, k + 1, N) = s
  <2>1. 1 \in 1..(Len(s) + 1) /\ k \in (1 - 1)..Len(s) /\ N \in k..Len(s) BY <1>0, <1>3
  <2>2. SubSeq(s, 1, k) \o SubSeq(s, k + 1, N) = SubSeq(s, 1, N) BY <2>1, ConcatAdjacentSubSeq
  <2>3. SubSeq(s, 1, N) = s OBVIOUS
  <2> QED BY <2>2, <2>3
<1>9. Digest(h).size = N BY <1>1 DEF Digest
<1>10. Mixed(Digest(h)) = s BY <1>4, <1>5, <1>6, <1>7, <1>8 DEF Mixed
<1> QED BY <1>9, <1>10

\* The digest of content that came in pieces is that of the content in one piece.
THEOREM DigestOfPieces ==
  ASSUME NEW B, NoByte \in B, NEW s \in Seq(B), NEW h, HashOf(h, s, B)
  PROVE  Digest(h) = DigestOf(s)
<1> DEFINE none == <<>>
<1>1. HashOf(Fresh, none, B) BY FreshHolds
<1>2. none \in Seq(B) /\ none \o s = s OBVIOUS
<1> HIDE DEF none
<1>3. HashOf(Updated(Fresh, s), none \o s, B) BY <1>1, <1>2, UpdatedHolds
<1>4. HashOf(Updated(Fresh, s), s, B) BY <1>2, <1>3
<1> QED BY <1>4, DigestUnique DEF DigestOf
----------------------------------------------------------------------------
(* Wires.                                                                  *)

\* What the encoder sends, over bytes of B.
HeaderParts ==
  {Header(size, window, checksum) :
     size \in Nat \cup {UnknownSize}, window \in Nat, checksum \in BOOLEAN}

BlockParts ==
  {BlockHeader(type, size, last) :
     type \in {"raw", "run_length", "compressed"}, size \in Nat, last \in BOOLEAN}

PayloadParts(B) == {Payload(length, bytes) : length \in Nat, bytes \in Seq(B)}

ChecksumParts(B) == {Checksum(Digest(h)) : h \in HashRecords(B)}

Parts(B) == HeaderParts \cup BlockParts \cup PayloadParts(B) \cup ChecksumParts(B)

PlacedParts(B) == {Placed(part, at) : part \in Parts(B), at \in Nat}

\* The fields of a placed header,
LEMMA HeaderPlaced ==
  ASSUME NEW a, NEW c, NEW w, NEW s, NEW r, r = Placed(Header(c, w, s), a)
  PROVE  r.at = a /\ r.kind = "header" /\ r.length = 2 /\ r.contentSize = c
         /\ r.window = w /\ r.checksum = s
BY DEF Placed, Header

\* of a block header,
LEMMA BlockPlaced ==
  ASSUME NEW a, NEW t, NEW n, NEW l, NEW r, r = Placed(BlockHeader(t, n, l), a)
  PROVE  r.at = a /\ r.kind = "block" /\ r.length = 1 /\ r.last = l
BY DEF Placed, BlockHeader

\* of a payload
LEMMA PayloadPlaced ==
  ASSUME NEW a, NEW l, NEW b, NEW r, r = Placed(Payload(l, b), a)
  PROVE  r.at = a /\ r.kind = "payload" /\ r.length = l /\ r.bytes = b
BY DEF Placed, Payload

\* and of a checksum.
LEMMA ChecksumPlaced ==
  ASSUME NEW a, NEW d, NEW r, r = Placed(Checksum(d), a)
  PROVE  r.at = a /\ r.kind = "checksum" /\ r.length = 1 /\ r.of = d
BY DEF Placed, Checksum

\* The types of a placed part's fields.
LEMMA PartsTyped ==
  ASSUME NEW B, NEW r \in PlacedParts(B)
  PROVE  /\ r.at \in Nat /\ r.length \in Nat
         /\ r.kind \in {"header", "block", "payload", "checksum"}
         /\ BytesOf(r) \in Seq(B)
<1>1. PICK part \in Parts(B), at \in Nat : r = Placed(part, at) BY DEF PlacedParts
<1>0. <<>> \in Seq(B) OBVIOUS
<1>2. CASE \E c, w, s : part = Header(c, w, s)
  <2>1. PICK c, w, s : r = Placed(Header(c, w, s), at) BY <1>1, <1>2
  <2> QED BY <2>1, <1>0, HeaderPlaced DEF BytesOf
<1>3. CASE \E t, n, l : part = BlockHeader(t, n, l)
  <2>1. PICK t, n, l : r = Placed(BlockHeader(t, n, l), at) BY <1>1, <1>3
  <2> QED BY <2>1, <1>0, BlockPlaced DEF BytesOf
<1>4. CASE \E l \in Nat, b \in Seq(B) : part = Payload(l, b)
  <2>1. PICK l \in Nat, b \in Seq(B) : r = Placed(Payload(l, b), at) BY <1>1, <1>4
  <2> QED BY <2>1, PayloadPlaced DEF BytesOf
<1>5. CASE \E d : part = Checksum(d)
  <2>1. PICK d : r = Placed(Checksum(d), at) BY <1>1, <1>5
  <2> QED BY <2>1, <1>0, ChecksumPlaced DEF BytesOf
<1> QED BY <1>2, <1>3, <1>4, <1>5
         DEF Parts, HeaderParts, BlockParts, PayloadParts, ChecksumParts

\* What a wire with one more part decodes to.
THEOREM ContentExtended ==
  ASSUME NEW B, NEW S, \A r \in S : BytesOf(r) \in Seq(B),
         NEW w \in Seq(S), NEW r \in S
  PROVE  /\ ContentOf(w, 1, Len(w)) \in Seq(B)
         /\ ContentOf(Append(w, r), 1, Len(w) + 1) = ContentOf(w, 1, Len(w)) \o BytesOf(r)
<1> DEFINE n == Len(w)
           v == Append(w, r)
           P == [i \in 1..n |-> BytesOf(w[i])]
           Q == [i \in 1..(n + 1) |-> BytesOf(v[i])]
<1>0. n \in Nat /\ \A i \in 1..n : w[i] \in S
  <2>1. \A i \in 1..n : w[i] \in S BY ElementOfSeq
  <2> QED BY <2>1
<1>1. v \in Seq(S) /\ Len(v) = n + 1 /\ v[n + 1] = r /\ \A i \in 1..n : v[i] = w[i]
  OBVIOUS
<1> HIDE DEF n, v
<1>2. P \in Seq(Seq(B)) /\ Len(P) = n BY <1>0
<1>3. Q = Append(P, BytesOf(r))
  <2> DEFINE b == BytesOf(r)
             a == Append(P, b)
  <2>1. b \in Seq(B) OBVIOUS
  <2>2. \A i \in 1..n : P[i] = BytesOf(w[i]) OBVIOUS
  <2> HIDE DEF P, b
  <2>3. a \in Seq(Seq(B)) /\ Len(a) = n + 1 /\ a[n + 1] = b /\ \A i \in 1..n : a[i] = P[i]
    BY <2>1, <1>2
  <2> HIDE DEF a
  <2>4. ASSUME NEW i \in 1..(n + 1) PROVE a[i] = BytesOf(v[i])
    <3>1. CASE i = n + 1 BY <3>1, <2>3, <1>1 DEF b
    <3>2. CASE i \in 1..n BY <3>2, <2>2, <2>3, <1>1
    <3> QED BY <3>1, <3>2, <1>0
  <2>5. a = [i \in 1..(n + 1) |-> a[i]] BY <2>3, <1>0
  <2>6. a = Q BY <2>4, <2>5
  <2> QED BY <2>6 DEF a, b
<1>4. ContentOf(w, 1, n) = FlattenSeq(P)
  <2>1. n - 1 + 1 = n /\ \A i \in 1..n : 1 + i - 1 = i BY <1>0
  <2>2. [i \in 1..(n - 1 + 1) |-> BytesOf(w[1 + i - 1])] = P BY <2>1
  <2> HIDE DEF P
  <2> QED BY <2>2 DEF ContentOf
<1>5. ContentOf(v, 1, n + 1) = FlattenSeq(Q)
  <2> DEFINE m == n + 1
             R == [i \in 1..m |-> BytesOf(v[i])]
  <2>0. m \in Nat BY <1>0
  <2> HIDE DEF m
  <2>1. m - 1 + 1 = m /\ \A i \in 1..m : 1 + i - 1 = i BY <2>0
  <2>2. [i \in 1..(m - 1 + 1) |-> BytesOf(v[1 + i - 1])] = R BY <2>1
  <2> HIDE DEF R
  <2>3. ContentOf(v, 1, m) = FlattenSeq(R) BY <2>2 DEF ContentOf
  <2> QED BY <2>3 DEF m, R
<1> DEFINE b == BytesOf(r)
<1>6. b \in Seq(B) OBVIOUS
<1> HIDE DEF P, Q, b
<1>7. Append(P, b) \in Seq(Seq(B)) BY <1>2, <1>6
<1>8. FlattenSeq(P) = Joined(P) /\ FlattenSeq(Append(P, b)) = Joined(Append(P, b))
  BY <1>2, <1>7, FlattenIsJoined
<1>9. Joined(Append(P, b)) = Joined(P) \o b /\ Joined(P) \in Seq(B)
  BY <1>2, <1>6, JoinedOneMore, JoinedTyped
<1> QED BY <1>3, <1>4, <1>5, <1>8, <1>9 DEF b, n, v

\* A wire of parts over B decodes to a sequence of B.
LEMMA ContentTyped ==
  ASSUME NEW B, NEW S, \A r \in S : BytesOf(r) \in Seq(B), NEW w \in Seq(S)
  PROVE  ContentOf(w, 1, Len(w)) \in Seq(B)
<1> DEFINE n == Len(w)
           P == [i \in 1..n |-> BytesOf(w[i])]
<1>0. n \in Nat /\ \A i \in 1..n : w[i] \in S
  <2>1. \A i \in 1..n : w[i] \in S BY ElementOfSeq
  <2> QED BY <2>1
<1> HIDE DEF n
<1>1. P \in Seq(Seq(B)) BY <1>0
<1>2. ContentOf(w, 1, n) = FlattenSeq(P)
  <2>1. n - 1 + 1 = n /\ \A i \in 1..n : 1 + i - 1 = i BY <1>0
  <2>2. [i \in 1..(n - 1 + 1) |-> BytesOf(w[1 + i - 1])] = P BY <2>1
  <2> HIDE DEF P
  <2> QED BY <2>2 DEF ContentOf
<1> HIDE DEF P
<1> QED BY <1>1, <1>2, FlattenIsJoined, JoinedTyped DEF n

\* A wire without parts decodes to nothing.
LEMMA ContentEmpty == ContentOf(<<>>, 1, 0) = <<>>
<1> DEFINE P == [i \in 1..(0 - 1 + 1) |-> BytesOf(<<>>[1 + i - 1])]
<1>1. P = <<>>
  <2>1. 1..(0 - 1 + 1) = {} OBVIOUS
  <2> QED BY <2>1
<1>2. <<>> \in Seq(Seq(Nat)) OBVIOUS
<1>3. FlattenSeq(<<>>) = <<>> BY <1>2, FlattenIsJoined, JoinedEmpty
<1> QED BY <1>1, <1>3 DEF ContentOf
=============================================================================
