-------------------------- MODULE OptimalParseProofs --------------------------
(***************************************************************************)
(* What OptimalParse's run checks, for every block, window, candidate and  *)
(* price: sequences cover their block, paths lead back to where a series   *)
(* began, a match is decoded at the distance it was found at, and          *)
(* partitions tile the block.                                              *)
(*                                                                         *)
(* A trace of a list of sequences is where each of them ends and what      *)
(* repeat offsets it leaves.  The invariant says that the sequences of the *)
(* block have one (Parsing), and of each node which other its last match   *)
(* was found at (WellMade): the node in hand or an earlier one, and a      *)
(* series writes only later ones, so a path stays what it was.             *)
(***************************************************************************)
EXTENDS OptimalParse, FiniteSetTheorems, WellFoundedInduction, SequenceTheorems, TLAPS

----------------------------------------------------------------------------
(* Traces.                                                                 *)

States == [at : Nat, repeats : Histories]
Steps  == [literals : Nat, length : Nat \ {0}, base : Nat \ {0}, distance : Int]

\* The parser behind sequence s, when it was in that state before it.
After(state, s) ==
  [at      |-> state.at + s.literals + s.length,
   repeats |-> UpdateOptimalRepeats(state.repeats, s.base, s.literals = 0)]

\* The sequence's match copies from what its base means there.
Fits(state, s) == s.distance = ResolveOptimalOffset(state.repeats, s.base, s.literals = 0)

IsTrace(list, state, trace) ==
  /\ trace \in [0..Len(list) -> States] /\ trace[0] = state
  /\ \A i \in 1..Len(list) : Fits(trace[i - 1], list[i]) /\ trace[i] = After(trace[i - 1], list[i])

\* The list leads from one state to another.
Leads(list, state, last) ==
  \E trace \in [0..Len(list) -> States] :
    IsTrace(list, state, trace) /\ trace[Len(list)] = last

----------------------------------------------------------------------------
(* The invariant.                                                          *)

Nodes ==
  [reached : BOOLEAN, length : Nat, literals : Nat, base : Nat, repeats : Histories,
   distance : Int]
Matches == [base : Nat \ {0}, length : Nat \ {0}, distance : Int]

InAnySeries == phase \in {"relax", "look", "select"}

TypeOK ==
  /\ strategy \in Strategies /\ seeded \in BOOLEAN
  /\ repeats \in Histories /\ blockRepeats \in Histories
  /\ begin \in Nat /\ end \in Nat /\ position \in Nat /\ anchor \in Nat
  /\ paths \in [0..PathWindow -> Nodes]
  /\ local \in Nat /\ frontier \in Nat /\ selected \in Nat /\ initialized \in Nat
  /\ candidates \in Seq(Matches) /\ sequences \in Seq(Steps)
  /\ phase \in {"idle", "scan", "relax", "look", "select", "parsed", "split"}
  /\ pending \in Seq(Seq(Nat)) /\ ends \in Seq(Nat)

InBlock ==
  /\ begin <= anchor /\ anchor <= position /\ position <= end
  /\ phase # "idle" \/ ends # <<>> => begin < end

\* The sequences lead from the start of the block to where the parser is.
Origin  == [at |-> begin, repeats |-> blockRepeats]
Here    == [at |-> anchor, repeats |-> repeats]
Parsing == Leads(sequences, Origin, Here)

\* The path to a node is literals alone, or ends with a match, which was found at the
\* node in hand or an earlier one, and literals.
From(n) == n - paths[n].literals - paths[n].length

FoundAt(node, from) ==
  /\ node.base # 0
  /\ node.repeats = UpdateOptimalRepeats(from.repeats, node.base, from.literals = 0)
  /\ node.distance = ResolveOptimalOffset(from.repeats, node.base, from.literals = 0)

WellMade(n) ==
  \/ /\ paths[n].length = 0 /\ paths[n].literals = n + InitialLiterals
     /\ paths[n].repeats = repeats
  \/ /\ paths[n].length > 0 /\ From(n) \in 0..local
     /\ paths[From(n)].reached /\ FoundAt(paths[n], paths[From(n)])

Reached(n) == n <= initialized /\ paths[n].reached

NodesAreMade ==
  \A n \in 0..initialized :
    IF paths[n].reached THEN WellMade(n) ELSE paths[n] = Unreached

\* What a series has come to.
Frontier ==
  /\ selected = IF frontier = 0 THEN 1 ELSE frontier
  /\ Reached(frontier) /\ Reached(local) /\ Reached(0)
  /\ local >= 1 => Reached(1)
  /\ phase = "look" => Reached(local + 1) /\ local < WindowSize /\ (local = 0 \/ local <= frontier)
  /\ phase = "select" => local >= 1

Series ==
  InAnySeries =>
    /\ position < ParseEnd /\ initialized <= WindowSize
    /\ candidates \in Found(position, repeats, position = anchor) \ {<<>>}
    /\ NodesAreMade /\ Frontier

\* Ranges and cuts wait in the order of the sequences, behind the cuts already made.
Low(e)  == e[1]
High(e) == e[Len(e)]

IsCut(e)   == Len(e) = 1 /\ e[1] \in 1..(Len(sequences) - 1)
IsRange(e) == Len(e) = 2 /\ e[1] <= e[2] /\ e[2] <= Len(sequences)

Ordered(e, f) == High(e) <= Low(f) /\ (IsCut(e) /\ IsCut(f) => High(e) < Low(f))

Increasing(list) == \A i, j \in DOMAIN list : i < j => list[i] < list[j]

Splitting ==
  phase = "split" =>
    /\ \A i \in DOMAIN pending : IsCut(pending[i]) \/ IsRange(pending[i])
    /\ \A i, j \in DOMAIN pending : i < j => Ordered(pending[i], pending[j])
    /\ \A k \in DOMAIN ends : ends[k] \in 1..(Len(sequences) - 1)
    /\ \A k \in DOMAIN ends, i \in DOMAIN pending : Ordered(<<ends[k]>>, pending[i])
    /\ Increasing(ends) /\ Len(ends) <= MaxSplits

Parted ==
  /\ phase \notin {"idle", "split"} => ends = <<>>
  /\ phase = "idle" /\ ends # <<>> =>
       /\ Increasing(ends) /\ Len(ends) <= MaxSplits + 1
       /\ ends[Len(ends)] = Len(sequences)
       /\ \A k \in 1..(Len(ends) - 1) : ends[k] >= 1

IInv == TypeOK /\ InBlock /\ Parsing /\ Series /\ Splitting /\ Parted

----------------------------------------------------------------------------
(* Induction, for a set in place of a predicate.                           *)

\* Naturals have a least element: the order of 0..n by inclusion is well-founded.
LEMMA LeastNatural ==
  ASSUME NEW T, T \subseteq Nat, T # {}
  PROVE  \E n \in T : \A m \in T : n <= m
<1> DEFINE Below == {0..n : n \in T}
<1>1. IsWellFoundedOn(StrictSubsetOrdering(Nat), FiniteSubsetsOf(Nat))
  BY FS_StrictSubsetOrderingWellFounded
<1>2. Below \subseteq FiniteSubsetsOf(Nat)
  <2>1. ASSUME NEW n \in T PROVE 0..n \in FiniteSubsetsOf(Nat)
    <3>1. IsFiniteSet(0..n) BY FS_Interval
    <3>2. 0..n \in SUBSET Nat OBVIOUS
    <3> QED BY <3>1, <3>2 DEF FiniteSubsetsOf
  <2> QED BY <2>1
<1>3. Below # {} OBVIOUS
<1>4. \E x \in Below : \A y \in Below : ~ (<<y, x>> \in StrictSubsetOrdering(Nat))
  <2> HIDE DEF Below
  <2> QED BY <1>1, <1>2, <1>3, WFMin
<1>5. PICK n \in T : \A y \in Below : ~ (<<y, 0..n>> \in StrictSubsetOrdering(Nat))
  BY <1>4
<1>6. ASSUME NEW m \in T PROVE n <= m
  <2>1. ~ (<<0..m, 0..n>> \in StrictSubsetOrdering(Nat)) BY <1>5
  <2>2. SUFFICES ASSUME m < n PROVE FALSE OBVIOUS
  <2>3. 0..m \subseteq 0..n /\ 0..m # 0..n
    <3>1. n \in 0..n /\ n \notin 0..m BY <2>2
    <3> QED BY <3>1, <2>2
  <2>4. 0..m \in SUBSET Nat /\ 0..n \in SUBSET Nat OBVIOUS
  <2> QED BY <2>1, <2>3, <2>4 DEF StrictSubsetOrdering
<1> QED BY <1>6

\* What holds of n whenever it holds of all before it holds of all.
LEMMA Induction ==
  ASSUME NEW T, \A n \in Nat : (\A m \in Nat : m < n => m \in T) => n \in T
  PROVE  \A n \in Nat : n \in T
<1> SUFFICES ASSUME NEW n \in Nat, n \notin T PROVE FALSE OBVIOUS
<1> DEFINE Out == {m \in Nat : m \notin T}
<1>1. PICK m \in Out : \A k \in Out : m <= k
  <2>1. Out \subseteq Nat /\ Out # {} OBVIOUS
  <2> HIDE DEF Out
  <2> QED BY <2>1, LeastNatural
<1>2. m \in Nat /\ m \notin T OBVIOUS
<1>3. \A k \in Nat : k < m => k \in T BY <1>1
<1> QED BY <1>2, <1>3

----------------------------------------------------------------------------
(* Traces.                                                                 *)

LEMMA UpdateType ==
  ASSUME NEW r \in Histories, NEW base \in Nat \ {0}, NEW noLiterals \in BOOLEAN
  PROVE  /\ UpdateOptimalRepeats(r, base, noLiterals) \in Histories
         /\ ResolveOptimalOffset(r, base, noLiterals) \in Int
BY DEF UpdateOptimalRepeats, ResolveOptimalOffset, RepeatCode, Histories

LEMMA AfterType ==
  ASSUME NEW state \in States, NEW s \in Steps
  PROVE  After(state, s) \in States
<1>1. UpdateOptimalRepeats(state.repeats, s.base, s.literals = 0) \in Histories
  BY UpdateType DEF States, Steps
<1>2. state.at + s.literals + s.length \in Nat BY DEF States, Steps
<1> QED BY <1>1, <1>2 DEF After, States

\* No sequences lead nowhere else.
LEMMA NoSteps ==
  ASSUME NEW state \in States
  PROVE  Leads(<<>>, state, state) /\ \A last : Leads(<<>>, state, last) => last = state
<1>1. Len(<<>>) = 0 OBVIOUS
<1> DEFINE trace == [i \in 0..0 |-> state]
<1>2. trace \in [0..0 -> States] /\ IsTrace(<<>>, state, trace) /\ trace[0] = state
  BY <1>1 DEF IsTrace
<1>3. Leads(<<>>, state, state)
  <2> HIDE DEF trace
  <2> QED BY <1>1, <1>2 DEF Leads
<1>4. \A last : Leads(<<>>, state, last) => last = state
  BY <1>1 DEF Leads, IsTrace
<1> QED BY <1>3, <1>4

\* One list behind another leads where the second does.
LEMMA StepsOn ==
  ASSUME NEW a \in Seq(Steps), NEW b \in Seq(Steps), NEW s, NEW t, NEW u,
         Leads(a, s, t), Leads(b, t, u)
  PROVE  Leads(a \o b, s, u)
<1> DEFINE n == Len(a)
           m == Len(b)
           c == a \o b
<1>0. n \in Nat /\ m \in Nat OBVIOUS
<1>1. PICK f \in [0..n -> States] : IsTrace(a, s, f) /\ f[n] = t BY DEF Leads
<1>2. PICK g \in [0..m -> States] : IsTrace(b, t, g) /\ g[m] = u BY DEF Leads
<1>3. /\ c \in Seq(Steps) /\ Len(c) = n + m
      /\ \A i \in 1..n : c[i] = a[i]
      /\ \A i \in (n + 1)..(n + m) : c[i] = b[i - n]
  OBVIOUS
<1>4. /\ f[0] = s
      /\ \A i \in 1..n : Fits(f[i - 1], a[i]) /\ f[i] = After(f[i - 1], a[i])
  BY <1>1 DEF IsTrace
<1>5. /\ g[0] = t
      /\ \A i \in 1..m : Fits(g[i - 1], b[i]) /\ g[i] = After(g[i - 1], b[i])
  BY <1>2 DEF IsTrace
<1> HIDE DEF n, m, c
<1> DEFINE h == [i \in 0..(n + m) |-> IF i <= n THEN f[i] ELSE g[i - n]]
<1>6. h \in [0..(n + m) -> States]
  <2>1. ASSUME NEW i \in 0..(n + m) PROVE (IF i <= n THEN f[i] ELSE g[i - n]) \in States
    <3>1. CASE i <= n
      <4>1. i \in 0..n BY <1>0, <3>1
      <4> QED BY <3>1, <4>1
    <3>2. CASE ~(i <= n)
      <4>1. i - n \in 0..m BY <1>0, <3>2
      <4> QED BY <3>2, <4>1
    <3> QED BY <3>1, <3>2
  <2> QED BY <2>1
<1>7. h[0] = s BY <1>0, <1>4
<1>8. h[n + m] = u
  <2>1. CASE m = 0 BY <2>1, <1>0, <1>1, <1>2, <1>5
  <2>2. CASE m # 0
    <3>1. ~(n + m <= n) /\ n + m \in 0..(n + m) /\ (n + m) - n = m BY <2>2, <1>0
    <3> QED BY <3>1, <1>2
  <2> QED BY <2>1, <2>2
<1>9. ASSUME NEW i \in 1..(n + m)
      PROVE  Fits(h[i - 1], c[i]) /\ h[i] = After(h[i - 1], c[i])
  <2>1. CASE i <= n
    <3>1. i \in 1..n /\ i - 1 \in 0..(n + m) /\ i \in 0..(n + m) /\ i - 1 <= n BY <2>1, <1>0
    <3>2. h[i] = f[i] /\ h[i - 1] = f[i - 1] BY <2>1, <3>1
    <3> HIDE DEF h
    <3> QED BY <3>1, <3>2, <1>3, <1>4
  <2>2. CASE i > n
    <3> DEFINE k == i - n
    <3>1. k \in 1..m /\ i \in (n + 1)..(n + m) /\ i - 1 \in 0..(n + m) /\ i \in 0..(n + m)
          /\ ~(i <= n) /\ (i - 1) - n = k - 1
      BY <2>2, <1>0
    <3>2. h[i] = g[k] BY <3>1
    <3>3. h[i - 1] = g[k - 1]
      <4>1. CASE k = 1
        <5>1. i - 1 = n /\ k - 1 = 0 BY <4>1, <1>0
        <5>2. h[n] = f[n] BY <1>0
        <5> QED BY <5>1, <5>2, <1>1, <1>5
      <4>2. CASE k # 1
        <5>1. ~(i - 1 <= n) BY <4>2, <1>0, SMTT(30)
        <5> QED BY <5>1, <3>1
      <4> QED BY <4>1, <4>2
    <3>4. c[i] = b[k] BY <3>1, <1>3
    <3> HIDE DEF h, k
    <3> QED BY <3>1, <3>2, <3>3, <3>4, <1>5
  <2> QED BY <2>1, <2>2, <1>0
<1> HIDE DEF h
<1>10. IsTrace(c, s, h) BY <1>3, <1>6, <1>7, <1>9 DEF IsTrace
<1>11. Leads(c, s, u) BY <1>3, <1>6, <1>8, <1>10 DEF Leads
<1> QED BY <1>11 DEF c

\* One more sequence.
LEMMA StepOn ==
  ASSUME NEW a \in Seq(Steps), NEW s, NEW t \in States, NEW x \in Steps,
         Leads(a, s, t), Fits(t, x)
  PROVE  Leads(Append(a, x), s, After(t, x)) /\ Leads(a \o <<x>>, s, After(t, x))
<1> DEFINE b == <<x>>
           u == After(t, x)
           g == [i \in 0..1 |-> IF i = 0 THEN t ELSE u]
<1>1. b \in Seq(Steps) /\ Len(b) = 1 /\ b[1] = x OBVIOUS
<1>2. u \in States BY AfterType
<1> HIDE DEF b, u
<1>3. g \in [0..1 -> States] /\ g[0] = t /\ g[1] = u BY <1>2
<1> HIDE DEF g
<1>4. IsTrace(b, t, g)
  <2>1. \A i \in 1..1 : i = 1 /\ i - 1 = 0 OBVIOUS
  <2> QED BY <1>1, <1>3, <2>1 DEF IsTrace, u
<1>5. Leads(b, t, u) BY <1>1, <1>3, <1>4 DEF Leads
<1>6. Leads(a \o b, s, u) BY <1>1, <1>5, StepsOn
<1>7. a \o b = Append(a, x) BY DEF b
<1> QED BY <1>6, <1>7 DEF b, u

\* What a list of sequences stands for is how far it goes.
LEMMA BytesCounted ==
  ASSUME NEW list \in Seq(Steps), NEW p \in [0..Len(list) -> Nat],
         \A i \in 1..Len(list) : p[i] = p[i - 1] + list[i].literals + list[i].length
  PROVE  Bytes(list) = p[Len(list)] - p[0]
<1> DEFINE n == Len(list)
           sum == CHOOSE f : f = [i \in 0..n |->
                    IF i = 0 THEN 0 ELSE f[i - 1] + list[i].literals + list[i].length]
           w == [i \in 0..n |-> p[i] - p[0]]
<1>0. n \in Nat OBVIOUS
<1>1. ASSUME NEW i \in 1..n
      PROVE  /\ list[i].literals \in Nat /\ list[i].length \in Nat
             /\ p[i] \in Nat /\ p[i - 1] \in Nat /\ i \in 0..n /\ i - 1 \in 0..n
  <2>1. list[i] \in Steps OBVIOUS
  <2>2. i \in 0..n /\ i - 1 \in 0..n BY <1>0
  <2> QED BY <2>1, <2>2 DEF Steps
<1>2. w = [i \in 0..n |-> IF i = 0 THEN 0 ELSE w[i - 1] + list[i].literals + list[i].length]
  <2>1. ASSUME NEW i \in 0..n
        PROVE  p[i] - p[0] = IF i = 0 THEN 0 ELSE w[i - 1] + list[i].literals + list[i].length
    <3>0. p[0] \in Nat /\ p[i] \in Nat BY <1>0
    <3>1. CASE i = 0 BY <3>0, <3>1
    <3>2. CASE i # 0
      <4>1. i \in 1..n BY <3>2
      <4>2. w[i - 1] = p[i - 1] - p[0] BY <4>1, <1>1
      <4>3. p[i] = p[i - 1] + list[i].literals + list[i].length BY <4>1
      <4> HIDE DEF w
      <4> QED BY <3>0, <3>2, <4>1, <4>2, <4>3, <1>1
    <3> QED BY <3>1, <3>2
  <2> QED BY <2>1
<1>3. \E f : f = [i \in 0..n |-> IF i = 0 THEN 0 ELSE f[i - 1] + list[i].literals + list[i].length]
  <2> HIDE DEF w
  <2> QED BY <1>2
<1>4. sum = [i \in 0..n |-> IF i = 0 THEN 0 ELSE sum[i - 1] + list[i].literals + list[i].length]
  <2> HIDE DEF n
  <2> QED BY <1>3
<1>5. Bytes(list) = sum[n] BY DEF Bytes
<1> HIDE DEF sum, w
<1>6. sum[0] = 0 /\ \A i \in 1..n : sum[i] = sum[i - 1] + list[i].literals + list[i].length
  <2>1. 0 \in 0..n BY <1>0
  <2>2. sum[0] = 0 BY <1>4, <2>1
  <2>3. ASSUME NEW i \in 1..n PROVE sum[i] = sum[i - 1] + list[i].literals + list[i].length
    <3>1. i \in 0..n /\ i # 0 BY <1>0
    <3> QED BY <3>1, <1>4
  <2> QED BY <2>2, <2>3
<1> DEFINE T == {i \in Nat : i <= n => sum[i] = p[i] - p[0]}
<1>7. ASSUME NEW i \in Nat, \A k \in Nat : k < i => k \in T PROVE i \in T
  <2> SUFFICES ASSUME i <= n PROVE sum[i] = p[i] - p[0] OBVIOUS
  <2>0. p[0] \in Nat BY <1>0
  <2>1. CASE i = 0 BY <2>0, <2>1, <1>6
  <2>2. CASE i # 0
    <3>1. i \in 1..n /\ i - 1 \in Nat /\ i - 1 < i /\ i - 1 <= n BY <2>2, <1>0
    <3>2. sum[i - 1] = p[i - 1] - p[0] BY <3>1, <1>7
    <3>3. sum[i] = sum[i - 1] + list[i].literals + list[i].length BY <3>1, <1>6
    <3>4. p[i] = p[i - 1] + list[i].literals + list[i].length BY <3>1
    <3> QED BY <2>0, <3>1, <3>2, <3>3, <3>4, <1>1, SMTT(30)
  <2> QED BY <2>1, <2>2
<1> HIDE DEF T
<1>8. \A i \in Nat : i \in T BY <1>7, Induction
<1>9. sum[n] = p[n] - p[0] BY <1>0, <1>8 DEF T
<1> QED BY <1>5, <1>9

\* The same of a list that leads somewhere.
LEMMA BytesLead ==
  ASSUME NEW list \in Seq(Steps), NEW s \in States, NEW t \in States, Leads(list, s, t)
  PROVE  Bytes(list) = t.at - s.at
<1> DEFINE n == Len(list)
<1>0. n \in Nat OBVIOUS
<1>1. PICK g \in [0..n -> States] : IsTrace(list, s, g) /\ g[n] = t BY DEF Leads
<1> DEFINE p == [i \in 0..n |-> g[i].at]
<1>2. g[0] = s /\ \A i \in 1..n : g[i] = After(g[i - 1], list[i]) BY <1>1 DEF IsTrace
<1>3. p \in [0..n -> Nat]
  <2>1. ASSUME NEW i \in 0..n PROVE g[i].at \in Nat
    <3>1. g[i] \in States OBVIOUS
    <3> QED BY <3>1 DEF States
  <2> QED BY <2>1
<1>4. ASSUME NEW i \in 1..n PROVE p[i] = p[i - 1] + list[i].literals + list[i].length
  <2>1. i \in 0..n /\ i - 1 \in 0..n BY <1>0
  <2>2. g[i].at = g[i - 1].at + list[i].literals + list[i].length
    <3>1. g[i] = After(g[i - 1], list[i]) BY <1>2
    <3> QED BY <3>1 DEF After
  <2> QED BY <2>1, <2>2
<1>5. p[0] = s.at /\ p[n] = t.at BY <1>0, <1>1, <1>2
<1> HIDE DEF p
<1>6. Bytes(list) = p[n] - p[0] BY <1>3, <1>4, BytesCounted
<1> QED BY <1>5, <1>6

\* The decoder's loop on symbols is the encoder's two functions on bases.
LEMMA DecoderAgrees ==
  ASSUME NEW r \in Histories, NEW base \in Nat \ {0}, NEW noLiterals \in BOOLEAN
  PROVE  DecodeOffset(r, base, noLiterals) =
           [offset  |-> ResolveOptimalOffset(r, base, noLiterals),
            repeats |-> UpdateOptimalRepeats(r, base, noLiterals)]
<1>1. CASE base >= 4
  BY <1>1 DEF DecodeOffset, OffsetSymbol, ResolveOptimalOffset, UpdateOptimalRepeats
<1>2. CASE base = 1
  BY <1>2 DEF DecodeOffset, OffsetSymbol, ResolveOptimalOffset, UpdateOptimalRepeats,
              RepeatCode, Histories
<1>3. CASE base = 2
  BY <1>3 DEF DecodeOffset, OffsetSymbol, ResolveOptimalOffset, UpdateOptimalRepeats,
              RepeatCode, Histories
<1>4. CASE base = 3
  BY <1>4 DEF DecodeOffset, OffsetSymbol, ResolveOptimalOffset, UpdateOptimalRepeats,
              RepeatCode, Histories
<1> QED BY <1>1, <1>2, <1>3, <1>4

\* A step of a trace is a turn of the decoder's loop.
LEMMA OneTurn ==
  ASSUME NEW state \in States, NEW s \in Steps, Fits(state, s)
  PROVE  DecodeOffset(state.repeats, s.base, s.literals = 0) =
           [offset |-> s.distance, repeats |-> After(state, s).repeats]
<1>1. state.repeats \in Histories /\ s.base \in Nat \ {0} /\ (s.literals = 0) \in BOOLEAN
  BY DEF States, Steps
<1>2. DecodeOffset(state.repeats, s.base, s.literals = 0) =
        [offset  |-> ResolveOptimalOffset(state.repeats, s.base, s.literals = 0),
         repeats |-> UpdateOptimalRepeats(state.repeats, s.base, s.literals = 0)]
  BY <1>1, DecoderAgrees
<1> QED BY <1>2 DEF Fits, After

\* Along a trace the decoder copies from the distances the parser meant.
LEMMA DecodedAlong ==
  ASSUME sequences \in Seq(Steps), blockRepeats \in Histories, begin \in Nat,
         NEW t, Leads(sequences, Origin, t)
  PROVE  /\ \A i \in 1..Len(sequences) : Decoded[i].offset = sequences[i].distance
         /\ Decoded[Len(sequences)].repeats = t.repeats
<1> DEFINE n == Len(sequences)
           first == [offset |-> 0, repeats |-> blockRepeats]
           D == CHOOSE f : f = [i \in 0..n |->
                  IF i = 0 THEN first
                  ELSE DecodeOffset(f[i - 1].repeats, sequences[i].base, sequences[i].literals = 0)]
<1>0. n \in Nat OBVIOUS
<1>1. PICK g \in [0..n -> States] : IsTrace(sequences, Origin, g) /\ g[n] = t BY DEF Leads
<1>2. /\ g[0] = Origin
      /\ \A i \in 1..n : Fits(g[i - 1], sequences[i]) /\ g[i] = After(g[i - 1], sequences[i])
  BY <1>1 DEF IsTrace
<1> DEFINE w == [i \in 0..n |-> [offset  |-> IF i = 0 THEN 0 ELSE sequences[i].distance,
                                 repeats |-> g[i].repeats]]
<1>3. ASSUME NEW i \in 1..n
      PROVE  DecodeOffset(g[i - 1].repeats, sequences[i].base, sequences[i].literals = 0)
               = [offset |-> sequences[i].distance, repeats |-> g[i].repeats]
  <2>1. i - 1 \in 0..n BY <1>0
  <2>2. g[i - 1] \in States /\ sequences[i] \in Steps BY <2>1
  <2>3. Fits(g[i - 1], sequences[i]) /\ g[i] = After(g[i - 1], sequences[i]) BY <1>2
  <2> QED BY <2>2, <2>3, OneTurn
<1>4. w = [i \in 0..n |->
             IF i = 0 THEN first
             ELSE DecodeOffset(w[i - 1].repeats, sequences[i].base, sequences[i].literals = 0)]
  <2>1. ASSUME NEW i \in 0..n
        PROVE  w[i] = IF i = 0 THEN first
               ELSE DecodeOffset(w[i - 1].repeats, sequences[i].base, sequences[i].literals = 0)
    <3>1. CASE i = 0 BY <3>1, <1>2 DEF Origin
    <3>2. CASE i # 0
      <4>1. i \in 1..n /\ i - 1 \in 0..n BY <3>2
      <4>2. w[i - 1].repeats = g[i - 1].repeats BY <4>1
      <4>3. w[i] = [offset |-> sequences[i].distance, repeats |-> g[i].repeats] BY <3>2
      <4> HIDE DEF w
      <4> QED BY <3>2, <4>1, <4>2, <4>3, <1>3
    <3> QED BY <3>1, <3>2
  <2>2. w = [i \in 0..n |-> w[i]] OBVIOUS
  <2> HIDE DEF w, first
  <2> QED BY <2>1, <2>2
<1>5. D = [i \in 0..n |->
             IF i = 0 THEN first
             ELSE DecodeOffset(D[i - 1].repeats, sequences[i].base, sequences[i].literals = 0)]
  <2> HIDE DEF w, n, first
  <2> QED BY <1>4
<1>6. Decoded = D BY DEF Decoded
<1> HIDE DEF D
<1>7. /\ D[0] = first
      /\ \A i \in 1..n : D[i] = DecodeOffset(D[i - 1].repeats, sequences[i].base, sequences[i].literals = 0)
  <2>1. 0 \in 0..n BY <1>0
  <2>2. D[0] = first
    <3> HIDE DEF first
    <3> QED BY <1>5, <2>1
  <2>3. ASSUME NEW i \in 1..n
        PROVE  D[i] = DecodeOffset(D[i - 1].repeats, sequences[i].base, sequences[i].literals = 0)
    <3>1. i \in 0..n /\ i # 0 BY <1>0
    <3> HIDE DEF first
    <3> QED BY <3>1, <1>5
  <2> QED BY <2>2, <2>3
<1> DEFINE T == {i \in Nat : i <= n => D[i].repeats = g[i].repeats}
<1>8. ASSUME NEW i \in Nat, \A k \in Nat : k < i => k \in T PROVE i \in T
  <2> SUFFICES ASSUME i <= n PROVE D[i].repeats = g[i].repeats OBVIOUS
  <2>1. CASE i = 0 BY <2>1, <1>7, <1>2 DEF Origin
  <2>2. CASE i # 0
    <3>1. i \in 1..n /\ i - 1 \in Nat /\ i - 1 < i /\ i - 1 <= n BY <2>2, <1>0
    <3>2. D[i - 1].repeats = g[i - 1].repeats BY <3>1, <1>8
    <3>3. D[i] = [offset |-> sequences[i].distance, repeats |-> g[i].repeats]
      BY <3>1, <3>2, <1>3, <1>7
    <3> QED BY <3>3
  <2> QED BY <2>1, <2>2
<1> HIDE DEF T
<1>9. \A i \in Nat : i \in T BY <1>8, Induction
<1>10. ASSUME NEW i \in 1..n PROVE D[i].offset = sequences[i].distance
  <2>1. i - 1 \in Nat /\ i - 1 <= n BY <1>0
  <2>2. D[i - 1].repeats = g[i - 1].repeats BY <2>1, <1>9 DEF T
  <2>3. D[i] = [offset |-> sequences[i].distance, repeats |-> g[i].repeats]
    BY <2>2, <1>3, <1>7
  <2> QED BY <2>3
<1>11. D[n].repeats = t.repeats BY <1>0, <1>1, <1>9 DEF T
<1> QED BY <1>6, <1>10, <1>11

----------------------------------------------------------------------------
(* Reading a path backwards.                                               *)

\* What reconstruct_optimal_sequences finds at node n, f being what it finds before.
BackBody(f, n) ==
  IF paths[n].length = 0 THEN <<>>
  ELSE IF Broken(n) THEN <<[broken |-> n]>>
  ELSE LET from == n - paths[n].literals - paths[n].length
       IN  f[from] \o <<Sequence(paths[from].literals, paths[n])>>

\* What it makes of a list.
Read(list, trailing) ==
  IF \E i \in DOMAIN list : "broken" \in DOMAIN list[i]
  THEN [sequences |-> <<>>, trailing |-> 0]
  ELSE [sequences |-> list, trailing |-> trailing]

\* A node's path depends on earlier nodes alone.
LEMMA BackDepends ==
  ASSUME paths \in [0..PathWindow -> Nodes], PathWindow \in Nat, NEW n \in 0..PathWindow,
         NEW f, NEW g, \A k \in 0..(n - 1) : f[k] = g[k]
  PROVE  BackBody(f, n) = BackBody(g, n)
<1>1. paths[n].literals \in Nat /\ paths[n].length \in Nat BY DEF Nodes
<1>2. CASE paths[n].length # 0 /\ ~Broken(n)
  <2> DEFINE from == n - paths[n].literals - paths[n].length
  <2>1. from \in 0..(n - 1) BY <1>1, <1>2 DEF Broken
  <2>2. f[from] = g[from] BY <2>1
  <2>3. BackBody(f, n) = f[from] \o <<Sequence(paths[from].literals, paths[n])>>
    BY <1>2 DEF BackBody
  <2>4. BackBody(g, n) = g[from] \o <<Sequence(paths[from].literals, paths[n])>>
    BY <1>2 DEF BackBody
  <2> HIDE DEF from
  <2> QED BY <2>2, <2>3, <2>4
<1>3. CASE ~(paths[n].length # 0 /\ ~Broken(n)) BY <1>3 DEF BackBody
<1> QED BY <1>2, <1>3

\* So the recursion of Reconstruct defines a function.
LEMMA BackExists ==
  ASSUME paths \in [0..PathWindow -> Nodes], PathWindow \in Nat
  PROVE  \E f : f = [n \in 0..PathWindow |-> BackBody(f, n)]
<1> DEFINE Upto(f, m) == \A n \in 0..PathWindow : n < m => f[n] = BackBody(f, n)
           T == {m \in Nat : \E f : Upto(f, m)}
<1>1. ASSUME NEW m \in Nat, \A k \in Nat : k < m => k \in T PROVE m \in T
  <2>1. CASE m = 0
    <3>1. Upto(<<>>, m) BY <2>1
    <3> QED BY <3>1
  <2>2. CASE m # 0
    <3>1. m - 1 \in Nat /\ m - 1 < m BY <2>2
    <3>2. PICK f : Upto(f, m - 1) BY <3>1, <1>1
    <3> DEFINE g == [n \in 0..PathWindow |-> IF n < m - 1 THEN f[n] ELSE BackBody(f, n)]
    <3>3. ASSUME NEW n \in 0..PathWindow, n < m PROVE g[n] = BackBody(g, n)
      <4>1. ASSUME NEW k \in 0..(n - 1) PROVE f[k] = g[k]
        <5>1. k \in 0..PathWindow /\ k < m - 1 BY <3>3, <4>1
        <5> QED BY <5>1
      <4>2. BackBody(f, n) = BackBody(g, n)
        <5> HIDE DEF g
        <5> QED BY <4>1, BackDepends
      <4>3. g[n] = BackBody(f, n)
        <5>1. CASE n < m - 1 BY <5>1, <3>2
        <5>2. CASE ~(n < m - 1) BY <5>2
        <5> QED BY <5>1, <5>2
      <4> HIDE DEF g
      <4> QED BY <4>2, <4>3
    <3> HIDE DEF g
    <3>4. Upto(g, m) BY <3>3
    <3> QED BY <3>4
  <2> QED BY <2>1, <2>2
<1>2. \A m \in Nat : m \in T
  <2> HIDE DEF T
  <2> QED BY <1>1, Induction
<1>3. PICK f : Upto(f, PathWindow + 1)
  <2>1. PathWindow + 1 \in Nat OBVIOUS
  <2>2. PathWindow + 1 \in T
    <3> HIDE DEF T
    <3> QED BY <1>2, <2>1
  <2> QED BY <2>2
<1> DEFINE w == [n \in 0..PathWindow |-> f[n]]
<1>4. ASSUME NEW n \in 0..PathWindow PROVE f[n] = BackBody(w, n)
  <2>1. f[n] = BackBody(f, n) BY <1>3
  <2>2. \A k \in 0..(n - 1) : f[k] = w[k] OBVIOUS
  <2> HIDE DEF w
  <2>3. BackBody(f, n) = BackBody(w, n) BY <2>2, BackDepends
  <2> QED BY <2>1, <2>3
<1>5. w = [n \in 0..PathWindow |-> BackBody(w, n)] BY <1>4
<1> HIDE DEF w
<1> QED BY <1>5

LEMMA ReconstructIs ==
  ASSUME paths \in [0..PathWindow -> Nodes], PathWindow \in Nat
  PROVE  \E back : /\ \A n \in 0..PathWindow : back[n] = BackBody(back, n)
                   /\ \A last : Reconstruct(last) = Read(back[last], paths[last].literals)
<1> DEFINE back == CHOOSE f : f = [n \in 0..PathWindow |-> BackBody(f, n)]
<1>1. back = [n \in 0..PathWindow |-> BackBody(back, n)] BY BackExists
<1>2. ASSUME NEW last PROVE Reconstruct(last) = Read(back[last], paths[last].literals)
  BY DEF Reconstruct, Read, BackBody
<1> HIDE DEF back
<1>3. ASSUME NEW n \in 0..PathWindow PROVE back[n] = BackBody(back, n) BY <1>1
<1> QED BY <1>2, <1>3

\* Whole lists are read as they are.
LEMMA ReadWhole ==
  ASSUME NEW list \in Seq(Steps), NEW trailing
  PROVE  Read(list, trailing) = [sequences |-> list, trailing |-> trailing]
<1>1. ASSUME NEW i \in DOMAIN list PROVE "broken" \notin DOMAIN list[i]
  <2>1. list[i] \in Steps OBVIOUS
  <2>2. DOMAIN list[i] = {"literals", "length", "base", "distance"} BY <2>1 DEF Steps
  <2> QED BY <2>2
<1> QED BY <1>1 DEF Read

----------------------------------------------------------------------------
(* Paths.                                                                  *)

\* Behind the last match of the path to node n.
NodeState(n) == [at |-> position + n - paths[n].literals, repeats |-> paths[n].repeats]

LEMMA LeadsTyped ==
  ASSUME NEW list \in Seq(Steps), NEW s, NEW t, Leads(list, s, t)
  PROVE  t \in States
<1>1. PICK g \in [0..Len(list) -> States] : g[Len(list)] = t BY DEF Leads
<1>2. Len(list) \in 0..Len(list) OBVIOUS
<1> QED BY <1>1, <1>2

\* The step from one node to another is a step of a trace.
LEMMA OneMatch ==
  ASSUME TypeOK, NEW from \in 0..PathWindow, NEW n \in 0..PathWindow,
         paths[n].length > 0, from = From(n), FoundAt(paths[n], paths[from])
  PROVE  LET x == Sequence(paths[from].literals, paths[n])
         IN  /\ x \in Steps /\ Fits(NodeState(from), x)
             /\ After(NodeState(from), x) = NodeState(n)
<1> DEFINE x == Sequence(paths[from].literals, paths[n])
<1>1. paths[from] \in Nodes /\ paths[n] \in Nodes /\ position \in Nat BY DEF TypeOK
<1>2. /\ paths[from].literals \in Nat /\ paths[n].literals \in Nat /\ paths[n].length \in Nat
      /\ paths[n].base \in Nat /\ paths[n].distance \in Int
  BY <1>1 DEF Nodes
<1>3. /\ x.literals = paths[from].literals /\ x.length = paths[n].length
      /\ x.base = paths[n].base /\ x.distance = paths[n].distance
  BY DEF Sequence
<1>4. x \in Steps BY <1>2 DEF Steps, Sequence, FoundAt
<1> HIDE DEF x
<1>5. Fits(NodeState(from), x) BY <1>3 DEF Fits, FoundAt, NodeState
<1>6. After(NodeState(from), x).at = NodeState(n).at
  <2>1. After(NodeState(from), x).at
          = (position + from - paths[from].literals) + paths[from].literals + paths[n].length
    BY <1>3 DEF After, NodeState
  <2>2. NodeState(n).at = position + n - paths[n].literals BY DEF NodeState
  <2>3. from = n - paths[n].literals - paths[n].length BY DEF From
  <2> QED BY <1>1, <1>2, <2>1, <2>2, <2>3
<1>7. After(NodeState(from), x).repeats = NodeState(n).repeats
  BY <1>3 DEF After, NodeState, FoundAt
<1>8. After(NodeState(from), x) = NodeState(n) BY <1>6, <1>7 DEF After, NodeState
<1> QED BY <1>4, <1>5, <1>8 DEF x

\* The path to every node that was reached leads there from where the series began.
LEMMA PathsLead ==
  ASSUME TypeOK, InBlock, NodesAreMade, initialized <= PathWindow,
         NEW n \in 0..initialized, paths[n].reached
  PROVE  /\ Reconstruct(n).sequences \in Seq(Steps)
         /\ Reconstruct(n).trailing = paths[n].literals
         /\ Leads(Reconstruct(n).sequences, Here, NodeState(n))
<1>0. /\ PathWindow \in Nat /\ initialized \in Nat /\ paths \in [0..PathWindow -> Nodes]
      /\ position \in Nat /\ anchor \in Nat /\ repeats \in Histories
  BY ConstantsAssumption DEF TypeOK
<1>1. PICK back : /\ \A k \in 0..PathWindow : back[k] = BackBody(back, k)
                  /\ \A last : Reconstruct(last) = Read(back[last], paths[last].literals)
  BY <1>0, ReconstructIs
<1> DEFINE Good(k) == back[k] \in Seq(Steps) /\ Leads(back[k], Here, NodeState(k))
           T == {k \in Nat : k <= initialized /\ paths[k].reached => Good(k)}
<1>2. ASSUME NEW k \in Nat, \A j \in Nat : j < k => j \in T PROVE k \in T
  <2> SUFFICES ASSUME k <= initialized, paths[k].reached PROVE Good(k) OBVIOUS
  <2>1. k \in 0..initialized /\ k \in 0..PathWindow BY <1>0
  <2>2. paths[k].literals \in Nat /\ paths[k].length \in Nat BY <1>0, <2>1 DEF Nodes
  <2>3. back[k] = BackBody(back, k) BY <2>1, <1>1
  <2>4. WellMade(k) BY <2>1 DEF NodesAreMade
  <2>5. CASE paths[k].length = 0
    <3>1. back[k] = <<>> BY <2>3, <2>5 DEF BackBody
    <3>2. paths[k].literals = k + (position - anchor) /\ paths[k].repeats = repeats
      BY <2>4, <2>5 DEF WellMade, InitialLiterals
    <3>3. NodeState(k) = Here BY <3>2, <1>0, <2>1 DEF NodeState, Here
    <3>4. Here \in States BY <1>0 DEF Here, States
    <3>5. <<>> \in Seq(Steps) OBVIOUS
    <3>6. Leads(<<>>, Here, Here) BY <3>4, NoSteps
    <3> QED BY <3>1, <3>3, <3>5, <3>6
  <2>6. CASE paths[k].length # 0
    <3> DEFINE from == From(k)
               x == Sequence(paths[from].literals, paths[k])
    <3>1. from \in 0..local /\ paths[from].reached /\ FoundAt(paths[k], paths[from])
      BY <2>4, <2>6 DEF WellMade
    <3>2. from \in Nat /\ from < k /\ paths[k].literals + paths[k].length <= k
      BY <3>1, <2>1, <2>2, <2>6, SMTT(30) DEF From, TypeOK
    <3>3. from <= initialized /\ from \in 0..PathWindow BY <3>2, <2>1, <1>0
    <3>4. Good(from)
      <4>1. from \in T BY <3>2, <1>2
      <4> QED BY <4>1, <3>1, <3>3
    <3>5. ~Broken(k)
      <4>1. paths[k].base # 0 BY <3>1 DEF FoundAt
      <4> QED BY <4>1, <3>2, <2>1, <2>2 DEF Broken
    <3>6. back[k] = back[from] \o <<x>> BY <2>3, <2>6, <3>5 DEF BackBody, From
    <3>7. x \in Steps /\ Fits(NodeState(from), x) /\ After(NodeState(from), x) = NodeState(k)
      <4>1. paths[k].length > 0 BY <2>2, <2>6
      <4> QED BY <4>1, <2>1, <3>1, <3>3, OneMatch
    <3> HIDE DEF x, from
    <3>8. NodeState(from) \in States BY <3>4, LeadsTyped
    <3>9. Leads(back[from] \o <<x>>, Here, NodeState(k)) BY <3>4, <3>7, <3>8, StepOn
    <3>10. back[from] \o <<x>> \in Seq(Steps) BY <3>4, <3>7
    <3> QED BY <3>6, <3>9, <3>10
  <2> QED BY <2>5, <2>6
<1>3. Good(n)
  <2>1. \A k \in Nat : k \in T
    <3> HIDE DEF T
    <3> QED BY <1>2, Induction
  <2>2. n \in T /\ n \in Nat /\ n <= initialized BY <2>1, <1>0
  <2> QED BY <2>2
<1>4. Reconstruct(n) = [sequences |-> back[n], trailing |-> paths[n].literals]
  BY <1>1, <1>3, ReadWhole
<1> QED BY <1>3, <1>4

----------------------------------------------------------------------------
(* What a search finds.                                                    *)

\* Longer and longer matches inside the block, each at what its base means.
Findable(list, at, h, noLiterals) ==
  /\ list \in Seq(Matches)
  /\ list # <<>> => Len(list) >= 1
  /\ \A i \in 1..Len(list) :
       /\ list[i] \in Matches /\ list[i].length >= MinMatch
       /\ at + list[i].length <= end
       /\ list[i].distance = ResolveOptimalOffset(h, list[i].base, noLiterals)
  /\ \A i \in 2..Len(list) : list[i - 1].length < list[i].length

LEMMA FoundType ==
  ASSUME NEW at \in Nat, end \in Nat, NEW h \in Histories, NEW noLiterals \in BOOLEAN,
         NEW list \in Found(at, h, noLiterals)
  PROVE  Findable(list, at, h, noLiterals)
<1> DEFINE usable == {b \in OffsetBases : ResolveOptimalOffset(h, b, noLiterals) > 0}
           match  == {[base |-> b, length |-> length,
                       distance |-> ResolveOptimalOffset(h, b, noLiterals)]
                        : b \in usable, length \in MinMatch..(end - at)}
<1>0. MinMatch \in Nat \ {0} /\ OffsetBases \subseteq Nat \ {0} /\ MaxCandidates \in Nat
  BY ConstantsAssumption
<1>1. CASE list = <<>> BY <1>1 DEF Findable
<1>2. CASE list # <<>>
  <2>1. /\ list \in UNION {[1..n -> match] : n \in 1..MaxCandidates}
        /\ \A i \in 2..Len(list) : list[i - 1].length < list[i].length
    BY <1>2 DEF Found
  <2>2. PICK n \in 1..MaxCandidates : list \in [1..n -> match]
    <3> HIDE DEF match
    <3> QED BY <2>1
  <2>3. ASSUME NEW x \in match
        PROVE  /\ x \in Matches /\ x.length >= MinMatch /\ at + x.length <= end
               /\ x.distance = ResolveOptimalOffset(h, x.base, noLiterals)
    <3>1. PICK b \in usable, length \in MinMatch..(end - at) :
            x = [base |-> b, length |-> length,
                 distance |-> ResolveOptimalOffset(h, b, noLiterals)]
      OBVIOUS
    <3>2. b \in Nat \ {0} /\ length \in Nat \ {0} /\ length >= MinMatch /\ at + length <= end
      BY <1>0
    <3> HIDE DEF match, usable
    <3>3. ResolveOptimalOffset(h, b, noLiterals) \in Int
      <4>1. b \in Nat \ {0} BY <3>2
      <4> QED BY <4>1, UpdateType
    <3> QED BY <3>1, <3>2, <3>3 DEF Matches
  <2> HIDE DEF match
  <2>4. n \in Nat /\ n >= 1 BY <1>0
  <2>5. list \in Seq(match) /\ Len(list) = n BY <2>2, <2>4
  <2>6. \A i \in 1..n : list[i] \in match BY <2>2
  <2>7. match \subseteq Matches BY <2>3
  <2>8. list \in Seq(Matches) BY <2>5, <2>6, <2>7
  <2> QED BY <2>1, <2>3, <2>4, <2>5, <2>6, <2>8 DEF Findable
<1> QED BY <1>1, <1>2

\* The window of a series lies inside the block and the array of nodes.
LEMMA Windows ==
  ASSUME TypeOK, InBlock, position < ParseEnd
  PROVE  /\ WindowSize \in 1..PathWindow /\ position + WindowSize <= end
         /\ PathWindow \in Nat /\ ReadSize \in Nat \ {0} /\ ParseEnd \in Int
         /\ end - position \in Nat /\ end - position > 1
         /\ InitialLiterals \in Nat
<1>1. PathWindow \in Nat \ {0} /\ ReadSize \in Nat \ {0} BY ConstantsAssumption
<1>2. position \in Nat /\ end \in Nat /\ anchor \in Nat /\ anchor <= position
  BY DEF TypeOK, InBlock
<1> QED BY <1>1, <1>2 DEF WindowSize, Smaller, ParseEnd, InitialLiterals

\* What a search from the node in hand finds.
LEMMA FoundHereType ==
  ASSUME TypeOK, InBlock, Series, Looks, NEW list \in FoundHere
  PROVE  Findable(list, position + local, paths[local].repeats, paths[local].literals = 0)
<1>1. InAnySeries BY DEF Looks, InAnySeries
<1>2. /\ position \in Nat /\ local \in Nat /\ end \in Nat /\ repeats \in Histories
      /\ anchor \in Nat /\ initialized \in Nat /\ paths \in [0..PathWindow -> Nodes]
  BY DEF TypeOK
<1>3. /\ position < ParseEnd /\ initialized <= WindowSize
      /\ candidates \in Found(position, repeats, position = anchor)
      /\ NodesAreMade /\ Frontier
  BY <1>1 DEF Series
<1>4. WindowSize \in 1..PathWindow /\ PathWindow \in Nat BY <1>3, Windows
<1>5. local \in 0..initialized /\ local \in 0..PathWindow /\ paths[local].reached
  BY <1>2, <1>3, <1>4 DEF Frontier, Reached
<1>6. paths[local].repeats \in Histories /\ (paths[local].literals = 0) \in BOOLEAN
  BY <1>2, <1>5 DEF Nodes
<1>7. CASE local = 0
  <2>1. list = candidates BY <1>7 DEF FoundHere
  <2>2. WellMade(0) BY <1>5, <1>7, <1>3 DEF NodesAreMade
  <2>3. paths[0].literals \in Nat /\ paths[0].length \in Nat BY <1>2, <1>5, <1>7 DEF Nodes
  <2>4. paths[0].length = 0 /\ paths[0].literals = InitialLiterals /\ paths[0].repeats = repeats
    BY <2>2, <2>3, <1>2 DEF WellMade, From, InitialLiterals
  <2>5. (position = anchor) <=> (paths[0].literals = 0)
    BY <2>4, <1>2 DEF InitialLiterals
  <2>6. (position = anchor) \in BOOLEAN OBVIOUS
  <2>7. (position = anchor) = (paths[0].literals = 0) BY <2>5
  <2>8. list \in Found(position, repeats, position = anchor) BY <2>1, <1>3
  <2>9. Findable(list, position, repeats, position = anchor) BY <2>6, <2>8, <1>2, FoundType
  <2>10. position + local = position BY <1>2, <1>7
  <2> QED BY <2>4, <2>7, <2>9, <2>10, <1>7
<1>8. CASE local # 0
  <2> DEFINE at == position + local
  <2>1. list \in Found(at, paths[local].repeats, paths[local].literals = 0)
    BY <1>8 DEF FoundHere, NodeRepeats
  <2>2. at \in Nat BY <1>2
  <2> HIDE DEF at
  <2>3. Findable(list, at, paths[local].repeats, paths[local].literals = 0)
    BY <2>1, <2>2, <1>2, <1>6, FoundType
  <2> QED BY <2>3 DEF at
<1> QED BY <1>7, <1>8

----------------------------------------------------------------------------
(* The steps that leave the nodes alone.                                   *)

LEMMA InitHolds == Init => IInv
<1> SUFFICES ASSUME Init PROVE IInv OBVIOUS
<1>0. /\ strategy \in Strategies /\ seeded = FALSE
      /\ repeats = InitialRepeats /\ blockRepeats = InitialRepeats
      /\ begin = 0 /\ end = 0 /\ position = 0 /\ anchor = 0
      /\ paths = [n \in 0..PathWindow |-> Unreached]
      /\ local = 0 /\ frontier = 0 /\ selected = 0 /\ initialized = 0
      /\ candidates = <<>> /\ sequences = <<>> /\ phase = "idle"
      /\ pending = <<>> /\ ends = <<>>
  BY DEF Init
<1>1. InitialRepeats \in Histories BY DEF InitialRepeats, Histories
<1>2. Unreached \in Nodes BY <1>1 DEF Unreached, Nodes
<1>3. paths \in [0..PathWindow -> Nodes] BY <1>0, <1>2
<1>4. TypeOK
  <2>1. candidates \in Seq(Matches) /\ sequences \in Seq(Steps) /\ pending \in Seq(Seq(Nat))
        /\ ends \in Seq(Nat)
    BY <1>0
  <2> QED BY <2>1, <1>0, <1>1, <1>3 DEF TypeOK
<1>5. InBlock BY <1>0 DEF InBlock
<1>6. Parsing
  <2>1. Origin \in States BY <1>0, <1>1 DEF Origin, States
  <2>2. Here = Origin BY <1>0 DEF Here, Origin
  <2> QED BY <2>1, <2>2, <1>0, NoSteps DEF Parsing
<1>7. Series /\ Splitting /\ Parted BY <1>0 DEF Series, InAnySeries, Splitting, Parted
<1> QED BY <1>4, <1>5, <1>6, <1>7 DEF IInv

\* A block, or the second pass over one, begins where the histories stand.
LEMMA Afresh ==
  ASSUME TypeOK', sequences' = <<>>, anchor' = begin', repeats' = blockRepeats'
  PROVE  Parsing'
<1>1. Origin' \in States BY DEF Origin, States, TypeOK
<1>2. Here' = Origin' BY DEF Here, Origin
<1>3. Leads(<<>>, Origin', Origin') BY <1>1, NoSteps
<1> QED BY <1>2, <1>3 DEF Parsing

LEMMA BeginBlockKeeps ==
  ASSUME IInv, NEW size \in BlockSizes, BeginBlock(size)
  PROVE  IInv'
<1>1. size \in Nat \ {0} BY ConstantsAssumption
<1>2. /\ phase = "idle" /\ begin' = end /\ end' = end + size
      /\ position' = end /\ anchor' = end
      /\ blockRepeats' = repeats /\ sequences' = <<>> /\ phase' \in {"parsed", "scan"}
      /\ ends' = <<>>
      /\ UNCHANGED <<frame, repeats, series, pending>>
  BY DEF BeginBlock
<1>3. TypeOK'
  <2>1. sequences' \in Seq(Steps) /\ ends' \in Seq(Nat) BY <1>2
  <2> QED BY <2>1, <1>1, <1>2 DEF IInv, TypeOK, frame, series
<1>4. InBlock'
  <2>1. end \in Nat BY DEF IInv, TypeOK
  <2> QED BY <2>1, <1>1, <1>2 DEF InBlock
<1>5. Parsing' BY <1>2, <1>3, Afresh
<1>6. Series' /\ Splitting' /\ Parted' BY <1>2 DEF Series, InAnySeries, Splitting, Parted
<1> QED BY <1>3, <1>4, <1>5, <1>6 DEF IInv

LEMMA MissKeeps == ASSUME IInv, Miss PROVE IInv'
<1>1. /\ phase = "scan" /\ position < ParseEnd /\ position' = position + 1
      /\ UNCHANGED <<strategy, seeded, repeats, blockRepeats, begin, end, anchor, paths, local,
                     frontier, selected, initialized, candidates, sequences, phase, pending, ends>>
  BY DEF Miss, frame, block, series, parts
<1>2. TypeOK' BY <1>1 DEF IInv, TypeOK
<1>3. InBlock'
  <2>1. position \in Nat /\ end \in Nat /\ position + 1 <= end /\ anchor \in Nat
    BY <1>1, ConstantsAssumption DEF IInv, TypeOK, ParseEnd
  <2> QED BY <2>1, <1>1 DEF IInv, InBlock
<1>4. Parsing' BY <1>1 DEF IInv, Parsing, Origin, Here
<1>5. Series' /\ Splitting' /\ Parted'
  BY <1>1 DEF IInv, Series, InAnySeries, Splitting, Parted
<1> QED BY <1>2, <1>3, <1>4, <1>5 DEF IInv

LEMMA ParsedKeeps == ASSUME IInv, Parsed PROVE IInv'
<1>1. /\ phase = "scan" /\ phase' = "parsed"
      /\ UNCHANGED <<strategy, seeded, repeats, blockRepeats, begin, end, position, anchor, paths,
                     local, frontier, selected, initialized, candidates, sequences, pending, ends>>
  BY DEF Parsed, frame, block, series, parts
<1>2. TypeOK' BY <1>1 DEF IInv, TypeOK
<1>3. InBlock' BY <1>1 DEF IInv, InBlock
<1>4. Parsing' BY <1>1 DEF IInv, Parsing, Origin, Here
<1>5. Series' /\ Splitting' /\ Parted'
  BY <1>1 DEF IInv, Series, InAnySeries, Splitting, Parted
<1> QED BY <1>2, <1>3, <1>4, <1>5 DEF IInv

LEMMA ParseAgainKeeps == ASSUME IInv, ParseAgain PROVE IInv'
<1>1. /\ phase = "parsed" /\ phase' = "scan" /\ repeats' = blockRepeats /\ seeded' = TRUE
      /\ position' = begin /\ anchor' = begin /\ sequences' = <<>>
      /\ UNCHANGED <<strategy, blockRepeats, begin, end, paths, local, frontier, selected,
                     initialized, candidates, pending, ends>>
  BY DEF ParseAgain, SeededRepeats, block, series, parts
<1>2. TypeOK'
  <2>1. sequences' \in Seq(Steps) BY <1>1
  <2> QED BY <2>1, <1>1 DEF IInv, TypeOK
<1>3. InBlock'
  <2>1. begin \in Nat /\ end \in Nat /\ begin < end BY <1>1 DEF IInv, TypeOK, InBlock
  <2> QED BY <2>1, <1>1 DEF InBlock
<1>4. Parsing' BY <1>1, <1>2, Afresh
<1>5. Series' /\ Splitting' /\ Parted'
  BY <1>1 DEF IInv, Series, InAnySeries, Splitting, Parted
<1> QED BY <1>2, <1>3, <1>4, <1>5 DEF IInv

LEMMA StutterKeeps == ASSUME IInv, UNCHANGED vars PROVE IInv'
<1>1. UNCHANGED <<strategy, seeded, repeats, blockRepeats, begin, end, position, anchor, paths,
                  local, frontier, selected, initialized, candidates, sequences, phase, pending,
                  ends>>
  BY DEF vars
<1>2. TypeOK' BY <1>1 DEF IInv, TypeOK
<1>3. InBlock' BY <1>1 DEF IInv, InBlock
<1>4. Parsing' BY <1>1 DEF IInv, Parsing, Origin, Here
<1>5. Series'
  BY <1>1 DEF IInv, Series, InAnySeries, NodesAreMade, WellMade, From, FoundAt, InitialLiterals,
              Frontier, Reached, WindowSize, ParseEnd, Found
<1>6. Splitting' /\ Parted' BY <1>1 DEF IInv, Splitting, Parted, IsCut, IsRange, Ordered
<1> QED BY <1>2, <1>3, <1>4, <1>5, <1>6 DEF IInv

----------------------------------------------------------------------------
(* Series.                                                                 *)

\* What is known of a series under way.
LEMMA UnderWay ==
  ASSUME IInv, InAnySeries
  PROVE  /\ WindowSize \in 1..PathWindow /\ PathWindow \in Nat /\ InitialLiterals \in Nat
         /\ paths \in [0..PathWindow -> Nodes] /\ repeats \in Histories
         /\ initialized \in 0..WindowSize /\ local \in 0..initialized /\ frontier \in 0..initialized
         /\ position \in Nat /\ end \in Nat /\ anchor \in Nat /\ position + WindowSize <= end
         /\ position < ParseEnd /\ NodesAreMade /\ Frontier
         /\ candidates \in Found(position, repeats, position = anchor) \ {<<>>}
<1>1. TypeOK /\ InBlock BY DEF IInv
<1>2. /\ position < ParseEnd /\ initialized <= WindowSize /\ NodesAreMade /\ Frontier
      /\ candidates \in Found(position, repeats, position = anchor) \ {<<>>}
  BY DEF IInv, Series
<1>3. WindowSize \in 1..PathWindow /\ PathWindow \in Nat /\ InitialLiterals \in Nat
      /\ position + WindowSize <= end
  BY <1>1, <1>2, Windows
<1>4. /\ paths \in [0..PathWindow -> Nodes] /\ repeats \in Histories
      /\ initialized \in Nat /\ local \in Nat /\ frontier \in Nat
      /\ position \in Nat /\ end \in Nat /\ anchor \in Nat
  BY <1>1 DEF TypeOK
<1>5. local <= initialized /\ frontier <= initialized BY <1>2 DEF Frontier, Reached
<1> QED BY <1>2, <1>3, <1>4, <1>5

LEMMA BeginSeriesKeeps == ASSUME IInv, BeginSeries PROVE IInv'
<1> DEFINE first == [Unreached EXCEPT !.reached = TRUE, !.literals = InitialLiterals,
                                      !.repeats = repeats]
<1>1. /\ phase = "scan" /\ position < ParseEnd
      /\ candidates' \in Found(position, repeats, position = anchor) \ {<<>>}
      /\ paths' = [paths EXCEPT ![0] = first]
      /\ local' = 0 /\ frontier' = 0 /\ selected' = 1 /\ initialized' = 0 /\ phase' = "relax"
      /\ UNCHANGED <<strategy, seeded, repeats, blockRepeats, begin, end, position, anchor,
                     sequences, pending, ends>>
  BY DEF BeginSeries, frame, block, parts
<1>2. TypeOK /\ InBlock BY DEF IInv
<1>3. /\ WindowSize \in 1..PathWindow /\ PathWindow \in Nat /\ InitialLiterals \in Nat
  BY <1>1, <1>2, Windows
<1>4. /\ position \in Nat /\ end \in Nat /\ anchor \in Nat /\ repeats \in Histories
      /\ paths \in [0..PathWindow -> Nodes]
  BY <1>2 DEF TypeOK
<1>5. /\ first.reached = TRUE /\ first.length = 0 /\ first.literals = InitialLiterals
      /\ first.repeats = repeats /\ first \in Nodes
  <2>1. InitialRepeats \in Histories BY DEF InitialRepeats, Histories
  <2>2. Unreached \in Nodes BY <2>1 DEF Unreached, Nodes
  <2>3. first \in Nodes
    <3> HIDE DEF Unreached
    <3> QED BY <2>2, <1>3, <1>4 DEF Nodes
  <2>4. first.reached = TRUE /\ first.literals = InitialLiterals /\ first.repeats = repeats
    <3> HIDE DEF Unreached
    <3> QED BY <2>2 DEF Nodes
  <2>5. first.length = 0
    <3>1. first.length = Unreached.length
      <4> HIDE DEF Unreached
      <4> QED BY <2>2 DEF Nodes
    <3> QED BY <3>1 DEF Unreached
  <2> QED BY <2>3, <2>4, <2>5
<1> HIDE DEF first
<1>6. paths' \in [0..PathWindow -> Nodes] /\ paths'[0] = first BY <1>1, <1>3, <1>4, <1>5
<1>7. TypeOK'
  <2>1. candidates' \in Seq(Matches)
    <3>1. candidates' \in Found(position, repeats, position = anchor) BY <1>1
    <3>2. (position = anchor) \in BOOLEAN OBVIOUS
    <3>3. Findable(candidates', position, repeats, position = anchor)
      BY <3>1, <3>2, <1>4, FoundType
    <3> QED BY <3>3 DEF Findable
  <2> QED BY <2>1, <1>1, <1>2, <1>6 DEF TypeOK
<1>8. InBlock' BY <1>1, <1>2 DEF InBlock
<1>9. Parsing' BY <1>1 DEF IInv, Parsing, Origin, Here
<1>10. Series'
  <2>1. WindowSize' = WindowSize /\ ParseEnd' = ParseEnd /\ InitialLiterals' = InitialLiterals
    BY <1>1 DEF WindowSize, ParseEnd, InitialLiterals
  <2>2. candidates' \in Found(position, repeats, position = anchor)' \ {<<>>}
    BY <1>1 DEF Found
  <2>3. NodesAreMade'
    <3>1. WellMade(0)' BY <1>1, <1>5, <1>6, <2>1, <1>3 DEF WellMade
    <3>2. \A n \in 0..0 : n = 0 OBVIOUS
    <3>3. paths'[0].reached BY <1>5, <1>6
    <3> QED BY <3>1, <3>2, <3>3, <1>1 DEF NodesAreMade
  <2>4. Frontier' BY <1>1, <1>5, <1>6 DEF Frontier, Reached
  <2> QED BY <2>1, <2>2, <2>3, <2>4, <1>1, <1>3 DEF Series
<1>11. Splitting' /\ Parted' BY <1>1 DEF IInv, Splitting, Parted
<1> QED BY <1>7, <1>8, <1>9, <1>10, <1>11 DEF IInv

\* The steps of a series leave what has been parsed and the window alone.
InSeriesStep ==
  /\ InAnySeries /\ InAnySeries'
  /\ UNCHANGED <<strategy, seeded, repeats, blockRepeats, begin, end, position, anchor, candidates,
                 sequences, pending, ends>>

LEMMA SeriesStep ==
  ASSUME IInv, InSeriesStep, initialized' <= WindowSize, NodesAreMade', Frontier',
         paths' \in [0..PathWindow -> Nodes], local' \in Nat, frontier' \in Nat,
         selected' \in Nat, initialized' \in Nat
  PROVE  IInv'
<1>1. UNCHANGED <<strategy, seeded, repeats, blockRepeats, begin, end, position, anchor, candidates,
                  sequences, pending, ends>>
  BY DEF InSeriesStep
<1>2. InAnySeries /\ InAnySeries' BY DEF InSeriesStep
<1>3. phase' \in {"relax", "look", "select"} /\ phase \in {"relax", "look", "select"}
  BY <1>2 DEF InAnySeries
<1>4. TypeOK'
  <2>1. TypeOK BY DEF IInv
  <2> QED BY <2>1, <1>1, <1>3 DEF TypeOK
<1>5. InBlock' BY <1>1, <1>3 DEF IInv, InBlock
<1>6. Parsing' BY <1>1 DEF IInv, Parsing, Origin, Here
<1>7. Series'
  <2>1. WindowSize' = WindowSize /\ ParseEnd' = ParseEnd
    BY <1>1 DEF WindowSize, ParseEnd
  <2>2. /\ position < ParseEnd
        /\ candidates \in Found(position, repeats, position = anchor) \ {<<>>}
    BY <1>2, UnderWay
  <2>3. candidates' \in Found(position, repeats, position = anchor)' \ {<<>>}
    BY <2>2, <1>1 DEF Found
  <2> QED BY <2>1, <2>2, <2>3, <1>1 DEF Series
<1>8. Splitting' /\ Parted' BY <1>1, <1>3 DEF IInv, Splitting, Parted
<1> QED BY <1>4, <1>5, <1>6, <1>7, <1>8 DEF IInv

\* A node that is left alone stays well made when the ones before the node in hand are.
LEMMA NodeKept ==
  ASSUME IInv, InSeriesStep, local' \in Nat, local' >= local,
         \A k \in 0..local : paths'[k] = paths[k],
         NEW n \in 0..initialized, paths'[n] = paths[n]
  PROVE  IF paths'[n].reached THEN WellMade(n)' ELSE paths'[n] = Unreached
<1>1. InAnySeries /\ repeats' = repeats /\ position' = position /\ anchor' = anchor
  BY DEF InSeriesStep
<1>2. /\ paths \in [0..PathWindow -> Nodes] /\ local \in Nat
      /\ initialized \in 0..WindowSize /\ WindowSize \in 1..PathWindow /\ PathWindow \in Nat
      /\ NodesAreMade
  BY <1>1, UnderWay
<1>3. IF paths[n].reached THEN WellMade(n) ELSE paths[n] = Unreached BY <1>2 DEF NodesAreMade
<1>4. CASE ~paths[n].reached BY <1>3, <1>4
<1>5. CASE paths[n].reached
  <2>1. WellMade(n) BY <1>3, <1>5
  <2>2. InitialLiterals' = InitialLiterals BY <1>1 DEF InitialLiterals
  <2>3. From(n)' = From(n) BY DEF From
  <2>4. CASE paths[n].length = 0 /\ paths[n].literals = n + InitialLiterals /\ paths[n].repeats = repeats
    <3>1. WellMade(n)' BY <2>2, <2>4, <1>1 DEF WellMade
    <3> QED BY <3>1, <1>5
  <2>5. CASE /\ paths[n].length > 0 /\ From(n) \in 0..local
             /\ paths[From(n)].reached /\ FoundAt(paths[n], paths[From(n)])
    <3> DEFINE from == From(n)
    <3>1. from \in 0..local BY <2>5
    <3>2. paths'[from] = paths[from] BY <3>1
    <3>3. from \in 0..local' BY <3>1, <1>2
    <3>4. paths'[from].reached /\ FoundAt(paths'[n], paths'[from]) BY <2>5, <3>2
    <3>5. FoundAt(paths[n], paths[From(n)])' BY <3>4, <2>3 DEF FoundAt
    <3>6. WellMade(n)' BY <2>3, <2>5, <3>3, <3>4, <3>5 DEF WellMade
    <3> QED BY <3>6, <1>5
  <2> QED BY <2>1, <2>4, <2>5 DEF WellMade
<1> QED BY <1>4, <1>5

LEMMA EndSeriesKeeps == ASSUME IInv, EndSeries PROVE IInv'
<1>1. /\ phase = "relax" /\ ~InSeries /\ phase' = "select"
      /\ UNCHANGED <<strategy, seeded, repeats, blockRepeats, begin, end, position, anchor, paths,
                     local, frontier, selected, initialized, candidates, sequences, pending, ends>>
  BY DEF EndSeries, frame, block, series, parts
<1>2. InSeriesStep BY <1>1 DEF InSeriesStep, InAnySeries
<1>3. /\ WindowSize \in 1..PathWindow /\ PathWindow \in Nat
      /\ paths \in [0..PathWindow -> Nodes]
      /\ initialized \in 0..WindowSize /\ local \in 0..initialized /\ frontier \in 0..initialized
      /\ Frontier
  BY <1>1, UnderWay DEF InAnySeries
<1>4. NodesAreMade' BY <1>1, <1>2, <1>3, NodeKept DEF NodesAreMade
<1>5. local >= 1 BY <1>1, <1>3 DEF InSeries
<1>6. Frontier' BY <1>1, <1>3, <1>5 DEF Frontier, Reached
<1>7. selected \in Nat BY DEF IInv, TypeOK
<1> QED BY <1>1, <1>2, <1>3, <1>4, <1>6, <1>7, SeriesStep

LEMMA NoLookKeeps == ASSUME IInv, NoLook PROVE IInv'
<1>1. /\ phase = "look"
      /\ \/ LastNode /\ phase' = "select" /\ local' = local
         \/ phase' = "relax" /\ local' = local + 1
      /\ UNCHANGED <<strategy, seeded, repeats, blockRepeats, begin, end, position, anchor, paths,
                     frontier, selected, initialized, candidates, sequences, pending, ends>>
  BY DEF NoLook, frame, block, parts
<1>2. InSeriesStep BY <1>1 DEF InSeriesStep, InAnySeries
<1>3. /\ WindowSize \in 1..PathWindow /\ PathWindow \in Nat
      /\ paths \in [0..PathWindow -> Nodes]
      /\ initialized \in 0..WindowSize /\ local \in 0..initialized /\ frontier \in 0..initialized
      /\ Frontier
  BY <1>1, UnderWay DEF InAnySeries
<1>4. local' \in Nat /\ local' >= local BY <1>1, <1>3
<1>5. NodesAreMade' BY <1>1, <1>2, <1>4, NodeKept DEF NodesAreMade
<1>6. Frontier'
  <2>1. CASE LastNode /\ phase' = "select" /\ local' = local
    <3>1. local >= 1 BY <2>1, <1>3 DEF LastNode
    <3> QED BY <1>1, <1>3, <2>1, <3>1 DEF Frontier, Reached
  <2>2. CASE phase' = "relax" /\ local' = local + 1
    <3>1. Reached(local + 1) /\ Reached(1)
      <4>1. CASE local = 0
        <5>1. local + 1 = 1 BY <4>1
        <5> QED BY <5>1, <1>1, <1>3 DEF Frontier
      <4>2. CASE local # 0
        <5>1. local >= 1 BY <4>2, <1>3
        <5> QED BY <5>1, <1>1, <1>3 DEF Frontier
      <4> QED BY <4>1, <4>2
    <3> QED BY <1>1, <1>3, <2>2, <3>1 DEF Frontier, Reached
  <2> QED BY <2>1, <2>2, <1>1
<1>7. selected \in Nat BY DEF IInv, TypeOK
<1> QED BY <1>1, <1>2, <1>3, <1>4, <1>5, <1>6, <1>7, SeriesStep

LEMMA WindowKept == ASSUME InSeriesStep PROVE WindowSize' = WindowSize
BY DEF InSeriesStep, WindowSize

LEMMA Longer ==
  ASSUME NEW node \in Nodes
  PROVE  /\ OneMoreLiteral(node) \in Nodes
         /\ OneMoreLiteral(node).literals = node.literals + 1
         /\ OneMoreLiteral(node).reached = node.reached
         /\ OneMoreLiteral(node).length = node.length
         /\ OneMoreLiteral(node).base = node.base
         /\ OneMoreLiteral(node).repeats = node.repeats
         /\ OneMoreLiteral(node).distance = node.distance
BY DEF OneMoreLiteral, Nodes

\* One literal more on a path that is well made makes another.
LEMMA Extended ==
  ASSUME IInv, InSeriesStep, local' \in Nat, local' >= local,
         \A k \in 0..local : paths'[k] = paths[k],
         NEW m \in 0..initialized, paths[m].reached, m + 1 \in 0..PathWindow,
         paths'[m + 1] = OneMoreLiteral(paths[m])
  PROVE  paths'[m + 1].reached /\ WellMade(m + 1)'
<1>1. InAnySeries /\ repeats' = repeats /\ position' = position /\ anchor' = anchor
  BY DEF InSeriesStep
<1>2. /\ paths \in [0..PathWindow -> Nodes] /\ local \in Nat
      /\ initialized \in 0..WindowSize /\ WindowSize \in 1..PathWindow /\ PathWindow \in Nat
      /\ InitialLiterals \in Nat /\ NodesAreMade
  BY <1>1, UnderWay
<1>3. WellMade(m) BY <1>2 DEF NodesAreMade
<1>4. m \in Nat /\ paths[m] \in Nodes /\ paths[m].literals \in Nat /\ paths[m].length \in Nat
  <2>1. m \in 0..PathWindow BY <1>2
  <2> QED BY <2>1, <1>2, SMTT(30) DEF Nodes
<1>5. InitialLiterals' = InitialLiterals BY <1>1 DEF InitialLiterals
<1> DEFINE n == m + 1
           new == paths'[n]
           old == paths[m]
<1>6. /\ new.literals = old.literals + 1 /\ new.reached = old.reached /\ new.length = old.length
      /\ new.base = old.base /\ new.repeats = old.repeats /\ new.distance = old.distance
  BY <1>4, Longer
<1>7. From(n)' = n - new.literals - new.length BY DEF From
<1>8. From(m) = m - old.literals - old.length BY DEF From
<1>9. From(n)' = From(m) BY <1>4, <1>6, <1>7, <1>8
<1>10. CASE old.length = 0 /\ old.literals = m + InitialLiterals /\ old.repeats = repeats
  <2>1. new.length = 0 /\ new.literals = n + InitialLiterals /\ new.repeats = repeats
    BY <1>10, <1>6, <1>4, <1>2
  <2>2. WellMade(n)' BY <2>1, <1>1, <1>5 DEF WellMade
  <2> QED BY <2>2, <1>6
<1>11. CASE /\ old.length > 0 /\ From(m) \in 0..local
            /\ paths[From(m)].reached /\ FoundAt(old, paths[From(m)])
  <2> DEFINE from == From(m)
  <2>1. from \in 0..local /\ from \in 0..local' /\ paths'[from] = paths[from] BY <1>11, <1>2
  <2>2. FoundAt(new, paths'[from]) BY <1>11, <2>1, <1>6 DEF FoundAt
  <2>3. FoundAt(paths[n], paths[From(n)])' BY <2>2, <1>9 DEF FoundAt
  <2>4. new.length > 0 BY <1>11, <1>6
  <2>5. WellMade(n)' BY <2>1, <2>3, <2>4, <1>9, <1>11 DEF WellMade
  <2> QED BY <2>5, <1>6
<1> QED BY <1>3, <1>10, <1>11 DEF WellMade

LEMMA Cleared ==
  ASSUME paths \in [0..PathWindow -> Nodes], PathWindow \in Nat, initialized \in Nat,
         NEW last \in Nat
  PROVE  /\ InitializedThrough(paths, last) \in [0..PathWindow -> Nodes]
         /\ \A n \in 0..PathWindow :
              /\ n <= initialized \/ last < n => InitializedThrough(paths, last)[n] = paths[n]
              /\ initialized < n /\ n <= last => InitializedThrough(paths, last)[n] = Unreached
<1>1. InitialRepeats \in Histories BY DEF InitialRepeats, Histories
<1>2. Unreached \in Nodes BY <1>1 DEF Unreached, Nodes
<1> HIDE DEF Unreached
<1> QED BY <1>2 DEF InitializedThrough

LEMMA RelaxLiteralKeeps ==
  ASSUME IInv, NEW wins \in BOOLEAN, NEW lighter \in BOOLEAN, NEW cheaper \in BOOLEAN,
         RelaxLiteral(wins, lighter, cheaper)
  PROVE  IInv'
<1> DEFINE before   == InitializedThrough(paths, local + 1)[local + 1]
           replaced == ~before.reached \/ wins
           saves    == Preserves(before, replaced) /\ lighter
           keeps    == saves /\ cheaper
           reach    == IF saves THEN local + 2 ELSE local + 1
           cleared  == InitializedThrough(paths, reach)
           relaxed  == IF replaced
                       THEN [cleared EXCEPT ![local + 1] = OneMoreLiteral(paths[local])]
                       ELSE cleared
<1>1. /\ phase = "relax" /\ InSeries /\ paths[local].reached
      /\ wins => before.reached
      /\ initialized' = Larger(initialized, reach)
      /\ paths' = IF keeps THEN [relaxed EXCEPT ![local + 2] = OneMoreLiteral(before)]
                  ELSE relaxed
      /\ frontier' = IF keeps THEN Larger(frontier, local + 2) ELSE frontier
      /\ selected' = IF keeps THEN frontier' ELSE selected
      /\ phase' = "look"
      /\ UNCHANGED <<strategy, seeded, repeats, blockRepeats, begin, end, position, anchor, local,
                     candidates, sequences, pending, ends>>
  BY DEF RelaxLiteral, frame, block, parts
<1>2. InSeriesStep BY <1>1 DEF InSeriesStep, InAnySeries
<1>3. /\ WindowSize \in 1..PathWindow /\ PathWindow \in Nat
      /\ paths \in [0..PathWindow -> Nodes]
      /\ initialized \in 0..WindowSize /\ local \in 0..initialized /\ frontier \in 0..initialized
      /\ initialized \in Nat /\ local \in Nat
      /\ Frontier /\ NodesAreMade
  BY <1>1, UnderWay DEF InAnySeries
<1>4. local + 1 \in 0..PathWindow /\ local + 1 <= WindowSize /\ local \in 0..PathWindow
  BY <1>1, <1>3 DEF InSeries
<1>5. saves => /\ replaced /\ before.length # 0 /\ local + 2 <= WindowSize
               /\ local + 2 \in 0..PathWindow
  <2>1. saves => replaced /\ before.length # 0 /\ local + 2 <= WindowSize
    <3> HIDE DEF before
    <3> QED BY DEF Preserves
  <2> QED BY <2>1, <1>3
<1>6. reach \in Nat /\ local + 1 <= reach /\ reach <= WindowSize /\ reach <= local + 2
  <2> HIDE DEF saves
  <2> QED BY <1>3, <1>4, <1>5
<1>7. /\ cleared \in [0..PathWindow -> Nodes]
      /\ \A n \in 0..PathWindow :
           /\ n <= initialized \/ reach < n => cleared[n] = paths[n]
           /\ initialized < n /\ n <= reach => cleared[n] = Unreached
  <2> HIDE DEF reach
  <2> QED BY <1>3, <1>6, Cleared
<1>8. /\ local + 1 <= initialized => before = paths[local + 1]
      /\ initialized < local + 1 => before = Unreached
      /\ before \in Nodes
  <2>1. local + 1 \in Nat BY <1>3
  <2> QED BY <2>1, <1>3, <1>4, Cleared
<1>9. before.reached \/ before.length # 0 =>
        local + 1 <= initialized /\ paths[local + 1].reached /\ before = paths[local + 1]
  <2>1. Unreached.reached = FALSE /\ Unreached.length = 0 BY DEF Unreached
  <2>2. CASE initialized < local + 1 BY <2>1, <2>2, <1>8
  <2>3. CASE local + 1 <= initialized
    <3>1. local + 1 \in 0..initialized BY <2>3, <1>3
    <3>2. paths[local + 1].reached \/ paths[local + 1] = Unreached BY <3>1, <1>3 DEF NodesAreMade
    <3> HIDE DEF before
    <3> QED BY <2>1, <2>3, <3>2, <1>8
  <2> QED BY <2>2, <2>3, <1>3
<1>10. OneMoreLiteral(paths[local]) \in Nodes /\ OneMoreLiteral(before) \in Nodes
       /\ OneMoreLiteral(paths[local]).reached = paths[local].reached
       /\ OneMoreLiteral(before).reached = before.reached
  <2> HIDE DEF before
  <2> QED BY <1>3, <1>4, <1>8, Longer
<1> HIDE DEF before, cleared, reach
<1>11. relaxed \in [0..PathWindow -> Nodes] BY <1>7, <1>10
<1>12. paths' \in [0..PathWindow -> Nodes]
  <2> HIDE DEF relaxed, keeps
  <2> QED BY <1>1, <1>10, <1>11
<1>13. /\ replaced => relaxed[local + 1] = OneMoreLiteral(paths[local])
       /\ ~replaced => relaxed[local + 1] = cleared[local + 1]
       /\ \A n \in 0..PathWindow : n # local + 1 => relaxed[n] = cleared[n]
  BY <1>7, <1>4
<1>14. /\ keeps => paths'[local + 2] = OneMoreLiteral(before)
       /\ \A n \in 0..PathWindow : n # local + 2 \/ ~keeps => paths'[n] = relaxed[n]
  <2> HIDE DEF relaxed, saves
  <2> QED BY <1>1, <1>5, <1>11
<1>15. ASSUME NEW k \in 0..local PROVE paths'[k] = paths[k]
  <2>1. k \in 0..PathWindow /\ k # local + 1 /\ k # local + 2 /\ k <= initialized BY <1>3, <1>4
  <2> HIDE DEF relaxed, keeps
  <2> QED BY <2>1, <1>7, <1>13, <1>14
<1>16. local' = local /\ local' \in Nat /\ local' >= local /\ local \in 0..initialized
       /\ initialized' \in Nat /\ initialized <= initialized' /\ reach <= initialized'
       /\ initialized' <= WindowSize /\ (initialized' = initialized \/ initialized' = reach)
  BY <1>1, <1>3, <1>6 DEF Larger
\* The two nodes that may be new, c being the node in hand.
<1>c. PICK c \in Nat : c = local BY <1>3
<1>17. paths'[c + 1].reached /\ (IF replaced THEN WellMade(c + 1)' ELSE
                                   /\ local + 1 <= initialized
                                   /\ paths'[local + 1] = paths[local + 1])
  <2>0. local + 1 # local + 2 BY <1>3
  <2>1. paths'[local + 1] = relaxed[local + 1]
    <3> HIDE DEF relaxed, keeps
    <3> QED BY <2>0, <1>4, <1>14
  <2>2. CASE replaced
    <3>1. paths'[local + 1] = OneMoreLiteral(paths[local])
      <4> HIDE DEF relaxed, replaced
      <4> QED BY <2>1, <2>2, <1>13
    <3> HIDE DEF replaced
    <3>2. c \in 0..initialized /\ c + 1 \in 0..PathWindow /\ paths[c].reached
          /\ paths'[c + 1] = OneMoreLiteral(paths[c])
      BY <3>1, <1>1, <1>c, <1>4, <1>16
    <3>3. paths'[c + 1].reached /\ WellMade(c + 1)'
      BY <3>2, <1>2, <1>15, <1>16, Extended
    <3> QED BY <3>3, <2>2
  <2>3. CASE ~replaced
    <3>1. before.reached BY <2>3
    <3>2. local + 1 <= initialized /\ paths[local + 1].reached BY <3>1, <1>9
    <3>3. paths'[local + 1] = cleared[local + 1]
      <4> HIDE DEF relaxed, replaced
      <4> QED BY <2>1, <2>3, <1>13
    <3>4. paths'[local + 1] = paths[local + 1]
      <4> HIDE DEF relaxed, replaced
      <4> QED BY <3>2, <3>3, <1>4, <1>7
    <3>5. paths'[c + 1].reached BY <3>2, <3>4, <1>c
    <3> QED BY <2>3, <3>2, <3>4, <3>5
  <2> QED BY <2>2, <2>3
<1>18. keeps => paths'[c + 2].reached /\ WellMade(c + 2)'
  <2> SUFFICES ASSUME keeps PROVE paths'[c + 2].reached /\ WellMade(c + 2)' OBVIOUS
  <2> DEFINE m == c + 1
  <2>1. m \in 0..initialized /\ paths[m].reached /\ before = paths[m]
    <3>1. before.length # 0 BY <1>5
    <3> QED BY <3>1, <1>3, <1>9, <1>c
  <2>2. m + 1 = c + 2 /\ m + 1 = local + 2 /\ m + 1 \in 0..PathWindow
    <3>1. saves OBVIOUS
    <3> HIDE DEF saves
    <3> QED BY <3>1, <1>3, <1>5, <1>c
  <2>3. paths'[m + 1] = OneMoreLiteral(paths[m]) BY <2>1, <2>2, <1>14
  <2> HIDE DEF m, keeps, relaxed
  <2>4. paths'[m + 1].reached /\ WellMade(m + 1)'
    BY <2>1, <2>2, <2>3, <1>2, <1>15, <1>16, Extended
  <2> QED BY <2>2, <2>4
<1>19. ASSUME NEW n \in 0..PathWindow, n # local + 2 \/ ~keeps, n # local + 1 \/ ~replaced
       PROVE  paths'[n] = cleared[n]
  <2>1. paths'[n] = relaxed[n]
    <3> HIDE DEF relaxed, keeps
    <3> QED BY <1>14, <1>19
  <2>2. relaxed[n] = cleared[n]
    <3> HIDE DEF replaced
    <3> QED BY <1>13, <1>19
  <2> QED BY <2>1, <2>2
<1>20. ASSUME NEW n \in 0..initialized'
       PROVE  IF paths'[n].reached THEN WellMade(n)' ELSE paths'[n] = Unreached
  <2>0. n \in 0..PathWindow BY <1>16, <1>3
  <2>1. CASE n = local + 1 /\ replaced
    <3> HIDE DEF replaced
    <3>1. n = c + 1 BY <2>1, <1>c
    <3> QED BY <2>1, <3>1, <1>17
  <2>2. CASE n = local + 2 /\ keeps
    <3> HIDE DEF keeps
    <3>1. n = c + 2 BY <2>2, <1>c
    <3> QED BY <2>2, <3>1, <1>18
  <2>3. CASE (n # local + 1 \/ ~replaced) /\ (n # local + 2 \/ ~keeps)
    <3>1. paths'[n] = cleared[n]
      <4> HIDE DEF replaced, keeps
      <4> QED BY <2>0, <2>3, <1>19
    <3>2. CASE n <= initialized
      <4>1. paths'[n] = paths[n] /\ n \in 0..initialized BY <3>1, <3>2, <2>0, <1>3, <1>7
      <4> HIDE DEF replaced, keeps
      <4> QED BY <4>1, <1>2, <1>15, <1>16, NodeKept
    <3>3. CASE initialized < n
      <4>1. n <= reach BY <3>3, <1>16
      <4>2. paths'[n] = Unreached BY <4>1, <3>1, <3>3, <2>0, <1>7
      <4> QED BY <4>2 DEF Unreached
    <3> QED BY <3>2, <3>3, <2>0, <1>3
  <2> HIDE DEF replaced, keeps
  <2> QED BY <2>1, <2>2, <2>3
<1>21. ASSUME NEW n \in Nat, Reached(n) PROVE Reached(n)'
  <2>0. n <= initialized /\ n <= initialized' /\ paths[n].reached /\ n \in 0..PathWindow
    BY <1>21, <1>3, <1>16 DEF Reached
  <2>1. CASE n = local + 1 BY <2>0, <2>1, <1>c, <1>17 DEF Reached
  <2>2. CASE n = local + 2 /\ keeps
    <3> HIDE DEF keeps
    <3> QED BY <2>0, <2>2, <1>c, <1>18 DEF Reached
  <2>3. CASE n # local + 1 /\ (n # local + 2 \/ ~keeps)
    <3>1. paths'[n] = cleared[n]
      <4> HIDE DEF replaced, keeps
      <4> QED BY <2>0, <2>3, <1>19
    <3>2. paths'[n] = paths[n] BY <3>1, <2>0, <1>7
    <3> QED BY <3>2, <2>0 DEF Reached
  <2> HIDE DEF replaced, keeps
  <2> QED BY <2>1, <2>2, <2>3
<1>22. NodesAreMade' BY <1>20 DEF NodesAreMade
<1>23. Frontier'
  <2>0. \A n \in Nat :
          n <= initialized /\ paths[n].reached => n <= initialized' /\ paths'[n].reached
    BY <1>21 DEF Reached
  <2>1. /\ Reached(local)' /\ Reached(0)' /\ (local >= 1 => Reached(1)')
        /\ frontier \in Nat /\ frontier <= initialized' /\ paths'[frontier].reached
        /\ selected = IF frontier = 0 THEN 1 ELSE frontier
    BY <1>3, <1>16, <2>0 DEF Frontier, Reached
  <2>2. Reached(local + 1)' BY <1>6, <1>16, <1>17, <1>c DEF Reached
  <2>3. CASE keeps
    <3>1. reach = local + 2
      <4>1. saves BY <2>3
      <4> QED BY <4>1 DEF reach
    <3>2. local + 2 <= initialized' /\ paths'[local + 2].reached
      <4>1. keeps BY <2>3
      <4> HIDE DEF keeps
      <4> QED BY <4>1, <3>1, <1>16, <1>18, <1>c
    <3>3. selected' = frontier' /\ frontier' = Larger(frontier, local + 2)
      <4>1. keeps BY <2>3
      <4> HIDE DEF keeps
      <4> QED BY <4>1, <1>1
    <3>4. Reached(frontier)' /\ frontier' >= frontier /\ frontier' # 0 /\ frontier' \in Nat
      <4>1. \/ frontier' = frontier /\ frontier >= local + 2
            \/ frontier' = local + 2 /\ frontier < local + 2
        BY <3>3, <2>1, <1>3 DEF Larger
      <4>2. CASE frontier' = frontier /\ frontier >= local + 2
        BY <2>1, <4>2, <1>3 DEF Reached
      <4>3. CASE frontier' = local + 2 /\ frontier < local + 2
        BY <4>3, <3>2, <2>1, <1>3 DEF Reached
      <4> QED BY <4>1, <4>2, <4>3
    <3> HIDE DEF keeps, replaced, relaxed
    <3>5. local' = local /\ local < WindowSize' /\ (local = 0 \/ local <= frontier')
          /\ phase' = "look"
      BY <3>4, <1>1, <1>2, <1>3, <1>4, WindowKept DEF InSeries
    <3> QED BY <2>1, <2>2, <3>3, <3>4, <3>5 DEF Frontier
  <2>4. CASE ~keeps
    <3>1. frontier' = frontier /\ selected' = selected
      <4>1. ~keeps BY <2>4
      <4> HIDE DEF keeps
      <4> QED BY <4>1, <1>1
    <3> HIDE DEF keeps, replaced, relaxed
    <3>2. Reached(frontier)' BY <2>1, <3>1 DEF Reached
    <3>3. local' = local /\ local < WindowSize' /\ (local = 0 \/ local <= frontier')
          /\ phase' = "look"
      BY <3>1, <1>1, <1>2, <1>3, <1>4, WindowKept DEF InSeries
    <3> QED BY <2>1, <2>2, <3>1, <3>2, <3>3 DEF Frontier
  <2> QED BY <2>3, <2>4
<1>24. frontier' \in Nat /\ selected' \in Nat
  <2>1. selected \in Nat BY DEF IInv, TypeOK
  <2>2. Larger(frontier, local + 2) \in Nat BY <1>3 DEF Larger
  <2> HIDE DEF keeps
  <2> QED BY <2>1, <2>2, <1>1, <1>3
<1> HIDE DEF keeps, replaced, relaxed
<1> QED BY <1>2, <1>12, <1>16, <1>22, <1>23, <1>24, SeriesStep

\* Matches are found longer and longer.
LEMMA Growing ==
  ASSUME NEW list \in Seq(Matches), \A i \in 2..Len(list) : list[i - 1].length < list[i].length,
         NEW i \in 1..Len(list), NEW j \in 1..Len(list), i <= j
  PROVE  list[i].length <= list[j].length
<1> DEFINE T == {k \in Nat : i <= k /\ k <= Len(list) => list[i].length <= list[k].length}
<1>0. Len(list) \in Nat /\ \A k \in 1..Len(list) : list[k].length \in Nat
  <2>1. ASSUME NEW k \in 1..Len(list) PROVE list[k].length \in Nat
    <3>1. list[k] \in Matches OBVIOUS
    <3> QED BY <3>1 DEF Matches
  <2> QED BY <2>1
<1>1. ASSUME NEW k \in Nat, \A m \in Nat : m < k => m \in T PROVE k \in T
  <2> SUFFICES ASSUME i <= k, k <= Len(list) PROVE list[i].length <= list[k].length OBVIOUS
  <2>1. CASE k = i BY <2>1, <1>0
  <2>2. CASE k # i
    <3>1. k \in 2..Len(list) /\ k - 1 \in 1..Len(list) /\ k \in 1..Len(list)
          /\ k - 1 \in Nat /\ k - 1 < k /\ i <= k - 1
      BY <2>2, <1>0
    <3>2. list[i].length <= list[k - 1].length BY <3>1, <1>1, <1>0
    <3>3. list[k - 1].length < list[k].length BY <3>1
    <3> QED BY <3>1, <3>2, <3>3, <1>0
  <2> QED BY <2>1, <2>2
<1> HIDE DEF T
<1>2. \A k \in Nat : k \in T BY <1>1, Induction
<1>3. j \in T /\ j \in Nat BY <1>2, <1>0
<1> QED BY <1>3, <1>0 DEF T

\* The lengths that the matches are tried with reach to the longest, and no further.
LEMMA Tried ==
  ASSUME NEW list \in Seq(Matches), list # <<>>, MinMatch \in Nat \ {0},
         \A i \in 2..Len(list) : list[i - 1].length < list[i].length,
         NEW room \in Nat, WindowSize - local = room
  PROVE  /\ Clipped(Last(list)) \in 0..room
         /\ \A i \in 1..Len(list) : Clipped(list[i]) \in 0..Clipped(Last(list))
         /\ \A i \in 1..Len(list) : FirstLength(list, i) \in Nat /\ FirstLength(list, i) >= MinMatch
         /\ Clipped(Last(list)) >= MinMatch =>
              \E i \in 1..Len(list) : /\ Clipped(list[i]) = Clipped(Last(list))
                                      /\ FirstLength(list, i) <= Clipped(Last(list))
<1> DEFINE n == Len(list)
           reach == Clipped(Last(list))
<1>0. n \in Nat /\ n >= 1 OBVIOUS
<1>1. ASSUME NEW i \in 1..n PROVE list[i].length \in Nat /\ Clipped(list[i]) \in 0..room
  <2>1. list[i] \in Matches OBVIOUS
  <2>2. list[i].length \in Nat BY <2>1 DEF Matches
  <2> QED BY <2>2 DEF Clipped, Smaller
<1>2. reach = Clipped(list[n]) BY DEF Last
<1>3. ASSUME NEW i \in 1..n PROVE Clipped(list[i]) \in 0..reach
  <2>1. list[i].length <= list[n].length
    <3>1. n \in 1..Len(list) /\ i <= n BY <1>0
    <3> QED BY <3>1, Growing
  <2>2. list[n].length \in Nat BY <1>0, <1>1
  <2>3. Clipped(list[i]) <= Clipped(list[n]) BY <1>1, <2>1, <2>2 DEF Clipped, Smaller
  <2>4. Clipped(list[n]) \in 0..room BY <1>0, <1>1
  <2> HIDE DEF n, reach
  <2> QED BY <1>1, <1>2, <2>3, <2>4
<1>4. reach \in 0..room BY <1>0, <1>1, <1>2
<1> HIDE DEF n, reach
<1>5. ASSUME NEW i \in 1..n PROVE FirstLength(list, i) \in Nat /\ FirstLength(list, i) >= MinMatch
  <2>1. CASE i = 1 BY <2>1 DEF FirstLength
  <2>2. CASE i # 1
    <3>1. i - 1 \in 1..n BY <2>2, <1>0
    <3>2. Clipped(list[i - 1]) \in Nat BY <3>1, <1>1
    <3> QED BY <3>2, <2>2 DEF FirstLength, Larger
  <2> QED BY <2>1, <2>2
<1>6. ASSUME reach >= MinMatch
      PROVE  \E i \in 1..n : Clipped(list[i]) = reach /\ FirstLength(list, i) <= reach
  <2> DEFINE Full == {i \in 1..n : Clipped(list[i]) = reach}
  <2>1. Full \subseteq Nat /\ Full # {} BY <1>0, <1>2
  <2>2. PICK i \in Full : \A k \in Full : i <= k
    <3> HIDE DEF Full
    <3> QED BY <2>1, LeastNatural
  <2>3. i \in 1..n /\ Clipped(list[i]) = reach OBVIOUS
  <2>4. FirstLength(list, i) <= reach
    <3>1. CASE i = 1 BY <3>1, <1>6 DEF FirstLength
    <3>2. CASE i # 1
      <4>1. i - 1 \in 1..n /\ ~(i <= i - 1) BY <2>3, <3>2, <1>0
      <4>2. Clipped(list[i - 1]) # reach BY <4>1, <2>2
      <4>3. Clipped(list[i - 1]) \in 0..reach BY <4>1, <1>3
      <4>4. Clipped(list[i - 1]) + 1 <= reach BY <4>2, <4>3, <1>4
      <4>5. FirstLength(list, i) = Larger(MinMatch, Clipped(list[i - 1]) + 1)
        BY <3>2 DEF FirstLength
      <4> QED BY <4>4, <4>5, <1>6 DEF Larger
    <3> QED BY <3>1, <3>2
  <2> QED BY <2>3, <2>4
<1> QED BY <1>3, <1>4, <1>5, <1>6 DEF n, reach

\* A match found at the node in hand makes a node that is well made.
LEMMA Matched ==
  ASSUME NEW node \in Nodes, NEW m \in Matches, NEW length \in Nat,
         m.distance = ResolveOptimalOffset(node.repeats, m.base, node.literals = 0)
  PROVE  /\ MatchNode(node, m, length) \in Nodes
         /\ MatchNode(node, m, length).reached = TRUE
         /\ MatchNode(node, m, length).length = length
         /\ MatchNode(node, m, length).literals = 0
         /\ FoundAt(MatchNode(node, m, length), node)
<1>1. /\ node.repeats \in Histories /\ m.base \in Nat \ {0} /\ m.distance \in Int
      /\ (node.literals = 0) \in BOOLEAN
  BY DEF Nodes, Matches
<1>2. UpdateOptimalRepeats(node.repeats, m.base, node.literals = 0) \in Histories
  BY <1>1, UpdateType
<1>3. MatchNode(node, m, length) \in Nodes BY <1>1, <1>2 DEF MatchNode, Nodes
<1>4. /\ MatchNode(node, m, length).reached = TRUE
      /\ MatchNode(node, m, length).length = length
      /\ MatchNode(node, m, length).literals = 0
      /\ MatchNode(node, m, length).base = m.base
      /\ MatchNode(node, m, length).distance = m.distance
      /\ MatchNode(node, m, length).repeats
           = UpdateOptimalRepeats(node.repeats, m.base, node.literals = 0)
  BY DEF MatchNode
<1>5. FoundAt(MatchNode(node, m, length), node) BY <1>1, <1>4 DEF FoundAt
<1> QED BY <1>3, <1>4, <1>5

LEMMA RelaxKeeps ==
  ASSUME IInv, NEW list, NEW wins, Relax(list, wins)
  PROVE  IInv'
<1> DEFINE reach   == IF list = <<>> THEN 0 ELSE Clipped(Last(list))
           longest == IF reach >= MinMatch THEN local + reach ELSE 0
           cleared == InitializedThrough(paths, longest)
           better(n) == ~cleared[n].reached \/ (n - local) \in wins
           tried(i) == {length \in FirstLength(list, i)..Clipped(list[i]) :
                          Accurate \/ \A more \in (length + 1)..Clipped(list[i]) : better(local + more)}
           by(n)   == {i \in DOMAIN list : (n - local) \in tried(i)}
           takes(n) == by(n) # {} /\ better(n)
           new(n)  == MatchNode(paths[local], list[CHOOSE i \in by(n) : TRUE], n - local)
<1>1. /\ Looks /\ list \in FoundHere
      /\ paths' = [n \in DOMAIN paths |-> IF takes(n) THEN new(n) ELSE cleared[n]]
      /\ initialized' = Larger(initialized, longest)
      /\ frontier' = Larger(frontier, longest)
      /\ selected' = IF longest > 0 THEN frontier' ELSE selected
      /\ local' = local + 1 /\ phase' = "relax"
      /\ UNCHANGED <<strategy, seeded, repeats, blockRepeats, begin, end, position, anchor,
                     candidates, sequences, pending, ends>>
  BY DEF Relax, frame, block, parts
<1>2. InSeriesStep /\ phase = "look"
  <2>1. phase = "look" BY <1>1 DEF Looks
  <2> QED BY <2>1, <1>1 DEF InSeriesStep, InAnySeries
<1>3. /\ WindowSize \in 1..PathWindow /\ PathWindow \in Nat
      /\ paths \in [0..PathWindow -> Nodes]
      /\ initialized \in 0..WindowSize /\ local \in 0..initialized /\ frontier \in 0..initialized
      /\ initialized \in Nat /\ local \in Nat /\ frontier \in Nat
      /\ Frontier /\ NodesAreMade
  BY <1>2, UnderWay DEF InAnySeries
<1>4. /\ local \in 0..PathWindow /\ local + 1 <= WindowSize /\ local + 1 \in 0..PathWindow
      /\ Reached(local + 1) /\ Reached(local) /\ paths[local] \in Nodes
  BY <1>2, <1>3 DEF Frontier
<1>5. MinMatch \in Nat \ {0} BY ConstantsAssumption
<1>6. /\ list \in Seq(Matches)
      /\ \A i \in 1..Len(list) :
           /\ list[i] \in Matches
           /\ list[i].distance = ResolveOptimalOffset(paths[local].repeats, list[i].base,
                                                      paths[local].literals = 0)
      /\ \A i \in 2..Len(list) : list[i - 1].length < list[i].length
  <2>1. Findable(list, position + local, paths[local].repeats, paths[local].literals = 0)
    BY <1>1, FoundHereType DEF IInv
  <2> QED BY <2>1 DEF Findable
<1>c. PICK c \in Nat : c = local BY <1>3
<1>r. PICK room \in Nat : WindowSize - local = room BY <1>3, <1>4
<1>7. /\ reach \in 0..room
      /\ \A i \in 1..Len(list) : /\ Clipped(list[i]) \in 0..reach
                                 /\ FirstLength(list, i) \in Nat /\ FirstLength(list, i) >= MinMatch
      /\ reach >= MinMatch =>
           \E i \in 1..Len(list) : Clipped(list[i]) = reach /\ FirstLength(list, i) <= reach
  <2>1. CASE list = <<>> BY <2>1, <1>5, <1>r
  <2>2. CASE list # <<>>
    <3>1. reach = Clipped(Last(list)) BY <2>2
    <3> HIDE DEF reach
    <3> QED BY <2>2, <3>1, <1>5, <1>6, <1>r, Tried
  <2> QED BY <2>1, <2>2
<1> HIDE DEF reach
<1>8. /\ longest \in 0..WindowSize /\ longest \in Nat
      /\ reach >= MinMatch => longest = local + reach /\ longest > local
      /\ reach < MinMatch => longest = 0
  <2>1. reach \in Nat /\ local + reach <= WindowSize BY <1>3, <1>r, <1>7
  <2> QED BY <2>1, <1>3, <1>5
<1> HIDE DEF longest
<1>9. /\ cleared \in [0..PathWindow -> Nodes]
      /\ \A n \in 0..PathWindow :
           /\ n <= initialized \/ longest < n => cleared[n] = paths[n]
           /\ initialized < n /\ n <= longest => cleared[n] = Unreached
  BY <1>3, <1>8, Cleared
<1> HIDE DEF cleared
\* Which nodes a match may write, and what it writes there.
<1>10. ASSUME NEW n \in 0..PathWindow, takes(n)
       PROVE  /\ n > local /\ n <= longest
              /\ new(n) \in Nodes /\ new(n).reached /\ new(n).length = n - local
              /\ new(n).literals = 0 /\ FoundAt(new(n), paths[local])
  <2> DEFINE i == CHOOSE i \in by(n) : TRUE
  <2>1. i \in by(n) BY <1>10
  <2>2. i \in DOMAIN list /\ (n - local) \in FirstLength(list, i)..Clipped(list[i])
    <3> HIDE DEF i, better
    <3> QED BY <2>1
  <2>3. i \in 1..Len(list) BY <2>2, <1>6
  <2>4. new(n) = MatchNode(paths[local], list[i], n - local) OBVIOUS
  <2> HIDE DEF i, new, by, better, tried, takes
  <2>5. /\ Clipped(list[i]) \in 0..reach /\ FirstLength(list, i) \in Nat
        /\ FirstLength(list, i) >= MinMatch
    BY <2>3, <1>7
  <2>6. n - local \in Nat /\ n - local >= MinMatch /\ n - local <= reach
    BY <2>2, <2>5, <1>3, <1>5, <1>7
  <2>7. n > local /\ n <= longest BY <2>6, <1>3, <1>5, <1>7, <1>8
  <2>8. /\ list[i] \in Matches
        /\ list[i].distance = ResolveOptimalOffset(paths[local].repeats, list[i].base,
                                                   paths[local].literals = 0)
    BY <2>3, <1>6
  <2> DEFINE node == MatchNode(paths[local], list[i], n - local)
  <2>9. /\ node \in Nodes /\ node.reached = TRUE /\ node.length = n - local
        /\ node.literals = 0 /\ FoundAt(node, paths[local])
    BY <2>6, <2>8, <1>4, Matched
  <2>10. new(n) = node BY <2>4
  <2> HIDE DEF node
  <2> QED BY <2>7, <2>9, <2>10
\* The longest length is always tried.
<1>11. ASSUME longest > 0, ~cleared[longest].reached PROVE takes(longest)
  <2>1. reach >= MinMatch /\ longest - local = reach BY <1>11, <1>3, <1>5, <1>7, <1>8
  <2>2. PICK i \in 1..Len(list) : Clipped(list[i]) = reach /\ FirstLength(list, i) <= reach
    BY <2>1, <1>7
  <2>3. i \in DOMAIN list BY <1>6
  <2>4. reach \in FirstLength(list, i)..Clipped(list[i]) BY <2>2, <1>7
  <2>5. (reach + 1)..Clipped(list[i]) = {} BY <2>2, <1>7
  <2>6. reach \in tried(i)
    <3> HIDE DEF better
    <3> QED BY <2>4, <2>5
  <2> HIDE DEF tried
  <2>7. i \in by(longest) BY <2>1, <2>3, <2>6
  <2> QED BY <2>7, <1>11
<1> HIDE DEF takes, new, by, tried, better
<1>s. (longest > 0 => selected' = frontier') /\ (~(longest > 0) => selected' = selected) BY <1>1
<1>12. ASSUME NEW n \in 0..PathWindow PROVE paths'[n] = IF takes(n) THEN new(n) ELSE cleared[n]
  <2>1. DOMAIN paths = 0..PathWindow BY <1>3
  <2> QED BY <2>1, <1>1
<1>13. paths' \in [0..PathWindow -> Nodes]
  <2>1. DOMAIN paths = 0..PathWindow BY <1>3
  <2>2. \A n \in 0..PathWindow : (IF takes(n) THEN new(n) ELSE cleared[n]) \in Nodes BY <1>9, <1>10
  <2> QED BY <2>1, <2>2, <1>1
<1>14. ASSUME NEW k \in 0..local PROVE paths'[k] = paths[k]
  <2>1. k \in 0..PathWindow /\ k <= initialized /\ ~(k > local) BY <1>3
  <2>2. ~takes(k) BY <2>1, <1>10
  <2> QED BY <2>1, <2>2, <1>9, <1>12
<1>15. /\ local' \in Nat /\ local' >= local /\ local' = c + 1
       /\ initialized' \in Nat /\ initialized <= initialized' /\ longest <= initialized'
       /\ initialized' <= WindowSize /\ (initialized' = initialized \/ initialized' = longest)
  BY <1>1, <1>3, <1>8, <1>c DEF Larger
<1>16. ASSUME NEW n \in 0..initialized'
       PROVE  IF paths'[n].reached THEN WellMade(n)' ELSE paths'[n] = Unreached
  <2>0. n \in 0..PathWindow BY <1>3, <1>15
  <2>1. CASE takes(n)
    <3>1. paths'[n] = new(n) BY <2>0, <2>1, <1>12
    <3>2. /\ n > local /\ paths'[n].reached /\ paths'[n].length = n - local
          /\ paths'[n].literals = 0 /\ FoundAt(paths'[n], paths[local])
      BY <2>0, <2>1, <3>1, <1>10
    <3>3. From(n)' = c /\ paths'[n].length > 0
      BY <3>2, <2>0, <1>3, <1>c DEF From
    <3>4. paths'[c] = paths[c] /\ paths[c].reached /\ c \in 0..local'
      BY <1>4, <1>14, <1>15, <1>c DEF Reached
    <3>5. FoundAt(paths'[n], paths'[c]) BY <3>2, <3>4, <1>c
    <3>6. FoundAt(paths[n], paths[From(n)])' BY <3>3, <3>5 DEF FoundAt
    <3>7. WellMade(n)' BY <3>3, <3>4, <3>6 DEF WellMade
    <3> QED BY <3>2, <3>7
  <2>2. CASE ~takes(n)
    <3>1. paths'[n] = cleared[n] BY <2>0, <2>2, <1>12
    <3>2. CASE n <= initialized
      <4>1. paths'[n] = paths[n] /\ n \in 0..initialized BY <3>1, <3>2, <2>0, <1>3, <1>9
      <4> QED BY <4>1, <1>2, <1>14, <1>15, NodeKept
    <3>3. CASE initialized < n
      <4>1. n <= longest BY <3>3, <1>15, <1>3
      <4>2. paths'[n] = Unreached BY <4>1, <3>1, <3>3, <2>0, <1>9
      <4> QED BY <4>2 DEF Unreached
    <3> QED BY <3>2, <3>3, <2>0, <1>3
  <2> QED BY <2>1, <2>2
<1>17. ASSUME NEW n \in Nat, n <= initialized, paths[n].reached
       PROVE  n <= initialized' /\ paths'[n].reached
  <2>1. n \in 0..PathWindow /\ n <= initialized' BY <1>3, <1>15, <1>17
  <2>2. CASE takes(n) BY <2>1, <2>2, <1>10, <1>12
  <2>3. CASE ~takes(n)
    <3>1. paths'[n] = paths[n] BY <2>1, <2>3, <1>9, <1>12, <1>17
    <3> QED BY <2>1, <3>1, <1>17
  <2> QED BY <2>2, <2>3, <2>1
<1>18. longest > 0 => paths'[longest].reached
  <2> SUFFICES ASSUME longest > 0 PROVE paths'[longest].reached OBVIOUS
  <2>1. longest \in 0..PathWindow BY <1>3, <1>8
  <2>2. CASE takes(longest) BY <2>1, <2>2, <1>10, <1>12
  <2>3. CASE ~takes(longest)
    <3>1. cleared[longest].reached BY <2>3, <1>11
    <3> QED BY <3>1, <2>1, <2>3, <1>12
  <2> QED BY <2>2, <2>3
<1>19. NodesAreMade' BY <1>16 DEF NodesAreMade
<1>20. /\ frontier' \in Nat /\ frontier' <= initialized' /\ paths'[frontier'].reached
       /\ selected' = IF frontier' = 0 THEN 1 ELSE frontier'
  <2>1. frontier <= initialized /\ paths[frontier].reached
        /\ selected = IF frontier = 0 THEN 1 ELSE frontier
    BY <1>3 DEF Frontier, Reached
  <2>2. frontier <= initialized' /\ paths'[frontier].reached BY <2>1, <1>3, <1>17
  <2>3. \/ frontier' = frontier /\ frontier >= longest
        \/ frontier' = longest /\ longest > frontier
    BY <1>1, <1>3, <1>8 DEF Larger
  <2>4. CASE frontier' = frontier /\ frontier >= longest
    <3>1. frontier' \in Nat /\ frontier' <= initialized' /\ paths'[frontier'].reached
      BY <2>2, <2>4, <1>3
    <3>2. CASE longest > 0
      <4>1. frontier' # 0 BY <3>2, <2>4, <1>3, <1>8
      <4> QED BY <4>1, <3>1, <3>2, <1>s
    <3>3. CASE ~(longest > 0)
      <4>1. selected' = selected BY <3>3, <1>s
      <4> QED BY <4>1, <3>1, <2>1, <2>4
    <3> QED BY <3>2, <3>3
  <2>5. CASE frontier' = longest /\ longest > frontier
    <3>1. longest > 0 BY <2>5, <1>3, <1>8
    <3>2. selected' = frontier' /\ frontier' # 0 BY <3>1, <2>5, <1>s, <1>8
    <3>3. frontier' \in Nat /\ frontier' <= initialized' BY <2>5, <1>8, <1>15
    <3>4. paths'[frontier'].reached BY <2>5, <3>1, <1>18
    <3> QED BY <3>2, <3>3, <3>4
  <2> QED BY <2>3, <2>4, <2>5
<1>21. Frontier'
  <2>1. 0 <= initialized' /\ paths'[0].reached /\ 1 <= initialized' /\ paths'[1].reached
    <3>1. 0 <= initialized /\ paths[0].reached BY <1>3 DEF Frontier, Reached
    <3>2. 1 <= initialized /\ paths[1].reached
      <4>1. CASE local = 0 BY <4>1, <1>4 DEF Reached
      <4>2. CASE local # 0
        <5>1. local >= 1 BY <4>2, <1>3
        <5> QED BY <5>1, <1>3 DEF Frontier, Reached
      <4> QED BY <4>1, <4>2
    <3> QED BY <3>1, <3>2, <1>17
  <2>2. c + 1 <= initialized' /\ paths'[c + 1].reached
    <3>1. c + 1 \in Nat /\ c + 1 <= initialized /\ paths[c + 1].reached BY <1>4, <1>c DEF Reached
    <3> QED BY <3>1, <1>17
  <2>3. phase' # "look" /\ phase' # "select" BY <1>1
  <2>4. Reached(0)' /\ Reached(1)' /\ Reached(local)' /\ Reached(frontier)'
    BY <2>1, <2>2, <1>15, <1>20 DEF Reached
  <2> QED BY <2>3, <2>4, <1>20 DEF Frontier
<1>22. selected' \in Nat BY <1>20
<1> QED BY <1>2, <1>13, <1>15, <1>19, <1>20, <1>21, <1>22, SeriesStep

----------------------------------------------------------------------------
(* The end of a series.                                                    *)

\* The places along a trace grow, a sequence having a match.
LEMMA PlacesGrow ==
  ASSUME NEW list \in Seq(Steps), NEW s, NEW trace, IsTrace(list, s, trace),
         NEW i \in 0..Len(list), NEW j \in 0..Len(list), i < j
  PROVE  trace[i].at < trace[j].at
<1> DEFINE n == Len(list)
           T == {k \in Nat : i < k /\ k <= n => trace[i].at < trace[k].at}
<1>0. n \in Nat OBVIOUS
<1>1. trace \in [0..n -> States] /\ \A k \in 1..n : trace[k] = After(trace[k - 1], list[k])
  BY DEF IsTrace
<1>2. ASSUME NEW k \in 0..n PROVE trace[k].at \in Nat
  <2>1. trace[k] \in States BY <1>1
  <2> QED BY <2>1 DEF States
<1>3. ASSUME NEW k \in 1..n PROVE trace[k - 1].at < trace[k].at
  <2>1. list[k] \in Steps OBVIOUS
  <2>2. list[k].literals \in Nat /\ list[k].length \in Nat \ {0} BY <2>1 DEF Steps
  <2>3. trace[k].at = trace[k - 1].at + list[k].literals + list[k].length
    <3>1. trace[k] = After(trace[k - 1], list[k]) BY <1>1
    <3> QED BY <3>1 DEF After
  <2>4. trace[k - 1].at \in Nat
    <3>1. k - 1 \in 0..n BY <1>0
    <3> QED BY <3>1, <1>2
  <2> QED BY <2>2, <2>3, <2>4
<1> HIDE DEF n
<1>4. ASSUME NEW k \in Nat, \A m \in Nat : m < k => m \in T PROVE k \in T
  <2> SUFFICES ASSUME i < k, k <= n PROVE trace[i].at < trace[k].at OBVIOUS
  <2>0. i \in Nat /\ k \in 1..n /\ k \in 0..n /\ k - 1 \in 0..n /\ k - 1 \in Nat /\ k - 1 < k
        /\ i \in 0..n
    BY <1>0 DEF n
  <2>1. CASE k - 1 = i BY <2>0, <2>1, <1>3
  <2>2. CASE k - 1 # i
    <3>1. i < k - 1 /\ k - 1 <= n BY <2>0, <2>2
    <3>2. trace[i].at < trace[k - 1].at BY <3>1, <2>0, <1>4
    <3>3. trace[k - 1].at < trace[k].at BY <2>0, <1>3
    <3> QED BY <3>2, <3>3, <2>0, <1>2
  <2> QED BY <2>1, <2>2
<1> HIDE DEF T
<1>5. \A k \in Nat : k \in T BY <1>4, Induction
<1>6. j \in T /\ j \in Nat /\ j <= n BY <1>5, <1>0 DEF n
<1> QED BY <1>6 DEF T

LEMMA Forward ==
  ASSUME NEW list \in Seq(Steps), NEW s \in States, NEW t \in States, Leads(list, s, t)
  PROVE  s.at <= t.at
<1> DEFINE n == Len(list)
<1>0. n \in Nat OBVIOUS
<1>1. PICK g \in [0..n -> States] : IsTrace(list, s, g) /\ g[n] = t BY DEF Leads
<1>2. g[0] = s BY <1>1 DEF IsTrace
<1>3. s.at \in Nat /\ t.at \in Nat BY DEF States
<1>4. CASE n = 0 BY <1>1, <1>2, <1>3, <1>4
<1>5. CASE n # 0
  <2>1. 0 \in 0..n /\ n \in 0..n /\ 0 < n BY <1>0, <1>5
  <2>2. g[0].at < g[n].at BY <2>1, <1>1, PlacesGrow
  <2> QED BY <2>2, <1>1, <1>2, <1>3
<1> QED BY <1>4, <1>5

\* What a series that ends leaves: nothing of it but sequences that lead further.
SeriesEnds ==
  /\ InAnySeries /\ phase' = "scan" /\ candidates' = <<>>
  /\ local' = 0 /\ frontier' = 0 /\ selected' = 0 /\ initialized' = 0
  /\ UNCHANGED <<strategy, seeded, blockRepeats, begin, end, paths, pending, ends>>

LEMMA SeriesEnded ==
  ASSUME IInv, SeriesEnds, sequences' \in Seq(Steps), repeats' \in Histories,
         anchor' \in Nat, position' \in Nat, begin <= anchor', anchor' <= position',
         position' <= end, Leads(sequences', Origin, Here')
  PROVE  IInv'
<1>1. /\ phase \in {"relax", "look", "select"} /\ phase' = "scan" /\ candidates' = <<>>
      /\ local' = 0 /\ frontier' = 0 /\ selected' = 0 /\ initialized' = 0
      /\ UNCHANGED <<strategy, seeded, blockRepeats, begin, end, paths, pending, ends>>
  BY DEF SeriesEnds, InAnySeries
<1>2. TypeOK'
  <2>1. candidates' \in Seq(Matches) BY <1>1
  <2>2. TypeOK BY DEF IInv
  <2> QED BY <2>1, <2>2, <1>1 DEF TypeOK
<1>3. InBlock' BY <1>1 DEF IInv, InBlock
<1>4. Parsing'
  <2>1. Origin' = Origin BY <1>1 DEF Origin
  <2> QED BY <2>1 DEF Parsing
<1>5. Series' BY <1>1 DEF Series, InAnySeries
<1>6. Splitting' /\ Parted' BY <1>1 DEF IInv, Splitting, Parted
<1> QED BY <1>2, <1>3, <1>4, <1>5, <1>6 DEF IInv

\* The path to a node that was reached leads on from what has been parsed.
LEMMA PathOn ==
  ASSUME IInv, InAnySeries, NEW n \in 0..initialized, paths[n].reached
  PROVE  /\ Reconstruct(n).sequences \in Seq(Steps)
         /\ Reconstruct(n).trailing = paths[n].literals /\ paths[n].literals \in Nat
         /\ Leads(Reconstruct(n).sequences, Here, NodeState(n))
         /\ sequences \o Reconstruct(n).sequences \in Seq(Steps)
         /\ Leads(sequences \o Reconstruct(n).sequences, Origin, NodeState(n))
         /\ NodeState(n) \in States /\ anchor <= NodeState(n).at
         /\ paths[n] \in Nodes
<1>0. TypeOK /\ InBlock /\ Parsing BY DEF IInv
<1>1. /\ WindowSize \in 1..PathWindow /\ PathWindow \in Nat
      /\ paths \in [0..PathWindow -> Nodes]
      /\ initialized \in 0..WindowSize /\ NodesAreMade
  BY UnderWay
<1>2. /\ Reconstruct(n).sequences \in Seq(Steps)
      /\ Reconstruct(n).trailing = paths[n].literals
      /\ Leads(Reconstruct(n).sequences, Here, NodeState(n))
  <2>1. initialized <= PathWindow BY <1>1
  <2> QED BY <2>1, <1>0, <1>1, PathsLead
<1>3. paths[n] \in Nodes /\ paths[n].literals \in Nat
  <2>1. n \in 0..PathWindow BY <1>1
  <2> QED BY <2>1, <1>1 DEF Nodes
<1> DEFINE path == Reconstruct(n).sequences
<1>4. sequences \in Seq(Steps) /\ Leads(sequences, Origin, Here) BY <1>0 DEF TypeOK, Parsing
<1>5. path \in Seq(Steps) /\ Leads(path, Here, NodeState(n)) BY <1>2
<1> HIDE DEF path
<1>6. sequences \o path \in Seq(Steps) BY <1>4, <1>5
<1>7. Leads(sequences \o path, Origin, NodeState(n)) BY <1>4, <1>5, StepsOn
<1>8. NodeState(n) \in States BY <1>5, LeadsTyped
<1>9. Here \in States BY <1>4, LeadsTyped
<1>10. anchor <= NodeState(n).at
  <2>1. Here.at <= NodeState(n).at BY <1>5, <1>8, <1>9, Forward
  <2> QED BY <2>1 DEF Here
<1> QED BY <1>2, <1>3, <1>6, <1>7, <1>8, <1>10 DEF path

LEMMA SelectKeeps == ASSUME IInv, Select PROVE IInv'
<1> DEFINE path == Reconstruct(selected)
<1>1. /\ phase = "select"
      /\ sequences' = sequences \o path.sequences
      /\ anchor' = IF path.sequences = <<>> THEN anchor ELSE position + selected - path.trailing
      /\ repeats' = paths[selected].repeats
      /\ position' = position + selected
      /\ phase' = "scan" /\ candidates' = <<>>
      /\ local' = 0 /\ frontier' = 0 /\ selected' = 0 /\ initialized' = 0
      /\ UNCHANGED <<strategy, seeded, blockRepeats, begin, end, paths, pending, ends>>
  BY DEF Select, frame, block, parts
<1>2. SeriesEnds /\ InAnySeries BY <1>1 DEF SeriesEnds, InAnySeries
<1>3. /\ WindowSize \in 1..PathWindow
      /\ initialized \in 0..WindowSize /\ local \in 0..initialized /\ frontier \in 0..initialized
      /\ position \in Nat /\ end \in Nat /\ anchor \in Nat /\ position + WindowSize <= end
      /\ Frontier
  BY <1>2, UnderWay
<1>4. selected \in 0..initialized /\ paths[selected].reached
  <2>1. Reached(frontier) /\ Reached(1) /\ selected = IF frontier = 0 THEN 1 ELSE frontier
    BY <1>1, <1>3 DEF Frontier
  <2>2. CASE frontier = 0 BY <2>1, <2>2, <1>3 DEF Reached
  <2>3. CASE frontier # 0 BY <2>1, <2>3, <1>3 DEF Reached
  <2> QED BY <2>2, <2>3
<1>5. /\ path.sequences \in Seq(Steps)
      /\ path.trailing = paths[selected].literals /\ paths[selected].literals \in Nat
      /\ Leads(path.sequences, Here, NodeState(selected))
      /\ sequences \o path.sequences \in Seq(Steps)
      /\ Leads(sequences \o path.sequences, Origin, NodeState(selected))
      /\ NodeState(selected) \in States /\ anchor <= NodeState(selected).at
      /\ paths[selected] \in Nodes
  BY <1>2, <1>4, PathOn
<1> HIDE DEF path
<1>6. NodeState(selected).at = position + selected - paths[selected].literals
  BY DEF NodeState
<1>7. anchor' = NodeState(selected).at
  <2>1. CASE path.sequences = <<>>
    <3>1. Here \in States
      <4>1. sequences \in Seq(Steps) /\ Leads(sequences, Origin, Here)
        BY DEF IInv, TypeOK, Parsing
      <4> QED BY <4>1, LeadsTyped
    <3>2. Leads(<<>>, Here, NodeState(selected)) BY <2>1, <1>5
    <3>3. NodeState(selected) = Here BY <3>1, <3>2, NoSteps
    <3>4. anchor' = anchor BY <2>1, <1>1
    <3> QED BY <3>3, <3>4 DEF Here
  <2>2. CASE path.sequences # <<>> BY <2>2, <1>1, <1>5, <1>6
  <2> QED BY <2>1, <2>2
<1>8. Here' = NodeState(selected) BY <1>1, <1>7 DEF Here, NodeState
<1>9. Leads(sequences', Origin, Here') BY <1>1, <1>5, <1>8
<1>10. repeats' \in Histories BY <1>1, <1>5 DEF Nodes
<1>11. anchor' \in Nat /\ anchor <= anchor' BY <1>5, <1>7 DEF States
<1>12. position' \in Nat /\ anchor' <= position' /\ position' <= end
  <2>1. selected \in Nat /\ selected <= WindowSize BY <1>3, <1>4
  <2>2. position' = position + selected BY <1>1
  <2> QED BY <2>1, <2>2, <1>3, <1>5, <1>6, <1>7
<1>13. begin <= anchor'
  <2>1. begin <= anchor /\ begin \in Nat /\ anchor \in Nat BY DEF IInv, InBlock, TypeOK
  <2> QED BY <2>1, <1>11
<1>14. sequences' \in Seq(Steps) BY <1>1, <1>5
<1> QED BY <1>2, <1>9, <1>10, <1>11, <1>12, <1>13, <1>14, SeriesEnded

LEMMA DirectKeeps ==
  ASSUME IInv, NEW list, Direct(list)
  PROVE  IInv'
<1> DEFINE path == Reconstruct(local)
           last == Last(list)
           node == MatchNode(paths[local], last, last.length)
           x    == Sequence(path.trailing, node)
<1>1. /\ Looks /\ list \in FoundHere /\ IsDirect(list)
      /\ sequences' = Append(sequences \o path.sequences, x)
      /\ repeats' = node.repeats
      /\ position' = position + local + node.length
      /\ anchor' = position + local + node.length
      /\ phase' = "scan" /\ candidates' = <<>>
      /\ local' = 0 /\ frontier' = 0 /\ selected' = 0 /\ initialized' = 0
      /\ UNCHANGED <<strategy, seeded, blockRepeats, begin, end, paths, pending, ends>>
  BY DEF Direct, frame, block, parts
<1>2. SeriesEnds /\ InAnySeries
  <2>1. phase = "look" BY <1>1 DEF Looks
  <2> QED BY <2>1, <1>1 DEF SeriesEnds, InAnySeries
<1>3. /\ WindowSize \in 1..PathWindow
      /\ initialized \in 0..WindowSize /\ local \in 0..initialized
      /\ position \in Nat /\ end \in Nat /\ anchor \in Nat
      /\ Frontier
  BY <1>2, UnderWay
<1>4. local \in 0..initialized /\ paths[local].reached BY <1>3 DEF Frontier, Reached
<1>5. /\ path.sequences \in Seq(Steps)
      /\ path.trailing = paths[local].literals /\ paths[local].literals \in Nat
      /\ sequences \o path.sequences \in Seq(Steps)
      /\ Leads(sequences \o path.sequences, Origin, NodeState(local))
      /\ NodeState(local) \in States /\ anchor <= NodeState(local).at
      /\ paths[local] \in Nodes
  BY <1>2, <1>4, PathOn
<1>6. /\ last \in Matches /\ position + local + last.length <= end
      /\ last.distance = ResolveOptimalOffset(paths[local].repeats, last.base,
                                              paths[local].literals = 0)
  <2>1. list # <<>> BY <1>1 DEF IsDirect
  <2>2. TypeOK /\ InBlock /\ Series BY DEF IInv
  <2>3. /\ list \in Seq(Matches) /\ Len(list) >= 1
        /\ \A i \in 1..Len(list) :
             /\ list[i] \in Matches
             /\ position + local + list[i].length <= end
             /\ list[i].distance = ResolveOptimalOffset(paths[local].repeats, list[i].base,
                                                        paths[local].literals = 0)
    <3>1. Findable(list, position + local, paths[local].repeats, paths[local].literals = 0)
      BY <2>2, <1>1, FoundHereType
    <3> QED BY <2>1, <3>1 DEF Findable
  <2>4. last = list[Len(list)] /\ Len(list) \in 1..Len(list) BY <2>3 DEF Last
  <2> HIDE DEF last
  <2> QED BY <2>3, <2>4
<1> HIDE DEF path, last
<1>7. last.length \in Nat \ {0} /\ last.base \in Nat \ {0} BY <1>6 DEF Matches
<1>8. /\ node \in Nodes /\ node.length = last.length /\ FoundAt(node, paths[local])
  BY <1>5, <1>6, <1>7, Matched
<1>9. node.base = last.base /\ node.distance = last.distance BY DEF MatchNode
<1> HIDE DEF node
<1>10. /\ x.literals = paths[local].literals /\ x.length = last.length /\ x.base = last.base
       /\ x.distance = last.distance
  BY <1>5, <1>8, <1>9 DEF Sequence
<1>11. x \in Steps
  <2>1. last.distance \in Int BY <1>6 DEF Matches
  <2> QED BY <2>1, <1>5, <1>7, <1>8, <1>9 DEF Sequence, Steps
<1> HIDE DEF x
<1>12. Fits(NodeState(local), x) BY <1>6, <1>10 DEF Fits, NodeState
<1>13. After(NodeState(local), x).at = anchor'
  <2>1. After(NodeState(local), x).at
          = (position + local - paths[local].literals) + paths[local].literals + last.length
    BY <1>10 DEF After, NodeState
  <2>2. anchor' = position + local + last.length BY <1>1, <1>8
  <2> QED BY <2>1, <2>2, <1>3, <1>5, <1>7
<1>14. After(NodeState(local), x).repeats = repeats'
  <2>1. node.repeats = UpdateOptimalRepeats(paths[local].repeats, last.base, paths[local].literals = 0)
    BY <1>8, <1>9 DEF FoundAt
  <2> QED BY <2>1, <1>1, <1>10 DEF After, NodeState
<1>15. Here' = After(NodeState(local), x) BY <1>13, <1>14 DEF Here, After
<1>16. Leads(sequences', Origin, Here')
  <2> DEFINE before == sequences \o path.sequences
             state  == NodeState(local)
  <2>1. before \in Seq(Steps) /\ Leads(before, Origin, state) /\ state \in States
        /\ Fits(state, x)
    BY <1>5, <1>12
  <2>2. sequences' = Append(before, x) /\ Here' = After(state, x) BY <1>1, <1>15
  <2> HIDE DEF before, state
  <2> QED BY <2>1, <2>2, <1>11, StepOn
<1>17. sequences' \in Seq(Steps) BY <1>1, <1>5, <1>11
<1>18. repeats' \in Histories BY <1>1, <1>8 DEF Nodes
<1>19. anchor' = position' /\ anchor' \in Nat /\ anchor' <= end /\ anchor <= anchor'
  <2>1. local \in Nat /\ last.length \in Nat BY <1>3, <1>7
  <2>2. anchor' = position + local + last.length /\ position' = anchor' BY <1>1, <1>8
  <2>3. anchor <= position BY DEF IInv, InBlock
  <2> QED BY <2>1, <2>2, <2>3, <1>3, <1>6
<1>20. begin <= anchor'
  <2>1. begin <= anchor /\ begin \in Nat BY DEF IInv, InBlock, TypeOK
  <2> QED BY <2>1, <1>3, <1>19
<1>21. position' \in Nat /\ anchor' <= position' /\ position' <= end BY <1>19
<1> QED BY <1>2, <1>16, <1>17, <1>18, <1>19, <1>20, <1>21, SeriesEnded

----------------------------------------------------------------------------
(* Partitions.                                                             *)

\* What splitting leaves alone.
SplitStep ==
  UNCHANGED <<strategy, repeats, blockRepeats, begin, end, position, anchor, paths, local,
              frontier, selected, initialized, candidates, sequences>>

LEMMA SplitStepKeeps ==
  ASSUME IInv, SplitStep, seeded' \in BOOLEAN, pending' \in Seq(Seq(Nat)), ends' \in Seq(Nat),
         phase \in {"parsed", "split"}, phase' \in {"split", "idle"}, Splitting', Parted'
  PROVE  IInv'
<1>1. UNCHANGED <<strategy, repeats, blockRepeats, begin, end, position, anchor, paths, local,
                  frontier, selected, initialized, candidates, sequences>>
  BY DEF SplitStep
<1>2. TypeOK' BY <1>1 DEF IInv, TypeOK
<1>3. InBlock' BY <1>1 DEF IInv, InBlock
<1>4. Parsing' BY <1>1 DEF IInv, Parsing, Origin, Here
<1>5. Series' BY DEF Series, InAnySeries
<1> QED BY <1>2, <1>3, <1>4, <1>5 DEF IInv

LEMMA BeginSplitKeeps == ASSUME IInv, BeginSplit PROVE IInv'
<1>0. sequences \in Seq(Steps) /\ Len(sequences) \in Nat BY DEF IInv, TypeOK
<1>w. PICK whole \in Seq(Nat) : whole = <<0, Len(sequences)>>
  <2>1. <<0, Len(sequences)>> \in Seq(Nat) BY <1>0
  <2> QED BY <2>1
<1>1. /\ phase = "parsed" /\ phase' = "split" /\ seeded' = TRUE
      /\ pending' = <<whole>> /\ ends' = <<>> /\ SplitStep
  BY <1>w DEF BeginSplit, block, series, SplitStep
<1>2. sequences' = sequences BY <1>1 DEF SplitStep
<1>3. Len(sequences) \in Nat BY <1>0
<1>4. whole \in Seq(Nat) /\ Len(whole) = 2 /\ whole[1] = 0 /\ whole[2] = Len(sequences)
  BY <1>3, <1>w
<1>5. pending' \in Seq(Seq(Nat)) /\ Len(pending') = 1 /\ pending'[1] = whole BY <1>1, <1>4
<1>6. ends' \in Seq(Nat) /\ Len(ends') = 0 BY <1>1
<1>7. Splitting'
  <2>1. IsRange(whole)' BY <1>2, <1>3, <1>4 DEF IsRange
  <2>2. \A i \in DOMAIN pending' : i = 1 BY <1>5
  <2>3. DOMAIN ends' = {} BY <1>6
  <2>4. MaxSplits \in Nat BY ConstantsAssumption
  <2>5. \A i \in DOMAIN pending' : IsRange(pending[i])'
    BY <2>1, <2>2, <1>5 DEF IsRange
  <2>6. Increasing(ends)' /\ Len(ends') <= MaxSplits BY <2>3, <2>4, <1>6 DEF Increasing
  <2>7. \A i, j \in DOMAIN pending' : ~(i < j) BY <2>2
  <2> QED BY <2>3, <2>5, <2>6, <2>7 DEF Splitting
<1>8. Parted' BY <1>1 DEF Parted
<1> QED BY <1>1, <1>5, <1>6, <1>7, <1>8, SplitStepKeeps

\* The parts of Splitting, for what waits.
LEMMA Waiting ==
  ASSUME IInv, phase = "split"
  PROVE  /\ pending \in Seq(Seq(Nat)) /\ ends \in Seq(Nat) /\ Len(sequences) \in Nat
         /\ MaxSplits \in Nat /\ seeded \in BOOLEAN
         /\ \A i \in 1..Len(pending) : IsCut(pending[i]) \/ IsRange(pending[i])
         /\ \A i, j \in 1..Len(pending) : i < j => Ordered(pending[i], pending[j])
         /\ \A k \in 1..Len(ends) : ends[k] \in 1..(Len(sequences) - 1)
         /\ \A k \in 1..Len(ends), i \in 1..Len(pending) : Ordered(<<ends[k]>>, pending[i])
         /\ Increasing(ends) /\ Len(ends) <= MaxSplits
<1>1. TypeOK /\ Splitting BY DEF IInv
<1>2. pending \in Seq(Seq(Nat)) /\ ends \in Seq(Nat) /\ sequences \in Seq(Steps)
      /\ seeded \in BOOLEAN
  BY <1>1 DEF TypeOK
<1>3. DOMAIN pending = 1..Len(pending) /\ DOMAIN ends = 1..Len(ends) BY <1>2
<1>4. MaxSplits \in Nat BY ConstantsAssumption
<1>5. Len(sequences) \in Nat BY <1>2
<1> QED BY <1>1, <1>2, <1>3, <1>4, <1>5 DEF Splitting

\* What has to be shown of what waits after a step.
LEMMA StillSplitting ==
  ASSUME IInv, SplitStep, phase = "split", phase' = "split", seeded' = seeded,
         NEW p \in Seq(Seq(Nat)), NEW e \in Seq(Nat), pending' = p, ends' = e,
         \A i \in 1..Len(p) : IsCut(p[i]) \/ IsRange(p[i]),
         \A i, j \in 1..Len(p) : i < j => Ordered(p[i], p[j]),
         \A k \in 1..Len(e) : e[k] \in 1..(Len(sequences) - 1),
         \A k \in 1..Len(e), i \in 1..Len(p) : Ordered(<<e[k]>>, p[i]),
         Increasing(e), Len(e) <= MaxSplits
  PROVE  IInv'
<1>1. sequences' = sequences BY DEF SplitStep
<1>2. DOMAIN p = 1..Len(p) /\ DOMAIN e = 1..Len(e) OBVIOUS
<1>3. \A f : (IsCut(f)' <=> IsCut(f)) /\ (IsRange(f)' <=> IsRange(f))
  BY <1>1 DEF IsCut, IsRange
<1>4. \A f, g : Ordered(f, g)' <=> Ordered(f, g) BY <1>1 DEF Ordered, IsCut, High, Low
<1>5. Splitting'
  <2>1. \A i \in DOMAIN p : IsCut(p[i])' \/ IsRange(p[i])' BY <1>2, <1>3
  <2>2. \A i, j \in DOMAIN p : i < j => Ordered(p[i], p[j])' BY <1>2, <1>4
  <2>3. \A k \in DOMAIN e, i \in DOMAIN p : Ordered(<<e[k]>>, p[i])' BY <1>2, <1>4
  <2>4. \A k \in DOMAIN e : e[k] \in 1..(Len(sequences') - 1) BY <1>1, <1>2
  <2>5. \A i \in DOMAIN pending' : IsCut(pending[i])' \/ IsRange(pending[i])'
    BY <2>1 DEF IsCut, IsRange
  <2>6. \A i, j \in DOMAIN pending' : i < j => Ordered(pending[i], pending[j])'
    BY <2>2 DEF Ordered, IsCut, High, Low
  <2>7. \A k \in DOMAIN ends', i \in DOMAIN pending' : Ordered(<<ends[k]>>, pending[i])'
    BY <2>3 DEF Ordered, IsCut, High, Low
  <2>8. \A k \in DOMAIN ends' : ends'[k] \in 1..(Len(sequences') - 1) BY <2>4
  <2>9. Increasing(ends)' /\ Len(ends') <= MaxSplits BY DEF Increasing
  <2> QED BY <2>5, <2>6, <2>7, <2>8, <2>9 DEF Splitting
<1>6. Parted' BY DEF Parted
<1>7. seeded' \in BOOLEAN BY DEF IInv, TypeOK
<1> QED BY <1>5, <1>6, <1>7, SplitStepKeeps

LEMMA CutKeeps == ASSUME IInv, Cut PROVE IInv'
<1>1. /\ phase = "split" /\ phase' = "split" /\ pending # <<>> /\ Len(pending[1]) = 1
      /\ ends' = (IF MayCut THEN Append(ends, pending[1][1]) ELSE ends)
      /\ pending' = Tail(pending) /\ seeded' = seeded /\ SplitStep
  BY DEF Cut, frame, block, series, SplitStep
<1>2. /\ pending \in Seq(Seq(Nat)) /\ ends \in Seq(Nat) /\ Len(sequences) \in Nat
      /\ MaxSplits \in Nat
      /\ \A i \in 1..Len(pending) : IsCut(pending[i]) \/ IsRange(pending[i])
      /\ \A i, j \in 1..Len(pending) : i < j => Ordered(pending[i], pending[j])
      /\ \A k \in 1..Len(ends) : ends[k] \in 1..(Len(sequences) - 1)
      /\ \A k \in 1..Len(ends), i \in 1..Len(pending) : Ordered(<<ends[k]>>, pending[i])
      /\ Increasing(ends) /\ Len(ends) <= MaxSplits
  BY <1>1, Waiting
<1> DEFINE cut == pending[1][1]
           p == Tail(pending)
           e == IF MayCut THEN Append(ends, cut) ELSE ends
           n == Len(pending)
           m == Len(ends)
<1>3. n \in Nat /\ n >= 1 /\ 1 \in 1..n /\ m \in Nat BY <1>1, <1>2
<1>4. p \in Seq(Seq(Nat)) /\ Len(p) = n - 1 /\ \A i \in 1..(n - 1) : p[i] = pending[i + 1]
  BY <1>1, <1>2
<1>5. IsCut(pending[1])
  <2>1. IsCut(pending[1]) \/ IsRange(pending[1]) BY <1>2, <1>3
  <2> QED BY <2>1, <1>1 DEF IsRange
<1>6. cut \in 1..(Len(sequences) - 1) /\ pending[1] = <<cut>> /\ cut \in Nat
  <2>1. pending[1] \in Seq(Nat) BY <1>2, <1>3
  <2>2. Len(pending[1]) = 1 /\ pending[1][1] \in 1..(Len(sequences) - 1) BY <1>5 DEF IsCut
  <2>3. pending[1] = <<pending[1][1]>> BY <2>1, <2>2
  <2> QED BY <2>2, <2>3
<1> HIDE DEF cut, p, n, m
<1>7. ASSUME NEW i \in 1..(n - 1) PROVE i + 1 \in 1..n /\ 1 < i + 1 BY <1>3
<1>8. \A i \in 1..Len(p) : IsCut(p[i]) \/ IsRange(p[i]) BY <1>2, <1>4, <1>7 DEF n
<1>9. \A i, j \in 1..Len(p) : i < j => Ordered(p[i], p[j])
  <2>1. ASSUME NEW i \in 1..(n - 1), NEW j \in 1..(n - 1), i < j
        PROVE  Ordered(pending[i + 1], pending[j + 1])
    <3>1. i + 1 \in 1..n /\ j + 1 \in 1..n /\ i + 1 < j + 1 BY <2>1, <1>3
    <3> QED BY <3>1, <1>2 DEF n
  <2> QED BY <2>1, <1>4
<1>10. ASSUME NEW i \in 1..(n - 1) PROVE Ordered(<<cut>>, p[i])
  <2>1. Ordered(pending[1], pending[i + 1]) BY <1>2, <1>3, <1>7 DEF n
  <2> QED BY <2>1, <1>4, <1>6
<1>11. ASSUME NEW k \in 1..m, NEW i \in 1..(n - 1) PROVE Ordered(<<ends[k]>>, p[i])
  <2>1. Ordered(<<ends[k]>>, pending[i + 1]) BY <1>2, <1>7 DEF n, m
  <2> QED BY <2>1, <1>4
<1>12. ASSUME NEW k \in 1..m PROVE ends[k] < cut
  <2>1. Ordered(<<ends[k]>>, pending[1]) BY <1>2, <1>3 DEF n, m
  <2>2. ends[k] \in 1..(Len(sequences) - 1) BY <1>2 DEF m
  <2> DEFINE f == <<ends[k]>>
  <2>3. f[1] = ends[k] /\ Len(f) = 1 OBVIOUS
  <2>4. IsCut(f) BY <2>2, <2>3 DEF IsCut
  <2>5. High(f) < Low(pending[1])
    <3> HIDE DEF f
    <3>1. Ordered(f, pending[1]) BY <2>1 DEF f
    <3> QED BY <3>1, <2>4, <1>5 DEF Ordered
  <2>6. High(f) = ends[k] BY <2>3 DEF High
  <2>7. Low(pending[1]) = cut BY DEF Low, cut
  <2> QED BY <2>5, <2>6, <2>7
<1>13. CASE MayCut
  <2>1. e = Append(ends, cut) BY <1>13
  <2>2. e \in Seq(Nat) /\ Len(e) = m + 1 /\ e[m + 1] = cut /\ \A k \in 1..m : e[k] = ends[k]
    BY <2>1, <1>2, <1>6 DEF m
  <2> HIDE DEF e
  <2>3. ASSUME NEW k \in 1..(m + 1) PROVE e[k] \in 1..(Len(sequences) - 1)
    <3>1. CASE k = m + 1 BY <3>1, <2>2, <1>6
    <3>2. CASE k # m + 1
      <4>1. k \in 1..m BY <3>2, <1>3
      <4> QED BY <4>1, <2>2, <1>2 DEF m
    <3> QED BY <3>1, <3>2
  <2>4. ASSUME NEW k \in 1..(m + 1), NEW i \in 1..(n - 1) PROVE Ordered(<<e[k]>>, p[i])
    <3>1. CASE k = m + 1 BY <3>1, <2>2, <1>10
    <3>2. CASE k # m + 1
      <4>1. k \in 1..m BY <3>2, <1>3
      <4> QED BY <4>1, <2>2, <1>11
    <3> QED BY <3>1, <3>2
  <2>5. Increasing(e)
    <3>1. ASSUME NEW i \in 1..(m + 1), NEW j \in 1..(m + 1), i < j PROVE e[i] < e[j]
      <4>1. i \in 1..m BY <3>1, <1>3
      <4>2. CASE j = m + 1 BY <4>1, <4>2, <2>2, <1>12
      <4>3. CASE j # m + 1
        <5>1. j \in 1..m BY <4>3, <1>3
        <5>2. ends[i] < ends[j]
          <6>1. DOMAIN ends = 1..m BY <1>2 DEF m
          <6> QED BY <6>1, <5>1, <4>1, <3>1, <1>2 DEF Increasing
        <5> QED BY <5>1, <5>2, <4>1, <2>2
      <4> QED BY <4>2, <4>3
    <3>2. DOMAIN e = 1..(m + 1) BY <2>2
    <3> QED BY <3>1, <3>2 DEF Increasing
  <2>6. Len(e) <= MaxSplits BY <1>13, <2>2, <1>2, <1>3 DEF MayCut, m
  <2>7. pending' = p /\ ends' = e BY <1>1, <1>13, <2>1 DEF p, cut
  <2> QED BY <1>1, <1>4, <1>8, <1>9, <2>2, <2>3, <2>4, <2>5, <2>6, <2>7, StillSplitting
<1>14. CASE ~MayCut
  <2>1. pending' = p /\ ends' = ends BY <1>1, <1>14 DEF p
  <2>2. \A k \in 1..Len(ends), i \in 1..Len(p) : Ordered(<<ends[k]>>, p[i])
    BY <1>4, <1>11 DEF m
  <2> QED BY <1>1, <1>2, <1>4, <1>8, <1>9, <2>1, <2>2, StillSplitting
<1> QED BY <1>13, <1>14

\* A range halved: what was ordered with it is ordered with its parts.
LEMMA Halves ==
  ASSUME NEW a \in Nat, NEW m \in Nat, NEW b \in Nat, a < m, m < b, Len(sequences) \in Nat,
         b <= Len(sequences)
  PROVE  /\ IsRange(<<a, m>>) /\ IsCut(<<m>>) /\ IsRange(<<m, b>>)
         /\ Ordered(<<a, m>>, <<m>>) /\ Ordered(<<a, m>>, <<m, b>>) /\ Ordered(<<m>>, <<m, b>>)
         /\ \A f : Ordered(<<a, b>>, f) /\ Low(f) \in Int =>
              Ordered(<<a, m>>, f) /\ Ordered(<<m>>, f) /\ Ordered(<<m, b>>, f)
         /\ \A k \in Int : Ordered(<<k>>, <<a, b>>) =>
              Ordered(<<k>>, <<a, m>>) /\ Ordered(<<k>>, <<m>>) /\ Ordered(<<k>>, <<m, b>>)
<1>1. \A x, y : /\ Low(<<x, y>>) = x /\ High(<<x, y>>) = y /\ ~IsCut(<<x, y>>)
                /\ (IsRange(<<x, y>>) <=> x <= y /\ y <= Len(sequences))
  BY DEF Low, High, IsCut, IsRange
<1>2. \A x : /\ Low(<<x>>) = x /\ High(<<x>>) = x
             /\ (IsCut(<<x>>) <=> x \in 1..(Len(sequences) - 1))
  BY DEF Low, High, IsCut
<1>3. IsRange(<<a, m>>) /\ IsCut(<<m>>) /\ IsRange(<<m, b>>) BY <1>1, <1>2
<1>4. Ordered(<<a, m>>, <<m>>) /\ Ordered(<<a, m>>, <<m, b>>) /\ Ordered(<<m>>, <<m, b>>)
  BY <1>1, <1>2 DEF Ordered
<1>5. ASSUME NEW f, Ordered(<<a, b>>, f), Low(f) \in Int
      PROVE  Ordered(<<a, m>>, f) /\ Ordered(<<m>>, f) /\ Ordered(<<m, b>>, f)
  <2>1. b <= Low(f) BY <1>1, <1>5 DEF Ordered
  <2>2. m <= Low(f) /\ m < Low(f) BY <2>1, <1>5
  <2> QED BY <2>1, <2>2, <1>1, <1>2 DEF Ordered
<1>6. ASSUME NEW k \in Int, Ordered(<<k>>, <<a, b>>)
      PROVE  Ordered(<<k>>, <<a, m>>) /\ Ordered(<<k>>, <<m>>) /\ Ordered(<<k>>, <<m, b>>)
  <2>1. k <= a BY <1>1, <1>2, <1>6 DEF Ordered
  <2>2. k <= m /\ k < m BY <2>1
  <2> QED BY <2>1, <2>2, <1>1, <1>2 DEF Ordered
<1> QED BY <1>3, <1>4, <1>5, <1>6

LEMMA SplitKeeps ==
  ASSUME IInv, NEW pays \in BOOLEAN, Split(pays)
  PROVE  IInv'
<1> DEFINE range  == pending[1]
           a      == range[1]
           b      == range[2]
           middle == a + (b - a) \div 2
           rest   == Tail(pending)
           n      == Len(pending)
<1>1. /\ phase = "split" /\ phase' = "split" /\ pending # <<>> /\ Len(range) = 2
      /\ pays => b - a >= MinSplit
      /\ pending' = IF pays THEN <<<<a, middle>>, <<middle>>, <<middle, b>>>> \o rest ELSE rest
      /\ ends' = ends /\ seeded' = seeded /\ SplitStep
  BY DEF Split, Splits, frame, block, series, SplitStep
<1>2. /\ pending \in Seq(Seq(Nat)) /\ ends \in Seq(Nat) /\ Len(sequences) \in Nat
      /\ \A i \in 1..n : IsCut(pending[i]) \/ IsRange(pending[i])
      /\ \A i, j \in 1..n : i < j => Ordered(pending[i], pending[j])
      /\ \A k \in 1..Len(ends) : ends[k] \in 1..(Len(sequences) - 1)
      /\ \A k \in 1..Len(ends), i \in 1..n : Ordered(<<ends[k]>>, pending[i])
      /\ Increasing(ends) /\ Len(ends) <= MaxSplits
  BY <1>1, Waiting
<1>3. n \in Nat /\ n >= 1 /\ 1 \in 1..n BY <1>1, <1>2
<1>4. rest \in Seq(Seq(Nat)) /\ Len(rest) = n - 1 /\ \A i \in 1..(n - 1) : rest[i] = pending[i + 1]
  BY <1>1, <1>2
<1>5. IsRange(range)
  <2>1. IsCut(range) \/ IsRange(range) BY <1>2, <1>3
  <2> QED BY <2>1, <1>1 DEF IsCut
<1>6. a \in Nat /\ b \in Nat /\ a <= b /\ b <= Len(sequences) /\ range = <<a, b>>
  <2>1. range \in Seq(Nat) BY <1>2, <1>3
  <2>2. range[1] \in Nat /\ range[2] \in Nat /\ range = <<range[1], range[2]>>
    <3>1. Len(range) = 2 BY <1>1
    <3> HIDE DEF range
    <3> QED BY <2>1, <3>1
  <2> QED BY <2>2, <1>5 DEF IsRange
<1> HIDE DEF rest
<1>7. ASSUME NEW i \in 1..(n - 1) PROVE i + 1 \in 1..n /\ 1 < i + 1 BY <1>3
<1> HIDE DEF n
<1>8. \A i \in 1..(n - 1) : IsCut(rest[i]) \/ IsRange(rest[i]) BY <1>2, <1>4, <1>7
<1>9. \A i, j \in 1..(n - 1) : i < j => Ordered(rest[i], rest[j])
  <2>1. ASSUME NEW i \in 1..(n - 1), NEW j \in 1..(n - 1), i < j
        PROVE  Ordered(pending[i + 1], pending[j + 1])
    <3>1. i + 1 \in 1..n /\ j + 1 \in 1..n /\ i + 1 < j + 1 BY <2>1, <1>3
    <3> QED BY <3>1, <1>2
  <2> QED BY <2>1, <1>4
<1>10. \A i \in 1..(n - 1) : Ordered(range, rest[i]) /\ Low(rest[i]) \in Nat
  <2>1. ASSUME NEW i \in 1..(n - 1) PROVE Ordered(range, rest[i])
    <3>1. Ordered(pending[1], pending[i + 1]) BY <1>2, <1>3, <1>7
    <3> QED BY <3>1, <1>4
  <2>2. ASSUME NEW i \in 1..(n - 1) PROVE Low(rest[i]) \in Nat
    <3>1. rest[i] \in Seq(Nat) BY <1>4
    <3>2. Len(rest[i]) >= 1 BY <1>8 DEF IsCut, IsRange
    <3>3. rest[i][1] \in Nat BY <3>1, <3>2
    <3> QED BY <3>3 DEF Low
  <2> QED BY <2>1, <2>2
<1>11. \A k \in 1..Len(ends), i \in 1..(n - 1) : Ordered(<<ends[k]>>, rest[i])
  <2>1. ASSUME NEW k \in 1..Len(ends), NEW i \in 1..(n - 1) PROVE Ordered(<<ends[k]>>, rest[i])
    <3>1. Ordered(<<ends[k]>>, pending[i + 1]) BY <1>2, <1>7
    <3> QED BY <3>1, <1>4
  <2> QED BY <2>1
<1>12. \A k \in 1..Len(ends) : Ordered(<<ends[k]>>, range) /\ ends[k] \in Nat BY <1>2, <1>3
<1>13. CASE ~pays
  <2>1. pending' = rest BY <1>1, <1>13
  <2> QED BY <1>1, <1>2, <1>4, <1>8, <1>9, <1>11, <2>1, StillSplitting
<1>14. CASE pays
  <2>1. b - a >= 2
    <3>1. MinSplit \in Nat /\ MinSplit >= 2 BY ConstantsAssumption
    <3>2. b - a >= MinSplit BY <1>1, <1>14
    <3> QED BY <3>1, <3>2, <1>6
  <2>2. middle \in Nat /\ a < middle /\ middle < b BY <2>1, <1>6
  <2> HIDE DEF a, b, middle, range
  <2> DEFINE left == <<a, middle>>
             cut == <<middle>>
             right == <<middle, b>>
             p == <<left, cut, right>> \o rest
  <2>3. /\ IsRange(left) /\ IsCut(cut) /\ IsRange(right)
        /\ Ordered(left, cut) /\ Ordered(left, right) /\ Ordered(cut, right)
        /\ \A f : Ordered(<<a, b>>, f) /\ Low(f) \in Int =>
             Ordered(left, f) /\ Ordered(cut, f) /\ Ordered(right, f)
        /\ \A k \in Int : Ordered(<<k>>, <<a, b>>) =>
             Ordered(<<k>>, left) /\ Ordered(<<k>>, cut) /\ Ordered(<<k>>, right)
    BY <1>2, <1>6, <2>2, Halves
  <2>4. left \in Seq(Nat) /\ cut \in Seq(Nat) /\ right \in Seq(Nat) BY <1>6, <2>2
  <2> HIDE DEF left, cut, right
  <2>5. /\ p \in Seq(Seq(Nat)) /\ Len(p) = n + 2
        /\ p[1] = left /\ p[2] = cut /\ p[3] = right
        /\ \A i \in 4..(n + 2) : p[i] = rest[i - 3]
    <3> DEFINE q == <<left, cut, right>>
    <3>1. q \in Seq(Seq(Nat)) /\ Len(q) = 3 /\ q[1] = left /\ q[2] = cut /\ q[3] = right
      BY <2>4
    <3> HIDE DEF q
    <3>2. p = q \o rest BY DEF q
    <3> HIDE DEF p
    <3>3. /\ p \in Seq(Seq(Nat)) /\ Len(p) = 3 + Len(rest)
          /\ \A i \in 1..(3 + Len(rest)) : p[i] = IF i <= 3 THEN q[i] ELSE rest[i - 3]
      <4> DEFINE S == Seq(Nat)
      <4>1. q \in Seq(S) /\ rest \in Seq(S) BY <3>1, <1>4
      <4> HIDE DEF S
      <4>2. /\ q \o rest \in Seq(S) /\ Len(q \o rest) = Len(q) + Len(rest)
            /\ \A i \in 1..(Len(q) + Len(rest)) :
                 (q \o rest)[i] = IF i <= Len(q) THEN q[i] ELSE rest[i - Len(q)]
        BY <4>1, ConcatProperties
      <4>3. Len(q) = 3 BY <3>1
      <4> QED BY <4>2, <4>3, <3>2 DEF S
    <3>4. 3 + Len(rest) = n + 2 BY <1>3, <1>4
    <3>5. p \in Seq(Seq(Nat)) /\ Len(p) = n + 2 BY <3>3, <3>4
    <3>6. p[1] = q[1] /\ p[2] = q[2] /\ p[3] = q[3] BY <3>3, <3>4, <1>3
    <3>7. \A i \in 4..(n + 2) : p[i] = rest[i - 3] BY <3>3, <3>4
    <3> QED BY <3>1, <3>5, <3>6, <3>7
  <2>6. pending' = p BY <1>1, <1>14 DEF left, cut, right
  <2> HIDE DEF p
  <2>7. \A i \in 4..(n + 2) : i - 3 \in 1..(n - 1) BY <1>3
  <2>8. \A i \in 1..(n + 2) : i = 1 \/ i = 2 \/ i = 3 \/ i \in 4..(n + 2) BY <1>3
  <2>9. \A i \in 1..(n + 2) : IsCut(p[i]) \/ IsRange(p[i])
    BY <2>3, <2>5, <2>7, <2>8, <1>8
  <2>10. \A i \in 4..(n + 2) : Ordered(left, p[i]) /\ Ordered(cut, p[i]) /\ Ordered(right, p[i])
    <3>1. ASSUME NEW i \in 4..(n + 2)
          PROVE  Ordered(left, p[i]) /\ Ordered(cut, p[i]) /\ Ordered(right, p[i])
      <4>1. i - 3 \in 1..(n - 1) /\ p[i] = rest[i - 3] BY <2>5, <2>7
      <4>2. Ordered(range, rest[i - 3]) /\ Low(rest[i - 3]) \in Nat BY <4>1, <1>10
      <4>3. range = <<a, b>> BY <1>6
      <4>4. Ordered(<<a, b>>, p[i]) /\ Low(p[i]) \in Int BY <4>1, <4>2, <4>3
      <4> QED BY <4>4, <2>3
    <3> QED BY <3>1
  <2>11. ASSUME NEW i \in 1..(n + 2), NEW j \in 1..(n + 2), i < j PROVE Ordered(p[i], p[j])
    <3>1. CASE i \in 4..(n + 2)
      <4>1. j \in 4..(n + 2) /\ i - 3 < j - 3 BY <3>1, <2>11
      <4>2. Ordered(rest[i - 3], rest[j - 3]) BY <3>1, <4>1, <2>7, <1>9
      <4> QED BY <3>1, <4>1, <4>2, <2>5
    <3>2. CASE i = 1
      <4>1. j = 2 \/ j = 3 \/ j \in 4..(n + 2) BY <3>2, <2>11
      <4> QED BY <3>2, <4>1, <2>3, <2>5, <2>10
    <3>3. CASE i = 2
      <4>1. j = 3 \/ j \in 4..(n + 2) BY <3>3, <2>11
      <4> QED BY <3>3, <4>1, <2>3, <2>5, <2>10
    <3>4. CASE i = 3
      <4>1. j \in 4..(n + 2) BY <3>4, <2>11
      <4> QED BY <3>4, <4>1, <2>5, <2>10
    <3> QED BY <3>1, <3>2, <3>3, <3>4, <2>8
  <2>12. ASSUME NEW k \in 1..Len(ends), NEW i \in 1..(n + 2) PROVE Ordered(<<ends[k]>>, p[i])
    <3>1. Ordered(<<ends[k]>>, left) /\ Ordered(<<ends[k]>>, cut) /\ Ordered(<<ends[k]>>, right)
      <4>1. Ordered(<<ends[k]>>, <<a, b>>) /\ ends[k] \in Int BY <1>6, <1>12, SMTT(30)
      <4> QED BY <4>1, <2>3
    <3>2. CASE i \in 4..(n + 2) BY <3>2, <2>5, <2>7, <1>11
    <3>3. CASE i = 1 \/ i = 2 \/ i = 3 BY <3>1, <3>3, <2>5
    <3> QED BY <3>2, <3>3, <2>8
  <2> QED BY <1>1, <1>2, <2>5, <2>6, <2>9, <2>11, <2>12, StillSplitting
<1> QED BY <1>13, <1>14

LEMMA EndSplitKeeps == ASSUME IInv, EndSplit PROVE IInv'
<1>1. /\ phase = "split" /\ phase' = "idle" /\ ends' = Append(ends, Len(sequences))
      /\ seeded' = seeded /\ pending' = pending /\ SplitStep
  BY DEF EndSplit, frame, block, series, SplitStep
<1>2. /\ pending \in Seq(Seq(Nat)) /\ ends \in Seq(Nat) /\ Len(sequences) \in Nat
      /\ MaxSplits \in Nat /\ seeded \in BOOLEAN
      /\ \A k \in 1..Len(ends) : ends[k] \in 1..(Len(sequences) - 1)
      /\ Increasing(ends) /\ Len(ends) <= MaxSplits
  BY <1>1, Waiting
<1>m. PICK m \in Nat : m = Len(ends) BY <1>2
<1>3. /\ ends' \in Seq(Nat) /\ Len(ends') = m + 1 /\ ends'[m + 1] = Len(sequences)
      /\ \A k \in 1..m : ends'[k] = ends[k]
  BY <1>1, <1>2, <1>m
<1>4. sequences' = sequences BY <1>1 DEF SplitStep
<1>5. Increasing(ends)'
  <2>1. ASSUME NEW i \in 1..(m + 1), NEW j \in 1..(m + 1), i < j PROVE ends'[i] < ends'[j]
    <3>1. i \in 1..m BY <2>1
    <3>2. CASE j = m + 1
      <4>1. ends[i] \in 1..(Len(sequences) - 1) BY <3>1, <1>2, <1>m
      <4> QED BY <3>1, <3>2, <4>1, <1>2, <1>3
    <3>3. CASE j # m + 1
      <4>1. j \in 1..m /\ DOMAIN ends = 1..m BY <3>3, <1>2, <1>m
      <4> QED BY <3>1, <4>1, <2>1, <1>2, <1>3 DEF Increasing
    <3> QED BY <3>2, <3>3
  <2>2. DOMAIN ends' = 1..(m + 1) BY <1>3
  <2> QED BY <2>1, <2>2 DEF Increasing
<1>6. Parted'
  <2>1. Len(ends') <= MaxSplits + 1 BY <1>2, <1>3, <1>m
  <2>2. ends'[Len(ends')] = Len(sequences') BY <1>3, <1>4
  <2>3. ASSUME NEW k \in 1..(Len(ends') - 1) PROVE ends'[k] >= 1
    <3>1. k \in 1..m BY <1>3
    <3>2. ends[k] \in 1..(Len(sequences) - 1) BY <3>1, <1>2, <1>m
    <3> QED BY <3>1, <3>2, <1>3
  <2> QED BY <1>1, <1>5, <2>1, <2>2, <2>3 DEF Parted
<1>7. Splitting' BY <1>1 DEF Splitting
<1> QED BY <1>1, <1>2, <1>3, <1>6, <1>7, SplitStepKeeps

----------------------------------------------------------------------------
(* The invariant.                                                          *)

LEMMA NextKeeps == ASSUME IInv, [Next]_vars PROVE IInv'
<1>1. ASSUME NEW size \in BlockSizes, BeginBlock(size) PROVE IInv' BY <1>1, BeginBlockKeeps
<1>2. CASE Miss BY <1>2, MissKeeps
<1>3. CASE BeginSeries BY <1>3, BeginSeriesKeeps
<1>4. CASE EndSeries BY <1>4, EndSeriesKeeps
<1>5. CASE NoLook BY <1>5, NoLookKeeps
<1>6. CASE Select BY <1>6, SelectKeeps
<1>7. CASE Parsed BY <1>7, ParsedKeeps
<1>8. CASE ParseAgain BY <1>8, ParseAgainKeeps
<1>9. ASSUME NEW wins \in BOOLEAN, NEW lighter \in BOOLEAN, NEW cheaper \in BOOLEAN,
             RelaxLiteral(wins, lighter, cheaper)
      PROVE  IInv'
  BY <1>9, RelaxLiteralKeeps
<1>10. ASSUME NEW list \in FoundHere, Direct(list) PROVE IInv' BY <1>10, DirectKeeps
<1>11. ASSUME NEW list \in FoundHere, NEW wins \in SUBSET (1..PathWindow), Relax(list, wins)
       PROVE  IInv'
  BY <1>11, RelaxKeeps
<1>12. CASE BeginSplit BY <1>12, BeginSplitKeeps
<1>13. CASE Cut BY <1>13, CutKeeps
<1>14. CASE EndSplit BY <1>14, EndSplitKeeps
<1>15. ASSUME NEW pays \in BOOLEAN, Split(pays) PROVE IInv' BY <1>15, SplitKeeps
<1>16. CASE UNCHANGED vars BY <1>16, StutterKeeps
<1> QED
  BY <1>1, <1>2, <1>3, <1>4, <1>5, <1>6, <1>7, <1>8, <1>9, <1>10, <1>11, <1>12, <1>13, <1>14,
     <1>15, <1>16 DEF Next

\* The parser keeps its invariant.
THEOREM Invariance == Spec => []IInv
<1>1. Init => IInv BY InitHolds
<1>2. IInv /\ [Next]_vars => IInv' BY NextKeeps
<1> QED BY <1>1, <1>2, PTL DEF Spec

----------------------------------------------------------------------------
(* What the run checks.                                                    *)

\* What has been parsed covers the block up to the last match, without a gap or an
\* overlap: a trace of the sequences ends at the anchor.
THEOREM SequencesCoverHolds == Spec => []SequencesCover
<1>1. IInv => SequencesCover
  <2> SUFFICES ASSUME IInv PROVE SequencesCover OBVIOUS
  <2>1. TypeOK /\ InBlock /\ Leads(sequences, Origin, Here) BY DEF IInv, Parsing
  <2>2. /\ sequences \in Seq(Steps) /\ begin \in Nat /\ anchor \in Nat
        /\ blockRepeats \in Histories /\ repeats \in Histories
    BY <2>1 DEF TypeOK
  <2>3. Origin \in States /\ Here \in States BY <2>2 DEF Origin, Here, States
  <2>4. Bytes(sequences) = Here.at - Origin.at BY <2>1, <2>2, <2>3, BytesLead
  <2>5. Here.at = anchor /\ Origin.at = begin BY DEF Here, Origin
  <2>6. begin + Bytes(sequences) = anchor BY <2>2, <2>4, <2>5
  <2> QED BY <2>1, <2>6 DEF SequencesCover, InBlock
<1> QED BY <1>1, Invariance, PTL

\* The path back from every node that a series has reached is as long as the node is
\* far, literals before the series included, and the series is always at such a node.
THEOREM PathsLeadBackHolds == Spec => []PathsLeadBack
<1>1. IInv => PathsLeadBack
  <2> SUFFICES ASSUME IInv, InAnySeries
               PROVE  /\ \A n \in 0..initialized : paths[n].reached =>
                           Bytes(Reconstruct(n).sequences) + Reconstruct(n).trailing
                             = n + InitialLiterals
                      /\ phase = "relax" /\ InSeries => local <= initialized /\ paths[local].reached
                      /\ phase = "select" => selected <= initialized /\ paths[selected].reached
    BY DEF PathsLeadBack, InAnySeries
  <2>1. /\ initialized \in Nat /\ local \in 0..initialized /\ frontier \in 0..initialized
        /\ position \in Nat /\ anchor \in Nat /\ repeats \in Histories /\ Frontier
    <3>1. initialized \in 0..WindowSize /\ WindowSize \in 1..PathWindow /\ PathWindow \in Nat
          /\ local \in 0..initialized /\ frontier \in 0..initialized
          /\ position \in Nat /\ anchor \in Nat /\ repeats \in Histories /\ Frontier
      BY UnderWay
    <3> QED BY <3>1
  <2>2. ASSUME NEW n \in 0..initialized, paths[n].reached
        PROVE  Bytes(Reconstruct(n).sequences) + Reconstruct(n).trailing = n + InitialLiterals
    <3> DEFINE path == Reconstruct(n)
    <3>1. /\ path.sequences \in Seq(Steps) /\ path.trailing = paths[n].literals
          /\ paths[n].literals \in Nat
          /\ Leads(path.sequences, Here, NodeState(n)) /\ NodeState(n) \in States
      BY <2>2, PathOn
    <3>2. Here \in States BY <2>1 DEF Here, States
    <3> HIDE DEF path
    <3>3. Bytes(path.sequences) = NodeState(n).at - Here.at BY <3>1, <3>2, BytesLead
    <3>4. NodeState(n).at = position + n - paths[n].literals /\ Here.at = anchor
      BY DEF NodeState, Here
    <3>5. InitialLiterals = position - anchor BY DEF InitialLiterals
    <3>6. Bytes(path.sequences) + path.trailing = n + InitialLiterals
      BY <3>1, <3>3, <3>4, <3>5, <2>1
    <3> QED BY <3>6 DEF path
  <2>3. local <= initialized /\ paths[local].reached BY <2>1 DEF Frontier, Reached
  <2>4. phase = "select" => selected <= initialized /\ paths[selected].reached
    <3> SUFFICES ASSUME phase = "select" PROVE selected <= initialized /\ paths[selected].reached
      OBVIOUS
    <3>1. Reached(frontier) /\ Reached(1) /\ selected = IF frontier = 0 THEN 1 ELSE frontier
      BY <2>1 DEF Frontier
    <3>2. CASE frontier = 0 BY <3>1, <3>2 DEF Reached
    <3>3. CASE frontier # 0 BY <3>1, <3>3 DEF Reached
    <3> QED BY <3>2, <3>3
  <2> QED BY <2>2, <2>3, <2>4
<1> QED BY <1>1, Invariance, PTL

\* Each match is decoded at the distance it was found at, and the decoder's history
\* behind what has been parsed is the parser's.
THEOREM DecodedAsFound == Spec => []MatchesDecodeAsFound
<1>1. IInv => MatchesDecodeAsFound
  <2> SUFFICES ASSUME IInv PROVE MatchesDecodeAsFound OBVIOUS
  <2>1. TypeOK /\ Leads(sequences, Origin, Here) BY DEF IInv, Parsing
  <2>2. sequences \in Seq(Steps) /\ begin \in Nat /\ blockRepeats \in Histories
    BY <2>1 DEF TypeOK
  <2>3. /\ \A i \in 1..Len(sequences) : Decoded[i].offset = sequences[i].distance
        /\ Decoded[Len(sequences)].repeats = Here.repeats
    BY <2>1, <2>2, DecodedAlong
  <2>4. Here.repeats = repeats BY DEF Here
  <2>5. DOMAIN sequences = 1..Len(sequences) BY <2>2
  <2> QED BY <2>3, <2>4, <2>5 DEF MatchesDecodeAsFound
<1> QED BY <1>1, Invariance, PTL

\* The bytes of some of the sequences are those between their places.
LEMMA SubBytes ==
  ASSUME NEW list \in Seq(Steps), NEW s, NEW g, IsTrace(list, s, g),
         NEW f \in 0..Len(list), NEW l \in 0..Len(list), f <= l
  PROVE  Bytes(SubSeq(list, f + 1, l)) = g[l].at - g[f].at
<1> DEFINE n == Len(list)
           part == SubSeq(list, f + 1, l)
           p == [i \in 0..(l - f) |-> g[f + i].at]
<1>0. n \in Nat /\ f \in Nat /\ l \in Nat OBVIOUS
<1>1. g \in [0..n -> States] /\ \A k \in 1..n : g[k] = After(g[k - 1], list[k]) BY DEF IsTrace
<1>2. part \in Seq(Steps) /\ Len(part) = l - f /\ \A i \in 1..(l - f) : part[i] = list[f + i]
  <2>1. ASSUME NEW i \in 1..(l - f) PROVE f + i \in 1..n /\ (f + 1) + i - 1 = f + i BY <1>0
  <2>2. \A i \in (f + 1)..l : list[i] \in Steps BY <1>0
  <2>3. f + 1 \in Int /\ l \in Int BY <1>0
  <2>4. /\ part \in Seq(Steps)
        /\ Len(part) = IF f + 1 <= l THEN l - (f + 1) + 1 ELSE 0
        /\ \A i \in 1..(l - (f + 1) + 1) : part[i] = list[(f + 1) + i - 1]
    BY <2>2, <2>3, SubSeqProperties
  <2> HIDE DEF part
  <2>5. Len(part) = l - f BY <2>4, <1>0
  <2>6. ASSUME NEW i \in 1..(l - f) PROVE part[i] = list[f + i]
    <3>1. i \in 1..(l - (f + 1) + 1) BY <1>0
    <3>2. part[i] = list[(f + 1) + i - 1] BY <3>1, <2>4
    <3> QED BY <3>2, <2>1
  <2> QED BY <2>4, <2>5, <2>6
<1>3. ASSUME NEW k \in 0..n PROVE g[k].at \in Nat
  <2>1. g[k] \in States BY <1>1
  <2> QED BY <2>1 DEF States
<1>4. p \in [0..(l - f) -> Nat]
  <2>1. \A i \in 0..(l - f) : f + i \in 0..n BY <1>0
  <2> QED BY <2>1, <1>3
<1>5. ASSUME NEW i \in 1..(l - f) PROVE p[i] = p[i - 1] + part[i].literals + part[i].length
  <2> DEFINE k == f + i
  <2>1. k \in 1..n /\ i \in 0..(l - f) /\ i - 1 \in 0..(l - f) /\ f + (i - 1) = k - 1 BY <1>0
  <2>2. p[i] = g[k].at /\ p[i - 1] = g[k - 1].at BY <2>1
  <2>3. g[k].at = g[k - 1].at + list[k].literals + list[k].length
    <3>1. g[k] = After(g[k - 1], list[k]) BY <2>1, <1>1
    <3> QED BY <3>1 DEF After
  <2>4. part[i] = list[k] BY <1>2
  <2> HIDE DEF p, part, k
  <2> QED BY <2>2, <2>3, <2>4
<1>6. p[0] = g[f].at /\ p[l - f] = g[l].at
  <2>1. 0 \in 0..(l - f) /\ l - f \in 0..(l - f) /\ f + 0 = f /\ f + (l - f) = l BY <1>0
  <2> QED BY <2>1
<1> HIDE DEF p, part
<1>7. Bytes(part) = p[Len(part)] - p[0] BY <1>2, <1>4, <1>5, BytesCounted
<1> QED BY <1>2, <1>6, <1>7 DEF part

\* Partitions follow each other from the first byte of the block to its last, none is
\* empty, and there are no more of them than there is room for.
THEOREM PartitionsTileHolds == Spec => []PartitionsTile
<1>1. IInv => PartitionsTile
  <2> SUFFICES ASSUME IInv, phase = "idle", ends # <<>>
               PROVE  /\ Len(ends) <= MaxSplits + 1
                      /\ Part(1).from = begin /\ Part(Len(ends)).to = end
                      /\ \A i \in DOMAIN ends : Part(i).from < Part(i).to
                      /\ \A i \in 2..Len(ends) : Part(i - 1).to = Part(i).from
    BY DEF PartitionsTile
  <2> DEFINE n == Len(sequences)
             m == Len(ends)
  <2>1. TypeOK /\ InBlock /\ Parted /\ Leads(sequences, Origin, Here) BY DEF IInv, Parsing
  <2>2. /\ sequences \in Seq(Steps) /\ ends \in Seq(Nat) /\ begin \in Nat /\ end \in Nat
        /\ anchor \in Nat /\ anchor <= position /\ position <= end /\ position \in Nat
        /\ begin < end
    BY <2>1 DEF TypeOK, InBlock
  <2>3. n \in Nat /\ m \in Nat /\ m >= 1 /\ DOMAIN ends = 1..m BY <2>2
  <2>4. /\ Increasing(ends) /\ m <= MaxSplits + 1 /\ ends[m] = n
        /\ \A k \in 1..(m - 1) : ends[k] >= 1
    BY <2>1 DEF Parted
  <2>5. PICK g \in [0..n -> States] : IsTrace(sequences, Origin, g) /\ g[n] = Here
    BY <2>1 DEF Leads
  <2>6. g[0].at = begin /\ g[n].at = anchor
    <3>1. g[0] = Origin BY <2>5 DEF IsTrace
    <3> QED BY <3>1, <2>5 DEF Origin, Here
  <2>7. ASSUME NEW k \in 0..n PROVE g[k].at \in Nat
    <3>1. g[k] \in States BY <2>5
    <3> QED BY <3>1 DEF States
  <2>8. ASSUME NEW i \in 1..m, NEW j \in 1..m, i < j PROVE ends[i] < ends[j]
    BY <2>3, <2>4, <2>8 DEF Increasing
  <2> HIDE DEF n, m
  <2>9. ASSUME NEW i \in 1..m PROVE ends[i] \in 0..n /\ (ends[i] = n <=> i = m)
    <3>1. ends[i] \in Nat BY <2>2, <2>3
    <3>2. CASE i = m BY <3>1, <3>2, <2>3, <2>4
    <3>3. CASE i # m
      <4>1. m \in 1..m /\ i < m BY <3>3, <2>3
      <4>2. ends[i] < ends[m] BY <4>1, <2>8
      <4> QED BY <4>2, <3>1, <3>3, <2>3, <2>4
    <3> QED BY <3>2, <3>3
  <2>10. ASSUME NEW f \in 0..n, NEW l \in 0..n, f <= l
         PROVE  /\ SubBlock(f, l).from = g[f].at
                /\ SubBlock(f, l).to = IF l = n THEN end ELSE g[l].at
    <3>1. Bytes(SubSeq(sequences, 1, f)) = g[f].at - g[0].at
      <4>1. 0 \in 0..n /\ 0 <= f /\ 0 + 1 = 1 BY <2>3
      <4> QED BY <4>1, <2>2, <2>5, SubBytes DEF n
    <3>2. Bytes(SubSeq(sequences, f + 1, l)) = g[l].at - g[f].at
      BY <2>2, <2>5, <2>10, SubBytes DEF n
    <3>3. g[f].at \in Nat /\ g[l].at \in Nat BY <2>7
    <3>4. begin + Bytes(SubSeq(sequences, 1, f)) = g[f].at BY <3>1, <3>3, <2>2, <2>6
    <3>5. g[f].at + Bytes(SubSeq(sequences, f + 1, l)) = g[l].at BY <3>2, <3>3
    <3> QED BY <3>4, <3>5 DEF SubBlock, n
  <2> DEFINE first(i) == IF i = 1 THEN 0 ELSE ends[i - 1]
  <2>11. ASSUME NEW i \in 1..m
         PROVE  /\ first(i) \in 0..n /\ first(i) <= ends[i] /\ ends[i] \in 0..n
                /\ i # 1 \/ i # m => first(i) < ends[i]
    <3>1. ends[i] \in 0..n BY <2>9
    <3>2. CASE i = 1
      <4>1. i # m => ends[i] >= 1
        <5> SUFFICES ASSUME i # m PROVE ends[i] >= 1 OBVIOUS
        <5>1. i \in 1..(m - 1) BY <2>3
        <5> QED BY <5>1, <2>4
      <4>2. first(i) = 0 BY <3>2
      <4> QED BY <4>1, <4>2, <3>1, <3>2, <2>3
    <3>3. CASE i # 1
      <4>1. i - 1 \in 1..m /\ i - 1 < i BY <3>3, <2>3
      <4>2. ends[i - 1] < ends[i] /\ ends[i - 1] \in 0..n BY <4>1, <2>8, <2>9
      <4>3. first(i) = ends[i - 1] BY <3>3
      <4> QED BY <4>2, <4>3, <3>1, <2>3
    <3> QED BY <3>2, <3>3
  <2>12. ASSUME NEW i \in 1..m
         PROVE  /\ Part(i).from = g[first(i)].at
                /\ Part(i).to = IF i = m THEN end ELSE g[ends[i]].at
    <3>1. Part(i) = SubBlock(first(i), ends[i]) BY DEF Part
    <3> HIDE DEF first
    <3>2. /\ SubBlock(first(i), ends[i]).from = g[first(i)].at
          /\ SubBlock(first(i), ends[i]).to = IF ends[i] = n THEN end ELSE g[ends[i]].at
      BY <2>10, <2>11
    <3> QED BY <3>1, <3>2, <2>9
  <2>13. Part(1).from = begin
    <3>1. 1 \in 1..m /\ first(1) = 0 BY <2>3
    <3> HIDE DEF first
    <3> QED BY <3>1, <2>6, <2>12
  <2>14. Part(m).to = end
    <3>1. m \in 1..m BY <2>3
    <3> QED BY <3>1, <2>12
  <2>15. ASSUME NEW i \in 1..m PROVE Part(i).from < Part(i).to
    <3> HIDE DEF first
    <3>1. /\ first(i) \in 0..n /\ ends[i] \in 0..n /\ (i # 1 \/ i # m => first(i) < ends[i])
          /\ Part(i).from = g[first(i)].at
          /\ Part(i).to = IF i = m THEN end ELSE g[ends[i]].at
      BY <2>11, <2>12
    <3>2. CASE i = 1 /\ i = m BY <3>2, <2>2, <2>3, <2>13, <2>14
    <3>3. CASE i # 1 \/ i # m
      <4>1. g[first(i)].at < g[ends[i]].at BY <3>1, <3>3, <2>2, <2>5, PlacesGrow DEF n
      <4>2. CASE i = m
        <5>1. g[ends[i]].at <= end BY <4>2, <2>2, <2>4, <2>6 DEF m
        <5>2. g[first(i)].at \in Nat /\ g[ends[i]].at \in Nat BY <3>1, <2>7
        <5> QED BY <4>1, <4>2, <5>1, <5>2, <3>1, <2>2
      <4>3. CASE i # m BY <4>1, <4>3, <3>1
      <4> QED BY <4>2, <4>3
    <3> QED BY <3>2, <3>3
  <2>16. ASSUME NEW i \in 2..m PROVE Part(i - 1).to = Part(i).from
    <3>1. i \in 1..m /\ i - 1 \in 1..m /\ i - 1 # m /\ i # 1 BY <2>3
    <3>2. first(i) = ends[i - 1] BY <3>1
    <3> HIDE DEF first
    <3>3. Part(i - 1).to = g[ends[i - 1]].at BY <3>1, <2>12
    <3>4. Part(i).from = g[first(i)].at BY <3>1, <2>12
    <3> QED BY <3>2, <3>3, <3>4
  <2> QED BY <2>3, <2>4, <2>13, <2>14, <2>15, <2>16 DEF m
<1> QED BY <1>1, Invariance, PTL
=============================================================================
