--------------------------- MODULE HashChainProofs ---------------------------
(***************************************************************************)
(* What HashChain's run checks, for every ring, row, cache and window: a   *)
(* search sees exactly what was recorded in its bucket or row, every hash  *)
(* from the cache is that of its position, and no search is behind what    *)
(* has been recorded.                                                      *)
(*                                                                         *)
(* The argument.  A parser that goes back does so over fewer positions     *)
(* than the shortest match has, so the next position to record never       *)
(* passes a search or the end of the block (Course).  Every index kept     *)
(* anywhere is therefore below it (OldIndexes), and the base of the next   *)
(* frame is not: what an earlier frame left is out of reach.  Within a     *)
(* frame a bucket's head is its newest position and every link that still  *)
(* has its slot is the one before (Chained); a row's entries from the head *)
(* on are its newest positions (InRows).  While it is in use the cache     *)
(* holds the hashes from the next position on (Ahead).                     *)
(***************************************************************************)
EXTENDS HashChain, FiniteSetTheorems, WellFoundedInduction, TLAPS

Phases == {"idle", "scan", "look", "taken", "insert", "search", "found"}

Entry == [tag : Nat, index : Nat]

TypeOK ==
  /\ parser \in Parsers
  /\ base \in Nat /\ next \in Nat
  /\ heads \in [Buckets -> Nat] /\ links \in [0..(ChainSize - 1) -> Nat]
  /\ cells \in [Rows -> [0..RowMask -> Entry]]
  /\ cache \in [0..(CacheSize - 1) -> Int]
  /\ phase \in Phases
  /\ begin \in Nat /\ end \in Nat /\ position \in Nat /\ start \in Nat
  /\ looks \in 0..2 /\ skipping \in BOOLEAN
  /\ until \in Nat /\ resume \in Nat
  /\ recorded \in [Buckets -> Seq(Nat)]
  /\ written \in [Rows -> Seq(Nat \X Nat)]

\* Where the parser is, and how far recording has come.
InSearch == phase \in {"insert", "search", "found"}

Course ==
  /\ base + Bias <= next /\ next <= Index(end)
  /\ begin <= end
  /\ phase # "idle" => Index(end) <= MaxIndex
  /\ InSearch => position <= Limit
  /\ InSearch \/ phase \in {"look", "taken"} => position <= start + looks
  /\ phase = "scan" => next <= Index(position)
  /\ phase \in {"look", "taken", "found"} => next <= Index(position) + 1
  /\ phase = "insert" =>
       /\ next <= resume /\ until <= resume /\ resume <= Index(position)
       /\ resume # Index(position) => resume = Index(position) - TailUpdates
       /\ resume = Index(position) /\ ~skipping => until = resume
  /\ phase = "search" => parser.rows /\ next = Index(position)
  /\ phase = "found" /\ ~parser.rows => next = Index(position)

\* What the rows hash ahead.
Ahead(p) ==
  \A k \in 0..(CacheSize - 1) : p + k <= Limit => cache[(p + k) % CacheSize] = p + k

Hashed ==
  parser.rows =>
    /\ phase # "idle" /\ ~skipping => Ahead(Unbiased(next))
    /\ phase = "insert" /\ skipping => next >= until /\ resume = Index(position)
    /\ \A slot \in 0..(CacheSize - 1) :
         cache[slot] # NotHashed => cache[slot] + ReadSize <= end

OldIndexes ==
  /\ \A b \in Buckets : heads[b] < next
  /\ \A s \in 0..(ChainSize - 1) : links[s] < next
  /\ \A row \in Rows, slot \in 0..RowMask : cells[row][slot].index < next

\* Of a frame with its positions from `low` on, of which `n` is the next: no search
\* sees this index any more.
Hidden(index, low, n) == index < low \/ index + Window + 1 < n

\* The index of the i-th position of a list, or of one out of sight.
Shows(index, list, i, low, n) ==
  IF i > Len(list) THEN Hidden(index, low, n) ELSE index = low + list[i]

\* A bucket's list can be followed from its head, as long as the links are in place.
ChainIn(head, ring, list, low, n) ==
  /\ list \in Seq(Nat)
  /\ \A i \in 1..Len(list) : low + list[i] < n
  /\ \A i, j \in 1..Len(list) : i < j => list[j] < list[i]
  /\ Shows(head, list, 1, low, n)
  /\ \A i \in 1..Len(list) : low + list[i] + ChainSize >= n =>
       Shows(ring[(low + list[i]) % ChainSize], list, i + 1, low, n)

Chained == \A bucket \in Buckets : ChainIn(heads[bucket], links, recorded[bucket], FrameLow, next)

\* A row has the newest positions of its list, from its head on.
RowIn(row, list, low, n) ==
  /\ list \in Seq(Nat \X Nat) /\ Len(list) <= RowMask
  /\ HeadOf(row) <= RowMask /\ (HeadOf(row) = 0 => list = <<>>)
  /\ \A i \in 1..Len(list) : low + list[i][1] < n
  /\ \A i, j \in 1..Len(list) : i < j => list[j][1] < list[i][1]
  /\ \A k \in 1..RowMask :
       IF k <= Len(list)
       THEN EntryAt(row, k).tag = list[k][2] /\ EntryAt(row, k).index = low + list[k][1]
       ELSE EntryAt(row, k).index < low

InRows == \A row \in Rows : RowIn(cells[row], written[row], FrameLow, next)

IInv == TypeOK /\ Course /\ Hashed /\ OldIndexes /\ Chained /\ InRows

----------------------------------------------------------------------------
(* Induction, for a set in place of a predicate.                           *)

\* Naturals have a least element: the order of 0..n by inclusion is well-founded.
LEMMA LeastNatural ==
  ASSUME NEW T, T \subseteq Nat, T # {}
  PROVE  \E n \in T : \A m \in T : n <= m
<1> DEFINE Below == {0..n : n \in T}
<1>1. IsWellFoundedOn(StrictSubsetOrdering(Nat), FiniteSubsetsOf(Nat))
  BY FS_StrictSubsetOrderingWellFounded
<1>2. Below \subseteq FiniteSubsetsOf(Nat)
  <2>1. ASSUME NEW n \in T PROVE 0..n \in FiniteSubsetsOf(Nat)
    <3>1. IsFiniteSet(0..n) BY FS_Interval
    <3>2. 0..n \in SUBSET Nat OBVIOUS
    <3> QED BY <3>1, <3>2 DEF FiniteSubsetsOf
  <2> QED BY <2>1
<1>3. Below # {} OBVIOUS
<1>4. \E x \in Below : \A y \in Below : ~ (<<y, x>> \in StrictSubsetOrdering(Nat))
  <2> HIDE DEF Below
  <2> QED BY <1>1, <1>2, <1>3, WFMin
<1>5. PICK n \in T : \A y \in Below : ~ (<<y, 0..n>> \in StrictSubsetOrdering(Nat))
  BY <1>4
<1>6. ASSUME NEW m \in T PROVE n <= m
  <2>1. ~ (<<0..m, 0..n>> \in StrictSubsetOrdering(Nat)) BY <1>5
  <2>2. SUFFICES ASSUME m < n PROVE FALSE OBVIOUS
  <2>3. 0..m \subseteq 0..n /\ 0..m # 0..n
    <3>1. n \in 0..n /\ n \notin 0..m BY <2>2
    <3> QED BY <3>1, <2>2
  <2>4. 0..m \in SUBSET Nat /\ 0..n \in SUBSET Nat OBVIOUS
  <2> QED BY <2>1, <2>3, <2>4 DEF StrictSubsetOrdering
<1> QED BY <1>6

\* What holds of n whenever it holds of all before it holds of all.
LEMMA Induction ==
  ASSUME NEW T, \A n \in Nat : (\A m \in Nat : m < n => m \in T) => n \in T
  PROVE  \A n \in Nat : n \in T
<1> SUFFICES ASSUME NEW n \in Nat, n \notin T PROVE FALSE OBVIOUS
<1> DEFINE Out == {m \in Nat : m \notin T}
<1>1. PICK m \in Out : \A k \in Out : m <= k
  <2>1. Out \subseteq Nat /\ Out # {} OBVIOUS
  <2> HIDE DEF Out
  <2> QED BY <2>1, LeastNatural
<1>2. m \in Nat /\ m \notin T OBVIOUS
<1>3. \A k \in Nat : k < m => k \in T BY <1>1
<1> QED BY <1>2, <1>3

----------------------------------------------------------------------------
(* Remainders: slots of rings of any size.                                 *)

LEMMA ModIs ==
  ASSUME NEW c \in Nat \ {0}, NEW q \in Int, NEW r \in 0..(c - 1)
  PROVE  (c * q + r) % c = r
OBVIOUS

LEMMA Division ==
  ASSUME NEW c \in Nat \ {0}, NEW a \in Int
  PROVE  \E q \in Int, r \in 0..(c - 1) : a = c * q + r /\ a % c = r
<1> DEFINE Divides(b) == \E q \in Int, r \in 0..(c - 1) : b = c * q + r
           T == {n \in Nat : Divides(n)}
<1>1. ASSUME NEW n \in Nat, \A m \in Nat : m < n => m \in T PROVE n \in T
  <2>1. CASE n < c
    <3>1. n = c * 0 + n /\ n \in 0..(c - 1) BY <2>1
    <3> QED BY <3>1
  <2>2. CASE ~(n < c)
    <3>1. PICK q \in Int, r \in 0..(c - 1) : n - c = c * q + r
      <4>1. n - c \in Nat /\ n - c < n BY <2>2
      <4> QED BY <4>1, <1>1
    <3>2. q + 1 \in Int /\ n = c * (q + 1) + r BY <3>1
    <3> QED BY <3>2
  <2> QED BY <2>1, <2>2
<1>2. \A n \in Nat : n \in T
  <2> HIDE DEF T
  <2> QED BY <1>1, Induction
<1>3. Divides(a)
  <2>1. CASE a \in Nat BY <2>1, <1>2
  <2>2. CASE a \notin Nat
    <3>1. -a \in Nat BY <2>2
    <3>2. PICK q \in Int, r \in 0..(c - 1) : -a = c * q + r BY <3>1, <1>2
    <3>3. CASE r = 0
      <4>1. -q \in Int /\ 0 \in 0..(c - 1) /\ a = c * (-q) + 0 BY <3>2, <3>3
      <4> QED BY <4>1
    <3>4. CASE r # 0
      <4>1. -q - 1 \in Int /\ c - r \in 0..(c - 1) /\ a = c * (-q - 1) + (c - r)
        BY <3>2, <3>4
      <4> QED BY <4>1
    <3> QED BY <3>3, <3>4
  <2> QED BY <2>1, <2>2
<1>4. PICK q \in Int, r \in 0..(c - 1) : a = c * q + r BY <1>3
<1>5. (c * q + r) % c = r BY ModIs
<1> QED BY <1>4, <1>5

\* Two numbers with the same remainder are a multiple apart.
LEMMA Apart ==
  ASSUME NEW c \in Nat \ {0}, NEW a \in Int, NEW b \in Int, a < b, b < a + c
  PROVE  a % c # b % c
<1>1. PICK p \in Int, r \in 0..(c - 1) : a = c * p + r /\ a % c = r BY Division
<1>2. PICK q \in Int, s \in 0..(c - 1) : b = c * q + s /\ b % c = s BY Division
<1> SUFFICES ASSUME r = s PROVE FALSE BY <1>1, <1>2
<1>4. b - a = c * (q - p) BY <1>1, <1>2
<1>5. CASE q - p >= 1
  <2>1. c * (q - p) >= c BY <1>5
  <2> QED BY <2>1, <1>4
<1>6. CASE q - p <= 0
  <2>1. c * (q - p) <= 0 BY <1>6
  <2> QED BY <2>1, <1>4
<1> QED BY <1>5, <1>6

\* A remainder stands for its number in sums.
LEMMA Reduced ==
  ASSUME NEW c \in Nat \ {0}, NEW a \in Int, NEW b \in Int
  PROVE  ((a % c) + b) % c = (a + b) % c
<1>1. PICK p \in Int, r \in 0..(c - 1) : a = c * p + r /\ a % c = r BY Division
<1>2. PICK q \in Int, s \in 0..(c - 1) : r + b = c * q + s /\ (r + b) % c = s
  <2>1. r + b \in Int OBVIOUS
  <2> QED BY <2>1, Division
<1>3. a + b = c * (p + q) + s BY <1>1, <1>2
<1>4. p + q \in Int OBVIOUS
<1>5. (c * (p + q) + s) % c = s BY <1>4, ModIs
<1> QED BY <1>1, <1>2, <1>3, <1>5

LEMMA InRing ==
  ASSUME NEW c \in Nat \ {0}, NEW a \in Int
  PROVE  a % c \in 0..(c - 1)
BY Division

LEMMA Small ==
  ASSUME NEW c \in Nat \ {0}, NEW a \in 0..(c - 1)
  PROVE  a % c = a
<1>1. a = c * 0 + a OBVIOUS
<1> QED BY <1>1, ModIs

----------------------------------------------------------------------------
(* Lists of positions, newest first.                                       *)

\* The newest of a list are the first of it, down to the position.
LEMMA NewestAre ==
  ASSUME NEW list \in Seq(Nat), NEW p \in Int,
         \A i, j \in 1..Len(list) : i < j => list[j] < list[i]
  PROVE  LET new == Newest(list, p)
         IN  /\ new \in Seq(Nat) /\ Len(new) \in 0..Len(list)
             /\ \A i \in 1..Len(new) : new[i] = list[i]
             /\ \A i \in 1..Len(list) : i <= Len(new) <=> list[i] >= p
<1> DEFINE len == Len(list)
           Is(n) == \A i \in 1..len : i <= n <=> list[i] >= p
           old == {i \in 1..(len + 1) : i = len + 1 \/ list[i] < p}
<1>0. len \in Nat /\ \A i \in 1..len : list[i] \in Nat OBVIOUS
<1>1. PICK m \in old : \A i \in old : m <= i
  <2>1. old \subseteq Nat /\ len + 1 \in old BY <1>0
  <2> HIDE DEF old
  <2> QED BY <2>1, LeastNatural
<1>2. m - 1 \in 0..len /\ Is(m - 1)
  <2>1. m \in 1..(len + 1) OBVIOUS
  <2>2. ASSUME NEW i \in 1..len, i <= m - 1 PROVE list[i] >= p
    <3>1. i \notin old BY <1>0, <1>1, <2>1, <2>2
    <3> QED BY <1>0, <3>1
  <2>3. ASSUME NEW i \in 1..len, ~(i <= m - 1) PROVE list[i] < p
    <3>1. m <= i /\ m \in 1..len /\ list[m] < p BY <1>0, <2>1, <2>3
    <3>2. CASE m = i BY <3>1, <3>2
    <3>3. CASE m # i
      <4>1. list[i] < list[m] BY <1>0, <3>1, <3>3
      <4> QED BY <1>0, <3>1, <4>1
    <3> QED BY <3>2, <3>3
  <2>4. ASSUME NEW i \in 1..len PROVE i <= m - 1 <=> list[i] >= p
    BY <1>0, <2>2, <2>3
  <2> QED BY <1>0, <2>1, <2>4
<1> DEFINE n == CHOOSE n \in 0..len : Is(n)
<1>3. n \in 0..len /\ Is(n) BY <1>2
<1>4. Newest(list, p) = SubSeq(list, 1, n) BY DEF Newest
<1> HIDE DEF n
<1>5. LET new == SubSeq(list, 1, n)
      IN  new \in Seq(Nat) /\ Len(new) = n /\ \A i \in 1..n : new[i] = list[i]
  BY <1>0, <1>3
<1> QED BY <1>3, <1>4, <1>5

----------------------------------------------------------------------------
(* Chains.                                                                 *)

Ring == [0..(ChainSize - 1) -> Nat]

LEMMA ChainLater ==
  ASSUME ChainSize \in Nat \ {0}, Window \in Nat, NEW low \in Nat, NEW n \in Nat, NEW m \in Nat, n <= m,
         NEW head \in Nat, NEW ring \in Ring, NEW list, ChainIn(head, ring, list, low, n)
  PROVE  ChainIn(head, ring, list, low, m)
<1>1. list \in Seq(Nat) /\ Len(list) \in Nat /\ \A i \in 1..Len(list) : list[i] \in Nat
  BY DEF ChainIn
<1>2. ASSUME NEW index \in Nat, NEW i \in Nat, Shows(index, list, i, low, n)
      PROVE  Shows(index, list, i, low, m)
  BY <1>2 DEF Shows, Hidden
<1>3. ASSUME NEW i \in 1..Len(list), low + list[i] + ChainSize >= m
      PROVE  Shows(ring[(low + list[i]) % ChainSize], list, i + 1, low, m)
  <2>1. (low + list[i]) % ChainSize \in 0..(ChainSize - 1)
    <3>1. low + list[i] \in Int BY <1>1
    <3> QED BY <3>1, InRing
  <2>2. ring[(low + list[i]) % ChainSize] \in Nat BY <2>1 DEF Ring
  <2>3. low + list[i] + ChainSize >= n BY <1>1, <1>3
  <2> QED BY <1>2, <2>2, <2>3 DEF ChainIn
<1>4. Shows(head, list, 1, low, m) BY <1>2 DEF ChainIn
<1>5. \A i \in 1..Len(list) : low + list[i] < m BY <1>1 DEF ChainIn
<1>6. \A i, j \in 1..Len(list) : i < j => list[j] < list[i] BY DEF ChainIn
<1> QED BY <1>1, <1>3, <1>4, <1>5, <1>6 DEF ChainIn

\* What an earlier frame left is no position.
LEMMA NoChain ==
  ASSUME NEW low \in Nat, NEW n \in Nat, NEW head \in Nat, head < low, NEW ring
  PROVE  ChainIn(head, ring, <<>>, low, n)
BY DEF ChainIn, Shows, Hidden

\* What is known of a list that a chain has, and of the links behind its positions.
LEMMA ChainList ==
  ASSUME NEW low \in Nat, NEW n \in Nat, NEW head, NEW ring, NEW list,
         ChainIn(head, ring, list, low, n)
  PROVE  /\ list \in Seq(Nat) /\ Len(list) \in Nat
         /\ \A i \in 1..Len(list) : list[i] \in Nat /\ low + list[i] < n
         /\ \A i, j \in 1..Len(list) : i < j => list[j] < list[i]
BY DEF ChainIn

LEMMA ChainLinks ==
  ASSUME ChainSize \in Nat \ {0}, NEW low \in Nat, NEW p \in Nat, NEW ring \in Ring
  PROVE  /\ (low + p) % ChainSize \in 0..(ChainSize - 1)
         /\ ring[(low + p) % ChainSize] \in Nat
<1>1. low + p \in Int OBVIOUS
<1>2. (low + p) % ChainSize \in 0..(ChainSize - 1) BY <1>1, InRing
<1> QED BY <1>2 DEF Ring

\* Indexes of the frame move down by its base, and the ring with them.
LEMMA ChainRebased ==
  ASSUME ChainSize \in Nat \ {0}, Window \in Nat, NEW b \in Nat, NEW bias \in Nat \ {0},
         NEW n \in Nat, b + bias <= n,
         NEW head \in Nat, NEW ring \in Ring, NEW list, ChainIn(head, ring, list, b + bias, n),
         NEW R, R = [index \in Nat |-> IF index >= b + bias THEN index - b ELSE 0]
  PROVE  ChainIn(R[head], [s \in 0..(ChainSize - 1) |-> R[ring[(s + b) % ChainSize]]],
                 list, bias, n - b)
<1> DEFINE low == b + bias
           moved == [s \in 0..(ChainSize - 1) |-> R[ring[(s + b) % ChainSize]]]
<1>0. low \in Nat OBVIOUS
<1>1. /\ list \in Seq(Nat) /\ Len(list) \in Nat
      /\ \A i \in 1..Len(list) : list[i] \in Nat /\ low + list[i] < n
      /\ \A i, j \in 1..Len(list) : i < j => list[j] < list[i]
  <2> HIDE DEF low
  <2> QED BY <1>0, ChainList DEF low
<1>2. ASSUME NEW index \in Nat, NEW i \in Nat \ {0}, Shows(index, list, i, low, n)
      PROVE  Shows(R[index], list, i, bias, n - b)
  <2>1. CASE i > Len(list)
    <3>1. Hidden(index, low, n) BY <1>2, <2>1 DEF Shows
    <3>2. Hidden(R[index], bias, n - b) BY <3>1 DEF Hidden
    <3> QED BY <2>1, <3>2 DEF Shows
  <2>2. CASE ~(i > Len(list))
    <3>1. index = low + list[i] /\ list[i] \in Nat BY <1>1, <1>2, <2>2 DEF Shows
    <3>2. R[index] = bias + list[i] BY <3>1
    <3> QED BY <2>2, <3>2 DEF Shows
  <2> QED BY <2>1, <2>2
<1>3. ASSUME NEW i \in 1..Len(list), bias + list[i] + ChainSize >= n - b
      PROVE  Shows(moved[(bias + list[i]) % ChainSize], list, i + 1, bias, n - b)
  <2> DEFINE slot == (bias + list[i]) % ChainSize
  <2>1. slot \in 0..(ChainSize - 1)
    <3>1. bias + list[i] \in Int BY <1>1
    <3> QED BY <3>1, InRing
  <2>2. (slot + b) % ChainSize = (low + list[i]) % ChainSize
    <3> DEFINE a == bias + list[i]
    <3>1. a \in Int /\ b \in Int /\ a + b = low + list[i] BY <1>1
    <3> HIDE DEF a, low
    <3>2. ((a % ChainSize) + b) % ChainSize = (a + b) % ChainSize BY <3>1, Reduced
    <3> QED BY <3>1, <3>2 DEF a
  <2>3. moved[slot] = R[ring[(low + list[i]) % ChainSize]] BY <2>1, <2>2
  <2>4. low + list[i] + ChainSize >= n BY <1>1, <1>3
  <2>5. Shows(ring[(low + list[i]) % ChainSize], list, i + 1, low, n) BY <2>4 DEF ChainIn
  <2>6. i + 1 \in Nat \ {0} OBVIOUS
  <2>7. ring[(low + list[i]) % ChainSize] \in Nat
    <3> HIDE DEF low
    <3> QED BY <1>0, <1>1, ChainLinks
  <2> HIDE DEF slot, low, moved
  <2>8. Shows(R[ring[(low + list[i]) % ChainSize]], list, i + 1, bias, n - b)
    BY <1>2, <2>5, <2>6, <2>7
  <2> QED BY <2>3, <2>8 DEF slot
<1>4. Shows(R[head], list, 1, bias, n - b) BY <1>2 DEF ChainIn
<1>5. \A i \in 1..Len(list) : bias + list[i] < n - b BY <1>1
<1> HIDE DEF moved
<1>6. ChainIn(R[head], moved, list, bias, n - b) BY <1>1, <1>3, <1>4, <1>5 DEF ChainIn
<1> QED BY <1>6 DEF moved

\* The next position goes in front of its bucket's list.
LEMMA ChainGrown ==
  ASSUME ChainSize \in Nat \ {0}, Window \in Nat, NEW low \in Nat, NEW n \in Nat, low <= n,
         NEW head \in Nat, NEW ring \in Ring, NEW list, ChainIn(head, ring, list, low, n)
  PROVE  ChainIn(n, [ring EXCEPT ![n % ChainSize] = head], <<n - low>> \o list, low, n + 1)
<1> DEFINE new == <<n - low>> \o list
           linked == [ring EXCEPT ![n % ChainSize] = head]
<1>1. /\ list \in Seq(Nat) /\ Len(list) \in Nat
      /\ \A i \in 1..Len(list) : list[i] \in Nat /\ low + list[i] < n
      /\ \A i, j \in 1..Len(list) : i < j => list[j] < list[i]
  BY ChainList
<1>2. /\ new \in Seq(Nat) /\ Len(new) = Len(list) + 1 /\ new[1] = n - low
      /\ \A i \in 1..Len(list) : new[i + 1] = list[i]
  BY <1>1
<1>3. ASSUME NEW i \in 1..Len(new)
      PROVE  i = 1 \/ (i - 1 \in 1..Len(list) /\ new[i] = list[i - 1])
  <2>1. CASE i # 1
    <3>1. i - 1 \in 1..Len(list) /\ (i - 1) + 1 = i BY <1>1, <1>2, <2>1
    <3> QED BY <1>2, <3>1
  <2> QED BY <2>1
<1>4. n % ChainSize \in 0..(ChainSize - 1) BY InRing
<1>5. linked[n % ChainSize] = head BY <1>4 DEF Ring
<1> HIDE DEF new, linked
<1>6. ASSUME NEW index \in Nat, NEW i \in Nat \ {0}, Shows(index, list, i, low, n)
      PROVE  Shows(index, new, i + 1, low, n + 1)
  <2>1. CASE i > Len(list)
    BY <1>1, <1>2, <1>6, <2>1 DEF Shows, Hidden
  <2>2. CASE ~(i > Len(list))
    <3>1. i \in 1..Len(list) /\ ~(i + 1 > Len(new)) BY <1>1, <1>2, <2>2
    <3>2. index = low + list[i] BY <1>6, <2>2 DEF Shows
    <3> QED BY <1>2, <3>1, <3>2 DEF Shows
  <2> QED BY <2>1, <2>2
<1>7. ASSUME NEW i \in 1..Len(new), low + new[i] + ChainSize >= n + 1
      PROVE  Shows(linked[(low + new[i]) % ChainSize], new, i + 1, low, n + 1)
  <2>1. CASE i = 1
    <3>1. low + new[i] = n BY <1>2, <2>1
    <3>2. Shows(head, new, 2, low, n + 1) BY <1>6 DEF ChainIn
    <3> QED BY <1>5, <2>1, <3>1, <3>2
  <2>2. CASE i # 1
    <3> DEFINE j == i - 1
               slot == (low + list[j]) % ChainSize
    <3>1. j \in 1..Len(list) /\ new[i] = list[j] /\ j + 1 = i BY <1>3, <2>2
    <3>2. low + list[j] \in Int /\ low + list[j] < n /\ n < (low + list[j]) + ChainSize
          /\ low + list[j] + ChainSize >= n
      <4>1. list[j] \in Nat /\ low + list[j] < n BY <1>1, <3>1
      <4>2. low + list[j] + ChainSize >= n + 1 BY <1>7, <3>1
      <4> HIDE DEF j
      <4> QED BY <4>1, <4>2
    <3>3. slot # n % ChainSize BY <3>2, Apart
    <3>4. linked[slot] = ring[slot] /\ ring[slot] \in Nat
      <4>1. list[j] \in Nat BY <1>1, <3>1
      <4>2. slot \in 0..(ChainSize - 1) /\ ring[slot] \in Nat BY <4>1, ChainLinks
      <4> QED BY <3>3, <4>2 DEF linked, Ring
    <3>5. Shows(ring[slot], list, j + 1, low, n) BY <3>1, <3>2 DEF ChainIn
    <3>6. Shows(ring[slot], new, i + 1, low, n + 1)
      <4>1. j + 1 \in Nat \ {0} BY <3>1
      <4> HIDE DEF j, slot
      <4> QED BY <1>6, <3>1, <3>4, <3>5, <4>1
    <3> QED BY <3>1, <3>4, <3>6
  <2> QED BY <2>1, <2>2
<1>8. Shows(n, new, 1, low, n + 1) BY <1>1, <1>2 DEF Shows
<1>9. ASSUME NEW i \in 1..Len(new) PROVE low + new[i] < n + 1
  <2>1. CASE i = 1 BY <1>2, <2>1
  <2>2. CASE i # 1
    <3>1. i - 1 \in 1..Len(list) /\ new[i] = list[i - 1] BY <1>3, <2>2
    <3>2. list[i - 1] \in Nat /\ low + list[i - 1] < n BY <1>1, <3>1
    <3> QED BY <3>1, <3>2
  <2> QED BY <2>1, <2>2
<1>10. ASSUME NEW i \in 1..Len(new), NEW j \in 1..Len(new), i < j PROVE new[j] < new[i]
  <2>1. j - 1 \in 1..Len(list) /\ new[j] = list[j - 1] BY <1>3, <1>10
  <2>2. CASE i = 1
    <3>1. list[j - 1] \in Nat /\ low + list[j - 1] < n BY <1>1, <2>1
    <3> QED BY <1>2, <2>1, <2>2, <3>1
  <2>3. CASE i # 1
    <3>1. i - 1 \in 1..Len(list) /\ new[i] = list[i - 1] /\ i - 1 < j - 1
      BY <1>3, <1>10, <2>3
    <3> QED BY <1>1, <2>1, <3>1
  <2> QED BY <2>2, <2>3
<1>11. ChainIn(n, linked, new, low, n + 1) BY <1>2, <1>7, <1>8, <1>9, <1>10 DEF ChainIn
<1> QED BY <1>11 DEF linked, new

\* It takes the slot of a link that nobody can have left.
LEMMA ChainBeside ==
  ASSUME ChainSize \in Nat \ {0}, Window \in Nat, NEW low \in Nat, NEW n \in Nat, NEW link \in Nat,
         NEW head \in Nat, NEW ring \in Ring, NEW list, ChainIn(head, ring, list, low, n)
  PROVE  ChainIn(head, [ring EXCEPT ![n % ChainSize] = link], list, low, n + 1)
<1> DEFINE linked == [ring EXCEPT ![n % ChainSize] = link]
<1>1. /\ list \in Seq(Nat) /\ Len(list) \in Nat
      /\ \A i \in 1..Len(list) : list[i] \in Nat /\ low + list[i] < n
      /\ \A i, j \in 1..Len(list) : i < j => list[j] < list[i]
  BY ChainList
<1>2. ASSUME NEW index \in Nat, NEW i \in Nat, Shows(index, list, i, low, n)
      PROVE  Shows(index, list, i, low, n + 1)
  BY <1>2 DEF Shows, Hidden
<1>3. ASSUME NEW i \in 1..Len(list), low + list[i] + ChainSize >= n + 1
      PROVE  Shows(linked[(low + list[i]) % ChainSize], list, i + 1, low, n + 1)
  <2> DEFINE slot == (low + list[i]) % ChainSize
  <2>1. low + list[i] \in Int /\ low + list[i] < n /\ n < (low + list[i]) + ChainSize
        /\ low + list[i] + ChainSize >= n
    BY <1>1, <1>3
  <2>2. slot # n % ChainSize BY <2>1, Apart
  <2>3. linked[slot] = ring[slot] /\ ring[slot] \in Nat
    <3>1. list[i] \in Nat BY <1>1
    <3>2. slot \in 0..(ChainSize - 1) /\ ring[slot] \in Nat BY <3>1, ChainLinks
    <3> QED BY <2>2, <3>2 DEF Ring
  <2>4. Shows(ring[slot], list, i + 1, low, n) BY <2>1 DEF ChainIn
  <2> HIDE DEF slot, linked
  <2>5. Shows(ring[slot], list, i + 1, low, n + 1) BY <1>2, <2>3, <2>4
  <2> QED BY <2>3, <2>5 DEF slot
<1>4. Shows(head, list, 1, low, n + 1) BY <1>2 DEF ChainIn
<1>5. \A i \in 1..Len(list) : low + list[i] < n + 1 BY <1>1
<1> HIDE DEF linked
<1>6. ChainIn(head, linked, list, low, n + 1) BY <1>1, <1>3, <1>4, <1>5 DEF ChainIn
<1> QED BY <1>6 DEF linked

\* What is dropped from a list is out of sight.
LEMMA ChainKept ==
  ASSUME ChainSize \in Nat \ {0}, Window \in Nat, NEW low \in Nat, NEW n \in Nat,
         NEW head \in Nat, NEW ring \in Ring, NEW list, ChainIn(head, ring, list, low, n + 1)
  PROVE  ChainIn(head, ring, Kept(list, n - low), low, n + 1)
<1> DEFINE new == Kept(list, n - low)
           p == n - low - Window
<1>1. /\ list \in Seq(Nat) /\ Len(list) \in Nat
      /\ \A i \in 1..Len(list) : list[i] \in Nat /\ low + list[i] < n + 1
      /\ \A i, j \in 1..Len(list) : i < j => list[j] < list[i]
  <2>1. n + 1 \in Nat OBVIOUS
  <2> QED BY <2>1, ChainList
<1>2. /\ new \in Seq(Nat) /\ Len(new) \in 0..Len(list)
      /\ \A i \in 1..Len(new) : new[i] = list[i]
      /\ \A i \in 1..Len(list) : i <= Len(new) <=> list[i] >= p
  <2>1. p \in Int /\ new = Newest(list, p) BY DEF Kept
  <2> HIDE DEF new, p
  <2> QED BY <1>1, <2>1, NewestAre
<1> HIDE DEF new
<1>3. ASSUME NEW index \in Nat, NEW i \in 1..(Len(new) + 1), Shows(index, list, i, low, n + 1)
      PROVE  Shows(index, new, i, low, n + 1)
  <2>1. CASE i <= Len(new) BY <1>1, <1>2, <1>3, <2>1 DEF Shows
  <2>2. CASE i > Len(new)
    <3>1. CASE i > Len(list) BY <1>3, <2>2, <3>1 DEF Shows
    <3>2. CASE ~(i > Len(list))
      <4>1. i \in 1..Len(list) /\ index = low + list[i] BY <1>1, <1>3, <3>2 DEF Shows
      <4>2. list[i] < p /\ list[i] \in Nat BY <1>1, <1>2, <2>2, <4>1
      <4>3. index + Window + 1 < n + 1 BY <4>1, <4>2
      <4> QED BY <2>2, <4>3 DEF Shows, Hidden
    <3> QED BY <3>1, <3>2
  <2> QED BY <1>2, <2>1, <2>2
<1>4. ASSUME NEW i \in 1..Len(new), low + new[i] + ChainSize >= n + 1
      PROVE  Shows(ring[(low + new[i]) % ChainSize], new, i + 1, low, n + 1)
  <2>1. i \in 1..Len(list) /\ new[i] = list[i] /\ i + 1 \in 1..(Len(new) + 1) BY <1>1, <1>2
  <2>2. Shows(ring[(low + list[i]) % ChainSize], list, i + 1, low, n + 1)
    BY <1>4, <2>1 DEF ChainIn
  <2>3. ring[(low + list[i]) % ChainSize] \in Nat BY <1>1, <2>1, ChainLinks
  <2> QED BY <1>3, <2>1, <2>2, <2>3
<1>5. Shows(head, new, 1, low, n + 1) BY <1>2, <1>3 DEF ChainIn
<1>6. \A i \in 1..Len(new) : i \in 1..Len(list) /\ new[i] = list[i] BY <1>1, <1>2
<1>7. \A i \in 1..Len(new) : low + new[i] < n + 1 BY <1>1, <1>6
<1>8. \A i, j \in 1..Len(new) : i < j => new[j] < new[i] BY <1>1, <1>6
<1>9. ChainIn(head, ring, new, low, n + 1) BY <1>2, <1>4, <1>5, <1>7, <1>8 DEF ChainIn
<1> QED BY <1>9 DEF new

----------------------------------------------------------------------------
(* Rows.                                                                   *)

RowType == [0..RowMask -> Entry]

LEMMA RowSize ==
  ASSUME RowsAssumption
  PROVE  RowMask \in Nat \ {0} /\ RowEntries = RowMask + 1 /\ RowEntries \in Nat \ {0}
BY DEF RowsAssumption, RowMask

LEMMA SlotsAre ==
  ASSUME RowsAssumption, NEW row \in RowType, HeadOf(row) <= RowMask, NEW k \in 1..RowMask
  PROVE  SlotAt(row, k) \in 1..RowMask /\ EntryAt(row, k) \in Entry
<1>1. RowMask \in Nat \ {0} /\ RowEntries = RowMask + 1 BY RowSize
<1>2. HeadOf(row) \in Nat BY <1>1 DEF HeadOf, RowType, Entry
<1>3. SlotAt(row, k) \in 1..RowMask BY <1>1, <1>2 DEF SlotAt
<1> QED BY <1>3 DEF EntryAt, RowType

\* The ring turns around the byte that is the head.
LEMMA NextSlotIs ==
  ASSUME RowsAssumption, NEW row \in RowType, HeadOf(row) <= RowMask
  PROVE  NextSlot(row) = IF HeadOf(row) <= 1 THEN RowMask ELSE HeadOf(row) - 1
<1> DEFINE head == HeadOf(row)
<1>1. RowMask \in Nat \ {0} /\ RowEntries = RowMask + 1 /\ RowEntries \in Nat \ {0} BY RowSize
<1>2. head \in Nat BY <1>1 DEF HeadOf, RowType, Entry
<1> HIDE DEF head
<1>3. CASE head = 0
  <2>1. head - 1 = RowEntries * (-1) + RowMask /\ RowMask \in 0..(RowEntries - 1) BY <1>1, <1>3
  <2>2. (RowEntries * (-1) + RowMask) % RowEntries = RowMask BY <1>1, <2>1, ModIs
  <2>3. (head - 1) % RowEntries = RowMask BY <2>1, <2>2
  <2> QED BY <1>1, <1>3, <2>3 DEF NextSlot, head
<1>4. CASE head # 0
  <2>1. head - 1 \in 0..(RowEntries - 1) BY <1>1, <1>2, <1>4 DEF head
  <2>2. (head - 1) % RowEntries = head - 1 BY <1>1, <2>1, Small
  <2>3. NextSlot(row) = IF head - 1 = 0 THEN RowMask ELSE head - 1 BY <2>2 DEF NextSlot, head
  <2> QED BY <1>2, <1>4, <2>3 DEF head
<1> QED BY <1>3, <1>4

\* What is known of the list of a row.
LEMMA RowList ==
  ASSUME RowsAssumption, NEW low \in Nat, NEW n \in Nat, NEW row \in RowType, NEW list, RowIn(row, list, low, n)
  PROVE  /\ list \in Seq(Nat \X Nat) /\ Len(list) \in 0..RowMask
         /\ \A i \in 1..Len(list) :
              list[i] \in Nat \X Nat /\ list[i][1] \in Nat /\ list[i][2] \in Nat
              /\ low + list[i][1] < n
         /\ \A i, j \in 1..Len(list) : i < j => list[j][1] < list[i][1]
<1>1. list \in Seq(Nat \X Nat) /\ Len(list) \in 0..RowMask
  BY RowSize DEF RowIn
<1>2. \A i \in 1..Len(list) : list[i] \in Nat \X Nat BY <1>1
<1> QED BY <1>1, <1>2 DEF RowIn

LEMMA RowLater ==
  ASSUME RowsAssumption, NEW low \in Nat, NEW n \in Nat, NEW m \in Nat, n <= m,
         NEW row \in RowType, NEW list, RowIn(row, list, low, n)
  PROVE  RowIn(row, list, low, m)
<1>1. \A i \in 1..Len(list) : list[i][1] \in Nat /\ low + list[i][1] < n BY RowList
<1>2. \A i \in 1..Len(list) : low + list[i][1] < m BY <1>1
<1> QED BY <1>2 DEF RowIn

\* What an earlier frame left in a row is no position.
LEMMA NoRow ==
  ASSUME RowsAssumption, NEW low \in Nat, NEW n \in Nat, NEW row \in RowType, HeadOf(row) <= RowMask,
         \A s \in 0..RowMask : row[s].index < low
  PROVE  RowIn(row, <<>>, low, n)
<1>1. \A k \in 1..RowMask : EntryAt(row, k).index < low
  <2>1. ASSUME NEW k \in 1..RowMask PROVE EntryAt(row, k).index < low
    <3>1. SlotAt(row, k) \in 0..RowMask BY SlotsAre, RowSize
    <3> QED BY <3>1 DEF EntryAt
  <2> QED BY <2>1
<1>2. Len(<<>>) = 0 /\ <<>> \in Seq(Nat \X Nat) /\ 0 <= RowMask BY RowSize
<1>3. \A k \in 1..RowMask : ~(k <= Len(<<>>)) BY <1>2, RowSize
<1> QED BY <1>1, <1>2, <1>3 DEF RowIn

LEMMA RowRebased ==
  ASSUME RowsAssumption, NEW b \in Nat, NEW bias \in Nat \ {0}, NEW n \in Nat, b + bias <= n,
         NEW row \in RowType, NEW list, RowIn(row, list, b + bias, n),
         NEW R, R = [index \in Nat |-> IF index >= b + bias THEN index - b ELSE 0]
  PROVE  RowIn([s \in 0..RowMask |-> [tag |-> row[s].tag, index |-> R[row[s].index]]],
               list, bias, n - b)
<1> DEFINE low == b + bias
           moved == [s \in 0..RowMask |-> [tag |-> row[s].tag, index |-> R[row[s].index]]]
<1>0. low \in Nat /\ HeadOf(row) <= RowMask BY DEF RowIn
<1>1. /\ list \in Seq(Nat \X Nat) /\ Len(list) \in 0..RowMask
      /\ \A i \in 1..Len(list) : list[i][1] \in Nat /\ low + list[i][1] < n
  <2> HIDE DEF low
  <2> QED BY <1>0, RowList DEF low
<1>2. HeadOf(moved) = HeadOf(row)
  <2>1. 0 \in 0..RowMask BY RowSize
  <2> QED BY <2>1 DEF HeadOf
<1>3. ASSUME NEW k \in 1..RowMask
      PROVE  IF k <= Len(list)
             THEN EntryAt(moved, k).tag = list[k][2] /\ EntryAt(moved, k).index = bias + list[k][1]
             ELSE EntryAt(moved, k).index < bias
  <2> DEFINE s == SlotAt(row, k)
  <2>1. s \in 1..RowMask /\ row[s] \in Entry /\ EntryAt(row, k) = row[s]
    BY <1>0, SlotsAre DEF EntryAt
  <2>2. SlotAt(moved, k) = s BY <1>2 DEF SlotAt
  <2>3. s \in 0..RowMask BY <2>1, RowSize
  <2>4. EntryAt(moved, k) = [tag |-> row[s].tag, index |-> R[row[s].index]]
    BY <2>2, <2>3 DEF EntryAt
  <2>5. row[s].index \in Nat BY <2>1 DEF Entry
  <2>6. IF k <= Len(list)
        THEN row[s].tag = list[k][2] /\ row[s].index = low + list[k][1]
        ELSE row[s].index < low
    BY <2>1 DEF RowIn
  <2> HIDE DEF s, moved
  <2>7. CASE k <= Len(list)
    <3>1. k \in 1..Len(list) /\ list[k][1] \in Nat BY <1>1, <2>7
    <3>2. R[row[s].index] = bias + list[k][1] BY <2>5, <2>6, <2>7, <3>1
    <3> QED BY <2>4, <2>6, <2>7, <3>2
  <2>8. CASE ~(k <= Len(list))
    <3>1. R[row[s].index] = 0 BY <2>5, <2>6, <2>8
    <3> QED BY <2>4, <2>8, <3>1
  <2> QED BY <2>7, <2>8
<1>4. \A i \in 1..Len(list) : bias + list[i][1] < n - b BY <1>1
<1> HIDE DEF moved
<1>5. RowIn(moved, list, bias, n - b) BY <1>2, <1>3, <1>4 DEF RowIn
<1> QED BY <1>5 DEF moved

\* A position goes before the others, in place of the oldest entry of the ring.
LEMMA RowGrown ==
  ASSUME RowsAssumption, NEW low \in Nat, NEW n \in Nat, NEW p \in Nat, n <= low + p, NEW tag \in Nat,
         NEW row \in RowType, NEW list, RowIn(row, list, low, n)
  PROVE  /\ Inserted(row, tag, low + p) \in RowType
         /\ RowIn(Inserted(row, tag, low + p),
                  SubSeq(<<<<p, tag>>>> \o list, 1, Smaller(Len(list) + 1, RowMask)),
                  low, low + p + 1)
<1> DEFINE new == Inserted(row, tag, low + p)
           all == <<<<p, tag>>>> \o list
           count == Smaller(Len(list) + 1, RowMask)
           kept == SubSeq(all, 1, count)
           head == HeadOf(row)
           slot == NextSlot(row)
<1>0. RowMask \in Nat \ {0} /\ RowEntries = RowMask + 1 BY RowSize
<1>1. /\ list \in Seq(Nat \X Nat) /\ Len(list) \in 0..RowMask
      /\ \A i \in 1..Len(list) : list[i][1] \in Nat /\ low + list[i][1] < n
      /\ \A i, j \in 1..Len(list) : i < j => list[j][1] < list[i][1]
  BY RowList
<1>2. head \in 0..RowMask /\ (head = 0 => list = <<>>)
  BY <1>0 DEF HeadOf, RowType, Entry, RowIn
<1>3. slot = (IF head <= 1 THEN RowMask ELSE head - 1) /\ slot \in 1..RowMask
  <2>1. HeadOf(row) <= RowMask BY <1>0, <1>2
  <2>2. slot = IF head <= 1 THEN RowMask ELSE head - 1 BY <2>1, NextSlotIs
  <2> HIDE DEF slot, head
  <2> QED BY <1>0, <1>2, <2>2
<1>4. /\ count \in 1..RowMask /\ count <= Len(list) + 1
      /\ kept \in Seq(Nat \X Nat) /\ Len(kept) = count /\ kept[1] = <<p, tag>>
      /\ \A i \in 2..count : kept[i] = list[i - 1]
  <2>1. count \in 1..RowMask /\ count <= Len(list) + 1 BY <1>0, <1>1 DEF Smaller
  <2>2. /\ all \in Seq(Nat \X Nat) /\ Len(all) = Len(list) + 1 /\ all[1] = <<p, tag>>
        /\ \A i \in 2..(Len(list) + 1) : all[i] = list[i - 1]
    BY <1>1
  <2> HIDE DEF all, count
  <2>3. Len(kept) = count /\ kept \in Seq(Nat \X Nat) /\ \A i \in 1..count : kept[i] = all[i]
    BY <1>0, <1>1, <2>1, <2>2
  <2> QED BY <1>0, <1>1, <2>1, <2>2, <2>3
<1> HIDE DEF kept, count, all, slot, head
<1>5. /\ new \in RowType /\ HeadOf(new) = slot
      /\ new[slot] = [tag |-> tag, index |-> low + p]
      /\ \A s \in 1..RowMask : s # slot => new[s] = row[s]
  <2>1. 0 \in 0..RowMask /\ slot \in 0..RowMask /\ slot # 0 /\ slot \in Nat BY <1>0, <1>3
  <2>2. new = [row EXCEPT ![0].tag = slot, ![slot] = [tag |-> tag, index |-> low + p]]
    BY DEF Inserted, slot
  <2>3. [tag |-> tag, index |-> low + p] \in Entry BY DEF Entry
  <2>4. row[0] \in Entry /\ [row[0] EXCEPT !.tag = slot] \in Entry
        /\ [row[0] EXCEPT !.tag = slot].tag = slot
    BY <2>1 DEF RowType, Entry
  <2>5. new \in RowType BY <2>1, <2>2, <2>3, <2>4 DEF RowType
  <2>6. new[0] = [row[0] EXCEPT !.tag = slot] BY <2>1, <2>2 DEF RowType
  <2>7. HeadOf(new) = slot BY <2>4, <2>6 DEF HeadOf
  <2>8. new[slot] = [tag |-> tag, index |-> low + p] BY <2>1, <2>2 DEF RowType
  <2>9. ASSUME NEW s \in 1..RowMask, s # slot PROVE new[s] = row[s]
    <3>1. s \in 0..RowMask /\ s # 0 BY <1>0
    <3> QED BY <2>1, <2>2, <2>9, <3>1 DEF RowType
  <2> QED BY <2>5, <2>7, <2>8, <2>9
<1> HIDE DEF new
<1>6. \A k \in 1..RowMask : SlotAt(row, k) \in 1..RowMask
  BY <1>0, <1>2 DEF SlotAt, head
<1>7. SlotAt(new, 1) = slot BY <1>0, <1>3, <1>5 DEF SlotAt
<1>8. ASSUME NEW k \in 2..RowMask
      PROVE  /\ SlotAt(new, k) # slot /\ SlotAt(new, k) \in 1..RowMask
             /\ head # 0 => SlotAt(new, k) = SlotAt(row, k - 1)
             /\ head = 0 => SlotAt(new, k) = k - 1 /\ SlotAt(row, k - 1) = k - 1
  <2>1. SlotAt(new, k) = IF slot + k - 1 <= RowMask THEN slot + k - 1 ELSE slot + k - 1 - RowMask
    BY <1>0, <1>3, <1>5 DEF SlotAt
  <2>2. SlotAt(row, k - 1) =
          IF head = 0 THEN k - 1
          ELSE IF head + (k - 1) - 1 <= RowMask THEN head + (k - 1) - 1
               ELSE head + (k - 1) - 1 - RowMask
    BY <1>0, <1>2 DEF SlotAt, head
  <2> QED BY <1>0, <1>2, <1>3, <2>1, <2>2
<1>9. ASSUME NEW k \in 2..RowMask PROVE EntryAt(new, k) = EntryAt(row, k - 1)
  <2>1. SlotAt(new, k) = SlotAt(row, k - 1) BY <1>2, <1>8
  <2> QED BY <1>5, <1>8, <2>1 DEF EntryAt
<1>10. ASSUME NEW k \in 1..RowMask
       PROVE  IF k <= count
              THEN EntryAt(new, k).tag = kept[k][2] /\ EntryAt(new, k).index = low + kept[k][1]
              ELSE EntryAt(new, k).index < low
  <2>1. CASE k = 1
    <3>1. EntryAt(new, k) = [tag |-> tag, index |-> low + p] BY <1>5, <1>7, <2>1 DEF EntryAt
    <3> QED BY <1>0, <1>4, <2>1, <3>1
  <2>2. CASE k # 1
    <3>1. k \in 2..RowMask /\ k - 1 \in 1..RowMask BY <1>0, <2>2
    <3>2. EntryAt(new, k) = EntryAt(row, k - 1) BY <1>9, <3>1
    <3>3. IF k - 1 <= Len(list)
          THEN /\ EntryAt(row, k - 1).tag = list[k - 1][2]
               /\ EntryAt(row, k - 1).index = low + list[k - 1][1]
          ELSE EntryAt(row, k - 1).index < low
      BY <3>1 DEF RowIn
    <3>4. CASE k <= count
      <4>0. k \in 2..count BY <1>0, <1>4, <3>1, <3>4
      <4>1. kept[k] = list[k - 1] BY <1>4, <4>0
      <4>2. k - 1 <= Len(list)
        <5>1. Len(list) \in Nat /\ count \in Nat /\ count <= Len(list) + 1 BY <1>0, <1>1, <1>4
        <5> QED BY <3>1, <3>4, <5>1
      <4> QED BY <3>2, <3>3, <3>4, <4>1, <4>2
    <3>5. CASE ~(k <= count)
      <4>1. ~(k - 1 <= Len(list)) BY <1>0, <1>1, <3>1, <3>5 DEF count, Smaller
      <4> QED BY <3>2, <3>3, <3>5, <4>1
    <3> QED BY <3>4, <3>5
  <2> QED BY <2>1, <2>2
<1>11. ASSUME NEW i \in 1..count
       PROVE  /\ i = 1 => kept[i][1] = p
              /\ i # 1 => i - 1 \in 1..Len(list) /\ kept[i] = list[i - 1]
  <2>1. CASE i = 1 BY <1>4, <2>1
  <2>2. CASE i # 1
    <3>1. i \in 2..count /\ i - 1 \in 1..Len(list) BY <1>0, <1>1, <1>4, <2>2
    <3> QED BY <1>4, <2>2, <3>1
  <2> QED BY <2>1, <2>2
<1>12. ASSUME NEW i \in 1..count PROVE low + kept[i][1] < low + p + 1
  <2>1. CASE i = 1 BY <1>11, <2>1
  <2>2. CASE i # 1
    <3>1. kept[i] = list[i - 1] /\ list[i - 1][1] \in Nat /\ low + list[i - 1][1] < n
      BY <1>1, <1>11, <2>2
    <3> QED BY <3>1
  <2> QED BY <2>1, <2>2
<1>13. ASSUME NEW i \in 1..count, NEW j \in 1..count, i < j PROVE kept[j][1] < kept[i][1]
  <2>1. j # 1 BY <1>13
  <2>2. /\ j - 1 \in 1..Len(list) /\ kept[j] = list[j - 1] /\ list[j - 1][1] \in Nat
        /\ low + list[j - 1][1] < n
    BY <1>1, <1>11, <2>1
  <2>3. CASE i = 1 BY <1>11, <2>2, <2>3
  <2>4. CASE i # 1
    <3>1. i - 1 \in 1..Len(list) /\ kept[i] = list[i - 1] BY <1>11, <2>4
    <3>2. i - 1 < j - 1 BY <1>13
    <3> QED BY <1>1, <2>2, <3>1, <3>2
  <2> QED BY <2>3, <2>4
<1>14. HeadOf(new) <= RowMask /\ HeadOf(new) # 0 /\ Len(kept) <= RowMask BY <1>0, <1>3, <1>4, <1>5
<1>15. RowIn(new, kept, low, low + p + 1)
  BY <1>4, <1>10, <1>12, <1>13, <1>14 DEF RowIn
<1> QED BY <1>5, <1>15 DEF new, kept, all, count

----------------------------------------------------------------------------
(* The invariant is kept.  First the tables, then the parser.              *)

LEMMA Shape ==
  ASSUME TypeOK
  PROVE  /\ parser.rows \in BOOLEAN /\ LookAhead \in 0..2
         /\ Bias \in {1, 2} /\ FrameLow \in Nat /\ FrameLow = base + Bias
         /\ CacheSize \in Nat \ {0} /\ Window \in Nat \ {0} /\ ChainSize \in Nat \ {0}
         /\ MinMatch \in Nat /\ MinMatch >= 4 /\ ReadSize \in Nat /\ ReadSize >= MinMatch
         /\ MaxIndex \in Nat /\ TailUpdates \in Nat \ {0} /\ CacheSize <= TailUpdates + 2
         /\ Reach = (IF parser.rows THEN ReadSize + CacheSize ELSE ReadSize) /\ Reach \in Nat
         /\ Limit \in Int /\ Limit = end - Reach
<1>1. parser \in [rows : BOOLEAN, lookAhead : {0, 1, 2}] BY ConstantsAssumption DEF TypeOK
<1>2. CacheSize \in Nat \ {0} BY RowsAssumption
<1>3. /\ Window \in Nat \ {0} /\ ChainSize \in Nat \ {0}
      /\ MinMatch \in Nat /\ MinMatch >= 4 /\ ReadSize \in Nat /\ ReadSize >= MinMatch
      /\ MaxIndex \in Nat /\ TailUpdates \in Nat \ {0} /\ CacheSize <= TailUpdates + 2
  BY ConstantsAssumption
<1>4. base \in Nat /\ end \in Nat BY DEF TypeOK
<1>5. Bias \in {1, 2} BY DEF Bias
<1>6. FrameLow \in Nat /\ FrameLow = base + Bias BY <1>4, <1>5 DEF FrameLow
<1>7. Reach = (IF parser.rows THEN ReadSize + CacheSize ELSE ReadSize) /\ Reach \in Nat
  BY <1>2, <1>3 DEF Reach
<1>8. Limit \in Int /\ Limit = end - Reach BY <1>4, <1>7 DEF Limit
<1> QED BY <1>1, <1>2, <1>3, <1>5, <1>6, <1>7, <1>8 DEF LookAhead

LEMMA ParserKept ==
  ASSUME parser' = parser
  PROVE  Bias' = Bias /\ Reach' = Reach /\ LookAhead' = LookAhead
BY DEF Bias, Reach, LookAhead

LEMMA HashIs ==
  ASSUME NEW hash \in Hashes
  PROVE  hash[1] \in Rows /\ hash[1] \in Nat /\ hash[2] \in Nat
BY ConstantsAssumption DEF Rows

\* What is recorded stays, though the next position to record moves on.
LEMMA TablesKept ==
  ASSUME IInv, UNCHANGED <<parser, base, heads, links, cells, recorded, written>>,
         next' \in Nat, next <= next'
  PROVE  OldIndexes' /\ Chained' /\ InRows'
<1>1. /\ next \in Nat /\ heads \in [Buckets -> Nat] /\ links \in Ring /\ cells \in [Rows -> RowType]
  BY DEF IInv, TypeOK, Ring, RowType
<1>2. FrameLow' = FrameLow BY ParserKept DEF FrameLow
<1>3. FrameLow \in Nat /\ ChainSize \in Nat \ {0} /\ Window \in Nat BY Shape DEF IInv
<1>4. OldIndexes'
  <2>1. ASSUME NEW row \in Rows, NEW slot \in 0..RowMask
        PROVE  cells[row][slot].index \in Nat
    BY <1>1 DEF RowType, Entry
  <2>2. \A s \in 0..(ChainSize - 1) : links[s] \in Nat BY <1>1 DEF Ring
  <2> QED BY <1>1, <2>1, <2>2 DEF IInv, OldIndexes
<1>5. Chained'
  <2>1. ASSUME NEW b \in Buckets
        PROVE  ChainIn(heads[b], links, recorded[b], FrameLow, next')
    <3>1. ChainIn(heads[b], links, recorded[b], FrameLow, next) BY DEF IInv, Chained
    <3>2. heads[b] \in Nat BY <1>1
    <3> QED BY <1>1, <1>3, <3>1, <3>2, ChainLater
  <2> QED BY <1>2, <2>1 DEF Chained
<1>6. InRows'
  <2>1. ASSUME NEW row \in Rows
        PROVE  RowIn(cells[row], written[row], FrameLow, next')
    <3>1. RowIn(cells[row], written[row], FrameLow, next) BY DEF IInv, InRows
    <3>2. cells[row] \in RowType BY <1>1
    <3> QED BY <1>1, <1>3, <3>1, <3>2, RowLater, RowsAssumption
  <2>2. Rows' = Rows BY DEF Rows
  <2> QED BY <1>2, <2>1 DEF InRows
<1> QED BY <1>4, <1>5, <1>6

\* Room for indexes: recording goes on at n, wherever the indexes are moved to.
LEMMA HeadroomKeeps ==
  ASSUME IInv, NEW e \in Nat, Headroom(e), parser' = parser,
         NEW n \in Nat, next <= n, next' = Moved(n, e)
  PROVE  /\ base' \in Nat /\ next' \in Nat
         /\ heads' \in [Buckets -> Nat] /\ links' \in Ring /\ cells' \in [Rows -> RowType]
         /\ recorded' = recorded /\ written' = written
         /\ OldIndexes' /\ Chained' /\ InRows'
         /\ base + Bias <= n /\ next' - base' = n - base
         /\ base' = IF HasRoom(e) THEN base ELSE 0
<1>1. /\ base \in Nat /\ next \in Nat /\ heads \in [Buckets -> Nat] /\ links \in Ring
      /\ cells \in [Rows -> RowType]
  BY DEF IInv, TypeOK, Ring, RowType
<1>2. Bias \in {1, 2} /\ Bias' = Bias /\ FrameLow \in Nat /\ FrameLow = base + Bias
      /\ ChainSize \in Nat \ {0} /\ Window \in Nat
  BY Shape, ParserKept DEF IInv
<1>3. base + Bias <= next BY DEF IInv, Course
<1>4. recorded' = recorded /\ written' = written BY DEF Headroom
<1>5. CASE HasRoom(e)
  <2>1. UNCHANGED <<base, heads, links, cells>> /\ next' = n BY <1>5 DEF Headroom, Moved
  <2>2. OldIndexes' /\ Chained' /\ InRows' BY <1>4, <2>1, TablesKept
  <2> QED BY <1>1, <1>2, <1>3, <1>4, <1>5, <2>1, <2>2
<1>6. CASE ~HasRoom(e)
  <2> DEFINE R == [index \in Nat |-> IF index >= base + Bias THEN index - base ELSE 0]
  <2>0. \A index \in Nat : Rebased(index) = R[index] /\ R[index] \in Nat
    BY <1>1, <1>2 DEF Rebased
  <2>1. next' = n - base /\ next' \in Nat
    BY <1>1, <1>2, <1>3, <1>6 DEF Moved, Rebased, Larger
  <2>2. base' = 0 /\ FrameLow' = Bias BY <1>2, <1>6 DEF Headroom, FrameLow
  <2>3. heads' = [b \in Buckets |-> R[heads[b]]]
    <3>1. heads' = [b \in Buckets |-> Rebased(heads[b])] BY <1>6 DEF Headroom
    <3>2. \A b \in Buckets : Rebased(heads[b]) = R[heads[b]] BY <1>1, <2>0
    <3> HIDE DEF R
    <3> QED BY <3>1, <3>2
  <2>4. links' = [s \in 0..(ChainSize - 1) |-> R[links[(s + base) % ChainSize]]]
    <3>1. links' = [s \in 0..(ChainSize - 1) |-> Rebased(links[Slot(s + base)])]
      <4>1. links' = Rotated BY <1>6 DEF Headroom
      <4>2. DOMAIN links = 0..(ChainSize - 1) BY <1>1 DEF Ring
      <4> QED BY <4>1, <4>2 DEF Rotated
    <3>2. ASSUME NEW s \in 0..(ChainSize - 1)
          PROVE  Rebased(links[Slot(s + base)]) = R[links[(s + base) % ChainSize]]
      <4>1. s + base \in Int BY <1>1, <1>2
      <4>2. (s + base) % ChainSize \in 0..(ChainSize - 1) BY <1>2, <4>1, InRing
      <4>3. links[(s + base) % ChainSize] \in Nat BY <1>1, <4>2 DEF Ring
      <4> HIDE DEF R
      <4> QED BY <2>0, <4>3 DEF Slot
    <3> HIDE DEF R
    <3> QED BY <3>1, <3>2
  <2>5. cells' = [row \in Rows |-> [s \in 0..RowMask |->
                    [tag |-> cells[row][s].tag, index |-> R[cells[row][s].index]]]]
    <3>1. cells' = [row \in Rows |-> [s \in DOMAIN cells[row] |->
                      [cells[row][s] EXCEPT !.index = Rebased(@)]]]
      BY <1>6 DEF Headroom
    <3>2. ASSUME NEW row \in Rows
          PROVE  DOMAIN cells[row] = 0..RowMask
                 /\ \A s \in 0..RowMask :
                      [cells[row][s] EXCEPT !.index = Rebased(@)]
                        = [tag |-> cells[row][s].tag, index |-> R[cells[row][s].index]]
      <4>1. cells[row] \in RowType BY <1>1
      <4>2. ASSUME NEW s \in 0..RowMask
            PROVE  [cells[row][s] EXCEPT !.index = Rebased(@)]
                     = [tag |-> cells[row][s].tag, index |-> R[cells[row][s].index]]
        <5>1. cells[row][s] \in Entry /\ cells[row][s].index \in Nat BY <4>1 DEF RowType, Entry
        <5>2. Rebased(cells[row][s].index) = R[cells[row][s].index] BY <2>0, <5>1
        <5> HIDE DEF R
        <5> QED BY <5>1, <5>2 DEF Entry
      <4> HIDE DEF R
      <4> QED BY <4>1, <4>2 DEF RowType
    <3> HIDE DEF R
    <3> QED BY <3>1, <3>2
  <2>6. heads' \in [Buckets -> Nat]
    <3>1. \A b \in Buckets : R[heads[b]] \in Nat BY <1>1, <2>0
    <3> HIDE DEF R
    <3> QED BY <2>3, <3>1
  <2>7. links' \in Ring
    <3>1. ASSUME NEW s \in 0..(ChainSize - 1) PROVE R[links[(s + base) % ChainSize]] \in Nat
      <4>1. s + base \in Int BY <1>1, <1>2
      <4>2. (s + base) % ChainSize \in 0..(ChainSize - 1) BY <1>2, <4>1, InRing
      <4>3. links[(s + base) % ChainSize] \in Nat BY <1>1, <4>2 DEF Ring
      <4> HIDE DEF R
      <4> QED BY <2>0, <4>3
    <3> HIDE DEF R
    <3> QED BY <2>4, <3>1 DEF Ring
  <2>8. cells' \in [Rows -> RowType]
    <3>1. ASSUME NEW row \in Rows, NEW s \in 0..RowMask
          PROVE  [tag |-> cells[row][s].tag, index |-> R[cells[row][s].index]] \in Entry
      <4>1. cells[row][s] \in Entry BY <1>1 DEF RowType
      <4>2. R[cells[row][s].index] \in Nat BY <2>0, <4>1 DEF Entry
      <4> HIDE DEF R
      <4> QED BY <4>1, <4>2 DEF Entry
    <3> HIDE DEF R
    <3> QED BY <2>5, <3>1 DEF RowType
  <2>9. ASSUME NEW index \in Nat, index < next PROVE R[index] < next'
    BY <1>1, <1>2, <1>3, <2>1, <2>9
  <2>10. OldIndexes'
    <3>1. \A b \in Buckets : heads[b] \in Nat /\ heads[b] < next BY <1>1 DEF IInv, OldIndexes
    <3>2. ASSUME NEW s \in 0..(ChainSize - 1)
          PROVE  links[(s + base) % ChainSize] \in Nat /\ links[(s + base) % ChainSize] < next
      <4>1. s + base \in Int BY <1>1, <1>2
      <4>2. (s + base) % ChainSize \in 0..(ChainSize - 1) BY <1>2, <4>1, InRing
      <4> QED BY <1>1, <4>2 DEF Ring, IInv, OldIndexes
    <3>3. \A row \in Rows, s \in 0..RowMask :
            cells[row][s].index \in Nat /\ cells[row][s].index < next
      BY <1>1 DEF RowType, Entry, IInv, OldIndexes
    <3> HIDE DEF R
    <3>4. \A b \in Buckets : heads'[b] < next' BY <2>3, <2>9, <3>1
    <3>5. \A s \in 0..(ChainSize - 1) : links'[s] < next' BY <2>4, <2>9, <3>2
    <3>6. \A row \in Rows, s \in 0..RowMask : cells'[row][s].index < next'
      BY <2>5, <2>9, <3>3
    <3> QED BY <3>4, <3>5, <3>6 DEF OldIndexes, Rows, RowMask
  <2>11. Bias \in Nat \ {0} /\ base + Bias <= n BY <1>1, <1>2, <1>3
  <2>12. Chained'
    <3>1. ASSUME NEW b \in Buckets
          PROVE  ChainIn(heads'[b], links', recorded[b], Bias, next')
      <4>1. ChainIn(heads[b], links, recorded[b], base + Bias, next)
        BY <1>2 DEF IInv, Chained
      <4>2. heads[b] \in Nat /\ base + Bias \in Nat BY <1>1, <1>2
      <4>3. ChainIn(heads[b], links, recorded[b], base + Bias, n)
        BY <1>1, <1>2, <4>1, <4>2, ChainLater
      <4>4. heads'[b] = R[heads[b]]
        <5> HIDE DEF R
        <5> QED BY <2>3
      <4> DEFINE moved == [s \in 0..(ChainSize - 1) |-> R[links[(s + base) % ChainSize]]]
      <4>5. ChainIn(R[heads[b]], moved, recorded[b], Bias, n - base)
        BY <1>1, <1>2, <2>11, <4>2, <4>3, ChainRebased
      <4> HIDE DEF R
      <4> QED BY <2>1, <2>4, <4>4, <4>5
    <3> QED BY <1>4, <2>2, <3>1 DEF Chained
  <2>13. InRows'
    <3>1. ASSUME NEW row \in Rows
          PROVE  RowIn(cells'[row], written[row], Bias, next')
      <4>1. RowIn(cells[row], written[row], base + Bias, next)
        BY <1>2 DEF IInv, InRows
      <4>2. cells[row] \in RowType /\ base + Bias \in Nat BY <1>1, <1>2
      <4>3. RowIn(cells[row], written[row], base + Bias, n)
        BY <1>1, <4>1, <4>2, RowLater, RowsAssumption
      <4> DEFINE moved == [s \in 0..RowMask |->
                             [tag |-> cells[row][s].tag, index |-> R[cells[row][s].index]]]
      <4>4. RowIn(moved, written[row], Bias, n - base)
        BY <1>1, <2>11, <4>2, <4>3, RowRebased, RowsAssumption
      <4>5. cells'[row] = moved
        <5> HIDE DEF R
        <5> QED BY <2>5
      <4> HIDE DEF moved
      <4> QED BY <2>1, <4>4, <4>5
    <3>2. Rows' = Rows BY DEF Rows
    <3> QED BY <1>4, <2>2, <3>1, <3>2 DEF InRows
  <2> HIDE DEF R
  <2> QED BY <1>1, <1>2, <1>3, <1>4, <1>6, <2>1, <2>2, <2>6, <2>7, <2>8, <2>10, <2>12, <2>13
<1> QED BY <1>5, <1>6

----------------------------------------------------------------------------
(* The cache of the rows.                                                  *)

\* What fill leaves: the hashes from `from` on, and behind `last` what was there.
LEMMA FilledIs ==
  ASSUME RowsAssumption, NEW c \in [0..(CacheSize - 1) -> Int], NEW from \in Int, NEW last \in Int
  PROVE  /\ Filled(c, from, last) \in [0..(CacheSize - 1) -> Int]
         /\ \A k \in 0..(CacheSize - 1) :
              from + k <= last => Filled(c, from, last)[(from + k) % CacheSize] = from + k
         /\ \A s \in 0..(CacheSize - 1) :
              Filled(c, from, last)[s] <= last \/ Filled(c, from, last)[s] = c[s]
<1> DEFINE new == Filled(c, from, last)
           At(s) == from + ((s - from) % CacheSize)
<1>1. CacheSize \in Nat \ {0} BY DEF RowsAssumption
<1>2. new = [s \in 0..(CacheSize - 1) |-> IF At(s) <= last THEN At(s) ELSE c[s]] BY DEF Filled
<1>3. ASSUME NEW s \in 0..(CacheSize - 1) PROVE At(s) \in Int
  <2>1. s - from \in Int OBVIOUS
  <2>2. (s - from) % CacheSize \in 0..(CacheSize - 1) BY <1>1, <2>1, InRing
  <2> QED BY <2>2
<1>4. ASSUME NEW k \in 0..(CacheSize - 1)
      PROVE  (from + k) % CacheSize \in 0..(CacheSize - 1) /\ At((from + k) % CacheSize) = from + k
  <2>1. from + k \in Int /\ -from \in Int /\ (from + k) + (-from) = k OBVIOUS
  <2>2. (from + k) % CacheSize \in 0..(CacheSize - 1) BY <1>1, <2>1, InRing
  <2> DEFINE r == (from + k) % CacheSize
             q == from + k
  <2>3. (r + (-from)) % CacheSize = (q + (-from)) % CacheSize
    <3>1. q \in Int BY <2>1
    <3> HIDE DEF q
    <3>2. ((q % CacheSize) + (-from)) % CacheSize = (q + (-from)) % CacheSize
      BY <1>1, <2>1, <3>1, Reduced
    <3> QED BY <3>2 DEF q
  <2>4. (q + (-from)) % CacheSize = k BY <1>1, <2>1, Small
  <2>5. r - from = r + (-from)
    <3> HIDE DEF r
    <3> QED BY <2>2 DEF r
  <2>6. (r - from) % CacheSize = k BY <2>3, <2>4, <2>5
  <2> QED BY <2>2, <2>6
<1> HIDE DEF At
<1>5. new \in [0..(CacheSize - 1) -> Int] BY <1>2, <1>3
<1>6. \A k \in 0..(CacheSize - 1) : from + k <= last => new[(from + k) % CacheSize] = from + k
  BY <1>2, <1>4
<1>7. \A s \in 0..(CacheSize - 1) : new[s] <= last \/ new[s] = c[s] BY <1>2
<1> QED BY <1>5, <1>6, <1>7

\* A hash that is taken leaves the next ones, and the one CacheSize ahead.
LEMMA AdvancedIs ==
  ASSUME RowsAssumption, NEW c \in [0..(CacheSize - 1) -> Int], NEW at \in Int, NEW last \in Int,
         \A k \in 0..(CacheSize - 1) : at + k <= last => c[(at + k) % CacheSize] = at + k
  PROVE  /\ Advanced(c, at) \in [0..(CacheSize - 1) -> Int]
         /\ \A k \in 0..(CacheSize - 1) :
              at + 1 + k <= last => Advanced(c, at)[(at + 1 + k) % CacheSize] = at + 1 + k
         /\ \A s \in 0..(CacheSize - 1) :
              Advanced(c, at)[s] = at + CacheSize \/ Advanced(c, at)[s] = c[s]
<1> DEFINE new == Advanced(c, at)
           r == at % CacheSize
<1>1. CacheSize \in Nat \ {0} BY DEF RowsAssumption
<1>2. r \in 0..(CacheSize - 1) BY <1>1, InRing
<1>3. new = [c EXCEPT ![r] = at + CacheSize] BY DEF Advanced
<1>4. ASSUME NEW k \in 0..(CacheSize - 1), at + 1 + k <= last
      PROVE  new[(at + 1 + k) % CacheSize] = at + 1 + k
  <2>1. CASE k = CacheSize - 1
    <3> DEFINE q == at + 1 + k
    <3>1. q = at + CacheSize /\ q \in Int BY <1>1, <2>1
    <3>2. q % CacheSize = r
      <4>1. PICK d \in Int, e \in 0..(CacheSize - 1) : at = CacheSize * d + e /\ r = e
        BY <1>1, Division
      <4>2. q = CacheSize * (d + 1) + e /\ d + 1 \in Int BY <1>1, <3>1, <4>1
      <4>3. (CacheSize * (d + 1) + e) % CacheSize = e BY <1>1, <4>2, ModIs
      <4> QED BY <4>1, <4>2, <4>3
    <3> HIDE DEF r, q
    <3>3. new[q % CacheSize] = q BY <1>2, <1>3, <3>1, <3>2
    <3> QED BY <3>3 DEF q
  <2>2. CASE k # CacheSize - 1
    <3> DEFINE q == at + (k + 1)
    <3>1. k + 1 \in 0..(CacheSize - 1) /\ q = at + 1 + k /\ q \in Int /\ at < q /\ q < at + CacheSize
      BY <1>1, <2>2
    <3>2. c[q % CacheSize] = q BY <1>4, <3>1
    <3> HIDE DEF q
    <3>3. r # q % CacheSize BY <1>1, <3>1, Apart
    <3>4. q % CacheSize \in 0..(CacheSize - 1) BY <1>1, <3>1, InRing
    <3> HIDE DEF r
    <3>5. new[q % CacheSize] = q BY <1>3, <3>2, <3>3, <3>4
    <3> QED BY <3>1, <3>5
  <2> QED BY <2>1, <2>2
<1> HIDE DEF r
<1>5. new \in [0..(CacheSize - 1) -> Int] BY <1>1, <1>2, <1>3
<1>6. \A s \in 0..(CacheSize - 1) : new[s] = at + CacheSize \/ new[s] = c[s] BY <1>2, <1>3
<1> QED BY <1>4, <1>5, <1>6

----------------------------------------------------------------------------
(* The parser's steps that leave the tables alone.                         *)

\* Types, and the invariant of the parser's course in plain numbers.
LEMMA Where ==
  ASSUME IInv
  PROVE  /\ base \in Nat /\ next \in Nat /\ begin \in Nat /\ end \in Nat /\ position \in Nat
         /\ start \in Nat /\ looks \in 0..2 /\ until \in Nat /\ resume \in Nat
         /\ phase \in Phases /\ skipping \in BOOLEAN
         /\ base + Bias <= next /\ next <= base + end + Bias /\ begin <= end
         /\ InSearch => position <= end - Reach
         /\ InSearch \/ phase \in {"look", "taken"} => position <= start + looks
         /\ phase = "scan" => next <= base + position + Bias
         /\ phase \in {"look", "taken", "found"} => next <= base + position + Bias + 1
BY DEF IInv, TypeOK, Course, Index, Limit

LEMMA QuietStep ==
  ASSUME IInv, UNCHANGED <<parser, table, begin, end>>,
         phase' \in Phases, position' \in Nat, start' \in Nat, looks' \in 0..2,
         skipping' \in BOOLEAN, until' \in Nat, resume' \in Nat, Course',
         phase' # "idle" => phase # "idle", ~skipping' => ~skipping \/ phase' = "idle",
         phase' = "insert" /\ skipping' /\ parser.rows =>
           next >= until' /\ resume' = Index(position')
  PROVE  IInv'
<1>1. TypeOK' BY DEF IInv, TypeOK, table, Rows, RowMask, Entry
<1>2. OldIndexes' /\ Chained' /\ InRows'
  <2>1. next' \in Nat /\ next <= next' BY Where DEF table
  <2> QED BY <2>1, TablesKept DEF table
<1>3. Bias' = Bias /\ Reach' = Reach BY ParserKept
<1>4. Hashed'
  <2>1. Unbiased(next)' = Unbiased(next) /\ Index(position)' = Index(position')
    BY <1>3 DEF table, Unbiased, Index
  <2>2. Limit' = Limit BY <1>3 DEF Limit
  <2>3. Ahead(Unbiased(next)) => Ahead(Unbiased(next))'
    BY <2>1, <2>2 DEF Ahead, table
  <2> QED BY <1>1, <2>1, <2>3 DEF IInv, Hashed, table
<1> QED BY <1>1, <1>2, <1>4 DEF IInv

LEMMA EndBlockKeeps ==
  ASSUME IInv, EndBlock PROVE IInv'
<1>1. Bias' = Bias /\ Reach' = Reach BY ParserKept DEF EndBlock
<1>2. Course'
  BY <1>1 DEF EndBlock, table, IInv, Course, InSearch, Index, Limit
<1> QED BY <1>2, QuietStep, Where DEF EndBlock, Phases, search

\* What a search at this position sets out to do.
LEMMA BeginSearchIs ==
  ASSUME IInv, NEW at \in Nat, next <= base + at + Bias, BeginSearch(at)
  PROVE  /\ until' \in Nat /\ resume' \in Nat /\ phase' = "insert"
         /\ next <= resume' /\ until' <= resume' /\ resume' <= base + at + Bias
         /\ resume' # base + at + Bias => resume' = base + at + Bias - TailUpdates
         /\ resume' = base + at + Bias /\ ~skipping => until' = resume'
         /\ skipping => resume' = base + at + Bias /\ (parser.rows => next >= until')
<1>1. base \in Nat /\ next \in Nat /\ Bias \in {1, 2} BY Where, Shape DEF IInv
<1>2. /\ HeadUpdates \in Nat /\ TailUpdates \in Nat \ {0} /\ SkipThreshold \in Nat
      /\ HeadUpdates + TailUpdates <= SkipThreshold
  BY ConstantsAssumption
<1>3. Index(at) = base + at + Bias BY DEF Index
<1>4. CASE skipping BY <1>1, <1>2, <1>3, <1>4 DEF BeginSearch, Smaller
<1>5. CASE ~skipping /\ Index(at) - next > SkipThreshold
  BY <1>1, <1>2, <1>3, <1>5 DEF BeginSearch
<1>6. CASE ~skipping /\ ~(Index(at) - next > SkipThreshold)
  BY <1>1, <1>2, <1>3, <1>6 DEF BeginSearch
<1> QED BY <1>4, <1>5, <1>6

LEMMA ScanKeeps ==
  ASSUME IInv, Scan PROVE IInv'
<1>1. Bias' = Bias /\ Reach' = Reach BY ParserKept DEF Scan
<1>2. /\ position \in Nat /\ next <= base + position + Bias /\ position < Limit
      /\ phase = "scan" /\ BeginSearch(position)
  BY Where DEF Scan
<1>3. /\ until' \in Nat /\ resume' \in Nat /\ phase' = "insert"
      /\ next <= resume' /\ until' <= resume' /\ resume' <= base + position + Bias
      /\ resume' # base + position + Bias => resume' = base + position + Bias - TailUpdates
      /\ resume' = base + position + Bias /\ ~skipping => until' = resume'
      /\ skipping => resume' = base + position + Bias /\ (parser.rows => next >= until')
  BY <1>2, BeginSearchIs
<1>4. start' = position /\ looks' = 0 /\ UNCHANGED <<parser, table, begin, end, position, skipping>>
  BY DEF Scan
<1>5. Course'
  <2>1. Limit \in Int /\ Limit' = Limit BY <1>1, <1>4, Shape DEF Limit, IInv
  <2>2. /\ phase' = "insert" /\ position' <= Limit' /\ position' <= start' + looks'
    BY <1>2, <1>3, <1>4, <2>1
  <2>3. Index(position)' = base + position + Bias /\ Index(end)' = Index(end)
    BY <1>1, <1>4 DEF table, Index
  <2>4. base' = base /\ next' = next /\ end' = end /\ begin' = begin BY <1>4 DEF table
  <2>5. base + Bias <= next /\ next <= Index(end) /\ begin <= end /\ Index(end) <= MaxIndex
    BY <1>2 DEF IInv, Course
  <2>6. (base + Bias <= next /\ next <= Index(end) /\ begin <= end /\ Index(end) <= MaxIndex)'
    BY <1>1, <2>4, <2>5 DEF Index
  <2>7. /\ (next <= resume /\ until <= resume /\ resume <= Index(position))'
        /\ (resume # Index(position) => resume = Index(position) - TailUpdates)'
        /\ (resume = Index(position) /\ ~skipping => until = resume)'
    <3>1. position' = position /\ skipping' = skipping BY <1>4
    <3>2. base \in Nat /\ position \in Nat /\ Bias \in {1, 2} /\ TailUpdates \in Nat
      BY <1>2, Where, Shape DEF IInv
    <3>3. Index(position)' = base + position + Bias BY <1>1, <2>4, <3>1 DEF Index
    <3>4. (next <= resume /\ until <= resume /\ resume <= Index(position))'
      BY <1>3, <2>4, <3>3
    <3>5. (resume # Index(position) => resume = Index(position) - TailUpdates)'
      BY <1>3, <3>2, <3>3
    <3>6. (resume = Index(position) /\ ~skipping => until = resume)'
      BY <1>3, <3>1, <3>3
    <3> QED BY <3>4, <3>5, <3>6
  <2> QED BY <2>2, <2>6, <2>7 DEF Course, InSearch
<1>6. resume' # Index(position') => ~skipping BY <1>3, <1>4 DEF Index
<1> QED BY <1>2, <1>3, <1>4, <1>5, <1>6, QuietStep, Where DEF Phases

LEMMA LookKeeps ==
  ASSUME IInv, Look PROVE IInv'
<1>1. Bias' = Bias /\ Reach' = Reach BY ParserKept DEF Look
<1>2. /\ position + 1 \in Nat /\ next <= base + (position + 1) + Bias /\ position < Limit
      /\ phase = "look" /\ BeginSearch(position + 1)
  <2>1. phase = "look" /\ BeginSearch(position + 1) /\ position < Limit BY DEF Look
  <2> QED BY <2>1, Where, Shape DEF IInv
<1>3. /\ until' \in Nat /\ resume' \in Nat /\ phase' = "insert"
      /\ next <= resume' /\ until' <= resume' /\ resume' <= base + (position + 1) + Bias
      /\ resume' # base + (position + 1) + Bias =>
           resume' = base + (position + 1) + Bias - TailUpdates
      /\ resume' = base + (position + 1) + Bias /\ ~skipping => until' = resume'
      /\ skipping => resume' = base + (position + 1) + Bias /\ (parser.rows => next >= until')
  BY <1>2, BeginSearchIs
<1>4. /\ position' = position + 1 /\ looks' = looks + 1
      /\ UNCHANGED <<parser, table, begin, end, start, skipping>>
      /\ looks < LookAhead
  BY DEF Look
<1>5. looks' \in 0..2 /\ position' <= start' + looks' /\ position' <= Limit
  <2>1. looks \in 0..2 /\ LookAhead \in 0..2 /\ position <= start + looks BY <1>2, Where, Shape DEF IInv
  <2>2. Limit \in Int /\ position \in Nat /\ start \in Nat BY Where, Shape DEF IInv
  <2> QED BY <1>2, <1>4, <2>1, <2>2
<1>6. Course'
  <2>1. Limit' = Limit BY <1>1, <1>4 DEF Limit
  <2>2. /\ phase' = "insert" /\ position' <= Limit' /\ position' <= start' + looks'
    BY <1>3, <1>5, <2>1
  <2>3. Index(position)' = base + (position + 1) + Bias /\ Index(end)' = Index(end)
    BY <1>1, <1>4 DEF table, Index
  <2>4. base' = base /\ next' = next /\ end' = end /\ begin' = begin BY <1>4 DEF table
  <2>5. base + Bias <= next /\ next <= Index(end) /\ begin <= end /\ Index(end) <= MaxIndex
    BY <1>2 DEF IInv, Course
  <2>6. (base + Bias <= next /\ next <= Index(end) /\ begin <= end /\ Index(end) <= MaxIndex)'
    BY <1>1, <2>4, <2>5 DEF Index
  <2>7. /\ (next <= resume /\ until <= resume /\ resume <= Index(position))'
        /\ (resume # Index(position) => resume = Index(position) - TailUpdates)'
        /\ (resume = Index(position) /\ ~skipping => until = resume)'
    <3>1. position' = (position + 1) /\ skipping' = skipping BY <1>4
    <3>2. base \in Nat /\ position \in Nat /\ Bias \in {1, 2} /\ TailUpdates \in Nat
      BY <1>2, Where, Shape DEF IInv
    <3>3. Index(position)' = base + (position + 1) + Bias BY <1>1, <2>4, <3>1 DEF Index
    <3>4. (next <= resume /\ until <= resume /\ resume <= Index(position))'
      BY <1>3, <2>4, <3>3
    <3>5. (resume # Index(position) => resume = Index(position) - TailUpdates)'
      BY <1>3, <3>2, <3>3
    <3>6. (resume = Index(position) /\ ~skipping => until = resume)'
      BY <1>3, <3>1, <3>3
    <3> QED BY <3>4, <3>5, <3>6
  <2> QED BY <2>2, <2>6, <2>7 DEF Course, InSearch
<1>7. resume' # Index(position') => ~skipping BY <1>3, <1>4 DEF Index
<1> QED BY <1>2, <1>3, <1>4, <1>5, <1>6, <1>7, QuietStep, Where DEF Phases

LEMMA MissKeeps ==
  ASSUME IInv, NEW step \in 1..MaxStep, Miss(step) PROVE IInv'
<1>1. Bias' = Bias /\ Reach' = Reach BY ParserKept DEF Miss
<1>2. step \in Nat \ {0} /\ SkippingStep \in Nat BY ConstantsAssumption
<1>3. /\ phase = "found" /\ phase' = "scan" /\ position' = position + step
      /\ skipping' = (step > SkippingStep) /\ (skipping => step > SkippingStep)
      /\ UNCHANGED <<parser, table, begin, end, start, looks, search>>
  BY DEF Miss
<1>4. position' \in Nat /\ next <= base + position' + Bias
  <2>1. phase = "found" => next <= base + position + Bias + 1 BY Where
  <2>2. base \in Nat /\ next \in Nat /\ position \in Nat /\ Bias \in {1, 2} BY Where, Shape DEF IInv
  <2> QED BY <1>2, <1>3, <2>1, <2>2
<1>5. Course' BY <1>1, <1>3, <1>4 DEF table, search, IInv, Course, InSearch, Index, Limit
<1> QED BY <1>3, <1>4, <1>5, QuietStep, Where DEF Phases, search

LEMMA HitKeeps ==
  ASSUME IInv, NEW at \in {position, position + 1}, Hit(at) PROVE IInv'
<1>1. Bias' = Bias /\ Reach' = Reach BY ParserKept DEF Hit
<1>2. /\ phase = "found" /\ phase' \in {"taken", "look"} /\ start' = at
      /\ UNCHANGED <<parser, table, begin, end, position, looks, skipping, search>>
  BY DEF Hit
<1>3. start' \in Nat /\ position <= start' + looks BY <1>2, Where
<1>4. Course' BY <1>1, <1>2, <1>3 DEF table, search, IInv, Course, InSearch, Index, Limit
<1> QED BY <1>2, <1>3, <1>4, QuietStep, Where DEF Phases, search

LEMMA GreedyRepeatKeeps ==
  ASSUME IInv, GreedyRepeat PROVE IInv'
<1>1. Bias' = Bias /\ Reach' = Reach BY ParserKept DEF GreedyRepeat
<1>2. /\ phase = "scan" /\ phase' = "taken" /\ start' = position + 1
      /\ UNCHANGED <<parser, table, begin, end, position, looks, skipping, search>>
  BY DEF GreedyRepeat
<1>3. start' \in Nat /\ position <= start' + looks /\ next <= base + position + Bias + 1
  <2>1. /\ position \in Nat /\ looks \in 0..2 /\ next \in Nat /\ base \in Nat /\ Bias \in {1, 2}
        /\ next <= base + position + Bias
    BY <1>2, Where, Shape DEF IInv
  <2> QED BY <1>2, <2>1
<1>4. Course' BY <1>1, <1>2, <1>3 DEF table, search, IInv, Course, InSearch, Index, Limit
<1> QED BY <1>2, <1>3, <1>4, QuietStep, Where DEF Phases, search

LEMMA BetterKeeps ==
  ASSUME IInv, Better PROVE IInv'
<1>1. Bias' = Bias /\ Reach' = Reach BY ParserKept DEF Better
<1>2. /\ phase = "found" /\ phase' = "look" /\ start' = position /\ looks' = 0
      /\ UNCHANGED <<parser, table, begin, end, position, skipping, search>>
  BY DEF Better
<1>3. start' \in Nat /\ position <= start' + looks' BY <1>2, Where
<1>4. Course' BY <1>1, <1>2, <1>3 DEF table, search, IInv, Course, InSearch, Index, Limit
<1> QED BY <1>2, <1>3, <1>4, QuietStep, Where DEF Phases, search

LEMMA NotBetterKeeps ==
  ASSUME IInv, NEW repeat \in BOOLEAN, NotBetter(repeat) PROVE IInv'
<1>1. Bias' = Bias /\ Reach' = Reach BY ParserKept DEF NotBetter
<1>2. /\ phase = "found" /\ phase' = "look" /\ start' \in {position, start}
      /\ UNCHANGED <<parser, table, begin, end, position, looks, skipping, search>>
  BY DEF NotBetter
<1>3. start' \in Nat /\ position <= start' + looks
  <2>1. position \in Nat /\ start \in Nat /\ looks \in 0..2 /\ position <= start + looks
    BY <1>2, Where DEF InSearch
  <2>2. CASE start' = position BY <2>1, <2>2
  <2>3. CASE start' = start BY <2>1, <2>3
  <2> QED BY <1>2, <2>2, <2>3
<1>4. Course' BY <1>1, <1>2, <1>3 DEF table, search, IInv, Course, InSearch, Index, Limit
<1> QED BY <1>2, <1>3, <1>4, QuietStep, Where DEF Phases, search

LEMMA EndLookKeeps ==
  ASSUME IInv, EndLook PROVE IInv'
<1>1. Bias' = Bias /\ Reach' = Reach BY ParserKept DEF EndLook
<1>2. /\ phase = "look" /\ phase' = "taken"
      /\ UNCHANGED <<parser, table, begin, end, position, start, looks, skipping, search>>
  BY DEF EndLook
<1>3. Course' BY <1>1, <1>2 DEF table, search, IInv, Course, InSearch, Index, Limit
<1> QED BY <1>2, <1>3, QuietStep, Where DEF Phases, search

LEMMA ImmediateRepeatKeeps ==
  ASSUME IInv, NEW length \in 1..(end - begin), ImmediateRepeat(length) PROVE IInv'
<1>1. Bias' = Bias /\ Reach' = Reach BY ParserKept DEF ImmediateRepeat
<1>2. /\ phase = "scan" /\ position' = position + length /\ start' = position + length
      /\ UNCHANGED <<parser, table, phase, begin, end, looks, skipping, search>>
  BY DEF ImmediateRepeat
<1>3. position' \in Nat /\ start' \in Nat /\ next <= base + position' + Bias
  <2>1. /\ position \in Nat /\ next \in Nat /\ base \in Nat /\ Bias \in {1, 2}
        /\ next <= base + position + Bias /\ begin \in Nat /\ end \in Nat
    BY <1>2, Where, Shape DEF IInv
  <2> QED BY <1>2, <2>1
<1>4. Course' BY <1>1, <1>2, <1>3 DEF table, search, IInv, Course, InSearch, Index, Limit
<1> QED BY <1>2, <1>3, <1>4, QuietStep, Where DEF Phases, search

LEMMA StutterKeeps ==
  ASSUME IInv, UNCHANGED vars PROVE IInv'
<1>1. Bias' = Bias /\ Reach' = Reach BY ParserKept DEF vars
<1>2. UNCHANGED <<parser, table, phase, begin, end, position, start, looks, skipping, search>>
  BY DEF vars
<1>3. Course' BY <1>1, <1>2 DEF table, search, IInv, Course, InSearch, Index, Limit
<1>4. phase = "insert" /\ skipping /\ parser.rows => next >= until /\ resume = Index(position)
  BY DEF IInv, Hashed
<1>5. Index(position') = Index(position) BY <1>2
<1> QED BY <1>2, <1>3, <1>4, <1>5, QuietStep, Where DEF search

----------------------------------------------------------------------------
(* Frames and blocks.                                                      *)

LEMMA InitHolds ==
  ASSUME Init PROVE IInv
<1>1. /\ CacheSize \in Nat \ {0} /\ ChainSize \in Nat \ {0} /\ Window \in Nat
      /\ RowMask \in Nat \ {0}
  BY ConstantsAssumption, RowsAssumption, RowSize
<1>2. /\ base = 0 /\ next = Bias /\ Bias \in {1, 2} /\ phase = "idle"
      /\ begin = 0 /\ end = 0 /\ position = 0 /\ start = 0 /\ looks = 0
      /\ skipping = FALSE /\ until = 0 /\ resume = 0 /\ parser \in Parsers
  BY DEF Init, Bias
<1>3. /\ heads = [b \in Buckets |-> 0] /\ links = [s \in 0..(ChainSize - 1) |-> 0]
      /\ cells = [row \in Rows |-> EmptyRow] /\ cache = EmptyCache
      /\ recorded = [b \in Buckets |-> <<>>] /\ written = [row \in Rows |-> <<>>]
  BY DEF Init
<1>4. EmptyRow \in RowType /\ HeadOf(EmptyRow) = 0 /\ \A s \in 0..RowMask : EmptyRow[s].index = 0
  BY <1>1 DEF EmptyRow, RowType, Entry, HeadOf
<1>5. TypeOK
  <2>1. cache \in [0..(CacheSize - 1) -> Int] BY <1>3 DEF EmptyCache, NotHashed
  <2>2. cells \in [Rows -> [0..RowMask -> Entry]] BY <1>3, <1>4 DEF RowType
  <2>3. heads \in [Buckets -> Nat] /\ links \in [0..(ChainSize - 1) -> Nat] BY <1>3
  <2>4. recorded \in [Buckets -> Seq(Nat)] /\ written \in [Rows -> Seq(Nat \X Nat)] BY <1>3
  <2>5. /\ base \in Nat /\ next \in Nat /\ phase \in Phases /\ begin \in Nat /\ end \in Nat
        /\ position \in Nat /\ start \in Nat /\ looks \in 0..2 /\ skipping \in BOOLEAN
        /\ until \in Nat /\ resume \in Nat
    <3>1. next \in Nat BY <1>2
    <3>2. /\ base \in Nat /\ begin \in Nat /\ end \in Nat /\ position \in Nat /\ start \in Nat
          /\ looks \in 0..2 /\ until \in Nat /\ resume \in Nat
      BY <1>2
    <3>3. phase \in Phases BY <1>2 DEF Phases
    <3>4. skipping \in BOOLEAN BY <1>2
    <3> QED BY <3>1, <3>2, <3>3, <3>4
  <2> QED BY <1>2, <2>1, <2>2, <2>3, <2>4, <2>5 DEF TypeOK
<1>6. Course
  <2>1. base + end + Bias = Bias BY <1>2
  <2> QED BY <1>2, <2>1 DEF Course, InSearch, Index
<1>7. Hashed BY <1>2, <1>3 DEF Hashed, EmptyCache
<1>8. OldIndexes BY <1>2, <1>3, <1>4 DEF OldIndexes
<1>9. FrameLow \in Nat /\ FrameLow > 0 /\ next \in Nat BY <1>2 DEF FrameLow
<1>10. Chained
  <2>1. ASSUME NEW b \in Buckets PROVE ChainIn(heads[b], links, recorded[b], FrameLow, next)
    <3>1. heads[b] = 0 /\ recorded[b] = <<>> BY <1>3
    <3>2. ChainIn(0, links, <<>>, FrameLow, next) BY <1>9, NoChain
    <3> QED BY <3>1, <3>2
  <2> QED BY <2>1 DEF Chained
<1>11. InRows
  <2>1. ASSUME NEW row \in Rows PROVE RowIn(cells[row], written[row], FrameLow, next)
    <3>1. cells[row] = EmptyRow /\ written[row] = <<>> BY <1>3
    <3>2. (\A s \in 0..RowMask : EmptyRow[s].index < FrameLow) /\ HeadOf(EmptyRow) <= RowMask
      <4>1. 0 < FrameLow /\ 0 <= RowMask BY <1>1, <1>9
      <4> QED BY <1>4, <4>1
    <3>3. RowIn(EmptyRow, <<>>, FrameLow, next)
      BY <1>1, <1>4, <1>9, <3>2, NoRow, RowsAssumption
    <3> QED BY <3>1, <3>3
  <2> QED BY <2>1 DEF InRows
<1> QED BY <1>5, <1>6, <1>7, <1>8, <1>10, <1>11 DEF IInv

LEMMA ResetKeeps ==
  ASSUME IInv, Reset PROVE IInv'
<1>1. /\ CacheSize \in Nat \ {0} /\ ChainSize \in Nat \ {0} /\ Window \in Nat
      /\ RowMask \in Nat \ {0} /\ Bias \in {1, 2} /\ base \in Nat /\ next \in Nat
  BY RowSize, RowsAssumption, Shape, Where DEF IInv
<1>2. Bias' = Bias /\ parser' = parser /\ parser' \in Parsers
  BY ParserKept DEF Reset, IInv, TypeOK
<1>3. /\ next' = base' + Bias /\ cache' = EmptyCache /\ phase' = "idle"
      /\ begin' = 0 /\ end' = 0 /\ position' = 0 /\ start' = 0 /\ looks' = 0
      /\ skipping' = skipping /\ until' = until /\ resume' = resume
      /\ recorded' = [b \in Buckets |-> <<>>] /\ written' = [row \in Rows |-> <<>>]
  BY <1>2 DEF Reset, search
<1>4. /\ base' \in Nat
      /\ heads' \in [Buckets -> Nat] /\ links' \in Ring /\ cells' \in [Rows -> RowType]
      /\ \A b \in Buckets : heads'[b] < base' + Bias
      /\ \A s \in 0..(ChainSize - 1) : links'[s] < base' + Bias
      /\ \A row \in Rows : HeadOf(cells'[row]) <= RowMask
      /\ \A row \in Rows, s \in 0..RowMask : cells'[row][s].index < base' + Bias
  <2>1. CASE Exhausted
    <3>1. /\ base' = 0
          /\ heads' = [b \in Buckets |-> 0] /\ links' = [s \in 0..(ChainSize - 1) |-> 0]
          /\ cells' = [row \in Rows |-> EmptyRow]
      BY <2>1 DEF Reset, IInv, TypeOK
    <3>2. EmptyRow \in RowType /\ HeadOf(EmptyRow) = 0 /\ \A s \in 0..RowMask : EmptyRow[s].index = 0
      BY <1>1 DEF EmptyRow, RowType, Entry, HeadOf
    <3> QED BY <1>1, <3>1, <3>2 DEF Ring
  <2>2. CASE ~Exhausted
    <3>1. base' = NextBase /\ UNCHANGED <<heads, links, cells>> BY <2>2 DEF Reset
    <3>2. base' \in Nat /\ next <= base' BY <1>1, <3>1 DEF NextBase
    <3>3. heads \in [Buckets -> Nat] /\ links \in Ring /\ cells \in [Rows -> RowType]
      BY DEF IInv, TypeOK, Ring, RowType
    <3>4. /\ \A b \in Buckets : heads[b] \in Nat /\ heads[b] < next
          /\ \A s \in 0..(ChainSize - 1) : links[s] \in Nat /\ links[s] < next
          /\ \A row \in Rows, s \in 0..RowMask :
               cells[row][s].index \in Nat /\ cells[row][s].index < next
      BY <3>3 DEF IInv, OldIndexes, Ring, RowType, Entry
    <3>5. \A row \in Rows : HeadOf(cells[row]) <= RowMask BY DEF IInv, InRows, RowIn
    <3> QED BY <1>1, <3>1, <3>2, <3>3, <3>4, <3>5
  <2> QED BY <2>1, <2>2
<1>12. base' \in Nat /\ base' + Bias \in Nat /\ next' \in Nat /\ base' + Bias <= next'
  <2>1. base' \in Nat BY <1>4
  <2>2. next' = base' + Bias BY <1>3
  <2>3. Bias \in Nat BY <1>1
  <2>4. \A a, b \in Nat : a + b \in Nat /\ a + b <= a + b OBVIOUS
  <2> QED BY <2>1, <2>2, <2>3, <2>4
<1>5. TypeOK'
  <2>1. cache' \in [0..(CacheSize - 1) -> Int] BY <1>3 DEF EmptyCache, NotHashed
  <2>2. (cells \in [Rows -> [0..RowMask -> Entry]])'
    BY <1>4 DEF RowType, Rows, RowMask, Entry
  <2>3. (recorded \in [Buckets -> Seq(Nat)])' /\ (written \in [Rows -> Seq(Nat \X Nat)])'
    BY <1>3 DEF Rows
  <2>4. (heads \in [Buckets -> Nat])' /\ (links \in [0..(ChainSize - 1) -> Nat])'
    BY <1>4 DEF Ring
  <2>5. base' \in Nat /\ next' \in Nat BY <1>12
  <2>6. phase' \in Phases /\ skipping' \in BOOLEAN /\ until' \in Nat /\ resume' \in Nat
    BY <1>3, Where DEF Phases
  <2>7. begin' \in Nat /\ end' \in Nat /\ position' \in Nat /\ start' \in Nat /\ looks' \in 0..2
    BY <1>3
  <2> QED BY <1>2, <2>1, <2>2, <2>3, <2>4, <2>5, <2>6, <2>7 DEF TypeOK
<1>6. Course'
  <2>1. base' + end' + Bias = base' + Bias BY <1>1, <1>3, <1>4
  <2>2. base' + Bias <= next' BY <1>12
  <2>3. begin' <= end' BY <1>3
  <2> QED BY <1>2, <1>3, <2>1, <2>2, <2>3 DEF Course, InSearch, Index
<1>7. Hashed' BY <1>3 DEF Hashed, EmptyCache
<1>8. OldIndexes' BY <1>3, <1>4 DEF OldIndexes, Rows, RowMask
<1>9. FrameLow' \in Nat /\ FrameLow' = base' + Bias /\ next' \in Nat
  BY <1>2, <1>12 DEF FrameLow
<1>10. Chained'
  <2>1. ASSUME NEW b \in Buckets PROVE ChainIn(heads'[b], links', recorded'[b], FrameLow', next')
    <3>1. recorded'[b] = <<>> /\ heads'[b] \in Nat /\ heads'[b] < FrameLow' BY <1>3, <1>4, <1>9
    <3>2. ChainIn(heads'[b], links', <<>>, FrameLow', next') BY <1>9, <3>1, NoChain
    <3> QED BY <3>1, <3>2
  <2> QED BY <2>1 DEF Chained
<1>11. InRows'
  <2>1. ASSUME NEW row \in Rows PROVE RowIn(cells'[row], written'[row], FrameLow', next')
    <3>1. /\ written'[row] = <<>> /\ cells'[row] \in RowType /\ HeadOf(cells'[row]) <= RowMask
          /\ \A s \in 0..RowMask : cells'[row][s].index < FrameLow'
      BY <1>3, <1>4, <1>9
    <3>2. RowIn(cells'[row], <<>>, FrameLow', next')
      BY <1>1, <1>9, <3>1, NoRow, RowsAssumption
    <3> QED BY <3>1, <3>2
  <2> QED BY <2>1 DEF InRows, Rows
<1> QED BY <1>5, <1>6, <1>7, <1>8, <1>10, <1>11 DEF IInv

LEMMA BlockIs ==
  ASSUME IInv, NEW size \in 1..MaxInput, Block(size)
  PROVE  /\ phase = "idle" /\ begin' = end /\ end' = end + size
         /\ end + size \in Nat /\ end <= end + size /\ end + size + Guard <= MaxIndex
         /\ Guard = 11 /\ size \in Nat /\ MaxIndex \in Nat
<1>1. size \in Nat /\ end \in Nat /\ Guard = 11 /\ MaxIndex \in Nat
  BY ConstantsAssumption, Where DEF Guard
<1>2. end + size <= MaxIndex - Guard /\ phase = "idle" /\ begin' = end /\ end' = end + size
  BY DEF Block
<1> QED BY <1>1, <1>2

LEMMA SkipBlockKeeps ==
  ASSUME IInv, NEW size \in 1..MaxInput, SkipBlock(size) PROVE IInv'
<1>1. Bias' = Bias /\ Reach' = Reach BY ParserKept DEF SkipBlock
<1>2. UNCHANGED <<parser, table, phase, position, start, looks, skipping, search>>
  BY DEF SkipBlock
<1>3. /\ phase = "idle" /\ begin' = end /\ end' = end + size
      /\ end + size \in Nat /\ end <= end + size
  BY BlockIs DEF SkipBlock
<1>4. TypeOK'
  BY <1>2, <1>3 DEF IInv, TypeOK, table, search, Rows, RowMask, Entry
<1>5. OldIndexes' /\ Chained' /\ InRows'
  <2>1. next' \in Nat /\ next <= next' BY <1>2, Where DEF table
  <2> QED BY <1>2, <2>1, TablesKept DEF table
<1>6. Course'
  <2>1. /\ base \in Nat /\ Bias \in {1, 2} /\ next \in Nat /\ end \in Nat /\ size \in Nat
        /\ base + Bias <= next /\ next <= base + end + Bias
    BY Where, Shape DEF IInv
  <2>2. base + Bias <= next /\ next <= base + (end + size) + Bias BY <2>1
  <2> QED BY <1>1, <1>2, <1>3, <2>2 DEF Course, InSearch, Index, table
<1>7. Hashed'
  <2>1. ASSUME NEW slot \in 0..(CacheSize - 1), parser.rows, cache[slot] # NotHashed
        PROVE  cache[slot] + ReadSize <= end + size
    <3>1. cache[slot] + ReadSize <= end BY <2>1 DEF IInv, Hashed
    <3>2. cache[slot] \in Int /\ ReadSize \in Nat BY Shape DEF IInv, TypeOK
    <3>3. size \in Nat /\ end \in Nat BY Where
    <3> QED BY <3>1, <3>2, <3>3
  <2> QED BY <1>2, <1>3, <2>1 DEF Hashed, table
<1> QED BY <1>4, <1>5, <1>6, <1>7 DEF IInv

\* After room has been made the rest of the block's course is right.
LEMMA AtBlock ==
  ASSUME IInv, NEW size \in 1..MaxInput, Block(size), Headroom(end + size), parser' = parser,
         NEW n \in Nat, next <= n, n <= base + end + Bias, next' = Moved(n, end + size)
  PROVE  /\ base' \in Nat /\ next' \in Nat /\ begin' \in Nat /\ end' \in Nat
         /\ (heads \in [Buckets -> Nat])' /\ (links \in [0..(ChainSize - 1) -> Nat])'
         /\ (cells \in [Rows -> [0..RowMask -> Entry]])'
         /\ (recorded \in [Buckets -> Seq(Nat)])' /\ (written \in [Rows -> Seq(Nat \X Nat)])'
         /\ OldIndexes' /\ Chained' /\ InRows'
         /\ (base + Bias <= next /\ next <= Index(end) /\ begin <= end /\ Index(end) <= MaxIndex)'
         /\ next' <= base' + end + Bias
         /\ Unbiased(next)' = Unbiased(n) /\ Unbiased(n) \in Nat
<1>1. /\ begin' = end /\ end' = end + size /\ end + size \in Nat /\ end \in Nat /\ size \in Nat
      /\ end + size + Guard <= MaxIndex /\ Guard = 11 /\ MaxIndex \in Nat
      /\ base \in Nat /\ next \in Nat /\ Bias \in {1, 2}
  BY BlockIs, Where, Shape DEF IInv
<1>2. /\ base' \in Nat /\ next' \in Nat
      /\ heads' \in [Buckets -> Nat] /\ links' \in Ring /\ cells' \in [Rows -> RowType]
      /\ recorded' = recorded /\ written' = written
      /\ OldIndexes' /\ Chained' /\ InRows'
      /\ base + Bias <= n /\ next' - base' = n - base
      /\ base' = IF HasRoom(end + size) THEN base ELSE 0
  BY <1>1, HeadroomKeeps
<1>3. Bias' = Bias BY ParserKept
<1>4. PICK b \in Nat, m \in Nat : b = base' /\ m = next' BY <1>2
<1>5. /\ base + Bias <= n /\ m - b = n - base
      /\ b = IF HasRoom(end + size) THEN base ELSE 0
  BY <1>2, <1>4
<1>6. b + Bias <= m /\ m <= b + end + Bias /\ m <= b + (end + size) + Bias
      /\ b + (end + size) + Bias <= MaxIndex /\ m - b - Bias = n - base - Bias
      /\ n - base - Bias \in Nat
  <2>1. b + (end + size) + Bias <= MaxIndex
    <3>1. CASE HasRoom(end + size)
      <4>1. base + (end + size) + (IF parser.rows THEN Bias ELSE Guard) <= MaxIndex
        BY <3>1 DEF HasRoom
      <4> QED BY <1>1, <1>5, <3>1, <4>1
    <3>2. CASE ~HasRoom(end + size) BY <1>1, <1>5, <3>2
    <3> QED BY <3>1, <3>2
  <2> QED BY <1>1, <1>5, <2>1
<1>7. (base + Bias <= next /\ next <= Index(end) /\ begin <= end /\ Index(end) <= MaxIndex)'
  <2>1. Index(end)' = b + (end + size) + Bias BY <1>1, <1>3, <1>4 DEF Index
  <2>2. next' <= Index(end)' /\ Index(end)' <= MaxIndex BY <1>4, <1>6, <2>1
  <2>3. (base + Bias)' = b + Bias BY <1>3, <1>4
  <2>4. (base + Bias <= next)' BY <1>4, <1>6, <2>3
  <2>5. begin' <= end' BY <1>1
  <2> QED BY <2>2, <2>4, <2>5
<1>8. Unbiased(next)' = Unbiased(n) /\ Unbiased(n) \in Nat BY <1>3, <1>4, <1>6 DEF Unbiased
<1>9. next' <= base' + end + Bias BY <1>4, <1>6
<1>10. (heads \in [Buckets -> Nat])' /\ (links \in [0..(ChainSize - 1) -> Nat])'
       /\ (cells \in [Rows -> [0..RowMask -> Entry]])'
  BY <1>2 DEF Ring, RowType, Rows, RowMask, Entry
<1>11. (recorded \in [Buckets -> Seq(Nat)])' /\ (written \in [Rows -> Seq(Nat \X Nat)])'
  BY <1>2 DEF IInv, TypeOK, Rows
<1>12. begin' \in Nat /\ end' \in Nat BY <1>1
<1> QED BY <1>2, <1>7, <1>8, <1>9, <1>10, <1>11, <1>12

LEMMA ShortcutKeeps ==
  ASSUME IInv, NEW size \in 1..MaxInput, Shortcut(size) PROVE IInv'
<1>1. /\ Block(size) /\ Headroom(end + size) /\ parser' = parser
      /\ next' = Moved(next, end + size)
      /\ UNCHANGED <<cache, phase, position, start, looks, skipping, search>>
  BY DEF Shortcut
<1>2. next \in Nat /\ next <= next /\ next <= base + end + Bias BY Where
<1>3. /\ base' \in Nat /\ next' \in Nat /\ begin' \in Nat /\ end' \in Nat
      /\ (heads \in [Buckets -> Nat])' /\ (links \in [0..(ChainSize - 1) -> Nat])'
      /\ (cells \in [Rows -> [0..RowMask -> Entry]])'
      /\ (recorded \in [Buckets -> Seq(Nat)])' /\ (written \in [Rows -> Seq(Nat \X Nat)])'
      /\ OldIndexes' /\ Chained' /\ InRows'
      /\ (base + Bias <= next /\ next <= Index(end) /\ begin <= end /\ Index(end) <= MaxIndex)'
  BY <1>1, <1>2, AtBlock
<1>4. /\ phase = "idle" /\ end' = end + size /\ end + size \in Nat /\ size \in Nat /\ end \in Nat
  BY <1>1, BlockIs, Where
<1>5. TypeOK'
  <2>1. /\ parser \in Parsers /\ cache \in [0..(CacheSize - 1) -> Int] /\ phase \in Phases
        /\ position \in Nat /\ start \in Nat /\ looks \in 0..2 /\ skipping \in BOOLEAN
        /\ until \in Nat /\ resume \in Nat
    BY DEF IInv, TypeOK
  <2> QED BY <1>1, <1>3, <2>1 DEF TypeOK, search
<1>6. Course' BY <1>1, <1>3, <1>4 DEF Course, InSearch
<1>7. Hashed'
  <2>1. ASSUME NEW slot \in 0..(CacheSize - 1), parser.rows, cache[slot] # NotHashed
        PROVE  cache[slot] + ReadSize <= end + size
    <3>1. cache[slot] + ReadSize <= end BY <2>1 DEF IInv, Hashed
    <3>2. cache[slot] \in Int /\ ReadSize \in Nat BY Shape DEF IInv, TypeOK
    <3> QED BY <1>4, <3>1, <3>2
  <2> QED BY <1>1, <1>4, <2>1 DEF Hashed
<1> QED BY <1>3, <1>5, <1>6, <1>7 DEF IInv

LEMMA BeginBlockKeeps ==
  ASSUME IInv, NEW size \in 1..MaxInput, BeginBlock(size) PROVE IInv'
<1>1. /\ Block(size) /\ Headroom(end + size) /\ parser' = parser /\ size >= Reach
      /\ next' = Moved(CaughtUp, end + size)
      /\ cache' = Filled(cache, Unbiased(CaughtUp), end + size - Reach)
      /\ position' = (IF end = 0 THEN 1 ELSE end)
      /\ start' = end /\ looks' = 0 /\ skipping' = FALSE /\ phase' = "scan"
      /\ UNCHANGED <<parser, search>>
  BY DEF BeginBlock
<1>2. /\ phase = "idle" /\ end' = end + size /\ end + size \in Nat /\ size \in Nat /\ end \in Nat
      /\ base \in Nat /\ next \in Nat /\ Bias \in {1, 2} /\ next <= base + end + Bias
  BY <1>1, BlockIs, Where, Shape DEF IInv
<1>3. CaughtUp \in Nat /\ next <= CaughtUp /\ CaughtUp <= base + end + Bias
  <2>1. BlockTail \in Nat /\ SkipThreshold \in Nat BY ConstantsAssumption
  <2>2. Index(end) = base + end + Bias BY DEF Index
  <2>3. CASE parser.rows /\ Index(end) - next > SkipThreshold
    BY <1>2, <2>1, <2>2, <2>3 DEF CaughtUp, Smaller
  <2>4. CASE ~(parser.rows /\ Index(end) - next > SkipThreshold)
    BY <1>2, <2>4 DEF CaughtUp
  <2> QED BY <2>3, <2>4
<1>4. /\ base' \in Nat /\ next' \in Nat /\ begin' \in Nat /\ end' \in Nat
      /\ (heads \in [Buckets -> Nat])' /\ (links \in [0..(ChainSize - 1) -> Nat])'
      /\ (cells \in [Rows -> [0..RowMask -> Entry]])'
      /\ (recorded \in [Buckets -> Seq(Nat)])' /\ (written \in [Rows -> Seq(Nat \X Nat)])'
      /\ OldIndexes' /\ Chained' /\ InRows'
      /\ (base + Bias <= next /\ next <= Index(end) /\ begin <= end /\ Index(end) <= MaxIndex)'
      /\ next' <= base' + end + Bias
      /\ Unbiased(next)' = Unbiased(CaughtUp) /\ Unbiased(CaughtUp) \in Nat
  BY <1>1, <1>3, AtBlock
<1>5. /\ cache \in [0..(CacheSize - 1) -> Int] /\ Reach \in Nat /\ ReadSize \in Nat
      /\ end + size - Reach \in Int
  <2>1. cache \in [0..(CacheSize - 1) -> Int] BY DEF IInv, TypeOK
  <2>2. Reach \in Nat /\ ReadSize \in Nat BY Shape DEF IInv
  <2> QED BY <1>2, <2>1, <2>2
<1>6. /\ cache' \in [0..(CacheSize - 1) -> Int]
      /\ \A k \in 0..(CacheSize - 1) :
           Unbiased(CaughtUp) + k <= end + size - Reach =>
             cache'[(Unbiased(CaughtUp) + k) % CacheSize] = Unbiased(CaughtUp) + k
      /\ \A s \in 0..(CacheSize - 1) :
           cache'[s] <= end + size - Reach \/ cache'[s] = cache[s]
  <2> DEFINE from == Unbiased(CaughtUp)
             last == end + size - Reach
  <2>1. from \in Int /\ last \in Int /\ cache' = Filled(cache, from, last) BY <1>1, <1>4, <1>5
  <2> HIDE DEF from, last
  <2>2. /\ cache' \in [0..(CacheSize - 1) -> Int]
        /\ \A k \in 0..(CacheSize - 1) :
             from + k <= last => cache'[(from + k) % CacheSize] = from + k
        /\ \A s \in 0..(CacheSize - 1) : cache'[s] <= last \/ cache'[s] = cache[s]
    <3> DEFINE new == Filled(cache, from, last)
    <3>1. /\ new \in [0..(CacheSize - 1) -> Int]
          /\ \A k \in 0..(CacheSize - 1) :
               from + k <= last => new[(from + k) % CacheSize] = from + k
          /\ \A s \in 0..(CacheSize - 1) : new[s] <= last \/ new[s] = cache[s]
      BY <1>5, <2>1, FilledIs, RowsAssumption
    <3>2. cache' = new BY <2>1
    <3> HIDE DEF new
    <3> QED BY <3>1, <3>2
  <2> QED BY <2>2 DEF from, last
<1>7. position' \in Nat /\ end <= position'
  <2>1. CASE end = 0 BY <1>1, <2>1
  <2>2. CASE end # 0 BY <1>1, <1>2, <2>2
  <2> QED BY <2>1, <2>2
<1>8. TypeOK'
  <2>1. /\ parser \in Parsers /\ until \in Nat /\ resume \in Nat
    BY DEF IInv, TypeOK
  <2>2. start' \in Nat /\ looks' \in 0..2 /\ skipping' \in BOOLEAN /\ phase' \in Phases
    <3>1. phase' = "scan" /\ skipping' = FALSE BY <1>1
    <3>2. start' \in Nat BY <1>1, <1>2
    <3>3. looks' \in 0..2 BY <1>1
    <3> QED BY <3>1, <3>2, <3>3 DEF Phases
  <2> QED BY <1>1, <1>4, <1>6, <1>7, <2>1, <2>2 DEF TypeOK, search
<1>9. Course'
  <2>1. PICK q \in Nat, b \in Nat, m \in Nat : q = position' /\ b = base' /\ m = next'
    BY <1>4, <1>7
  <2>2. m <= b + end + Bias /\ end <= q BY <1>4, <1>7, <2>1
  <2>3. m <= b + q + Bias BY <1>2, <2>2
  <2>4. next' <= Index(position)' BY <1>1, <2>1, <2>3, ParserKept DEF Index
  <2> QED BY <1>1, <1>4, <2>4 DEF Course, InSearch
<1>10. Hashed'
  <2>1. Limit' = end + size - Reach
    <3>1. Limit' = (end + size) - Reach BY <1>1, <1>2, ParserKept DEF Limit
    <3> QED BY <1>2, <1>5, <3>1
  <2>2. Ahead(Unbiased(next))' BY <1>4, <1>6, <2>1 DEF Ahead
  <2>3. ASSUME NEW slot \in 0..(CacheSize - 1), parser.rows, cache'[slot] # NotHashed
        PROVE  cache'[slot] + ReadSize <= end + size
    <3>1. PICK c \in Int : c = cache'[slot] BY <1>6
    <3>2. CASE c <= end + size - Reach
      <4>1. Reach = ReadSize + CacheSize /\ CacheSize \in Nat BY <2>3, Shape DEF IInv
      <4>2. c + ReadSize <= end + size BY <1>2, <1>5, <3>2, <4>1
      <4> QED BY <3>1, <4>2
    <3>3. CASE c = cache[slot]
      <4>1. c + ReadSize <= end BY <2>3, <3>1, <3>3 DEF IInv, Hashed
      <4>2. c + ReadSize <= end + size BY <1>2, <1>5, <4>1
      <4> QED BY <3>1, <4>2
    <3> QED BY <1>6, <3>1, <3>2, <3>3
  <2> QED BY <1>1, <1>2, <2>2, <2>3 DEF Hashed
<1> QED BY <1>4, <1>8, <1>9, <1>10 DEF IInv

----------------------------------------------------------------------------
(* Recording.                                                              *)

LEMMA RecordKeeps ==
  ASSUME IInv, NEW bucket \in Buckets, Record(bucket) PROVE IInv'
<1>1. /\ base \in Nat /\ next \in Nat /\ Bias \in {1, 2} /\ FrameLow \in Nat
      /\ FrameLow = base + Bias /\ FrameLow <= next
      /\ ChainSize \in Nat \ {0} /\ Window \in Nat
  BY Where, Shape DEF IInv
<1>2. heads \in [Buckets -> Nat] /\ links \in Ring /\ recorded \in [Buckets -> Seq(Nat)]
  BY DEF IInv, TypeOK, Ring
<1>3. /\ phase = "insert" /\ next < until /\ ~parser.rows
      /\ links' = [links EXCEPT ![next % ChainSize] = heads[bucket]]
      /\ heads' = [heads EXCEPT ![bucket] = next]
      /\ recorded' = [b \in Buckets |->
                        Kept(IF b = bucket THEN <<next - FrameLow>> \o recorded[b]
                             ELSE recorded[b], next - FrameLow)]
      /\ next' = next + 1
      /\ UNCHANGED <<parser, base, cells, cache, written, phase, begin, end, position, start,
                     looks, skipping, search>>
  <2>1. Unbiased(next) = next - FrameLow BY <1>1 DEF Unbiased
  <2> QED BY <2>1 DEF Record, Slot
<1>4. Bias' = Bias /\ Reach' = Reach /\ FrameLow' = FrameLow
  BY <1>3, ParserKept DEF FrameLow
<1>5. ASSUME NEW b \in Buckets
      PROVE  ChainIn(heads'[b], links', recorded'[b], FrameLow, next + 1)
  <2> DEFINE list == IF b = bucket THEN <<next - FrameLow>> \o recorded[b] ELSE recorded[b]
  <2>1. ChainIn(heads[b], links, recorded[b], FrameLow, next) BY DEF IInv, Chained
  <2>2. heads[b] \in Nat /\ heads[bucket] \in Nat BY <1>2
  <2>3. ChainIn(heads'[b], links', list, FrameLow, next + 1)
    <3>1. CASE b = bucket
      <4>1. heads'[b] = next BY <1>2, <1>3, <3>1
      <4>2. ChainIn(next, [links EXCEPT ![next % ChainSize] = heads[b]],
                    <<next - FrameLow>> \o recorded[b], FrameLow, next + 1)
        BY <1>1, <1>2, <2>1, <2>2, ChainGrown
      <4> QED BY <1>3, <3>1, <4>1, <4>2
    <3>2. CASE b # bucket
      <4>1. heads'[b] = heads[b] BY <1>2, <1>3, <3>2
      <4>2. ChainIn(heads[b], [links EXCEPT ![next % ChainSize] = heads[bucket]],
                    recorded[b], FrameLow, next + 1)
        BY <1>1, <1>2, <2>1, <2>2, ChainBeside
      <4> QED BY <1>3, <3>2, <4>1, <4>2
    <3> QED BY <3>1, <3>2
  <2>4. recorded'[b] = Kept(list, next - FrameLow) BY <1>3
  <2>5. heads'[b] \in Nat BY <1>1, <1>2, <1>3
  <2>6. links' \in Ring BY <1>2, <1>3, <2>2 DEF Ring
  <2> HIDE DEF list
  <2>7. ChainIn(heads'[b], links', Kept(list, next - FrameLow), FrameLow, next + 1)
    BY <1>1, <2>3, <2>5, <2>6, ChainKept
  <2> QED BY <2>4, <2>7
<1>6. TypeOK'
  <2>1. heads' \in [Buckets -> Nat] /\ links' \in [0..(ChainSize - 1) -> Nat] /\ next' \in Nat
    BY <1>1, <1>2, <1>3 DEF Ring
  <2>2. recorded' \in [Buckets -> Seq(Nat)]
    <3>1. \A b \in Buckets : recorded'[b] \in Seq(Nat) BY <1>5 DEF ChainIn
    <3> QED BY <1>3, <3>1
  <2>3. /\ (cells \in [Rows -> [0..RowMask -> Entry]])'
        /\ (written \in [Rows -> Seq(Nat \X Nat)])'
    BY <1>3 DEF IInv, TypeOK, Rows, RowMask, Entry
  <2>4. /\ parser \in Parsers /\ base \in Nat /\ cache \in [0..(CacheSize - 1) -> Int]
        /\ phase \in Phases /\ begin \in Nat /\ end \in Nat /\ position \in Nat /\ start \in Nat
        /\ looks \in 0..2 /\ skipping \in BOOLEAN /\ until \in Nat /\ resume \in Nat
    BY DEF IInv, TypeOK
  <2> QED BY <1>3, <2>1, <2>2, <2>3, <2>4 DEF TypeOK, search
<1>7. Course'
  <2>1. /\ base + Bias <= next + 1 /\ next + 1 <= resume /\ next + 1 <= base + end + Bias
    <3>1. until <= resume /\ resume <= base + position + Bias /\ position <= end - Reach
          /\ Reach \in Nat /\ until \in Nat /\ resume \in Nat /\ position \in Nat /\ end \in Nat
      BY <1>3, Where, Shape DEF IInv, Course, Index, InSearch
    <3> QED BY <1>1, <1>3, <3>1
  <2> QED BY <1>3, <1>4, <2>1 DEF IInv, Course, InSearch, Index, Limit, search
<1>8. Hashed' BY <1>3 DEF Hashed
<1>9. OldIndexes'
  <2>1. \A b \in Buckets : heads'[b] < next + 1 BY <1>1, <1>2, <1>3 DEF IInv, OldIndexes
  <2>2. \A s \in 0..(ChainSize - 1) : links'[s] < next + 1
    BY <1>1, <1>2, <1>3 DEF IInv, OldIndexes, Ring
  <2>3. ASSUME NEW row \in Rows, NEW slot \in 0..RowMask PROVE cells[row][slot].index < next + 1
    <3>1. cells[row][slot].index \in Nat /\ cells[row][slot].index < next
      BY DEF IInv, TypeOK, Entry, OldIndexes
    <3> QED BY <1>1, <3>1
  <2> QED BY <1>3, <2>1, <2>2, <2>3 DEF OldIndexes, Rows, RowMask
<1>10. Chained' BY <1>3, <1>4, <1>5 DEF Chained
<1>11. InRows'
  <2>1. ASSUME NEW row \in Rows
        PROVE  RowIn(cells[row], written[row], FrameLow, next + 1)
    <3>1. RowIn(cells[row], written[row], FrameLow, next) /\ cells[row] \in RowType
      BY DEF IInv, InRows, TypeOK, RowType
    <3>2. next + 1 \in Nat /\ next <= next + 1 BY <1>1
    <3> QED BY <1>1, <3>1, <3>2, RowLater, RowsAssumption
  <2> QED BY <1>3, <1>4, <2>1 DEF InRows, Rows
<1> QED BY <1>6, <1>7, <1>8, <1>9, <1>10, <1>11 DEF IInv

LEMMA InsertedAt ==
  ASSUME RowMask \in Nat \ {0}, NEW row \in RowType, NEW tag, NEW index, NEW slot \in 0..RowMask
  PROVE  LET new == Inserted(row, tag, index)[slot]
         IN  new.index = index \/ new.index = row[slot].index
<1> DEFINE cursor == NextSlot(row)
           head == [row[0] EXCEPT !.tag = cursor]
           entry == [tag |-> tag, index |-> index]
           moved == [row EXCEPT ![0] = head]
<1>1. Inserted(row, tag, index) = [moved EXCEPT ![cursor] = entry] BY DEF Inserted
<1>2. row[0] \in Entry BY DEF RowType
<1>3. head.index = row[0].index BY <1>2 DEF Entry
<1> HIDE DEF cursor, head
<1>4. DOMAIN moved = 0..RowMask /\ moved[0] = head /\ (slot # 0 => moved[slot] = row[slot])
  BY DEF RowType
<1> HIDE DEF moved
<1>5. CASE slot = cursor
  <2>1. Inserted(row, tag, index)[slot] = entry BY <1>1, <1>4, <1>5
  <2> QED BY <2>1
<1>6. CASE slot # cursor
  <2>1. Inserted(row, tag, index)[slot] = moved[slot] BY <1>1, <1>4, <1>6
  <2> QED BY <1>3, <1>4, <2>1
<1> QED BY <1>5, <1>6

\* What putting a position into its row does to the tables.
LEMMA InsertIs ==
  ASSUME IInv, NEW hash \in Hashes, NEW at \in Nat, next <= FrameLow + at, Insert(hash, at),
         UNCHANGED <<parser, base, heads, links, recorded>>
  PROVE  /\ next' = FrameLow + at + 1 /\ next' \in Nat
         /\ (cells \in [Rows -> [0..RowMask -> Entry]])' /\ (written \in [Rows -> Seq(Nat \X Nat)])'
         /\ OldIndexes' /\ Chained' /\ InRows'
<1>1. /\ base \in Nat /\ next \in Nat /\ Bias \in {1, 2} /\ FrameLow \in Nat
      /\ FrameLow = base + Bias /\ FrameLow <= next
      /\ ChainSize \in Nat \ {0} /\ Window \in Nat
  BY Where, Shape DEF IInv
<1>2. FrameLow' = FrameLow BY ParserKept DEF FrameLow
<1>3. hash[1] \in Rows /\ hash[2] \in Nat BY HashIs
<1>4. /\ heads \in [Buckets -> Nat] /\ links \in Ring /\ cells \in [Rows -> RowType]
      /\ written \in [Rows -> Seq(Nat \X Nat)]
  BY DEF IInv, TypeOK, Ring, RowType
<1> DEFINE index == FrameLow + at
           list == SubSeq(<<<<at, hash[2]>>>> \o written[hash[1]], 1,
                          Smaller(Len(written[hash[1]]) + 1, RowMask))
<1>5. /\ cells' = [cells EXCEPT ![hash[1]] = Inserted(cells[hash[1]], hash[2], index)]
      /\ written' = [written EXCEPT ![hash[1]] = list]
      /\ next' = index + 1
  <2>1. Index(at) = index BY <1>1 DEF Index
  <2> QED BY <2>1 DEF Insert
<1>6. index \in Nat /\ next <= index /\ index + 1 \in Nat /\ next <= index + 1 BY <1>1
<1>7. /\ Inserted(cells[hash[1]], hash[2], index) \in RowType
      /\ RowIn(Inserted(cells[hash[1]], hash[2], index), list, FrameLow, index + 1)
  <2>1. RowIn(cells[hash[1]], written[hash[1]], FrameLow, next) /\ cells[hash[1]] \in RowType
    BY <1>3, <1>4 DEF IInv, InRows
  <2> QED BY <1>1, <1>3, <2>1, RowGrown, RowsAssumption
<1> HIDE DEF index, list
<1>8. ASSUME NEW row \in Rows
      PROVE  RowIn(cells'[row], written'[row], FrameLow, index + 1) /\ cells'[row] \in RowType
  <2>1. CASE row = hash[1] BY <1>3, <1>4, <1>5, <1>7, <2>1
  <2>2. CASE row # hash[1]
    <3>1. cells'[row] = cells[row] /\ written'[row] = written[row] BY <1>4, <1>5, <2>2
    <3>2. RowIn(cells[row], written[row], FrameLow, next) /\ cells[row] \in RowType
      BY <1>4 DEF IInv, InRows
    <3>3. RowIn(cells[row], written[row], FrameLow, index + 1)
      BY <1>1, <1>6, <3>2, RowLater, RowsAssumption
    <3> QED BY <3>1, <3>2, <3>3
  <2> QED BY <2>1, <2>2
<1>9. cells' \in [Rows -> RowType] /\ written' \in [Rows -> Seq(Nat \X Nat)]
  <2>1. \A row \in Rows : cells'[row] \in RowType /\ written'[row] \in Seq(Nat \X Nat)
    BY <1>8 DEF RowIn
  <2> QED BY <1>4, <1>5, <2>1
<1>10. OldIndexes'
  <2>1. \A b \in Buckets : heads[b] < index + 1 BY <1>1, <1>4, <1>6 DEF IInv, OldIndexes
  <2>2. \A s \in 0..(ChainSize - 1) : links[s] < index + 1
    BY <1>1, <1>4, <1>6 DEF IInv, OldIndexes, Ring
  <2>3. ASSUME NEW row \in Rows, NEW slot \in 0..RowMask PROVE cells'[row][slot].index < index + 1
    <3>1. cells[row][slot].index \in Nat /\ cells[row][slot].index < next
      BY <1>4 DEF IInv, OldIndexes, RowType, Entry
    <3>2. CASE row # hash[1]
      <4>1. cells'[row] = cells[row] BY <1>4, <1>5, <3>2
      <4> QED BY <1>1, <1>6, <3>1, <4>1
    <3>3. CASE row = hash[1]
      <4>1. cells'[row] = Inserted(cells[row], hash[2], index) BY <1>4, <1>5, <3>3
      <4>2. cells[row] \in RowType BY <1>4
      <4>3. cells'[row][slot].index = index \/ cells'[row][slot].index = cells[row][slot].index
        BY <4>1, <4>2, InsertedAt, RowSize, RowsAssumption
      <4> QED BY <1>1, <1>6, <3>1, <4>3
    <3> QED BY <3>2, <3>3
  <2> QED BY <1>5, <2>1, <2>2, <2>3 DEF OldIndexes, Rows, RowMask
<1>11. Chained'
  <2>1. ASSUME NEW b \in Buckets
        PROVE  ChainIn(heads[b], links, recorded[b], FrameLow, index + 1)
    <3>1. ChainIn(heads[b], links, recorded[b], FrameLow, next) BY DEF IInv, Chained
    <3>2. heads[b] \in Nat BY <1>4
    <3> QED BY <1>1, <1>4, <1>6, <3>1, <3>2, ChainLater
  <2> QED BY <1>2, <1>5, <2>1 DEF Chained
<1>12. InRows' BY <1>2, <1>5, <1>8 DEF InRows, Rows
<1>13. next' = FrameLow + at + 1 BY <1>1, <1>5 DEF index
<1> QED BY <1>5, <1>6, <1>9, <1>10, <1>11, <1>12, <1>13 DEF RowType, Rows, RowMask, Entry

\* A hash that has been taken from the cache is replaced by one further on.
LEMMA CacheAdvanced ==
  ASSUME IInv, parser.rows, NEW at \in Nat, Ahead(at), at + CacheSize + ReadSize <= end
  PROVE  LET new == Advanced(cache, at)
         IN  /\ new \in [0..(CacheSize - 1) -> Int]
             /\ \A k \in 0..(CacheSize - 1) :
                  at + 1 + k <= Limit => new[(at + 1 + k) % CacheSize] = at + 1 + k
             /\ \A slot \in 0..(CacheSize - 1) :
                  new[slot] # NotHashed => new[slot] + ReadSize <= end
<1> DEFINE new == Advanced(cache, at)
<1>1. cache \in [0..(CacheSize - 1) -> Int] BY DEF IInv, TypeOK
<1>2. Limit \in Int /\ at \in Int /\ RowsAssumption BY Shape, RowsAssumption DEF IInv
<1>3. \A k \in 0..(CacheSize - 1) : at + k <= Limit => cache[(at + k) % CacheSize] = at + k
  BY DEF Ahead
<1>4. /\ new \in [0..(CacheSize - 1) -> Int]
      /\ \A k \in 0..(CacheSize - 1) :
           at + 1 + k <= Limit => new[(at + 1 + k) % CacheSize] = at + 1 + k
      /\ \A s \in 0..(CacheSize - 1) : new[s] = at + CacheSize \/ new[s] = cache[s]
  BY <1>1, <1>2, <1>3, AdvancedIs
<1>5. ASSUME NEW slot \in 0..(CacheSize - 1), new[slot] # NotHashed
      PROVE  new[slot] + ReadSize <= end
  <2>1. CASE new[slot] = at + CacheSize BY <2>1
  <2>2. CASE new[slot] = cache[slot] BY <1>5, <2>2 DEF IInv, Hashed
  <2> QED BY <1>4, <2>1, <2>2
<1> QED BY <1>4, <1>5

LEMMA RecordInRowKeeps ==
  ASSUME IInv, NEW hash \in Hashes, RecordInRow(hash) PROVE IInv'
<1>1. /\ base \in Nat /\ next \in Nat /\ Bias \in {1, 2} /\ FrameLow \in Nat
      /\ FrameLow = base + Bias /\ FrameLow <= next
  BY Where, Shape DEF IInv
<1> DEFINE at == Unbiased(next)
<1>2. at \in Nat /\ FrameLow + at = next /\ at = next - FrameLow BY <1>1 DEF Unbiased
<1>3. /\ phase = "insert" /\ next < until /\ parser.rows
      /\ Insert(hash, at) /\ cache' = Advanced(cache, at)
      /\ UNCHANGED <<parser, base, heads, links, recorded, phase, begin, end, position, start,
                     looks, skipping, search>>
  BY DEF RecordInRow
<1>4. Bias' = Bias /\ Reach' = Reach /\ Limit' = Limit BY <1>3, ParserKept DEF Limit
<1>5. ~skipping /\ Ahead(at)
  <2>1. ~(next >= until) BY <1>1, <1>3, Where
  <2> QED BY <1>3, <2>1 DEF IInv, Hashed
<1>6. /\ until <= resume /\ resume <= base + position + Bias /\ position <= end - Reach
      /\ until \in Nat /\ resume \in Nat /\ position \in Nat /\ end \in Nat
      /\ Reach = ReadSize + CacheSize /\ ReadSize \in Nat /\ CacheSize \in Nat
  BY <1>3, Where, Shape DEF IInv, Course, Index, InSearch
<1> HIDE DEF at
<1>7. at + CacheSize + ReadSize <= end BY <1>1, <1>2, <1>3, <1>6
<1>8. /\ next' = next + 1 /\ next' \in Nat
      /\ (cells \in [Rows -> [0..RowMask -> Entry]])' /\ (written \in [Rows -> Seq(Nat \X Nat)])'
      /\ OldIndexes' /\ Chained' /\ InRows'
  <2>1. next <= FrameLow + at BY <1>1, <1>2
  <2>2. /\ next' = FrameLow + at + 1 /\ next' \in Nat
        /\ (cells \in [Rows -> [0..RowMask -> Entry]])' /\ (written \in [Rows -> Seq(Nat \X Nat)])'
        /\ OldIndexes' /\ Chained' /\ InRows'
    BY <1>2, <1>3, <2>1, InsertIs
  <2> QED BY <1>1, <1>2, <2>2
<1>9. /\ cache' \in [0..(CacheSize - 1) -> Int]
      /\ \A k \in 0..(CacheSize - 1) :
           at + 1 + k <= Limit => cache'[(at + 1 + k) % CacheSize] = at + 1 + k
      /\ \A slot \in 0..(CacheSize - 1) :
           cache'[slot] # NotHashed => cache'[slot] + ReadSize <= end
  BY <1>2, <1>3, <1>5, <1>7, CacheAdvanced
<1>10. TypeOK'
  <2>1. /\ parser \in Parsers /\ base \in Nat /\ heads \in [Buckets -> Nat]
        /\ links \in [0..(ChainSize - 1) -> Nat] /\ recorded \in [Buckets -> Seq(Nat)]
        /\ phase \in Phases /\ begin \in Nat /\ end \in Nat /\ position \in Nat /\ start \in Nat
        /\ looks \in 0..2 /\ skipping \in BOOLEAN /\ until \in Nat /\ resume \in Nat
    BY DEF IInv, TypeOK
  <2> QED BY <1>3, <1>8, <1>9, <2>1 DEF TypeOK, search
<1>11. Course'
  <2>1. base + Bias <= next + 1 /\ next + 1 <= resume /\ next + 1 <= base + end + Bias
    BY <1>1, <1>3, <1>6
  <2> QED BY <1>3, <1>4, <1>8, <2>1 DEF IInv, Course, InSearch, Index, search
<1>12. Hashed'
  <2>1. Unbiased(next)' = at + 1
    <3>1. Unbiased(next)' = (next + 1) - base - Bias BY <1>3, <1>4, <1>8 DEF Unbiased
    <3> QED BY <1>1, <1>2, <3>1
  <2>2. Ahead(Unbiased(next))' BY <1>4, <1>9, <2>1 DEF Ahead
  <2> QED BY <1>3, <1>5, <1>9, <2>2 DEF Hashed
<1> QED BY <1>8, <1>10, <1>11, <1>12 DEF IInv

LEMMA SearchRowKeeps ==
  ASSUME IInv, NEW hash \in Hashes, SearchRow(hash) PROVE IInv'
<1>1. /\ base \in Nat /\ next \in Nat /\ Bias \in {1, 2} /\ FrameLow \in Nat
      /\ FrameLow = base + Bias /\ FrameLow <= next /\ position \in Nat
  BY Where, Shape DEF IInv
<1>2. /\ phase = "search" /\ phase' = "found" /\ Insert(hash, position)
      /\ cache' = (IF skipping THEN cache ELSE Advanced(cache, position))
      /\ UNCHANGED <<parser, base, heads, links, recorded, begin, end, position, start, looks,
                     skipping, search>>
  BY DEF SearchRow
<1>3. Bias' = Bias /\ Reach' = Reach /\ Limit' = Limit BY <1>2, ParserKept DEF Limit
<1>4. /\ parser.rows /\ next = base + position + Bias /\ next = FrameLow + position
      /\ Unbiased(next) = position /\ position <= end - Reach
      /\ Reach = ReadSize + CacheSize /\ ReadSize \in Nat /\ CacheSize \in Nat /\ end \in Nat
      /\ ReadSize >= 4
  <2>1. parser.rows /\ next = base + position + Bias BY <1>2 DEF IInv, Course, Index
  <2>2. position <= end - Reach BY <1>2, Where DEF InSearch
  <2>3. /\ Reach = ReadSize + CacheSize /\ ReadSize \in Nat /\ CacheSize \in Nat /\ end \in Nat
        /\ ReadSize >= MinMatch /\ MinMatch >= 4 /\ MinMatch \in Nat
    BY <2>1, Where, Shape DEF IInv
  <2>4. Unbiased(next) = position BY <1>1, <2>1 DEF Unbiased
  <2> QED BY <1>1, <2>1, <2>2, <2>3, <2>4
<1>5. /\ next' = next + 1 /\ next' \in Nat
      /\ (cells \in [Rows -> [0..RowMask -> Entry]])' /\ (written \in [Rows -> Seq(Nat \X Nat)])'
      /\ OldIndexes' /\ Chained' /\ InRows'
  <2>1. next <= FrameLow + position BY <1>1, <1>4
  <2>2. /\ next' = FrameLow + position + 1 /\ next' \in Nat
        /\ (cells \in [Rows -> [0..RowMask -> Entry]])' /\ (written \in [Rows -> Seq(Nat \X Nat)])'
        /\ OldIndexes' /\ Chained' /\ InRows'
    BY <1>1, <1>2, <2>1, InsertIs
  <2> QED BY <1>1, <1>4, <2>2
<1>6. /\ cache' \in [0..(CacheSize - 1) -> Int]
      /\ ~skipping => \A k \in 0..(CacheSize - 1) :
           position + 1 + k <= Limit => cache'[(position + 1 + k) % CacheSize] = position + 1 + k
      /\ \A slot \in 0..(CacheSize - 1) :
           cache'[slot] # NotHashed => cache'[slot] + ReadSize <= end
  <2>1. CASE skipping BY <1>2, <1>4, <2>1 DEF IInv, TypeOK, Hashed
  <2>2. CASE ~skipping
    <3>1. Ahead(position) BY <1>2, <1>4, <2>2 DEF IInv, Hashed
    <3>2. position + CacheSize + ReadSize <= end BY <1>1, <1>4
    <3> QED BY <1>1, <1>2, <1>4, <2>2, <3>1, <3>2, CacheAdvanced
  <2> QED BY <2>1, <2>2
<1>7. TypeOK'
  <2>1. /\ parser \in Parsers /\ base \in Nat /\ heads \in [Buckets -> Nat]
        /\ links \in [0..(ChainSize - 1) -> Nat] /\ recorded \in [Buckets -> Seq(Nat)]
        /\ begin \in Nat /\ end \in Nat /\ position \in Nat /\ start \in Nat
        /\ looks \in 0..2 /\ skipping \in BOOLEAN /\ until \in Nat /\ resume \in Nat
    BY DEF IInv, TypeOK
  <2>2. phase' \in Phases BY <1>2 DEF Phases
  <2> QED BY <1>2, <1>5, <1>6, <2>1, <2>2 DEF TypeOK, search
<1>8. Course'
  <2>1. /\ base + Bias <= next + 1 /\ next + 1 <= base + end + Bias
        /\ next + 1 <= base + position + Bias + 1
    BY <1>1, <1>4
  <2> QED BY <1>2, <1>3, <1>4, <1>5, <2>1 DEF IInv, Course, InSearch, Index, search
<1>9. Hashed'
  <2>1. Unbiased(next)' = position + 1
    <3>1. Unbiased(next)' = (next + 1) - base - Bias BY <1>2, <1>3, <1>5 DEF Unbiased
    <3> QED BY <1>1, <1>4, <3>1
  <2>2. ~skipping => Ahead(Unbiased(next))' BY <1>3, <1>6, <2>1 DEF Ahead
  <2> QED BY <1>2, <1>6, <2>2 DEF Hashed
<1> QED BY <1>5, <1>7, <1>8, <1>9 DEF IInv

LEMMA RecordedKeeps ==
  ASSUME IInv, Recorded PROVE IInv'
<1>1. /\ base \in Nat /\ next \in Nat /\ Bias \in {1, 2} /\ position \in Nat
      /\ until \in Nat /\ resume \in Nat /\ end \in Nat /\ TailUpdates \in Nat \ {0}
      /\ base + Bias <= next /\ CacheSize \in Nat \ {0} /\ CacheSize <= TailUpdates + 2
      /\ ReadSize \in Nat /\ ReadSize >= MinMatch /\ MinMatch >= 4 /\ MinMatch \in Nat
      /\ Reach = (IF parser.rows THEN ReadSize + CacheSize ELSE ReadSize) /\ Reach \in Nat
  BY Where, Shape DEF IInv
<1>2. /\ phase = "insert" /\ next >= until /\ next' = resume
      /\ UNCHANGED <<parser, base, heads, links, cells, recorded, written, begin, end, position,
                     start, looks, skipping>>
  BY DEF Recorded
<1>3. Index(position) = base + position + Bias BY DEF Index
<1>4. /\ next <= resume /\ until <= resume /\ resume <= base + position + Bias
      /\ resume # base + position + Bias => resume + TailUpdates = base + position + Bias
      /\ resume = base + position + Bias /\ ~skipping => until = resume
      /\ position <= end - Reach
  BY <1>1, <1>2, <1>3, Where DEF IInv, Course, InSearch
<1>5. Bias' = Bias /\ Reach' = Reach /\ Limit' = Limit /\ Limit = end - Reach
  BY <1>2, ParserKept DEF Limit
<1>6. OldIndexes' /\ Chained' /\ InRows' BY <1>1, <1>2, <1>4, TablesKept
<1>7. /\ base + Bias <= resume /\ resume <= base + end + Bias BY <1>1, <1>4
<1>8. /\ parser \in Parsers /\ base \in Nat /\ heads \in [Buckets -> Nat]
      /\ links \in [0..(ChainSize - 1) -> Nat] /\ recorded \in [Buckets -> Seq(Nat)]
      /\ (cells \in [Rows -> [0..RowMask -> Entry]])' /\ (written \in [Rows -> Seq(Nat \X Nat)])'
      /\ cache \in [0..(CacheSize - 1) -> Int]
      /\ begin \in Nat /\ end \in Nat /\ position \in Nat /\ start \in Nat
      /\ looks \in 0..2 /\ skipping \in BOOLEAN /\ until \in Nat /\ resume \in Nat
  BY <1>2 DEF IInv, TypeOK, Rows, RowMask, Entry
<1>9. CASE resume = Index(position)
  <2>1. /\ phase' = (IF parser.rows THEN "search" ELSE "found")
        /\ UNCHANGED <<search, cache>>
    BY <1>2, <1>9 DEF Recorded
  <2>2. (phase' = "search" /\ parser.rows) \/ (phase' = "found" /\ ~parser.rows)
    <3>1. CASE parser.rows BY <2>1, <3>1
    <3>2. CASE ~parser.rows BY <2>1, <3>2
    <3> QED BY <3>1, <3>2
  <2>3. phase' \in Phases BY <2>2 DEF Phases
  <2>4. TypeOK' BY <1>2, <1>8, <2>1, <2>3 DEF TypeOK, search
  <2>5. Course'
    <3>1. Index(position)' = Index(position) /\ Index(end)' = Index(end)
          /\ (base + Bias)' = base + Bias
      BY <1>2, <1>5 DEF Index
    <3>2. next' = Index(position)' BY <1>2, <1>9, <3>1
    <3>3. (base + Bias <= next /\ next <= Index(end))' BY <1>2, <1>5, <1>7 DEF Index
    <3>4. begin <= end /\ Index(end) <= MaxIndex /\ position <= Limit /\ position <= start + looks
      BY <1>2 DEF IInv, Course, InSearch
    <3>5. (begin <= end /\ Index(end) <= MaxIndex /\ position <= Limit
           /\ position <= start + looks)'
      BY <1>2, <1>5, <3>1, <3>4
    <3>6. next' <= Index(position)' + 1
      <4>1. resume <= resume + 1 BY <1>1
      <4> QED BY <1>2, <3>2, <4>1
    <3> QED BY <1>2, <2>2, <3>2, <3>3, <3>5, <3>6 DEF Course, InSearch
  <2>6. Hashed'
    <3>1. ASSUME parser.rows, ~skipping PROVE Ahead(Unbiased(next))'
      <4>1. next = resume BY <1>1, <1>2, <1>3, <1>4, <1>9, <3>1
      <4>2. Ahead(Unbiased(next)) BY <1>2, <3>1 DEF IInv, Hashed
      <4>3. Unbiased(next)' = Unbiased(next) BY <1>2, <1>5, <4>1 DEF Unbiased
      <4> QED BY <1>5, <2>1, <4>2, <4>3 DEF Ahead
    <3>2. \A slot \in 0..(CacheSize - 1) :
            parser.rows /\ cache[slot] # NotHashed => cache[slot] + ReadSize <= end
      BY DEF IInv, Hashed
    <3> QED BY <1>2, <2>1, <2>2, <3>1, <3>2 DEF Hashed
  <2> QED BY <1>6, <2>4, <2>5, <2>6 DEF IInv
<1>10. CASE resume # Index(position)
  <2>1. /\ phase' = "insert" /\ until' = Index(position) /\ resume' = Index(position)
        /\ cache' = (IF parser.rows THEN Refilled ELSE cache)
    BY <1>2, <1>10 DEF Recorded
  <2>2. resume + TailUpdates = base + position + Bias BY <1>3, <1>4, <1>10
  <2> DEFINE from == Unbiased(resume)
             last == position + 1
  <2>3. from \in Int /\ from + TailUpdates = position /\ last \in Int BY <1>1, <2>2 DEF Unbiased
  <2>4. Refilled = Filled(cache, from, last) BY DEF Refilled
  <2> HIDE DEF from, last
  <2>5. /\ Refilled \in [0..(CacheSize - 1) -> Int]
        /\ \A k \in 0..(CacheSize - 1) :
             from + k <= last => Refilled[(from + k) % CacheSize] = from + k
        /\ \A s \in 0..(CacheSize - 1) : Refilled[s] <= last \/ Refilled[s] = cache[s]
    <3>1. cache \in [0..(CacheSize - 1) -> Int] BY <1>8
    <3> DEFINE new == Filled(cache, from, last)
    <3>2. /\ new \in [0..(CacheSize - 1) -> Int]
          /\ \A k \in 0..(CacheSize - 1) :
               from + k <= last => new[(from + k) % CacheSize] = from + k
          /\ \A s \in 0..(CacheSize - 1) : new[s] <= last \/ new[s] = cache[s]
      BY <2>3, <3>1, FilledIs, RowsAssumption
    <3>3. Refilled = new BY <2>4
    <3> HIDE DEF new
    <3> QED BY <3>2, <3>3
  <2>6. TypeOK'
    <3>1. phase' \in Phases BY <2>1 DEF Phases
    <3>2. until' \in Nat /\ resume' \in Nat BY <1>1, <1>3, <2>1
    <3>3. cache' \in [0..(CacheSize - 1) -> Int] BY <1>8, <2>1, <2>5
    <3> QED BY <1>2, <1>8, <3>1, <3>2, <3>3 DEF TypeOK
  <2>7. Course'
    <3>1. Index(position)' = Index(position) /\ Index(end)' = Index(end)
      BY <1>2, <1>5 DEF Index
    <3>2. resume' = Index(position)' /\ until' = resume' BY <2>1, <3>1
    <3>3. (base + Bias <= next /\ next <= Index(end))' BY <1>2, <1>5, <1>7 DEF Index
    <3>4. begin <= end /\ Index(end) <= MaxIndex /\ position <= Limit /\ position <= start + looks
      BY <1>2 DEF IInv, Course, InSearch
    <3>5. (begin <= end /\ Index(end) <= MaxIndex /\ position <= Limit
           /\ position <= start + looks)'
      BY <1>2, <1>5, <3>1, <3>4
    <3>6. next' <= resume' /\ until' <= resume' /\ resume' <= Index(position)'
      <4>1. resume <= Index(position) /\ Index(position) <= Index(position) BY <1>1, <1>3, <1>4
      <4> QED BY <1>2, <2>1, <3>1, <4>1
    <3> QED BY <1>2, <2>1, <3>2, <3>3, <3>5, <3>6 DEF Course, InSearch
  <2>8. Hashed'
    <3>1. ASSUME parser.rows PROVE Ahead(Unbiased(next))'
      <4>1. Unbiased(next)' = from BY <1>2, <1>5 DEF Unbiased, from
      <4>2. ASSUME NEW k \in 0..(CacheSize - 1) PROVE cache'[(from + k) % CacheSize] = from + k
        <5>1. from + k <= last BY <1>1, <2>3 DEF last
        <5> QED BY <2>1, <2>5, <3>1, <5>1
      <4> QED BY <4>1, <4>2 DEF Ahead
    <3>2. ASSUME NEW slot \in 0..(CacheSize - 1), parser.rows, cache'[slot] # NotHashed
          PROVE  cache'[slot] + ReadSize <= end
      <4>1. cache' = Refilled BY <2>1, <3>2
      <4>2. PICK c \in Int : c = Refilled[slot] BY <2>5
      <4>3. CASE c <= last
        <5>1. c + ReadSize <= end BY <1>1, <1>4, <3>2, <4>3 DEF last
        <5> QED BY <4>1, <4>2, <5>1
      <4>4. CASE c = cache[slot]
        <5>1. cache[slot] + ReadSize <= end BY <3>2, <4>1, <4>2, <4>4 DEF IInv, Hashed
        <5> QED BY <4>1, <4>2, <4>4, <5>1
      <4> QED BY <2>5, <4>2, <4>3, <4>4
    <3>3. parser.rows /\ skipping => FALSE
      BY <1>2, <1>10 DEF IInv, Hashed
    <3> QED BY <1>2, <2>1, <3>1, <3>2, <3>3 DEF Hashed
  <2> QED BY <1>6, <2>6, <2>7, <2>8 DEF IInv
<1> QED BY <1>9, <1>10

LEMMA TakeKeeps ==
  ASSUME IInv, NEW length \in 1..(end - begin), Take(length) PROVE IInv'
<1>1. /\ base \in Nat /\ next \in Nat /\ Bias \in {1, 2} /\ position \in Nat /\ start \in Nat
      /\ begin \in Nat /\ end \in Nat /\ looks \in 0..2 /\ base + Bias <= next
      /\ ReadSize \in Nat /\ MinMatch >= 4 /\ MinMatch \in Nat /\ CacheSize \in Nat \ {0}
  BY Where, Shape DEF IInv
<1>2. /\ phase = "taken" /\ length >= MinMatch /\ start + length <= end
      /\ position' = start + length /\ start' = start + length
      /\ skipping' = FALSE /\ looks' = 0 /\ phase' = "scan" /\ cache' = FilledAgain
      /\ UNCHANGED <<parser, base, next, heads, links, cells, recorded, written, begin, end, search>>
  BY DEF Take, Shortest
<1>3. length \in Nat BY <1>1
<1>4. Bias' = Bias /\ Reach' = Reach /\ Limit' = Limit /\ Limit = end - Reach
  BY <1>2, ParserKept DEF Limit
<1>5. start + length \in Nat /\ next <= base + (start + length) + Bias
  <2>1. position <= start + looks /\ next <= base + position + Bias + 1 BY <1>2, Where
  <2> QED BY <1>1, <1>2, <1>3, <2>1
<1>6. OldIndexes' /\ Chained' /\ InRows'
  <2>1. next' \in Nat /\ next <= next' BY <1>1, <1>2
  <2> QED BY <1>2, <2>1, TablesKept
<1>7. cache \in [0..(CacheSize - 1) -> Int] BY DEF IInv, TypeOK
<1> DEFINE from == Unbiased(next)
           last == Limit
<1>8. from \in Int /\ last \in Int /\ last = end - Reach /\ Reach \in Nat
      /\ (parser.rows => Reach = ReadSize + CacheSize)
  <2>1. last \in Int /\ last = end - Reach /\ Reach \in Nat
        /\ (parser.rows => Reach = ReadSize + CacheSize)
    BY Shape DEF IInv
  <2> QED BY <1>1, <2>1 DEF Unbiased
<1> HIDE DEF from, last
<1>9. /\ cache' \in [0..(CacheSize - 1) -> Int]
      /\ parser.rows => \A k \in 0..(CacheSize - 1) :
           from + k <= last => cache'[(from + k) % CacheSize] = from + k
      /\ parser.rows => \A slot \in 0..(CacheSize - 1) :
           cache'[slot] # NotHashed => cache'[slot] + ReadSize <= end
  <2>1. CASE parser.rows /\ skipping
    <3> DEFINE new == Filled(cache, from, last)
    <3>1. cache' = new BY <1>2, <2>1 DEF FilledAgain, from, last
    <3>2. /\ new \in [0..(CacheSize - 1) -> Int]
          /\ \A k \in 0..(CacheSize - 1) :
               from + k <= last => new[(from + k) % CacheSize] = from + k
          /\ \A s \in 0..(CacheSize - 1) : new[s] <= last \/ new[s] = cache[s]
      BY <1>7, <1>8, FilledIs, RowsAssumption
    <3> HIDE DEF new
    <3>3. ASSUME NEW slot \in 0..(CacheSize - 1), new[slot] # NotHashed
          PROVE  new[slot] + ReadSize <= end
      <4>1. PICK c \in Int : c = new[slot] BY <3>2
      <4>2. CASE c <= last
        <5>1. c + ReadSize <= end BY <1>1, <1>8, <2>1, <4>2
        <5> QED BY <4>1, <5>1
      <4>3. CASE c = cache[slot] BY <2>1, <3>3, <4>1, <4>3 DEF IInv, Hashed
      <4> QED BY <3>2, <4>1, <4>2, <4>3
    <3> QED BY <3>1, <3>2, <3>3
  <2>2. CASE ~(parser.rows /\ skipping)
    <3>1. cache' = cache BY <1>2, <2>2 DEF FilledAgain
    <3>2. parser.rows => Ahead(from) BY <1>2, <2>2 DEF IInv, Hashed, from
    <3>3. parser.rows => \A slot \in 0..(CacheSize - 1) :
            cache[slot] # NotHashed => cache[slot] + ReadSize <= end
      BY DEF IInv, Hashed
    <3> QED BY <1>7, <3>1, <3>2, <3>3 DEF Ahead, last
  <2> QED BY <2>1, <2>2
<1>10. TypeOK'
  <2>1. /\ parser \in Parsers /\ base \in Nat /\ next \in Nat /\ heads \in [Buckets -> Nat]
        /\ links \in [0..(ChainSize - 1) -> Nat] /\ recorded \in [Buckets -> Seq(Nat)]
        /\ (cells \in [Rows -> [0..RowMask -> Entry]])' /\ (written \in [Rows -> Seq(Nat \X Nat)])'
        /\ begin \in Nat /\ end \in Nat /\ until \in Nat /\ resume \in Nat
    BY <1>2 DEF IInv, TypeOK, Rows, RowMask, Entry
  <2>2. phase' = "scan" /\ skipping' = FALSE /\ looks' \in 0..2 BY <1>2
  <2>3. position' \in Nat /\ start' \in Nat BY <1>2, <1>5
  <2> QED BY <1>2, <1>9, <2>1, <2>2, <2>3 DEF TypeOK, Phases, search
<1>11. Course'
  <2>1. Index(end)' = Index(end) BY <1>2, <1>4 DEF Index
  <2>2. next' <= Index(position)' BY <1>2, <1>4, <1>5 DEF Index
  <2>3. base + Bias <= next /\ next <= Index(end) /\ begin <= end /\ Index(end) <= MaxIndex
    BY <1>2 DEF IInv, Course
  <2>4. (base + Bias <= next /\ next <= Index(end) /\ begin <= end /\ Index(end) <= MaxIndex)'
    BY <1>2, <1>4, <2>1, <2>3
  <2> QED BY <1>2, <2>2, <2>4 DEF Course, InSearch
<1>12. Hashed'
  <2>1. Unbiased(next)' = from BY <1>2, <1>4 DEF Unbiased, from
  <2>2. parser.rows => Ahead(Unbiased(next))' BY <1>4, <1>9, <2>1 DEF Ahead, last
  <2> QED BY <1>2, <1>9, <2>2 DEF Hashed
<1> QED BY <1>6, <1>10, <1>11, <1>12 DEF IInv

----------------------------------------------------------------------------
\* What every reachable state satisfies.
THEOREM Invariance == Spec => []IInv
<1>1. Init => IInv BY InitHolds
<1>2. IInv /\ [Next]_vars => IInv'
  <2> SUFFICES ASSUME IInv, [Next]_vars PROVE IInv' OBVIOUS
  <2>1. CASE Reset BY <2>1, ResetKeeps
  <2>2. CASE \E size \in 1..MaxInput : BeginBlock(size) \/ SkipBlock(size) \/ Shortcut(size)
    BY <2>2, BeginBlockKeeps, SkipBlockKeeps, ShortcutKeeps
  <2>3. CASE Scan \/ Look \/ Recorded \/ GreedyRepeat \/ Better \/ EndLook \/ EndBlock
    BY <2>3, ScanKeeps, LookKeeps, RecordedKeeps, GreedyRepeatKeeps, BetterKeeps, EndLookKeeps,
       EndBlockKeeps
  <2>4. CASE \E bucket \in Buckets : Record(bucket) BY <2>4, RecordKeeps
  <2>5. CASE \E hash \in Hashes : RecordInRow(hash) \/ SearchRow(hash)
    BY <2>5, RecordInRowKeeps, SearchRowKeeps
  <2>6. CASE \E step \in 1..MaxStep : Miss(step) BY <2>6, MissKeeps
  <2>7. CASE \E at \in {position, position + 1} : Hit(at) BY <2>7, HitKeeps
  <2>8. CASE \E repeat \in BOOLEAN : NotBetter(repeat) BY <2>8, NotBetterKeeps
  <2>9. CASE \E length \in 1..(end - begin) : Take(length) \/ ImmediateRepeat(length)
    BY <2>9, TakeKeeps, ImmediateRepeatKeeps
  <2>10. CASE UNCHANGED vars BY <2>10, StutterKeeps
  <2> QED BY <2>1, <2>2, <2>3, <2>4, <2>5, <2>6, <2>7, <2>8, <2>9, <2>10 DEF Next
<1> QED BY <1>1, <1>2, PTL DEF Spec

----------------------------------------------------------------------------
(* The searches.                                                           *)

\* Where the window begins, and that no search looks below it or at what is hidden.
LEMMA LowIs ==
  ASSUME IInv, phase \in {"found", "search"}, next = Index(position)
  PROVE  /\ LowLimit \in Nat /\ LowLimit > 0 /\ FrameLow <= LowLimit /\ FrameLow \in Nat
         /\ \A index \in Nat : Hidden(index, FrameLow, next) => index < LowLimit
<1>1. /\ base \in Nat /\ next \in Nat /\ Bias \in {1, 2} /\ position \in Nat /\ Window \in Nat
      /\ FrameLow = base + Bias /\ FrameLow \in Nat
  BY Where, Shape DEF IInv
<1>2. LowLimit = IF next - FrameLow > Window THEN next - Window ELSE FrameLow BY DEF LowLimit
<1>3. LowLimit \in Nat /\ LowLimit > 0 /\ FrameLow <= LowLimit BY <1>1, <1>2
<1>4. ASSUME NEW index \in Nat, Hidden(index, FrameLow, next) PROVE index < LowLimit
  BY <1>1, <1>2, <1>4 DEF Hidden
<1> QED BY <1>1, <1>3, <1>4

\* Of a bucket's list, what is inside the window and what of it still has links.
LEMMA NearIs ==
  ASSUME IInv, phase \in {"found", "search"}, next = Index(position), NEW bucket \in Buckets
  PROVE  LET list   == recorded[bucket]
             near   == Newest(list, Unbiased(LowLimit))
             linked == Newest(near, Unbiased(MinimumChain + 1))
         IN  /\ list \in Seq(Nat) /\ Len(list) \in Nat /\ \A i \in 1..Len(list) : list[i] \in Nat
             /\ Len(near) \in 0..Len(list) /\ Len(linked) \in 0..Len(near)
             /\ \A i \in 1..Len(near) : near[i] = list[i]
             /\ \A i \in 1..Len(list) : i <= Len(near) <=> FrameLow + list[i] >= LowLimit
             /\ \A i \in 1..Len(near) : i <= Len(linked) <=> Followed(FrameLow + list[i])
<1> DEFINE list   == recorded[bucket]
           from   == Unbiased(LowLimit)
           near   == Newest(list, from)
           last   == Unbiased(MinimumChain + 1)
           linked == Newest(near, last)
<1>1. /\ base \in Nat /\ next \in Nat /\ Bias \in {1, 2} /\ ChainSize \in Nat
      /\ FrameLow = base + Bias /\ FrameLow \in Nat
  BY Where, Shape DEF IInv
<1>2. LowLimit \in Nat BY LowIs
<1>3. MinimumChain \in Nat BY <1>1 DEF MinimumChain
<1>4. /\ list \in Seq(Nat) /\ Len(list) \in Nat /\ \A i \in 1..Len(list) : list[i] \in Nat
      /\ \A i, j \in 1..Len(list) : i < j => list[j] < list[i]
  <2>1. ChainIn(heads[bucket], links, list, FrameLow, next) BY DEF IInv, Chained
  <2> QED BY <1>1, <2>1, ChainList
<1>5. from \in Int /\ from = LowLimit - FrameLow BY <1>1, <1>2 DEF Unbiased
<1>6. last \in Int /\ last = MinimumChain + 1 - FrameLow BY <1>1, <1>3 DEF Unbiased
<1> HIDE DEF list, from, last, near, linked
<1>7. /\ near \in Seq(Nat) /\ Len(near) \in 0..Len(list)
      /\ \A i \in 1..Len(near) : near[i] = list[i]
      /\ \A i \in 1..Len(list) : i <= Len(near) <=> list[i] >= from
  BY <1>4, <1>5, NewestAre DEF near
<1>8. \A i, j \in 1..Len(near) : i < j => near[j] < near[i]
  <2>1. ASSUME NEW i \in 1..Len(near), NEW j \in 1..Len(near), i < j PROVE near[j] < near[i]
    <3>1. i \in 1..Len(list) /\ j \in 1..Len(list) BY <1>4, <1>7
    <3> QED BY <1>4, <1>7, <2>1, <3>1
  <2> QED BY <2>1
<1>9. Len(linked) \in 0..Len(near) /\ \A i \in 1..Len(near) : i <= Len(linked) <=> near[i] >= last
  BY <1>6, <1>7, <1>8, NewestAre DEF linked
<1>10. ASSUME NEW i \in 1..Len(list)
       PROVE  i <= Len(near) <=> FrameLow + list[i] >= LowLimit
  <2>1. list[i] \in Nat /\ (i <= Len(near) <=> list[i] >= from) BY <1>4, <1>7
  <2> QED BY <1>1, <1>2, <1>5, <2>1
<1>11. ASSUME NEW i \in 1..Len(near)
       PROVE  i <= Len(linked) <=> Followed(FrameLow + list[i])
  <2>1. list[i] \in Nat /\ (i <= Len(linked) <=> list[i] >= last)
    <3>1. i \in 1..Len(list) BY <1>4, <1>7
    <3> QED BY <1>4, <1>7, <1>9, <3>1
  <2> QED BY <1>1, <1>3, <1>6, <2>1 DEF Followed
<1> QED BY <1>4, <1>7, <1>9, <1>10, <1>11 DEF list, from, near, last, linked

\* The search in the chains goes from position to position of its bucket.
LEMMA WalkIs ==
  ASSUME IInv, phase = "found", ~parser.rows, NEW bucket \in Buckets
  PROVE  Walk(bucket) = Reachable(bucket)
<1> DEFINE head   == heads[bucket]
           list   == recorded[bucket]
           near   == Newest(list, Unbiased(LowLimit))
           linked == Newest(near, Unbiased(MinimumChain + 1))
           long   == Len(near)
           end_   == Smaller(Len(linked) + 1, long)
           count  == Smaller(end_, Attempts)
           low    == FrameLow
           Body(f, i) == IF i = 0 THEN head
                         ELSE IF f[i - 1] >= LowLimit /\ Followed(f[i - 1])
                              THEN links[Slot(f[i - 1])] ELSE 0
           turn   == CHOOSE f : f = [i \in 0..Attempts |-> Body(f, i)]
           Is(n)  == /\ \A i \in 0..(n - 1) : turn[i] >= LowLimit
                     /\ n = Attempts \/ turn[n] < LowLimit
           turns  == CHOOSE n \in 0..Attempts : Is(n)
<1>0. next = Index(position) /\ phase \in {"found", "search"} BY DEF IInv, Course
<1>1. /\ next \in Nat /\ low \in Nat /\ ChainSize \in Nat \ {0} /\ Attempts \in Nat \ {0}
      /\ links \in Ring /\ head \in Nat
  BY Where, Shape, ConstantsAssumption DEF IInv, TypeOK, Ring
<1>2. /\ LowLimit \in Nat /\ LowLimit > 0 /\ low <= LowLimit
      /\ \A index \in Nat : Hidden(index, low, next) => index < LowLimit
  BY <1>0, LowIs
<1>3. /\ list \in Seq(Nat) /\ Len(list) \in Nat /\ \A i \in 1..Len(list) : list[i] \in Nat
      /\ Len(near) \in 0..Len(list) /\ Len(linked) \in 0..Len(near)
      /\ \A i \in 1..Len(near) : near[i] = list[i]
      /\ \A i \in 1..Len(list) : i <= Len(near) <=> low + list[i] >= LowLimit
      /\ \A i \in 1..Len(near) : i <= Len(linked) <=> Followed(low + list[i])
  BY <1>0, NearIs
<1>4. ChainIn(head, links, list, low, next) BY DEF IInv, Chained
<1>5. Walk(bucket) = [i \in 1..turns |-> turn[i - 1]] BY DEF Walk
<1>6. Reachable(bucket) = [i \in 1..count |-> Index(near[i])] BY DEF Reachable
<1> HIDE DEF list, head, near, linked, low
<1>7. /\ long \in Nat /\ end_ \in 0..long /\ count \in 0..end_ /\ count \in 0..Attempts
      /\ count # Attempts => count = end_
      /\ end_ = long \/ end_ = Len(linked) + 1
      /\ end_ <= Len(linked) + 1 /\ Len(linked) \in Nat
  BY <1>1, <1>3 DEF Smaller
<1> HIDE DEF long, end_, count
<1>8. ASSUME NEW index \in Nat, NEW i \in Nat \ {0}, Shows(index, list, i, low, next)
      PROVE  IF i <= long THEN index = low + list[i] /\ index >= LowLimit ELSE index < LowLimit
  <2>1. CASE i > Len(list)
    <3>1. ~(i <= long) BY <1>3, <2>1 DEF long
    <3>2. Hidden(index, low, next) BY <1>8, <2>1 DEF Shows
    <3> QED BY <1>2, <3>1, <3>2
  <2>2. CASE ~(i > Len(list))
    <3>1. i \in 1..Len(list) BY <1>3, <2>2
    <3>2. index = low + list[i] BY <1>8, <2>2 DEF Shows
    <3>3. i <= long <=> low + list[i] >= LowLimit BY <1>3, <3>1 DEF long
    <3>4. list[i] \in Nat BY <1>3, <3>1
    <3> QED BY <1>1, <1>2, <3>2, <3>3, <3>4
  <2> QED BY <2>1, <2>2
<1>9. ASSUME NEW i \in 1..long
      PROVE  /\ low + list[i] \in Nat /\ low + list[i] >= LowLimit
             /\ Followed(low + list[i]) <=> i <= Len(linked)
             /\ Followed(low + list[i]) =>
                  /\ links[Slot(low + list[i])] \in Nat
                  /\ Shows(links[Slot(low + list[i])], list, i + 1, low, next)
  <2>1. i \in 1..Len(list) /\ i \in 1..Len(near) BY <1>3 DEF long
  <2>2. list[i] \in Nat /\ low + list[i] \in Nat BY <1>1, <1>3, <2>1
  <2>3. links[Slot(low + list[i])] \in Nat BY <1>1, <2>2, ChainLinks DEF Slot
  <2>4. ASSUME Followed(low + list[i]) PROVE low + list[i] + ChainSize >= next
    BY <1>0, <1>1, <2>2, <2>4 DEF Followed, MinimumChain
  <2>5. Followed(low + list[i]) => Shows(links[Slot(low + list[i])], list, i + 1, low, next)
    BY <1>4, <2>1, <2>4 DEF ChainIn, Slot
  <2>6. i <= Len(near) <=> low + list[i] >= LowLimit BY <1>3, <2>1
  <2>7. i <= Len(linked) <=> Followed(low + list[i]) BY <1>3, <2>1
  <2> QED BY <2>1, <2>2, <2>3, <2>5, <2>6, <2>7
<1> DEFINE out == IF end_ = 0 THEN head
                  ELSE IF Followed(low + list[end_]) THEN links[Slot(low + list[end_])] ELSE 0
           w == [i \in 0..Attempts |->
                   IF i < end_ THEN low + list[i + 1] ELSE IF i = end_ THEN out ELSE 0]
<1>10. out \in Nat /\ out < LowLimit
  <2>1. CASE end_ = 0
    <3>1. Shows(head, list, 1, low, next) BY <1>4 DEF ChainIn
    <3>2. ~(1 <= long) BY <1>7, <2>1
    <3> QED BY <1>1, <1>8, <2>1, <3>1, <3>2
  <2>2. CASE end_ # 0 /\ Followed(low + list[end_])
    <3>1. end_ \in 1..long BY <1>7, <2>2
    <3>2. end_ <= Len(linked) BY <1>9, <2>2, <3>1
    <3>3. end_ + 1 \in Nat \ {0} /\ ~(end_ + 1 <= long) BY <1>7, <3>1, <3>2
    <3>4. /\ links[Slot(low + list[end_])] \in Nat
          /\ Shows(links[Slot(low + list[end_])], list, end_ + 1, low, next)
      BY <1>9, <2>2, <3>1
    <3> QED BY <1>8, <2>2, <3>3, <3>4
  <2>3. CASE end_ # 0 /\ ~Followed(low + list[end_]) BY <1>2, <2>3
  <2> QED BY <2>1, <2>2, <2>3
<1>11. ASSUME NEW i \in 0..Attempts, i < end_
       PROVE  /\ i + 1 \in 1..long /\ w[i] = low + list[i + 1]
              /\ w[i] \in Nat /\ w[i] >= LowLimit
              /\ i + 1 < end_ => Followed(w[i]) /\ links[Slot(w[i])] = low + list[i + 2]
              /\ i + 1 = end_ => (IF Followed(w[i]) THEN links[Slot(w[i])] ELSE 0) = out
  <2>1. i + 1 \in 1..long /\ i \in Nat /\ end_ \in Nat BY <1>7, <1>11
  <2>2. w[i] = low + list[i + 1] BY <1>11
  <2> HIDE DEF w
  <2>3. w[i] \in Nat /\ w[i] >= LowLimit BY <1>9, <2>1, <2>2
  <2>4. ASSUME i + 1 < end_ PROVE Followed(w[i]) /\ links[Slot(w[i])] = low + list[i + 2]
    <3>1. i + 1 <= Len(linked) BY <1>7, <2>1, <2>4
    <3>2. Followed(w[i]) BY <1>9, <2>1, <2>2, <3>1
    <3>3. links[Slot(w[i])] \in Nat /\ Shows(links[Slot(w[i])], list, i + 2, low, next)
      <4>1. (i + 1) + 1 = i + 2 BY <2>1
      <4> QED BY <1>9, <2>1, <2>2, <3>2, <4>1
    <3>4. i + 2 \in Nat \ {0} /\ i + 2 <= long BY <1>7, <2>1, <2>4
    <3> QED BY <1>8, <3>2, <3>3, <3>4
  <2>5. ASSUME i + 1 = end_
        PROVE  (IF Followed(w[i]) THEN links[Slot(w[i])] ELSE 0) = out
    <3>1. end_ # 0 /\ w[i] = low + list[end_] BY <2>1, <2>2, <2>5
    <3> QED BY <3>1
  <2> HIDE DEF out
  <2> QED BY <2>1, <2>2, <2>3, <2>4, <2>5
<1>12. w = [i \in 0..Attempts |-> Body(w, i)]
  <2>1. ASSUME NEW i \in 0..Attempts PROVE w[i] = Body(w, i)
    <3>1. CASE i = 0
      <4>1. CASE end_ = 0 BY <3>1, <4>1
      <4>2. CASE end_ # 0
        <5>1. 0 < end_ /\ 1 \in 1..long BY <1>7, <4>2
        <5>2. head = low + list[1]
          <6>1. Shows(head, list, 1, low, next) BY <1>4 DEF ChainIn
          <6>2. 1 \in Nat \ {0} /\ 1 <= long BY <5>1
          <6> QED BY <1>1, <1>8, <6>1, <6>2
        <5>3. w[0] = low + list[1] BY <3>1, <5>1
        <5> QED BY <3>1, <5>2, <5>3
      <4> QED BY <4>1, <4>2
    <3>2. CASE i # 0 /\ i - 1 < end_
      <4>1. i - 1 \in 0..Attempts /\ (i - 1) + 1 = i /\ (i - 1) + 2 = i + 1 BY <1>1, <3>2
      <4>2. /\ w[i - 1] >= LowLimit
            /\ i < end_ => Followed(w[i - 1]) /\ links[Slot(w[i - 1])] = low + list[i + 1]
            /\ i = end_ => (IF Followed(w[i - 1]) THEN links[Slot(w[i - 1])] ELSE 0) = out
        <5> HIDE DEF w, out
        <5> QED BY <1>11, <3>2, <4>1
      <4>3. i < end_ \/ i = end_ BY <1>7, <3>2
      <4>4. w[i] = IF i < end_ THEN low + list[i + 1] ELSE IF i = end_ THEN out ELSE 0 OBVIOUS
      <4> HIDE DEF w, out
      <4>5. CASE i < end_ BY <3>2, <4>2, <4>4, <4>5
      <4>6. CASE i = end_
        <5>1. ~(i < end_) BY <1>7, <4>6
        <5> QED BY <3>2, <4>2, <4>4, <4>6, <5>1
      <4> QED BY <4>3, <4>5, <4>6
    <3>3. CASE i # 0 /\ ~(i - 1 < end_)
      <4>1. i - 1 \in 0..Attempts /\ ~(i < end_) /\ i # end_ BY <1>1, <1>7, <3>3
      <4>2. w[i] = 0 BY <4>1
      <4>3. w[i - 1] = out \/ w[i - 1] = 0 BY <3>3, <4>1
      <4> HIDE DEF w, out
      <4>4. ~(w[i - 1] >= LowLimit) BY <1>2, <1>10, <4>3
      <4> QED BY <3>3, <4>2, <4>4
    <3> QED BY <3>1, <3>2, <3>3
  <2>2. w = [i \in 0..Attempts |-> w[i]] OBVIOUS
  <2> HIDE DEF w, Body
  <2> QED BY <2>1, <2>2
<1>13. turn = [i \in 0..Attempts |-> Body(turn, i)]
  <2>1. \E f : f = [i \in 0..Attempts |-> Body(f, i)]
    <3> HIDE DEF w, Body
    <3> QED BY <1>12
  <2> HIDE DEF Body
  <2> QED BY <2>1
<1> DEFINE T == {i \in Nat : i <= Attempts => turn[i] = w[i]}
<1>14. ASSUME NEW i \in Nat, \A k \in Nat : k < i => k \in T PROVE i \in T
  <2> SUFFICES ASSUME i <= Attempts PROVE turn[i] = w[i] OBVIOUS
  <2>1. i \in 0..Attempts BY <1>1
  <2>2. turn[i] = Body(turn, i) /\ w[i] = Body(w, i)
    <3> HIDE DEF turn, w, Body
    <3> QED BY <1>12, <1>13, <2>1
  <2>3. i # 0 => turn[i - 1] = w[i - 1]
    <3>1. i # 0 => i - 1 \in Nat /\ i - 1 < i /\ i - 1 <= Attempts BY <1>1, <2>1
    <3> HIDE DEF turn, w
    <3> QED BY <1>14, <3>1
  <2> HIDE DEF turn, w
  <2> QED BY <2>2, <2>3
<1> HIDE DEF T
<1>15. \A i \in Nat : i \in T BY <1>14, Induction
<1>16. \A i \in 0..Attempts : turn[i] = w[i]
  <2> SUFFICES ASSUME NEW i \in 0..Attempts PROVE turn[i] = w[i] OBVIOUS
  <2>1. i \in Nat /\ i <= Attempts BY <1>1
  <2>2. i \in T BY <1>15, <2>1
  <2> HIDE DEF turn, w
  <2> QED BY <2>1, <2>2 DEF T
<1> HIDE DEF turn, out
<1>17. /\ \A i \in 0..Attempts : i < end_ => turn[i] = low + list[i + 1] /\ turn[i] >= LowLimit
       /\ end_ <= Attempts => turn[end_] < LowLimit
  <2>1. ASSUME NEW i \in 0..Attempts, i < end_
        PROVE  turn[i] = low + list[i + 1] /\ turn[i] >= LowLimit
    <3> HIDE DEF w
    <3> QED BY <1>11, <1>16, <2>1
  <2>2. ASSUME end_ <= Attempts PROVE turn[end_] < LowLimit
    <3>1. end_ \in 0..Attempts /\ ~(end_ < end_) BY <1>7, <2>2
    <3>2. w[end_] = out BY <3>1
    <3> HIDE DEF w
    <3> QED BY <1>10, <1>16, <3>1, <3>2
  <2> QED BY <2>1, <2>2
<1> HIDE DEF w
<1>18. Is(count)
  <2>1. ASSUME NEW i \in 0..(count - 1) PROVE turn[i] >= LowLimit
    <3>1. i \in 0..Attempts /\ i < end_ BY <1>1, <1>7
    <3> QED BY <1>17, <3>1
  <2>2. count = Attempts \/ turn[count] < LowLimit
    <3>1. count # Attempts => count = end_ /\ end_ <= Attempts BY <1>7
    <3> QED BY <1>17, <3>1
  <2> QED BY <2>1, <2>2
<1>19. ASSUME NEW n \in 0..Attempts, Is(n) PROVE n = count
  <2>1. CASE n < count
    <3>1. n \in 0..(count - 1) /\ n # Attempts BY <1>7, <2>1
    <3>2. turn[n] < LowLimit BY <1>19, <3>1
    <3>3. n < end_ /\ n \in 0..Attempts BY <1>7, <2>1
    <3>4. turn[n] = low + list[n + 1] /\ turn[n] >= LowLimit BY <1>17, <3>3
    <3>5. n + 1 \in 1..long BY <1>7, <3>3
    <3>6. low + list[n + 1] \in Nat BY <1>9, <3>5
    <3> QED BY <1>2, <3>2, <3>4, <3>6
  <2>2. CASE n > count
    <3>1. count \in 0..(n - 1) /\ count = end_ /\ end_ <= Attempts BY <1>7, <2>2
    <3>2. turn[end_] >= LowLimit BY <1>19, <3>1
    <3>3. turn[end_] < LowLimit BY <1>17, <3>1
    <3>4. turn[end_] \in Nat
      <4>1. end_ \in 0..Attempts BY <1>7, <3>1
      <4>2. turn[end_] = w[end_] BY <1>16, <4>1
      <4>3. w[end_] = out BY <1>7, <4>1 DEF w
      <4> QED BY <1>10, <4>2, <4>3
    <3> QED BY <1>2, <3>2, <3>3, <3>4
  <2>3. n \in Nat /\ count \in Nat BY <1>7
  <2> QED BY <2>1, <2>2, <2>3
<1> HIDE DEF Is
<1>20. turns = count BY <1>7, <1>18, <1>19
<1>21. ASSUME NEW i \in 1..count PROVE turn[i - 1] = Index(near[i])
  <2>1. i - 1 \in 0..Attempts /\ i - 1 < end_ /\ (i - 1) + 1 = i /\ i \in 1..Len(near)
    BY <1>1, <1>7 DEF long
  <2>2. turn[i - 1] = low + list[i] BY <1>17, <2>1
  <2>3. near[i] = list[i] /\ list[i] \in Nat BY <1>3, <2>1
  <2>4. low + list[i] = base + list[i] + Bias
    <3>1. low = base + Bias /\ base \in Nat /\ Bias \in {1, 2} BY Where, Shape DEF low, IInv
    <3> QED BY <2>3, <3>1
  <2> QED BY <2>2, <2>3, <2>4 DEF Index
<1> HIDE DEF turns
<1> QED BY <1>5, <1>6, <1>20, <1>21

\* The candidates of a row are the positions of the hash inside the window.
LEMMA CollectedIs ==
  ASSUME IInv, phase = "search", NEW hash \in Hashes
  PROVE  Collected(cells[hash[1]], hash[2], LowLimit, Attempts) = InRow(hash)
<1> DEFINE row  == cells[hash[1]]
           list == written[hash[1]]
           tag  == hash[2]
           low  == LowLimit
           Same(k) == {j \in 1..(k - 1) : list[j][2] = tag}
           ranks == {k \in 1..RowMask :
                       /\ EntryAt(row, k).tag = tag
                       /\ \A j \in Earlier(row, tag, k) \cup {k} : EntryAt(row, j).index >= low
                       /\ Cardinality(Earlier(row, tag, k)) < Attempts}
           places == {k \in DOMAIN list : /\ list[k][2] = tag /\ Index(list[k][1]) >= low
                                          /\ Cardinality(Same(k)) < Attempts}
<1>0. next = Index(position) /\ phase \in {"found", "search"} BY DEF IInv, Course
<1>1. /\ base \in Nat /\ next \in Nat /\ Bias \in {1, 2} /\ FrameLow \in Nat /\ FrameLow = base + Bias
      /\ RowMask \in Nat \ {0} /\ hash[1] \in Rows
  BY Where, Shape, RowSize, RowsAssumption, HashIs DEF IInv
<1>2. low \in Nat /\ FrameLow <= low BY <1>0, LowIs
<1>3. row \in RowType /\ RowIn(row, list, FrameLow, next)
  BY <1>1 DEF IInv, TypeOK, InRows, RowType
<1>4. Collected(row, tag, low, Attempts) = {EntryAt(row, k).index : k \in ranks} BY DEF Collected
<1>5. InRow(hash) = {Index(list[k][1]) : k \in places} BY DEF InRow
<1> HIDE DEF row, list, tag, low
<1>6. /\ DOMAIN list = 1..Len(list) /\ Len(list) \in 0..RowMask
      /\ \A i \in 1..Len(list) : list[i][1] \in Nat
      /\ \A i, j \in 1..Len(list) : i < j => list[j][1] < list[i][1]
  BY <1>1, <1>3, RowList, RowsAssumption
<1>7. ASSUME NEW k \in 1..Len(list)
      PROVE  /\ k \in 1..RowMask /\ EntryAt(row, k).tag = list[k][2]
             /\ EntryAt(row, k).index = Index(list[k][1])
             /\ Index(list[k][1]) = FrameLow + list[k][1]
             /\ Index(list[k][1]) \in Nat
  <2>1. k \in 1..RowMask BY <1>1, <1>6
  <2>2. EntryAt(row, k).tag = list[k][2] /\ EntryAt(row, k).index = FrameLow + list[k][1]
    BY <1>3, <1>6, <2>1 DEF RowIn
  <2>3. list[k][1] \in Nat BY <1>6
  <2>4. Index(list[k][1]) = FrameLow + list[k][1] /\ FrameLow + list[k][1] \in Nat
    BY <1>1, <2>3 DEF Index
  <2> QED BY <2>1, <2>2, <2>4
<1>8. ASSUME NEW k \in 1..RowMask, k \notin 1..Len(list) PROVE k \notin ranks
  <2>1. ~(k <= Len(list)) BY <1>1, <1>6, <1>8
  <2>2. EntryAt(row, k).index < FrameLow BY <1>3, <2>1 DEF RowIn
  <2>3. EntryAt(row, k).index \in Nat
    <3>1. HeadOf(row) <= RowMask BY <1>3 DEF RowIn
    <3> QED BY <1>3, <3>1, SlotsAre, RowsAssumption DEF Entry
  <2>4. ~(EntryAt(row, k).index >= low) BY <1>1, <1>2, <2>2, <2>3
  <2> QED BY <2>4
<1>9. ASSUME NEW k \in 1..Len(list)
      PROVE  k \in ranks <=> k \in places
  <2>1. Earlier(row, tag, k) = Same(k)
    <3>1. \A j \in 1..(k - 1) : j \in 1..Len(list) BY <1>6
    <3>2. \A j \in 1..(k - 1) : EntryAt(row, j).tag = list[j][2] BY <1>7, <3>1
    <3> QED BY <3>2 DEF Earlier
  <2>2. ASSUME Index(list[k][1]) >= low, NEW j \in Same(k) \cup {k}
        PROVE  EntryAt(row, j).index >= low
    <3>1. CASE j = k BY <1>7, <2>2, <3>1
    <3>2. CASE j # k
      <4>1. j \in 1..Len(list) /\ j < k BY <1>6, <2>2, <3>2
      <4>2. list[k][1] < list[j][1] /\ list[k][1] \in Nat /\ list[j][1] \in Nat BY <1>6, <4>1
      <4>3. EntryAt(row, j).index = FrameLow + list[j][1] BY <1>7, <4>1
      <4>4. Index(list[k][1]) = FrameLow + list[k][1] BY <1>7
      <4> QED BY <1>1, <1>2, <2>2, <4>2, <4>3, <4>4
    <3> QED BY <3>1, <3>2
  <2>3. /\ EntryAt(row, k).tag = list[k][2] /\ EntryAt(row, k).index = Index(list[k][1])
        /\ k \in 1..RowMask /\ k \in DOMAIN list
    BY <1>6, <1>7
  <2>4. (\A j \in Same(k) \cup {k} : EntryAt(row, j).index >= low) <=> Index(list[k][1]) >= low
    BY <2>2, <2>3
  <2> HIDE DEF Same
  <2> QED BY <2>1, <2>3, <2>4
<1>10. ranks \subseteq 1..RowMask /\ places \subseteq 1..Len(list) BY <1>6
<1> HIDE DEF ranks, places
<1>11. ranks = places
  <2>1. 1..Len(list) \subseteq 1..RowMask BY <1>7
  <2> QED BY <1>8, <1>9, <1>10, <2>1
<1>12. \A k \in places : EntryAt(row, k).index = Index(list[k][1]) BY <1>7, <1>10
<1>13. {EntryAt(row, k).index : k \in ranks} = {Index(list[k][1]) : k \in places}
  BY <1>11, <1>12
<1> QED BY <1>4, <1>5, <1>13 DEF row, tag, low

----------------------------------------------------------------------------
\* No search is behind what has been recorded, however far the parser has looked
\* ahead and come back (find_best_hash_chain_match, row_parser_workspace::find).
THEOREM NothingRecordedAhead == Spec => []NeverSearchesBehind
<1>1. IInv => NeverSearchesBehind
  <2> SUFFICES ASSUME IInv, phase = "scan" PROVE Index(position) >= next
    BY DEF NeverSearchesBehind
  <2>1. next <= base + position + Bias BY Where
  <2>2. base \in Nat /\ next \in Nat /\ position \in Nat /\ Bias \in {1, 2} BY Where, Shape DEF IInv
  <2> QED BY <2>1, <2>2 DEF Index
<1> QED BY <1>1, Invariance, PTL

\* Every hash taken from the cache is that of the position it is taken for, through
\* gaps, skipping and the ends of blocks (row_hash_cache::next, fill).
THEOREM HashesHold == Spec => []HashesAreTrue
<1>1. IInv => HashesAreTrue
  <2> SUFFICES ASSUME IInv, parser.rows
               PROVE  /\ phase = "insert" /\ next < until =>
                           CachedHash(cache, Unbiased(next)) = Unbiased(next)
                      /\ phase = "search" /\ ~skipping => CachedHash(cache, position) = position
                      /\ \A slot \in DOMAIN cache :
                           cache[slot] # NotHashed => cache[slot] + ReadSize <= end
    BY DEF HashesAreTrue
  <2>1. /\ base \in Nat /\ next \in Nat /\ Bias \in {1, 2} /\ position \in Nat /\ end \in Nat
        /\ base + Bias <= next /\ CacheSize \in Nat \ {0} /\ Limit \in Int /\ Limit = end - Reach
        /\ Reach \in Nat
    BY Where, Shape DEF IInv
  <2>2. ASSUME NEW at \in Nat, Ahead(at), at <= Limit PROVE CachedHash(cache, at) = at
    <3>1. 0 \in 0..(CacheSize - 1) /\ at + 0 = at BY <2>1
    <3> QED BY <2>2, <3>1 DEF Ahead, CachedHash
  <2>3. ASSUME phase = "insert", next < until
        PROVE  CachedHash(cache, Unbiased(next)) = Unbiased(next)
    <3>1. until \in Nat /\ resume \in Nat /\ until <= resume /\ resume <= base + position + Bias
          /\ position <= end - Reach
      BY <2>3, Where DEF IInv, Course, Index, InSearch
    <3>2. ~(next >= until) BY <2>1, <2>3, <3>1
    <3>3. Ahead(Unbiased(next)) BY <2>3, <3>2 DEF IInv, Hashed
    <3>4. Unbiased(next) \in Nat /\ Unbiased(next) <= Limit BY <2>1, <2>3, <3>1 DEF Unbiased
    <3> QED BY <2>2, <3>3, <3>4
  <2>4. ASSUME phase = "search", ~skipping PROVE CachedHash(cache, position) = position
    <3>1. next = base + position + Bias /\ position <= end - Reach
      BY <2>4, Where DEF IInv, Course, Index, InSearch
    <3>2. Ahead(Unbiased(next)) BY <2>4 DEF IInv, Hashed
    <3>3. Unbiased(next) = position BY <2>1, <3>1 DEF Unbiased
    <3> QED BY <2>1, <2>2, <3>1, <3>2, <3>3
  <2>5. \A slot \in DOMAIN cache : cache[slot] # NotHashed => cache[slot] + ReadSize <= end
    BY DEF IInv, TypeOK, Hashed
  <2> QED BY <2>3, <2>4, <2>5
<1> QED BY <1>1, Invariance, PTL

\* A search walks through what this frame recorded in its bucket or row, newest
\* first, and through nothing else, whatever was written over, cleared or rebased
\* (find_best_hash_chain_match, collect_candidates_fixed).
THEOREM SearchesSeeWhatWasRecorded == Spec => []WalksWhatWasRecorded
<1>1. IInv => WalksWhatWasRecorded BY WalkIs, CollectedIs DEF WalksWhatWasRecorded
<1> QED BY <1>1, Invariance, PTL
=============================================================================
