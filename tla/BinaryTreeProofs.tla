-------------------------- MODULE BinaryTreeProofs --------------------------
(***************************************************************************)
(* What BinaryTree's run checks, for every value of the constants: lengths *)
(* that are compared are exact (LengthsAreExact), matches are repeats of   *)
(* the window (MatchesAreReal), every bucket is a search tree              *)
(* (TreesAreOrdered), and nothing that waits is walked through             *)
(* (SortedBeforeSearched).                                                 *)
(*                                                                         *)
(* The tables do not say which nodes are above a node, once the slots of   *)
(* those are taken by newer ones, nor what a listed node's lister was, and *)
(* during a walk two children are not yet written.  The invariant IInv     *)
(* says that some choice of all that fits the tables (Shape): a role of    *)
(* every index, the nodes above it on either side (bound), its lister      *)
(* (above), the newest node (top) and the two ends of a walk (ends).       *)
(* Every step gives the next choice.                                       *)
(***************************************************************************)
EXTENDS BinaryTree, FiniteSetTheorems, WellFoundedInduction, TLAPS

\* The types of the tables, and of the way down a tree.
Node    == [smaller : Nat, larger : Nat]
Forest  == [0..(TreeSize - 1) -> Node]
Places  == (0..(TreeSize - 1)) \X Sides
Entry   == Nat \X Nat \X Nat
Caches  == [0..1 -> [0..(CacheSize - 1) -> Entry]]
Way     == [node : Nat, match : Nat, smaller : Places, larger : Places,
            common : [Sides -> Nat], left : Nat, low : Nat, treeLow : Nat,
            best : Nat, reach : Nat]
Sorting == {"unstack", "resort", "sort"}
Phases  == {"idle", "ready", "update", "repeats"} \cup Sorting \cup Walking

\* A match, or none.
Match   == [distance : Nat, length : Nat]

BlockOK == /\ kind \in Kinds /\ input \in Inputs
           /\ begin \in Nat /\ end \in Nat /\ end <= Len(input) /\ position \in Nat

TableOK == /\ base \in Nat /\ next \in Nat /\ next3 \in Nat
           /\ heads \in [Hashes -> Nat] /\ hash3 \in [Hashes -> Nat]
           /\ tree \in Forest /\ cache \in Caches

StackOK == /\ phase \in Phases
           /\ target \in Nat /\ candidate \in Nat /\ previous \in Nat /\ budget \in Nat

ResultOK == tried \in Nat /\ longest \in Nat /\ found \in Match

WalkOK == phase \in Walking => walk \in Way

TypeOK == BlockOK /\ TableOK /\ StackOK /\ ResultOK /\ WalkOK

----------------------------------------------------------------------------
(* What is known of the nodes beyond the code's variables: how far each    *)
(* has come (role), the nodes that were above it when it got its place, one *)
(* on each side (bound), and the one that lists it (above).                *)

Roles == {"none", "listed", "stacked", "sorted"}

Shaped(role, bound, above, ends) ==
  /\ role \in [Nat -> Roles] /\ bound \in [Sides -> [Nat -> Nat]]
  /\ above \in [Nat -> Nat] /\ ends \in [Sides -> Nat]

\* No index up to top has taken the slot of i, nor would the next one: the newest
\* owns its slot in a ring of one node too.
Owned(top, i) == i = top \/ i + TreeSize > top + 1

\* The bytes at p are before those at q, and differ before the limit.
Precedes(text, p, q, limit) ==
  \E n \in Nat : /\ p + n < limit /\ q + n < limit
                 /\ \A i \in 0..(n - 1) : text[(p + i) + 1] = text[(q + i) + 1]
                 /\ text[(p + n) + 1] < text[(q + n) + 1]

\* a lies on one side of b, two indexes of the frame.
Lies(text, low, limit, a, side, b) ==
  IF side = "smaller" THEN Precedes(text, a - low, b - low, limit)
                      ELSE Precedes(text, b - low, a - low, limit)

\* How far the search has come, and that top is the newest node.
Course(top, role) ==
  /\ top \in Nat /\ FrameLow <= top + 1 /\ FrameLow <= next
  /\ phase \in {"idle", "ready", "update", "repeats"} => top < next
  /\ phase \in {"insert", "main"} => top = next /\ walk.node = next
  /\ phase \in {"update", "repeats", "insert"} => top < target /\ kind # "lazy"
  /\ phase \in Sorting => top = target /\ role[target] = "none" /\ kind = "lazy"
  /\ phase \in Sorting \cup {"repeats", "main"} => next = target
  /\ phase \notin {"idle", "ready"} => target <= Index(Limit)
  /\ phase # "idle" => Index(end) <= MaxIndex

\* Nodes are in the frame, and only sorted ones have nodes above them.
Nodes(low, top, limit, role, bound) ==
  \A i \in Nat :
    /\ role[i] # "none" => low <= i /\ i <= top /\ i - low < limit
    /\ role[i] \in {"listed", "stacked"} => \A side \in Sides : bound[side][i] = 0

\* Nodes wait under btlazy2 only, and on the stack only while they are sorted.
OnlyWhen(role) ==
  \A i \in Nat : /\ role[i] \in {"listed", "stacked"} => kind = "lazy"
                 /\ role[i] = "stacked" => phase \in Sorting

\* The nodes above a node lie on their sides of it.
Bounds(text, low, limit, role, bound) ==
  \A i \in Nat, side \in Sides : role[i] # "none" /\ bound[side][i] # 0 =>
    low <= bound[side][i] /\ Lies(text, low, limit, bound[side][i], side, i)

\* A child is older and sorted, and has i above it on the other side.
Child(low, role, bound, i, side, c) ==
  /\ c # Mark
  /\ c >= low => /\ c < i /\ role[c] = "sorted"
                 /\ bound[Other(side)][c] = i /\ bound[side][c] = bound[side][i]

\* Every node whose slot is still its own has children, but for open ends.
Trees(nodes, opens, low, top, role, bound) ==
  \A i \in Nat, side \in Sides :
    role[i] = "sorted" /\ Owned(top, i) /\ <<Slot(i), side>> \notin opens =>
      Child(low, role, bound, i, side, nodes[Slot(i)][side])

\* The bytes by which a position is hashed.
HashAt(text, p) == SubSeq(text, p + 1, p + HashBytes)

\* What a bucket or a list refers to: nothing of this frame, or a node of the
\* bucket with no node above it.
Referred(text, low, role, bound, above, c, by, h) ==
  c >= low => /\ role[c] # "none" /\ above[c] = by
              /\ \A side \in Sides : bound[side][c] = 0
              /\ HashAt(text, c - low) = h

\* Every bucket refers to its root.
Heads(text, roots, low, role, bound, above) ==
  \A h \in Hashes : Referred(text, low, role, bound, above, roots[h], 0, h)

\* A waiting node lists an older one of its bucket; on the stack it has its lister
\* in place of the mark.
Lists(text, nodes, low, top, role, bound, above) ==
  \A i \in Nat : role[i] \in {"listed", "stacked"} /\ Owned(top, i) =>
    LET node == nodes[Slot(i)]
    IN  /\ node.smaller < i
        /\ Referred(text, low, role, bound, above, node.smaller, i, HashAt(text, i - low))
        /\ node.larger = IF role[i] = "listed" THEN Mark ELSE above[i]

\* The nodes on the stack, and what hangs from them.
Stacked(role) == {i \in Nat : role[i] = "stacked"}
Left(i) == tree[Slot(i)].smaller
Root    == heads[Hash(Unbiased(target))]
Given(role, i) == i > UnsortedLimit => role[i] = "sorted"

\* The list from `first` down, each the lister of the one before.
Stack(role, first) ==
  /\ first = 0 => Stacked(role) = {}
  /\ first # 0 => first \in Stacked(role)
  /\ \A i \in Stacked(role) : i = first \/ Left(i) \in Stacked(role)

\* The stack is a list, and leads from the target's root to what is sorted.
Stacks(role) ==
  phase \in Sorting =>
    /\ \A i \in Stacked(role) : i > UnsortedLimit
    /\ phase = "unstack" =>
         /\ Stack(role, previous)
         /\ previous = 0 => candidate = Root
         /\ previous # 0 => Left(previous) = candidate /\ Root \in Stacked(role)
    /\ phase = "resort" =>
         /\ Stack(role, candidate)
         /\ candidate = 0 => Given(role, Root)
         /\ candidate # 0 => Given(role, Left(candidate)) /\ Root \in Stacked(role)
    /\ phase = "sort" =>
         /\ walk.node = candidate
         /\ Stack(role, previous)
         /\ previous # 0 => Left(previous) = candidate
         /\ Root \in Stacked(role) \cup {candidate}

\* The open ends of a walk.
Opens == IF phase \in Walking THEN {walk[side] : side \in Sides} ELSE {}

\* The end of a side, 0 while that is the walk's node itself.
EndOf(end1, x) == IF end1 = x THEN 0 ELSE end1

\* A node that is too old to be followed has lost its slot.
Lost(top, low, treeLow) == \A i \in Nat : low < i /\ i <= treeLow /\ i # top => ~Owned(top, i)

\* The way down: the node it places, its two ends and the next node between them.
Walk(top, role, bound, above, ends) ==
  phase \in Walking =>
    /\ role[walk.node] = "sorted"
    /\ walk.treeLow + TreeSize > top /\ Lost(top, walk.low, walk.treeLow)
    /\ FrameLow <= walk.low + 1 /\ WindowLow(target) <= walk.low + 1
    /\ phase = "sort" => walk.low = WindowLow(target) /\ walk.treeLow = UnsortedLimit
    /\ ends["smaller"] = ends["larger"] => ends["smaller"] = walk.node
    /\ \A side \in Sides :
         /\ bound[side][walk.node] = 0
         /\ role[ends[side]] = "sorted" /\ ends[side] <= walk.node /\ Owned(top, ends[side])
         /\ walk[side] = <<Slot(ends[side]), IF ends[side] = walk.node THEN side ELSE Other(side)>>
         /\ ends[side] # walk.node => bound[Other(side)][ends[side]] = walk.node
         /\ walk.match < ends[side]
         /\ walk.match >= FrameLow => bound[side][walk.match] = EndOf(ends[side], walk.node)
         /\ walk.common[side] = IF ends[side] = walk.node THEN 0
                                ELSE Matching(Unbiased(walk.node), Unbiased(ends[side]), end)
    /\ walk.match >= FrameLow => role[walk.match] # "none"
    /\ walk.match > walk.treeLow /\ walk.match > walk.low => role[walk.match] = "sorted"
    /\ walk.reach > walk.node + Slack

\* Nothing lists the node that is compared.
Unlisted(top, role) ==
  phase \in Walking /\ walk.match >= FrameLow =>
    /\ \A h \in Hashes : heads[h] # walk.match
    /\ \A i \in Nat : role[i] \in {"listed", "stacked"} /\ Owned(top, i) => Left(i) # walk.match

\* Every length that is kept is the number of equal bytes.
CacheTrue ==
  kind # "lazy" /\ phase # "idle" =>
    \A r \in 0..1, c \in 0..(CacheSize - 1) :
      LET e == cache[r][c]
      IN  e[3] # 0 => /\ FrameLow <= e[2] /\ e[2] < e[1] /\ e[1] < Index(end)
                      /\ Matching(Unbiased(e[1]), Unbiased(e[2]), end) = e[3]

\* All of it, for a choice of roles, bounds, listers and ends.
Shape(top, role, bound, above, ends) ==
  /\ Shaped(role, bound, above, ends)
  /\ Course(top, role)
  /\ Nodes(FrameLow, top, end, role, bound)
  /\ OnlyWhen(role)
  /\ Bounds(input, FrameLow, end, role, bound)
  /\ Trees(tree, Opens, FrameLow, top, role, bound)
  /\ Heads(input, heads, FrameLow, role, bound, above)
  /\ Lists(input, tree, FrameLow, top, role, bound, above)
  /\ Stacks(role)
  /\ Walk(top, role, bound, above, ends)
  /\ Unlisted(top, role)

\* The invariant: some choice of them fits the state.
IInv ==
  /\ TypeOK /\ CacheTrue /\ MatchesAreReal
  /\ phase = "idle" => found = NoMatch
  /\ \E top \in Nat, role \in [Nat -> Roles], bound \in [Sides -> [Nat -> Nat]],
        above \in [Nat -> Nat], ends \in [Sides -> Nat] : Shape(top, role, bound, above, ends)

----------------------------------------------------------------------------
(* Induction, for a set in place of a predicate.                           *)

\* Naturals have a least element: the order of 0..n by inclusion is well-founded.
LEMMA LeastNatural ==
  ASSUME NEW T, T \subseteq Nat, T # {}
  PROVE  \E n \in T : \A m \in T : n <= m
<1> DEFINE Segments == {0..n : n \in T}
<1>1. IsWellFoundedOn(StrictSubsetOrdering(Nat), FiniteSubsetsOf(Nat))
  BY FS_StrictSubsetOrderingWellFounded
<1>2. Segments \subseteq FiniteSubsetsOf(Nat)
  <2>1. ASSUME NEW n \in T PROVE 0..n \in FiniteSubsetsOf(Nat)
    <3>1. IsFiniteSet(0..n) BY FS_Interval
    <3>2. 0..n \in SUBSET Nat OBVIOUS
    <3> QED BY <3>1, <3>2 DEF FiniteSubsetsOf
  <2> QED BY <2>1
<1>3. Segments # {} OBVIOUS
<1>4. \E x \in Segments : \A y \in Segments : ~ (<<y, x>> \in StrictSubsetOrdering(Nat))
  <2> HIDE DEF Segments
  <2> QED BY <1>1, <1>2, <1>3, WFMin
<1>5. PICK n \in T : \A y \in Segments : ~ (<<y, 0..n>> \in StrictSubsetOrdering(Nat))
  BY <1>4
<1>6. ASSUME NEW m \in T PROVE n <= m
  <2>1. ~ (<<0..m, 0..n>> \in StrictSubsetOrdering(Nat)) BY <1>5
  <2>2. SUFFICES ASSUME m < n PROVE FALSE OBVIOUS
  <2>3. 0..m \subseteq 0..n /\ 0..m # 0..n
    <3>1. n \in 0..n /\ n \notin 0..m BY <2>2
    <3> QED BY <3>1, <2>2
  <2>4. 0..m \in SUBSET Nat /\ 0..n \in SUBSET Nat OBVIOUS
  <2> QED BY <2>1, <2>3, <2>4 DEF StrictSubsetOrdering
<1> QED BY <1>6

\* What holds of n whenever it holds of all before it holds of all.
LEMMA Induction ==
  ASSUME NEW T, \A n \in Nat : (\A m \in Nat : m < n => m \in T) => n \in T
  PROVE  \A n \in Nat : n \in T
<1> SUFFICES ASSUME NEW n \in Nat, n \notin T PROVE FALSE OBVIOUS
<1> DEFINE Out == {m \in Nat : m \notin T}
<1>1. PICK m \in Out : \A k \in Out : m <= k
  <2>1. Out \subseteq Nat /\ Out # {} OBVIOUS
  <2> HIDE DEF Out
  <2> QED BY <2>1, LeastNatural
<1>2. m \in Nat /\ m \notin T OBVIOUS
<1>3. \A k \in Nat : k < m => k \in T BY <1>1
<1> QED BY <1>2, <1>3

----------------------------------------------------------------------------
(* Remainders: slots of rings of any size.                                 *)

\* A remainder is the one that its quotient leaves.
LEMMA ModIs ==
  ASSUME NEW c \in Nat \ {0}, NEW q \in Int, NEW r \in 0..(c - 1)
  PROVE  (c * q + r) % c = r
OBVIOUS

\* Every number is a multiple and a remainder.
LEMMA Division ==
  ASSUME NEW c \in Nat \ {0}, NEW a \in Int
  PROVE  \E q \in Int, r \in 0..(c - 1) : a = c * q + r /\ a % c = r
<1> DEFINE Divides(b) == \E q \in Int, r \in 0..(c - 1) : b = c * q + r
           T == {n \in Nat : Divides(n)}
<1>1. ASSUME NEW n \in Nat, \A m \in Nat : m < n => m \in T PROVE n \in T
  <2>1. CASE n < c
    <3>1. n = c * 0 + n /\ n \in 0..(c - 1) BY <2>1
    <3> QED BY <3>1
  <2>2. CASE ~(n < c)
    <3>1. PICK q \in Int, r \in 0..(c - 1) : n - c = c * q + r
      <4>1. n - c \in Nat /\ n - c < n BY <2>2
      <4> QED BY <4>1, <1>1
    <3>2. q + 1 \in Int /\ n = c * (q + 1) + r BY <3>1
    <3> QED BY <3>2
  <2> QED BY <2>1, <2>2
<1>2. \A n \in Nat : n \in T
  <2> HIDE DEF T
  <2> QED BY <1>1, Induction
<1>3. Divides(a)
  <2>1. CASE a \in Nat BY <2>1, <1>2
  <2>2. CASE a \notin Nat
    <3>1. -a \in Nat BY <2>2
    <3>2. PICK q \in Int, r \in 0..(c - 1) : -a = c * q + r BY <3>1, <1>2
    <3>3. CASE r = 0
      <4>1. -q \in Int /\ 0 \in 0..(c - 1) /\ a = c * (-q) + 0 BY <3>2, <3>3
      <4> QED BY <4>1
    <3>4. CASE r # 0
      <4>1. -q - 1 \in Int /\ c - r \in 0..(c - 1) /\ a = c * (-q - 1) + (c - r)
        BY <3>2, <3>4
      <4> QED BY <4>1
    <3> QED BY <3>3, <3>4
  <2> QED BY <2>1, <2>2
<1>4. PICK q \in Int, r \in 0..(c - 1) : a = c * q + r BY <1>3
<1>5. (c * q + r) % c = r BY ModIs
<1> QED BY <1>4, <1>5

\* Two numbers with the same remainder are a multiple apart.
LEMMA Apart ==
  ASSUME NEW c \in Nat \ {0}, NEW a \in Int, NEW b \in Int, a < b, b < a + c
  PROVE  a % c # b % c
<1>1. PICK p \in Int, r \in 0..(c - 1) : a = c * p + r /\ a % c = r BY Division
<1>2. PICK q \in Int, s \in 0..(c - 1) : b = c * q + s /\ b % c = s BY Division
<1> SUFFICES ASSUME r = s PROVE FALSE BY <1>1, <1>2
<1>4. b - a = c * (q - p) BY <1>1, <1>2
<1>5. CASE q - p >= 1
  <2>1. c * (q - p) >= c BY <1>5
  <2> QED BY <2>1, <1>4
<1>6. CASE q - p <= 0
  <2>1. c * (q - p) <= 0 BY <1>6
  <2> QED BY <2>1, <1>4
<1> QED BY <1>5, <1>6

\* A remainder stands for its number in sums.
LEMMA Reduced ==
  ASSUME NEW c \in Nat \ {0}, NEW a \in Int, NEW b \in Int
  PROVE  ((a % c) + b) % c = (a + b) % c
<1>1. PICK p \in Int, r \in 0..(c - 1) : a = c * p + r /\ a % c = r BY Division
<1>2. PICK q \in Int, s \in 0..(c - 1) : r + b = c * q + s /\ (r + b) % c = s
  <2>1. r + b \in Int OBVIOUS
  <2> QED BY <2>1, Division
<1>3. a + b = c * (p + q) + s BY <1>1, <1>2
<1>4. p + q \in Int OBVIOUS
<1>5. (c * (p + q) + s) % c = s BY <1>4, ModIs
<1> QED BY <1>1, <1>2, <1>3, <1>5

\* A remainder addresses the ring.
LEMMA InRing ==
  ASSUME NEW c \in Nat \ {0}, NEW a \in Int
  PROVE  a % c \in 0..(c - 1)
BY Division

----------------------------------------------------------------------------
(* Equal bytes, and the order of contents.                                 *)

\* That n bytes are equal and no more.
Agrees(p, q, limit, n) ==
  /\ n \in 0..(limit - p)
  /\ \A i \in 0..(n - 1) : Byte(p + i) = Byte(q + i)
  /\ n = limit - p \/ Byte(p + n) # Byte(q + n)

\* Matching is the one number of equal bytes after which the bytes differ or end.
LEMMA MatchingIs ==
  ASSUME NEW p \in Nat, NEW q \in Nat, NEW limit \in Nat, p <= limit
  PROVE  /\ Agrees(p, q, limit, Matching(p, q, limit))
         /\ \A n : Agrees(p, q, limit, n) => Matching(p, q, limit) = n
<1> DEFINE stop == {n \in 0..(limit - p) : n = limit - p \/ Byte(p + n) # Byte(q + n)}
<1>1. PICK m \in stop : \A n \in stop : m <= n
  <2>1. stop \subseteq Nat /\ limit - p \in stop OBVIOUS
  <2> HIDE DEF stop
  <2> QED BY <2>1, LeastNatural
<1>2. Agrees(p, q, limit, m)
  <2>1. m \in 0..(limit - p) /\ (m = limit - p \/ Byte(p + m) # Byte(q + m)) OBVIOUS
  <2>2. ASSUME NEW i \in 0..(m - 1) PROVE Byte(p + i) = Byte(q + i)
    <3>1. i \in 0..(limit - p) /\ i < m BY <2>1
    <3>2. i \notin stop BY <1>1, <3>1
    <3> QED BY <3>1, <3>2
  <2> QED BY <2>1, <2>2 DEF Agrees
<1>3. ASSUME NEW n, Agrees(p, q, limit, n), NEW k, Agrees(p, q, limit, k) PROVE n = k
  <2>1. n \in Nat /\ k \in Nat BY <1>3 DEF Agrees
  <2>2. ~(n < k)
    <3> SUFFICES ASSUME n < k PROVE FALSE OBVIOUS
    <3>1. n \in 0..(k - 1) /\ n # limit - p BY <1>3, <2>1 DEF Agrees
    <3> QED BY <1>3, <3>1 DEF Agrees
  <2>3. ~(k < n)
    <3> SUFFICES ASSUME k < n PROVE FALSE OBVIOUS
    <3>1. k \in 0..(n - 1) /\ k # limit - p BY <1>3, <2>1 DEF Agrees
    <3> QED BY <1>3, <3>1 DEF Agrees
  <2> QED BY <2>1, <2>2, <2>3
<1>4. Matching(p, q, limit) = CHOOSE n : Agrees(p, q, limit, n)
  BY DEF Matching, Agrees
<1>5. Agrees(p, q, limit, Matching(p, q, limit)) BY <1>2, <1>4
<1> QED BY <1>3, <1>5

\* One byte further on, one byte fewer is equal.
LEMMA MatchingAfter ==
  ASSUME NEW p \in Nat, NEW q \in Nat, NEW limit \in Nat, p < limit,
         Matching(p, q, limit) # 0
  PROVE  Matching(p + 1, q + 1, limit) = Matching(p, q, limit) - 1
<1> DEFINE n == Matching(p, q, limit)
<1>1. Agrees(p, q, limit, n) BY MatchingIs
<1> HIDE DEF n
<1>2. n \in 0..(limit - p) /\ n - 1 \in 0..(limit - (p + 1)) BY <1>1 DEF Agrees, n
<1>3. ASSUME NEW i \in 0..((n - 1) - 1) PROVE Byte((p + 1) + i) = Byte((q + 1) + i)
  <2>1. i + 1 \in 0..(n - 1) /\ p + (i + 1) = (p + 1) + i /\ q + (i + 1) = (q + 1) + i
    BY <1>2
  <2> QED BY <1>1, <2>1 DEF Agrees
<1>4. n - 1 = limit - (p + 1) \/ Byte((p + 1) + (n - 1)) # Byte((q + 1) + (n - 1))
  <2>1. (p + 1) + (n - 1) = p + n /\ (q + 1) + (n - 1) = q + n BY <1>2
  <2> QED BY <1>1, <1>2, <2>1 DEF Agrees
<1>5. Agrees(p + 1, q + 1, limit, n - 1) BY <1>2, <1>3, <1>4 DEF Agrees
<1> QED BY <1>5, MatchingIs DEF n

\* What is equal needs no comparison.
LEMMA MatchingFrom ==
  ASSUME NEW p \in Nat, NEW q \in Nat, NEW limit \in Nat,
         NEW common \in Nat, p + common <= limit,
         \A i \in 0..(common - 1) : Byte(p + i) = Byte(q + i)
  PROVE  common + Matching(p + common, q + common, limit) = Matching(p, q, limit)
<1> DEFINE n == Matching(p + common, q + common, limit)
<1>1. Agrees(p + common, q + common, limit, n) BY MatchingIs
<1> HIDE DEF n
<1>2. n \in 0..(limit - (p + common)) /\ common + n \in 0..(limit - p) BY <1>1 DEF Agrees
<1>3. ASSUME NEW i \in 0..((common + n) - 1) PROVE Byte(p + i) = Byte(q + i)
  <2>1. CASE i < common BY <2>1
  <2>2. CASE ~(i < common)
    <3>1. i - common \in 0..(n - 1) /\ (p + common) + (i - common) = p + i
          /\ (q + common) + (i - common) = q + i BY <1>2, <2>2
    <3> QED BY <1>1, <3>1 DEF Agrees
  <2> QED BY <2>1, <2>2
<1>4. common + n = limit - p \/ Byte(p + (common + n)) # Byte(q + (common + n))
  <2>1. p + (common + n) = (p + common) + n /\ q + (common + n) = (q + common) + n BY <1>2
  <2> QED BY <1>1, <1>2, <2>1 DEF Agrees
<1>5. Agrees(p, q, limit, common + n) BY <1>2, <1>3, <1>4 DEF Agrees
<1>6. p <= limit OBVIOUS
<1> QED BY <1>5, <1>6, MatchingIs DEF n

\* Content.
Text == Seq(Nat)

\* The first byte that differs decides.
LEMMA PrecedesTransitive ==
  ASSUME NEW text \in Text, NEW a \in Nat, NEW b \in Nat, NEW c \in Nat, NEW limit \in Nat,
         limit <= Len(text), Precedes(text, a, b, limit), Precedes(text, b, c, limit)
  PROVE  Precedes(text, a, c, limit)
<1> DEFINE at(p) == text[p + 1]
<1>0. ASSUME NEW p \in Nat, p < limit PROVE at(p) \in Nat BY <1>0 DEF Text
<1>1. PICK n \in Nat : /\ a + n < limit /\ b + n < limit
                       /\ \A i \in 0..(n - 1) : at(a + i) = at(b + i)
                       /\ at(a + n) < at(b + n)
  BY DEF Precedes
<1>2. PICK m \in Nat : /\ b + m < limit /\ c + m < limit
                       /\ \A i \in 0..(m - 1) : at(b + i) = at(c + i)
                       /\ at(b + m) < at(c + m)
  BY DEF Precedes
<1> HIDE DEF at
<1>a. at(a + n) \in Nat /\ at(b + n) \in Nat /\ at(b + m) \in Nat /\ at(c + m) \in Nat
  BY <1>0, <1>1, <1>2
<1> SUFFICES \E k \in Nat : /\ a + k < limit /\ c + k < limit
                            /\ \A i \in 0..(k - 1) : at(a + i) = at(c + i)
                            /\ at(a + k) < at(c + k)
  BY DEF Precedes, at
<1>3. CASE n < m
  <2>1. n \in 0..(m - 1) /\ \A i \in 0..(n - 1) : i \in 0..(m - 1) BY <1>3
  <2>2. at(b + n) = at(c + n) BY <1>2, <2>1
  <2>3. c + n < limit BY <1>2, <1>3
  <2>4. \A i \in 0..(n - 1) : at(a + i) = at(c + i) BY <1>1, <1>2, <2>1
  <2>5. at(a + n) < at(c + n) BY <1>1, <2>2
  <2> QED BY <1>1, <2>3, <2>4, <2>5
<1>4. CASE n = m
  <2>1. at(a + n) < at(c + n) BY <1>1, <1>2, <1>4, <1>a
  <2>2. \A i \in 0..(n - 1) : at(a + i) = at(c + i) BY <1>1, <1>2, <1>4
  <2> QED BY <1>1, <1>2, <1>4, <2>1, <2>2
<1>5. CASE m < n
  <2>1. m \in 0..(n - 1) /\ \A i \in 0..(m - 1) : i \in 0..(n - 1) BY <1>5
  <2>2. at(a + m) = at(b + m) BY <1>1, <2>1
  <2>3. a + m < limit BY <1>1, <1>5
  <2>4. \A i \in 0..(m - 1) : at(a + i) = at(c + i) BY <1>1, <1>2, <2>1
  <2>5. at(a + m) < at(c + m) BY <1>2, <2>2
  <2> QED BY <1>2, <2>3, <2>4, <2>5
<1> QED BY <1>3, <1>4, <1>5

\* What is ordered within a limit is ordered within a later one.
LEMMA PrecedesLater ==
  ASSUME NEW text, NEW p \in Int, NEW q \in Int, NEW limit \in Nat, NEW more \in Nat,
         limit <= more, Precedes(text, p, q, limit)
  PROVE  Precedes(text, p, q, more)
<1>1. PICK n \in Nat : /\ p + n < limit /\ q + n < limit
                       /\ \A i \in 0..(n - 1) : text[(p + i) + 1] = text[(q + i) + 1]
                       /\ text[(p + n) + 1] < text[(q + n) + 1]
  BY DEF Precedes
<1>2. p + n < more /\ q + n < more BY <1>1
<1> QED BY <1>1, <1>2 DEF Precedes

\* Between two contents that begin alike there is none that begins otherwise.
SameText(text, p, q, n) == \A i \in 0..(n - 1) : text[(p + i) + 1] = text[(q + i) + 1]

\* A text between two that agree for some bytes agrees with both of them.
LEMMA Squeezed ==
  ASSUME NEW text \in Text, NEW a \in Nat, NEW b \in Nat, NEW m \in Nat, NEW limit \in Nat,
         limit <= Len(text), Precedes(text, a, m, limit), Precedes(text, m, b, limit),
         NEW common \in Nat, SameText(text, a, b, common)
  PROVE  SameText(text, m, a, common)
<1> DEFINE at(p) == text[p + 1]
<1>0. ASSUME NEW p \in Nat, p < limit PROVE at(p) \in Nat BY <1>0 DEF Text
<1>1. PICK n \in Nat : /\ a + n < limit /\ m + n < limit
                       /\ \A i \in 0..(n - 1) : at(a + i) = at(m + i)
                       /\ at(a + n) < at(m + n)
  BY DEF Precedes
<1>2. PICK k \in Nat : /\ m + k < limit /\ b + k < limit
                       /\ \A i \in 0..(k - 1) : at(m + i) = at(b + i)
                       /\ at(m + k) < at(b + k)
  BY DEF Precedes
<1>b. \A i \in 0..(common - 1) : at(a + i) = at(b + i) BY DEF SameText
<1> HIDE DEF at
<1>a. at(a + n) \in Nat /\ at(m + n) \in Nat /\ at(m + k) \in Nat /\ at(b + k) \in Nat
  BY SMTT(30), <1>0, <1>1, <1>2
<1>3. common <= n
  <2> SUFFICES ASSUME n < common PROVE FALSE OBVIOUS
  <2>1. n \in 0..(common - 1) OBVIOUS
  <2>2. at(a + n) = at(b + n) BY <2>1, <1>b
  <2>3. CASE n < k
    <3>1. n \in 0..(k - 1) BY <2>3
    <3>2. at(m + n) = at(b + n) BY <1>2, <3>1
    <3> QED BY <1>1, <1>a, <2>2, <3>2
  <2>4. CASE n = k BY <1>1, <1>2, <1>a, <2>2, <2>4
  <2>5. CASE k < n
    <3>1. k \in 0..(n - 1) /\ k \in 0..(common - 1) BY <2>5
    <3>2. at(a + k) = at(m + k) /\ at(a + k) = at(b + k) BY <1>1, <1>b, <3>1
    <3> QED BY <1>2, <1>a, <3>2
  <2> QED BY <2>3, <2>4, <2>5
<1>4. \A i \in 0..(common - 1) : at(m + i) = at(a + i)
  <2> TAKE i \in 0..(common - 1)
  <2>1. i \in 0..(n - 1) BY <1>3
  <2> QED BY <1>1, <2>1
<1> QED BY <1>4 DEF at, SameText

----------------------------------------------------------------------------
(* Slots, sides and links.                                                 *)

\* There are two sides, each the other's other.
LEMMA SidesAre ==
  ASSUME NEW side \in Sides
  PROVE  /\ Other(side) \in Sides /\ Other(side) # side /\ Other(Other(side)) = side
         /\ \A other \in Sides : other = side \/ other = Other(side)
BY DEF Sides, Other

\* The ring has a node.
LEMMA TreeSizeIs == TreeSize \in Nat \ {0} /\ TreeSize >= 1
BY ConstantsAssumption DEF ConstantsAssumption

\* A slot is in the ring.
LEMMA SlotIn ==
  ASSUME NEW i \in Int
  PROVE  Slot(i) \in 0..(TreeSize - 1)
BY TreeSizeIs, InRing DEF Slot

\* Nodes that own their slots have different ones.
LEMMA OwnApart ==
  ASSUME NEW top \in Nat, NEW i \in Nat, NEW j \in Nat,
         i <= top, j <= top, Owned(top, i), Owned(top, j), i # j
  PROVE  Slot(i) # Slot(j)
<1>1. CASE i < j
  <2>1. j < i + TreeSize BY TreeSizeIs DEF Owned
  <2>2. i \in Int /\ j \in Int OBVIOUS
  <2> QED BY <1>1, <2>1, <2>2, TreeSizeIs, Apart, Zenon DEF Slot
<1>2. CASE j < i
  <2>1. i < j + TreeSize BY TreeSizeIs DEF Owned
  <2>2. i \in Int /\ j \in Int OBVIOUS
  <2> QED BY <1>2, <2>1, <2>2, TreeSizeIs, Apart, Zenon DEF Slot
<1> QED BY <1>1, <1>2

\* The two fields of a node are its children.
LEMMA NodeIn ==
  ASSUME NEW nodes \in Forest, NEW i \in Int
  PROVE  /\ nodes[Slot(i)] \in Node
         /\ nodes[Slot(i)].smaller \in Nat /\ nodes[Slot(i)].larger \in Nat
         /\ nodes[Slot(i)]["smaller"] = nodes[Slot(i)].smaller
         /\ nodes[Slot(i)]["larger"] = nodes[Slot(i)].larger
         /\ \A side \in Sides : nodes[Slot(i)][side] \in Nat
<1>1. nodes[Slot(i)] \in Node BY SlotIn DEF Forest
<1> QED BY <1>1 DEF Node, Sides

\* `new` is `old` but for one link.
LinkedAt(new, old, k, side, v) ==
  /\ new \in Forest /\ new[k][side] = v
  /\ \A i \in 0..(TreeSize - 1), z \in Sides : <<i, z>> # <<k, side>> => new[i][z] = old[i][z]
  /\ \A i \in 0..(TreeSize - 1) : i # k => new[i] = old[i]

\* A link changes one child of one node.
LEMMA LinkAt ==
  ASSUME NEW old \in Forest, NEW k \in 0..(TreeSize - 1), NEW side \in Sides, NEW v \in Nat
  PROVE  LinkedAt(Link(old, <<k, side>>, v), old, k, side, v)
BY DEF Node, Sides, Other, Link, Forest, LinkedAt

\* The bytes that are hashed are the key of a bucket.
LEMMA HashIn ==
  ASSUME NEW text \in Inputs, NEW p \in Nat, p + HashBytes <= Len(text)
  PROVE  HashAt(text, p) \in Hashes
<1>1. text \in Seq(Nat) /\ HashBytes \in Nat
  BY ConstantsAssumption DEF ConstantsAssumption
<1>2. p + 1 \in 1..((Len(text) - HashBytes) + 1) BY <1>1
<1>3. (p + 1) + (HashBytes - 1) = p + HashBytes BY <1>1
<1>4. HashAt(text, p) = SubSeq(text, p + 1, (p + 1) + (HashBytes - 1))
  BY <1>3 DEF HashAt
<1>5. HashAt(text, p) \in {SubSeq(text, q, q + (HashBytes - 1))
                             : q \in 1..((Len(text) - HashBytes) + 1)}
  BY <1>2, <1>4
<1>6. Hashes = UNION {{SubSeq(i, q, q + (HashBytes - 1)) : q \in 1..((Len(i) - HashBytes) + 1)}
                         : i \in Inputs}
  BY DEF Hashes
<1> QED BY <1>5, <1>6

----------------------------------------------------------------------------
(* A node becomes the root of its tree.                                    *)

\* x is sorted.
Rooted(role, x)  == [role EXCEPT ![x] = "sorted"]
Unbound(bound, x) == [side \in Sides |-> [bound[side] EXCEPT ![x] = 0]]

\* The two open ends of a new root.
Both(x) == {<<Slot(x), side>> : side \in Sides}

\* What RootHolds needs: x is new, and m the root of its bucket.
RootGiven(low, limit, top, more, text, role, bound, above, moved, old, new, x) ==
  /\ low \in Nat /\ limit \in Nat /\ top \in Nat /\ more \in Nat /\ x \in Nat
  /\ role \in [Nat -> Roles] /\ bound \in [Sides -> [Nat -> Nat]]
  /\ above \in [Nat -> Nat] /\ moved \in [Nat -> Nat] /\ old \in Forest /\ new \in Forest
  /\ Nodes(low, top, limit, role, bound) /\ Bounds(text, low, limit, role, bound)
  /\ Trees(old, {}, low, top, role, bound)
  /\ Lists(text, old, low, top, role, bound, above)
  /\ top <= more /\ low <= x /\ x <= more /\ x - low < limit
  /\ Owned(more, x) /\ role[x] # "sorted"
  /\ \A k \in 0..(TreeSize - 1) : k # Slot(x) => new[k] = old[k]
  /\ \A c \in Nat : role[c] # "none" => moved[c] = above[c]

\* A new root takes its slot and the tree that was there hangs from its two open ends.
LEMMA RootHolds ==
  ASSUME NEW low, NEW limit, NEW top, NEW more, NEW text, NEW role, NEW bound,
         NEW above, NEW moved, NEW old, NEW new, NEW x,
         RootGiven(low, limit, top, more, text, role, bound, above, moved, old, new, x)
  PROVE  /\ Nodes(low, more, limit, Rooted(role, x), Unbound(bound, x))
         /\ Bounds(text, low, limit, Rooted(role, x), Unbound(bound, x))
         /\ Trees(new, Both(x), low, more, Rooted(role, x), Unbound(bound, x))
         /\ Lists(text, new, low, more, Rooted(role, x), Unbound(bound, x), moved)
         /\ Rooted(role, x) \in [Nat -> Roles] /\ Unbound(bound, x) \in [Sides -> [Nat -> Nat]]
<1> USE DEF RootGiven
<1> DEFINE r == Rooted(role, x)
           b == Unbound(bound, x)
<1>1. r \in [Nat -> Roles] /\ r[x] = "sorted" /\ \A i \in Nat : i # x => r[i] = role[i]
  BY DEF Rooted, Roles
<1>2. b \in [Sides -> [Nat -> Nat]] /\ \A side \in Sides : b[side][x] = 0
  BY DEF Unbound
<1>3. \A side \in Sides, i \in Nat : i # x => b[side][i] = bound[side][i] BY DEF Unbound
<1>4. \A side \in Sides, i \in Nat : bound[side][i] = 0 => b[side][i] = 0 BY <1>2, <1>3
<1> HIDE DEF r, b
<1>5. Nodes(low, more, limit, r, b)
  <2> SUFFICES ASSUME NEW i \in Nat
               PROVE  /\ r[i] # "none" => low <= i /\ i <= more /\ i - low < limit
                      /\ r[i] \in {"listed", "stacked"} => \A side \in Sides : b[side][i] = 0
    BY DEF Nodes
  <2>1. CASE i = x BY <1>1, <2>1
  <2>2. CASE i # x
    <3>1. r[i] = role[i] BY <1>1, <2>2
    <3>2. /\ role[i] # "none" => low <= i /\ i <= top /\ i - low < limit
          /\ role[i] \in {"listed", "stacked"} => \A side \in Sides : bound[side][i] = 0
      BY DEF Nodes
    <3>3. r[i] # "none" => low <= i /\ i <= more /\ i - low < limit BY <3>1, <3>2
    <3>4. r[i] \in {"listed", "stacked"} => \A side \in Sides : b[side][i] = 0 BY <3>1, <3>2, <1>4
    <3> QED BY <3>3, <3>4
  <2> QED BY <2>1, <2>2
<1>6. Bounds(text, low, limit, r, b)
  <2> SUFFICES ASSUME NEW i \in Nat, NEW side \in Sides, r[i] # "none", b[side][i] # 0
               PROVE  low <= b[side][i] /\ Lies(text, low, limit, b[side][i], side, i)
    BY DEF Bounds
  <2>1. i # x BY <1>2
  <2> QED BY <2>1, <1>1, <1>3 DEF Bounds
<1>7. ASSUME NEW i \in Nat, r[i] # "none", Owned(more, i), i # x
      PROVE  Owned(top, i) /\ new[Slot(i)] = old[Slot(i)]
  <2>1. i <= top /\ i <= more
    <3>1. role[i] # "none" BY <1>1, <1>7
    <3>2. i <= top BY <3>1 DEF Nodes
    <3> QED BY <3>2
  <2>2. Slot(i) # Slot(x) BY <2>1, <1>7, OwnApart
  <2>3. Owned(top, i) BY <1>7, TreeSizeIs DEF Owned
  <2> QED BY <2>2, <2>3, SlotIn
<1>8. Trees(new, Both(x), low, more, r, b)
  <2> SUFFICES ASSUME NEW i \in Nat, NEW side \in Sides, r[i] = "sorted", Owned(more, i),
                      <<Slot(i), side>> \notin Both(x)
               PROVE  Child(low, r, b, i, side, new[Slot(i)][side])
    BY DEF Trees
  <2>1. i # x BY DEF Both
  <2>2. Owned(top, i) /\ new[Slot(i)] = old[Slot(i)] BY <2>1, <1>7
  <2>3. role[i] = "sorted" BY <1>1, <2>1
  <2> DEFINE c == old[Slot(i)][side]
  <2>4. Child(low, role, bound, i, side, c) BY <2>2, <2>3 DEF Trees
  <2>5. c \in Nat BY SMTT(30), NodeIn
  <2> HIDE DEF c
  <2>6. Child(low, r, b, i, side, c)
    <3>1. CASE c >= low
      <4>1. role[c] = "sorted" BY <2>4, <3>1 DEF Child
      <4>2. c # x BY <4>1
      <4>3. r[c] = role[c] /\ b[side][c] = bound[side][c] /\ b[Other(side)][c] = bound[Other(side)][c]
        BY <4>2, <2>5, <1>1, <1>3, SidesAre
      <4>4. b[side][i] = bound[side][i] BY <1>3, <2>1
      <4> QED BY <2>4, <4>3, <4>4 DEF Child
    <3>2. CASE ~(c >= low) BY <2>4, <3>2 DEF Child
    <3> QED BY <3>1, <3>2
  <2> QED BY <2>2, <2>6 DEF c
<1>9. Lists(text, new, low, more, r, b, moved)
  <2> SUFFICES ASSUME NEW i \in Nat, r[i] \in {"listed", "stacked"}, Owned(more, i)
               PROVE  LET node == new[Slot(i)]
                      IN  /\ node.smaller < i
                          /\ Referred(text, low, r, b, moved, node.smaller, i, HashAt(text, i - low))
                          /\ node.larger = IF r[i] = "listed" THEN Mark ELSE moved[i]
    BY DEF Lists
  <2>1. i # x /\ r[i] = role[i]
    <3>1. i # x BY <1>1
    <3> QED BY <3>1, <1>1
  <2>2. Owned(top, i) /\ new[Slot(i)] = old[Slot(i)] BY <2>1, <1>7
  <2>3. moved[i] = above[i] BY <2>1
  <2> DEFINE node == old[Slot(i)]
  <2>4. /\ node.smaller < i
        /\ Referred(text, low, role, bound, above, node.smaller, i, HashAt(text, i - low))
        /\ node.larger = IF role[i] = "listed" THEN Mark ELSE above[i]
    BY <2>1, <2>2 DEF Lists
  <2>5. node.smaller \in Nat BY NodeIn
  <2> HIDE DEF node
  <2>6. Referred(text, low, r, b, moved, node.smaller, i, HashAt(text, i - low))
    <3> SUFFICES ASSUME node.smaller >= low
                 PROVE  /\ r[node.smaller] # "none" /\ moved[node.smaller] = i
                        /\ \A side \in Sides : b[side][node.smaller] = 0
                        /\ HashAt(text, node.smaller - low) = HashAt(text, i - low)
      BY DEF Referred
    <3>1. /\ role[node.smaller] # "none" /\ above[node.smaller] = i
          /\ \A side \in Sides : bound[side][node.smaller] = 0
          /\ HashAt(text, node.smaller - low) = HashAt(text, i - low)
      BY <2>4 DEF Referred
    <3>2. r[node.smaller] # "none" BY <3>1, <1>1, <2>5
    <3>3. moved[node.smaller] = i BY <3>1, <2>5
    <3> QED BY <3>1, <3>2, <3>3, <1>4, <2>5
  <2> QED BY <2>1, <2>2, <2>3, <2>4, <2>6 DEF node
<1> QED BY <1>1, <1>2, <1>5, <1>6, <1>8, <1>9 DEF r, b

----------------------------------------------------------------------------
(* A node is compared with the new root and sinks to one side of it: it is *)
(* linked at the open end there, and its own other side is the next.       *)

\* The open end of a side.
OpenAt(ends, x, side) == <<Slot(ends[side]), IF ends[side] = x THEN side ELSE Other(side)>>

\* Both of them.
Openings(ends, x) == {OpenAt(ends, x, side) : side \in Sides}

\* m has x above it on one side.
Rebound(bound, side, m, x) == [bound EXCEPT ![side] = [bound[side] EXCEPT ![m] = x]]

\* The two open ends of the way down.
EndsIn(low, top, role, bound, x, ends) ==
  /\ role[x] = "sorted"
  /\ ends["smaller"] = ends["larger"] => ends["smaller"] = x
  /\ \A side \in Sides :
       /\ bound[side][x] = 0
       /\ role[ends[side]] = "sorted" /\ ends[side] <= x /\ Owned(top, ends[side])
       /\ ends[side] # x => bound[Other(side)][ends[side]] = x

\* The node m between them.
NextIn(low, role, bound, x, ends, m) ==
  /\ low <= m /\ role[m] # "none"
  /\ \A side \in Sides : m < ends[side] /\ bound[side][m] = EndOf(ends[side], x)

\* A node is in this frame and not newer than the newest.
LEMMA NodesAre ==
  ASSUME NEW low \in Nat, NEW top, NEW limit, NEW role, NEW bound,
         Nodes(low, top, limit, role, bound), NEW i \in Nat, role[i] # "none"
  PROVE  low <= i /\ i <= top /\ i - low < limit
BY DEF Nodes

\* What SunkHolds needs.
SunkGiven(low, limit, top, text, role, bound, above, ends, old, x, m, side, opens) ==
  /\ low \in Nat
  /\ Mark < low
  /\ limit \in Nat
  /\ top \in Nat
  /\ role \in [Nat -> Roles]
  /\ bound \in [Sides -> [Nat -> Nat]]
  /\ above \in [Nat -> Nat]
  /\ ends \in [Sides -> Nat]
  /\ old \in Forest
  /\ x \in Nat
  /\ m \in Nat
  /\ side \in Sides
  /\ Nodes(low, top, limit, role, bound)
  /\ Bounds(text, low, limit, role, bound)
  /\ Trees(old, Openings(ends, x), low, top, role, bound)
  /\ Lists(text, old, low, top, role, bound, above)
  /\ EndsIn(low, top, role, bound, x, ends)
  /\ NextIn(low, role, bound, x, ends, m)
  /\ Lies(text, low, limit, x, Other(side), m)
  /\ Owned(top, m) => role[m] = "sorted"
  /\ \A i \in Nat : role[i] \in {"listed", "stacked"} /\ Owned(top, i) =>
       old[Slot(i)].smaller # m
  /\ OpenAt(ends, x, Other(side)) \in opens
  /\ Owned(top, m) => <<Slot(m), Other(side)>> \in opens

\* A node that sinks leaves the trees in order, but for the two open ends.
LEMMA SunkHolds ==
  ASSUME NEW low, NEW limit, NEW top, NEW text, NEW role, NEW bound, NEW above, NEW ends, NEW
         old, NEW x, NEW m, NEW side, NEW opens,
         SunkGiven(low, limit, top, text, role, bound, above, ends, old, x, m, side, opens)
  PROVE  LET new == Link(old, OpenAt(ends, x, side), m)
             r   == Rooted(role, m)
             b   == Rebound(bound, Other(side), m, x)
         IN  /\ Nodes(low, top, limit, r, b) /\ Bounds(text, low, limit, r, b)
             /\ Trees(new, opens, low, top, r, b)
             /\ Lists(text, new, low, top, r, b, above)
             /\ new \in Forest /\ r \in [Nat -> Roles] /\ b \in [Sides -> [Nat -> Nat]]
<1> USE DEF SunkGiven
<1> DEFINE place == OpenAt(ends, x, side)
           new == Link(old, place, m)
           r == Rooted(role, m)
           b == Rebound(bound, Other(side), m, x)
<1>0. Other(side) \in Sides /\ Other(side) # side /\ Other(Other(side)) = side
      /\ \A s \in Sides : s = side \/ s = Other(side)
  BY SidesAre
<1>1. r \in [Nat -> Roles] /\ r[m] = "sorted" /\ \A i \in Nat : i # m => r[i] = role[i]
  BY DEF Rooted, Roles
<1>2. b \in [Sides -> [Nat -> Nat]] /\ b[Other(side)][m] = x /\ b[side][m] = bound[side][m]
  BY <1>0 DEF Rebound
<1>3. \A s \in Sides, i \in Nat : i # m => b[s][i] = bound[s][i] BY <1>0 DEF Rebound
<1>4. \A s \in Sides : ends[s] \in Nat /\ m < ends[s] /\ ends[s] <= x /\ role[ends[s]] = "sorted"
                       /\ Owned(top, ends[s]) /\ ends[s] <= top
  <2> TAKE s \in Sides
  <2>1. m < ends[s] BY DEF NextIn
  <2>2. ends[s] <= x /\ role[ends[s]] = "sorted" /\ Owned(top, ends[s]) BY DEF EndsIn
  <2>3. ends[s] \in Nat OBVIOUS
  <2>4. role[ends[s]] # "none" BY <2>2
  <2>5. ends[s] <= top BY <2>3, <2>4, NodesAre
  <2> QED BY <2>1, <2>2, <2>3, <2>5
<1>5. low <= m /\ m <= top /\ m - low < limit /\ m < x /\ m # Mark
  <2>1. role[m] # "none" BY DEF NextIn
  <2>2. low <= m /\ m <= top /\ m - low < limit BY <2>1, NodesAre
  <2>3. m < ends[side] /\ ends[side] <= x BY <1>4
  <2> QED BY <2>2, <2>3 DEF Mark
<1>6. PICK z \in Sides : place = <<Slot(ends[side]), z>>
                        /\ z = IF ends[side] = x THEN side ELSE Other(side)
  BY <1>0 DEF OpenAt
<1> HIDE DEF r, b, place
<1>7. LinkedAt(new, old, Slot(ends[side]), z, m)
  <2>1. Slot(ends[side]) \in 0..(TreeSize - 1) BY <1>4, SlotIn
  <2> QED BY <2>1, <1>6, LinkAt
<1> HIDE DEF new
<1>8. /\ new \in Forest /\ new[Slot(ends[side])][z] = m
      /\ \A k \in 0..(TreeSize - 1), s \in Sides : <<k, s>> # place => new[k][s] = old[k][s]
      /\ \A k \in 0..(TreeSize - 1) : k # Slot(ends[side]) => new[k] = old[k]
  BY <1>6, <1>7 DEF LinkedAt
<1>9. \A i \in Nat : r[i] # "none" => role[i] # "none" /\ i <= top
  <2> TAKE i \in Nat
  <2>1. role[m] # "none" BY DEF NextIn
  <2>2. r[i] # "none" => role[i] # "none" BY <2>1, <1>1
  <2>3. role[i] # "none" => i <= top BY NodesAre
  <2> QED BY <2>2, <2>3
<1>10. Nodes(low, top, limit, r, b)
  <2> SUFFICES ASSUME NEW i \in Nat
               PROVE  /\ r[i] # "none" => low <= i /\ i <= top /\ i - low < limit
                      /\ r[i] \in {"listed", "stacked"} => \A s \in Sides : b[s][i] = 0
    BY DEF Nodes
  <2>1. r[i] # "none" => low <= i /\ i <= top /\ i - low < limit BY <1>9, NodesAre
  <2>2. ASSUME r[i] \in {"listed", "stacked"}, NEW s \in Sides PROVE b[s][i] = 0
    <3>1. i # m BY <1>1, <2>2
    <3>2. role[i] = r[i] /\ b[s][i] = bound[s][i] BY <3>1, <1>1, <1>3
    <3> QED BY <3>2, <2>2 DEF Nodes
  <2> QED BY <2>1, <2>2
<1>11. Bounds(text, low, limit, r, b)
  <2> SUFFICES ASSUME NEW i \in Nat, NEW s \in Sides, r[i] # "none", b[s][i] # 0
               PROVE  low <= b[s][i] /\ Lies(text, low, limit, b[s][i], s, i)
    BY DEF Bounds
  <2>1. CASE b[s][i] = bound[s][i] BY <2>1, <1>9 DEF Bounds
  <2>2. CASE b[s][i] # bound[s][i]
    <3>1. i = m /\ s = Other(side) BY <2>2, <1>2, <1>3, <1>0
    <3>2. b[s][i] = x BY <3>1, <1>2
    <3> QED BY <3>1, <3>2, <1>5
  <2> QED BY <2>1, <2>2
<1>12. ASSUME NEW i \in Nat, r[i] = "sorted", Owned(top, i), NEW w \in Sides,
              <<Slot(i), w>> \notin opens
       PROVE  Child(low, r, b, i, w, new[Slot(i)][w])
  <2>0. Slot(i) \in 0..(TreeSize - 1) BY SMTT(30), SlotIn
  <2>1. CASE <<Slot(i), w>> = place
    <3>1. Slot(i) = Slot(ends[side]) /\ w = z /\ w = IF ends[side] = x THEN side ELSE Other(side)
      BY <2>1, <1>6
    <3>2. i <= top BY <1>9, <1>12
    <3>3. i = ends[side] BY <3>1, <3>2, <1>4, <1>12, OwnApart
    <3>5. new[Slot(i)][w] = m BY <1>8, <3>1
    <3>6. m < i BY <3>3, <1>4
    <3>7. b[Other(w)][m] = i /\ b[w][m] = b[w][i]
      <4>1. i # m BY <3>6
      <4>2. bound[side][m] = EndOf(ends[side], x) BY DEF NextIn
      <4>3. CASE i = x
        <5>1. w = side BY <4>3, <3>1, <3>3
        <5>2. b[w][m] = 0 BY <5>1, <4>2, <4>3, <3>3, <1>2 DEF EndOf
        <5>3. bound[w][x] = 0 BY DEF EndsIn
        <5>4. b[w][i] = 0 BY <5>3, <4>1, <4>3, <1>3
        <5> QED BY <5>1, <5>2, <5>4, <4>3, <1>2
      <4>4. CASE i # x
        <5>1. w = Other(side) BY <4>4, <3>1, <3>3
        <5>2. b[side][m] = i BY <4>2, <4>4, <3>3, <1>2 DEF EndOf
        <5>3. bound[Other(side)][i] = x BY <4>4, <3>3 DEF EndsIn
        <5>4. b[Other(side)][i] = x BY <5>3, <4>1, <1>0, <1>3
        <5> QED BY <5>1, <5>2, <5>4, <1>0, <1>2
      <4> QED BY <4>3, <4>4
    <3> QED BY <3>5, <3>6, <3>7, <1>1, <1>5 DEF Child
  <2>2. CASE <<Slot(i), w>> # place
    <3>1. new[Slot(i)][w] = old[Slot(i)][w] BY <2>0, <2>2, <1>8
    <3> DEFINE c == old[Slot(i)][w]
    <3>2. c \in Nat BY SMTT(30), NodeIn
    <3>3. role[i] = "sorted"
      <4>1. CASE i = m BY <4>1, <1>12
      <4>2. CASE i # m BY <4>2, <1>1, <1>12
      <4> QED BY <4>1, <4>2
    <3>4. i = m => w = side BY <1>12, <1>0
    <3>5. <<Slot(i), w>> \notin Openings(ends, x)
      <4> SUFFICES ASSUME NEW s \in Sides, <<Slot(i), w>> = OpenAt(ends, x, s) PROVE FALSE
        BY DEF Openings
      <4>1. s = side \/ s = Other(side) BY <1>0
      <4>2. s # side BY <2>2 DEF place
      <4> QED BY <4>1, <4>2, <1>12
    <3>6. Child(low, role, bound, i, w, c) BY <3>3, <3>5, <1>12 DEF Trees
    <3> HIDE DEF c
    <3>7. ASSUME c >= low PROVE c # m
      <4> SUFFICES ASSUME c = m PROVE FALSE OBVIOUS
      <4>1. bound[Other(w)][m] = i /\ m < i BY <3>6, <3>7 DEF Child
      <4>2. Other(w) \in Sides /\ Other(Other(w)) = w BY SidesAre
      <4>3. bound[Other(w)][m] = EndOf(ends[Other(w)], x) BY <4>2 DEF NextIn
      <4>4. i # 0 BY <4>1
      <4>5. i = ends[Other(w)] /\ i # x BY <4>1, <4>3, <4>4 DEF EndOf
      <4>6. OpenAt(ends, x, Other(w)) = <<Slot(i), w>> BY <4>2, <4>5 DEF OpenAt
      <4> QED BY <4>2, <4>6, <3>5 DEF Openings
    <3>8. Child(low, r, b, i, w, c)
      <4>1. CASE ~(c >= low) BY <4>1, <3>6 DEF Child
      <4>2. CASE c >= low
        <5>1. /\ c # Mark /\ c < i /\ role[c] = "sorted"
              /\ bound[Other(w)][c] = i /\ bound[w][c] = bound[w][i]
          BY <4>2, <3>6 DEF Child
        <5>2. c # m BY <4>2, <3>7
        <5>3. r[c] = "sorted" BY <5>1, <5>2, <3>2, <1>1
        <5>4. b[Other(w)][c] = i BY <5>1, <5>2, <3>2, <1>3, SidesAre
        <5>5. b[w][c] = bound[w][i] BY <5>1, <5>2, <3>2, <1>3
        <5>6. b[w][i] = bound[w][i]
          <6>1. CASE i = m BY <6>1, <3>4, <1>2
          <6>2. CASE i # m BY <6>2, <1>3
          <6> QED BY <6>1, <6>2
        <5> QED BY <5>1, <5>3, <5>4, <5>5, <5>6 DEF Child
      <4> QED BY <4>1, <4>2
    <3> QED BY <3>1, <3>8 DEF c
  <2> QED BY <2>1, <2>2
<1>13. Trees(new, opens, low, top, r, b) BY <1>12 DEF Trees
<1>14. Lists(text, new, low, top, r, b, above)
  <2> SUFFICES ASSUME NEW i \in Nat, r[i] \in {"listed", "stacked"}, Owned(top, i)
               PROVE  LET node == new[Slot(i)]
                      IN  /\ node.smaller < i
                          /\ Referred(text, low, r, b, above, node.smaller, i, HashAt(text, i - low))
                          /\ node.larger = IF r[i] = "listed" THEN Mark ELSE above[i]
    BY DEF Lists
  <2>1. i # m BY <1>1
  <2>2. r[i] = role[i] BY <2>1, <1>1
  <2>3. i # ends[side] /\ i <= top
    <3>1. role[ends[side]] = "sorted" BY <1>4
    <3>2. r[i] # "none" OBVIOUS
    <3> QED BY <3>1, <3>2, <2>2, <1>9
  <2>4. Slot(i) # Slot(ends[side]) BY <2>3, <1>4, OwnApart
  <2>5. new[Slot(i)] = old[Slot(i)] BY SMTT(30), <2>4, <1>8, SlotIn
  <2> DEFINE node == old[Slot(i)]
  <2>6. /\ node.smaller < i
        /\ Referred(text, low, role, bound, above, node.smaller, i, HashAt(text, i - low))
        /\ node.larger = IF role[i] = "listed" THEN Mark ELSE above[i]
    BY <2>2 DEF Lists
  <2>7. node.smaller # m BY <2>2
  <2>8. node.smaller \in Nat BY SMTT(30), NodeIn
  <2> HIDE DEF node
  <2>9. Referred(text, low, r, b, above, node.smaller, i, HashAt(text, i - low))
    <3>1. r[node.smaller] = role[node.smaller] BY <2>7, <2>8, <1>1
    <3>2. \A s \in Sides : b[s][node.smaller] = bound[s][node.smaller] BY <2>7, <2>8, <1>3
    <3> QED BY <3>1, <3>2, <2>6 DEF Referred
  <2> QED BY <2>2, <2>5, <2>6, <2>9 DEF node
<1> QED BY <1>1, <1>2, <1>8, <1>10, <1>11, <1>13, <1>14 DEF new, r, b, place

----------------------------------------------------------------------------
(* An open end is closed.                                                  *)

\* What ClosedHolds needs.
ClosedGiven(low, limit, top, text, role, bound, above, old, e, side, opens) ==
  /\ low \in Nat
  /\ Mark < low
  /\ top \in Nat
  /\ role \in [Nat -> Roles]
  /\ old \in Forest
  /\ e \in Nat
  /\ side \in Sides
  /\ Nodes(low, top, limit, role, bound)
  /\ Trees(old, opens, low, top, role, bound)
  /\ Lists(text, old, low, top, role, bound, above)
  /\ role[e] = "sorted"
  /\ Owned(top, e)

\* An open end that is closed with 0 leaves the trees in order.
LEMMA ClosedHolds ==
  ASSUME NEW low, NEW limit, NEW top, NEW text, NEW role, NEW bound, NEW above, NEW old, NEW e,
         NEW side, NEW opens,
         ClosedGiven(low, limit, top, text, role, bound, above, old, e, side, opens)
  PROVE  LET new == Link(old, <<Slot(e), side>>, 0)
         IN  /\ new \in Forest
             /\ Trees(new, opens \ {<<Slot(e), side>>}, low, top, role, bound)
             /\ Lists(text, new, low, top, role, bound, above)
<1> USE DEF ClosedGiven
<1> DEFINE new == Link(old, <<Slot(e), side>>, 0)
<1>1. /\ new \in Forest /\ new[Slot(e)][side] = 0
      /\ \A k \in 0..(TreeSize - 1), s \in Sides :
           <<k, s>> # <<Slot(e), side>> => new[k][s] = old[k][s]
      /\ \A k \in 0..(TreeSize - 1) : k # Slot(e) => new[k] = old[k]
  <2>1. Slot(e) \in 0..(TreeSize - 1) /\ 0 \in Nat BY SlotIn
  <2>2. LinkedAt(new, old, Slot(e), side, 0) BY <2>1, LinkAt
  <2> HIDE DEF new
  <2> QED BY <2>2 DEF LinkedAt
<1> HIDE DEF new
<1>2. Trees(new, opens \ {<<Slot(e), side>>}, low, top, role, bound)
  <2> SUFFICES ASSUME NEW i \in Nat, NEW z \in Sides, role[i] = "sorted", Owned(top, i),
                      <<Slot(i), z>> \notin opens \ {<<Slot(e), side>>}
               PROVE  Child(low, role, bound, i, z, new[Slot(i)][z])
    BY DEF Trees
  <2>1. CASE <<Slot(i), z>> = <<Slot(e), side>>
    <3>1. new[Slot(i)][z] = 0 BY <2>1, <1>1
    <3> QED BY <3>1 DEF Child, Mark
  <2>2. CASE <<Slot(i), z>> # <<Slot(e), side>>
    <3>1. new[Slot(i)][z] = old[Slot(i)][z] BY <2>2, <1>1, SlotIn
    <3>2. <<Slot(i), z>> \notin opens BY <2>2
    <3> QED BY <3>1, <3>2 DEF Trees
  <2> QED BY <2>1, <2>2
<1>3. Lists(text, new, low, top, role, bound, above)
  <2>1. ASSUME NEW i \in Nat, role[i] \in {"listed", "stacked"}, Owned(top, i)
        PROVE  new[Slot(i)] = old[Slot(i)]
    <3>1. role[i] # "none" /\ role[e] # "none" /\ i # e BY <2>1
    <3>2. i <= top /\ e <= top BY <3>1, NodesAre
    <3>3. Slot(i) # Slot(e) BY <3>1, <3>2, <2>1, OwnApart
    <3> QED BY <3>3, <1>1, SlotIn
  <2> QED BY <2>1 DEF Lists
<1> QED BY <1>1, <1>2, <1>3 DEF new

----------------------------------------------------------------------------
(* A node that waited gets another role.                                   *)

\* A root or the end of a list is one still when nothing about it changed.
LEMMA ReferredKept ==
  ASSUME NEW text, NEW low, NEW role, NEW bound, NEW above, NEW c, NEW by, NEW h,
         NEW r, NEW b, NEW a,
         Referred(text, low, role, bound, above, c, by, h),
         c >= low => /\ r[c] # "none" /\ a[c] = above[c]
                     /\ \A side \in Sides : b[side][c] = bound[side][c]
  PROVE  Referred(text, low, r, b, a, c, by, h)
BY DEF Referred

\* What RoleHolds needs.
RoleGiven(low, limit, top, text, role, bound, above, c, old, new, become) ==
  /\ low \in Nat
  /\ Mark < low
  /\ top \in Nat
  /\ role \in [Nat -> Roles]
  /\ c \in Nat
  /\ old \in Forest
  /\ new \in Forest
  /\ Nodes(low, top, limit, role, bound)
  /\ Bounds(text, low, limit, role, bound)
  /\ Trees(old, {}, low, top, role, bound)
  /\ Lists(text, old, low, top, role, bound, above)
  /\ role[c] = "listed"
  /\ Owned(top, c)
  /\ \A k \in 0..(TreeSize - 1) : k # Slot(c) => new[k] = old[k]
  /\ become \in {"stacked", "sorted"}
  /\ become = "stacked" => /\ new[Slot(c)].smaller = old[Slot(c)].smaller
                           /\ new[Slot(c)].larger = above[c]
  /\ become = "sorted" => new[Slot(c)] = Leaf

\* A node that is put on the stack, or cut from its list, leaves the rest as it is.
LEMMA RoleHolds ==
  ASSUME NEW low, NEW limit, NEW top, NEW text, NEW role, NEW bound, NEW above, NEW c, NEW old,
         NEW new, NEW become,
         RoleGiven(low, limit, top, text, role, bound, above, c, old, new, become)
  PROVE  LET r == [role EXCEPT ![c] = become]
         IN  /\ Nodes(low, top, limit, r, bound) /\ Bounds(text, low, limit, r, bound)
             /\ Trees(new, {}, low, top, r, bound)
             /\ Lists(text, new, low, top, r, bound, above)
             /\ r \in [Nat -> Roles]
<1> USE DEF RoleGiven
<1> DEFINE r == [role EXCEPT ![c] = become]
<1>1. r \in [Nat -> Roles] /\ r[c] = become /\ \A i \in Nat : i # c => r[i] = role[i]
  BY DEF Roles
<1> HIDE DEF r
<1>2. \A i \in Nat : (r[i] # "none") = (role[i] # "none") BY <1>1
<1>3. \A i \in Nat : role[i] # "none" => low <= i /\ i <= top /\ i - low < limit BY NodesAre
<1>4. Nodes(low, top, limit, r, bound)
  <2> SUFFICES ASSUME NEW i \in Nat
               PROVE  /\ r[i] # "none" => low <= i /\ i <= top /\ i - low < limit
                      /\ r[i] \in {"listed", "stacked"} => \A s \in Sides : bound[s][i] = 0
    BY DEF Nodes
  <2>1. r[i] # "none" => low <= i /\ i <= top /\ i - low < limit BY <1>2, <1>3
  <2>2. ASSUME r[i] \in {"listed", "stacked"}, NEW s \in Sides PROVE bound[s][i] = 0
    <3>1. role[i] \in {"listed", "stacked"} BY <1>1, <2>2
    <3> QED BY <3>1 DEF Nodes
  <2> QED BY <2>1, <2>2
<1>5. Bounds(text, low, limit, r, bound) BY <1>2 DEF Bounds
<1>6. ASSUME NEW i \in Nat, r[i] # "none", Owned(top, i), i # c
      PROVE  new[Slot(i)] = old[Slot(i)]
  <2>1. i <= top /\ c <= top BY <1>2, <1>3, <1>6
  <2>2. Slot(i) # Slot(c) BY <2>1, <1>6, OwnApart
  <2> QED BY <2>2, SlotIn
<1>7. Trees(new, {}, low, top, r, bound)
  <2> SUFFICES ASSUME NEW i \in Nat, NEW side \in Sides, r[i] = "sorted", Owned(top, i)
               PROVE  Child(low, r, bound, i, side, new[Slot(i)][side])
    BY DEF Trees
  <2>1. CASE i = c
    <3>1. new[Slot(i)] = Leaf BY <2>1, <1>1
    <3>2. new[Slot(i)][side] = 0 BY <3>1 DEF Leaf, Sides
    <3> QED BY <3>2 DEF Child, Mark
  <2>2. CASE i # c
    <3>1. new[Slot(i)] = old[Slot(i)] BY <2>2, <1>6
    <3>2. role[i] = "sorted" BY <2>2, <1>1
    <3> DEFINE d == old[Slot(i)][side]
    <3>3. Child(low, role, bound, i, side, d) BY <3>2 DEF Trees
    <3>4. d \in Nat BY NodeIn
    <3> HIDE DEF d
    <3>5. Child(low, r, bound, i, side, d)
      <4>1. CASE ~(d >= low) BY <4>1, <3>3 DEF Child
      <4>2. CASE d >= low
        <5>1. role[d] = "sorted" BY <4>2, <3>3 DEF Child
        <5>2. r[d] = "sorted" BY <5>1, <3>4, <1>1
        <5> QED BY <5>2, <3>3 DEF Child
      <4> QED BY <4>1, <4>2
    <3> QED BY <3>1, <3>5 DEF d
  <2> QED BY <2>1, <2>2
<1>8. Lists(text, new, low, top, r, bound, above)
  <2> SUFFICES ASSUME NEW i \in Nat, r[i] \in {"listed", "stacked"}, Owned(top, i)
               PROVE  LET node == new[Slot(i)]
                      IN  /\ node.smaller < i
                          /\ Referred(text, low, r, bound, above, node.smaller, i, HashAt(text, i - low))
                          /\ node.larger = IF r[i] = "listed" THEN Mark ELSE above[i]
    BY DEF Lists
  <2> DEFINE node == old[Slot(i)]
  <2>1. role[i] \in {"listed", "stacked"} BY <1>1
  <2>2. /\ node.smaller < i
        /\ Referred(text, low, role, bound, above, node.smaller, i, HashAt(text, i - low))
        /\ node.larger = IF role[i] = "listed" THEN Mark ELSE above[i]
    BY <2>1 DEF Lists
  <2>3. node.smaller \in Nat BY NodeIn
  <2>4. /\ new[Slot(i)].smaller = node.smaller
        /\ new[Slot(i)].larger = IF r[i] = "listed" THEN Mark ELSE above[i]
    <3>1. CASE i = c
      <4>1. r[i] = "stacked" /\ become = "stacked" BY <3>1, <1>1
      <4> QED BY <3>1, <4>1
    <3>2. CASE i # c
      <4>1. new[Slot(i)] = node /\ r[i] = role[i] BY <3>2, <1>1, <1>6
      <4> QED BY <4>1, <2>2
    <3> QED BY <3>1, <3>2
  <2> HIDE DEF node
  <2>5. Referred(text, low, r, bound, above, node.smaller, i, HashAt(text, i - low))
    <3>1. node.smaller >= low => r[node.smaller] # "none"
      BY <2>2, <2>3, <1>2 DEF Referred
    <3> QED BY <3>1, <2>2, ReferredKept
  <2> QED BY <2>2, <2>4, <2>5
<1> QED BY <1>1, <1>4, <1>5, <1>7, <1>8 DEF r

----------------------------------------------------------------------------
(* Positions are listed: the indexes from n on and before m.               *)

\* What ListingHolds needs: n..m are listed, m itself not yet.
ListingGiven(low, limit, top, n, m, text, role, bound, above, old, new, roots, found2, before) ==
  /\ low \in Nat
  /\ Mark < low
  /\ limit \in Nat
  /\ top \in Nat
  /\ n \in Nat
  /\ m \in Nat
  /\ role \in [Nat -> Roles]
  /\ bound \in [Sides -> [Nat -> Nat]]
  /\ above \in [Nat -> Nat]
  /\ old \in Forest
  /\ new \in Forest
  /\ roots \in [Hashes -> Nat]
  /\ found2 \in [Hashes -> Nat]
  /\ Nodes(low, top, limit, role, bound)
  /\ Bounds(text, low, limit, role, bound)
  /\ Trees(old, {}, low, top, role, bound)
  /\ Heads(text, roots, low, role, bound, above)
  /\ Lists(text, old, low, top, role, bound, above)
  /\ \A i \in Nat : role[i] # "stacked"
  /\ low <= n
  /\ top < n
  /\ n <= m
  /\ m - low < limit
  /\ before \in [Nat -> Nat]
  /\ \A i \in n..(m - 1) : HashAt(text, i - low) \in Hashes
  /\ \A i \in n..(m - 1) :
       \/ /\ before[i] \in n..(i - 1) /\ HashAt(text, before[i] - low) = HashAt(text, i - low)
          /\ \A j \in n..(i - 1) : HashAt(text, j - low) = HashAt(text, i - low) => j <= before[i]
       \/ /\ before[i] = roots[HashAt(text, i - low)]
          /\ \A j \in n..(i - 1) : HashAt(text, j - low) # HashAt(text, i - low)
  /\ \A h \in Hashes :
       \/ /\ found2[h] \in n..(m - 1) /\ HashAt(text, found2[h] - low) = h
          /\ \A j \in n..(m - 1) : HashAt(text, j - low) = h => j <= found2[h]
       \/ /\ found2[h] = roots[h]
          /\ \A j \in n..(m - 1) : HashAt(text, j - low) # h
  /\ \A k \in 0..(TreeSize - 1) :
       \/ \E i \in n..(m - 1) : /\ Slot(i) = k /\ new[k].smaller = before[i] /\ new[k].larger = Mark
                                /\ \A j \in n..(m - 1) : Slot(j) = k => j <= i
       \/ new[k] = old[k] /\ \A j \in n..(m - 1) : Slot(j) # k

\* Positions listed at once are a list in each bucket: each lists the one before,
\* and the first of them the root of the tree that was there.
LEMMA ListingHolds ==
  ASSUME NEW low, NEW limit, NEW top, NEW n, NEW m, NEW text, NEW role, NEW bound, NEW above, NEW
         old, NEW new, NEW roots, NEW found2, NEW before,
         ListingGiven(low, limit, top, n, m, text, role, bound, above, old, new, roots, found2, before)
  PROVE  \E r \in [Nat -> Roles], b \in [Sides -> [Nat -> Nat]], a \in [Nat -> Nat] :
           /\ Nodes(low, m, limit, r, b) /\ Bounds(text, low, limit, r, b)
           /\ Trees(new, {}, low, m, r, b)
           /\ Heads(text, found2, low, r, b, a)
           /\ Lists(text, new, low, m, r, b, a)
           /\ \A i \in Nat : r[i] # "stacked"
           /\ r[m] = "none"
<1>n. \A i \in Nat : role[i] # "none" => low <= i /\ i <= top /\ i - low < limit
  <2>1. low \in Nat /\ Nodes(low, top, limit, role, bound) BY DEF ListingGiven
  <2> QED BY <2>1, NodesAre
<1> USE DEF ListingGiven
<1> DEFINE L == n..(m - 1)
           H(i) == HashAt(text, i - low)
           r == [i \in Nat |-> IF i \in L THEN "listed" ELSE role[i]]
           b == [side \in Sides |-> [i \in Nat |-> IF i \in L THEN 0 ELSE bound[side][i]]]
           By(i, j) == j \in L /\ before[j] = i /\ i >= low
           a == [i \in Nat |-> IF \E j \in Nat : By(i, j) THEN CHOOSE j \in Nat : By(i, j)
                               ELSE IF i \in L THEN 0 ELSE above[i]]
<1>1. /\ r \in [Nat -> Roles] /\ \A i \in L : r[i] = "listed"
      /\ \A i \in Nat : i \notin L => r[i] = role[i]
  BY DEF Roles
<1>2. /\ b \in [Sides -> [Nat -> Nat]] /\ \A side \in Sides, i \in L : b[side][i] = 0
      /\ \A side \in Sides, i \in Nat : i \notin L => b[side][i] = bound[side][i]
  <2>1. \A i \in L : i \in Nat OBVIOUS
  <2> HIDE DEF L
  <2>2. b \in [Sides -> [Nat -> Nat]] OBVIOUS
  <2>3. \A side \in Sides, i \in Nat : b[side][i] = IF i \in L THEN 0 ELSE bound[side][i]
    OBVIOUS
  <2> HIDE DEF b
  <2> QED BY <2>1, <2>2, <2>3
<1>3. /\ a \in [Nat -> Nat]
      /\ \A i \in Nat, j \in L : before[j] = i /\ i >= low =>
           a[i] \in L /\ before[a[i]] = i
      /\ \A i \in Nat : (\A j \in L : before[j] = i => ~(i >= low)) =>
           a[i] = IF i \in L THEN 0 ELSE above[i]
  <2>1. \A j \in L : j \in Nat OBVIOUS
  <2>2. ASSUME NEW i \in Nat PROVE a[i] \in Nat
    <3>1. CASE \E j \in Nat : By(i, j)
      <4>1. (CHOOSE j \in Nat : By(i, j)) \in Nat BY <3>1
      <4> HIDE DEF By
      <4> QED BY <3>1, <4>1
    <3>2. CASE ~ \E j \in Nat : By(i, j)
      <4> HIDE DEF By
      <4> QED BY <3>2
    <3> QED BY <3>1, <3>2
  <2>3. ASSUME NEW i \in Nat, NEW j \in L, before[j] = i, i >= low
        PROVE  a[i] \in L /\ before[a[i]] = i
    <3>1. j \in Nat /\ By(i, j) BY <2>1, <2>3
    <3>2. By(i, CHOOSE k \in Nat : By(i, k))
      <4> HIDE DEF By
      <4> QED BY <3>1
    <3>3. a[i] = CHOOSE k \in Nat : By(i, k)
      <4> HIDE DEF By
      <4> QED BY <3>1
    <3>4. By(i, a[i])
      <4> HIDE DEF By, a
      <4> QED BY <3>2, <3>3
    <3> HIDE DEF a
    <3> QED BY <3>4
  <2>4. ASSUME NEW i \in Nat, \A j \in L : before[j] = i => ~(i >= low)
        PROVE  a[i] = IF i \in L THEN 0 ELSE above[i]
    <3>1. ~ \E j \in Nat : By(i, j) BY <2>4
    <3> HIDE DEF By, L
    <3> QED BY <3>1
  <2>5. a \in [Nat -> Nat]
    <3>1. a = [i \in Nat |-> a[i]] OBVIOUS
    <3> HIDE DEF a
    <3> QED BY <2>2, <3>1
  <2> HIDE DEF a, L
  <2> QED BY <2>3, <2>4, <2>5
<1> HIDE DEF r, b, a
<1>4. \A i \in L : i \in Nat /\ low <= i /\ i <= m /\ i - low < limit /\ top < i
  OBVIOUS
<1>5. \A i \in Nat : role[i] # "none" => low <= i /\ i <= top /\ i \notin L /\ i <= m /\ i - low < limit
  <2> TAKE i \in Nat
  <2> HAVE role[i] # "none"
  <2>1. low <= i /\ i <= top /\ i - low < limit BY <1>n
  <2> QED BY <2>1
<1>6. \A h \in Hashes : roots[h] \in Nat /\ (roots[h] >= low =>
         /\ role[roots[h]] # "none" /\ above[roots[h]] = 0 /\ H(roots[h]) = h
         /\ \A side \in Sides : bound[side][roots[h]] = 0)
  BY DEF Heads, Referred
\* What a node that is listed refers to.
<1>7. ASSUME NEW j \in L
      PROVE  /\ before[j] \in Nat /\ before[j] < j
             /\ before[j] >= low => r[before[j]] # "none" /\ H(before[j]) = H(j)
             /\ before[j] \notin L => before[j] = roots[H(j)]
  <2>1. H(j) \in Hashes /\ before[j] \in Nat BY <1>4
  <2>2. CASE before[j] \in n..(j - 1) /\ H(before[j]) = H(j)
    <3>1. before[j] \in L BY <2>2
    <3> QED BY <3>1, <2>1, <2>2, <1>1
  <2>3. CASE before[j] = roots[H(j)]
    <3>1. before[j] >= low => role[before[j]] # "none" /\ H(before[j]) = H(j)
      BY <2>1, <2>3, <1>6
    <3>2. before[j] >= low => before[j] <= top /\ before[j] \notin L BY <3>1, <2>1, <1>5
    <3>3. before[j] < j BY <3>2, <2>1, <1>4
    <3> QED BY <2>1, <2>3, <3>1, <3>2, <3>3, <1>1
  <2> QED BY <2>2, <2>3
\* Two that refer to the same are the same.
<1>8. ASSUME NEW i \in L, NEW j \in L, before[i] = before[j], before[i] >= low
      PROVE  i = j
  <2>1. H(i) = H(j) /\ before[i] < i /\ before[j] < j BY <1>7, <1>8
  <2>2. ASSUME NEW k \in L, NEW l \in L, k < l, H(k) = H(l), before[k] < k
        PROVE  before[l] # before[k]
    <3>1. k \in n..(l - 1) BY <2>2
    <3>2. k <= before[l] BY <3>1, <2>2
    <3>3. before[l] \in Nat /\ before[k] \in Nat BY <1>4
    <3> QED BY <2>2, <3>2, <3>3, <1>4
  <2>3. ~(i < j) BY <2>1, <2>2, <1>8
  <2>4. ~(j < i) BY <2>1, <2>2, <1>8
  <2> QED BY <2>3, <2>4, <1>4
<1>9. Nodes(low, m, limit, r, b)
  <2> SUFFICES ASSUME NEW i \in Nat
               PROVE  /\ r[i] # "none" => low <= i /\ i <= m /\ i - low < limit
                      /\ r[i] \in {"listed", "stacked"} => \A s \in Sides : b[s][i] = 0
    BY DEF Nodes
  <2>1. CASE i \in L
    <3>1. low <= i /\ i <= m /\ i - low < limit BY <2>1, <1>4
    <3>2. \A s \in Sides : b[s][i] = 0 BY <2>1, <1>2
    <3> QED BY <3>1, <3>2
  <2>2. CASE i \notin L
    <3>1. r[i] = role[i] BY <2>2, <1>1
    <3>2. r[i] # "none" => low <= i /\ i <= m /\ i - low < limit BY <3>1, <1>5
    <3>3. ASSUME r[i] \in {"listed", "stacked"}, NEW s \in Sides PROVE b[s][i] = 0
      <4>1. bound[s][i] = 0 BY <3>1, <3>3 DEF Nodes
      <4>2. b[s][i] = bound[s][i]
        <5> HIDE DEF L
        <5> QED BY <2>2, <1>2
      <4> QED BY <4>1, <4>2
    <3> QED BY <3>2, <3>3
  <2> QED BY <2>1, <2>2
<1>10. Bounds(text, low, limit, r, b)
  <2> SUFFICES ASSUME NEW i \in Nat, NEW s \in Sides, r[i] # "none", b[s][i] # 0
               PROVE  low <= b[s][i] /\ Lies(text, low, limit, b[s][i], s, i)
    BY DEF Bounds
  <2>1. i \notin L
    <3> SUFFICES ASSUME i \in L PROVE FALSE OBVIOUS
    <3>1. b[s][i] = 0
      <4> HIDE DEF L
      <4> QED BY <1>2
    <3> QED BY <3>1
  <2>2. r[i] = role[i] /\ b[s][i] = bound[s][i] BY <2>1, <1>1, <1>2
  <2> QED BY <2>2 DEF Bounds
<1>11. ASSUME NEW i \in Nat, role[i] # "none", Owned(m, i)
       PROVE  Owned(top, i) /\ new[Slot(i)] = old[Slot(i)]
  <2>1. i <= top BY <1>5, <1>11
  <2>2. Owned(top, i) BY <1>11, TreeSizeIs DEF Owned
  <2>3. ASSUME NEW j \in L PROVE Slot(j) # Slot(i)
    <3>1. j <= m /\ Owned(m, j) /\ j # i /\ i <= m
      BY <1>4, <1>11, <2>1, TreeSizeIs DEF Owned
    <3>2. m \in Nat /\ j \in Nat OBVIOUS
    <3> QED BY <3>1, <3>2, <1>11, OwnApart
  <2>4. Slot(i) \in 0..(TreeSize - 1) BY SlotIn
  <2> QED BY <2>2, <2>3, <2>4
<1>12. Trees(new, {}, low, m, r, b)
  <2> SUFFICES ASSUME NEW i \in Nat, NEW side \in Sides, r[i] = "sorted", Owned(m, i)
               PROVE  Child(low, r, b, i, side, new[Slot(i)][side])
    BY DEF Trees
  <2>1. i \notin L BY <1>1
  <2>2. role[i] = "sorted" BY <2>1, <1>1
  <2>3. Owned(top, i) /\ new[Slot(i)] = old[Slot(i)] BY <2>2, <1>11
  <2> DEFINE d == old[Slot(i)][side]
  <2>4. Child(low, role, bound, i, side, d) BY <2>2, <2>3 DEF Trees
  <2>5. d \in Nat BY NodeIn
  <2> HIDE DEF d
  <2>6. Child(low, r, b, i, side, d)
    <3>1. CASE ~(d >= low) BY <3>1, <2>4 DEF Child
    <3>2. CASE d >= low
      <4>1. role[d] = "sorted" BY <3>2, <2>4 DEF Child
      <4>2. d \notin L BY <4>1, <2>5, <1>5
      <4>3. r[d] = "sorted" BY <4>1, <4>2, <2>5, <1>1
      <4>4. b[side][d] = bound[side][d] /\ b[Other(side)][d] = bound[Other(side)][d]
            /\ b[side][i] = bound[side][i]
        BY SMTT(30), <4>2, <2>1, <2>5, <1>2, SidesAre
      <4> QED BY <4>3, <4>4, <2>4 DEF Child
    <3> QED BY <3>1, <3>2
  <2> QED BY <2>3, <2>6 DEF d
<1>13. Heads(text, found2, low, r, b, a)
  <2> SUFFICES ASSUME NEW h \in Hashes, found2[h] >= low
               PROVE  /\ r[found2[h]] # "none" /\ a[found2[h]] = 0
                      /\ \A side \in Sides : b[side][found2[h]] = 0
                      /\ H(found2[h]) = h
    BY DEF Heads, Referred
  <2> DEFINE c == found2[h]
  <2>0. c \in Nat OBVIOUS
  <2>1. CASE /\ c \in L /\ H(c) = h
             /\ \A j \in L : H(j) = h => j <= c
    <3>1. ASSUME NEW j \in L PROVE before[j] # c
      <4> SUFFICES ASSUME before[j] = c PROVE FALSE OBVIOUS
      <4>1. c < j /\ H(c) = H(j) BY <1>7
      <4>2. j <= c BY <2>1, <4>1
      <4> QED BY <4>1, <4>2, <1>4, <2>0
    <3> HIDE DEF c
    <3>2. a[c] = 0
      <4>1. a[c] = IF c \in L THEN 0 ELSE above[c] BY <3>1, <2>0, <1>3
      <4> QED BY <4>1, <2>1
    <3>3. r[c] = "listed" /\ \A side \in Sides : b[side][c] = 0
      BY SMTT(30), <2>1, <1>1, <1>2
    <3> QED BY <3>2, <3>3, <2>1 DEF c
  <2>2. CASE c = roots[h] /\ \A j \in L : H(j) # h
    <3>1. /\ role[c] # "none" /\ above[c] = 0 /\ H(c) = h
          /\ \A side \in Sides : bound[side][c] = 0
      BY <2>2, <1>6
    <3>2. c \notin L BY <3>1, <2>0, <1>5
    <3>3. ASSUME NEW j \in L PROVE before[j] # c
      <4> SUFFICES ASSUME before[j] = c PROVE FALSE OBVIOUS
      <4>1. H(c) = H(j) BY <1>7
      <4> QED BY <4>1, <3>1, <2>2
    <3> HIDE DEF c
    <3>4. a[c] = 0
      <4>1. a[c] = IF c \in L THEN 0 ELSE above[c] BY <3>3, <2>0, <1>3
      <4> QED BY <4>1, <3>1, <3>2
    <3>5. r[c] = role[c] /\ \A side \in Sides : b[side][c] = bound[side][c]
      BY <2>0, <3>2, <1>1, <1>2
    <3> QED BY <3>1, <3>4, <3>5 DEF c
  <2> QED BY <2>1, <2>2
<1>14. ASSUME NEW i \in Nat, r[i] \in {"listed", "stacked"}, Owned(m, i)
       PROVE  LET node == new[Slot(i)]
              IN  /\ node.smaller < i
                  /\ Referred(text, low, r, b, a, node.smaller, i, H(i))
                  /\ node.larger = IF r[i] = "listed" THEN Mark ELSE a[i]
  <2>1. CASE i \in L
    <3>1. ASSUME NEW j \in L, Slot(j) = Slot(i) PROVE j <= i
      <4> SUFFICES ASSUME i < j PROVE FALSE BY <1>4, <2>1
      <4>1. j <= m /\ Owned(m, j) /\ j # i /\ i <= m
        BY <1>4, <1>14, <2>1, TreeSizeIs DEF Owned
      <4>2. j \in Nat OBVIOUS
      <4> QED BY <4>1, <4>2, <3>1, <1>14, OwnApart
    <3>2. Slot(i) \in 0..(TreeSize - 1) BY SlotIn
    <3>3. PICK j \in L : /\ Slot(j) = Slot(i) /\ new[Slot(i)].smaller = before[j]
                         /\ new[Slot(i)].larger = Mark
                         /\ \A k \in L : Slot(k) = Slot(i) => k <= j
      BY <3>2, <2>1
    <3>4. j = i BY <3>1, <3>3, <2>1, <1>4
    <3> DEFINE c == before[i]
    <3>5. c \in Nat /\ c < i /\ (c >= low => r[c] # "none" /\ H(c) = H(i)) BY <2>1, <1>7
    <3>6. c >= low => a[c] = i
      <4> SUFFICES ASSUME c >= low PROVE a[c] = i OBVIOUS
      <4>1. a[c] \in L /\ before[a[c]] = c BY <2>1, <3>5, <1>3
      <4> QED BY <4>1, <2>1, <1>8
    <3>7. ASSUME c >= low, NEW side \in Sides PROVE b[side][c] = 0
      <4>1. CASE c \in L BY SMTT(30), <4>1, <1>2
      <4>2. CASE c \notin L
        <5>1. c = roots[H(i)] /\ H(i) \in Hashes BY <2>1, <4>2, <1>7
        <5>2. bound[side][c] = 0 BY <5>1, <3>7, <1>6
        <5> QED BY SMTT(30), <5>2, <4>2, <3>5, <1>2
      <4> QED BY <4>1, <4>2
    <3> HIDE DEF c
    <3>8. Referred(text, low, r, b, a, c, i, H(i)) BY <3>5, <3>6, <3>7 DEF Referred
    <3>9. new[Slot(i)].smaller = c /\ new[Slot(i)].larger = Mark BY <3>3, <3>4 DEF c
    <3>10. r[i] = "listed" BY <2>1, <1>1
    <3> QED BY <3>5, <3>8, <3>9, <3>10
  <2>2. CASE i \notin L
    <3>1. r[i] = role[i] BY <2>2, <1>1
    <3>2. role[i] = "listed" /\ role[i] # "none" BY <3>1, <1>14
    <3>3. Owned(top, i) /\ new[Slot(i)] = old[Slot(i)] BY <3>2, <1>11, <1>14
    <3> DEFINE c == old[Slot(i)].smaller
    <3>4. /\ c < i /\ Referred(text, low, role, bound, above, c, i, H(i))
          /\ old[Slot(i)].larger = Mark
      BY <3>2, <3>3 DEF Lists
    <3>5. c \in Nat BY NodeIn
    <3> HIDE DEF c
    <3>6. Referred(text, low, r, b, a, c, i, H(i))
      <4> SUFFICES ASSUME c >= low
                   PROVE  /\ r[c] # "none" /\ a[c] = i /\ H(c) = H(i)
                          /\ \A side \in Sides : b[side][c] = 0
        BY DEF Referred
      <4>1. /\ role[c] # "none" /\ above[c] = i /\ H(c) = H(i)
            /\ \A side \in Sides : bound[side][c] = 0
        BY <3>4 DEF Referred
      <4>2. c \notin L BY <4>1, <3>5, <1>5
      <4>3. ASSUME NEW j \in L PROVE before[j] # c
        <5> SUFFICES ASSUME before[j] = c PROVE FALSE OBVIOUS
        <5>1. c = roots[H(j)] /\ H(j) \in Hashes BY <4>2, <1>7
        <5>2. above[c] = 0 BY <5>1, <1>6
        <5>3. i # 0 BY <3>2, <1>5, <1>14 DEF Mark
        <5> QED BY <4>1, <5>2, <5>3
      <4>4. a[c] = above[c]
        <5>1. a[c] = IF c \in L THEN 0 ELSE above[c] BY <4>3, <3>5, <1>3
        <5> QED BY <5>1, <4>2
      <4>5. r[c] = role[c] /\ \A side \in Sides : b[side][c] = bound[side][c]
        BY <4>2, <3>5, <1>1, <1>2
      <4> QED BY <4>1, <4>4, <4>5
    <3> QED BY <3>1, <3>2, <3>3, <3>4, <3>6 DEF c
  <2> QED BY <2>1, <2>2
<1>15. Lists(text, new, low, m, r, b, a) BY <1>14 DEF Lists
<1>16. \A i \in Nat : r[i] # "stacked" BY <1>1
<1>17. r[m] = "none"
  <2>1. m \notin L /\ m \in Nat OBVIOUS
  <2>2. r[m] = role[m] BY <2>1, <1>1
  <2>3. role[m] # "none" => m <= top BY NodesAre
  <2> QED BY <2>2, <2>3
<1> HIDE DEF L, H
<1> QED BY <1>1, <1>2, <1>3, <1>9, <1>10, <1>12, <1>13, <1>15, <1>16, <1>17

----------------------------------------------------------------------------
(* Indexes move down by the base of their frame.                           *)

\* What RebaseHolds needs.
RebaseGiven(down, low, limit, top, text, role, bound, above, old, new, roots, moved) ==
  /\ down \in Nat
  /\ low \in Nat
  /\ low = down + Bias
  /\ limit \in Nat
  /\ top \in Nat
  /\ low <= top + 1
  /\ role \in [Nat -> Roles]
  /\ bound \in [Sides -> [Nat -> Nat]]
  /\ above \in [Nat -> Nat]
  /\ old \in Forest
  /\ new \in Forest
  /\ roots \in [Hashes -> Nat]
  /\ Nodes(low, top, limit, role, bound)
  /\ Bounds(text, low, limit, role, bound)
  /\ Trees(old, {}, low, top, role, bound)
  /\ Heads(text, roots, low, role, bound, above)
  /\ Lists(text, old, low, top, role, bound, above)
  /\ \A i \in Nat : role[i] # "stacked"
  /\ \A i \in Nat, side \in Sides :
       LET link == old[Slot(i + down)][side]
       IN  new[Slot(i)][side] = IF link = Mark THEN Mark
                                ELSE IF link >= low THEN link - down ELSE 0
  /\ \A h \in Hashes : moved[h] = IF roots[h] >= low THEN roots[h] - down ELSE 0

\* What they are then.
Downward(top, limit, text, role, new, moved, r, b, a) ==
  /\ Nodes(Bias, top, limit, r, b) /\ Bounds(text, Bias, limit, r, b)
  /\ Trees(new, {}, Bias, top, r, b)
  /\ Heads(text, moved, Bias, r, b, a)
  /\ Lists(text, new, Bias, top, r, b, a)
  /\ \A i \in Nat : r[i] # "stacked" /\ (r[i] = "listed" => \E j \in Nat : role[j] = "listed")

\* Trees that are moved down with their indexes are the same trees.
LEMMA RebaseHolds ==
  ASSUME NEW down, NEW low, NEW limit, NEW top, NEW text, NEW role, NEW bound, NEW above, NEW
         old, NEW new, NEW roots, NEW moved,
         RebaseGiven(down, low, limit, top, text, role, bound, above, old, new, roots, moved)
  PROVE  \E r \in [Nat -> Roles], b \in [Sides -> [Nat -> Nat]], a \in [Nat -> Nat] :
           Downward(top - down, limit, text, role, new, moved, r, b, a)
<1> USE DEF RebaseGiven
<1> DEFINE Shift(v) == IF v >= down THEN v - down ELSE 0
           r == [i \in Nat |-> role[i + down]]
           b == [side \in Sides |-> [i \in Nat |-> Shift(bound[side][i + down])]]
           a == [i \in Nat |-> Shift(above[i + down])]
<1>0. \A i \in Nat : i + down \in Nat OBVIOUS
<1>1. \A v \in Nat : Shift(v) \in Nat OBVIOUS
<1>2. r \in [Nat -> Roles] /\ \A i \in Nat : r[i] = role[i + down]
  BY <1>0
<1>3. /\ b \in [Sides -> [Nat -> Nat]]
      /\ \A side \in Sides, i \in Nat : b[side][i] = Shift(bound[side][i + down])
  <2> HIDE DEF Shift
  <2> QED BY <1>0, <1>1
<1>4. a \in [Nat -> Nat] /\ \A i \in Nat : a[i] = Shift(above[i + down])
  <2> HIDE DEF Shift
  <2> QED BY <1>0, <1>1
<1> HIDE DEF r, b, a
<1>b. low > down /\ low \in Nat /\ Bias = 2 /\ Mark = 1 BY DEF Bias, Mark
<1>5. ASSUME NEW i \in Nat, r[i] # "none"
      PROVE  /\ Bias <= i /\ i <= top - down /\ i - Bias < limit
             /\ (i + down) - low = i - Bias /\ role[i + down] = r[i]
  <2>1. role[i + down] # "none" /\ i + down \in Nat BY <1>2, <1>5
  <2>2. low <= i + down /\ i + down <= top /\ (i + down) - low < limit BY <2>1, NodesAre
  <2> QED BY <2>2, <1>b, <1>2
<1>6. \A i \in Nat : r[i] = "sorted" => role[i + down] = "sorted" BY <1>2
\* What an index at or above low is moved to.
<1>7. ASSUME NEW c \in Nat, c >= low
      PROVE  /\ c - down \in Nat /\ (c - down) + down = c /\ c - down >= Bias
             /\ (c - down) - Bias = c - low
             /\ r[c - down] = role[c] /\ a[c - down] = Shift(above[c])
             /\ \A side \in Sides : b[side][c - down] = Shift(bound[side][c])
  <2>1. c - down \in Nat /\ (c - down) + down = c /\ c - down >= Bias /\ (c - down) - Bias = c - low
    BY <1>7, <1>b
  <2> HIDE DEF Shift
  <2> QED BY <2>1, <1>2, <1>3, <1>4
<1>8. Nodes(Bias, top - down, limit, r, b)
  <2> SUFFICES ASSUME NEW i \in Nat
               PROVE  /\ r[i] # "none" => Bias <= i /\ i <= top - down /\ i - Bias < limit
                      /\ r[i] \in {"listed", "stacked"} => \A s \in Sides : b[s][i] = 0
    BY DEF Nodes
  <2>1. r[i] # "none" => Bias <= i /\ i <= top - down /\ i - Bias < limit BY <1>5
  <2>2. ASSUME r[i] \in {"listed", "stacked"}, NEW s \in Sides PROVE b[s][i] = 0
    <3>1. role[i + down] \in {"listed", "stacked"} BY <2>2, <1>2
    <3>2. bound[s][i + down] = 0 BY <3>1, <1>0 DEF Nodes
    <3> QED BY SMTT(30), <3>2, <1>3
  <2> QED BY <2>1, <2>2
<1>9. Bounds(text, Bias, limit, r, b)
  <2> SUFFICES ASSUME NEW i \in Nat, NEW s \in Sides, r[i] # "none", b[s][i] # 0
               PROVE  Bias <= b[s][i] /\ Lies(text, Bias, limit, b[s][i], s, i)
    BY DEF Bounds
  <2> DEFINE j == bound[s][i + down]
  <2>0. b[s][i] = Shift(j)
    <3> HIDE DEF Shift
    <3> QED BY <1>3
  <2>1. b[s][i] = Shift(j) /\ j \in Nat
    <3>1. i + down \in Nat /\ bound[s] \in [Nat -> Nat] BY <1>0
    <3>2. j \in Nat BY <3>1
    <3> QED BY <2>0, <3>2
  <2>2. role[i + down] # "none" /\ (i + down) - low = i - Bias BY <1>5
  <2>3. j # 0 BY <2>1
  <2>4. low <= j /\ Lies(text, low, limit, j, s, i + down) BY <2>2, <2>3, <1>0 DEF Bounds
  <2> HIDE DEF j
  <2>5. b[s][i] >= Bias /\ b[s][i] - Bias = j - low BY <2>1, <2>4, <1>b
  <2>6. Bias \in Nat /\ b[s][i] \in Nat BY <1>b, <1>3
  <2>7. Lies(text, Bias, limit, b[s][i], s, i) BY <2>2, <2>4, <2>5 DEF Lies
  <2> QED BY <2>5, <2>6, <2>7
<1>10. ASSUME NEW i \in Nat, Owned(top - down, i) PROVE Owned(top, i + down)
  BY <1>10, TreeSizeIs DEF Owned
<1>11. Trees(new, {}, Bias, top - down, r, b)
  <2> SUFFICES ASSUME NEW i \in Nat, NEW side \in Sides, r[i] = "sorted", Owned(top - down, i)
               PROVE  Child(Bias, r, b, i, side, new[Slot(i)][side])
    BY DEF Trees
  <2> DEFINE c == old[Slot(i + down)][side]
             v == new[Slot(i)][side]
  <2>1. role[i + down] = "sorted" /\ Owned(top, i + down) /\ i + down \in Nat BY <1>0, <1>6, <1>10
  <2>2. Child(low, role, bound, i + down, side, c) BY <2>1 DEF Trees
  <2>3. c \in Nat BY <2>1, NodeIn
  <2>4. c # Mark BY <2>2 DEF Child
  <2>5. v = IF c >= low THEN c - down ELSE 0 BY <2>4
  <2> HIDE DEF c, v
  <2>6. CASE c >= low
    <3>1. /\ c < i + down /\ role[c] = "sorted"
          /\ bound[Other(side)][c] = i + down /\ bound[side][c] = bound[side][i + down]
      BY <2>2, <2>6 DEF Child
    <3>2. /\ v \in Nat /\ v + down = c /\ v >= Bias /\ r[v] = role[c]
          /\ \A s \in Sides : b[s][v] = Shift(bound[s][c])
      BY <2>3, <2>5, <2>6, <1>7
    <3>3. v < i /\ v # Mark BY <3>1, <3>2, <1>b
    <3>4. b[Other(side)][v] = i BY SMTT(30), <3>1, <3>2, SidesAre
    <3>5. b[side][v] = b[side][i]
      <4> HIDE DEF Shift
      <4> QED BY <3>1, <3>2, <1>3
    <3> QED BY <3>1, <3>2, <3>3, <3>4, <3>5 DEF Child, v
  <2>7. CASE ~(c >= low)
    <3>1. v = 0 BY <2>5, <2>7
    <3> QED BY <3>1, <1>b DEF Child, v
  <2> QED BY <2>6, <2>7
<1>12. ASSUME NEW c \in Nat, NEW by \in Nat, NEW h,
              Referred(text, low, role, bound, above, c, by, h)
       PROVE  Referred(text, Bias, r, b, a, IF c >= low THEN c - down ELSE 0, Shift(by), h)
  <2>1. CASE c >= low
    <3>1. /\ role[c] # "none" /\ above[c] = by /\ HashAt(text, c - low) = h
          /\ \A s \in Sides : bound[s][c] = 0
      BY <1>12, <2>1 DEF Referred
    <3>2. /\ r[c - down] = role[c] /\ a[c - down] = Shift(above[c])
          /\ (c - down) - Bias = c - low
          /\ \A s \in Sides : b[s][c - down] = Shift(bound[s][c])
      BY <2>1, <1>7
    <3>3. Shift(0) = 0 OBVIOUS
    <3> HIDE DEF Shift
    <3> QED BY <2>1, <3>1, <3>2, <3>3 DEF Referred
  <2>2. CASE ~(c >= low) BY <2>2, <1>b DEF Referred
  <2> QED BY <2>1, <2>2
<1>13. Heads(text, moved, Bias, r, b, a)
  <2> SUFFICES ASSUME NEW h \in Hashes PROVE Referred(text, Bias, r, b, a, moved[h], 0, h)
    BY DEF Heads
  <2>1. Referred(text, low, role, bound, above, roots[h], 0, h) BY DEF Heads
  <2>2. roots[h] \in Nat /\ 0 \in Nat /\ Shift(0) = 0 OBVIOUS
  <2> HIDE DEF Shift
  <2>3. Referred(text, Bias, r, b, a, IF roots[h] >= low THEN roots[h] - down ELSE 0, Shift(0), h)
    BY <2>1, <2>2, <1>12
  <2> QED BY <2>2, <2>3
<1>14. ASSUME NEW i \in Nat, r[i] \in {"listed", "stacked"}, Owned(top - down, i)
       PROVE  LET node == new[Slot(i)]
              IN  /\ node.smaller < i
                  /\ Referred(text, Bias, r, b, a, node.smaller, i, HashAt(text, i - Bias))
                  /\ node.larger = IF r[i] = "listed" THEN Mark ELSE a[i]
  <2> DEFINE k == i + down
             c == old[Slot(k)].smaller
  <2>1. /\ role[k] = "listed" /\ r[i] = "listed" /\ Owned(top, k) /\ k \in Nat
        /\ k - low = i - Bias /\ Bias <= i
    <3>1. role[k] = r[i] /\ k \in Nat BY <1>0, <1>2
    <3>2. role[k] # "stacked" BY <3>1
    <3> QED BY <3>1, <3>2, <1>5, <1>10, <1>14
  <2>2. /\ c < k /\ Referred(text, low, role, bound, above, c, k, HashAt(text, k - low))
        /\ old[Slot(k)].larger = Mark
    BY <2>1 DEF Lists
  <2>3. /\ c \in Nat /\ old[Slot(k)]["smaller"] = c
        /\ old[Slot(k)]["larger"] = old[Slot(k)].larger
    BY <2>1, NodeIn
  <2>4. /\ new[Slot(i)]["smaller"] = new[Slot(i)].smaller
        /\ new[Slot(i)]["larger"] = new[Slot(i)].larger
    BY NodeIn
  <2>5. new[Slot(i)].larger = Mark BY <2>2, <2>3, <2>4 DEF Sides
  <2>6. new[Slot(i)].smaller = IF c = Mark THEN Mark ELSE IF c >= low THEN c - down ELSE 0
    BY <2>3, <2>4 DEF Sides
  <2> DEFINE v == new[Slot(i)].smaller
  <2> HIDE DEF c, v
  <2>7. v < i
    BY <2>1, <2>2, <2>3, <2>6, <1>b DEF v
  <2>8. Referred(text, Bias, r, b, a, v, i, HashAt(text, i - Bias))
    <3>1. CASE c = Mark
      <4>1. v = Mark BY <2>6, <3>1 DEF v
      <4> QED BY <4>1, <1>b DEF Referred
    <3>2. CASE c # Mark
      <4>1. v = IF c >= low THEN c - down ELSE 0 BY <2>6, <3>2 DEF v
      <4>2. Shift(k) = i OBVIOUS
      <4> HIDE DEF Shift, k
      <4>3. Referred(text, Bias, r, b, a, IF c >= low THEN c - down ELSE 0, Shift(k), HashAt(text, k - low))
        BY <2>1, <2>2, <2>3, <1>12
      <4> QED BY <4>1, <4>2, <4>3, <2>1
    <3> QED BY <3>1, <3>2
  <2> QED BY <2>1, <2>5, <2>7, <2>8 DEF v
<1>15. Lists(text, new, Bias, top - down, r, b, a) BY <1>14 DEF Lists
<1>16. \A i \in Nat : r[i] # "stacked" /\ (r[i] = "listed" => \E j \in Nat : role[j] = "listed")
  BY SMTT(30), <1>0, <1>2
<1>17. Downward(top - down, limit, text, role, new, moved, r, b, a)
  BY <1>8, <1>9, <1>11, <1>13, <1>15, <1>16 DEF Downward
<1> QED BY <1>2, <1>3, <1>4, <1>17

----------------------------------------------------------------------------
(* What the types and the assumptions say of the state.                    *)

\* The numbers of a state.
LEMMA Ranges ==
  ASSUME TypeOK
  PROVE  /\ base \in Nat /\ FrameLow \in Nat /\ Mark < FrameLow /\ FrameLow = base + 2
         /\ next \in Nat /\ target \in Nat /\ end \in Nat /\ end <= Len(input)
         /\ input \in Inputs /\ input \in Text /\ Len(input) \in Nat
         /\ ReadSize \in Nat /\ ReadSize >= 2 /\ HashBytes \in Nat /\ HashBytes <= ReadSize
         /\ Limit = end - ReadSize /\ Limit \in Int
         /\ \A i \in Int : Index(i) = FrameLow + i /\ Unbiased(i) = i - FrameLow
<1>1. /\ base \in Nat /\ next \in Nat /\ target \in Nat /\ end \in Nat /\ end <= Len(input)
      /\ input \in Inputs
  BY DEF TypeOK, BlockOK, TableOK, StackOK, ResultOK
<1>2. /\ input \in Seq(Nat) /\ ReadSize \in Nat /\ MinMatch \in 2..ReadSize
      /\ HashBytes \in 0..ReadSize
  BY <1>1, ConstantsAssumption DEF ConstantsAssumption
<1>3. FrameLow = base + 2 /\ Mark = 1 BY DEF FrameLow, Bias, Mark
<1>4. Limit = end - ReadSize BY DEF Limit
<1>5. \A i \in Int : Index(i) = FrameLow + i /\ Unbiased(i) = i - FrameLow
  BY <1>1 DEF Index, Unbiased, FrameLow, Bias
<1>6. FrameLow \in Nat /\ Mark < FrameLow BY <1>1, <1>3
<1>7. input \in Text /\ Len(input) \in Nat BY <1>2 DEF Text
<1>8. ReadSize >= 2 /\ HashBytes \in Nat /\ HashBytes <= ReadSize BY <1>2
<1>9. Limit \in Int BY <1>1, <1>2, <1>4
<1> QED BY <1>1, <1>2, <1>3, <1>4, <1>5, <1>6, <1>7, <1>8, <1>9

\* What a shape is used for: its types, and how far the nodes reach.
LEMMA ShapeIs ==
  ASSUME TypeOK, NEW top, NEW role, NEW bound, NEW above, NEW ends,
         Shape(top, role, bound, above, ends)
  PROVE  /\ top \in Nat /\ role \in [Nat -> Roles] /\ bound \in [Sides -> [Nat -> Nat]]
         /\ above \in [Nat -> Nat] /\ ends \in [Sides -> Nat]
         /\ \A i \in Nat : role[i] # "none" => FrameLow <= i /\ i <= top /\ i - FrameLow < end
         /\ \A h \in Hashes : heads[h] \in Nat
         /\ \A h \in Hashes : heads[h] >= FrameLow => role[heads[h]] # "none" /\ heads[h] <= top
<1>1. top \in Nat /\ role \in [Nat -> Roles] /\ bound \in [Sides -> [Nat -> Nat]]
      /\ above \in [Nat -> Nat] /\ ends \in [Sides -> Nat]
  BY DEF Shape, Shaped, Course
<1>2. \A i \in Nat : role[i] # "none" => FrameLow <= i /\ i <= top /\ i - FrameLow < end
  <2>1. FrameLow \in Nat BY Ranges
  <2> QED BY <2>1, NodesAre DEF Shape
<1>3. \A h \in Hashes : heads[h] \in Nat BY DEF TypeOK, BlockOK, TableOK, StackOK, ResultOK
<1>4. \A h \in Hashes : heads[h] >= FrameLow => role[heads[h]] # "none"
  BY DEF Shape, Heads, Referred
<1> QED BY <1>1, <1>2, <1>3, <1>4

\* Steps that leave the trees alone.
Quiet == {"idle", "ready", "update", "repeats"}

\* Outside the walks and the sorting, the trees stay while nothing is written.
LEMMA QuietKeeps ==
  ASSUME TypeOK, TypeOK', NEW top, NEW role, NEW bound, NEW above, NEW ends,
         Shape(top, role, bound, above, ends),
         phase \in Quiet, phase' \in Quiet, UNCHANGED <<tree, heads, base, input, kind>>,
         end <= end', Course(top, role)'
  PROVE  Shape(top, role, bound, above, ends)'
<1>1. /\ FrameLow' = FrameLow /\ FrameLow \in Nat /\ end \in Nat /\ end' \in Nat
      /\ \A i : Unbiased(i)' = Unbiased(i)
  BY Ranges DEF TypeOK, BlockOK, TableOK, StackOK, ResultOK, FrameLow, Unbiased
<1>2. \A i \in Nat : role[i] # "none" => FrameLow <= i /\ i <= top /\ i - FrameLow < end
  BY ShapeIs
<1>3. /\ phase \notin Walking /\ phase \notin Sorting
      /\ phase' \notin Walking /\ phase' \notin Sorting
  BY DEF Quiet, Walking, Sorting
<1>4. Opens = {} /\ Opens' = {} BY <1>3 DEF Opens
<1>5. Nodes(FrameLow, top, end, role, bound)'
  <2>1. Nodes(FrameLow, top, end, role, bound) BY DEF Shape
  <2>2. \A i \in Nat : i - FrameLow < end => i - FrameLow < end' BY <1>1
  <2> QED BY <2>1, <2>2, <1>1 DEF Nodes
<1>6. Bounds(input, FrameLow, end, role, bound)'
  <2> SUFFICES ASSUME NEW i \in Nat, NEW side \in Sides, role[i] # "none", bound[side][i] # 0
               PROVE  /\ FrameLow <= bound[side][i]
                      /\ Lies(input, FrameLow, end', bound[side][i], side, i)
    BY <1>1 DEF Bounds
  <2> DEFINE j == bound[side][i]
  <2>1. FrameLow <= j /\ Lies(input, FrameLow, end, j, side, i) BY DEF Shape, Bounds
  <2>2. j \in Nat
    <3>1. bound[side] \in [Nat -> Nat] BY ShapeIs
    <3> QED BY <3>1
  <2> HIDE DEF j
  <2>3. j - FrameLow \in Int /\ i - FrameLow \in Int BY <1>1, <2>2
  <2>4. Lies(input, FrameLow, end', j, side, i)
    <3>1. PICK e \in Nat : e = end BY <1>1
    <3>2. PICK f \in Nat : f = end' BY <1>1
    <3>3. e <= f BY <3>1, <3>2
    <3>4. Lies(input, FrameLow, e, j, side, i) BY <2>1, <3>1
    <3>5. Lies(input, FrameLow, f, j, side, i) BY <3>3, <3>4, <2>3, PrecedesLater DEF Lies
    <3> QED BY <3>2, <3>5
  <2> QED BY <2>1, <2>4 DEF j
<1>7. Trees(tree, Opens, FrameLow, top, role, bound)'
  BY <1>1, <1>4 DEF Shape, Trees, Child, Owned, Slot
<1>8. Heads(input, heads, FrameLow, role, bound, above)' BY <1>1 DEF Shape, Heads
<1>9. Lists(input, tree, FrameLow, top, role, bound, above)' BY <1>1 DEF Shape, Lists
<1>10. OnlyWhen(role)' BY <1>3 DEF Shape, OnlyWhen
<1>11. Stacks(role)' BY <1>3 DEF Stacks
<1>12. Walk(top, role, bound, above, ends)' BY <1>3 DEF Walk
<1>13. Unlisted(top, role)' BY <1>3 DEF Unlisted
<1>14. Shaped(role, bound, above, ends) BY DEF Shape
<1> QED BY <1>5, <1>6, <1>7, <1>8, <1>9, <1>10, <1>11, <1>12, <1>13, <1>14 DEF Shape

\* An end that stays has not moved back.
LEMMA EndStays ==
  ASSUME TypeOK, end' = end
  PROVE  end <= end'
BY DEF TypeOK, BlockOK

\* Lengths that were compared hold as long as the block does.
LEMMA CacheStays ==
  ASSUME CacheTrue, UNCHANGED <<kind, input, base, cache, end>>,
         phase = "idle" => phase' = "idle"
  PROVE  CacheTrue'
<1>1. FrameLow' = FrameLow /\ \A i : Index(i)' = Index(i) /\ Unbiased(i)' = Unbiased(i)
  BY DEF FrameLow, Index, Unbiased
<1>2. \A p, q, e : Matching(p, q, e)' = Matching(p, q, e) BY DEF Matching, Byte
<1>3. CASE kind = "lazy" \/ phase' = "idle" BY <1>3 DEF CacheTrue
<1>4. CASE kind # "lazy" /\ phase' # "idle"
  <2>1. phase # "idle" BY <1>4
  <2> SUFFICES ASSUME NEW r \in 0..1, NEW c \in 0..(CacheSize - 1), cache[r][c][3] # 0
               PROVE  LET e == cache[r][c]
                      IN  /\ FrameLow <= e[2] /\ e[2] < e[1] /\ e[1] < Index(end)
                          /\ Matching(Unbiased(e[1]), Unbiased(e[2]), end) = e[3]
    BY <1>1, <1>2 DEF CacheTrue
  <2> QED BY <1>4, <2>1 DEF CacheTrue
<1> QED BY <1>3, <1>4

\* A match that was found stays one.
LEMMA FoundKept ==
  ASSUME MatchesAreReal,
         \/ found' = NoMatch
         \/ UNCHANGED <<found, target, base, end, input>>
  PROVE  MatchesAreReal'
<1>1. CASE found' = NoMatch BY <1>1 DEF MatchesAreReal
<1>2. CASE UNCHANGED <<found, target, base, end, input>>
  <2>1. \A p, q, e : Matching(p, q, e)' = Matching(p, q, e) BY <1>2 DEF Matching, Byte
  <2>2. \A i : Unbiased(i)' = Unbiased(i) BY <1>2 DEF Unbiased
  <2> QED BY <1>2, <2>1, <2>2 DEF MatchesAreReal
<1> QED BY <1>1, <1>2

\* To keep the invariant is to keep its parts, for some shape.
LEMMA InvariantBy ==
  ASSUME NEW top \in Nat, NEW role \in [Nat -> Roles], NEW bound \in [Sides -> [Nat -> Nat]],
         NEW above \in [Nat -> Nat], NEW ends \in [Sides -> Nat],
         TypeOK', CacheTrue', MatchesAreReal', phase' = "idle" => found' = NoMatch,
         Shape(top, role, bound, above, ends)'
  PROVE  IInv'
BY DEF IInv

\* The types of what a step leaves alone.
LEMMA TypesStay ==
  ASSUME TypeOK
  PROVE  /\ UNCHANGED block /\ position' \in Nat => BlockOK'
         /\ UNCHANGED <<table>> => TableOK'
         /\ UNCHANGED <<tree, cache, base, heads, hash3, next3>> /\ next' \in Nat => TableOK'
         /\ UNCHANGED stack /\ target' \in Nat /\ phase' \in Phases => StackOK'
         /\ UNCHANGED result => ResultOK'
         /\ tried' \in Nat /\ longest' \in Nat /\ found' = NoMatch => ResultOK'
         /\ UNCHANGED <<phase, walk>> \/ phase' \notin Walking => WalkOK'
<1> USE DEF TypeOK
<1>1. UNCHANGED block /\ position' \in Nat => BlockOK' BY DEF BlockOK, block
<1>2. UNCHANGED table => TableOK' BY DEF TableOK, table
<1>3. UNCHANGED <<tree, cache, base, heads, hash3, next3>> /\ next' \in Nat => TableOK'
  BY DEF TableOK
<1>4. UNCHANGED stack /\ target' \in Nat /\ phase' \in Phases => StackOK' BY DEF StackOK, stack
<1>5. UNCHANGED result => ResultOK' BY DEF ResultOK, result
<1>6. NoMatch \in Match BY DEF NoMatch, Match
<1>7. tried' \in Nat /\ longest' \in Nat /\ found' = NoMatch => ResultOK' BY <1>6 DEF ResultOK
<1>8. UNCHANGED <<phase, walk>> \/ phase' \notin Walking => WalkOK' BY DEF WalkOK
<1> QED BY <1>1, <1>2, <1>3, <1>4, <1>5, <1>7, <1>8

----------------------------------------------------------------------------
(* The steps that leave the trees alone.                                   *)

\* The end of a block changes no tree.
LEMMA EndBlockKeeps ==
  ASSUME IInv, EndBlock
  PROVE  IInv'
<1>1. PICK top \in Nat, role \in [Nat -> Roles], bound \in [Sides -> [Nat -> Nat]],
           above \in [Nat -> Nat], ends \in [Sides -> Nat] : Shape(top, role, bound, above, ends)
  BY DEF IInv
<1>2. /\ UNCHANGED <<kind, input, base, next, next3, heads, hash3, tree, cache, begin, end,
                     position, candidate, previous, budget, walk>>
      /\ phase = "ready" /\ phase' = "idle" /\ target' = 0 /\ tried' = 0 /\ longest' = 0
      /\ found' = NoMatch
  BY DEF EndBlock, block, table, stack
<1>3. TypeOK'
  <2>0. TypeOK BY DEF IInv
  <2>1. position \in Nat BY <2>0 DEF TypeOK, BlockOK
  <2>2. phase' \in Phases /\ phase' \notin Walking BY <1>2 DEF Phases, Walking
  <2>3. BlockOK' /\ TableOK' /\ StackOK' /\ ResultOK' /\ WalkOK'
    BY <2>0, <2>1, <2>2, <1>2, TypesStay DEF block, table, stack
  <2> QED BY <2>3 DEF TypeOK
<1>4. CacheTrue' BY <1>2, CacheStays DEF IInv
<1>5. MatchesAreReal' BY <1>2, FoundKept DEF IInv
<1>6. Course(top, role)'
  BY <1>1, <1>2 DEF Shape, Course, FrameLow, Sorting
<1>7. Shape(top, role, bound, above, ends)'
  BY <1>1, <1>2, <1>3, <1>6, EndStays, QuietKeeps DEF IInv, Quiet
<1> QED BY <1>2, <1>3, <1>4, <1>5, <1>7, InvariantBy

\* A block that is skipped lengthens the frame.
LEMMA SkipBlockKeeps ==
  ASSUME IInv, NEW size \in BlockSizes, SkipBlock(size)
  PROVE  IInv'
<1>1. PICK top \in Nat, role \in [Nat -> Roles], bound \in [Sides -> [Nat -> Nat]],
           above \in [Nat -> Nat], ends \in [Sides -> Nat] : Shape(top, role, bound, above, ends)
  BY DEF IInv
<1>2. /\ UNCHANGED <<kind, input, base, next, next3, heads, hash3, tree, cache, position, phase,
                     target, candidate, previous, budget, tried, longest, found, walk>>
      /\ phase = "idle" /\ end' = end + size /\ begin' = end /\ end + size <= Len(input)
  BY DEF SkipBlock, table, stack, result
<1>3. end \in Nat /\ size \in Nat
  BY ConstantsAssumption DEF ConstantsAssumption, IInv, TypeOK, BlockOK
<1>4. TypeOK'
  <2>0. TypeOK BY DEF IInv
  <2>1. BlockOK' BY <2>0, <1>2, <1>3 DEF TypeOK, BlockOK
  <2>2. TableOK' /\ StackOK' /\ ResultOK' /\ WalkOK'
    BY <2>0, <1>2, TypesStay DEF TypeOK, StackOK, table, stack, result
  <2> QED BY <2>1, <2>2 DEF TypeOK
<1>5. CacheTrue' BY <1>2 DEF CacheTrue
<1>6. found' = NoMatch BY <1>2 DEF IInv
<1>7. MatchesAreReal' BY <1>6, FoundKept DEF IInv
<1>8. Course(top, role)'
  BY <1>1, <1>2 DEF Shape, Course, FrameLow, Sorting
<1>9. Shape(top, role, bound, above, ends)'
  BY <1>1, <1>2, <1>3, <1>4, <1>8, QuietKeeps DEF IInv, Quiet
<1> QED BY <1>2, <1>4, <1>5, <1>6, <1>7, <1>9, InvariantBy

\* A search behind what was inserted finds nothing and changes nothing.
LEMMA SearchBehindKeeps ==
  ASSUME IInv, NEW p, SearchBehind(p)
  PROVE  IInv'
<1>1. PICK top \in Nat, role \in [Nat -> Roles], bound \in [Sides -> [Nat -> Nat]],
           above \in [Nat -> Nat], ends \in [Sides -> Nat] : Shape(top, role, bound, above, ends)
  BY DEF IInv
<1>2. /\ UNCHANGED <<kind, input, base, next, next3, heads, hash3, tree, cache, begin, end, phase,
                     target, candidate, previous, budget, tried, longest, walk>>
      /\ phase = "ready" /\ position' = p + 1 /\ found' = NoMatch /\ p \in position..Limit
  BY DEF SearchBehind, block, table, stack
<1>3. p \in Nat
  <2>1. position \in Nat /\ Limit \in Int BY Ranges DEF IInv, TypeOK, BlockOK
  <2> QED BY <1>2, <2>1
<1>4. TypeOK'
  <2>0. TypeOK BY DEF IInv
  <2>1. p + 1 \in Nat /\ target \in Nat /\ phase \in Phases /\ tried \in Nat /\ longest \in Nat
    BY <2>0, <1>3 DEF TypeOK, StackOK, ResultOK
  <2>2. BlockOK' /\ TableOK' /\ StackOK' /\ ResultOK' /\ WalkOK'
    BY <2>0, <2>1, <1>2, TypesStay DEF block, table, stack
  <2> QED BY <2>2 DEF TypeOK
<1>5. CacheTrue' BY <1>2, CacheStays DEF IInv
<1>6. MatchesAreReal' BY <1>2, FoundKept DEF IInv
<1>7. Course(top, role)'
  BY <1>1, <1>2 DEF Shape, Course, FrameLow, Sorting, Index
<1>8. Shape(top, role, bound, above, ends)'
  BY <1>1, <1>2, <1>4, <1>7, EndStays, QuietKeeps DEF IInv, Quiet
<1> QED BY <1>2, <1>4, <1>5, <1>6, <1>8, InvariantBy

\* The optimal strategies have inserted what comes before the target.
LEMMA UpdatedKeeps ==
  ASSUME IInv, Updated
  PROVE  IInv'
<1>1. PICK top \in Nat, role \in [Nat -> Roles], bound \in [Sides -> [Nat -> Nat]],
           above \in [Nat -> Nat], ends \in [Sides -> Nat] : Shape(top, role, bound, above, ends)
  BY DEF IInv
<1>2. /\ UNCHANGED <<kind, input, base, next3, heads, hash3, tree, cache, begin, end, position,
                     target, candidate, previous, budget, tried, longest, found, walk>>
      /\ phase = "update" /\ phase' = "repeats" /\ next >= target /\ next' = target
  BY DEF Updated, block, stack, result
<1>3. TypeOK'
  <2>0. TypeOK BY DEF IInv
  <2>1. position \in Nat /\ target \in Nat BY <2>0 DEF TypeOK, BlockOK, StackOK
  <2>2. BlockOK' /\ TableOK' /\ StackOK' /\ ResultOK' /\ WalkOK'
    BY <2>0, <2>1, <1>2, TypesStay DEF block, table, stack, result, Phases, Walking
  <2> QED BY <2>2 DEF TypeOK
<1>4. CacheTrue' BY <1>2, CacheStays DEF IInv
<1>5. MatchesAreReal' BY <1>2, FoundKept DEF IInv
<1>6. Course(top, role)'
  <2>1. FrameLow \in Nat /\ target \in Nat BY Ranges DEF IInv
  <2>2. FrameLow <= top + 1 /\ top < target /\ kind # "lazy" BY <1>1, <1>2 DEF Shape, Course
  <2>3. FrameLow' = FrameLow /\ FrameLow <= target BY <1>2, <2>1, <2>2 DEF FrameLow
  <2>4. target <= Index(Limit) /\ Index(end) <= MaxIndex
    BY <1>1, <1>2 DEF Shape, Course
  <2>5. Index(Limit)' = Index(Limit) /\ Index(end)' = Index(end) BY <1>2 DEF Index, Limit
  <2> QED BY <1>2, <2>1, <2>2, <2>3, <2>4, <2>5 DEF Course, Sorting
<1>7. Shape(top, role, bound, above, ends)'
  BY <1>1, <1>2, <1>3, <1>6, EndStays, QuietKeeps DEF IInv, Quiet
<1> QED BY <1>2, <1>3, <1>4, <1>5, <1>7, InvariantBy

----------------------------------------------------------------------------
(* Bounds on what is searched.                                             *)

\* The window of an index is in its frame and no longer than the window may be.
LEMMA WindowLowIs ==
  ASSUME TypeOK, NEW t \in Nat, FrameLow <= t
  PROVE  /\ WindowLow(t) \in Nat /\ FrameLow <= WindowLow(t) /\ WindowLow(t) <= t
         /\ t - WindowLow(t) <= Window /\ t - WindowLow(t) <= t - FrameLow
         /\ WindowLow(t) - 1 \in Nat /\ Window \in Nat
<1>1. FrameLow \in Nat /\ FrameLow >= 2 BY Ranges DEF Mark
<1>2. Window \in Nat \ {0} BY ConstantsAssumption DEF ConstantsAssumption
<1> QED BY <1>1, <1>2 DEF WindowLow

\* The nodes above TreeLow are those whose slot no newer one has taken.
LEMMA TreeLowIs ==
  ASSUME NEW t \in Nat
  PROVE  /\ TreeLow(t) \in Nat /\ TreeLow(t) + TreeSize > t
         /\ \A i \in Nat : i > TreeLow(t) => Owned(t, i)
         /\ \A i \in Nat : i > 0 /\ i # t /\ Owned(t, i) => i > TreeLow(t)
BY TreeSizeIs DEF TreeLow, Owned

\* What is searched has bytes enough after it, and is in the frame.
LEMMA TreeLowLost ==
  ASSUME NEW t \in Nat, NEW low \in Nat
  PROVE  Lost(t, low, TreeLow(t))
<1> SUFFICES ASSUME NEW i \in Nat, low < i, i <= TreeLow(t), i # t, Owned(t, i)
             PROVE  FALSE
  BY DEF Lost
<1>1. TreeLow(t) \in Nat /\ (i > 0 /\ i # t /\ Owned(t, i) => i > TreeLow(t))
  BY TreeLowIs
<1>2. i > 0 OBVIOUS
<1> QED BY <1>1, <1>2

\* What is searched is in the frame and can be hashed.
LEMMA TargetIs ==
  ASSUME TypeOK, NEW top, NEW role, NEW bound, NEW above, NEW ends,
         Shape(top, role, bound, above, ends), phase \notin {"idle", "ready"}
  PROVE  /\ target \in Nat /\ FrameLow <= target /\ target <= Index(Limit)
         /\ Unbiased(target) \in Nat /\ Unbiased(target) + ReadSize <= end
         /\ Unbiased(target) = target - FrameLow
         /\ Hash(Unbiased(target)) \in Hashes
         /\ \A p \in Nat : Hash(p) = HashAt(input, p)
         /\ \A i \in Nat : FrameLow <= i /\ i <= target =>
              Hash(Unbiased(i)) \in Hashes /\ i - FrameLow < end /\ Unbiased(i) = i - FrameLow
<1>1. /\ FrameLow \in Nat /\ next \in Nat /\ target \in Nat /\ end \in Nat /\ end <= Len(input)
      /\ input \in Inputs /\ Len(input) \in Nat
      /\ ReadSize \in Nat /\ ReadSize >= 2 /\ HashBytes \in Nat /\ HashBytes <= ReadSize
      /\ Limit = end - ReadSize /\ Limit \in Int
      /\ \A i \in Int : Index(i) = FrameLow + i /\ Unbiased(i) = i - FrameLow
  BY Ranges
<1>2. /\ top \in Nat /\ FrameLow <= top + 1 /\ FrameLow <= next
      /\ phase \in {"insert", "main"} => top = next /\ walk.node = next
      /\ phase \in {"update", "repeats", "insert"} => top < target
      /\ phase \in Sorting \cup {"repeats", "main"} => next = target
      /\ target <= Index(Limit)
  BY DEF Shape, Course
<1>3. phase \in Phases BY DEF TypeOK, StackOK
<1>4. FrameLow <= target
  <2>1. CASE phase \in Sorting \cup {"repeats", "main"} BY <2>1, <1>2
  <2>2. CASE phase \in {"update", "repeats", "insert"} BY <2>2, <1>1, <1>2
  <2> QED BY <2>1, <2>2, <1>3 DEF Phases, Walking, Sorting
<1>5. Index(Limit) = FrameLow + (end - ReadSize) BY <1>1
<1>6. ASSUME NEW i \in Nat, FrameLow <= i, i <= target
      PROVE  /\ Unbiased(i) \in Nat /\ Unbiased(i) + ReadSize <= end /\ i - FrameLow < end
             /\ Unbiased(i) = i - FrameLow /\ Unbiased(i) + HashBytes <= Len(input)
  <2>1. Unbiased(i) = i - FrameLow BY <1>1
  <2>2. i <= FrameLow + (end - ReadSize) BY <1>1, <1>2, <1>5, <1>6
  <2>3. i - FrameLow \in Nat /\ (i - FrameLow) + ReadSize <= end BY <2>2, <1>1, <1>6
  <2>4. i - FrameLow < end /\ (i - FrameLow) + HashBytes <= Len(input) BY <2>3, <1>1
  <2> QED BY <2>1, <2>3, <2>4
<1>7. \A p \in Nat : Hash(p) = HashAt(input, p) BY DEF Hash, HashAt
<1>8. ASSUME NEW i \in Nat, FrameLow <= i, i <= target
      PROVE  Hash(Unbiased(i)) \in Hashes
  BY <1>1, <1>6, <1>7, <1>8, HashIn
<1>9. target \in Nat /\ target <= Index(Limit) BY <1>1, <1>2
<1>10. /\ Unbiased(target) \in Nat /\ Unbiased(target) + ReadSize <= end
       /\ Unbiased(target) = target - FrameLow /\ Hash(Unbiased(target)) \in Hashes
  <2>1. target <= target BY <1>9
  <2> QED BY <2>1, <1>4, <1>6, <1>8, <1>9
<1> QED BY <1>4, <1>6, <1>7, <1>8, <1>9, <1>10

\* A walk from the top of a tree.
Fresh(way, index, match, low, treeLow) ==
  /\ way \in Way /\ way.node = index /\ way.match = match
  /\ way.low = low /\ way.treeLow = treeLow /\ way.reach > index + Slack
  /\ \A side \in Sides : way[side] = <<Slot(index), side>> /\ way.common[side] = 0

\* A walk begins at the node's own slot.
LEMMA PathIn ==
  ASSUME NEW index \in Nat, NEW match \in Nat, NEW attempts \in Nat,
         NEW low \in Nat, NEW treeLow \in Nat, NEW best \in Nat
  PROVE  Fresh(Path(index, match, attempts, low, treeLow, best), index, match, low, treeLow)
<1>1. Slack \in Nat BY ConstantsAssumption DEF ConstantsAssumption
<1>2. index + Slack + 1 \in Nat /\ index + Slack + 1 > index + Slack BY <1>1
<1>3. <<Slot(index), "smaller">> \in Places /\ <<Slot(index), "larger">> \in Places
  BY SlotIn DEF Places, Sides
<1>4. [side \in Sides |-> 0] \in [Sides -> Nat] OBVIOUS
<1> HIDE DEF Places
<1>5. Path(index, match, attempts, low, treeLow, best) \in Way
  BY <1>2, <1>3, <1>4 DEF Path, Way
<1> QED BY <1>2, <1>5 DEF Fresh, Path, Sides

----------------------------------------------------------------------------
(* A walk starts: its node is the root.                                    *)

\* What RootedHeads needs.
HeadsGiven(text, low, role, bound, above, moved, roots, new, x) ==
  /\ low \in Nat /\ x \in Nat /\ role \in [Nat -> Roles] /\ bound \in [Sides -> [Nat -> Nat]]
  /\ \A h \in Hashes : roots[h] \in Nat
  /\ Heads(text, roots, low, role, bound, above)
  /\ \A c \in Nat : role[c] # "none" => moved[c] = above[c]
  /\ \A h \in Hashes : \/ new[h] = roots[h]
                       \/ new[h] = x /\ moved[x] = 0 /\ HashAt(text, x - low) = h

\* The heads with the new root in its bucket.
LEMMA RootedHeads ==
  ASSUME NEW text, NEW low, NEW role, NEW bound, NEW above, NEW moved, NEW roots, NEW new, NEW x,
         HeadsGiven(text, low, role, bound, above, moved, roots, new, x)
  PROVE  Heads(text, new, low, Rooted(role, x), Unbound(bound, x), moved)
<1> USE DEF HeadsGiven
<1> SUFFICES ASSUME NEW h \in Hashes
             PROVE  Referred(text, low, Rooted(role, x), Unbound(bound, x), moved, new[h], 0, h)
  BY DEF Heads
<1>1. /\ \A i \in Nat : Rooted(role, x)[i] = IF i = x THEN "sorted" ELSE role[i]
      /\ \A side \in Sides, i \in Nat : Unbound(bound, x)[side][i] = IF i = x THEN 0 ELSE bound[side][i]
  BY DEF Rooted, Unbound
<1>2. CASE new[h] = x /\ moved[x] = 0 /\ HashAt(text, x - low) = h
  BY <1>1, <1>2 DEF Referred
<1>3. CASE new[h] = roots[h]
  <2> DEFINE c == roots[h]
  <2>1. Referred(text, low, role, bound, above, c, 0, h) /\ c \in Nat BY DEF Heads
  <2> HIDE DEF c
  <2>2. c >= low => /\ Rooted(role, x)[c] # "none" /\ moved[c] = 0
                    /\ HashAt(text, c - low) = h
                    /\ \A side \in Sides : Unbound(bound, x)[side][c] = 0
    BY <2>1, <1>1 DEF Referred
  <2> QED BY <1>3, <2>2 DEF Referred, c
<1> QED BY <1>2, <1>3

\* The walk that begins at x, with m the root before.
Begins(x, m, more, role) ==
  /\ walk' \in Way /\ walk'.node = x /\ walk'.match = m
  /\ \A side \in Sides : walk'[side] = <<Slot(x), side>> /\ walk'.common[side] = 0
  /\ walk'.reach > x + Slack
  /\ walk'.treeLow + TreeSize > more /\ Owned(more, x)
  /\ Lost(more, walk'.low, walk'.treeLow)
  /\ FrameLow <= walk'.low + 1 /\ WindowLow(target) <= walk'.low + 1
  /\ phase' = "sort" => walk'.low = WindowLow(target) /\ walk'.treeLow = UnsortedLimit
  /\ m > walk'.treeLow /\ m > walk'.low => role[m] = "sorted"

\* What the root before was, and that nothing else lists it.
Replaced(x, m, more, role, bound) ==
  /\ m \in Nat /\ m < x
  /\ m >= FrameLow =>
       /\ role[m] # "none" /\ \A side \in Sides : bound[side][m] = 0
       /\ \A h \in Hashes : heads'[h] # m
       /\ \A i \in Nat : i # x /\ role[i] \in {"listed", "stacked"} /\ Owned(more, i) =>
            Left(i)' # m

\* What RootStep needs of the step: x is the new root, and m was the root before.
StartsAt(x, m, top, more, role, bound, above, moved) ==
  /\ phase \notin Walking /\ phase' \in Walking
  /\ UNCHANGED <<kind, input, base, end, target>>
  /\ x \in Nat /\ top \in Nat /\ more \in Nat /\ moved \in [Nat -> Nat]
  /\ top <= more /\ FrameLow <= x /\ x <= more /\ x - FrameLow < end
  /\ role[x] # "sorted" /\ Owned(more, x)
  /\ \A k \in 0..(TreeSize - 1) : k # Slot(x) => tree'[k] = tree[k]
  /\ \A c \in Nat : role[c] # "none" => moved[c] = above[c]
  /\ \A h \in Hashes : \/ heads'[h] = heads[h]
                       \/ heads'[h] = x /\ moved[x] = 0 /\ HashAt(input, x - FrameLow) = h
  /\ Begins(x, m, more, role) /\ Replaced(x, m, more, role, bound)
  /\ Course(more, Rooted(role, x))' /\ OnlyWhen(Rooted(role, x))' /\ Stacks(Rooted(role, x))'

\* The first step of a walk: its node is the root, and both its ends are open.
LEMMA RootStep ==
  ASSUME TypeOK, TypeOK', NEW top, NEW role, NEW bound, NEW above, NEW ends,
         Shape(top, role, bound, above, ends),
         NEW x, NEW m, NEW more, NEW moved, StartsAt(x, m, top, more, role, bound, above, moved)
  PROVE  Shape(more, Rooted(role, x), Unbound(bound, x), moved, [side \in Sides |-> x])'
<1> USE DEF StartsAt
<1> DEFINE r == Rooted(role, x)
           b == Unbound(bound, x)
           e == [side \in Sides |-> x]
<1>1. /\ FrameLow' = FrameLow /\ FrameLow \in Nat /\ end \in Nat /\ end' = end /\ input' = input
      /\ Mark < FrameLow /\ \A t : WindowLow(t)' = WindowLow(t) /\ \A i : Unbiased(i)' = Unbiased(i)
  BY Ranges DEF FrameLow, WindowLow, Unbiased
<1>2. /\ role \in [Nat -> Roles] /\ bound \in [Sides -> [Nat -> Nat]]
      /\ above \in [Nat -> Nat] /\ \A h \in Hashes : heads[h] \in Nat
  BY ShapeIs
<1>3. tree \in Forest /\ tree' \in Forest BY DEF TypeOK, TableOK
<1>4. Opens = {} BY DEF Opens
<1>5. /\ Nodes(FrameLow, top, end, role, bound) /\ Bounds(input, FrameLow, end, role, bound)
      /\ Trees(tree, {}, FrameLow, top, role, bound)
      /\ Heads(input, heads, FrameLow, role, bound, above)
      /\ Lists(input, tree, FrameLow, top, role, bound, above)
  BY <1>4 DEF Shape
<1>6. /\ Nodes(FrameLow, more, end, r, b) /\ Bounds(input, FrameLow, end, r, b)
      /\ Trees(tree', Both(x), FrameLow, more, r, b)
      /\ Lists(input, tree', FrameLow, more, r, b, moved)
      /\ r \in [Nat -> Roles] /\ b \in [Sides -> [Nat -> Nat]]
  <2>1. RootGiven(FrameLow, end, top, more, input, role, bound, above, moved, tree, tree', x)
    BY <1>1, <1>2, <1>3, <1>5 DEF RootGiven
  <2> QED BY <2>1, RootHolds
<1>7. Heads(input, heads', FrameLow, r, b, moved)
  <2>1. HeadsGiven(input, FrameLow, role, bound, above, moved, heads, heads', x)
    BY <1>1, <1>2, <1>5 DEF HeadsGiven
  <2> QED BY <2>1, RootedHeads
<1>8. e \in [Sides -> Nat] /\ \A side \in Sides : e[side] = x OBVIOUS
<1>9. /\ r[x] = "sorted" /\ \A i \in Nat : i # x => r[i] = role[i]
      /\ \A side \in Sides : b[side][x] = 0
      /\ \A side \in Sides, i \in Nat : bound[side][i] = 0 => b[side][i] = 0
  BY <1>2 DEF Rooted, Unbound
<1> HIDE DEF r, b, e
<1>10. Opens' = Both(x)
  <2>1. Opens' = {walk'[side] : side \in Sides} BY DEF Opens
  <2>2. \A side \in Sides : walk'[side] = <<Slot(x), side>> BY DEF Begins
  <2>3. {walk'[side] : side \in Sides} = {<<Slot(x), side>> : side \in Sides}
    <3>1. ASSUME NEW v PROVE v \in {walk'[side] : side \in Sides} <=> v \in {<<Slot(x), side>> : side \in Sides}
      <4>1. ASSUME NEW side \in Sides, v = walk'[side]
            PROVE  v \in {<<Slot(x), z>> : z \in Sides}
        BY <4>1, <2>2
      <4>2. ASSUME NEW side \in Sides, v = <<Slot(x), side>>
            PROVE  v \in {walk'[z] : z \in Sides}
        BY <4>2, <2>2
      <4> QED BY <4>1, <4>2
    <3> QED BY <3>1
  <2> QED BY <2>1, <2>3 DEF Both
<1>11. Shaped(r, b, moved, e) BY <1>6, <1>8 DEF Shaped
<1>12. m \in Nat /\ m < x /\ (m >= FrameLow => r[m] = role[m]) BY <1>9 DEF Replaced
<1>13. Walk(more, r, b, moved, e)'
  <2>1. walk'.node = x /\ walk'.match = m BY DEF Begins
  <2>2. /\ r[walk'.node] = "sorted" /\ walk'.treeLow + TreeSize > more
        /\ Lost(more, walk'.low, walk'.treeLow)
        /\ FrameLow' <= walk'.low + 1 /\ WindowLow(target)' <= walk'.low + 1
        /\ walk'.reach > walk'.node + Slack
        /\ e["smaller"] = e["larger"] => e["smaller"] = walk'.node
    BY <1>1, <1>8, <1>9, <2>1 DEF Begins, Sides
  <2>3. phase' = "sort" => walk'.low = WindowLow(target)' /\ walk'.treeLow = UnsortedLimit'
    <3>1. UnsortedLimit' = UnsortedLimit /\ WindowLow(target)' = WindowLow(target)
      BY <1>1 DEF UnsortedLimit, TreeLow
    <3> QED BY <3>1 DEF Begins
  <2>4. ASSUME NEW side \in Sides
        PROVE  /\ b[side][walk'.node] = 0
               /\ r[e[side]] = "sorted" /\ e[side] <= walk'.node /\ Owned(more, e[side])
               /\ walk'[side] = <<Slot(e[side]), IF e[side] = walk'.node THEN side ELSE Other(side)>>
               /\ e[side] = walk'.node
               /\ walk'.match < e[side]
               /\ walk'.match >= FrameLow' => b[side][walk'.match] = EndOf(e[side], walk'.node)
               /\ walk'.common[side] = 0
    <3>1. e[side] = x BY <1>8
    <3>2. walk'.match >= FrameLow' => b[side][walk'.match] = 0
      BY <1>1, <1>9, <2>1 DEF Replaced
    <3> QED BY <3>1, <3>2, <2>1, <1>9, <1>12 DEF Begins, EndOf
  <2>5. walk'.match >= FrameLow' => r[walk'.match] # "none"
    BY <1>1, <1>12, <2>1 DEF Replaced
  <2>6. walk'.match > walk'.treeLow /\ walk'.match > walk'.low => r[walk'.match] = "sorted"
    BY <1>9, <1>12, <2>1 DEF Begins
  <2> QED BY <2>2, <2>3, <2>4, <2>5, <2>6 DEF Walk, Lost, Owned
<1>14. Unlisted(more, r)'
  <2> SUFFICES ASSUME walk'.match >= FrameLow'
               PROVE  /\ \A h \in Hashes : heads'[h] # walk'.match
                      /\ \A i \in Nat : r[i] \in {"listed", "stacked"} /\ Owned(more, i) =>
                           Left(i)' # walk'.match
    BY DEF Unlisted, Owned
  <2>1. m >= FrameLow /\ walk'.match = m BY <1>1 DEF Begins
  <2>2. \A h \in Hashes : heads'[h] # m BY <2>1 DEF Replaced
  <2>3. \A i \in Nat : r[i] \in {"listed", "stacked"} /\ Owned(more, i) => Left(i)' # m
    <3> SUFFICES ASSUME NEW i \in Nat, r[i] \in {"listed", "stacked"}, Owned(more, i)
                 PROVE  Left(i)' # m
      OBVIOUS
    <3>1. i # x BY <1>9
    <3>2. role[i] \in {"listed", "stacked"} BY <3>1, <1>9
    <3> QED BY <2>1, <3>1, <3>2 DEF Replaced
  <2> QED BY <2>1, <2>2, <2>3
<1>15. Course(more, r)' /\ OnlyWhen(r)' /\ Stacks(r)' BY DEF r
<1>16. Trees(tree, Opens, FrameLow, more, r, b)'
  <2> SUFFICES ASSUME NEW i \in Nat, NEW side \in Sides, r[i] = "sorted", Owned(more, i),
                      <<Slot(i), side>> \notin Opens'
               PROVE  Child(FrameLow', r, b, i, side, tree'[Slot(i)][side])
    BY DEF Trees, Child, Owned, Slot
  <2> QED BY <1>1, <1>6, <1>10 DEF Trees
<1>17. /\ Nodes(FrameLow, more, end, r, b)' /\ Bounds(input, FrameLow, end, r, b)'
       /\ Heads(input, heads, FrameLow, r, b, moved)'
       /\ Lists(input, tree, FrameLow, more, r, b, moved)'
  BY <1>1, <1>6, <1>7 DEF Nodes, Bounds, Heads, Lists
<1> QED BY <1>11, <1>13, <1>14, <1>15, <1>16, <1>17 DEF Shape, r, b, e

\* The head of a bucket is listed by nothing.
LEMMA HeadUnlisted ==
  ASSUME TypeOK, NEW top, NEW role, NEW bound, NEW above, NEW ends,
         Shape(top, role, bound, above, ends), NEW h \in Hashes, heads[h] >= FrameLow
  PROVE  /\ role[heads[h]] # "none" /\ above[heads[h]] = 0
         /\ HashAt(input, heads[h] - FrameLow) = h
         /\ \A side \in Sides : bound[side][heads[h]] = 0
         /\ \A g \in Hashes : g # h => heads[g] # heads[h]
         /\ \A i \in Nat : role[i] \in {"listed", "stacked"} /\ Owned(top, i) => Left(i) # heads[h]
<1>1. \A g \in Hashes : heads[g] >= FrameLow =>
        /\ role[heads[g]] # "none" /\ above[heads[g]] = 0
        /\ HashAt(input, heads[g] - FrameLow) = g
        /\ \A side \in Sides : bound[side][heads[g]] = 0
  BY DEF Shape, Heads, Referred
<1>2. FrameLow \in Nat /\ FrameLow > 0 BY Ranges DEF Mark
<1>3. ASSUME NEW i \in Nat, role[i] \in {"listed", "stacked"}, Owned(top, i)
      PROVE  Left(i) # heads[h]
  <2> SUFFICES ASSUME Left(i) = heads[h] PROVE FALSE OBVIOUS
  <2>1. Referred(input, FrameLow, role, bound, above, tree[Slot(i)].smaller, i,
                 HashAt(input, i - FrameLow))
    BY <1>3 DEF Shape, Lists
  <2>2. above[heads[h]] = i BY <2>1 DEF Referred, Left
  <2>3. role[i] # "none" BY <1>3
  <2>4. FrameLow <= i BY <2>3, ShapeIs
  <2> QED BY <1>1, <1>2, <2>2, <2>4
<1> QED BY <1>1, <1>3

\* Where the old root becomes the first node of the walk.
LEMMA HeadReplaced ==
  ASSUME TypeOK, TypeOK', NEW top, NEW role, NEW bound, NEW above, NEW ends,
         Shape(top, role, bound, above, ends), NEW h \in Hashes, NEW x \in Nat,
         FrameLow <= x, top <= x, role[x] = "none", heads' = [heads EXCEPT ![h] = x],
         \A k \in 0..(TreeSize - 1) : k # Slot(x) => tree'[k] = tree[k], Owned(x, x)
  PROVE  Replaced(x, heads[h], x, role, bound)
<1> DEFINE m == heads[h]
<1>1. heads \in [Hashes -> Nat] BY DEF TypeOK, TableOK
<1>2. m \in Nat /\ (m >= FrameLow => m <= top /\ m # x) /\ top \in Nat BY ShapeIs
<1>3. FrameLow \in Nat BY Ranges
<1>4. m < x BY <1>2, <1>3
<1>5. ASSUME m >= FrameLow, NEW i \in Nat, i # x, role[i] \in {"listed", "stacked"}, Owned(x, i)
      PROVE  Left(i)' # m
  <2>1. role[i] # "none" BY <1>5
  <2>2. i <= top BY <2>1, ShapeIs
  <2>3. Owned(top, i) BY <1>2, <1>5, TreeSizeIs DEF Owned
  <2>4. Slot(i) # Slot(x) BY <1>2, <1>5, <2>2, OwnApart
  <2>5. Slot(i) \in 0..(TreeSize - 1) BY SlotIn
  <2>6. Left(i)' = Left(i) BY <2>4, <2>5 DEF Left, Slot
  <2> QED BY <1>5, <2>3, <2>6, HeadUnlisted
<1>6. ASSUME m >= FrameLow, NEW g \in Hashes PROVE heads'[g] # m
  <2>1. CASE g = h BY <1>1, <1>4, <2>1
  <2>2. CASE g # h BY <1>1, <1>6, <2>2, HeadUnlisted
  <2> QED BY <2>1, <2>2
<1>7. m >= FrameLow => role[m] # "none" /\ \A side \in Sides : bound[side][m] = 0
  BY HeadUnlisted
<1> QED BY <1>2, <1>4, <1>5, <1>6, <1>7 DEF Replaced

\* An insertion of the optimal strategies begins.
LEMMA InsertKeeps ==
  ASSUME IInv, Insert
  PROVE  IInv'
<1>1. PICK top \in Nat, role \in [Nat -> Roles], bound \in [Sides -> [Nat -> Nat]],
           above \in [Nat -> Nat], ends \in [Sides -> Nat] : Shape(top, role, bound, above, ends)
  BY DEF IInv
<1>0. TypeOK BY DEF IInv
<1> DEFINE h == Hash(Unbiased(next))
<1> PICK x : x = next OBVIOUS
<1>2. /\ UNCHANGED <<kind, input, base, next, next3, hash3, cache, begin, end, position, target,
                     candidate, previous, budget, tried, longest, found>>
      /\ phase = "update" /\ phase' = "insert" /\ next < target
      /\ tree' = [tree EXCEPT ![Slot(next)] = [smaller |-> heads[h], larger |-> Mark]]
      /\ heads' = [heads EXCEPT ![h] = next]
      /\ walk' = Path(next, heads[h], Attempts, WindowLow(target) - 1, TreeLow(next), Slack)
  BY DEF Insert, block, stack, result
<1>3. /\ FrameLow \in Nat /\ next \in Nat /\ target \in Nat /\ FrameLow >= 2 /\ end \in Nat
      /\ x \in Nat
  BY <1>0, Ranges
<1>4. /\ FrameLow <= next /\ top < next /\ top < target /\ kind # "lazy"
      /\ target <= Index(Limit) /\ Index(end) <= MaxIndex
  BY <1>1, <1>2 DEF Shape, Course
<1>5. /\ h \in Hashes /\ next - FrameLow < end /\ h = HashAt(input, next - FrameLow)
      /\ FrameLow <= target
  BY <1>0, <1>1, <1>2, <1>3, <1>4, TargetIs
<1> HIDE DEF h
<1>6. heads \in [Hashes -> Nat] /\ tree \in Forest /\ heads[h] \in Nat
  BY <1>0, <1>5 DEF TypeOK, TableOK
<1>7. /\ WindowLow(target) \in Nat /\ FrameLow <= WindowLow(target)
      /\ WindowLow(target) - 1 \in Nat
  BY <1>0, <1>3, <1>5, WindowLowIs
<1>8. TreeLow(x) \in Nat /\ TreeLow(x) + TreeSize > x
  BY <1>3, <1>4, TreeLowIs
<1>9. Attempts \in Nat /\ Slack \in Nat BY ConstantsAssumption DEF ConstantsAssumption
<1>10. Fresh(walk', x, heads[h], WindowLow(target) - 1, TreeLow(x))
  <2>1. walk' = Path(x, heads[h], Attempts, WindowLow(target) - 1, TreeLow(x), Slack) BY <1>2
  <2> QED BY <2>1, <1>3, <1>6, <1>7, <1>8, <1>9, PathIn
<1>11. /\ walk'.node = x /\ walk'.match = heads[h] /\ walk'.low = WindowLow(target) - 1
       /\ walk'.treeLow = TreeLow(x) /\ walk' \in Way
  BY <1>10 DEF Fresh
<1>12. tree' \in Forest /\ \A k \in 0..(TreeSize - 1) : k # Slot(x) => tree'[k] = tree[k]
  <2>1. [smaller |-> heads[h], larger |-> Mark] \in Node BY <1>6 DEF Node, Mark
  <2> QED BY <1>2, <1>6, <2>1 DEF Forest
<1>13. heads' \in [Hashes -> Nat] /\ \A g \in Hashes : heads'[g] = IF g = h THEN x ELSE heads[g]
  BY <1>2, <1>3, <1>5, <1>6
<1>14. TypeOK'
  <2>1. TableOK' BY <1>0, <1>2, <1>12, <1>13 DEF TypeOK, TableOK
  <2>2. position \in Nat /\ target \in Nat BY <1>0 DEF TypeOK, BlockOK, StackOK
  <2>3. BlockOK' /\ StackOK' /\ ResultOK'
    BY <1>0, <2>2, <1>2, TypesStay DEF block, stack, result, Phases, Walking
  <2>4. WalkOK' BY <1>11 DEF WalkOK
  <2> QED BY <2>1, <2>3, <2>4 DEF TypeOK
<1> DEFINE moved == [above EXCEPT ![x] = 0]
<1>15. moved \in [Nat -> Nat] /\ moved[x] = 0 /\ \A c \in Nat : c # x => moved[c] = above[c]
  BY <1>3
<1> HIDE DEF moved
<1>16. \A c \in Nat : role[c] # "none" => c <= top BY <1>0, <1>1, ShapeIs
<1>17. Owned(x, x) BY <1>3, TreeSizeIs DEF Owned
<1>21. role[x] = "none" BY <1>3, <1>4, <1>16
<1>18. Replaced(x, heads[h], x, role, bound)
  <2>1. top <= x BY <1>3, <1>4
  <2> QED BY <1>0, <1>1, <1>2, <1>3, <1>4, <1>5, <1>12, <1>14, <1>17, <1>21, <2>1, HeadReplaced
<1>19. Begins(x, heads[h], x, role)
  <2>1. heads[h] > walk'.low => role[heads[h]] = "sorted"
    <3> SUFFICES ASSUME heads[h] > walk'.low PROVE role[heads[h]] = "sorted" OBVIOUS
    <3>1. heads[h] >= FrameLow BY <1>3, <1>6, <1>7, <1>11
    <3>2. role[heads[h]] # "none" BY <3>1, <1>0, <1>1, <1>5, HeadUnlisted
    <3>3. role[heads[h]] \in Roles /\ role[heads[h]] \notin {"listed", "stacked"}
      BY <1>1, <1>4, <1>6 DEF Shape, OnlyWhen
    <3> QED BY <3>2, <3>3 DEF Roles
  <2>2. phase' # "sort" BY <1>2
  <2>3. FrameLow <= walk'.low + 1 /\ WindowLow(target) <= walk'.low + 1
    BY <1>3, <1>7, <1>11
  <2>4. Lost(x, walk'.low, walk'.treeLow) BY <1>3, <1>7, <1>11, TreeLowLost
  <2> QED BY <2>1, <2>2, <2>3, <2>4, <1>8, <1>10, <1>11, <1>17 DEF Begins, Fresh
<1>20. phase \notin Walking /\ phase' \in Walking /\ phase' \notin Sorting BY <1>2 DEF Walking, Sorting
<1>22. Course(x, Rooted(role, x))'
  <2>1. FrameLow' = FrameLow /\ Index(Limit)' = Index(Limit) /\ Index(end)' = Index(end)
    BY <1>2 DEF FrameLow, Index, Limit
  <2>2. FrameLow <= x + 1 BY <1>3, <1>4
  <2> QED BY <1>2, <1>3, <1>4, <1>11, <1>20, <2>1, <2>2 DEF Course, Sorting
<1>23. OnlyWhen(Rooted(role, x))'
  <2>1. \A i \in Nat : Rooted(role, x)[i] = role[i] \/ Rooted(role, x)[i] = "sorted"
    BY DEF Rooted
  <2>2. \A i \in Nat : role[i] \notin {"listed", "stacked"} BY <1>1, <1>4 DEF Shape, OnlyWhen
  <2> QED BY <2>1, <2>2 DEF OnlyWhen
<1>24. Stacks(Rooted(role, x))' BY <1>20 DEF Stacks
<1> DEFINE e == [side \in Sides |-> x]
<1>25. Shape(x, Rooted(role, x), Unbound(bound, x), moved, e)'
  <2>1. top <= x /\ x <= x BY <1>3, <1>4
  <2>2. \A c \in Nat : role[c] # "none" => moved[c] = above[c] BY <1>15, <1>21
  <2>3. \A g \in Hashes : \/ heads'[g] = heads[g]
                          \/ heads'[g] = x /\ moved[x] = 0 /\ HashAt(input, x - FrameLow) = g
    BY <1>5, <1>13, <1>15
  <2>4. StartsAt(x, heads[h], top, x, role, bound, above, moved)
    BY <1>0, <1>1, <1>2, <1>3, <1>4, <1>5, <1>12, <1>14, <1>15, <1>17, <1>18, <1>19, <1>20,
             <1>21, <1>22, <1>23, <1>24, <2>1, <2>2, <2>3 DEF StartsAt
  <2> QED BY <2>4, <1>0, <1>1, <1>14, RootStep
<1>26. /\ Rooted(role, x) \in [Nat -> Roles] /\ Unbound(bound, x) \in [Sides -> [Nat -> Nat]]
       /\ e \in [Sides -> Nat]
  BY <1>3 DEF Rooted, Unbound, Roles
<1>27. CacheTrue' BY <1>2, CacheStays DEF IInv
<1>28. MatchesAreReal' BY <1>2, FoundKept DEF IInv
<1> HIDE DEF e
<1> QED BY <1>2, <1>3, <1>14, <1>15, <1>25, <1>26, <1>27, <1>28, InvariantBy

\* The search in the sorted tree begins.
LEMMA MainStep ==
  ASSUME TypeOK, NEW top, NEW role, NEW bound, NEW above, NEW ends,
         Shape(top, role, bound, above, ends), phase \in {"resort", "repeats"},
         NEW best \in Nat, StartMain(best),
         UNCHANGED <<kind, input, base, next, tree, end, target>>,
         kind = "lazy" => Stacked(role) = {} /\ Given(role, Root)
  PROVE  /\ heads' \in [Hashes -> Nat] /\ walk' \in Way /\ phase' = "main"
         /\ TypeOK' => \E n \in Nat, r \in [Nat -> Roles], b \in [Sides -> [Nat -> Nat]],
                          a \in [Nat -> Nat], e \in [Sides -> Nat] : Shape(n, r, b, a, e)'
<1> DEFINE h == Hash(Unbiased(target))
           low == IF kind = "lazy" THEN WindowLow(target) ELSE WindowLow(target) - 1
<1> PICK x : x = target OBVIOUS
<1>2. /\ phase' = "main" /\ heads' = [heads EXCEPT ![h] = x]
      /\ walk' = Path(x, heads[h], Attempts, low, TreeLow(x), best)
  BY DEF StartMain
<1>3. /\ FrameLow \in Nat /\ target \in Nat /\ next \in Nat /\ FrameLow >= 2 /\ end \in Nat
      /\ x \in Nat
  BY Ranges
<1>s. phase \notin {"idle", "ready"} /\ phase \in Sorting \cup {"repeats", "main"}
  BY DEF Sorting
<1>4. /\ FrameLow <= next /\ next = target /\ top <= target /\ top \in Nat
      /\ phase = "repeats" => top < target /\ kind # "lazy"
      /\ phase = "resort" => top = target /\ role[target] = "none" /\ kind = "lazy"
      /\ target <= Index(Limit) /\ Index(end) <= MaxIndex
  <2>1. /\ top \in Nat /\ FrameLow <= next
        /\ phase \in {"update", "repeats", "insert"} => top < target /\ kind # "lazy"
        /\ phase \in Sorting => top = target /\ role[target] = "none" /\ kind = "lazy"
        /\ phase \in Sorting \cup {"repeats", "main"} => next = target
        /\ phase \notin {"idle", "ready"} => target <= Index(Limit)
        /\ phase # "idle" => Index(end) <= MaxIndex
    BY DEF Shape, Course
  <2> QED BY <1>s, <2>1, <1>3 DEF Sorting
<1>5. /\ h \in Hashes /\ x - FrameLow < end /\ h = HashAt(input, x - FrameLow)
      /\ FrameLow <= x
  BY <1>3, <1>4, <1>s, TargetIs
<1>r. heads[h] = Root BY DEF Root
<1> HIDE DEF h
<1>6. heads \in [Hashes -> Nat] /\ heads[h] \in Nat BY <1>5 DEF TypeOK, TableOK
<1>7. /\ WindowLow(target) \in Nat /\ FrameLow <= WindowLow(target)
      /\ WindowLow(target) - 1 \in Nat
  BY <1>3, <1>4, WindowLowIs
<1>8. TreeLow(x) \in Nat /\ TreeLow(x) + TreeSize > x
  BY <1>3, <1>5, TreeLowIs
<1>9. Attempts \in Nat /\ low \in Nat BY <1>7, ConstantsAssumption DEF ConstantsAssumption
<1>l. /\ kind = "lazy" => low = WindowLow(target)
      /\ FrameLow <= low + 1 /\ WindowLow(target) <= low + 1
      /\ \A i \in Nat : i > low => i >= FrameLow
  BY <1>3, <1>7
<1> HIDE DEF low
<1>10. Fresh(walk', x, heads[h], low, TreeLow(x))
  BY <1>2, <1>3, <1>6, <1>8, <1>9, PathIn
<1>11. /\ walk'.node = x /\ walk'.match = heads[h] /\ walk'.low = low
       /\ walk'.treeLow = TreeLow(x) /\ walk' \in Way
  BY <1>10 DEF Fresh
<1>13. heads' \in [Hashes -> Nat] /\ \A g \in Hashes : heads'[g] = IF g = h THEN x ELSE heads[g]
  BY <1>2, <1>3, <1>5, <1>6
<1> SUFFICES ASSUME TypeOK'
             PROVE  \E n \in Nat, r \in [Nat -> Roles], b \in [Sides -> [Nat -> Nat]],
                       a \in [Nat -> Nat], e \in [Sides -> Nat] : Shape(n, r, b, a, e)'
  BY <1>2, <1>11, <1>13
<1>14. role \in [Nat -> Roles] /\ bound \in [Sides -> [Nat -> Nat]] /\ above \in [Nat -> Nat]
  BY ShapeIs
<1> DEFINE moved == [above EXCEPT ![x] = 0]
<1>15. moved \in [Nat -> Nat] /\ moved[x] = 0 /\ \A c \in Nat : c # x => moved[c] = above[c]
  BY <1>3, <1>14
<1> HIDE DEF moved
<1>16. role[x] = "none"
  <2>1. CASE phase = "resort" BY <2>1, <1>4
  <2>2. CASE phase = "repeats"
    <3>1. role[x] # "none" => x <= top BY <1>3, ShapeIs
    <3> QED BY <2>2, <3>1, <1>3, <1>4
  <2> QED BY <2>1, <2>2
<1>17. Owned(x, x) BY <1>3, TreeSizeIs DEF Owned
<1>18. Replaced(x, heads[h], x, role, bound)
  BY <1>2, <1>3, <1>4, <1>5, <1>16, <1>17, HeadReplaced
<1>19. Begins(x, heads[h], x, role)
  <2>1. ASSUME heads[h] > walk'.low, heads[h] > walk'.treeLow PROVE role[heads[h]] = "sorted"
    <3>1. heads[h] >= FrameLow BY <2>1, <1>6, <1>11, <1>l
    <3>2. CASE kind = "lazy"
      <4>1. heads[h] > UnsortedLimit
        BY <2>1, <3>2, <1>6, <1>7, <1>8, <1>11, <1>l DEF UnsortedLimit, Larger
      <4> QED BY <3>2, <4>1, <1>r DEF Given
    <3>3. CASE kind # "lazy"
      <4>1. role[heads[h]] # "none" BY <3>1, <1>5, HeadUnlisted
      <4>2. role[heads[h]] \in Roles /\ role[heads[h]] \notin {"listed", "stacked"}
        BY <3>3, <1>6, <1>14 DEF Shape, OnlyWhen
      <4> QED BY <4>1, <4>2 DEF Roles
    <3> QED BY <3>2, <3>3
  <2>2. phase' # "sort" BY <1>2
  <2>4. Lost(x, walk'.low, walk'.treeLow) BY <1>3, <1>9, <1>11, TreeLowLost
  <2> QED BY <2>1, <2>2, <2>4, <1>8, <1>10, <1>11, <1>17, <1>l DEF Begins, Fresh
<1>20. phase \notin Walking /\ phase' \in Walking /\ phase' \notin Sorting
  BY <1>2 DEF Walking, Sorting
<1>21. Course(x, Rooted(role, x))'
  <2>1. FrameLow' = FrameLow /\ Index(Limit)' = Index(Limit) /\ Index(end)' = Index(end)
    BY DEF FrameLow, Index, Limit
  <2>2. FrameLow <= x + 1 BY <1>3, <1>5
  <2> QED BY <1>2, <1>3, <1>4, <1>11, <1>20, <2>1, <2>2 DEF Course
<1>22. OnlyWhen(Rooted(role, x))'
  <2>1. \A i \in Nat : Rooted(role, x)[i] = role[i] \/ Rooted(role, x)[i] = "sorted"
    BY <1>14 DEF Rooted
  <2>2. \A i \in Nat : role[i] = "listed" => kind = "lazy" BY DEF Shape, OnlyWhen
  <2>3. \A i \in Nat : role[i] # "stacked"
    <3>1. CASE kind = "lazy" BY <3>1 DEF Stacked
    <3>2. CASE kind # "lazy" BY <3>2 DEF Shape, OnlyWhen
    <3> QED BY <3>1, <3>2
  <2> QED BY <2>1, <2>2, <2>3 DEF OnlyWhen
<1>23. Stacks(Rooted(role, x))' BY <1>20 DEF Stacks
<1> DEFINE e == [side \in Sides |-> x]
<1>24. Shape(x, Rooted(role, x), Unbound(bound, x), moved, e)'
  <2>1. top <= x /\ x <= x BY <1>3, <1>4
  <2>2. \A c \in Nat : role[c] # "none" => moved[c] = above[c] BY <1>15, <1>16
  <2>3. \A g \in Hashes : \/ heads'[g] = heads[g]
                          \/ heads'[g] = x /\ moved[x] = 0 /\ HashAt(input, x - FrameLow) = g
    BY <1>5, <1>13, <1>15
  <2>4. StartsAt(x, heads[h], top, x, role, bound, above, moved)
    BY <1>3, <1>4, <1>5, <1>15, <1>16, <1>17, <1>18, <1>19, <1>20, <1>21, <1>22, <1>23,
       <2>1, <2>2, <2>3 DEF StartsAt
  <2> QED BY <2>4, RootStep
<1>25. /\ Rooted(role, x) \in [Nat -> Roles] /\ Unbound(bound, x) \in [Sides -> [Nat -> Nat]]
       /\ e \in [Sides -> Nat]
  BY <1>3, <1>14 DEF Rooted, Unbound, Roles
<1> HIDE DEF e
<1> QED BY <1>3, <1>15, <1>24, <1>25

\* All is sorted, and the search of btlazy2 begins.
LEMMA SortedKeeps ==
  ASSUME IInv, Sorted
  PROVE  IInv'
<1>1. PICK top \in Nat, role \in [Nat -> Roles], bound \in [Sides -> [Nat -> Nat]],
           above \in [Nat -> Nat], ends \in [Sides -> Nat] : Shape(top, role, bound, above, ends)
  BY DEF IInv
<1>0. TypeOK BY DEF IInv
<1>2. /\ UNCHANGED <<kind, input, base, next, next3, hash3, tree, cache, begin, end, position,
                     target, candidate, previous, budget, tried, longest, found>>
      /\ phase = "resort" /\ candidate = 0 /\ StartMain(0)
  BY DEF Sorted, block, stack, result
<1>3. Stacked(role) = {} /\ Given(role, Root) BY <1>1, <1>2 DEF Shape, Stacks, Stack, Sorting
<1>4. /\ heads' \in [Hashes -> Nat] /\ walk' \in Way /\ phase' = "main"
      /\ TypeOK' => \E n \in Nat, r \in [Nat -> Roles], b \in [Sides -> [Nat -> Nat]],
                       a \in [Nat -> Nat], e \in [Sides -> Nat] : Shape(n, r, b, a, e)'
  BY <1>0, <1>1, <1>2, <1>3, MainStep
<1>5. TypeOK'
  <2>1. TableOK' BY <1>0, <1>2, <1>4 DEF TypeOK, TableOK
  <2>2. position \in Nat /\ target \in Nat /\ phase' \in Phases
    BY <1>0, <1>4 DEF TypeOK, BlockOK, StackOK, Phases, Walking
  <2>3. BlockOK' /\ StackOK' /\ ResultOK'
    BY <1>0, <2>2, <1>2, TypesStay DEF block, stack, result
  <2>4. WalkOK' BY <1>4 DEF WalkOK
  <2> QED BY <2>1, <2>3, <2>4 DEF TypeOK
<1>6. CacheTrue' BY <1>2, CacheStays DEF IInv
<1>7. MatchesAreReal' BY <1>2, FoundKept DEF IInv
<1> QED BY <1>4, <1>5, <1>6, <1>7 DEF IInv

----------------------------------------------------------------------------
(* Matches.                                                                *)

\* Equal bytes at a distance in reach are a match.
LEMMA FoundIs ==
  ASSUME TypeOK, NEW distance \in Nat, NEW length, NEW p \in Nat,
         p = Unbiased(target), FrameLow <= target, p <= end,
         distance >= 1, distance <= target - WindowLow(target),
         length = Matching(p, p - distance, end),
         found' = [distance |-> distance, length |-> length],
         UNCHANGED <<target, base, end, input>>
  PROVE  MatchesAreReal' /\ found' \in Match /\ length \in Nat
<1>1. /\ FrameLow \in Nat /\ target \in Nat /\ end \in Nat
      /\ \A i \in Int : Unbiased(i) = i - FrameLow
  BY Ranges
<1>2. /\ target - WindowLow(target) <= Window /\ target - WindowLow(target) <= target - FrameLow
      /\ WindowLow(target) \in Nat /\ Window \in Nat
  BY <1>1, WindowLowIs
<1>3. distance <= Window /\ distance <= p /\ p - distance \in Nat BY <1>1, <1>2
<1>4. Agrees(p, p - distance, end, length) BY <1>1, <1>3, MatchingIs
<1>5. length \in Nat /\ length <= end - p BY <1>1, <1>4 DEF Agrees
<1>6. distance \in 1..Smaller(Window, p) BY <1>2, <1>3 DEF Smaller
<1>7. \A a, b, e : Matching(a, b, e)' = Matching(a, b, e) BY DEF Matching, Byte
<1>8. Unbiased(target)' = p BY DEF Unbiased
<1>9. found'.distance = distance /\ found'.length = length OBVIOUS
<1>10. MatchesAreReal' BY <1>5, <1>6, <1>7, <1>8, <1>9 DEF MatchesAreReal
<1> QED BY <1>5, <1>10 DEF Match

\* A repeated distance is tried.
LEMMA TryRepeatKeeps ==
  ASSUME IInv, NEW distance \in Nat, distance >= 1, TryRepeat(distance)
  PROVE  IInv'
<1>1. PICK top \in Nat, role \in [Nat -> Roles], bound \in [Sides -> [Nat -> Nat]],
           above \in [Nat -> Nat], ends \in [Sides -> Nat] : Shape(top, role, bound, above, ends)
  BY DEF IInv
<1>0. TypeOK BY DEF IInv
<1> PICK p : p = Unbiased(target) OBVIOUS
<1> DEFINE length == Matching(p, p - distance, end)
<1>2. /\ UNCHANGED <<kind, input, base, next, next3, heads, hash3, tree, cache, begin, end,
                     position, target, candidate, previous, budget, walk>>
      /\ phase = "repeats" /\ distance <= target - WindowLow(target)
      /\ found' = [distance |-> distance, length |-> length]
      /\ longest' = length /\ tried' = tried + 1 /\ phase' \in {"ready", "repeats"}
  BY DEF TryRepeat, InReach, block, table, stack
<1>3. /\ FrameLow <= target /\ p \in Nat /\ p <= end /\ FrameLow \in Nat /\ target \in Nat
  <2>1. /\ Unbiased(target) + ReadSize <= end /\ Unbiased(target) \in Nat /\ FrameLow <= target
    BY <1>0, <1>1, <1>2, TargetIs
  <2>2. ReadSize \in Nat /\ end \in Nat /\ FrameLow \in Nat /\ target \in Nat BY <1>0, Ranges
  <2> QED BY <2>1, <2>2
<1>4. PICK n : n = length OBVIOUS
<1> HIDE DEF length
<1>5. MatchesAreReal' /\ found' \in Match /\ n \in Nat
  BY <1>0, <1>2, <1>3, <1>4, FoundIs DEF length
<1>6. TypeOK'
  <2>1. ResultOK' BY <1>0, <1>2, <1>4, <1>5 DEF TypeOK, ResultOK
  <2>2. position \in Nat /\ phase' \in Phases /\ phase' \notin Walking
    BY <1>0, <1>2 DEF TypeOK, BlockOK, Phases, Walking
  <2>3. BlockOK' /\ TableOK' /\ StackOK' /\ WalkOK'
    BY <1>0, <1>3, <2>2, <1>2, TypesStay DEF block, table, stack
  <2> QED BY <2>1, <2>3 DEF TypeOK
<1>7. CacheTrue' BY <1>2, CacheStays DEF IInv
<1>8. Course(top, role)'
  <2>1. /\ FrameLow <= top + 1 /\ FrameLow <= next /\ top < target /\ kind # "lazy"
        /\ next = target /\ target <= Index(Limit) /\ Index(end) <= MaxIndex /\ top \in Nat
    BY <1>1, <1>2 DEF Shape, Course
  <2>2. FrameLow' = FrameLow /\ Index(Limit)' = Index(Limit) /\ Index(end)' = Index(end)
    BY <1>2 DEF FrameLow, Index, Limit
  <2> QED BY <1>2, <2>1, <2>2 DEF Course, Sorting
<1>9. Shape(top, role, bound, above, ends)'
  BY <1>0, <1>1, <1>2, <1>6, <1>8, EndStays, QuietKeeps DEF Quiet
<1> QED BY <1>2, <1>5, <1>6, <1>7, <1>9, InvariantBy

\* A set of positions has a newest.
LEMMA Greatest ==
  ASSUME NEW a \in Int, NEW b \in Int, NEW S, S \subseteq a..b, S # {}
  PROVE  \E q \in S : \A r \in S : r <= q
<1> DEFINE T == {b - q : q \in S}
<1>1. PICK n \in T : \A m \in T : n <= m
  <2>1. T \subseteq Nat /\ T # {} OBVIOUS
  <2> HIDE DEF T
  <2> QED BY <2>1, LeastNatural
<1>2. PICK q \in S : n = b - q OBVIOUS
<1>3. \A r \in S : r <= q
  <2> SUFFICES ASSUME NEW r \in S PROVE r <= q OBVIOUS
  <2>1. b - r \in T OBVIOUS
  <2>2. n <= b - r BY <1>1, <2>1
  <2> QED BY <1>2, <2>2
<1> QED BY <1>3

\* The newest position of a bucket.
LEMMA NewestIs ==
  ASSUME NEW a \in Int, NEW b \in Int, NEW S, S \subseteq a..b, NEW h, \E q \in S : Hash(q) = h
  PROVE  /\ NewestOf(h, S) \in S /\ Hash(NewestOf(h, S)) = h
         /\ \A r \in S : Hash(r) = h => r <= NewestOf(h, S)
<1> DEFINE T == {q \in S : Hash(q) = h}
<1>1. PICK q \in T : \A r \in T : r <= q
  <2>1. T \subseteq a..b /\ T # {} OBVIOUS
  <2> HIDE DEF T
  <2> QED BY <2>1, Greatest
<1> QED BY <1>1 DEF NewestOf

\* The table of three bytes holds indexes.
LEMMA Hash3In ==
  ASSUME TypeOK
  PROVE  Hash3Now \in [Hashes -> Nat]
<1>1. /\ base \in Nat /\ next3 \in Nat /\ target \in Nat /\ hash3 \in [Hashes -> Nat]
  BY DEF TypeOK, TableOK, StackOK
<1> DEFINE a == Unbiased(next3)
           b == Unbiased(target) - 1
<1>2. {q \in a..b : TRUE} = a..b OBVIOUS
<1>3. Hash3Now = [h \in Hashes |-> IF \E q \in a..b : Hash(q) = h
                                   THEN Index(NewestOf(h, a..b)) ELSE hash3[h]]
  BY <1>2 DEF Hash3Now
<1>4. a \in Int /\ b \in Int /\ \A q \in a..b : Index(q) \in Nat
  BY <1>1 DEF Unbiased, Index, Bias
<1> HIDE DEF a, b
<1>5. ASSUME NEW h \in Hashes, \E q \in a..b : Hash(q) = h PROVE Index(NewestOf(h, a..b)) \in Nat
  BY <1>4, <1>5, NewestIs
<1> QED BY <1>1, <1>3, <1>5

\* The repeats are done: the table of three bytes is asked, or the search begins.
LEMMA RepeatedKeeps ==
  ASSUME IInv, Repeated
  PROVE  IInv'
<1>1. PICK top \in Nat, role \in [Nat -> Roles], bound \in [Sides -> [Nat -> Nat]],
           above \in [Nat -> Nat], ends \in [Sides -> Nat] : Shape(top, role, bound, above, ends)
  BY DEF IInv
<1>0. TypeOK BY DEF IInv
<1> PICK p : p = Unbiased(target) OBVIOUS
<1> DEFINE match3 == Hash3Now[Hash(p)]
           length == Matching(p, Unbiased(match3), end)
           hit == match3 >= WindowLow(target) /\ match3 < target
<1>2. /\ UNCHANGED <<kind, input, base, tree, cache, begin, end,
                     position, target, candidate, previous, budget, tried>>
      /\ phase = "repeats"
      /\ \/ hash3' = Hash3Now /\ next3' = Larger(next3, target)
         \/ UNCHANGED <<hash3, next3>>
      /\ \/ /\ hit /\ found' = [distance |-> target - match3, length |-> length]
            /\ longest' = length
         \/ UNCHANGED <<found, longest>>
      /\ \/ next' = target + 1 /\ phase' = "ready" /\ UNCHANGED <<heads, walk>>
         \/ StartMain(longest') /\ UNCHANGED next
  BY DEF Repeated, block, stack
<1>3. /\ FrameLow <= target /\ p \in Nat /\ p <= end /\ FrameLow \in Nat /\ target \in Nat
      /\ p = target - FrameLow /\ Hash(p) \in Hashes /\ \A i \in Int : Unbiased(i) = i - FrameLow
  <2>1. /\ Unbiased(target) + ReadSize <= end /\ Unbiased(target) \in Nat /\ FrameLow <= target
        /\ Unbiased(target) = target - FrameLow /\ Hash(Unbiased(target)) \in Hashes
    BY <1>0, <1>1, <1>2, TargetIs
  <2>2. ReadSize \in Nat /\ end \in Nat /\ FrameLow \in Nat /\ target \in Nat
        /\ \A i \in Int : Unbiased(i) = i - FrameLow BY <1>0, Ranges
  <2> QED BY <2>1, <2>2
<1>4. PICK m \in Nat : m = match3
  <2>1. Hash3Now \in [Hashes -> Nat] BY <1>0, Hash3In
  <2> QED BY <2>1, <1>3
<1> HIDE DEF match3
<1>5. MatchesAreReal' /\ found' \in Match /\ longest' \in Nat
  <2>1. CASE UNCHANGED <<found, longest>>
    <3>1. MatchesAreReal' BY <1>2, <2>1, FoundKept DEF IInv
    <3> QED BY <3>1, <2>1, <1>0 DEF TypeOK, ResultOK
  <2>2. CASE /\ hit /\ found' = [distance |-> target - match3, length |-> length]
             /\ longest' = length
    <3> PICK d : d = target - m OBVIOUS
    <3>1. WindowLow(target) \in Nat BY <1>0, <1>3, WindowLowIs
    <3>2. /\ d \in Nat /\ d >= 1 /\ d <= target - WindowLow(target)
          /\ Unbiased(m) = p - d
      BY <1>3, <1>4, <2>2, <3>1
    <3>3. length = Matching(p, p - d, end) BY <1>4, <3>2
    <3> PICK l : l = length OBVIOUS
    <3>4. found' = [distance |-> d, length |-> l] BY <1>4, <2>2
    <3> HIDE DEF length
    <3>5. MatchesAreReal' /\ found' \in Match /\ l \in Nat
      BY <1>0, <1>2, <1>3, <3>2, <3>3, <3>4, FoundIs
    <3> QED BY <2>2, <3>5
  <2> QED BY <1>2, <2>1, <2>2
<1>6. hash3' \in [Hashes -> Nat] /\ next3' \in Nat
  <2>1. hash3 \in [Hashes -> Nat] /\ next3 \in Nat BY <1>0 DEF TypeOK, TableOK
  <2> QED BY <2>1, <1>0, <1>2, <1>3, Hash3In DEF Larger
<1>7. ResultOK' BY <1>0, <1>2, <1>5 DEF TypeOK, ResultOK
<1>8. CacheTrue' BY <1>2, CacheStays DEF IInv
<1>9. /\ FrameLow <= top + 1 /\ FrameLow <= next /\ top < target /\ kind # "lazy"
      /\ next = target /\ target <= Index(Limit) /\ Index(end) <= MaxIndex /\ top \in Nat
  BY <1>1, <1>2 DEF Shape, Course
<1>10. CASE next' = target + 1 /\ phase' = "ready" /\ UNCHANGED <<heads, walk>>
  <2>1. TypeOK'
    <3>1. TableOK' BY <1>0, <1>2, <1>3, <1>6, <1>10 DEF TypeOK, TableOK
    <3>2. position \in Nat /\ phase' \in Phases /\ phase' \notin Walking
      BY <1>0, <1>10 DEF TypeOK, BlockOK, Phases, Walking
    <3>3. BlockOK' /\ StackOK' /\ WalkOK'
      BY <1>0, <1>3, <3>2, <1>2, TypesStay DEF block, stack
    <3> QED BY <1>7, <3>1, <3>3 DEF TypeOK
  <2>2. Course(top, role)'
    <3>1. FrameLow' = FrameLow /\ Index(Limit)' = Index(Limit) /\ Index(end)' = Index(end)
      BY <1>2 DEF FrameLow, Index, Limit
    <3>2. FrameLow <= target + 1 /\ top < target + 1 BY <1>3, <1>9
    <3> QED BY <1>2, <1>9, <1>10, <3>1, <3>2 DEF Course, Sorting
  <2>3. Shape(top, role, bound, above, ends)'
    BY <1>0, <1>1, <1>2, <1>10, <2>1, <2>2, EndStays, QuietKeeps DEF Quiet
  <2> QED BY <1>5, <1>8, <1>10, <2>1, <2>3, InvariantBy
<1>11. CASE StartMain(longest') /\ UNCHANGED next
  <2> PICK best \in Nat : best = longest' BY <1>5
  <2>1. StartMain(best) BY <1>11
  <2>2. phase \in {"resort", "repeats"} BY <1>2
  <2>3. /\ heads' \in [Hashes -> Nat] /\ walk' \in Way /\ phase' = "main"
        /\ TypeOK' => \E n \in Nat, r \in [Nat -> Roles], b \in [Sides -> [Nat -> Nat]],
                         a \in [Nat -> Nat], e \in [Sides -> Nat] : Shape(n, r, b, a, e)'
    BY <1>0, <1>1, <1>2, <1>9, <1>11, <2>1, <2>2, MainStep
  <2>4. TypeOK'
    <3>1. TableOK' BY <1>0, <1>2, <1>6, <1>11, <2>3 DEF TypeOK, TableOK
    <3>2. position \in Nat /\ phase' \in Phases
      BY <1>0, <2>3 DEF TypeOK, BlockOK, Phases, Walking
    <3>3. BlockOK' /\ StackOK' BY <1>0, <1>3, <3>2, <1>2, TypesStay DEF block, stack
    <3>4. WalkOK' BY <2>3 DEF WalkOK
    <3> QED BY <1>7, <3>1, <3>3, <3>4 DEF TypeOK
  <2> QED BY <1>5, <1>8, <2>3, <2>4 DEF IInv
<1> QED BY <1>2, <1>10, <1>11

----------------------------------------------------------------------------
(* The stack of what waits.                                                *)

\* What is known of the nodes on the stack, and of the head they hang from.
StackFacts(top, role, above, bound) ==
  /\ top = target /\ kind = "lazy" /\ role[target] = "none" /\ target \in Nat /\ FrameLow <= target
  /\ next = target /\ target <= Index(Limit) /\ Index(end) <= MaxIndex
  /\ UnsortedLimit \in Nat /\ FrameLow <= UnsortedLimit /\ FrameLow \in Nat /\ FrameLow >= 2
  /\ \A i \in Nat : i > UnsortedLimit => Owned(top, i)
  /\ \A i \in Stacked(role) :
       /\ i \in Nat /\ i > UnsortedLimit /\ i <= target /\ i - FrameLow < end /\ role[i] = "stacked"
       /\ tree[Slot(i)].larger = above[i]
       /\ Left(i) \in Nat /\ Left(i) < i
       /\ Left(i) >= FrameLow =>
            /\ role[Left(i)] # "none" /\ above[Left(i)] = i
            /\ \A side \in Sides : bound[side][Left(i)] = 0
  /\ Root \in Nat
  /\ Root >= FrameLow => role[Root] # "none" /\ above[Root] = 0

\* StackFacts follows from the shape.
LEMMA StackFactsHold ==
  ASSUME TypeOK, NEW top, NEW role, NEW bound, NEW above, NEW ends,
         Shape(top, role, bound, above, ends), phase \in Sorting
  PROVE  StackFacts(top, role, above, bound)
<1>1. FrameLow \in Nat /\ FrameLow >= 2 /\ end \in Nat BY Ranges
<1>2. /\ top = target /\ kind = "lazy" /\ role[target] = "none" /\ next = target
      /\ target <= Index(Limit) /\ Index(end) <= MaxIndex
  BY DEF Shape, Course, Sorting
<1>3. target \in Nat /\ FrameLow <= target /\ Hash(Unbiased(target)) \in Hashes
  BY TargetIs DEF Sorting
<1>4. WindowLow(target) \in Nat /\ FrameLow <= WindowLow(target) BY <1>3, WindowLowIs
<1>5. TreeLow(target) \in Nat /\ \A i \in Nat : i > TreeLow(target) => Owned(target, i)
  BY <1>3, TreeLowIs
<1>6. /\ UnsortedLimit \in Nat /\ FrameLow <= UnsortedLimit
      /\ \A i \in Nat : i > UnsortedLimit => i > TreeLow(target)
  BY <1>1, <1>4, <1>5 DEF UnsortedLimit, Larger
<1>7. \A i \in Nat : i > UnsortedLimit => Owned(top, i) BY <1>2, <1>5, <1>6
<1>8. ASSUME NEW i \in Stacked(role)
      PROVE  /\ i \in Nat /\ i > UnsortedLimit /\ i <= target /\ i - FrameLow < end
             /\ role[i] = "stacked" /\ tree[Slot(i)].larger = above[i]
             /\ Left(i) \in Nat /\ Left(i) < i
             /\ Left(i) >= FrameLow =>
                  /\ role[Left(i)] # "none" /\ above[Left(i)] = i
                  /\ \A side \in Sides : bound[side][Left(i)] = 0
  <2>1. i \in Nat /\ role[i] = "stacked" BY DEF Stacked
  <2>2. i > UnsortedLimit BY DEF Shape, Stacks
  <2>3. i <= target /\ i - FrameLow < end
    <3>1. role[i] # "none" BY <2>1
    <3> QED BY <3>1, <2>1, <1>2, ShapeIs
  <2>4. Owned(top, i) BY <1>7, <2>1, <2>2
  <2>5. /\ tree[Slot(i)].smaller < i /\ tree[Slot(i)].larger = above[i]
        /\ Referred(input, FrameLow, role, bound, above, tree[Slot(i)].smaller, i,
                    HashAt(input, i - FrameLow))
    BY <2>1, <2>4 DEF Shape, Lists
  <2>6. Left(i) \in Nat
    <3>1. tree \in Forest /\ i \in Int BY <2>1 DEF TypeOK, TableOK
    <3> QED BY <3>1, NodeIn DEF Left
  <2> QED BY <2>1, <2>2, <2>3, <2>5, <2>6 DEF Referred, Left
<1>9. Root \in Nat /\ (Root >= FrameLow => role[Root] # "none" /\ above[Root] = 0)
  <2>1. Root \in Nat BY <1>3 DEF TypeOK, TableOK, Root
  <2>2. Referred(input, FrameLow, role, bound, above, Root, 0, Hash(Unbiased(target)))
    BY <1>3 DEF Shape, Heads, Root
  <2> QED BY <2>1, <2>2 DEF Referred
<1> QED BY <1>1, <1>2, <1>3, <1>6, <1>7, <1>8, <1>9 DEF StackFacts

\* The first of a stack is its oldest.
LEMMA StackLeast ==
  ASSUME NEW role, NEW first, Stack(role, first),
         \A i \in Stacked(role) : i \in Nat /\ Left(i) \in Nat /\ Left(i) < i
  PROVE  \A i \in Stacked(role) : first \in Nat /\ first \in Stacked(role) /\ first <= i
<1> SUFFICES ASSUME Stacked(role) # {}
             PROVE  first \in Stacked(role) /\ \A i \in Stacked(role) : first <= i
  OBVIOUS
<1> PICK j \in Stacked(role) : \A i \in Stacked(role) : j <= i
  <2>1. Stacked(role) \subseteq Nat OBVIOUS
  <2> QED BY <2>1, LeastNatural
<1>1. Left(j) \notin Stacked(role) OBVIOUS
<1>2. j = first BY <1>1 DEF Stack
<1> QED BY <1>2

\* The candidate of an unstacking hangs from the one before it.
LEMMA CandidateIs ==
  ASSUME TypeOK, NEW top, NEW role, NEW bound, NEW above, NEW ends,
         Shape(top, role, bound, above, ends), phase = "unstack"
  PROVE  /\ candidate \in Nat /\ previous \in Nat
         /\ candidate >= FrameLow => role[candidate] # "none" /\ above[candidate] = previous
         /\ candidate >= FrameLow => role[candidate] # "stacked"
         /\ previous # Mark
         /\ Stack(role, previous)
         /\ previous = 0 => candidate = Root
         /\ previous # 0 => Left(previous) = candidate /\ Root \in Stacked(role)
<1>1. StackFacts(top, role, above, bound) BY StackFactsHold DEF Sorting
<1>2. /\ Stack(role, previous)
      /\ previous = 0 => candidate = Root
      /\ previous # 0 => Left(previous) = candidate /\ Root \in Stacked(role)
  BY DEF Shape, Stacks, Sorting
<1>3. candidate \in Nat /\ previous \in Nat BY DEF TypeOK, StackOK
<1>4. previous # 0 => previous \in Stacked(role) BY <1>2 DEF Stack
<1>5. ASSUME candidate >= FrameLow
      PROVE  role[candidate] # "none" /\ above[candidate] = previous
  <2>1. CASE previous = 0 BY <1>1, <1>2, <1>5, <2>1 DEF StackFacts
  <2>2. CASE previous # 0 BY <1>1, <1>2, <1>4, <1>5, <2>2 DEF StackFacts
  <2> QED BY <2>1, <2>2
<1>6. previous # Mark
  <2>1. \A i \in Stacked(role) : i > 1 BY <1>1 DEF StackFacts
  <2> QED BY <1>4, <2>1 DEF Mark
<1>7. ASSUME candidate >= FrameLow PROVE role[candidate] # "stacked"
  <2> SUFFICES ASSUME role[candidate] = "stacked" PROVE FALSE OBVIOUS
  <2>1. candidate \in Stacked(role) BY <1>3 DEF Stacked
  <2>2. \A i \in Stacked(role) : i \in Nat /\ Left(i) \in Nat /\ Left(i) < i
    BY <1>1 DEF StackFacts
  <2>3. previous \in Stacked(role) /\ previous <= candidate BY <1>2, <2>1, <2>2, StackLeast
  <2>4. previous # 0 BY <1>1, <2>3 DEF StackFacts
  <2>5. Left(previous) = candidate /\ Left(previous) < previous BY <1>2, <2>2, <2>3, <2>4
  <2> QED BY <1>3, <2>3, <2>5
<1> QED BY <1>2, <1>3, <1>5, <1>6, <1>7

\* What is marked is listed.
LEMMA MarkedIs ==
  ASSUME TypeOK, NEW top, NEW role, NEW bound, NEW above, NEW ends,
         Shape(top, role, bound, above, ends), phase = "unstack", candidate > UnsortedLimit
  PROVE  /\ candidate \in Nat /\ Owned(top, candidate) /\ candidate >= FrameLow
         /\ tree[Slot(candidate)].larger = Mark => role[candidate] = "listed"
         /\ tree[Slot(candidate)].larger # Mark => role[candidate] = "sorted"
<1>1. StackFacts(top, role, above, bound) BY StackFactsHold DEF Sorting
<1>2. candidate \in Nat BY DEF TypeOK, StackOK
<1>3. Owned(top, candidate) /\ candidate >= FrameLow BY <1>1, <1>2 DEF StackFacts
<1>4. role[candidate] # "none" /\ role[candidate] # "stacked" BY <1>3, CandidateIs
<1>5. role[candidate] \in Roles BY <1>2, ShapeIs
<1>6. role[candidate] = "listed" => tree[Slot(candidate)].larger = Mark
  BY <1>2, <1>3 DEF Shape, Lists
<1>7. role[candidate] = "sorted" => tree[Slot(candidate)].larger # Mark
  <2> SUFFICES ASSUME role[candidate] = "sorted" PROVE tree[Slot(candidate)].larger # Mark
    OBVIOUS
  <2>1. Opens = {} BY DEF Opens, Walking
  <2>2. "larger" \in Sides BY DEF Sides
  <2>3. Child(FrameLow, role, bound, candidate, "larger", tree[Slot(candidate)]["larger"])
    BY <1>2, <1>3, <2>1, <2>2 DEF Shape, Trees
  <2>4. tree[Slot(candidate)]["larger"] = tree[Slot(candidate)].larger
    <3>1. tree \in Forest /\ candidate \in Int BY <1>2 DEF TypeOK, TableOK
    <3> QED BY <3>1, NodeIn
  <2> QED BY <2>3, <2>4 DEF Child
<1> QED BY <1>2, <1>3, <1>4, <1>5, <1>6, <1>7 DEF Roles

----------------------------------------------------------------------------
(* Unstacking.                                                             *)

\* A step between two searches of the sorting: only roles and nodes change.
Restacks(top, role, bound, above, r) ==
  /\ phase \in {"unstack", "resort"} /\ phase' \in {"unstack", "resort"}
  /\ UNCHANGED <<kind, input, base, heads, end, next, target>>
  /\ r \in [Nat -> Roles] /\ \A i \in Nat : (r[i] # "none") = (role[i] # "none")
  /\ Nodes(FrameLow, top, end, r, bound) /\ Bounds(input, FrameLow, end, r, bound)
  /\ Trees(tree', {}, FrameLow, top, r, bound)
  /\ Lists(input, tree', FrameLow, top, r, bound, above)
  /\ Stacks(r)'

\* A Restacks step keeps the shape.
LEMMA RestackKeeps ==
  ASSUME TypeOK, TypeOK', NEW top, NEW role, NEW bound, NEW above, NEW ends,
         Shape(top, role, bound, above, ends), NEW r, Restacks(top, role, bound, above, r)
  PROVE  Shape(top, r, bound, above, ends)'
<1> USE DEF Restacks
<1>1. /\ FrameLow' = FrameLow /\ FrameLow \in Nat /\ end' = end /\ target \in Nat
      /\ Index(Limit)' = Index(Limit) /\ Index(end)' = Index(end)
  BY Ranges DEF FrameLow, Index, Limit
<1>2. /\ phase \in Sorting /\ phase' \in Sorting /\ phase' \notin Walking
      /\ phase' \notin {"idle", "ready", "update", "repeats", "insert", "main"}
  BY DEF Sorting, Walking
<1>3. Opens' = {} BY <1>2 DEF Opens
<1>4. /\ top \in Nat /\ FrameLow <= top + 1 /\ FrameLow <= next
      /\ top = target /\ role[target] = "none" /\ kind = "lazy" /\ next = target
      /\ target <= Index(Limit) /\ Index(end) <= MaxIndex
  BY <1>2 DEF Shape, Course, Sorting
<1>5. Course(top, r)'
  <2>1. r[target] = "none" BY <1>1, <1>4
  <2> QED BY <1>1, <1>2, <1>4, <2>1 DEF Course
<1>6. OnlyWhen(r)' BY <1>2, <1>4 DEF OnlyWhen
<1>7. Heads(input, heads, FrameLow, r, bound, above)'
  <2>1. ASSUME NEW h \in Hashes
        PROVE  Referred(input, FrameLow, r, bound, above, heads[h], 0, h)
    <3>1. Referred(input, FrameLow, role, bound, above, heads[h], 0, h) BY DEF Shape, Heads
    <3>2. heads[h] \in Nat BY DEF TypeOK, TableOK
    <3> QED BY <3>1, <3>2 DEF Referred
  <2> QED BY <2>1, <1>1 DEF Heads
<1>8. Trees(tree, Opens, FrameLow, top, r, bound)'
  BY <1>1, <1>3 DEF Trees, Child, Owned, Slot
<1>9. /\ Nodes(FrameLow, top, end, r, bound)' /\ Bounds(input, FrameLow, end, r, bound)'
      /\ Lists(input, tree, FrameLow, top, r, bound, above)'
  BY <1>1 DEF Nodes, Bounds, Lists
<1>10. Walk(top, r, bound, above, ends)' /\ Unlisted(top, r)' BY <1>2 DEF Walk, Unlisted
<1>11. Shaped(r, bound, above, ends) BY DEF Shape, Shaped
<1> QED BY <1>5, <1>6, <1>7, <1>8, <1>9, <1>10, <1>11 DEF Shape

\* The candidate's node goes on the stack, or leaves the list.
Turned(role, c, become) == [role EXCEPT ![c] = become]

\* The candidate gets its new role.
Turns(become) ==
  /\ phase = "unstack" /\ Unsorted(candidate) /\ become \in {"stacked", "sorted"}
  /\ \A k \in 0..(TreeSize - 1) : k # Slot(candidate) => tree'[k] = tree[k]
  /\ become = "stacked" => /\ tree'[Slot(candidate)].smaller = tree[Slot(candidate)].smaller
                           /\ tree'[Slot(candidate)].larger = previous
  /\ become = "sorted" => tree'[Slot(candidate)] = Leaf

\* The candidate that leaves its list.
LEMMA TurnedHolds ==
  ASSUME TypeOK, TypeOK', NEW top, NEW role, NEW bound, NEW above, NEW ends,
         Shape(top, role, bound, above, ends), NEW become, Turns(become)
  PROVE  LET r == Turned(role, candidate, become)
         IN  /\ Nodes(FrameLow, top, end, r, bound) /\ Bounds(input, FrameLow, end, r, bound)
             /\ Trees(tree', {}, FrameLow, top, r, bound)
             /\ Lists(input, tree', FrameLow, top, r, bound, above)
             /\ r \in [Nat -> Roles]
             /\ r[candidate] = become /\ \A i \in Nat : i # candidate => r[i] = role[i]
             /\ role[candidate] = "listed"
             /\ \A i \in Stacked(role) : Left(i)' = Left(i)
<1> USE DEF Turns
<1>1. candidate > UnsortedLimit /\ tree[Slot(candidate)].larger = Mark BY DEF Unsorted
<1>2. /\ candidate \in Nat /\ Owned(top, candidate) /\ candidate >= FrameLow
      /\ role[candidate] = "listed"
  BY <1>1, MarkedIs
<1>3. above[candidate] = previous BY <1>2, CandidateIs
<1>4. FrameLow \in Nat /\ Mark < FrameLow BY Ranges
<1>5. top \in Nat /\ role \in [Nat -> Roles] BY ShapeIs
<1>6. tree \in Forest /\ tree' \in Forest BY DEF TypeOK, TableOK
<1>7. Opens = {} BY DEF Opens, Walking
<1>8. RoleGiven(FrameLow, end, top, input, role, bound, above, candidate, tree, tree', become)
  BY <1>2, <1>3, <1>4, <1>5, <1>6, <1>7 DEF RoleGiven, Shape
<1> PICK c : c = candidate OBVIOUS
<1>9. LET r == [role EXCEPT ![c] = become]
      IN  /\ Nodes(FrameLow, top, end, r, bound) /\ Bounds(input, FrameLow, end, r, bound)
          /\ Trees(tree', {}, FrameLow, top, r, bound)
          /\ Lists(input, tree', FrameLow, top, r, bound, above)
          /\ r \in [Nat -> Roles]
  BY <1>8, RoleHolds
<1>10. Turned(role, c, become)[c] = become
       /\ \A i \in Nat : i # c => Turned(role, c, become)[i] = role[i]
  BY <1>2, <1>5 DEF Turned
<1>11. ASSUME NEW i \in Stacked(role) PROVE Left(i)' = Left(i)
  <2>1. StackFacts(top, role, above, bound) BY StackFactsHold DEF Sorting
  <2>2. i \in Nat /\ i > UnsortedLimit /\ i <= top /\ role[i] = "stacked" /\ Owned(top, i)
    BY <2>1 DEF StackFacts
  <2>3. i # candidate BY <2>2, <1>2
  <2>4. candidate <= top
    <3>1. role[candidate] # "none" BY <1>2
    <3> QED BY <3>1, <1>2, ShapeIs
  <2>5. Slot(i) # Slot(candidate) BY <1>2, <1>5, <2>2, <2>3, <2>4, OwnApart
  <2>6. Slot(i) \in 0..(TreeSize - 1) BY <2>2, SlotIn
  <2> QED BY <2>5, <2>6 DEF Left, Slot
<1> QED BY <1>2, <1>9, <1>10, <1>11 DEF Turned

\* A listed node is put on the stack.
LEMMA UnstackKeeps ==
  ASSUME IInv, Unstack
  PROVE  IInv'
<1>1. PICK top \in Nat, role \in [Nat -> Roles], bound \in [Sides -> [Nat -> Nat]],
           above \in [Nat -> Nat], ends \in [Sides -> Nat] : Shape(top, role, bound, above, ends)
  BY DEF IInv
<1>0. TypeOK BY DEF IInv
<1>2. /\ UNCHANGED <<kind, input, base, next, next3, heads, hash3, cache, begin, end, position,
                     phase, target, tried, longest, found, walk>>
      /\ phase = "unstack" /\ Unsorted(candidate) /\ budget > 1
      /\ tree' = [tree EXCEPT ![Slot(candidate)].larger = previous]
      /\ previous' = candidate /\ candidate' = tree[Slot(candidate)].smaller
      /\ budget' = budget - 1
  BY DEF Unstack, block, result
<1>3. /\ candidate \in Nat /\ Owned(top, candidate) /\ candidate >= FrameLow
      /\ role[candidate] = "listed" /\ candidate > UnsortedLimit
  BY <1>0, <1>1, <1>2, MarkedIs DEF Unsorted
<1>4. /\ candidate \in Nat /\ previous \in Nat /\ above[candidate] = previous
      /\ Stack(role, previous)
      /\ previous = 0 => candidate = Root
      /\ previous # 0 => Left(previous) = candidate /\ Root \in Stacked(role)
  BY <1>0, <1>1, <1>2, <1>3, CandidateIs
<1>5. tree \in Forest /\ budget \in Nat BY <1>0 DEF TypeOK, TableOK, StackOK
<1>6. /\ tree' \in Forest /\ candidate' \in Nat
      /\ \A k \in 0..(TreeSize - 1) : k # Slot(candidate) => tree'[k] = tree[k]
      /\ tree'[Slot(candidate)].smaller = tree[Slot(candidate)].smaller
      /\ tree'[Slot(candidate)].larger = previous
  <2>1. Slot(candidate) \in 0..(TreeSize - 1) BY <1>3, SlotIn
  <2>2. tree[Slot(candidate)] \in Node BY <1>3, <1>5, NodeIn
  <2> QED BY <1>2, <1>4, <1>5, <2>1, <2>2 DEF Forest, Node
<1>7. TypeOK'
  <2>1. TableOK' BY <1>0, <1>2, <1>6 DEF TypeOK, TableOK
  <2>2. StackOK' BY <1>0, <1>2, <1>3, <1>5, <1>6 DEF TypeOK, StackOK
  <2>3. position \in Nat BY <1>0 DEF TypeOK, BlockOK
  <2>4. BlockOK' /\ ResultOK' /\ WalkOK'
    BY <1>0, <2>3, <1>2, TypesStay DEF block, result
  <2> QED BY <2>1, <2>2, <2>4 DEF TypeOK
<1> DEFINE r == Turned(role, candidate, "stacked")
<1>8. /\ Nodes(FrameLow, top, end, r, bound) /\ Bounds(input, FrameLow, end, r, bound)
      /\ Trees(tree', {}, FrameLow, top, r, bound)
      /\ Lists(input, tree', FrameLow, top, r, bound, above)
      /\ r \in [Nat -> Roles]
      /\ r[candidate] = "stacked" /\ \A i \in Nat : i # candidate => r[i] = role[i]
      /\ \A i \in Stacked(role) : Left(i)' = Left(i)
  <2>1. Turns("stacked") BY <1>2, <1>6 DEF Turns
  <2> QED BY <2>1, <1>0, <1>1, <1>7, TurnedHolds
<1> PICK q : q = r OBVIOUS
<1> PICK c : c = candidate OBVIOUS
<1> HIDE DEF r
<1>9. Left(c)' = Left(c) /\ candidate' = Left(c) BY <1>2, <1>6 DEF Left, Slot
<1>10. Stacked(q) = Stacked(role) \cup {c} BY <1>3, <1>8 DEF Stacked
<1>11. Stacks(q)'
  <2>1. UnsortedLimit' = UnsortedLimit /\ Root' = Root
    BY <1>2 DEF UnsortedLimit, TreeLow, WindowLow, FrameLow, Root, Hash, Unbiased
  <2>2. \A i \in Stacked(q) : i > UnsortedLimit
    BY <1>1, <1>2, <1>3, <1>10 DEF Shape, Stacks, Sorting
  <2>3. Stack(q, c)'
    <3>1. c # 0
      <4>1. FrameLow \in Nat /\ Mark < FrameLow BY <1>0, Ranges
      <4> QED BY <1>3, <4>1 DEF Mark
    <3>2. ASSUME NEW i \in Stacked(q), i # c PROVE Left(i)' \in Stacked(q)
      <4>1. i \in Stacked(role) /\ Left(i)' = Left(i) BY <1>8, <1>10, <3>2
      <4>2. i = previous \/ Left(i) \in Stacked(role) BY <1>4, <4>1 DEF Stack
      <4>3. i = previous => Left(i) = c
        <5>1. i # 0
          <6>1. StackFacts(top, role, above, bound) BY <1>0, <1>1, <1>2, StackFactsHold DEF Sorting
          <6> QED BY <4>1, <6>1 DEF StackFacts
        <5> QED BY <1>4, <5>1
      <4> QED BY <4>1, <4>2, <4>3, <1>10
    <3> QED BY <3>1, <3>2, <1>10 DEF Stack
  <2>4. Root \in Stacked(q)
    <3>1. previous = 0 => Root = c BY <1>4
    <3>2. previous # 0 => Root \in Stacked(role) BY <1>4
    <3> QED BY <3>1, <3>2, <1>10
  <2>5. previous' = c /\ Left(c)' = candidate' /\ phase' = "unstack" BY <1>2, <1>9
  <2>6. c # 0
    <3>1. FrameLow \in Nat /\ Mark < FrameLow BY <1>0, Ranges
    <3> QED BY <1>3, <3>1 DEF Mark
  <2>7. Stack(q, previous)' BY <2>3, <2>5 DEF Stack
  <2>8. (Left(previous) = candidate)' BY <2>5 DEF Left
  <2> QED BY <2>1, <2>2, <2>4, <2>5, <2>6, <2>7, <2>8 DEF Stacks
<1>12. Restacks(top, role, bound, above, q)
  BY <1>2, <1>3, <1>8, <1>11 DEF Restacks
<1>13. Shape(top, q, bound, above, ends)' BY <1>0, <1>1, <1>7, <1>12, RestackKeeps
<1>14. CacheTrue' BY <1>2, CacheStays DEF IInv
<1>15. MatchesAreReal' BY <1>2, FoundKept DEF IInv
<1> QED BY <1>2, <1>7, <1>8, <1>13, <1>14, <1>15, InvariantBy

\* The list is at its end, or is cut, and the sorting begins.
LEMMA UnstackedKeeps ==
  ASSUME IInv, Unstacked
  PROVE  IInv'
<1>1. PICK top \in Nat, role \in [Nat -> Roles], bound \in [Sides -> [Nat -> Nat]],
           above \in [Nat -> Nat], ends \in [Sides -> Nat] : Shape(top, role, bound, above, ends)
  BY DEF IInv
<1>0. TypeOK BY DEF IInv
<1>2. /\ UNCHANGED <<kind, input, base, next, next3, heads, hash3, cache, begin, end, position,
                     target, previous, budget, tried, longest, found, walk>>
      /\ phase = "unstack" /\ phase' = "resort" /\ tree' = ListCut /\ candidate' = previous
  BY DEF Unstacked, block, result
<1>3. /\ candidate \in Nat /\ previous \in Nat
      /\ Stack(role, previous)
      /\ previous = 0 => candidate = Root
      /\ previous # 0 => Left(previous) = candidate /\ Root \in Stacked(role)
  BY <1>0, <1>1, <1>2, CandidateIs
<1>4. StackFacts(top, role, above, bound) BY <1>0, <1>1, <1>2, StackFactsHold DEF Sorting
<1>5. tree \in Forest BY <1>0 DEF TypeOK, TableOK
<1>6. tree' \in Forest
  <2>1. Leaf \in Node BY DEF Leaf, Node
  <2> QED BY <2>1, <1>2, <1>5 DEF ListCut, Forest
<1>7. TypeOK'
  <2>1. TableOK' BY <1>0, <1>2, <1>6 DEF TypeOK, TableOK
  <2>2. StackOK' BY <1>0, <1>2, <1>3 DEF TypeOK, StackOK, Phases, Sorting
  <2>3. position \in Nat /\ phase' \notin Walking BY <1>0, <1>2 DEF TypeOK, BlockOK, Walking
  <2>4. BlockOK' /\ ResultOK' /\ WalkOK'
    BY <1>0, <2>3, <1>2, TypesStay DEF block, result
  <2> QED BY <2>1, <2>2, <2>4 DEF TypeOK
<1>8. PICK q \in [Nat -> Roles] :
        /\ Nodes(FrameLow, top, end, q, bound) /\ Bounds(input, FrameLow, end, q, bound)
        /\ Trees(tree', {}, FrameLow, top, q, bound)
        /\ Lists(input, tree', FrameLow, top, q, bound, above)
        /\ \A i \in Nat : (q[i] # "none") = (role[i] # "none")
        /\ Stacked(q) = Stacked(role) /\ Given(q, candidate)
        /\ \A i \in Stacked(role) : Left(i)' = Left(i)
  <2>1. CASE Unsorted(candidate)
    <3>1. tree' = [tree EXCEPT ![Slot(candidate)] = Leaf] BY <1>2, <2>1 DEF ListCut
    <3>2. Slot(candidate) \in 0..(TreeSize - 1) BY <1>3, SlotIn
    <3>3. Turns("sorted") BY <1>2, <1>5, <2>1, <3>1, <3>2 DEF Turns, Forest
    <3> DEFINE r == Turned(role, candidate, "sorted")
    <3>4. /\ Nodes(FrameLow, top, end, r, bound) /\ Bounds(input, FrameLow, end, r, bound)
          /\ Trees(tree', {}, FrameLow, top, r, bound)
          /\ Lists(input, tree', FrameLow, top, r, bound, above)
          /\ r \in [Nat -> Roles]
          /\ r[candidate] = "sorted" /\ \A i \in Nat : i # candidate => r[i] = role[i]
          /\ role[candidate] = "listed"
          /\ \A i \in Stacked(role) : Left(i)' = Left(i)
      BY <1>0, <1>1, <1>7, <3>3, TurnedHolds
    <3> HIDE DEF r
    <3>5. Stacked(r) = Stacked(role) /\ Given(r, candidate) BY <3>4 DEF Stacked, Given
    <3>6. \A i \in Nat : (r[i] # "none") = (role[i] # "none") BY <3>4
    <3> QED BY <3>4, <3>5, <3>6
  <2>2. CASE ~Unsorted(candidate)
    <3>1. tree' = tree BY <1>2, <2>2 DEF ListCut
    <3>2. Given(role, candidate) BY <1>0, <1>1, <1>2, <2>2, MarkedIs DEF Given, Unsorted
    <3>3. Opens = {} BY <1>2 DEF Opens, Walking
    <3>4. \A i \in Stacked(role) : Left(i)' = Left(i) BY <3>1 DEF Left, Slot
    <3> QED BY <1>1, <3>1, <3>2, <3>3, <3>4 DEF Shape
  <2> QED BY <2>1, <2>2
<1>9. Stacks(q)'
  <2>1. UnsortedLimit' = UnsortedLimit /\ Root' = Root
    BY <1>2 DEF UnsortedLimit, TreeLow, WindowLow, FrameLow, Root, Hash, Unbiased
  <2>2. \A i \in Stacked(q) : i > UnsortedLimit BY <1>4, <1>8 DEF StackFacts
  <2>3. Stack(q, previous)' BY <1>2, <1>3, <1>8 DEF Stack
  <2>4. Given(q, candidate) BY <1>8
  <2>5. previous # 0 => previous \in Stacked(role) BY <1>3 DEF Stack
  <2>6. previous # 0 => Left(previous)' = candidate BY <1>2, <1>3, <1>8, <2>5
  <2>7. previous = 0 => Given(q, Root)' BY <1>3, <2>1, <2>4 DEF Given
  <2>8. previous # 0 => Given(q, Left(previous))' BY <2>1, <2>4, <2>6 DEF Given
  <2> PICK p : p = previous OBVIOUS
  <2>9. candidate' = p /\ previous' = p BY <1>2
  <2>10. Stack(q, candidate)' BY <2>3, <2>9 DEF Stack
  <2>11. p # 0 => Given(q, Left(candidate))'
    BY <2>8, <2>9 DEF Left, Given
  <2> QED BY <1>2, <1>3, <1>8, <2>1, <2>2, <2>7, <2>9, <2>10, <2>11 DEF Stacks, Sorting
<1>10. Restacks(top, role, bound, above, q)
  BY <1>2, <1>8, <1>9 DEF Restacks
<1>13. Shape(top, q, bound, above, ends)' BY <1>0, <1>1, <1>7, <1>10, RestackKeeps
<1>14. CacheTrue' BY <1>2, CacheStays DEF IInv
<1>15. MatchesAreReal' BY <1>2, FoundKept DEF IInv
<1> QED BY <1>2, <1>7, <1>8, <1>13, <1>14, <1>15, InvariantBy

\* The oldest of the stack is sorted into the tree.
LEMMA SortKeeps ==
  ASSUME IInv, Sort
  PROVE  IInv'
<1>1. PICK top \in Nat, role \in [Nat -> Roles], bound \in [Sides -> [Nat -> Nat]],
           above \in [Nat -> Nat], ends \in [Sides -> Nat] : Shape(top, role, bound, above, ends)
  BY DEF IInv
<1>0. TypeOK BY DEF IInv
<1>2. /\ UNCHANGED <<kind, input, base, next, next3, heads, hash3, tree, cache, begin, end,
                     position, target, candidate, budget, tried, longest, found>>
      /\ phase = "resort" /\ phase' = "sort" /\ candidate # 0
      /\ previous' = tree[Slot(candidate)].larger
      /\ walk' = Path(candidate, tree[Slot(candidate)].smaller, budget, WindowLow(target),
                      UnsortedLimit, 0)
  BY DEF Sort, block, table, result
<1>3. StackFacts(top, role, above, bound) BY <1>0, <1>1, <1>2, StackFactsHold DEF Sorting
<1> PICK x : x = candidate OBVIOUS
<1>4. /\ Stack(role, x) /\ Given(role, Left(x)) /\ Root \in Stacked(role) /\ x # 0
  BY <1>1, <1>2 DEF Shape, Stacks, Sorting
<1>5. x \in Stacked(role) BY <1>4 DEF Stack
<1> PICK m : m = Left(x) OBVIOUS
<1>6. /\ x \in Nat /\ x > UnsortedLimit /\ x <= target /\ x - FrameLow < end /\ role[x] = "stacked"
      /\ tree[Slot(x)].larger = above[x] /\ m \in Nat /\ m < x /\ Owned(top, x)
      /\ m >= FrameLow => /\ role[m] # "none" /\ above[m] = x
                          /\ \A side \in Sides : bound[side][m] = 0
      /\ top = target /\ kind = "lazy" /\ role[target] = "none" /\ target \in Nat /\ next = target
      /\ target <= Index(Limit) /\ Index(end) <= MaxIndex
      /\ FrameLow <= target /\ UnsortedLimit \in Nat /\ FrameLow <= UnsortedLimit
      /\ FrameLow \in Nat /\ FrameLow >= 2
  BY <1>3, <1>5 DEF StackFacts
<1>7. previous' = above[x] /\ m = tree[Slot(candidate)].smaller BY <1>2, <1>6 DEF Left
<1>8. WindowLow(target) \in Nat /\ FrameLow <= WindowLow(target) BY <1>0, <1>6, WindowLowIs
<1>9. UnsortedLimit + TreeSize > target
  <2>1. TreeLow(target) \in Nat /\ TreeLow(target) + TreeSize > target BY <1>6, TreeLowIs
  <2> QED BY <2>1, <1>6, <1>8, TreeSizeIs DEF UnsortedLimit, Larger
<1>10. budget \in Nat /\ above[x] \in Nat BY <1>0, <1>6 DEF TypeOK, StackOK
<1>11. Fresh(walk', x, m, WindowLow(target), UnsortedLimit)
  BY <1>2, <1>6, <1>7, <1>8, <1>10, PathIn
<1>12. /\ walk'.node = x /\ walk'.match = m /\ walk'.low = WindowLow(target)
       /\ walk'.treeLow = UnsortedLimit /\ walk' \in Way
  BY <1>11 DEF Fresh
<1>13. TypeOK'
  <2>1. TableOK' BY <1>0, <1>2 DEF TypeOK, TableOK
  <2>2. StackOK' BY <1>0, <1>2, <1>7, <1>10 DEF TypeOK, StackOK, Phases, Sorting
  <2>3. position \in Nat BY <1>0 DEF TypeOK, BlockOK
  <2>4. BlockOK' /\ ResultOK' BY <1>0, <2>3, <1>2, TypesStay DEF block, result
  <2>5. WalkOK' BY <1>12 DEF WalkOK
  <2> QED BY <2>1, <2>2, <2>4, <2>5 DEF TypeOK
<1>14. \A i \in Stacked(role) : x <= i
  <2>1. \A i \in Stacked(role) : i \in Nat /\ Left(i) \in Nat /\ Left(i) < i
    BY <1>3 DEF StackFacts
  <2> QED BY <2>1, <1>4, StackLeast
\* What the sorted one was listed by is the next to be sorted.
<1> DEFINE r == Rooted(role, x)
<1>15. /\ r \in [Nat -> Roles] /\ r[x] = "sorted" /\ \A i \in Nat : i # x => r[i] = role[i]
  BY <1>6 DEF Rooted, Roles
<1> HIDE DEF r
<1>16. Stacked(r) = Stacked(role) \ {x} BY <1>15 DEF Stacked
<1>17. ASSUME NEW i \in Stacked(r), Left(i) \notin Stacked(r)
       PROVE  i = above[x] /\ Left(i) = x
  <2>1. i \in Stacked(role) /\ i # x BY <1>16
  <2>2. Left(i) \in Stacked(role) BY <1>4, <2>1 DEF Stack
  <2>3. Left(i) = x BY <1>16, <1>17, <2>2
  <2>4. Left(i) >= FrameLow => above[Left(i)] = i BY <1>3, <2>1 DEF StackFacts
  <2>5. x >= FrameLow BY <1>6
  <2> QED BY <2>3, <2>4, <2>5
<1>18. ASSUME Stacked(r) # {} PROVE above[x] \in Stacked(r) /\ Left(above[x]) = x
  <2>1. PICK j \in Stacked(r) : \A i \in Stacked(r) : j <= i
    <3>1. Stacked(r) \subseteq Nat BY DEF Stacked
    <3> QED BY <3>1, <1>18, LeastNatural
  <2>2. Left(j) \in Nat /\ Left(j) < j BY <1>3, <1>16, <2>1 DEF StackFacts
  <2>3. Left(j) \notin Stacked(r)
    <3>1. j \in Nat BY <2>1 DEF Stacked
    <3> QED BY <3>1, <2>1, <2>2
  <2> QED BY <1>17, <2>1, <2>3
<1>19. ASSUME Stacked(r) = {} PROVE Root = x /\ above[x] = 0
  <2>1. Root = x BY <1>4, <1>16, <1>19
  <2> QED BY <2>1, <1>3, <1>6 DEF StackFacts
<1>20. Stacks(r)'
  <2>1. UnsortedLimit' = UnsortedLimit /\ Root' = Root /\ \A i : Left(i)' = Left(i)
    BY <1>2 DEF UnsortedLimit, TreeLow, WindowLow, FrameLow, Root, Hash, Unbiased, Left, Slot
  <2>2. \A i \in Stacked(r) : i > UnsortedLimit BY <1>3, <1>16 DEF StackFacts
  <2> PICK p : p = above[x] OBVIOUS
  <2>3. previous' = p /\ candidate' = x BY <1>2, <1>7
  <2>4. p # 0 => p \in Stacked(r) /\ Left(p) = x BY <1>18, <1>19
  <2>5. p = 0 => Stacked(r) = {}
    <3>1. \A i \in Stacked(r) : i > 1 BY <2>2, <1>6 DEF Stacked
    <3> QED BY <3>1, <1>18
  <2>6. \A i \in Stacked(r) : i = p \/ Left(i) \in Stacked(r) BY <1>17
  <2>7. Stack(r, p)' BY <2>1, <2>4, <2>5, <2>6 DEF Stack
  <2>8. Stack(r, previous)' BY <2>3, <2>7 DEF Stack
  <2>9. previous' # 0 => Left(previous)' = candidate' BY <2>1, <2>3, <2>4 DEF Left
  <2>10. Root \in Stacked(r) \cup {x} BY <1>4, <1>16
  <2> QED BY <1>2, <1>12, <2>1, <2>2, <2>3, <2>8, <2>9, <2>10 DEF Stacks
<1>21. Begins(x, m, top, role)
  <2>1. m > UnsortedLimit => role[m] = "sorted" BY <1>4 DEF Given
  <2>2. FrameLow <= WindowLow(target) + 1 BY <1>6, <1>8
  <2>3. Lost(top, WindowLow(target), UnsortedLimit)
    <3> SUFFICES ASSUME NEW i \in Nat, WindowLow(target) < i, i <= UnsortedLimit,
                        i # target, Owned(target, i)
                 PROVE  FALSE
      BY <1>6 DEF Lost
    <3>1. Lost(target, WindowLow(target), TreeLow(target)) BY <1>6, <1>8, TreeLowLost
    <3>2. TreeLow(target) \in Nat BY <1>6, TreeLowIs
    <3>3. i <= TreeLow(target) BY <1>8, <3>2 DEF UnsortedLimit, Larger
    <3> QED BY <3>1, <3>3 DEF Lost
  <2> QED BY <1>2, <1>6, <1>8, <1>9, <1>11, <1>12, <2>1, <2>2, <2>3 DEF Begins, Fresh
<1>22. Replaced(x, m, top, role, bound)
  <2> SUFFICES ASSUME m >= FrameLow
               PROVE  /\ role[m] # "none" /\ \A side \in Sides : bound[side][m] = 0
                      /\ \A h \in Hashes : heads'[h] # m
                      /\ \A i \in Nat : i # x /\ role[i] \in {"listed", "stacked"} /\ Owned(top, i) =>
                           Left(i)' # m
    BY <1>6 DEF Replaced
  <2>1. above[m] = x BY <1>6
  <2>2. ASSUME NEW h \in Hashes PROVE heads'[h] # m
    <3> SUFFICES ASSUME heads[h] = m PROVE FALSE BY <1>2
    <3>1. above[heads[h]] = 0 BY <1>0, <1>1, HeadUnlisted
    <3> QED BY <3>1, <2>1, <1>4
  <2>3. ASSUME NEW i \in Nat, i # x, role[i] \in {"listed", "stacked"}, Owned(top, i)
        PROVE  Left(i)' # m
    <3> SUFFICES ASSUME Left(i) = m PROVE FALSE BY <1>2 DEF Left, Slot
    <3>1. Referred(input, FrameLow, role, bound, above, tree[Slot(i)].smaller, i,
                   HashAt(input, i - FrameLow))
      BY <1>1, <2>3 DEF Shape, Lists
    <3>2. above[m] = i BY <3>1 DEF Referred, Left
    <3> QED BY <3>2, <2>1, <2>3
  <2> QED BY <1>6, <2>2, <2>3
<1>23. Course(top, r)'
  <2>1. FrameLow' = FrameLow /\ Index(Limit)' = Index(Limit) /\ Index(end)' = Index(end)
    BY <1>2 DEF FrameLow, Index, Limit
  <2>2. r[target] = "none" BY <1>6, <1>15
  <2>3. FrameLow <= top + 1 BY <1>6
  <2> QED BY <1>2, <1>6, <2>1, <2>2, <2>3 DEF Course, Sorting
<1>24. OnlyWhen(r)' BY <1>2, <1>6 DEF OnlyWhen, Sorting
<1> DEFINE e == [side \in Sides |-> x]
<1>25. Shape(top, Rooted(role, x), Unbound(bound, x), above, e)'
  <2>1. phase \notin Walking /\ phase' \in Walking BY <1>2 DEF Walking
  <2>3. Course(top, Rooted(role, x))' /\ OnlyWhen(Rooted(role, x))' /\ Stacks(Rooted(role, x))'
    BY <1>20, <1>23, <1>24 DEF r
  <2>4. top <= top /\ FrameLow <= x /\ x <= top /\ top \in Nat BY <1>6
  <2>5. role[x] # "sorted" BY <1>6
  <2>6. /\ UNCHANGED <<kind, input, base, end, target>>
        /\ \A k \in 0..(TreeSize - 1) : k # Slot(x) => tree'[k] = tree[k]
        /\ \A h \in Hashes : heads'[h] = heads[h]
    BY <1>2
  <2>2. StartsAt(x, m, top, top, role, bound, above, above)
    BY <1>6, <1>21, <1>22, <2>1, <2>3, <2>4, <2>5, <2>6 DEF StartsAt
  <2> QED BY <2>2, <1>0, <1>1, <1>13, RootStep
<1>26. /\ Rooted(role, x) \in [Nat -> Roles] /\ Unbound(bound, x) \in [Sides -> [Nat -> Nat]]
       /\ e \in [Sides -> Nat]
  BY <1>6 DEF Rooted, Unbound, Roles
<1>27. CacheTrue' BY <1>2, CacheStays DEF IInv
<1>28. MatchesAreReal' BY <1>2, FoundKept DEF IInv
<1> HIDE DEF e
<1> QED BY <1>2, <1>13, <1>25, <1>26, <1>27, <1>28, InvariantBy

----------------------------------------------------------------------------
(* A search.                                                               *)

\* The index of the last position of its bucket in a..b, or what was before.
Last(h, a, b, v, old) ==
  \/ /\ v \in a..b /\ HashAt(input, v - FrameLow) = h
     /\ \A j \in a..b : HashAt(input, j - FrameLow) = h => j <= v
  \/ v = old /\ \A j \in a..b : HashAt(input, j - FrameLow) # h

\* NewestOf computes Last.
LEMMA LastIs ==
  ASSUME TypeOK, NEW a \in Nat, NEW b \in Int, FrameLow <= a, NEW S, NEW h, NEW v, NEW old,
         \A q : q \in S => q \in (a - FrameLow)..(b - FrameLow),
         \A q \in (a - FrameLow)..(b - FrameLow) : Hash(q) = h => q \in S,
         v = IF \E q \in S : Hash(q) = h THEN Index(NewestOf(h, S)) ELSE old
  PROVE  Last(h, a, b, v, old)
<1>1. FrameLow \in Nat /\ \A i \in Int : Index(i) = FrameLow + i BY Ranges
<1>2. \A p \in Nat : Hash(p) = HashAt(input, p) BY DEF Hash, HashAt
<1>3. CASE \E q \in S : Hash(q) = h
  <2>1. PICK n : n = NewestOf(h, S) OBVIOUS
  <2>2. n \in S /\ Hash(n) = h /\ \A r \in S : Hash(r) = h => r <= n
    <3> PICK c \in Int, d \in Int : c = a - FrameLow /\ d = b - FrameLow BY <1>1
    <3>1. S \subseteq c..d OBVIOUS
    <3>2. \E q \in S : Hash(q) = h BY <1>3
    <3>3. /\ NewestOf(h, S) \in S /\ Hash(NewestOf(h, S)) = h
          /\ \A r \in S : Hash(r) = h => r <= NewestOf(h, S)
      BY <3>1, <3>2, NewestIs
    <3> QED BY <3>3, <2>1
  <2>3. v = FrameLow + n BY <1>1, <1>3, <2>1, <2>2
  <2>4. n \in (a - FrameLow)..(b - FrameLow) /\ n \in Nat BY <1>1, <2>2
  <2>5. v \in a..b /\ v - FrameLow = n BY <1>1, <2>3, <2>4
  <2>6. ASSUME NEW j \in a..b, HashAt(input, j - FrameLow) = h PROVE j <= v
    <3>1. j - FrameLow \in (a - FrameLow)..(b - FrameLow) /\ j - FrameLow \in Nat
      BY <1>1, <2>6
    <3>2. Hash(j - FrameLow) = h BY <1>2, <2>6, <3>1
    <3>3. j - FrameLow <= n BY <2>2, <3>1, <3>2
    <3> QED BY <1>1, <2>3, <2>4, <3>3
  <2> QED BY <1>2, <2>2, <2>4, <2>5, <2>6 DEF Last
<1>4. CASE ~ \E q \in S : Hash(q) = h
  <2>1. ASSUME NEW j \in a..b PROVE HashAt(input, j - FrameLow) # h
    <3>1. j - FrameLow \in (a - FrameLow)..(b - FrameLow) /\ j - FrameLow \in Nat
      BY <1>1, <2>1
    <3>2. Hash(j - FrameLow) # h BY <1>4, <3>1
    <3> QED BY <1>2, <3>1, <3>2
  <2> QED BY <1>4, <2>1 DEF Last
<1> QED BY <1>3, <1>4

\* What a search lists, and what each of them lists.
LEMMA ListedIs ==
  ASSUME TypeOK, FrameLow <= next, NEW p \in Nat, p + HashBytes <= Len(input)
  PROVE  /\ ListedSince(p) = (next - FrameLow)..(p - 1)
         /\ \A h \in Hashes : Last(h, next, Index(p) - 1, ListedHeads(ListedSince(p))[h], heads[h])
         /\ \A q \in (next - FrameLow)..p :
              Last(HashAt(input, q), next, Index(q) - 1, HeadBefore(q), heads[HashAt(input, q)])
<1>1. FrameLow \in Nat /\ next \in Nat /\ \A i \in Int : Index(i) = FrameLow + i /\ Unbiased(i) = i - FrameLow
  BY Ranges
<1>2. \A q : ListedSince(q) = (next - FrameLow)..(q - 1)
  <2>1. Unbiased(next) = next - FrameLow BY <1>1
  <2>2. \A A : {q \in A : TRUE} = A OBVIOUS
  <2> QED BY <2>1, <2>2 DEF ListedSince
<1>3. ASSUME NEW h \in Hashes
      PROVE  Last(h, next, Index(p) - 1, ListedHeads(ListedSince(p))[h], heads[h])
  <2> DEFINE S == ListedSince(p)
             v == ListedHeads(S)[h]
  <2>1. v = IF \E q \in S : Hash(q) = h THEN Index(NewestOf(h, S)) ELSE heads[h]
    BY DEF ListedHeads
  <2>2. (Index(p) - 1) - FrameLow = p - 1 /\ Index(p) - 1 \in Int
    <3>1. Index(p) = FrameLow + p BY <1>1
    <3> QED BY <3>1, <1>1
  <2>3. S = (next - FrameLow)..((Index(p) - 1) - FrameLow) BY <1>2, <2>2
  <2> HIDE DEF S, v
  <2>4. Last(h, next, Index(p) - 1, v, heads[h]) BY <1>1, <2>1, <2>2, <2>3, LastIs
  <2> QED BY <2>4 DEF S, v
<1>4. ASSUME NEW q \in (next - FrameLow)..p
      PROVE  Last(HashAt(input, q), next, Index(q) - 1, HeadBefore(q), heads[HashAt(input, q)])
  <2> DEFINE h == Hash(q)
             S == {r \in ListedSince(q) : Hash(r) = h}
             v == HeadBefore(q)
  <2>1. v = IF S = {} THEN heads[h] ELSE Index(NewestOf(h, S)) BY DEF HeadBefore
  <2>2. v = IF \E r \in S : Hash(r) = h THEN Index(NewestOf(h, S)) ELSE heads[h] BY <2>1
  <2>3. q \in Nat BY <1>1
  <2>4. (Index(q) - 1) - FrameLow = q - 1 /\ Index(q) - 1 \in Int
    <3>1. Index(q) = FrameLow + q BY <1>1, <2>3
    <3> QED BY <3>1, <1>1, <2>3
  <2>5. h = HashAt(input, q) BY DEF Hash, HashAt
  <2>6. \A r : r \in S => r \in (next - FrameLow)..((Index(q) - 1) - FrameLow) BY <1>2, <2>4
  <2>7. \A r \in (next - FrameLow)..((Index(q) - 1) - FrameLow) : Hash(r) = h => r \in S
    BY <1>2, <2>4
  <2> HIDE DEF S, v, h
  <2>8. Last(h, next, Index(q) - 1, v, heads[h]) BY <1>1, <2>2, <2>4, <2>6, <2>7, LastIs
  <2> QED BY <2>5, <2>8 DEF v
<1> QED BY <1>2, <1>3, <1>4

\* A slot has the last position that was listed there, or what it had before.
LEMMA ListedTreeIs ==
  ASSUME NEW a \in Int, NEW b \in Int, NEW k \in 0..(TreeSize - 1), TypeOK
  PROVE  \/ \E q \in a..b : /\ Slot(Index(q)) = k
                            /\ ListedTree(a..b)[k] = [smaller |-> HeadBefore(q), larger |-> Mark]
                            /\ \A r \in a..b : Slot(Index(r)) = k => r <= q
         \/ ListedTree(a..b)[k] = tree[k] /\ \A r \in a..b : Slot(Index(r)) # k
<1> DEFINE here == {q \in a..b : Slot(Index(q)) = k}
           newest == CHOOSE q \in here : \A r \in here : r <= q
<1>1. DOMAIN tree = 0..(TreeSize - 1) BY DEF TypeOK, TableOK, Forest
<1>2. ListedTree(a..b)[k] = IF here = {} THEN tree[k]
                            ELSE [smaller |-> HeadBefore(newest), larger |-> Mark]
  BY <1>1 DEF ListedTree
<1>3. CASE here = {} BY <1>2, <1>3
<1>4. CASE here # {}
  <2>1. here \subseteq a..b OBVIOUS
  <2> HIDE DEF here
  <2>2. \E q \in here : \A r \in here : r <= q BY <1>4, <2>1, Greatest
  <2>3. newest \in here /\ \A r \in here : r <= newest BY <2>2
  <2> HIDE DEF newest
  <2> QED BY <1>2, <1>4, <2>3 DEF here
<1> QED BY <1>3, <1>4

\* The tables after the listing have their types.
LEMMA ListedTypes ==
  ASSUME TypeOK, FrameLow <= next, NEW p \in Nat, p + HashBytes <= Len(input)
  PROVE  /\ ListedTree(ListedSince(p)) \in Forest
         /\ ListedHeads(ListedSince(p)) \in [Hashes -> Nat]
         /\ \A q \in (next - FrameLow)..p : HeadBefore(q) \in Nat /\ HashAt(input, q) \in Hashes
<1>1. /\ FrameLow \in Nat /\ next \in Nat /\ \A i \in Int : Index(i) = FrameLow + i
      /\ input \in Inputs /\ Len(input) \in Nat /\ HashBytes \in Nat
  BY Ranges
<1>2. heads \in [Hashes -> Nat] /\ tree \in Forest BY DEF TypeOK, TableOK
<1>3. /\ ListedSince(p) = (next - FrameLow)..(p - 1)
      /\ \A h \in Hashes : Last(h, next, Index(p) - 1, ListedHeads(ListedSince(p))[h], heads[h])
      /\ \A q \in (next - FrameLow)..p :
           Last(HashAt(input, q), next, Index(q) - 1, HeadBefore(q), heads[HashAt(input, q)])
  BY ListedIs
<1>4. ASSUME NEW q \in (next - FrameLow)..p
      PROVE  HeadBefore(q) \in Nat /\ HashAt(input, q) \in Hashes
  <2>1. q \in Nat /\ q + HashBytes <= Len(input)
    <3>1. q \in Int /\ q >= next - FrameLow /\ q <= p BY <1>1
    <3>2. FrameLow \in Nat /\ next \in Nat /\ Len(input) \in Nat /\ HashBytes \in Nat BY <1>1
    <3> QED BY <3>1, <3>2
  <2>2. HashAt(input, q) \in Hashes BY <1>1, <2>1, HashIn
  <2>3. \A v \in next..(Index(q) - 1) : v \in Nat BY <1>1, <2>1
  <2> QED BY <1>2, <1>3, <2>2, <2>3 DEF Last
<1>5. ListedHeads(ListedSince(p)) \in [Hashes -> Nat]
  <2>1. ASSUME NEW h \in Hashes PROVE ListedHeads(ListedSince(p))[h] \in Nat
    <3>1. \A v \in next..(Index(p) - 1) : v \in Nat BY <1>1
    <3> QED BY <3>1, <1>2, <1>3 DEF Last
  <2>2. \A f : ListedHeads(f) = [h \in Hashes |-> ListedHeads(f)[h]] BY DEF ListedHeads
  <2> QED BY <2>1, <2>2
<1>6. ListedTree(ListedSince(p)) \in Forest
  <2> PICK a \in Int, b \in Int : a = next - FrameLow /\ b = p - 1 BY <1>1
  <2>0. \A f : ListedTree(f) = [k \in 0..(TreeSize - 1) |-> ListedTree(f)[k]]
    <3>1. DOMAIN tree = 0..(TreeSize - 1) BY <1>2 DEF Forest
    <3> QED BY <3>1 DEF ListedTree
  <2>1. ASSUME NEW k \in 0..(TreeSize - 1) PROVE ListedTree(a..b)[k] \in Node
    <3>1. CASE ListedTree(a..b)[k] = tree[k] BY <1>2, <3>1 DEF Forest
    <3>2. CASE \E q \in a..b : ListedTree(a..b)[k] = [smaller |-> HeadBefore(q), larger |-> Mark]
      <4>1. PICK q \in a..b : ListedTree(a..b)[k] = [smaller |-> HeadBefore(q), larger |-> Mark]
        BY <3>2
      <4>2. HeadBefore(q) \in Nat BY <1>4
      <4> QED BY <4>1, <4>2 DEF Node, Mark
    <3> QED BY <3>1, <3>2, ListedTreeIs
  <2>2. ListedTree(a..b) \in Forest BY <2>0, <2>1 DEF Forest
  <2> QED BY <1>3, <2>2
<1> QED BY <1>4, <1>5, <1>6

\* All positions from the last search on are listed.
LEMMA SearchLists ==
  ASSUME TypeOK, TypeOK', NEW top, NEW role, NEW bound, NEW above, NEW ends,
         Shape(top, role, bound, above, ends), phase = "ready",
         NEW p \in Nat, p <= Limit, next <= Index(p),
         heads' = ListedHeads(ListedSince(p)), tree' = ListedTree(ListedSince(p))
  PROVE  \E r \in [Nat -> Roles], b \in [Sides -> [Nat -> Nat]], a \in [Nat -> Nat] :
           /\ Nodes(FrameLow, Index(p), end, r, b) /\ Bounds(input, FrameLow, end, r, b)
           /\ Trees(tree', {}, FrameLow, Index(p), r, b)
           /\ Heads(input, heads', FrameLow, r, b, a)
           /\ Lists(input, tree', FrameLow, Index(p), r, b, a)
           /\ \A i \in Nat : r[i] # "stacked"
           /\ r[Index(p)] = "none"
<1>1. /\ FrameLow \in Nat /\ Mark < FrameLow /\ next \in Nat /\ end \in Nat /\ Len(input) \in Nat
      /\ end <= Len(input) /\ ReadSize \in Nat /\ ReadSize >= 2 /\ HashBytes \in Nat
      /\ HashBytes <= ReadSize /\ Limit = end - ReadSize
      /\ \A i \in Int : Index(i) = FrameLow + i
  BY Ranges
<1>2. FrameLow <= next /\ top < next BY DEF Shape, Course
<1>3. p + HashBytes <= Len(input) /\ p < end BY <1>1
<1> PICK m : m = Index(p) OBVIOUS
<1>4. m \in Nat /\ next <= m /\ m - FrameLow < end /\ m = FrameLow + p
  <2>1. Index(p) = FrameLow + p BY <1>1
  <2> QED BY <2>1, <1>1, <1>3
<1>5. /\ ListedSince(p) = (next - FrameLow)..(p - 1)
      /\ \A h \in Hashes : Last(h, next, m - 1, heads'[h], heads[h])
      /\ \A q \in (next - FrameLow)..p :
           Last(HashAt(input, q), next, Index(q) - 1, HeadBefore(q), heads[HashAt(input, q)])
  BY <1>2, <1>3, ListedIs
<1>6. \A q \in (next - FrameLow)..p : HeadBefore(q) \in Nat /\ HashAt(input, q) \in Hashes
  BY <1>2, <1>3, ListedTypes
<1> DEFINE before == [i \in Nat |-> IF i \in next..(m - 1) THEN HeadBefore(i - FrameLow) ELSE 0]
<1>7. ASSUME NEW i \in next..(m - 1)
      PROVE  /\ i \in Nat /\ i - FrameLow \in (next - FrameLow)..(p - 1)
             /\ i - FrameLow \in (next - FrameLow)..p
             /\ Index(i - FrameLow) = i /\ before[i] = HeadBefore(i - FrameLow)
  <2>1. i \in Nat /\ i - FrameLow \in (next - FrameLow)..(p - 1) /\ i - FrameLow \in (next - FrameLow)..p
    BY <1>1, <1>4
  <2>2. Index(i - FrameLow) = FrameLow + (i - FrameLow) BY <1>1, <2>1
  <2> QED BY <1>1, <2>1, <2>2
<1>8. before \in [Nat -> Nat]
  <2>1. \A i \in next..(m - 1) : HeadBefore(i - FrameLow) \in Nat BY <1>6, <1>7
  <2> QED BY <2>1
<1> HIDE DEF before
<1>9. ASSUME NEW i \in next..(m - 1)
      PROVE  HashAt(input, i - FrameLow) \in Hashes
  BY <1>6, <1>7
<1>10. ASSUME NEW i \in next..(m - 1)
       PROVE  Last(HashAt(input, i - FrameLow), next, i - 1, before[i], heads[HashAt(input, i - FrameLow)])
  BY <1>5, <1>7
<1>11. ASSUME NEW k \in 0..(TreeSize - 1)
       PROVE  \/ \E i \in next..(m - 1) :
                   /\ Slot(i) = k /\ tree'[k].smaller = before[i] /\ tree'[k].larger = Mark
                   /\ \A j \in next..(m - 1) : Slot(j) = k => j <= i
              \/ tree'[k] = tree[k] /\ \A j \in next..(m - 1) : Slot(j) # k
  <2> PICK a \in Int, b \in Int : a = next - FrameLow /\ b = p - 1 BY <1>1
  <2>1. tree' = ListedTree(a..b) BY <1>5
  <2>2. CASE \E q \in a..b : /\ Slot(Index(q)) = k
                             /\ tree'[k] = [smaller |-> HeadBefore(q), larger |-> Mark]
                             /\ \A r \in a..b : Slot(Index(r)) = k => r <= q
    <3>1. PICK q \in a..b : /\ Slot(Index(q)) = k
                            /\ tree'[k] = [smaller |-> HeadBefore(q), larger |-> Mark]
                            /\ \A r \in a..b : Slot(Index(r)) = k => r <= q
      BY <2>2
    <3> PICK i : i = FrameLow + q OBVIOUS
    <3>2. i \in next..(m - 1) /\ i - FrameLow = q /\ Index(q) = i BY <1>1, <1>4
    <3>3. Slot(i) = k /\ tree'[k].smaller = before[i] /\ tree'[k].larger = Mark
      BY <1>7, <3>1, <3>2
    <3>4. ASSUME NEW j \in next..(m - 1), Slot(j) = k PROVE j <= i
      <4>1. j - FrameLow \in a..b /\ Index(j - FrameLow) = j BY <1>7
      <4>2. j - FrameLow <= q BY <4>1, <3>1, <3>4
      <4> QED BY <4>2, <3>2, <1>1, <1>7
    <3> QED BY <3>2, <3>3, <3>4
  <2>3. CASE tree'[k] = tree[k] /\ \A r \in a..b : Slot(Index(r)) # k
    <3>1. ASSUME NEW j \in next..(m - 1) PROVE Slot(j) # k
      <4>1. j - FrameLow \in a..b /\ Index(j - FrameLow) = j BY <1>7
      <4> QED BY <4>1, <2>3
    <3> QED BY <2>3, <3>1
  <2> QED BY SMTT(30), <2>1, <2>2, <2>3, ListedTreeIs
<1>12. /\ top \in Nat /\ role \in [Nat -> Roles] /\ bound \in [Sides -> [Nat -> Nat]]
       /\ above \in [Nat -> Nat]
  BY ShapeIs
<1>13. tree \in Forest /\ tree' \in Forest /\ heads \in [Hashes -> Nat] /\ heads' \in [Hashes -> Nat]
  BY DEF TypeOK, TableOK
<1>14. Opens = {} BY DEF Opens, Walking
<1>15. \A i \in Nat : role[i] # "stacked" BY DEF Shape, OnlyWhen, Sorting
<1>16. ListingGiven(FrameLow, end, top, next, m, input, role, bound, above, tree, tree',
                    heads, heads', before)
  <2>1. /\ Nodes(FrameLow, top, end, role, bound) /\ Bounds(input, FrameLow, end, role, bound)
        /\ Trees(tree, {}, FrameLow, top, role, bound)
        /\ Heads(input, heads, FrameLow, role, bound, above)
        /\ Lists(input, tree, FrameLow, top, role, bound, above)
    BY <1>14 DEF Shape
  <2>2. \A i \in next..(m - 1) :
          \/ /\ before[i] \in next..(i - 1)
             /\ HashAt(input, before[i] - FrameLow) = HashAt(input, i - FrameLow)
             /\ \A j \in next..(i - 1) :
                  HashAt(input, j - FrameLow) = HashAt(input, i - FrameLow) => j <= before[i]
          \/ /\ before[i] = heads[HashAt(input, i - FrameLow)]
             /\ \A j \in next..(i - 1) : HashAt(input, j - FrameLow) # HashAt(input, i - FrameLow)
    BY <1>10 DEF Last
  <2>3. \A h \in Hashes :
          \/ /\ heads'[h] \in next..(m - 1) /\ HashAt(input, heads'[h] - FrameLow) = h
             /\ \A j \in next..(m - 1) : HashAt(input, j - FrameLow) = h => j <= heads'[h]
          \/ /\ heads'[h] = heads[h]
             /\ \A j \in next..(m - 1) : HashAt(input, j - FrameLow) # h
    BY <1>5 DEF Last
  <2> QED BY <1>1, <1>2, <1>4, <1>8, <1>9, <1>11, <1>12, <1>13, <1>15, <2>1, <2>2, <2>3
      DEF ListingGiven
<1> QED BY <1>16, ListingHolds

\* A search begins, and btlazy2 lists the positions up to its target.
LEMMA SearchKeeps ==
  ASSUME IInv, NEW p, Search(p)
  PROVE  IInv'
<1>1. PICK top \in Nat, role \in [Nat -> Roles], bound \in [Sides -> [Nat -> Nat]],
           above \in [Nat -> Nat], ends \in [Sides -> Nat] : Shape(top, role, bound, above, ends)
  BY DEF IInv
<1>0. TypeOK BY DEF IInv
<1>2. /\ UNCHANGED <<kind, input, base, next3, hash3, cache, begin, end, walk>>
      /\ phase = "ready" /\ p \in position..Limit /\ Index(p) >= next
      /\ target' = Index(p) /\ position' = p + 1 /\ found' = NoMatch /\ tried' = 0
      /\ \/ /\ kind = "lazy"
            /\ heads' = ListedHeads(ListedSince(p)) /\ tree' = ListedTree(ListedSince(p))
            /\ next' = Index(p) /\ longest' = 0
            /\ phase' = "unstack" /\ candidate' = heads'[Hash(p)]
            /\ previous' = 0 /\ budget' = Attempts
         \/ /\ kind # "lazy" /\ phase' = "update" /\ longest' = MinMatch - 1
            /\ UNCHANGED <<heads, tree, next, candidate, previous, budget>>
  BY DEF Search, block, stack
<1>3. /\ input \in Inputs /\ FrameLow \in Nat /\ next \in Nat /\ end \in Nat /\ Len(input) \in Nat
      /\ end <= Len(input) /\ ReadSize \in Nat /\ ReadSize >= 2 /\ HashBytes \in Nat
      /\ HashBytes <= ReadSize /\ Limit = end - ReadSize
      /\ \A i \in Int : Index(i) = FrameLow + i /\ Unbiased(i) = i - FrameLow
  BY <1>0, Ranges
<1>4. p \in Nat /\ p <= Limit /\ p + HashBytes <= Len(input)
  <2>1. position \in Nat BY <1>0 DEF TypeOK, BlockOK
  <2> QED BY <2>1, <1>2, <1>3
<1>5. Index(p) = FrameLow + p /\ Index(p) \in Nat /\ Index(p) <= Index(Limit)
  <2>1. Index(p) = FrameLow + p BY <1>3, <1>4
  <2>2. Index(Limit) = FrameLow + Limit BY <1>3
  <2> QED BY <2>1, <2>2, <1>3, <1>4
<1>6. /\ FrameLow' = FrameLow /\ Index(Limit)' = Index(Limit) /\ Index(end)' = Index(end)
      /\ \A i : Unbiased(i)' = Unbiased(i) /\ Hash(i)' = Hash(i)
  BY <1>2 DEF FrameLow, Index, Limit, Unbiased, Hash
<1>7. top < next /\ FrameLow <= next /\ top \in Nat /\ FrameLow <= top + 1 /\ Index(end) <= MaxIndex
  BY <1>1, <1>2 DEF Shape, Course
<1>8. /\ phase' \in {"unstack", "update"} /\ phase' \notin Walking /\ phase' \in Phases
      /\ MinMatch - 1 \in Nat /\ Attempts \in Nat
  <2>1. MinMatch - 1 \in Nat /\ Attempts \in Nat
    <3>1. ReadSize \in Nat /\ MinMatch \in 2..ReadSize /\ Attempts \in Nat
      BY ConstantsAssumption DEF ConstantsAssumption
    <3> QED BY <3>1
  <2>2. phase' \in {"unstack", "update"} BY <1>2
  <2>3. phase' \notin Walking /\ phase' \in Phases BY <2>2 DEF Walking, Phases, Sorting
  <2> QED BY <2>1, <2>2, <2>3
<1>9. BlockOK' /\ WalkOK' /\ ResultOK'
  <2>2. p + 1 \in Nat BY <1>4
  <2>3. tried' \in Nat BY <1>2
  <2>4. longest' \in Nat BY <1>2, <1>8
  <2>1. position' \in Nat /\ tried' \in Nat /\ longest' \in Nat BY <1>2, <2>2, <2>3, <2>4
  <2> QED BY <1>0, <1>2, <1>8, <2>1, TypesStay DEF block
<1>10. CacheTrue' BY <1>2, <1>8, CacheStays DEF IInv
<1>11. MatchesAreReal' BY <1>2, FoundKept DEF IInv
<1>12. phase' # "idle" BY <1>8
<1>13. CASE kind # "lazy"
  <2>1. TypeOK'
    <3>1. TableOK' BY <1>0, <1>2, <1>13 DEF TypeOK, TableOK
    <3>2. StackOK' BY <1>0, <1>2, <1>5, <1>8, <1>13 DEF TypeOK, StackOK
    <3> QED BY <3>1, <3>2, <1>9 DEF TypeOK
  <2>2. Course(top, role)'
    <3>1. phase' = "update" /\ next' = next /\ kind' # "lazy" /\ target' = Index(p) BY <1>2, <1>13
    <3>2. top < Index(p) BY <1>2, <1>3, <1>5, <1>7
    <3> QED BY <3>1, <3>2, <1>5, <1>6, <1>7 DEF Course, Sorting
  <2>3. Shape(top, role, bound, above, ends)'
    BY <1>0, <1>1, <1>2, <1>13, <2>1, <2>2, EndStays, QuietKeeps DEF Quiet
  <2> QED BY <1>10, <1>11, <1>12, <2>1, <2>3, InvariantBy
<1>14. CASE kind = "lazy"
  <2>1. TypeOK'
    <3>1. tree' \in Forest /\ heads' \in [Hashes -> Nat]
      BY <1>0, <1>2, <1>4, <1>7, <1>14, ListedTypes
    <3>2. TableOK' BY <1>0, <1>2, <1>5, <1>14, <3>1 DEF TypeOK, TableOK
    <3>3. HashAt(input, p) \in Hashes BY <1>3, <1>4, HashIn
    <3>4. Hash(p) \in Hashes BY <3>3 DEF Hash, HashAt
    <3>5. StackOK' BY <1>0, <1>2, <1>5, <1>8, <1>14, <3>1, <3>4 DEF TypeOK, StackOK
    <3> QED BY <3>2, <3>5, <1>9 DEF TypeOK
  <2> PICK m \in Nat : m = Index(p) BY <1>5
  <2>2. PICK r \in [Nat -> Roles], b \in [Sides -> [Nat -> Nat]], a \in [Nat -> Nat] :
           /\ Nodes(FrameLow, Index(p), end, r, b) /\ Bounds(input, FrameLow, end, r, b)
           /\ Trees(tree', {}, FrameLow, Index(p), r, b)
           /\ Heads(input, heads', FrameLow, r, b, a)
           /\ Lists(input, tree', FrameLow, Index(p), r, b, a)
           /\ \A i \in Nat : r[i] # "stacked"
           /\ r[Index(p)] = "none"
    BY <1>0, <1>1, <1>2, <1>4, <1>14, <2>1, SearchLists
  <2>3. Course(m, r)'
    <3>1. phase' = "unstack" /\ next' = m /\ kind' = "lazy" /\ target' = m BY <1>2, <1>14
    <3>2. FrameLow <= m + 1 /\ FrameLow <= m /\ m <= Index(Limit) BY <1>3, <1>4, <1>5
    <3> QED BY <3>1, <3>2, <2>2, <1>6, <1>7 DEF Course, Sorting
  <2>4. OnlyWhen(r)' BY <1>2, <1>14, <2>2 DEF OnlyWhen
  <2>5. Stacks(r)'
    <3>1. Stacked(r) = {} BY <2>2 DEF Stacked
    <3>2. Unbiased(target)' = p
      <4>1. Unbiased(m) = p BY <1>3, <1>4, <1>5
      <4>2. Unbiased(target)' = target' - base' - Bias /\ Unbiased(m) = m - base - Bias BY DEF Unbiased
      <4> QED BY <4>1, <4>2, <1>2
    <3>3. candidate' = Root' BY <1>2, <1>14, <3>2 DEF Root, Hash
    <3> QED BY <1>2, <1>14, <3>1, <3>3 DEF Stacks, Stack
  <2>6. Opens' = {} BY <1>8 DEF Opens
  <2>7. Walk(m, r, b, a, ends)' /\ Unlisted(m, r)' BY <1>8 DEF Walk, Unlisted
  <2>8. Shaped(r, b, a, ends) BY DEF Shaped
  <2>9. Trees(tree, Opens, FrameLow, m, r, b)'
    BY SMTT(30), <2>2, <2>6, <1>6 DEF Trees, Child, Owned, Slot
  <2>10. /\ Nodes(FrameLow, m, end, r, b)' /\ Bounds(input, FrameLow, end, r, b)'
         /\ Heads(input, heads, FrameLow, r, b, a)'
         /\ Lists(input, tree, FrameLow, m, r, b, a)'
    BY <2>2, <1>2, <1>6 DEF Nodes, Bounds, Lists, Heads
  <2>11. Shape(m, r, b, a, ends)'
    BY <2>3, <2>4, <2>5, <2>7, <2>8, <2>9, <2>10 DEF Shape
  <2> QED BY <1>10, <1>11, <1>12, <2>1, <2>11, InvariantBy
<1> QED BY <1>13, <1>14

----------------------------------------------------------------------------
(* Blocks and frames begin.                                                *)

\* More of the frame changes nothing about what is in the trees.
LEMMA LimitGrows ==
  ASSUME NEW low \in Nat, NEW top, NEW limit \in Nat, NEW more \in Nat, limit <= more, NEW text,
         NEW role, NEW bound \in [Sides -> [Nat -> Nat]],
         Nodes(low, top, limit, role, bound), Bounds(text, low, limit, role, bound)
  PROVE  Nodes(low, top, more, role, bound) /\ Bounds(text, low, more, role, bound)
<1>1. Nodes(low, top, more, role, bound)
  <2>1. \A i \in Nat : i - low < limit => i - low < more OBVIOUS
  <2> QED BY <2>1 DEF Nodes
<1>2. Bounds(text, low, more, role, bound)
  <2> SUFFICES ASSUME NEW i \in Nat, NEW side \in Sides, role[i] # "none", bound[side][i] # 0
               PROVE  /\ low <= bound[side][i]
                      /\ Lies(text, low, more, bound[side][i], side, i)
    BY DEF Bounds
  <2> DEFINE j == bound[side][i]
  <2>1. low <= j /\ Lies(text, low, limit, j, side, i) BY DEF Bounds
  <2>2. j \in Nat OBVIOUS
  <2> HIDE DEF j
  <2>3. j - low \in Int /\ i - low \in Int BY <2>2
  <2>4. Lies(text, low, more, j, side, i) BY <2>1, <2>3, PrecedesLater DEF Lies
  <2> QED BY <2>1, <2>4 DEF j
<1> QED BY <1>1, <1>2

\* Catching up never goes back.
LEMMA CaughtUpIs ==
  ASSUME NEW from \in Nat, NEW index \in Int
  PROVE  CaughtUp(from, index) \in Nat /\ from <= CaughtUp(from, index)
<1>1. BlockSkip \in Nat /\ BlockTail \in Nat BY ConstantsAssumption DEF ConstantsAssumption
<1> PICK gap \in Int : gap = index - from - BlockSkip BY <1>1
<1>2. CaughtUp(from, index) = IF index > from + BlockSkip
                              THEN index - (IF BlockTail < gap THEN BlockTail ELSE gap) ELSE from
  BY DEF CaughtUp, Smaller
<1>3. CASE index > from + BlockSkip
  <2>1. CASE BlockTail < gap BY <1>1, <1>2, <1>3, <2>1
  <2>2. CASE ~(BlockTail < gap) BY <1>1, <1>2, <1>3, <2>2
  <2> QED BY <2>1, <2>2
<1> QED BY <1>2, <1>3

\* A link of this frame moves down with it, any other becomes 0.
LEMMA RebasedIs ==
  ASSUME TypeOK, NEW index \in Nat
  PROVE  /\ Rebased(index) \in Nat
         /\ Rebased(index) = IF index >= FrameLow THEN index - base ELSE 0
<1>1. FrameLow = base + 2 /\ base \in Nat BY Ranges
<1> QED BY <1>1 DEF Rebased

\* After the rotation each node is in the slot of its new index.
LEMMA RotatedIs ==
  ASSUME TypeOK
  PROVE  /\ Rotated \in Forest
         /\ \A i \in Nat, side \in Sides :
              LET link == tree[Slot(i + base)][side]
              IN  Rotated[Slot(i)][side] = IF link = Mark THEN Mark
                                           ELSE IF link >= FrameLow THEN link - base ELSE 0
<1>1. tree \in Forest /\ base \in Nat BY DEF TypeOK, TableOK
<1>2. DOMAIN tree = 0..(TreeSize - 1) BY <1>1 DEF Forest
<1> DEFINE Moved(s, side) == LET link == tree[Slot(s + base)][side]
                             IN  IF link = Mark THEN Mark ELSE Rebased(link)
<1>3. Rotated = [s \in 0..(TreeSize - 1) |-> [side \in Sides |-> Moved(s, side)]]
  BY <1>2 DEF Rotated
<1>4. ASSUME NEW s \in Nat, NEW side \in Sides
      PROVE  /\ tree[Slot(s + base)][side] \in Nat
             /\ Moved(s, side) \in Nat
             /\ LET link == tree[Slot(s + base)][side]
                IN  Moved(s, side) = IF link = Mark THEN Mark
                                     ELSE IF link >= FrameLow THEN link - base ELSE 0
  <2>1. s + base \in Int BY <1>1
  <2>2. tree[Slot(s + base)][side] \in Nat BY <1>1, <2>1, NodeIn
  <2> PICK link \in Nat : link = tree[Slot(s + base)][side] BY <2>2
  <2>3. Moved(s, side) = IF link = Mark THEN Mark ELSE Rebased(link) OBVIOUS
  <2>4. Mark \in Nat BY DEF Mark
  <2> QED BY <2>3, <2>4, RebasedIs
<1> HIDE DEF Moved
<1>5. Rotated \in Forest
  <2>1. ASSUME NEW s \in 0..(TreeSize - 1) PROVE [side \in Sides |-> Moved(s, side)] \in Node
    <3>1. s \in Nat BY TreeSizeIs
    <3>2. Moved(s, "smaller") \in Nat /\ Moved(s, "larger") \in Nat BY <1>4, <3>1 DEF Sides
    <3> QED BY <3>2 DEF Node, Sides
  <2> QED BY <1>3, <2>1 DEF Forest
<1>6. ASSUME NEW i \in Nat, NEW side \in Sides
      PROVE  LET link == tree[Slot(i + base)][side]
             IN  Rotated[Slot(i)][side] = IF link = Mark THEN Mark
                                          ELSE IF link >= FrameLow THEN link - base ELSE 0
  <2>1. Slot(i) \in 0..(TreeSize - 1) /\ Slot(i) \in Nat BY SlotIn, TreeSizeIs
  <2>2. Slot(Slot(i) + base) = Slot(i + base)
    <3>1. i \in Int /\ base \in Int /\ TreeSize \in Nat \ {0} BY <1>1, TreeSizeIs
    <3>2. ((i % TreeSize) + base) % TreeSize = (i + base) % TreeSize BY <3>1, Reduced
    <3> QED BY <3>2 DEF Slot
  <2>3. Rotated[Slot(i)][side] = Moved(Slot(i), side) BY <1>3, <2>1
  <2> QED BY <1>4, <2>1, <2>2, <2>3
<1> QED BY <1>5, <1>6

\* A block that begins, apart from the trees.
LEMMA BeginBlockTypes ==
  ASSUME IInv, NEW size \in BlockSizes, BeginBlock(size)
  PROVE  TypeOK' /\ CacheTrue' /\ MatchesAreReal' /\ phase' = "ready" /\ size \in Nat
<1>0. TypeOK BY DEF IInv
<1>1. /\ UNCHANGED <<kind, input, target, candidate, previous, budget, tried, longest, found, walk>>
      /\ phase = "idle" /\ end + size <= Len(input)
      /\ next' = CaughtUp(IF HasRoom(end + size) THEN next ELSE Larger(Bias, Rebased(next)),
                          base' + end + Bias)
      /\ next3' = IF kind = "lazy"
                  THEN IF HasRoom(end + size) THEN next3 ELSE Larger(Bias, Rebased(next3))
                  ELSE next'
      /\ cache' = IF kind = "lazy" THEN cache ELSE CacheAtBlock
      /\ begin' = end /\ end' = end + size /\ position' \in {1, end} /\ phase' = "ready"
      /\ \/ UNCHANGED <<base, heads, hash3, tree>>
         \/ /\ base' = 0 /\ tree' = Rotated
            /\ heads' = [h \in Hashes |-> Rebased(heads[h])]
            /\ hash3' = [h \in Hashes |-> Rebased(hash3[h])]
  BY DEF BeginBlock, stack, result
<1>2. size \in Nat BY ConstantsAssumption DEF ConstantsAssumption
<1>3. /\ base \in Nat /\ next \in Nat /\ next3 \in Nat /\ end \in Nat
      /\ heads \in [Hashes -> Nat] /\ hash3 \in [Hashes -> Nat] /\ tree \in Forest /\ cache \in Caches
  BY <1>0 DEF TypeOK, TableOK, BlockOK
<1>4. base' \in Nat /\ tree' \in Forest /\ heads' \in [Hashes -> Nat] /\ hash3' \in [Hashes -> Nat]
  <2>1. Rotated \in Forest BY <1>0, RotatedIs
  <2>2. \A i \in Nat : Rebased(i) \in Nat BY <1>0, RebasedIs
  <2>3. CASE UNCHANGED <<base, heads, hash3, tree>> BY <1>3, <2>3
  <2>4. CASE /\ base' = 0 /\ tree' = Rotated
             /\ heads' = [h \in Hashes |-> Rebased(heads[h])]
             /\ hash3' = [h \in Hashes |-> Rebased(hash3[h])]
    <3>1. \A h \in Hashes : Rebased(heads[h]) \in Nat /\ Rebased(hash3[h]) \in Nat
      BY <1>3, <2>2
    <3> QED BY <2>1, <2>4, <3>1
  <2> QED BY <1>1, <2>3, <2>4
<1>5. next' \in Nat /\ next3' \in Nat
  <2>1. \A i \in Nat : Larger(Bias, Rebased(i)) \in Nat
    BY <1>0, RebasedIs DEF Larger, Bias
  <2>2. base' + end + Bias \in Int BY <1>3, <1>4 DEF Bias
  <2>3. next' \in Nat BY <1>1, <1>3, <2>1, <2>2, CaughtUpIs
  <2> QED BY <1>1, <1>3, <2>1, <2>3
<1>6. cache' \in Caches
  <2>1. CacheSize \in Nat BY ConstantsAssumption DEF ConstantsAssumption
  <2>2. NoEntry \in Entry BY DEF NoEntry, Entry
  <2>3. EmptyCache \in Caches BY <2>2 DEF EmptyCache, Caches
  <2> QED BY <1>1, <1>3, <2>3 DEF CacheAtBlock
<1>7. TypeOK'
  <2>1. TableOK' BY <1>4, <1>5, <1>6 DEF TableOK
  <2>2. BlockOK' BY <1>0, <1>1, <1>2, <1>3 DEF TypeOK, BlockOK
  <2>3. StackOK' /\ ResultOK' /\ WalkOK'
    BY <1>0, <1>1 DEF TypeOK, StackOK, ResultOK, WalkOK, Phases, Walking
  <2> QED BY <2>1, <2>2, <2>3 DEF TypeOK
<1>8. CacheTrue'
  <2>1. CASE kind = "lazy" BY <1>1, <2>1 DEF CacheTrue
  <2>2. CASE kind # "lazy"
    <3>1. \A r \in 0..1, c \in 0..(CacheSize - 1) : cache'[r][c][3] = 0
      BY <1>1, <2>2 DEF CacheAtBlock, EmptyCache, NoEntry
    <3> QED BY <3>1 DEF CacheTrue
  <2> QED BY <2>1, <2>2
<1>9. MatchesAreReal'
  <2>1. found' = NoMatch BY <1>1 DEF IInv
  <2> QED BY <2>1, FoundKept DEF IInv
<1> QED BY <1>1, <1>2, <1>7, <1>8, <1>9

\* A block whose indexes fit begins as the one before ended.
LEMMA RoomKeeps ==
  ASSUME IInv, NEW size \in BlockSizes, BeginBlock(size), HasRoom(end + size)
  PROVE  IInv'
<1>1. PICK top \in Nat, role \in [Nat -> Roles], bound \in [Sides -> [Nat -> Nat]],
           above \in [Nat -> Nat], ends \in [Sides -> Nat] : Shape(top, role, bound, above, ends)
  BY DEF IInv
<1>0. TypeOK BY DEF IInv
<1>2. TypeOK' /\ CacheTrue' /\ MatchesAreReal' /\ phase' = "ready" /\ size \in Nat
  BY BeginBlockTypes
<1>3. /\ UNCHANGED <<kind, input, base, heads, tree, target>> /\ phase = "idle"
      /\ next' = CaughtUp(next, base' + end + Bias) /\ end' = end + size
  BY DEF BeginBlock
<1>4. /\ base \in Nat /\ next \in Nat /\ end \in Nat BY <1>0 DEF TypeOK, TableOK, BlockOK
<1>5. next' \in Nat /\ next <= next'
  <2>1. base' + end + Bias \in Int BY <1>3, <1>4 DEF Bias
  <2> QED BY <1>3, <1>4, <2>1, CaughtUpIs
<1>6. Course(top, role)'
  <2>1. /\ top \in Nat /\ FrameLow <= top + 1 /\ FrameLow <= next /\ top < next
    BY <1>1, <1>3 DEF Shape, Course
  <2>2. FrameLow' = FrameLow /\ FrameLow \in Nat BY <1>0, <1>3, Ranges DEF FrameLow
  <2>3. top < next' /\ FrameLow <= next' BY <1>4, <1>5, <2>1, <2>2
  <2>4. Index(end)' <= MaxIndex
    <3>1. base + (end + size) + Guard <= MaxIndex BY DEF HasRoom
    <3>2. MaxIndex \in Nat BY ConstantsAssumption DEF ConstantsAssumption
    <3>3. Index(end)' = base' + end' + Bias BY DEF Index
    <3> QED BY <1>2, <1>3, <1>4, <3>1, <3>2, <3>3 DEF Guard, Bias
  <2> QED BY <1>2, <2>1, <2>2, <2>3, <2>4 DEF Course, Sorting
<1>7. end <= end' BY <1>2, <1>3, <1>4
<1>8. Shape(top, role, bound, above, ends)'
  BY <1>0, <1>1, <1>2, <1>3, <1>6, <1>7, QuietKeeps DEF Quiet
<1> QED BY <1>2, <1>8, InvariantBy

\* A block whose indexes do not fit moves everything down first.
LEMMA NoRoomKeeps ==
  ASSUME IInv, NEW size \in BlockSizes, BeginBlock(size), ~HasRoom(end + size)
  PROVE  IInv'
<1>1. PICK top \in Nat, role \in [Nat -> Roles], bound \in [Sides -> [Nat -> Nat]],
           above \in [Nat -> Nat], ends \in [Sides -> Nat] : Shape(top, role, bound, above, ends)
  BY DEF IInv
<1>0. TypeOK BY DEF IInv
<1>2. TypeOK' /\ CacheTrue' /\ MatchesAreReal' /\ phase' = "ready" /\ size \in Nat
  BY BeginBlockTypes
<1>3. /\ UNCHANGED <<kind, input, target>> /\ phase = "idle" /\ base' = 0 /\ tree' = Rotated
      /\ heads' = [h \in Hashes |-> Rebased(heads[h])]
      /\ next' = CaughtUp(Larger(Bias, Rebased(next)), base' + end + Bias) /\ end' = end + size
      /\ end + size <= MaxIndex - Guard
  BY DEF BeginBlock
<1>4. /\ base \in Nat /\ next \in Nat /\ end \in Nat /\ heads \in [Hashes -> Nat] /\ tree \in Forest
      /\ tree' \in Forest /\ end' \in Nat /\ end <= end'
  BY <1>0, <1>2, <1>3 DEF TypeOK, TableOK, BlockOK
<1>5. /\ FrameLow = base + Bias /\ FrameLow \in Nat /\ FrameLow' = Bias /\ Bias = 2
  BY <1>3, <1>4 DEF FrameLow, Bias
<1>6. /\ top \in Nat /\ FrameLow <= top + 1 /\ FrameLow <= next /\ top < next
  BY <1>1, <1>3 DEF Shape, Course
<1>7. next - base \in Nat /\ next - base >= Bias /\ next' \in Nat /\ next - base <= next'
  <2>1. next - base \in Nat /\ next - base >= Bias BY <1>4, <1>5, <1>6
  <2>2. Rebased(next) = next - base BY <1>0, <1>4, <1>6, RebasedIs
  <2>3. Larger(Bias, Rebased(next)) = next - base BY <2>1, <2>2, <1>5 DEF Larger
  <2>4. base' + end + Bias \in Int BY <1>3, <1>4 DEF Bias
  <2> QED BY <1>3, <2>1, <2>3, <2>4, CaughtUpIs
<1>8. phase \notin Walking /\ phase \notin Sorting /\ Opens = {}
  BY <1>3 DEF Opens, Walking, Sorting
<1>9. \A i \in Nat : role[i] # "stacked" /\ (role[i] = "listed" => kind = "lazy")
  BY <1>1, <1>8 DEF Shape, OnlyWhen
<1>10. /\ Nodes(FrameLow, top, end', role, bound) /\ Bounds(input, FrameLow, end', role, bound)
       /\ Trees(tree, {}, FrameLow, top, role, bound)
       /\ Heads(input, heads, FrameLow, role, bound, above)
       /\ Lists(input, tree, FrameLow, top, role, bound, above)
  <2>1. /\ Nodes(FrameLow, top, end, role, bound) /\ Bounds(input, FrameLow, end, role, bound)
        /\ Trees(tree, {}, FrameLow, top, role, bound)
        /\ Heads(input, heads, FrameLow, role, bound, above)
        /\ Lists(input, tree, FrameLow, top, role, bound, above)
    BY <1>1, <1>8 DEF Shape
  <2> QED BY <2>1, <1>4, <1>5, LimitGrows
<1>11. \A h \in Hashes : heads'[h] = IF heads[h] >= FrameLow THEN heads[h] - base ELSE 0
  BY <1>0, <1>3, <1>4, RebasedIs
<1>12. RebaseGiven(base, FrameLow, end', top, input, role, bound, above, tree, tree', heads, heads')
  <2>1. \A i \in Nat, side \in Sides :
          LET link == tree[Slot(i + base)][side]
          IN  tree'[Slot(i)][side] = IF link = Mark THEN Mark
                                     ELSE IF link >= FrameLow THEN link - base ELSE 0
    BY <1>0, <1>3, RotatedIs
  <2> QED BY <1>4, <1>5, <1>6, <1>9, <1>10, <1>11, <2>1 DEF RebaseGiven
<1> PICK limit, nodes, roots : end' = limit /\ tree' = nodes /\ heads' = roots OBVIOUS
<1>c. PICK r \in [Nat -> Roles], b \in [Sides -> [Nat -> Nat]], a \in [Nat -> Nat] :
           Downward(top - base, limit, input, role, nodes, roots, r, b, a)
  <2>1. RebaseGiven(base, FrameLow, limit, top, input, role, bound, above, tree, nodes, heads, roots)
    BY <1>12
  <2> QED BY <2>1, RebaseHolds
<1> PICK t : t = top - base OBVIOUS
<1>13. /\ Nodes(Bias, t, end', r, b) /\ Bounds(input, Bias, end', r, b)
       /\ Trees(tree', {}, Bias, t, r, b)
       /\ Heads(input, heads', Bias, r, b, a)
       /\ Lists(input, tree', Bias, t, r, b, a)
       /\ \A i \in Nat : r[i] # "stacked" /\ (r[i] = "listed" => kind = "lazy")
  BY <1>9, <1>c DEF Downward
<1>14. t \in Nat /\ Bias <= t + 1 /\ t < next' BY <1>4, <1>5, <1>6, <1>7
<1>15. Course(t, r)'
  <2>1. Index(end)' <= MaxIndex
    <3>1. MaxIndex \in Nat BY ConstantsAssumption DEF ConstantsAssumption
    <3>2. Index(end)' = base' + end' + Bias BY DEF Index
    <3> QED BY <1>2, <1>3, <1>4, <3>1, <3>2 DEF Guard, Bias
  <2>2. Bias <= next' BY <1>5, <1>7
  <2> QED BY <1>2, <1>5, <1>14, <2>1, <2>2 DEF Course, Sorting
<1>16. phase' \notin Walking /\ phase' \notin Sorting /\ Opens' = {}
  BY <1>2 DEF Opens, Walking, Sorting
<1>17. OnlyWhen(r)' BY <1>3, <1>9, <1>13 DEF OnlyWhen
<1>18. Stacks(r)' /\ Walk(t, r, b, a, ends)' /\ Unlisted(t, r)'
  BY <1>16 DEF Stacks, Walk, Unlisted
<1>19. Shaped(r, b, a, ends) BY DEF Shaped
<1>20. Trees(tree, Opens, FrameLow, t, r, b)'
  <2> SUFFICES ASSUME NEW i \in Nat, NEW side \in Sides, r[i] = "sorted", Owned(t, i)
               PROVE  Child(FrameLow', r, b, i, side, tree'[Slot(i)][side])
    BY DEF Trees, Child, Owned, Slot
  <2> QED BY <1>5, <1>13 DEF Trees
<1>21. /\ Nodes(FrameLow, t, end, r, b)' /\ Bounds(input, FrameLow, end, r, b)'
       /\ Heads(input, heads, FrameLow, r, b, a)'
       /\ Lists(input, tree, FrameLow, t, r, b, a)'
  BY <1>13, <1>3, <1>5 DEF Nodes, Bounds, Lists, Heads
<1>22. Shape(t, r, b, a, ends)'
  BY <1>15, <1>17, <1>18, <1>19, <1>20, <1>21 DEF Shape
<1> QED BY <1>2, <1>14, <1>22, InvariantBy

\* A block begins.
LEMMA BeginBlockKeeps ==
  ASSUME IInv, NEW size \in BlockSizes, BeginBlock(size)
  PROVE  IInv'
BY RoomKeeps, NoRoomKeeps

\* Nothing that was recorded is in the next frame.
LEMMA ResetKeeps ==
  ASSUME IInv, NEW content \in Inputs, Reset(content)
  PROVE  IInv'
<1>1. PICK top \in Nat, role \in [Nat -> Roles], bound \in [Sides -> [Nat -> Nat]],
           above \in [Nat -> Nat], ends \in [Sides -> Nat] : Shape(top, role, bound, above, ends)
  BY DEF IInv
<1>0. TypeOK BY DEF IInv
<1>2. /\ UNCHANGED <<kind, cache, phase, target, candidate, previous, budget, tried, longest,
                     found, walk>>
      /\ phase = "idle"
      /\ \/ /\ base' = 0
            /\ heads' = [h \in Hashes |-> 0] /\ hash3' = [h \in Hashes |-> 0]
            /\ tree' = [s \in DOMAIN tree |-> Leaf]
         \/ base' = next + Window /\ UNCHANGED <<heads, hash3, tree>>
      /\ next' = base' + Bias /\ next3' = base' + Bias
      /\ input' = content /\ begin' = 0 /\ end' = 0 /\ position' = 0
  BY DEF Reset, stack, result, NextBase
<1>3. /\ base \in Nat /\ next \in Nat /\ heads \in [Hashes -> Nat] /\ hash3 \in [Hashes -> Nat]
      /\ tree \in Forest /\ cache \in Caches /\ DOMAIN tree = 0..(TreeSize - 1)
  BY <1>0 DEF TypeOK, TableOK, Forest
<1>4. Window \in Nat \ {0} /\ content \in Seq(Nat)
  BY ConstantsAssumption DEF ConstantsAssumption
<1>5. /\ base' \in Nat /\ heads' \in [Hashes -> Nat] /\ hash3' \in [Hashes -> Nat] /\ tree' \in Forest
  <2>1. CASE /\ base' = 0
             /\ heads' = [h \in Hashes |-> 0] /\ hash3' = [h \in Hashes |-> 0]
             /\ tree' = [s \in DOMAIN tree |-> Leaf]
    <3>1. Leaf \in Node BY DEF Leaf, Node
    <3> QED BY <1>3, <2>1, <3>1 DEF Forest
  <2>2. CASE base' = next + Window /\ UNCHANGED <<heads, hash3, tree>>
    BY <1>3, <1>4, <2>2
  <2> QED BY <1>2, <2>1, <2>2
<1>6. TypeOK'
  <2>1. next' \in Nat /\ next3' \in Nat BY <1>2, <1>5 DEF Bias
  <2>2. TableOK' BY <1>2, <1>3, <1>5, <2>1 DEF TableOK
  <2>3. BlockOK'
    <3>1. Len(content) \in Nat BY <1>4
    <3> QED BY <1>0, <1>2, <3>1 DEF TypeOK, BlockOK
  <2>4. StackOK' /\ ResultOK' /\ WalkOK' BY <1>0, <1>2 DEF TypeOK, StackOK, ResultOK, WalkOK
  <2> QED BY <2>2, <2>3, <2>4 DEF TypeOK
<1>7. CacheTrue' BY <1>2 DEF CacheTrue
<1>8. found' = NoMatch /\ MatchesAreReal'
  <2>1. found' = NoMatch BY <1>2 DEF IInv
  <2> QED BY <2>1, FoundKept DEF IInv
<1> PICK low \in Nat : base' = low
  <2>1. \E low \in Nat : base' = low BY <1>5, Zenon
  <2> QED BY <2>1
<1>9. FrameLow' = low + 2 /\ FrameLow' \in Nat /\ base' = low BY DEF FrameLow, Bias
<1>10. ASSUME NEW h \in Hashes PROVE heads'[h] < FrameLow'
  <2>1. CASE base' = 0 /\ heads' = [g \in Hashes |-> 0] BY <1>9, <2>1
  <2>2. CASE base' = next + Window /\ heads' = heads
    <3>1. top < next /\ FrameLow <= next /\ top \in Nat BY <1>1, <1>2 DEF Shape, Course
    <3>2. heads[h] \in Nat /\ FrameLow \in Nat BY <1>0, <1>3, Ranges
    <3>3. heads[h] <= next
      <4>1. CASE heads[h] >= FrameLow
        <5>1. heads[h] <= top BY <4>1, <1>0, <1>1, ShapeIs
        <5> QED BY <5>1, <3>1, <3>2, <1>3
      <4>2. CASE ~(heads[h] >= FrameLow) BY <4>2, <3>1, <3>2, <1>3
      <4> QED BY <4>1, <4>2
    <3>4. base' = next + Window /\ heads'[h] = heads[h] /\ Window \in Nat /\ Window > 0
      BY <2>2, <1>4
    <3>5. FrameLow' = next + Window + 2 BY <1>9, <3>4
    <3> QED BY <3>2, <3>3, <3>4, <3>5, <1>3
  <2> QED BY <1>2, <2>1, <2>2
<1> DEFINE r == [i \in Nat |-> "none"]
<1>11. r \in [Nat -> Roles] /\ \A i \in Nat : r[i] = "none" BY DEF Roles
<1> HIDE DEF r
<1> PICK t \in Nat : t = low + 1 OBVIOUS
<1>12. Course(t, r)'
  <2>1. FrameLow' <= t + 1 /\ FrameLow' <= next' /\ t < next' BY <1>2, <1>9 DEF Bias
  <2> QED BY <1>2, <2>1 DEF Course, Sorting
<1>13. phase' \notin Walking /\ phase' \notin Sorting BY <1>2 DEF Walking, Sorting
<1>14. Nodes(FrameLow, t, end, r, bound)' /\ OnlyWhen(r)' BY <1>11 DEF Nodes, OnlyWhen
<1>15. Bounds(input, FrameLow, end, r, bound)' /\ Trees(tree, Opens, FrameLow, t, r, bound)'
  BY <1>11 DEF Bounds, Trees
<1>16. Heads(input, heads, FrameLow, r, bound, above)'
  <2>1. \A h \in Hashes : ~(heads'[h] >= FrameLow') BY <1>5, <1>9, <1>10
  <2> QED BY <2>1 DEF Heads, Referred
<1>17. Lists(input, tree, FrameLow, t, r, bound, above)' BY <1>11 DEF Lists
<1>18. Stacks(r)' /\ Walk(t, r, bound, above, ends)' /\ Unlisted(t, r)'
  BY <1>13 DEF Stacks, Walk, Unlisted
<1>19. Shaped(r, bound, above, ends) BY <1>11 DEF Shaped
<1>20. Shape(t, r, bound, above, ends)'
  BY <1>12, <1>14, <1>15, <1>16, <1>17, <1>18, <1>19 DEF Shape
<1> QED BY <1>6, <1>7, <1>8, <1>11, <1>20, InvariantBy

----------------------------------------------------------------------------
(* On the way down.                                                        *)

\* What is known of a walk, its node x, its ends and the next node m.
WalkFacts(top, role, bound, ends, x, m) ==
  /\ walk \in Way /\ x = walk.node /\ m = walk.match /\ x \in Nat /\ m \in Nat /\ top \in Nat
  /\ FrameLow \in Nat /\ FrameLow >= 2 /\ end \in Nat /\ end <= Len(input) /\ input \in Text
  /\ role \in [Nat -> Roles] /\ bound \in [Sides -> [Nat -> Nat]] /\ ends \in [Sides -> Nat]
  /\ FrameLow <= x /\ x <= top /\ x - FrameLow < end /\ x - FrameLow \in Nat
  /\ FrameLow <= walk.low + 1 /\ WindowLow(target) <= walk.low + 1
  /\ walk.treeLow + TreeSize > top
  /\ walk.low < m /\ m <= walk.treeLow => ~Owned(top, m)
  /\ walk.reach > x + Slack
  /\ EndsIn(FrameLow, top, role, bound, x, ends)
  /\ \A side \in Sides :
       /\ ends[side] \in Nat /\ Owned(top, ends[side]) /\ ends[side] > 0
       /\ FrameLow <= ends[side] /\ ends[side] - FrameLow \in Nat
       /\ walk[side] = OpenAt(ends, x, side)
       /\ m < ends[side] /\ m < x
       /\ m >= FrameLow => bound[side][m] = EndOf(ends[side], x)
       /\ walk.common[side] \in Nat
       /\ walk.common[side] = IF ends[side] = x THEN 0
                              ELSE Matching(x - FrameLow, ends[side] - FrameLow, end)
  /\ m >= FrameLow => role[m] # "none" /\ m - FrameLow \in Nat
  /\ m > walk.treeLow /\ m > walk.low => role[m] = "sorted" /\ Owned(top, m) /\ m >= FrameLow
  /\ Opens = Openings(ends, x)

\* WalkFacts follows from the shape.
LEMMA WalkFactsHold ==
  ASSUME TypeOK, NEW top, NEW role, NEW bound, NEW above, NEW ends,
         Shape(top, role, bound, above, ends), phase \in Walking
  PROVE  WalkFacts(top, role, bound, ends, walk.node, walk.match)
<1> PICK x, m : x = walk.node /\ m = walk.match OBVIOUS
<1>1. /\ FrameLow \in Nat /\ FrameLow >= 2 /\ end \in Nat /\ end <= Len(input) /\ input \in Text
      /\ \A i \in Int : Unbiased(i) = i - FrameLow
  <2>1. /\ base \in Nat /\ FrameLow \in Nat /\ FrameLow = base + 2 /\ end \in Nat
        /\ end <= Len(input) /\ input \in Text /\ \A i \in Int : Unbiased(i) = i - FrameLow
    BY Ranges
  <2>2. FrameLow >= 2
    <3>1. base \in Nat /\ FrameLow = base + 2 BY <2>1
    <3> QED BY <3>1
  <2> QED BY <2>1, <2>2
<1> PICK low \in Nat : low = FrameLow BY <1>1
<1>2. walk \in Way BY DEF TypeOK, WalkOK
<1>3. /\ x \in Nat /\ m \in Nat /\ walk.treeLow \in Nat /\ walk.low \in Nat /\ walk.reach \in Nat
      /\ \A side \in Sides : walk.common[side] \in Nat
  BY <1>2 DEF Way
<1>4. /\ top \in Nat /\ role \in [Nat -> Roles] /\ bound \in [Sides -> [Nat -> Nat]]
      /\ ends \in [Sides -> Nat]
      /\ \A i \in Nat : role[i] # "none" => FrameLow <= i /\ i <= top /\ i - FrameLow < end
  BY ShapeIs
<1>5. Walk(top, role, bound, above, ends) BY DEF Shape
<1>6. /\ role[x] = "sorted"
      /\ walk.treeLow + TreeSize > top /\ Lost(top, walk.low, walk.treeLow)
      /\ FrameLow <= walk.low + 1 /\ WindowLow(target) <= walk.low + 1
      /\ ends["smaller"] = ends["larger"] => ends["smaller"] = x
      /\ m >= FrameLow => role[m] # "none"
      /\ m > walk.treeLow /\ m > walk.low => role[m] = "sorted"
      /\ walk.reach > x + Slack
  BY <1>5 DEF Walk
<1>7. \A side \in Sides :
         /\ bound[side][x] = 0
         /\ role[ends[side]] = "sorted" /\ ends[side] <= x /\ Owned(top, ends[side])
         /\ walk[side] = <<Slot(ends[side]), IF ends[side] = x THEN side ELSE Other(side)>>
         /\ ends[side] # x => bound[Other(side)][ends[side]] = x
         /\ m < ends[side]
         /\ m >= FrameLow => bound[side][m] = EndOf(ends[side], x)
         /\ walk.common[side] = IF ends[side] = x THEN 0
                                ELSE Matching(Unbiased(x), Unbiased(ends[side]), end)
  BY <1>5 DEF Walk
<1>8. FrameLow <= x /\ x <= top /\ x - FrameLow < end /\ x - FrameLow \in Nat
  <2>1. role[x] # "none" BY <1>6
  <2>2. FrameLow <= x /\ x <= top /\ x - FrameLow < end BY <1>3, <1>4, <2>1
  <2>3. x \in Nat /\ low <= x BY <1>3, <2>2
  <2>4. x - low \in Nat BY <2>3
  <2> QED BY <2>2, <2>4
<1>9. ASSUME NEW i \in Nat, i > walk.treeLow PROVE Owned(top, i)
  BY <1>3, <1>4, <1>6, <1>9, TreeSizeIs DEF Owned
<1>10. ASSUME NEW side \in Sides
       PROVE  /\ ends[side] \in Nat /\ Owned(top, ends[side]) /\ ends[side] > 0
              /\ FrameLow <= ends[side] /\ ends[side] - FrameLow \in Nat
              /\ walk[side] = OpenAt(ends, x, side)
              /\ m < ends[side] /\ m < x
              /\ m >= FrameLow => bound[side][m] = EndOf(ends[side], x)
              /\ walk.common[side] \in Nat
              /\ walk.common[side] = IF ends[side] = x THEN 0
                                     ELSE Matching(x - FrameLow, ends[side] - FrameLow, end)
  <2> PICK e \in Nat : e = ends[side] BY <1>4
  <2>1. /\ role[e] # "none" /\ Owned(top, e) /\ e <= x /\ m < e
    BY <1>7
  <2>2. FrameLow <= e BY <1>4, <2>1
  <2>3. e - FrameLow \in Nat /\ e > 0 /\ m < x
    <3>1. low <= e /\ low >= 2 /\ m \in Nat /\ x \in Nat /\ e <= x /\ m < e BY <1>1, <1>3, <2>1, <2>2
    <3>2. e - low \in Nat /\ e > 0 /\ m < x BY <3>1
    <3> QED BY <3>2
  <2>4. Unbiased(x) = x - FrameLow /\ Unbiased(e) = e - FrameLow
    <3>1. x \in Int /\ e \in Int BY <1>3
    <3> QED BY <3>1, <1>1
  <2> QED BY <1>3, <1>7, <2>1, <2>2, <2>3, <2>4 DEF OpenAt
<1>11. EndsIn(FrameLow, top, role, bound, x, ends) BY <1>6, <1>7, <1>10 DEF EndsIn
<1>12. m > walk.treeLow /\ m > walk.low => role[m] = "sorted" /\ Owned(top, m) /\ m >= FrameLow
  <2> HAVE m > walk.treeLow /\ m > walk.low
  <2>1. role[m] = "sorted" /\ Owned(top, m) BY <1>3, <1>6, <1>9
  <2>2. m >= FrameLow
    <3>1. m \in Nat /\ walk.low \in Nat /\ low <= walk.low + 1 /\ m > walk.low BY <1>3, <1>6
    <3>2. m >= low BY <3>1
    <3> QED BY <3>2
  <2> QED BY <2>1, <2>2
<1>13. m >= FrameLow => m - FrameLow \in Nat
  <2>1. m \in Nat /\ low \in Nat BY <1>3
  <2>2. m >= low => m - low \in Nat BY <2>1
  <2> QED BY <2>2
<1>14. Opens = Openings(ends, x)
  <2>1. Opens = {walk[side] : side \in Sides} BY DEF Opens
  <2>2. \A side \in Sides : walk[side] = OpenAt(ends, x, side) BY <1>10
  <2>3. ASSUME NEW v PROVE v \in {walk[side] : side \in Sides} <=> v \in {OpenAt(ends, x, side) : side \in Sides}
    <3>1. ASSUME NEW side \in Sides, v = walk[side]
          PROVE  v \in {OpenAt(ends, x, z) : z \in Sides}
      BY <3>1, <2>2
    <3>2. ASSUME NEW side \in Sides, v = OpenAt(ends, x, side)
          PROVE  v \in {walk[z] : z \in Sides}
      BY <3>2, <2>2
    <3> QED BY <3>1, <3>2
  <2> QED BY <2>1, <2>3 DEF Openings
<1>15. walk.low < m /\ m <= walk.treeLow => ~Owned(top, m)
  <2>1. \A side \in Sides : m < x BY <1>10
  <2>2. m < x BY <2>1 DEF Sides
  <2>3. m # top BY <1>3, <1>4, <1>8, <2>2
  <2> QED BY <1>3, <1>6, <2>3 DEF Lost
<1>16. WalkFacts(top, role, bound, ends, x, m)
  BY <1>1, <1>2, <1>3, <1>4, <1>6, <1>8, <1>10, <1>11, <1>12, <1>13, <1>14, <1>15 DEF WalkFacts
<1> QED BY <1>16

\* n bytes are equal.
Alike(p, q, n) == \A i \in 0..(n - 1) : Byte(p + i) = Byte(q + i)

\* m is between a and b, which agree for n bytes.
Squeezing(a, m, b, n) ==
  /\ a \in Nat /\ m \in Nat /\ b \in Nat /\ n \in Nat /\ end \in Nat /\ input \in Text
  /\ end <= Len(input) /\ Precedes(input, a, m, end) /\ Precedes(input, m, b, end)
  /\ Alike(a, b, n)

\* A node between the two ends agrees with the walk's node where both ends do.
LEMMA AlikeBetween ==
  ASSUME NEW a, NEW m, NEW b, NEW n, Squeezing(a, m, b, n)
  PROVE  Alike(m, a, n)
<1>1. /\ a \in Nat /\ m \in Nat /\ b \in Nat /\ n \in Nat /\ end \in Nat /\ input \in Text
      /\ end <= Len(input) /\ Precedes(input, a, m, end) /\ Precedes(input, m, b, end)
  BY DEF Squeezing
<1>2. SameText(input, a, b, n) BY DEF Squeezing, Alike, Byte, SameText
<1>3. SameText(input, m, a, n) BY <1>1, <1>2, Squeezed
<1> QED BY <1>3 DEF Alike, Byte, SameText

\* n bytes agree, all before the end.
AlikeGiven(p, q, n) ==
  /\ p \in Nat /\ q \in Nat /\ n \in Nat /\ end \in Nat /\ p + n <= end /\ Alike(p, q, n)

\* A comparison may start after bytes that agree.
LEMMA AlikeMatching ==
  ASSUME NEW p, NEW q, NEW n, AlikeGiven(p, q, n)
  PROVE  n + Matching(p + n, q + n, end) = Matching(p, q, end)
<1>1. /\ p \in Nat /\ q \in Nat /\ n \in Nat /\ end \in Nat /\ p + n <= end
      /\ \A i \in 0..(n - 1) : Byte(p + i) = Byte(q + i)
  BY DEF AlikeGiven, Alike
<1> QED BY <1>1, MatchingFrom

\* What both ends have in common with the node, the next node has too.
LEMMA CommonHolds ==
  ASSUME TypeOK, NEW top, NEW role, NEW bound, NEW above, NEW ends,
         Shape(top, role, bound, above, ends), phase \in Walking,
         NEW x, NEW m, WalkFacts(top, role, bound, ends, x, m), m >= FrameLow,
         NEW common, common = Smaller(walk.common["smaller"], walk.common["larger"])
  PROVE  /\ common \in Nat /\ (x - FrameLow) + common <= end
         /\ \A i \in 0..(common - 1) :
              Byte((x - FrameLow) + i) = Byte((m - FrameLow) + i)
<1>1. /\ x \in Nat /\ m \in Nat /\ FrameLow \in Nat /\ end \in Nat /\ input \in Text
      /\ end <= Len(input) /\ x - FrameLow \in Nat /\ m - FrameLow \in Nat
      /\ x - FrameLow < end /\ role[m] # "none"
      /\ \A side \in Sides :
           /\ ends[side] \in Nat /\ ends[side] > 0 /\ ends[side] - FrameLow \in Nat
           /\ bound[side][m] = EndOf(ends[side], x)
           /\ walk.common[side] \in Nat
           /\ walk.common[side] = IF ends[side] = x THEN 0
                                  ELSE Matching(x - FrameLow, ends[side] - FrameLow, end)
  BY DEF WalkFacts
<1> PICK p \in Nat, q \in Nat : p = x - FrameLow /\ q = m - FrameLow BY <1>1
<1>2. "smaller" \in Sides /\ "larger" \in Sides BY DEF Sides
<1>3. common \in Nat BY <1>1, <1>2 DEF Smaller
<1>4. CASE common = 0 BY <1>1, <1>4
<1>5. CASE common # 0
  <2>1. /\ ends["smaller"] # x /\ ends["larger"] # x
    <3>1. ASSUME NEW side \in Sides, ends[side] = x PROVE FALSE
      <4>1. walk.common[side] = 0 BY <1>1, <3>1
      <4>2. walk.common["smaller"] = 0 \/ walk.common["larger"] = 0 BY <4>1 DEF Sides
      <4>3. walk.common["smaller"] \in Nat /\ walk.common["larger"] \in Nat BY <1>1, <1>2
      <4> QED BY <4>2, <4>3, <1>5 DEF Smaller
    <3> QED BY <3>1, <1>2
  <2> PICK a \in Nat, b \in Nat : a = ends["smaller"] - FrameLow /\ b = ends["larger"] - FrameLow
    BY <1>1, <1>2
  <2>2. /\ Precedes(input, a, q, end) /\ Precedes(input, q, b, end)
    <3>1. \A side \in Sides : bound[side][m] = ends[side] /\ bound[side][m] # 0
      BY SMTT(30), <1>1, <1>2, <2>1 DEF EndOf, Sides
    <3>2. \A side \in Sides : Lies(input, FrameLow, end, ends[side], side, m)
      BY <1>1, <3>1 DEF Shape, Bounds
    <3>3. Lies(input, FrameLow, end, ends["smaller"], "smaller", m)
          /\ Lies(input, FrameLow, end, ends["larger"], "larger", m)
      BY <1>2, <3>2
    <3> QED BY <3>3 DEF Lies
  <2>3. /\ Agrees(p, a, end, walk.common["smaller"])
        /\ Agrees(p, b, end, walk.common["larger"])
    <3>1. p <= end BY <1>1
    <3>2. /\ walk.common["smaller"] = Matching(p, a, end)
          /\ walk.common["larger"] = Matching(p, b, end)
      BY <1>1, <1>2, <2>1
    <3> QED BY <1>1, <3>1, <3>2, MatchingIs
  <2>4. common <= walk.common["smaller"] /\ common <= walk.common["larger"]
        /\ walk.common["smaller"] \in Nat /\ walk.common["larger"] \in Nat
    <3> PICK s, l : s = walk.common["smaller"] /\ l = walk.common["larger"] OBVIOUS
    <3>1. s \in Nat /\ l \in Nat /\ common = Smaller(s, l) BY <1>1, <1>2
    <3>2. common <= s /\ common <= l BY <3>1 DEF Smaller
    <3> QED BY <3>1, <3>2
  <2>5. \A i \in 0..(common - 1) : Byte(p + i) = Byte(a + i) /\ Byte(p + i) = Byte(b + i)
    BY <1>3, <2>3, <2>4 DEF Agrees
  <2>6. Alike(a, b, common) BY <2>5 DEF Alike
  <2>7. Squeezing(a, q, b, common) BY <1>1, <1>3, <2>2, <2>6 DEF Squeezing
  <2>8. \A i \in 0..(common - 1) : Byte(q + i) = Byte(a + i)
    <3>1. Alike(q, a, common) BY <2>7, AlikeBetween
    <3> QED BY <3>1 DEF Alike
  <2>9. p + common <= end
    <3>1. walk.common["smaller"] \in 0..(end - p) BY <2>3 DEF Agrees
    <3> QED BY SMTT(30), <1>1, <1>3, <2>4, <3>1
  <2> QED BY <1>3, <2>5, <2>8, <2>9
<1> QED BY <1>3, <1>4, <1>5

\* A length that is compared is the number of equal bytes.
LEMMA LengthIs ==
  ASSUME TypeOK, CacheTrue, NEW top, NEW role, NEW bound, NEW above, NEW ends,
         Shape(top, role, bound, above, ends), phase \in Walking,
         NEW x, NEW m, WalkFacts(top, role, bound, ends, x, m), m >= FrameLow
  PROVE  /\ ComparedLength = Matching(x - FrameLow, m - FrameLow, end)
         /\ Agrees(x - FrameLow, m - FrameLow, end, ComparedLength)
         /\ At = x - FrameLow /\ Matched = m - FrameLow
<1>1. /\ x \in Nat /\ m \in Nat /\ FrameLow \in Nat /\ FrameLow >= 2 /\ end \in Nat
      /\ x - FrameLow \in Nat /\ m - FrameLow \in Nat
      /\ x - FrameLow < end /\ x = walk.node /\ m = walk.match /\ FrameLow <= x
  BY DEF WalkFacts
<1>2. \A i \in Int : Index(i) = FrameLow + i /\ Unbiased(i) = i - FrameLow BY Ranges
<1> PICK p \in Nat, q \in Nat : p = x - FrameLow /\ q = m - FrameLow BY <1>1
<1>3. At = p /\ Matched = q BY <1>1, <1>2 DEF At, Matched
<1>4. ComparedLength = Matching(p, q, end)
  <2>1. CASE Hits
    <3>1. /\ phase = "insert" /\ Cached[1] = x - 1 /\ Cached[2] = m - 1 /\ Cached[3] # 0
      BY <1>1, <2>1 DEF Hits
    <3>2. kind # "lazy" BY <3>1 DEF Shape, Course
    <3>3. (x - 1) % 2 \in 0..1 /\ (m - 1) % CacheSize \in 0..(CacheSize - 1)
      <4>1. CacheSize \in Nat \ {0} BY ConstantsAssumption DEF ConstantsAssumption
      <4>2. x - 1 \in Int /\ m - 1 \in Int BY <1>1
      <4>3. (m - 1) % CacheSize \in 0..(CacheSize - 1) BY <4>1, <4>2, InRing
      <4>4. (x - 1) % 2 \in 0..(2 - 1) BY <4>2, InRing
      <4> QED BY <4>3, <4>4
    <3>4. Cached = cache[(x - 1) % 2][(m - 1) % CacheSize] BY <1>1 DEF Cached
    <3> PICK e : e = Cached OBVIOUS
    <3>5. /\ FrameLow <= e[2] /\ e[2] < e[1] /\ e[1] < Index(end)
          /\ Matching(Unbiased(e[1]), Unbiased(e[2]), end) = e[3]
      BY <3>1, <3>2, <3>3, <3>4 DEF CacheTrue
    <3>6. /\ FrameLow <= m - 1 /\ m - 1 < x - 1 /\ x - 1 < Index(end)
          /\ Matching(Unbiased(x - 1), Unbiased(m - 1), end) = e[3]
      BY <3>1, <3>5
    <3>7. Unbiased(x - 1) = (x - 1) - FrameLow /\ Unbiased(m - 1) = (m - 1) - FrameLow
          /\ Index(end) = FrameLow + end
      <4>1. x - 1 \in Int /\ m - 1 \in Int BY <1>1
      <4> QED BY <4>1, <1>1, <1>2
    <3> PICK u \in Nat, v \in Nat : u = (x - 1) - FrameLow /\ v = (m - 1) - FrameLow
      BY <1>1, <3>6
    <3>8. u < end /\ u + 1 = p /\ v + 1 = q BY <1>1, <3>6, <3>7
    <3>9. Matching(u, v, end) = e[3] BY <3>6, <3>7
    <3>10. Matching(u + 1, v + 1, end) = Matching(u, v, end) - 1
      BY SMTT(30), <1>1, <3>1, <3>8, <3>9, MatchingAfter
    <3>11. ComparedLength = e[3] - 1 BY <2>1 DEF ComparedLength
    <3> QED BY <3>8, <3>9, <3>10, <3>11
  <2>2. CASE ~Hits
    <3> PICK common : common = Smaller(walk.common["smaller"], walk.common["larger"]) OBVIOUS
    <3>1. /\ common \in Nat /\ p + common <= end
          /\ \A i \in 0..(common - 1) : Byte(p + i) = Byte(q + i)
      BY CommonHolds
    <3>2. common + Matching(p + common, q + common, end) = Matching(p, q, end)
      <4>1. end \in Nat BY <1>1
      <4>2. AlikeGiven(p, q, common) BY <4>1, <3>1 DEF AlikeGiven, Alike
      <4> QED BY <4>2, AlikeMatching
    <3>3. ComparedLength = common + Matching(p + common, q + common, end)
      BY <1>3, <2>2 DEF ComparedLength
    <3> QED BY <3>2, <3>3
  <2> QED BY <2>1, <2>2
<1>5. Agrees(p, q, end, Matching(p, q, end))
  <2>1. p <= end BY <1>1
  <2> QED BY <2>1, <1>1, MatchingIs
<1> QED BY <1>3, <1>4, <1>5

----------------------------------------------------------------------------
(* The end of a walk.                                                      *)

\* What the roles and bounds may differ in from the ones before, at m alone.
Settles(top, role, bound, above, r, b, m) ==
  /\ r \in [Nat -> Roles] /\ b \in [Sides -> [Nat -> Nat]]
  /\ Nodes(FrameLow, top, end, r, b) /\ Bounds(input, FrameLow, end, r, b)
  /\ \A i \in Nat : r[i] = role[i] \/ (i = m /\ r[i] = "sorted" /\ role[i] \notin {"none", "stacked"})
  /\ \A h \in Hashes : heads[h] >= FrameLow =>
       \A side \in Sides : b[side][heads[h]] = bound[side][heads[h]]

\* The trees after a step that leaves no end open.
Closed(top, role, bound, above, r, b, m) ==
  /\ Settles(top, role, bound, above, r, b, m)
  /\ Trees(tree', {}, FrameLow, top, r, b)
  /\ Lists(input, tree', FrameLow, top, r, b, above)
  /\ \A i \in Stacked(role) : tree'[Slot(i)] = tree[Slot(i)]

\* The heads are the same when nothing but the node compared has settled.
LEMMA SettledHeads ==
  ASSUME TypeOK, NEW top, NEW role, NEW bound, NEW above, NEW ends,
         Shape(top, role, bound, above, ends), NEW r, NEW b, NEW m,
         Settles(top, role, bound, above, r, b, m)
  PROVE  Heads(input, heads, FrameLow, r, b, above)
<1> SUFFICES ASSUME NEW h \in Hashes
             PROVE  Referred(input, FrameLow, r, b, above, heads[h], 0, h)
  BY DEF Heads
<1>1. Referred(input, FrameLow, role, bound, above, heads[h], 0, h) BY DEF Shape, Heads
<1>2. heads[h] \in Nat /\ (heads[h] >= FrameLow => role[heads[h]] # "none") BY ShapeIs
<1>3. heads[h] >= FrameLow => r[heads[h]] # "none" BY <1>2 DEF Settles
<1>4. heads[h] >= FrameLow => \A side \in Sides : b[side][heads[h]] = bound[side][heads[h]]
  BY DEF Settles
<1> QED BY <1>1, <1>3, <1>4, ReferredKept

\* A node of the stack is sorted: the next one's list ends in the tree.
LEMMA ResortStacks ==
  ASSUME TypeOK, NEW top, NEW role, NEW bound, NEW above, NEW ends,
         Shape(top, role, bound, above, ends), phase = "sort",
         NEW r, NEW b, NEW m, Closed(top, role, bound, above, r, b, m),
         phase' = "resort", candidate' = previous,
         UNCHANGED <<input, base, target, heads>>
  PROVE  Stacks(r)'
<1>1. StackFacts(top, role, above, bound) BY StackFactsHold DEF Sorting
<1> PICK x : x = candidate OBVIOUS
<1> PICK p : p = previous OBVIOUS
<1>2. /\ walk.node = x /\ Stack(role, p)
      /\ p # 0 => Left(p) = x
      /\ Root \in Stacked(role) \cup {x}
  BY DEF Shape, Stacks, Sorting
<1>3. role[x] = "sorted" /\ x \in Nat
  <2>1. role[walk.node] = "sorted" BY DEF Shape, Walk, Walking
  <2> QED BY <2>1, <1>2 DEF TypeOK, StackOK
<1>4. r[x] = "sorted" BY <1>3 DEF Closed, Settles
<1>5. Stacked(r) = Stacked(role) BY DEF Closed, Settles, Stacked
<1>6. UnsortedLimit' = UnsortedLimit /\ Root' = Root
  BY DEF UnsortedLimit, TreeLow, WindowLow, FrameLow, Root, Hash, Unbiased
<1>7. \A i \in Stacked(role) : Left(i)' = Left(i) BY DEF Closed, Left, Slot
<1>8. candidate' = p OBVIOUS
<1>9. \A i \in Stacked(r) : i > UnsortedLimit BY <1>1, <1>5 DEF StackFacts
<1>10. Stack(r, p)' BY <1>2, <1>5, <1>7 DEF Stack
<1>11. p = 0 => Root = x BY <1>2 DEF Stack
<1>12. p # 0 => p \in Stacked(role) /\ Left(p) = x BY <1>2 DEF Stack
<1>13. p # 0 => Root \in Stacked(r)
  <2> SUFFICES ASSUME p # 0 PROVE Root # x BY <1>2, <1>5
  <2>1. FrameLow <= x BY <1>3, ShapeIs
  <2>2. above[x] = p BY <1>1, <1>12, <2>1 DEF StackFacts
  <2>3. Root >= FrameLow => above[Root] = 0 BY <1>1 DEF StackFacts
  <2> QED BY <2>1, <2>2, <2>3
<1>14. Stack(r, candidate)' BY <1>8, <1>10 DEF Stack
<1>15. p = 0 => Given(r, Root)' BY <1>4, <1>6, <1>11 DEF Given
<1>16. p # 0 => Given(r, Left(candidate))'
  <2>1. p # 0 => Left(p)' = x BY <1>7, <1>12
  <2>2. Left(candidate)' = Left(p)' BY <1>8 DEF Left
  <2> QED BY <2>1, <2>2, <1>4 DEF Given
<1> QED BY <1>6, <1>8, <1>9, <1>13, <1>14, <1>15, <1>16 DEF Stacks

\* The course of the search after a walk.
LEMMA FinishCourse ==
  ASSUME TypeOK, TypeOK', NEW top, NEW role, NEW bound, NEW above, NEW ends,
         Shape(top, role, bound, above, ends), phase \in Walking,
         NEW r, NEW m, NEW best \in Nat, NEW reach \in Nat, Finish(best, reach),
         reach > walk.node + Slack, r[target] = role[target] \/ role[target] # "none",
         UNCHANGED <<kind, input, base, end, target>>
  PROVE  Course(top, r)'
<1>1. /\ FrameLow' = FrameLow /\ Index(Limit)' = Index(Limit) /\ Index(end)' = Index(end)
      /\ FrameLow \in Nat /\ next \in Nat /\ target \in Nat
  BY Ranges DEF FrameLow, Index, Limit
<1>2. Slack \in Nat BY ConstantsAssumption DEF ConstantsAssumption
<1>3. walk.node \in Nat /\ phase # "idle" /\ phase \notin {"idle", "ready"}
  BY DEF TypeOK, WalkOK, Way, Walking
<1>4. /\ top \in Nat /\ FrameLow <= top + 1 /\ FrameLow <= next
      /\ phase \in {"insert", "main"} => top = next /\ walk.node = next
      /\ phase = "insert" => top < target /\ kind # "lazy"
      /\ phase \in Sorting => top = target /\ role[target] = "none" /\ kind = "lazy"
      /\ phase \in Sorting \cup {"repeats", "main"} => next = target
      /\ target <= Index(Limit) /\ Index(end) <= MaxIndex
  BY <1>3 DEF Shape, Course
<1>5. CASE phase = "insert"
  <2>1. phase' = "update" /\ next' = next + Larger(1, Forward(best, reach)) BY <1>5 DEF Finish
  <2>2. Larger(1, Forward(best, reach)) >= 1
    <3>1. Forward(best, reach) \in Int
      <4>1. RunSkip \in Nat /\ RunLength \in Nat BY ConstantsAssumption DEF ConstantsAssumption
      <4>2. reach - (walk.node + Slack) \in Int BY <1>2, <1>3
      <4>3. (IF best > RunLength THEN Smaller(RunSkip, best - RunLength) ELSE 0) \in Int
        BY <4>1 DEF Smaller
      <4> QED BY <4>2, <4>3 DEF Forward, Larger
    <3> QED BY <3>1 DEF Larger
  <2>3. Larger(1, Forward(best, reach)) \in Int
    <3>1. Forward(best, reach) \in Int
      <4>1. RunSkip \in Nat /\ RunLength \in Nat BY ConstantsAssumption DEF ConstantsAssumption
      <4>2. reach - (walk.node + Slack) \in Int BY <1>2, <1>3
      <4>3. (IF best > RunLength THEN Smaller(RunSkip, best - RunLength) ELSE 0) \in Int
        BY <4>1 DEF Smaller
      <4> QED BY <4>2, <4>3 DEF Forward, Larger
    <3> QED BY <3>1 DEF Larger
  <2> PICK n \in Int : n = Larger(1, Forward(best, reach)) BY <2>3
  <2>4. next' = next + n /\ n >= 1 BY <2>1, <2>2
  <2> PICK u : u = next + n OBVIOUS
  <2>5. next' = u BY <2>4
  <2>6. top < u /\ FrameLow <= u BY <1>1, <1>4, <1>5, <2>4
  <2>7. top < next' /\ FrameLow' <= next' BY <2>5, <2>6, <1>1
  <2>8. FrameLow' <= top + 1 /\ target' <= Index(Limit)' /\ Index(end)' <= MaxIndex
    BY <1>1, <1>4
  <2>9. top < target' /\ kind' # "lazy" BY <1>4, <1>5
  <2> QED BY <1>4, <2>1, <2>7, <2>8, <2>9 DEF Course, Sorting
<1>6. CASE phase = "sort"
  <2>1. phase' = "resort" /\ next' = next BY <1>6 DEF Finish
  <2>2. top = target' /\ r[target'] = "none" /\ kind' = "lazy" /\ next' = target'
    BY <1>4, <1>6, <2>1 DEF Sorting
  <2>3. FrameLow' <= top + 1 /\ FrameLow' <= next' /\ target' <= Index(Limit)' /\ Index(end)' <= MaxIndex
    BY <1>1, <1>4, <2>1
  <2> QED BY <1>4, <2>1, <2>2, <2>3 DEF Course, Sorting
<1>7. CASE phase = "main"
  <2>1. phase' = "ready" /\ next' = reach - Slack BY <1>7 DEF Finish
  <2> PICK u : u = reach - Slack OBVIOUS
  <2>2. next' = u BY <2>1
  <2>3. top < u /\ FrameLow <= u
    <3>1. top = walk.node /\ FrameLow <= walk.node BY <1>4, <1>7
    <3> QED BY <3>1, <1>1, <1>2, <1>3
  <2>4. top < next' /\ FrameLow' <= next' BY <2>2, <2>3, <1>1
  <2>5. FrameLow' <= top + 1 /\ Index(end)' <= MaxIndex BY <1>1, <1>4
  <2> QED BY <1>4, <2>1, <2>4, <2>5 DEF Course, Sorting
<1> QED BY <1>5, <1>6, <1>7 DEF Walking

\* A walk whose ends are closed is over.
LEMMA FinishKeeps ==
  ASSUME TypeOK, TypeOK', NEW top, NEW role, NEW bound, NEW above, NEW ends,
         Shape(top, role, bound, above, ends), phase \in Walking,
         NEW r, NEW b, NEW m, Closed(top, role, bound, above, r, b, m),
         NEW best \in Nat, NEW reach \in Nat, Finish(best, reach), reach > walk.node + Slack,
         UNCHANGED <<kind, input, base, end, target, heads>>
  PROVE  Shape(top, r, b, above, ends)'
<1>1. /\ FrameLow' = FrameLow /\ top \in Nat /\ above \in [Nat -> Nat] /\ ends \in [Sides -> Nat]
  BY ShapeIs DEF FrameLow
<1>2. phase' \in {"update", "resort", "ready"} /\ (phase' = "resort" <=> phase = "sort")
      /\ (phase' = "resort" => candidate' = previous)
  BY DEF Finish
<1>3. Shaped(r, b, above, ends) BY <1>1 DEF Closed, Settles, Shaped
<1>4. Opens' = {} BY <1>2 DEF Opens, Walking
<1>5. Heads(input, heads, FrameLow, r, b, above) BY SettledHeads DEF Closed
<1>6. Course(top, r)'
  <2>1. target \in Nat BY Ranges
  <2>2. r[target] = role[target] \/ role[target] # "none" BY <2>1 DEF Closed, Settles
  <2> QED BY <2>2, FinishCourse
<1>7. OnlyWhen(r)'
  <2>1. OnlyWhen(role) BY DEF Shape
  <2>2. ASSUME NEW i \in Nat, r[i] \in {"listed", "stacked"} PROVE r[i] = role[i]
    BY <2>2 DEF Closed, Settles
  <2>3. \A i \in Nat : r[i] \in {"listed", "stacked"} => kind' = "lazy" BY <2>1, <2>2 DEF OnlyWhen
  <2>4. \A i \in Nat : r[i] = "stacked" => phase' \in Sorting
    BY <2>1, <2>2, <1>2 DEF OnlyWhen, Sorting, Walking
  <2> QED BY <2>3, <2>4 DEF OnlyWhen
<1>8. Stacks(r)'
  <2>1. CASE phase = "sort" BY <2>1, <1>2, ResortStacks
  <2>2. CASE phase # "sort" BY <2>2, <1>2 DEF Stacks, Sorting
  <2> QED BY <2>1, <2>2
<1>9. Walk(top, r, b, above, ends)' /\ Unlisted(top, r)' BY <1>2 DEF Walk, Unlisted, Walking
<1>10. /\ Nodes(FrameLow, top, end, r, b) /\ Bounds(input, FrameLow, end, r, b)
       /\ Trees(tree', {}, FrameLow, top, r, b)
       /\ Lists(input, tree', FrameLow, top, r, b, above)
  BY DEF Closed, Settles
<1>11. Trees(tree, Opens, FrameLow, top, r, b)'
  BY <1>1, <1>4, <1>10 DEF Trees, Child, Owned, Slot
<1>12. /\ Nodes(FrameLow, top, end, r, b)' /\ Bounds(input, FrameLow, end, r, b)'
       /\ Heads(input, heads, FrameLow, r, b, above)'
       /\ Lists(input, tree, FrameLow, top, r, b, above)'
  BY <1>1, <1>5, <1>10 DEF Nodes, Bounds, Heads, Lists
<1> QED BY <1>3, <1>6, <1>7, <1>8, <1>9, <1>11, <1>12 DEF Shape

\* A node that waits keeps its links: the ends of a walk are sorted.
LEMMA StackedApart ==
  ASSUME TypeOK, NEW top, NEW role, NEW bound, NEW above, NEW ends,
         Shape(top, role, bound, above, ends), phase \in Walking,
         NEW j \in Nat, role[j] = "sorted", Owned(top, j), NEW i \in Stacked(role)
  PROVE  Slot(i) # Slot(j) /\ Slot(i) \in 0..(TreeSize - 1)
<1>1. i \in Nat /\ role[i] = "stacked" BY DEF Stacked
<1>2. phase \in Sorting BY <1>1 DEF Shape, OnlyWhen
<1>3. StackFacts(top, role, above, bound) BY <1>2, StackFactsHold
<1>4. Owned(top, i) BY <1>1, <1>3 DEF StackFacts
<1>5. /\ top \in Nat /\ \A k \in Nat : role[k] # "none" => k <= top BY ShapeIs
<1>6. i <= top /\ j <= top /\ i # j BY <1>1, <1>5
<1> QED BY <1>1, <1>4, <1>5, <1>6, OwnApart, SlotIn

\* Both ends are closed where the walk meets nothing.
LEMMA BothClosed ==
  ASSUME TypeOK, NEW top, NEW role, NEW bound, NEW above, NEW ends,
         Shape(top, role, bound, above, ends), phase \in Walking,
         NEW x, NEW m, WalkFacts(top, role, bound, ends, x, m),
         tree' = Link(Link(tree, walk.smaller, 0), walk.larger, 0)
  PROVE  tree' \in Forest /\ Closed(top, role, bound, above, role, bound, m)
<1>1. /\ top \in Nat /\ FrameLow \in Nat /\ Mark < FrameLow /\ role \in [Nat -> Roles]
      /\ bound \in [Sides -> [Nat -> Nat]] /\ tree \in Forest
  BY ShapeIs, Ranges DEF TypeOK, TableOK
<1>2. /\ EndsIn(FrameLow, top, role, bound, x, ends)
      /\ \A side \in Sides : ends[side] \in Nat /\ walk[side] = OpenAt(ends, x, side)
      /\ Opens = Openings(ends, x)
  BY DEF WalkFacts
<1>3. "smaller" \in Sides /\ "larger" \in Sides BY DEF Sides
<1> PICK d, e : d = ends["smaller"] /\ e = ends["larger"] OBVIOUS
<1> PICK y, z : /\ y = IF d = x THEN "smaller" ELSE Other("smaller")
                /\ z = IF e = x THEN "larger" ELSE Other("larger")
  OBVIOUS
<1>4. y \in Sides /\ z \in Sides BY DEF Sides, Other
<1>5. walk.smaller = <<Slot(d), y>> /\ walk.larger = <<Slot(e), z>>
  <2>1. walk["smaller"] = OpenAt(ends, x, "smaller") /\ walk["larger"] = OpenAt(ends, x, "larger")
    BY <1>2, <1>3
  <2> QED BY <2>1 DEF OpenAt
<1>6. /\ d \in Nat /\ e \in Nat /\ role[d] = "sorted" /\ role[e] = "sorted"
      /\ Owned(top, d) /\ Owned(top, e)
  BY <1>2, <1>3 DEF EndsIn
<1>7. /\ Nodes(FrameLow, top, end, role, bound) /\ Bounds(input, FrameLow, end, role, bound)
      /\ Trees(tree, Opens, FrameLow, top, role, bound)
      /\ Lists(input, tree, FrameLow, top, role, bound, above)
  BY DEF Shape
<1> PICK mid : mid = Link(tree, <<Slot(d), y>>, 0) OBVIOUS
<1>8. /\ mid \in Forest
      /\ Trees(mid, Opens \ {<<Slot(d), y>>}, FrameLow, top, role, bound)
      /\ Lists(input, mid, FrameLow, top, role, bound, above)
  <2>1. ClosedGiven(FrameLow, end, top, input, role, bound, above, tree, d, y, Opens)
    BY <1>1, <1>4, <1>6, <1>7 DEF ClosedGiven
  <2> QED BY <2>1, ClosedHolds
<1> PICK new : new = Link(mid, <<Slot(e), z>>, 0) OBVIOUS
<1>9. /\ new \in Forest
      /\ Trees(new, (Opens \ {<<Slot(d), y>>}) \ {<<Slot(e), z>>}, FrameLow, top, role, bound)
      /\ Lists(input, new, FrameLow, top, role, bound, above)
  <2>1. ClosedGiven(FrameLow, end, top, input, role, bound, above, mid, e, z, Opens \ {<<Slot(d), y>>})
    BY <1>1, <1>4, <1>6, <1>7, <1>8 DEF ClosedGiven
  <2> QED BY <2>1, ClosedHolds
<1>10. (Opens \ {<<Slot(d), y>>}) \ {<<Slot(e), z>>} = {}
  <2>1. Opens = {walk[side] : side \in Sides} BY DEF Opens
  <2>2. Opens \subseteq {walk.smaller, walk.larger} BY <2>1 DEF Sides
  <2> QED BY <2>2, <1>5
<1>11. tree' = new BY <1>5
<1>12. ASSUME NEW i \in Stacked(role) PROVE new[Slot(i)] = tree[Slot(i)]
  <2>1. Slot(i) # Slot(d) /\ Slot(i) # Slot(e) /\ Slot(i) \in 0..(TreeSize - 1)
    BY <1>6, StackedApart
  <2>2. LinkedAt(mid, tree, Slot(d), y, 0)
    BY <1>1, <1>4, <1>6, SlotIn, LinkAt
  <2>3. LinkedAt(new, mid, Slot(e), z, 0)
    BY <1>4, <1>6, <1>8, SlotIn, LinkAt
  <2> QED BY <2>1, <2>2, <2>3 DEF LinkedAt
<1>13. Settles(top, role, bound, above, role, bound, m) BY <1>1, <1>7 DEF Settles
<1> QED BY <1>9, <1>10, <1>11, <1>12, <1>13 DEF Closed

\* An old node, linked where it belongs, is left with the children it has.
LEMMA SunkClosed ==
  ASSUME TypeOK, NEW top, NEW role, NEW bound, NEW above, NEW ends,
         Shape(top, role, bound, above, ends), phase \in Walking,
         NEW x, NEW m, WalkFacts(top, role, bound, ends, x, m),
         walk.low < m, m <= walk.treeLow, m >= FrameLow,
         NEW side \in Sides, Lies(input, FrameLow, end, x, Other(side), m),
         tree' = Link(Link(tree, walk[side], m), walk[Other(side)], 0)
  PROVE  /\ tree' \in Forest
         /\ Closed(top, role, bound, above, Rooted(role, m), Rebound(bound, Other(side), m, x), m)
<1>1. /\ top \in Nat /\ FrameLow \in Nat /\ Mark < FrameLow /\ role \in [Nat -> Roles]
      /\ bound \in [Sides -> [Nat -> Nat]] /\ tree \in Forest /\ end \in Nat
      /\ above \in [Nat -> Nat] /\ ends \in [Sides -> Nat]
  BY ShapeIs, Ranges DEF TypeOK, TableOK
<1>2. /\ EndsIn(FrameLow, top, role, bound, x, ends)
      /\ \A z \in Sides : /\ ends[z] \in Nat /\ walk[z] = OpenAt(ends, x, z)
                          /\ m < ends[z] /\ bound[z][m] = EndOf(ends[z], x)
      /\ Opens = Openings(ends, x) /\ x \in Nat /\ m \in Nat /\ role[m] # "none"
      /\ ~Owned(top, m) /\ m = walk.match
  BY DEF WalkFacts
<1> PICK o \in Sides : o = Other(side) BY SidesAre
<1>3. /\ Nodes(FrameLow, top, end, role, bound) /\ Bounds(input, FrameLow, end, role, bound)
      /\ Trees(tree, Opens, FrameLow, top, role, bound)
      /\ Lists(input, tree, FrameLow, top, role, bound, above)
      /\ Unlisted(top, role)
  BY DEF Shape
<1>4. /\ \A h \in Hashes : heads[h] # m
      /\ \A i \in Nat : role[i] \in {"listed", "stacked"} /\ Owned(top, i) => Left(i) # m
  BY <1>2, <1>3 DEF Unlisted
<1>5. NextIn(FrameLow, role, bound, x, ends, m) BY <1>2 DEF NextIn
<1> PICK opens : opens = {OpenAt(ends, x, o)} OBVIOUS
<1> PICK mid : mid = Link(tree, OpenAt(ends, x, side), m) OBVIOUS
<1> PICK r, b : r = Rooted(role, m) /\ b = Rebound(bound, o, m, x) OBVIOUS
<1>6. /\ Nodes(FrameLow, top, end, r, b) /\ Bounds(input, FrameLow, end, r, b)
      /\ Trees(mid, opens, FrameLow, top, r, b)
      /\ Lists(input, mid, FrameLow, top, r, b, above)
      /\ mid \in Forest /\ r \in [Nat -> Roles] /\ b \in [Sides -> [Nat -> Nat]]
  <2>1. \A i \in Nat : role[i] \in {"listed", "stacked"} /\ Owned(top, i) =>
          tree[Slot(i)].smaller # m
    BY <1>4 DEF Left
  <2>2. SunkGiven(FrameLow, end, top, input, role, bound, above, ends, tree, x, m, side, opens)
    BY <1>1, <1>2, <1>3, <1>5, <2>1 DEF SunkGiven
  <2> QED BY <2>2, SunkHolds
<1> PICK e : e = ends[o] OBVIOUS
<1> PICK y : y = IF e = x THEN o ELSE Other(o) OBVIOUS
<1>7. y \in Sides /\ OpenAt(ends, x, o) = <<Slot(e), y>> /\ e \in Nat /\ role[e] = "sorted"
      /\ Owned(top, e)
  BY <1>2, SidesAre DEF OpenAt, EndsIn
<1>8. r[e] = "sorted" /\ \A i \in Nat : i # m => r[i] = role[i]
  BY <1>1, <1>2, <1>7 DEF Rooted
<1> PICK new : new = Link(mid, <<Slot(e), y>>, 0) OBVIOUS
<1>9. /\ new \in Forest
      /\ Trees(new, opens \ {<<Slot(e), y>>}, FrameLow, top, r, b)
      /\ Lists(input, new, FrameLow, top, r, b, above)
  <2>1. ClosedGiven(FrameLow, end, top, input, r, b, above, mid, e, y, opens)
    BY <1>1, <1>6, <1>7, <1>8 DEF ClosedGiven
  <2> QED BY <2>1, ClosedHolds
<1>10. opens \ {<<Slot(e), y>>} = {} BY <1>7
<1>11. tree' = new BY <1>2, <1>7
<1>12. ASSUME NEW i \in Stacked(role) PROVE new[Slot(i)] = tree[Slot(i)]
  <2> PICK d : d = ends[side] OBVIOUS
  <2> PICK z : z = IF d = x THEN side ELSE Other(side) OBVIOUS
  <2>1. z \in Sides /\ OpenAt(ends, x, side) = <<Slot(d), z>> /\ d \in Nat /\ role[d] = "sorted"
        /\ Owned(top, d)
    BY <1>2, SidesAre DEF OpenAt, EndsIn
  <2>2. Slot(i) # Slot(d) /\ Slot(i) # Slot(e) /\ Slot(i) \in 0..(TreeSize - 1)
    BY <1>7, <2>1, StackedApart
  <2>3. LinkedAt(mid, tree, Slot(d), z, m)
    BY SMTT(30), <1>1, <1>2, <2>1, SlotIn, LinkAt
  <2>4. LinkedAt(new, mid, Slot(e), y, 0)
    BY <1>6, <1>7, SlotIn, LinkAt
  <2> QED BY <2>2, <2>3, <2>4 DEF LinkedAt
<1>13. role[m] # "stacked"
  <2> SUFFICES ASSUME role[m] = "stacked" PROVE FALSE OBVIOUS
  <2>1. m \in Stacked(role) BY <1>2 DEF Stacked
  <2>2. phase \in Sorting BY <2>1 DEF Shape, OnlyWhen, Stacked
  <2>3. StackFacts(top, role, above, bound) BY <2>2, StackFactsHold
  <2> QED BY <1>2, <2>1, <2>3 DEF StackFacts
<1>14. Settles(top, role, bound, above, r, b, m)
  <2>1. \A i \in Nat : r[i] = role[i] \/ (i = m /\ r[i] = "sorted" /\ role[i] \notin {"none", "stacked"})
    BY <1>1, <1>2, <1>8, <1>13 DEF Rooted
  <2>2. ASSUME NEW h \in Hashes, NEW s \in Sides PROVE b[s][heads[h]] = bound[s][heads[h]]
    <3>1. heads[h] # m BY <1>4
    <3> QED BY <1>1, <3>1 DEF Rebound
  <2> QED BY <1>6, <2>1, <2>2 DEF Settles
<1> QED BY <1>9, <1>10, <1>11, <1>12, <1>14 DEF Closed

\* The types after a walk.
LEMMA FinishTypes ==
  ASSUME TypeOK, phase \in Walking, NEW best \in Nat, NEW reach \in Nat, Finish(best, reach),
         reach > walk.node + Slack
  PROVE  /\ next' \in Nat /\ candidate' \in Nat /\ previous' \in Nat /\ budget' \in Nat
         /\ phase' \in {"update", "resort", "ready"}
<1>1. /\ next \in Nat /\ candidate \in Nat /\ previous \in Nat /\ budget \in Nat /\ walk.node \in Nat
  BY DEF TypeOK, TableOK, StackOK, WalkOK, Way
<1>2. Slack \in Nat BY ConstantsAssumption DEF ConstantsAssumption
<1>3. CASE phase = "insert"
  <2>1. phase' = "update" /\ next' = next + Larger(1, Forward(best, reach)) /\ UNCHANGED stack
    BY <1>3 DEF Finish
  <2>2. Forward(best, reach) \in Int
    <3>1. RunSkip \in Nat /\ RunLength \in Nat BY ConstantsAssumption DEF ConstantsAssumption
    <3>2. reach - (walk.node + Slack) \in Int BY <1>1, <1>2
    <3>3. (IF best > RunLength THEN Smaller(RunSkip, best - RunLength) ELSE 0) \in Int
      BY <3>1 DEF Smaller
    <3> QED BY <3>2, <3>3 DEF Forward, Larger
  <2>3. Larger(1, Forward(best, reach)) \in Nat BY <2>2 DEF Larger
  <2>4. next + Larger(1, Forward(best, reach)) \in Nat BY <1>1, <2>3
  <2> QED BY <1>1, <2>1, <2>4 DEF stack
<1>4. CASE phase = "sort"
  <2>1. phase' = "resort" /\ candidate' = previous /\ budget' = budget + 1 /\ UNCHANGED <<next, previous>>
    BY <1>4 DEF Finish
  <2> QED BY <1>1, <2>1
<1>5. CASE phase = "main"
  <2>1. phase' = "ready" /\ next' = reach - Slack /\ UNCHANGED stack BY <1>5 DEF Finish
  <2>2. reach - Slack \in Nat BY <1>1, <1>2
  <2> QED BY <1>1, <2>1, <2>2 DEF stack
<1> QED BY <1>3, <1>4, <1>5 DEF Walking

\* A walk that ends with its nodes settled.
LEMMA EndKeeps ==
  ASSUME TypeOK, NEW top, NEW role, NEW bound, NEW above, NEW ends,
         Shape(top, role, bound, above, ends), phase \in Walking,
         NEW r, NEW b, NEW m, Closed(top, role, bound, above, r, b, m), tree' \in Forest,
         NEW best \in Nat, NEW reach \in Nat, Finish(best, reach), reach > walk.node + Slack,
         UNCHANGED <<block, base, next3, heads, hash3, position, target, tried>>,
         cache' \in Caches, longest' \in Nat, found' \in Match
  PROVE  /\ TypeOK'
         /\ CacheTrue' /\ MatchesAreReal' => IInv'
<1>1. TypeOK'
  <2>1. /\ next' \in Nat /\ candidate' \in Nat /\ previous' \in Nat /\ budget' \in Nat
        /\ phase' \in {"update", "resort", "ready"}
    BY FinishTypes
  <2>2. TableOK' BY <2>1 DEF TypeOK, TableOK
  <2>3. StackOK' BY <2>1 DEF TypeOK, StackOK, Phases, Sorting
  <2>4. ResultOK' BY DEF TypeOK, ResultOK
  <2>5. WalkOK' BY <2>1 DEF WalkOK, Walking
  <2>6. BlockOK' BY DEF TypeOK, BlockOK, block
  <2> QED BY <2>2, <2>3, <2>4, <2>5, <2>6 DEF TypeOK
<1>2. Shape(top, r, b, above, ends)' BY <1>1, FinishKeeps DEF block
<1>3. /\ top \in Nat /\ above \in [Nat -> Nat] /\ ends \in [Sides -> Nat]
      /\ r \in [Nat -> Roles] /\ b \in [Sides -> [Nat -> Nat]]
  BY ShapeIs DEF Closed, Settles
<1>4. phase' # "idle" BY DEF Finish
<1> QED BY <1>1, <1>2, <1>3, <1>4, InvariantBy

\* The walk stops: nothing to follow is left, or no attempt.
LEMMA StopKeeps ==
  ASSUME IInv, Stop
  PROVE  IInv'
<1>1. PICK top \in Nat, role \in [Nat -> Roles], bound \in [Sides -> [Nat -> Nat]],
           above \in [Nat -> Nat], ends \in [Sides -> Nat] : Shape(top, role, bound, above, ends)
  BY DEF IInv
<1>0. TypeOK BY DEF IInv
<1>2. /\ UNCHANGED <<block, base, next3, heads, hash3, cache, position, target, result>>
      /\ phase \in Walking /\ Finish(walk.best, walk.reach)
      /\ tree' = Link(Link(tree, walk.smaller, 0), walk.larger, 0)
  BY DEF Stop
<1> PICK x, m : x = walk.node /\ m = walk.match OBVIOUS
<1>3. WalkFacts(top, role, bound, ends, x, m) BY <1>0, <1>1, <1>2, WalkFactsHold
<1>4. tree' \in Forest /\ Closed(top, role, bound, above, role, bound, m)
  BY <1>0, <1>1, <1>2, <1>3, BothClosed
<1>5. walk.best \in Nat /\ walk.reach \in Nat /\ walk.reach > walk.node + Slack
  BY <1>3 DEF WalkFacts, Way
<1>6. cache' \in Caches /\ longest' \in Nat /\ found' \in Match
  BY <1>0, <1>2 DEF TypeOK, TableOK, ResultOK, result
<1>7. CacheTrue'
  <2>1. UNCHANGED <<kind, input, base, cache, end>> BY <1>2 DEF block
  <2>2. phase # "idle" BY <1>2 DEF Walking
  <2> QED BY <2>1, <2>2, CacheStays DEF IInv
<1>8. MatchesAreReal'
  <2>1. UNCHANGED <<found, target, base, end, input>> BY <1>2 DEF block, result
  <2> QED BY <2>1, FoundKept DEF IInv
<1>9. UNCHANGED tried BY <1>2 DEF result
<1> QED BY <1>0, <1>1, <1>2, <1>4, <1>5, <1>6, <1>7, <1>8, <1>9, EndKeeps

----------------------------------------------------------------------------
(* Down one side.                                                          *)

\* The walk one step down a side.
Onward(way, side, length, place, n, best, reach) ==
  [way EXCEPT !.common[side] = length, !.left = @ - 1, ![side] = place, !.match = n,
              !.best = best, !.reach = reach]

\* Its fields.
IsOnward(new, way, side, length, place, n, reach) ==
  /\ new \in Way /\ new.node = way.node /\ new.match = n
  /\ new.low = way.low /\ new.treeLow = way.treeLow /\ new.reach = reach
  /\ new[side] = place /\ new[Other(side)] = way[Other(side)]
  /\ new.common[side] = length /\ new.common[Other(side)] = way.common[Other(side)]

\* The fields of the walk a step later.
LEMMA OnwardIs ==
  ASSUME NEW way \in Way, way.left > 0, NEW side \in Sides, NEW length \in Nat,
         NEW place \in Places, NEW n \in Nat, NEW best \in Nat, NEW reach \in Nat
  PROVE  IsOnward(Onward(way, side, length, place, n, best, reach), way, side, length, place,
                  n, reach)
<1>1. way.left \in Nat /\ way.left - 1 \in Nat BY DEF Way
<1>2. "smaller" \in Sides /\ "larger" \in Sides BY DEF Sides
<1> PICK common : common = [way.common EXCEPT ![side] = length] OBVIOUS
<1>3. /\ common \in [Sides -> Nat] /\ common[side] = length
      /\ common[Other(side)] = way.common[Other(side)]
  <2>1. way.common \in [Sides -> Nat] BY DEF Way
  <2> QED BY <2>1, SidesAre
<1>4. CASE side = "smaller"
  <2> PICK w : w = [way EXCEPT !.common = common, !.left = way.left - 1, !.smaller = place,
                               !.match = n, !.best = best, !.reach = reach]
    OBVIOUS
  <2>1. Onward(way, side, length, place, n, best, reach) = w
    BY <1>4 DEF Onward, Way
  <2>2. w = [node |-> way.node, match |-> n, smaller |-> place, larger |-> way.larger,
             common |-> common, left |-> way.left - 1, low |-> way.low, treeLow |-> way.treeLow,
             best |-> best, reach |-> reach]
    BY DEF Way
  <2>3. w \in Way BY <1>1, <1>3, <2>2 DEF Way
  <2>4. /\ w.node = way.node /\ w.match = n /\ w.low = way.low /\ w.treeLow = way.treeLow
        /\ w.reach = reach /\ w.common = common /\ w["smaller"] = place /\ w["larger"] = way["larger"]
    BY <2>2
  <2>5. Other(side) = "larger" BY <1>4 DEF Other
  <2>6. w[side] = place /\ w[Other(side)] = way[Other(side)] BY <1>4, <2>4, <2>5
  <2>7. w.common[side] = length /\ w.common[Other(side)] = way.common[Other(side)]
    BY <1>3, <2>4
  <2>8. IsOnward(w, way, side, length, place, n, reach)
    BY <2>3, <2>4, <2>6, <2>7 DEF IsOnward
  <2> QED BY <2>1, <2>8
<1>5. CASE side = "larger"
  <2> PICK w : w = [way EXCEPT !.common = common, !.left = way.left - 1, !.larger = place,
                               !.match = n, !.best = best, !.reach = reach]
    OBVIOUS
  <2>1. Onward(way, side, length, place, n, best, reach) = w
    BY <1>5 DEF Onward, Way
  <2>2. w = [node |-> way.node, match |-> n, smaller |-> way.smaller, larger |-> place,
             common |-> common, left |-> way.left - 1, low |-> way.low, treeLow |-> way.treeLow,
             best |-> best, reach |-> reach]
    BY DEF Way
  <2>3. w \in Way BY <1>1, <1>3, <2>2 DEF Way
  <2>4. /\ w.node = way.node /\ w.match = n /\ w.low = way.low /\ w.treeLow = way.treeLow
        /\ w.reach = reach /\ w.common = common /\ w["larger"] = place /\ w["smaller"] = way["smaller"]
    BY <2>2
  <2>5. Other(side) = "smaller" BY <1>5 DEF Other
  <2>6. w[side] = place /\ w[Other(side)] = way[Other(side)] BY <1>5, <2>4, <2>5
  <2>7. w.common[side] = length /\ w.common[Other(side)] = way.common[Other(side)]
    BY <1>3, <2>4
  <2>8. IsOnward(w, way, side, length, place, n, reach)
    BY <2>3, <2>4, <2>6, <2>7 DEF IsOnward
  <2> QED BY <2>1, <2>8
<1> QED BY <1>4, <1>5 DEF Sides

\* A walk that goes on below m, which its node x sends to one side.
Deepens(top, role, bound, ends, x, m, side, length) ==
  /\ WalkFacts(top, role, bound, ends, x, m)
  /\ m > walk.treeLow /\ m > walk.low /\ side \in Sides
  /\ Lies(input, FrameLow, end, x, Other(side), m)
  /\ length \in Nat /\ length = Matching(x - FrameLow, m - FrameLow, end)
  /\ tree' = Link(tree, walk[side], m)

\* The node below m, and what is known of it.
Deeper(top, role, bound, above, b, ends, f, x, m, side, n) ==
  /\ b \in [Sides -> [Nat -> Nat]] /\ f \in [Sides -> Nat] /\ n \in Nat /\ tree' \in Forest
  /\ f[side] = m /\ f[Other(side)] = ends[Other(side)]
  /\ n = tree'[Slot(m)][Other(side)] /\ n < m
  /\ n >= FrameLow => /\ role[n] = "sorted" /\ b[side][n] = m
                      /\ b[Other(side)][n] = EndOf(ends[Other(side)], x)
  /\ b[Other(side)][m] = x
  /\ \A z \in Sides, i \in Nat : i # m => b[z][i] = bound[z][i]
  /\ \A i \in Nat : b[side][i] = bound[side][i]
  /\ Nodes(FrameLow, top, end, role, b) /\ Bounds(input, FrameLow, end, role, b)
  /\ Trees(tree', Openings(f, x), FrameLow, top, role, b)
  /\ Lists(input, tree', FrameLow, top, role, b, above)
  /\ \A i \in Stacked(role) : tree'[Slot(i)] = tree[Slot(i)]

\* Going down one side keeps the trees.
LEMMA DeepIs ==
  ASSUME TypeOK, NEW top, NEW role, NEW bound, NEW above, NEW ends,
         Shape(top, role, bound, above, ends), phase \in Walking,
         NEW x, NEW m, NEW side, NEW length,
         Deepens(top, role, bound, ends, x, m, side, length)
  PROVE  Deeper(top, role, bound, above, Rebound(bound, Other(side), m, x), ends,
                [ends EXCEPT ![side] = m], x, m, side, tree'[Slot(m)][Other(side)])
<1>1. /\ top \in Nat /\ FrameLow \in Nat /\ Mark < FrameLow /\ role \in [Nat -> Roles]
      /\ bound \in [Sides -> [Nat -> Nat]] /\ tree \in Forest /\ end \in Nat
      /\ above \in [Nat -> Nat] /\ ends \in [Sides -> Nat]
      /\ \A i \in Nat : role[i] # "none" => i <= top
  BY ShapeIs, Ranges DEF TypeOK, TableOK
<1>2. /\ EndsIn(FrameLow, top, role, bound, x, ends)
      /\ \A z \in Sides : /\ ends[z] \in Nat /\ walk[z] = OpenAt(ends, x, z)
                          /\ m < ends[z] /\ (m >= FrameLow => bound[z][m] = EndOf(ends[z], x))
      /\ Opens = Openings(ends, x) /\ x \in Nat /\ m \in Nat /\ m = walk.match
      /\ m < x
  BY SidesAre DEF Deepens, WalkFacts, Sides
<1>3. /\ role[m] = "sorted" /\ Owned(top, m) /\ m >= FrameLow
      /\ side \in Sides /\ Lies(input, FrameLow, end, x, Other(side), m)
      /\ tree' = Link(tree, walk[side], m)
  BY DEF Deepens, WalkFacts
<1> PICK o \in Sides : o = Other(side) /\ Other(o) = side /\ o # side BY <1>3, SidesAre
<1>4. /\ Nodes(FrameLow, top, end, role, bound) /\ Bounds(input, FrameLow, end, role, bound)
      /\ Trees(tree, Opens, FrameLow, top, role, bound)
      /\ Lists(input, tree, FrameLow, top, role, bound, above)
      /\ Unlisted(top, role)
  BY DEF Shape
<1>5. \A i \in Nat : role[i] \in {"listed", "stacked"} /\ Owned(top, i) => tree[Slot(i)].smaller # m
  BY <1>2, <1>3, <1>4 DEF Unlisted, Left
<1>6. NextIn(FrameLow, role, bound, x, ends, m) BY <1>2, <1>3 DEF NextIn
<1> PICK f : f = [ends EXCEPT ![side] = m] OBVIOUS
<1>7. f \in [Sides -> Nat] /\ f[side] = m /\ f[o] = ends[o] BY <1>1, <1>2, <1>3
<1> PICK b : b = Rebound(bound, o, m, x) OBVIOUS
<1>8. Rooted(role, m) = role BY <1>1, <1>2, <1>3 DEF Rooted
<1>9. OpenAt(ends, x, o) \in Openings(f, x) /\ <<Slot(m), o>> \in Openings(f, x)
  <2>1. OpenAt(f, x, o) = OpenAt(ends, x, o) BY <1>7 DEF OpenAt
  <2>2. OpenAt(f, x, side) = <<Slot(m), o>> BY <1>2, <1>7 DEF OpenAt
  <2> QED BY <2>1, <2>2, <1>3 DEF Openings
<1>10. /\ Nodes(FrameLow, top, end, role, b) /\ Bounds(input, FrameLow, end, role, b)
       /\ Trees(tree', Openings(f, x), FrameLow, top, role, b)
       /\ Lists(input, tree', FrameLow, top, role, b, above)
       /\ tree' \in Forest /\ b \in [Sides -> [Nat -> Nat]]
  <2> PICK opens : opens = Openings(f, x) OBVIOUS
  <2> PICK mid : mid = Link(tree, OpenAt(ends, x, side), m) OBVIOUS
  <2> PICK r : r = Rooted(role, m) OBVIOUS
  <2>1. SunkGiven(FrameLow, end, top, input, role, bound, above, ends, tree, x, m, side, opens)
    BY <1>1, <1>2, <1>3, <1>4, <1>5, <1>6, <1>9 DEF SunkGiven
  <2>2. /\ Nodes(FrameLow, top, end, r, b) /\ Bounds(input, FrameLow, end, r, b)
        /\ Trees(mid, opens, FrameLow, top, r, b)
        /\ Lists(input, mid, FrameLow, top, r, b, above)
        /\ mid \in Forest /\ b \in [Sides -> [Nat -> Nat]]
    BY <2>1, SunkHolds
  <2>3. mid = tree' /\ r = role BY <1>2, <1>3, <1>8
  <2> QED BY <2>2, <2>3
<1> PICK d : d = ends[side] OBVIOUS
<1> PICK z : z = IF d = x THEN side ELSE o OBVIOUS
<1>11. z \in Sides /\ walk[side] = <<Slot(d), z>> /\ d \in Nat /\ role[d] = "sorted"
       /\ Owned(top, d) /\ d # m /\ m < d
  BY <1>2, <1>3 DEF OpenAt, EndsIn
<1>12. LinkedAt(tree', tree, Slot(d), z, m)
  BY SMTT(30), <1>1, <1>2, <1>3, <1>11, SlotIn, LinkAt
<1>13. \A s \in Sides : Slot(ends[s]) # Slot(m)
  <2> TAKE s \in Sides
  <2>1. ends[s] \in Nat /\ role[ends[s]] # "none" /\ Owned(top, ends[s]) /\ ends[s] # m
    BY <1>2 DEF EndsIn
  <2>2. ends[s] <= top /\ m <= top BY <1>1, <1>2, <1>3, <2>1
  <2> QED BY <1>1, <1>2, <1>3, <2>1, <2>2, OwnApart
<1> PICK n : n = tree[Slot(m)][o] OBVIOUS
<1>14. n = tree'[Slot(m)][o] /\ n \in Nat
  <2>1. Slot(m) \in 0..(TreeSize - 1) /\ Slot(m) # Slot(d) BY <1>2, <1>3, <1>13, SlotIn
  <2>2. tree'[Slot(m)] = tree[Slot(m)] BY <1>12, <2>1 DEF LinkedAt
  <2>3. tree[Slot(m)][o] \in Nat BY <1>1, <1>2, NodeIn
  <2> QED BY <2>2, <2>3
<1>15. Child(FrameLow, role, bound, m, o, n)
  <2>1. <<Slot(m), o>> \notin Opens
    <3> SUFFICES ASSUME <<Slot(m), o>> \in Openings(ends, x) PROVE FALSE BY <1>2
    <3>1. PICK s \in Sides : <<Slot(m), o>> = OpenAt(ends, x, s) BY DEF Openings
    <3>2. Slot(m) = Slot(ends[s]) BY <3>1 DEF OpenAt
    <3> QED BY <3>2, <1>13
  <2> QED BY <2>1, <1>2, <1>3, <1>4 DEF Trees
<1>16. /\ n < m
       /\ n >= FrameLow => role[n] = "sorted" /\ bound[side][n] = m /\ bound[o][n] = bound[o][m]
  <2>1. n >= FrameLow => n < m /\ role[n] = "sorted" /\ bound[side][n] = m /\ bound[o][n] = bound[o][m]
    BY <1>15 DEF Child
  <2>2. n < FrameLow => n < m BY <1>1, <1>2, <1>3, <1>14
  <2> QED BY <2>1, <2>2, <1>1, <1>14
<1>17. /\ b[o][m] = x
       /\ \A s \in Sides, i \in Nat : i # m => b[s][i] = bound[s][i]
       /\ \A i \in Nat : b[side][i] = bound[side][i]
  BY <1>1, <1>2, <1>3 DEF Rebound
<1>18. n >= FrameLow => /\ role[n] = "sorted" /\ b[side][n] = m
                        /\ b[o][n] = EndOf(ends[o], x)
  <2> HAVE n >= FrameLow
  <2>1. n # m BY <1>2, <1>14, <1>16
  <2>2. bound[o][m] = EndOf(ends[o], x) BY <1>2, <1>3
  <2> QED BY <1>3, <1>14, <1>16, <1>17, <2>1, <2>2
<1>19. ASSUME NEW i \in Stacked(role) PROVE tree'[Slot(i)] = tree[Slot(i)]
  <2>1. Slot(i) # Slot(d) /\ Slot(i) \in 0..(TreeSize - 1) BY <1>11, StackedApart
  <2> QED BY <2>1, <1>12 DEF LinkedAt
<1>20. Deeper(top, role, bound, above, b, ends, f, x, m, side, n)
  BY <1>7, <1>10, <1>14, <1>16, <1>17, <1>18, <1>19 DEF Deeper
<1> QED BY <1>14, <1>20

\* A step that goes down a side.
DeepStep(side, length, best, reach) ==
  /\ walk' = Onward(walk, side, length, <<Slot(walk.match), Other(side)>>,
                    tree'[Slot(walk.match)][Other(side)], best, reach)
  /\ walk.left > 0 /\ best \in Nat /\ reach \in Nat /\ reach > walk.node + Slack
  /\ UNCHANGED <<kind, input, base, end, target, heads, phase, next, candidate, previous>>

\* Going down one side keeps the walk.
LEMMA DeepWalk ==
  ASSUME TypeOK, NEW top, NEW role, NEW bound, NEW above, NEW ends,
         Shape(top, role, bound, above, ends), phase \in Walking,
         NEW x, NEW m, NEW side, NEW length, NEW best, NEW reach, NEW b, NEW f, NEW n,
         Deepens(top, role, bound, ends, x, m, side, length), DeepStep(side, length, best, reach),
         Deeper(top, role, bound, above, b, ends, f, x, m, side, n)
  PROVE  /\ walk' \in Way /\ walk'.node = x /\ walk'.match = n
         /\ Opens' = Openings(f, x)
         /\ Walk(top, role, b, above, f)'
<1>1. /\ side \in Sides /\ length \in Nat /\ length = Matching(x - FrameLow, m - FrameLow, end)
      /\ m > walk.treeLow /\ m > walk.low
      /\ x = walk.node /\ m = walk.match /\ x \in Nat /\ m \in Nat /\ top \in Nat /\ walk \in Way
      /\ FrameLow <= walk.low + 1 /\ WindowLow(target) <= walk.low + 1
      /\ walk.treeLow + TreeSize > top
      /\ EndsIn(FrameLow, top, role, bound, x, ends)
      /\ \A z \in Sides :
           /\ ends[z] \in Nat /\ Owned(top, ends[z]) /\ ends[z] - FrameLow \in Nat
           /\ walk[z] = OpenAt(ends, x, z)
           /\ m < ends[z] /\ m < x
           /\ walk.common[z] = IF ends[z] = x THEN 0
                               ELSE Matching(x - FrameLow, ends[z] - FrameLow, end)
      /\ role[m] = "sorted" /\ Owned(top, m) /\ m >= FrameLow
  BY DEF Deepens, WalkFacts
<1> PICK o \in Sides : o = Other(side) /\ Other(o) = side /\ o # side
                       /\ \A z \in Sides : z = side \/ z = o
  BY <1>1, SidesAre
<1>2. /\ b \in [Sides -> [Nat -> Nat]] /\ f \in [Sides -> Nat] /\ n \in Nat
      /\ f[side] = m /\ f[o] = ends[o]
      /\ n = tree'[Slot(m)][o] /\ n < m
      /\ n >= FrameLow => role[n] = "sorted" /\ b[side][n] = m /\ b[o][n] = EndOf(ends[o], x)
      /\ b[o][m] = x
      /\ \A z \in Sides, i \in Nat : i # m => b[z][i] = bound[z][i]
      /\ \A i \in Nat : b[side][i] = bound[side][i]
  BY DEF Deeper
<1>3. /\ walk' = Onward(walk, side, length, <<Slot(walk.match), Other(side)>>,
                         tree'[Slot(walk.match)][Other(side)], best, reach)
      /\ walk.left > 0 /\ best \in Nat /\ reach \in Nat /\ reach > x + Slack
      /\ phase' = phase
  BY <1>1 DEF DeepStep
<1>4. /\ \A t : WindowLow(t)' = WindowLow(t) /\ \A i : Unbiased(i)' = Unbiased(i)
      /\ FrameLow' = FrameLow /\ UnsortedLimit' = UnsortedLimit /\ target' = target /\ end' = end
      /\ \A p, q, l : Matching(p, q, l)' = Matching(p, q, l)
  BY DEF DeepStep, FrameLow, WindowLow, Unbiased, UnsortedLimit, TreeLow, Matching, Byte
<1>5. IsOnward(walk', walk, side, length, <<Slot(m), o>>, n, reach)
  <2>1. <<Slot(m), o>> \in Places BY <1>1, SlotIn DEF Places
  <2>2. walk' = Onward(walk, side, length, <<Slot(m), o>>, n, best, reach) BY <1>1, <1>2, <1>3
  <2>3. /\ walk \in Way /\ walk.left > 0 /\ side \in Sides /\ length \in Nat /\ n \in Nat
        /\ best \in Nat /\ reach \in Nat
    BY <1>1, <1>2, <1>3
  <2>4. IsOnward(Onward(walk, side, length, <<Slot(m), o>>, n, best, reach), walk, side, length,
                 <<Slot(m), o>>, n, reach)
    BY <2>1, <2>3, OnwardIs
  <2> QED BY <2>2, <2>4
<1>6. /\ walk' \in Way /\ walk'.node = x /\ walk'.match = n
      /\ walk'.low = walk.low /\ walk'.treeLow = walk.treeLow /\ walk'.reach = reach
      /\ walk'[side] = <<Slot(m), o>> /\ walk'[o] = walk[o]
      /\ walk'.common[side] = length /\ walk'.common[o] = walk.common[o]
  BY <1>1, <1>5 DEF IsOnward
<1>7. \A z \in Sides : walk'[z] = OpenAt(f, x, z)
  <2>1. walk'[side] = OpenAt(f, x, side)
    <3>1. m # x BY <1>1
    <3> QED BY <3>1, <1>2, <1>6 DEF OpenAt
  <2>2. walk'[o] = OpenAt(f, x, o) BY <1>1, <1>2, <1>6 DEF OpenAt
  <2> QED BY <2>1, <2>2
<1>8. Opens' = Openings(f, x)
  <2>1. Opens' = {walk'[z] : z \in Sides} BY <1>3 DEF Opens
  <2>2. ASSUME NEW v PROVE v \in {walk'[z] : z \in Sides} <=> v \in {OpenAt(f, x, z) : z \in Sides}
    <3>1. ASSUME NEW z \in Sides, v = walk'[z] PROVE v \in {OpenAt(f, x, s) : s \in Sides}
      BY <3>1, <1>7
    <3>2. ASSUME NEW z \in Sides, v = OpenAt(f, x, z) PROVE v \in {walk'[s] : s \in Sides}
      BY <3>2, <1>7
    <3> QED BY <3>1, <3>2
  <2> QED BY <2>1, <2>2 DEF Openings
<1>9. /\ role[x] = "sorted" /\ role[ends[o]] = "sorted" /\ ends[o] <= x
      /\ bound[o][x] = 0 /\ bound[side][x] = 0
      /\ ends[o] # x => bound[side][ends[o]] = x
  BY <1>1 DEF EndsIn
<1>10. /\ Lost(top, walk.low, walk.treeLow)
       /\ phase = "sort" => walk.low = WindowLow(target) /\ walk.treeLow = UnsortedLimit
  BY DEF Shape, Walk
<1>11. f["smaller"] # f["larger"]
  <2>1. f[side] # f[o]
    <3>1. m < ends[o] /\ ends[o] \in Nat BY <1>1
    <3> QED BY <3>1, <1>1, <1>2
  <2>2. (side = "smaller" /\ o = "larger") \/ (side = "larger" /\ o = "smaller")
    BY <1>1 DEF Sides, Other
  <2> QED BY <2>1, <2>2
<1>12. ASSUME NEW z \in Sides
       PROVE /\ b[z][x] = 0
             /\ role[f[z]] = "sorted" /\ f[z] <= x /\ Owned(top, f[z])
             /\ f[z] # x => b[Other(z)][f[z]] = x
             /\ n < f[z]
             /\ n >= FrameLow => b[z][n] = EndOf(f[z], x)
             /\ walk'.common[z] = IF f[z] = x THEN 0
                                  ELSE Matching(Unbiased(x), Unbiased(f[z]), end)
  <2>1. \A i \in Int : Unbiased(i) = i - FrameLow BY Ranges
  <2>2. Unbiased(x) = x - FrameLow /\ Unbiased(m) = m - FrameLow
    <3>1. x \in Int /\ m \in Int BY <1>1
    <3> QED BY <3>1, <2>1
  <2>3. Unbiased(ends[o]) = ends[o] - FrameLow
    <3>1. ends[o] \in Int BY <1>1
    <3> QED BY <3>1, <2>1
  <2>4. m # x /\ m <= x /\ m < ends[o] /\ Owned(top, ends[o]) /\ n < ends[o]
    <3>1. m < x /\ m < ends[o] /\ ends[o] \in Nat /\ Owned(top, ends[o]) BY <1>1
    <3> QED BY <3>1, <1>1, <1>2
  <2>5. b[z][x] = 0
    <3>1. b[z][x] = bound[z][x] BY <1>1, <1>2, <2>4
    <3>2. z = side \/ z = o BY <1>1
    <3> QED BY <3>1, <3>2, <1>9
  <2>6. CASE z = side
    <3>1. EndOf(m, x) = m BY <2>4 DEF EndOf
    <3> QED BY <2>6, <1>1, <1>2, <1>6, <2>2, <2>4, <2>5, <3>1
  <2>7. CASE z = o
    <3>1. b[side][ends[o]] = bound[side][ends[o]] BY <1>1, <1>2
    <3> QED BY <2>7, <1>1, <1>2, <1>6, <1>9, <2>2, <2>3, <2>4, <2>5, <3>1
  <2> QED BY <2>6, <2>7
<1>13. Walk(top, role, b, above, f)'
  <2>1. /\ role[walk'.node] = "sorted"
        /\ walk'.treeLow + TreeSize > top /\ Lost(top, walk'.low, walk'.treeLow)
        /\ FrameLow' <= walk'.low + 1 /\ WindowLow(target)' <= walk'.low + 1
        /\ phase' = "sort" => walk'.low = WindowLow(target)' /\ walk'.treeLow = UnsortedLimit'
        /\ f["smaller"] = f["larger"] => f["smaller"] = walk'.node
        /\ walk'.reach > walk'.node + Slack
    BY <1>1, <1>3, <1>4, <1>6, <1>9, <1>10, <1>11
  <2>2. ASSUME NEW z \in Sides
        PROVE  /\ b[z][walk'.node] = 0
               /\ role[f[z]] = "sorted" /\ f[z] <= walk'.node /\ Owned(top, f[z])
               /\ walk'[z] = <<Slot(f[z]), IF f[z] = walk'.node THEN z ELSE Other(z)>>
               /\ f[z] # walk'.node => b[Other(z)][f[z]] = walk'.node
               /\ walk'.match < f[z]
               /\ walk'.match >= FrameLow' => b[z][walk'.match] = EndOf(f[z], walk'.node)
               /\ walk'.common[z] = IF f[z] = walk'.node THEN 0
                                    ELSE Matching(Unbiased(walk.node), Unbiased(f[z]), end)'
    <3>0. walk'.node = x /\ UNCHANGED <<input, base, end>> BY <1>6 DEF DeepStep
    <3>1. Matching(Unbiased(walk.node), Unbiased(f[z]), end)' = Matching(Unbiased(x), Unbiased(f[z]), end)
      BY SMTT(30), <3>0 DEF Matching, Unbiased, Byte
    <3> QED BY <3>1, <1>4, <1>6, <1>7, <1>12 DEF OpenAt
  <2>3. walk'.match >= FrameLow' => role[walk'.match] # "none" BY <1>2, <1>4, <1>6
  <2>4. walk'.match > walk'.treeLow /\ walk'.match > walk'.low => role[walk'.match] = "sorted"
    <3> SUFFICES ASSUME n > walk.low PROVE role[n] = "sorted" BY <1>6
    <3>1. n >= FrameLow
      <4>1. walk.low \in Nat /\ FrameLow \in Nat BY <1>1, Ranges DEF Way
      <4> QED BY <4>1, <1>1, <1>2
    <3> QED BY <3>1, <1>2
  <2> QED BY <2>1, <2>2, <2>3, <2>4 DEF Walk
<1> QED BY <1>6, <1>8, <1>13

\* What the walk leaves alone besides the way itself.
LEMMA DeepStays ==
  ASSUME TypeOK, NEW top, NEW role, NEW bound, NEW above, NEW ends,
         Shape(top, role, bound, above, ends), phase \in Walking,
         NEW side, NEW length, NEW best, NEW reach, DeepStep(side, length, best, reach),
         walk'.node = walk.node, \A i \in Stacked(role) : tree'[Slot(i)] = tree[Slot(i)]
  PROVE  Course(top, role)' /\ OnlyWhen(role)' /\ Stacks(role)'
<1>1. /\ FrameLow' = FrameLow /\ Index(Limit)' = Index(Limit) /\ Index(end)' = Index(end)
      /\ UnsortedLimit' = UnsortedLimit /\ Root' = Root
      /\ UNCHANGED <<kind, target, phase, next, candidate, previous>>
  BY DEF DeepStep, FrameLow, Index, Limit, UnsortedLimit, TreeLow, WindowLow, Root, Hash, Unbiased
<1>2. Course(top, role)' BY <1>1 DEF Shape, Course
<1>3. OnlyWhen(role)' BY <1>1 DEF Shape, OnlyWhen
<1>4. Stacks(role)'
  <2> PICK p, c : p = previous /\ c = candidate OBVIOUS
  <2>1. \A i \in Stacked(role) : Left(i)' = Left(i) BY DEF Left, Slot
  <2>2. phase' = phase /\ previous' = p /\ candidate' = c BY <1>1
  <2> SUFFICES ASSUME phase = "sort" PROVE Stacks(role)' BY <2>2 DEF Stacks, Sorting, Walking
  <2>3. /\ \A i \in Stacked(role) : i > UnsortedLimit
        /\ walk.node = c /\ Stack(role, p)
        /\ p # 0 => Left(p) = c
        /\ Root \in Stacked(role) \cup {c}
    BY DEF Shape, Stacks, Sorting
  <2>4. Stack(role, p)' BY <2>1, <2>3 DEF Stack
  <2>5. Stack(role, previous)' BY <2>2, <2>4 DEF Stack
  <2>6. p # 0 => Left(p)' = c BY <2>1, <2>3 DEF Stack
  <2>7. previous' # 0 => Left(previous)' = candidate' BY <2>2, <2>6 DEF Left
  <2> QED BY <1>1, <2>2, <2>3, <2>5, <2>7 DEF Stacks
<1> QED BY <1>2, <1>3, <1>4

\* Going down one side keeps the shape.
LEMMA DeepKeeps ==
  ASSUME TypeOK, NEW top, NEW role, NEW bound, NEW above, NEW ends,
         Shape(top, role, bound, above, ends), phase \in Walking,
         NEW x, NEW m, NEW side, NEW length, NEW best, NEW reach,
         Deepens(top, role, bound, ends, x, m, side, length), DeepStep(side, length, best, reach)
  PROVE  /\ walk' \in Way /\ tree' \in Forest
         /\ \E b \in [Sides -> [Nat -> Nat]], f \in [Sides -> Nat] : Shape(top, role, b, above, f)'
<1> PICK n, b, f : /\ n = tree'[Slot(m)][Other(side)] /\ f = [ends EXCEPT ![side] = m]
                   /\ b = Rebound(bound, Other(side), m, x)
  OBVIOUS
<1>1. Deeper(top, role, bound, above, b, ends, f, x, m, side, n) BY DeepIs
<1>2. /\ walk' \in Way /\ walk'.node = x /\ walk'.match = n
      /\ Opens' = Openings(f, x) /\ Walk(top, role, b, above, f)'
  BY <1>1, DeepWalk
<1>3. /\ b \in [Sides -> [Nat -> Nat]] /\ f \in [Sides -> Nat] /\ n \in Nat /\ tree' \in Forest
      /\ n >= FrameLow => b[side][n] = m
      /\ \A z \in Sides, i \in Nat : i # m => b[z][i] = bound[z][i]
      /\ Nodes(FrameLow, top, end, role, b) /\ Bounds(input, FrameLow, end, role, b)
      /\ Trees(tree', Openings(f, x), FrameLow, top, role, b)
      /\ Lists(input, tree', FrameLow, top, role, b, above)
      /\ \A i \in Stacked(role) : tree'[Slot(i)] = tree[Slot(i)]
  BY <1>1 DEF Deeper
<1>4. /\ role \in [Nat -> Roles] /\ above \in [Nat -> Nat] /\ FrameLow \in Nat /\ FrameLow >= 2
      /\ \A h \in Hashes : heads[h] \in Nat
  BY ShapeIs DEF Deepens, WalkFacts
<1>5. m = walk.match /\ x = walk.node /\ m >= FrameLow /\ side \in Sides /\ m \in Nat
  BY DEF Deepens, WalkFacts
<1>6. /\ FrameLow' = FrameLow /\ UNCHANGED <<heads, input, end, phase>>
  BY DEF DeepStep, FrameLow
<1>7. Course(top, role)' /\ OnlyWhen(role)' /\ Stacks(role)' BY <1>2, <1>3, <1>5, DeepStays
<1>8. Shaped(role, b, above, f) BY <1>3, <1>4 DEF Shaped
<1>9. Heads(input, heads, FrameLow, role, b, above)
  <2> SUFFICES ASSUME NEW h \in Hashes
               PROVE  Referred(input, FrameLow, role, b, above, heads[h], 0, h)
    BY DEF Heads
  <2>1. Referred(input, FrameLow, role, bound, above, heads[h], 0, h) BY DEF Shape, Heads
  <2>2. heads[h] >= FrameLow => role[heads[h]] # "none" BY ShapeIs
  <2>3. heads[h] # m BY <1>5 DEF Shape, Unlisted
  <2>4. \A z \in Sides : b[z][heads[h]] = bound[z][heads[h]] BY <1>3, <1>4, <2>3
  <2> QED BY <2>1, <2>2, <2>4, ReferredKept
<1>10. Unlisted(top, role)'
  <2> SUFFICES ASSUME n >= FrameLow
               PROVE  /\ \A h \in Hashes : heads[h] # n
                      /\ \A i \in Nat : role[i] \in {"listed", "stacked"} /\ Owned(top, i) =>
                           Left(i)' # n
    BY <1>2, <1>6 DEF Unlisted, Owned
  <2>1. b[side][n] # 0
    <3>1. m # 0 BY <1>4, <1>5
    <3> QED BY <1>3, <3>1
  <2>2. ASSUME NEW h \in Hashes PROVE heads[h] # n
    <3>1. Referred(input, FrameLow, role, b, above, heads[h], 0, h) BY <1>9 DEF Heads
    <3>2. heads[h] >= FrameLow => b[side][heads[h]] = 0 BY <3>1, <1>5 DEF Referred
    <3> QED BY <2>1, <3>2
  <2>3. ASSUME NEW i \in Nat, role[i] \in {"listed", "stacked"}, Owned(top, i)
        PROVE  Left(i)' # n
    <3> PICK c : c = tree'[Slot(i)].smaller OBVIOUS
    <3>1. Referred(input, FrameLow, role, b, above, c, i, HashAt(input, i - FrameLow))
      BY <1>3, <2>3 DEF Lists
    <3>2. c >= FrameLow => b[side][c] = 0 BY <3>1, <1>5 DEF Referred
    <3>3. c # n BY <2>1, <3>2
    <3>4. Left(i)' = c BY DEF Left, Slot
    <3> QED BY <3>3, <3>4
  <2> QED BY <2>2, <2>3
<1>11. Trees(tree, Opens, FrameLow, top, role, b)'
  <2> SUFFICES ASSUME NEW i \in Nat, NEW z \in Sides, role[i] = "sorted", Owned(top, i),
                      <<Slot(i), z>> \notin Opens'
               PROVE  Child(FrameLow', role, b, i, z, tree'[Slot(i)][z])
    BY DEF Trees, Child, Owned, Slot
  <2> QED BY <1>2, <1>3, <1>6 DEF Trees
<1>12. /\ Nodes(FrameLow, top, end, role, b)' /\ Bounds(input, FrameLow, end, role, b)'
       /\ Heads(input, heads, FrameLow, role, b, above)'
       /\ Lists(input, tree, FrameLow, top, role, b, above)'
  BY <1>3, <1>6, <1>9 DEF Nodes, Bounds, Heads, Lists
<1>13. Shape(top, role, b, above, f)'
  BY <1>2, <1>7, <1>8, <1>10, <1>11, <1>12 DEF Shape
<1> QED BY <1>2, <1>3, <1>13

----------------------------------------------------------------------------
(* The comparison with the next node.                                      *)

\* What a comparison finds: x and m agree for `length` bytes.
Compares(top, role, bound, ends, x, m, length) ==
  /\ WalkFacts(top, role, bound, ends, x, m)
  /\ m >= FrameLow /\ m > walk.low
  /\ length \in Nat /\ length = Matching(x - FrameLow, m - FrameLow, end)
  /\ Agrees(x - FrameLow, m - FrameLow, end, length)

\* The length that is compared is exact.
LEMMA ComparesHolds ==
  ASSUME TypeOK, CacheTrue, NEW top, NEW role, NEW bound, NEW above, NEW ends,
         Shape(top, role, bound, above, ends), phase \in Walking, Continues,
         NEW x, NEW m, WalkFacts(top, role, bound, ends, x, m)
  PROVE  /\ Compares(top, role, bound, ends, x, m, ComparedLength)
         /\ At = x - FrameLow /\ Matched = m - FrameLow
<1>1. /\ x \in Nat /\ m \in Nat /\ FrameLow \in Nat /\ end \in Nat /\ x - FrameLow < end
      /\ x - FrameLow \in Nat
      /\ m = walk.match /\ FrameLow <= walk.low + 1 /\ walk \in Way
  BY DEF WalkFacts
<1>2. m > walk.low BY <1>1 DEF Continues
<1>3. m >= FrameLow
  <2>1. walk.low \in Nat BY <1>1 DEF Way
  <2> QED BY <2>1, <1>1, <1>2
<1>4. /\ ComparedLength = Matching(x - FrameLow, m - FrameLow, end)
      /\ Agrees(x - FrameLow, m - FrameLow, end, ComparedLength)
      /\ At = x - FrameLow /\ Matched = m - FrameLow
  BY <1>3, LengthIs
<1>5. ComparedLength \in Nat
  <2> PICK p \in Nat : p = x - FrameLow BY <1>1
  <2>1. ComparedLength \in 0..(end - p) BY <1>4 DEF Agrees
  <2> QED BY <2>1
<1> QED BY <1>2, <1>3, <1>4, <1>5 DEF Compares

\* An entry of the cache that is used is the length of a comparison.
EntryTrue(e) ==
  e[3] # 0 => /\ FrameLow <= e[2] /\ e[2] < e[1] /\ e[1] < Index(end)
              /\ Matching(Unbiased(e[1]), Unbiased(e[2]), end) = e[3]

\* A length that is kept is exact.
LEMMA VisitCache ==
  ASSUME TypeOK, CacheTrue, NEW top, NEW role, NEW bound, NEW above, NEW ends,
         Shape(top, role, bound, above, ends), phase \in Walking,
         NEW x, NEW m, NEW length, Compares(top, role, bound, ends, x, m, length),
         cache' = IF phase = "insert"
                  THEN [cache EXCEPT ![x % 2][m % CacheSize] = <<x, m, length>>] ELSE cache,
         UNCHANGED <<kind, input, base, end>>
  PROVE  cache' \in Caches /\ CacheTrue'
<1>1. cache \in Caches BY DEF TypeOK, TableOK
<1>2. /\ x \in Nat /\ m \in Nat /\ FrameLow \in Nat /\ end \in Nat
      /\ x - FrameLow \in Nat /\ m - FrameLow \in Nat /\ m >= FrameLow /\ m < x
      /\ x - FrameLow < end
      /\ length \in Nat /\ length = Matching(x - FrameLow, m - FrameLow, end)
  BY SidesAre DEF Compares, WalkFacts, Sides
<1>3. x % 2 \in 0..1 /\ m % CacheSize \in 0..(CacheSize - 1)
  <2>1. CacheSize \in Nat \ {0} BY ConstantsAssumption DEF ConstantsAssumption
  <2>2. m % CacheSize \in 0..(CacheSize - 1) BY <1>2, <2>1, InRing
  <2>3. x % 2 \in 0..(2 - 1) BY <1>2, InRing
  <2> QED BY <2>2, <2>3
<1>4. \A e : EntryTrue(e)' = EntryTrue(e)
  <2>1. FrameLow' = FrameLow /\ \A i : Index(i)' = Index(i) /\ Unbiased(i)' = Unbiased(i)
    BY DEF FrameLow, Index, Unbiased
  <2>2. \A p, q, e : Matching(p, q, e)' = Matching(p, q, e) BY DEF Matching, Byte
  <2> QED BY <2>1, <2>2 DEF EntryTrue
<1> PICK new : new = <<x, m, length>> OBVIOUS
<1>5. new \in Entry /\ EntryTrue(new)
  <2>1. new[1] = x /\ new[2] = m /\ new[3] = length OBVIOUS
  <2>2. \A i \in Int : Index(i) = FrameLow + i /\ Unbiased(i) = i - FrameLow BY Ranges
  <2>3. Unbiased(x) = x - FrameLow /\ Unbiased(m) = m - FrameLow /\ Index(end) = FrameLow + end
    <3>1. x \in Int /\ m \in Int /\ end \in Int BY <1>2
    <3> QED BY <3>1, <2>2
  <2>4. x < FrameLow + end BY <1>2
  <2>5. new \in Entry BY SMTT(30), <1>2 DEF Entry
  <2> QED BY <1>2, <2>1, <2>3, <2>4, <2>5 DEF EntryTrue
<1>6. CASE phase = "insert"
  <2> PICK k, d : k = x % 2 /\ d = m % CacheSize OBVIOUS
  <2>1. cache' = [cache EXCEPT ![k][d] = new] BY <1>6
  <2>2. cache' \in Caches BY <1>1, <1>3, <1>5, <2>1 DEF Caches
  <2>3. kind # "lazy" BY <1>6 DEF Shape, Course
  <2>4. ASSUME NEW r \in 0..1, NEW c \in 0..(CacheSize - 1) PROVE EntryTrue(cache'[r][c])
    <3>1. EntryTrue(cache[r][c]) BY <2>3, <1>6 DEF CacheTrue, EntryTrue
    <3>2. cache'[r][c] = new \/ cache'[r][c] = cache[r][c] BY <1>1, <1>3, <2>1 DEF Caches
    <3> QED BY <1>5, <3>1, <3>2
  <2>5. \A r \in 0..1, c \in 0..(CacheSize - 1) : EntryTrue(cache[r][c])' BY <2>4, <1>4
  <2> QED BY <2>2, <2>5 DEF CacheTrue, EntryTrue
<1>7. CASE phase # "insert"
  <2>1. UNCHANGED <<kind, input, base, cache, end>> BY <1>7
  <2>2. phase # "idle" BY DEF Walking
  <2> QED BY <1>1, <2>1, <2>2, CacheStays
<1> QED BY <1>6, <1>7

\* A better match is a match.
LEMMA VisitFound ==
  ASSUME TypeOK, MatchesAreReal, NEW top, NEW role, NEW bound, NEW above, NEW ends,
         Shape(top, role, bound, above, ends), phase \in Walking,
         NEW x, NEW m, NEW length, Compares(top, role, bound, ends, x, m, length),
         \/ phase = "main" /\ found' = [distance |-> x - m, length |-> length] /\ longest' = length
         \/ UNCHANGED <<found, longest>>,
         UNCHANGED <<target, base, end, input>>
  PROVE  found' \in Match /\ longest' \in Nat /\ MatchesAreReal'
<1>1. CASE UNCHANGED <<found, longest>>
  BY <1>1, FoundKept DEF TypeOK, ResultOK
<1>2. CASE phase = "main" /\ found' = [distance |-> x - m, length |-> length] /\ longest' = length
  <2>1. /\ x \in Nat /\ m \in Nat /\ FrameLow \in Nat /\ end \in Nat /\ x = walk.node
        /\ x - FrameLow \in Nat /\ m >= FrameLow /\ m < x /\ x - FrameLow < end /\ FrameLow <= x
        /\ length \in Nat /\ length = Matching(x - FrameLow, m - FrameLow, end)
        /\ WindowLow(target) <= walk.low + 1 /\ m > walk.low /\ walk \in Way
    BY SidesAre DEF Compares, WalkFacts, Sides
  <2>2. x = target
    <3>1. walk.node = next /\ next = target BY <1>2 DEF Shape, Course
    <3> QED BY <3>1, <2>1
  <2>3. \A i \in Int : Unbiased(i) = i - FrameLow BY Ranges
  <2> PICK p \in Nat : p = x - FrameLow BY <2>1
  <2>4. p = Unbiased(target)
    <3>1. x \in Int BY <2>1
    <3> QED BY <3>1, <2>2, <2>3
  <2> PICK distance : distance = x - m OBVIOUS
  <2>5. distance \in Nat /\ distance >= 1 BY <2>1
  <2>6. distance <= target - WindowLow(target)
    <3>1. WindowLow(target) \in Nat BY <2>1, <2>2, WindowLowIs
    <3>2. walk.low \in Nat BY <2>1 DEF Way
    <3> PICK w \in Nat : w = WindowLow(target) BY <3>1
    <3>3. w <= m BY <2>1, <3>2
    <3>4. x - m <= x - w BY <2>1, <3>3
    <3> QED BY <2>2, <3>4
  <2>7. p - distance = m - FrameLow BY <2>1
  <2>8. length = Matching(p, p - distance, end) BY <2>1, <2>7
  <2>9. FrameLow <= target /\ p <= end BY <2>1, <2>2
  <2>10. found' = [distance |-> distance, length |-> length] BY <1>2
  <2> QED BY <1>2, <2>4, <2>5, <2>6, <2>8, <2>9, <2>10, FoundIs
<1> QED BY <1>1, <1>2

\* The side that a node goes to, which the first different byte tells.
SideOf(x, m, length) ==
  IF Byte((m - FrameLow) + length) < Byte((x - FrameLow) + length) THEN "smaller" ELSE "larger"

\* The walk's node lies beside the one compared as the first different byte tells.
LEMMA SideLies ==
  ASSUME TypeOK, NEW top, NEW role, NEW bound, NEW ends,
         NEW x, NEW m, NEW length, Compares(top, role, bound, ends, x, m, length),
         (x - FrameLow) + length # end
  PROVE  /\ SideOf(x, m, length) \in Sides
         /\ Lies(input, FrameLow, end, x, Other(SideOf(x, m, length)), m)
<1>1. /\ x \in Nat /\ m \in Nat /\ FrameLow \in Nat /\ end \in Nat /\ end <= Len(input)
      /\ x - FrameLow \in Nat /\ m - FrameLow \in Nat /\ m >= FrameLow /\ m < x
      /\ input \in Text /\ x - FrameLow < end
      /\ length \in Nat /\ Agrees(x - FrameLow, m - FrameLow, end, length)
  BY SidesAre DEF Compares, WalkFacts, Sides
<1> PICK p \in Nat, q \in Nat : p = x - FrameLow /\ q = m - FrameLow BY <1>1
<1>2. q < p BY <1>1
<1>3. length \in 0..(end - p) /\ p < end BY <1>1 DEF Agrees
<1>4. p + length < end /\ q + length < end
  <2>1. length <= end - p /\ p + length # end BY <1>3
  <2> QED BY <1>1, <1>2, <2>1
<1>5. /\ \A i \in 0..(length - 1) : Byte(p + i) = Byte(q + i)
      /\ Byte(p + length) # Byte(q + length)
  <2>1. length # end - p BY <1>4, <1>1
  <2> QED BY <1>1, <2>1 DEF Agrees
<1>6. Byte(p + length) \in Nat /\ Byte(q + length) \in Nat
  <2>1. (p + length) + 1 \in 1..Len(input) /\ (q + length) + 1 \in 1..Len(input) BY <1>1, <1>4
  <2> QED BY SMTT(30), <2>1, <1>1 DEF Byte, Text
<1>7. CASE Byte(q + length) < Byte(p + length)
  <2>1. Precedes(input, q, p, end)
    <3>1. \A i \in 0..(length - 1) : input[(q + i) + 1] = input[(p + i) + 1] BY <1>5 DEF Byte
    <3>2. input[(q + length) + 1] < input[(p + length) + 1] BY <1>7 DEF Byte
    <3> QED BY <1>1, <1>4, <3>1, <3>2 DEF Precedes
  <2>2. SideOf(x, m, length) = "smaller" BY <1>7 DEF SideOf
  <2>3. Other("smaller") = "larger" BY DEF Other
  <2>4. Lies(input, FrameLow, end, x, "larger", m) BY <2>1 DEF Lies
  <2> QED BY <2>2, <2>3, <2>4 DEF Sides
<1>8. CASE ~(Byte(q + length) < Byte(p + length))
  <2>1. Precedes(input, p, q, end)
    <3>1. \A i \in 0..(length - 1) : input[(p + i) + 1] = input[(q + i) + 1] BY <1>5 DEF Byte
    <3>2. input[(p + length) + 1] < input[(q + length) + 1]
      <4>1. Byte(p + length) < Byte(q + length) BY <1>5, <1>6, <1>8
      <4> QED BY <4>1 DEF Byte
    <3> QED BY <1>1, <1>4, <3>1, <3>2 DEF Precedes
  <2>2. SideOf(x, m, length) = "larger" BY <1>8 DEF SideOf
  <2>3. Other("larger") = "smaller" BY DEF Other
  <2>4. Lies(input, FrameLow, end, x, "smaller", m) BY <2>1 DEF Lies
  <2> QED BY <2>2, <2>3, <2>4 DEF Sides
<1> QED BY <1>7, <1>8

\* What a visit leaves alone, and what it may do to the way and the trees.
VisitStep(x, m, length, best, reach) ==
  /\ UNCHANGED <<block, base, next3, heads, hash3, position, target, tried>>
  /\ best \in Nat /\ reach \in Nat /\ reach > x + Slack
  /\ \/ /\ tree' = Link(Link(tree, walk.smaller, 0), walk.larger, 0)
        /\ Finish(best, reach)
     \/ /\ (x - FrameLow) + length # end
        /\ Descend(SideOf(x, m, length), length, best, reach)

\* The walk goes down below the node compared.
LEMMA DescendKeeps ==
  ASSUME TypeOK, NEW top, NEW role, NEW bound, NEW above, NEW ends,
         Shape(top, role, bound, above, ends), phase \in Walking,
         NEW x, NEW m, NEW length, Compares(top, role, bound, ends, x, m, length),
         NEW best, NEW reach, VisitStep(x, m, length, best, reach), walk.left > 0,
         cache' \in Caches, longest' \in Nat, found' \in Match, CacheTrue', MatchesAreReal'
  PROVE  IInv'
<1>1. /\ WalkFacts(top, role, bound, ends, x, m)
      /\ UNCHANGED <<block, base, next3, heads, hash3, position, target, tried>>
      /\ best \in Nat /\ reach \in Nat /\ reach > x + Slack
      /\ m >= FrameLow /\ m > walk.low
      /\ length \in Nat /\ length = Matching(x - FrameLow, m - FrameLow, end)
  BY DEF Compares, VisitStep
<1>2. x = walk.node /\ m = walk.match /\ m \in Nat /\ walk.treeLow \in Nat BY <1>1 DEF WalkFacts, Way
<1>3. reach > walk.node + Slack BY <1>1, <1>2
<1>4. CASE /\ tree' = Link(Link(tree, walk.smaller, 0), walk.larger, 0)
           /\ Finish(best, reach)
  <2>1. tree' \in Forest /\ Closed(top, role, bound, above, role, bound, m)
    BY <1>1, <1>4, BothClosed
  <2> QED BY <1>1, <1>3, <1>4, <2>1, EndKeeps
<1>5. CASE /\ (x - FrameLow) + length # end
           /\ Descend(SideOf(x, m, length), length, best, reach)
  <2> PICK side : side = SideOf(x, m, length) OBVIOUS
  <2>1. side \in Sides /\ Lies(input, FrameLow, end, x, Other(side), m) BY <1>5, SideLies
  <2>2. CASE m <= walk.treeLow
    <3>1. /\ tree' = Link(Link(tree, walk[side], m), walk[Other(side)], 0)
          /\ Finish(best, reach)
      BY <1>2, <1>5, <2>2 DEF Descend
    <3> PICK r, b : r = Rooted(role, m) /\ b = Rebound(bound, Other(side), m, x) OBVIOUS
    <3>2. tree' \in Forest /\ Closed(top, role, bound, above, r, b, m)
      BY <1>1, <2>1, <2>2, <3>1, SunkClosed
    <3> QED BY <1>1, <1>3, <3>1, <3>2, EndKeeps
  <2>3. CASE ~(m <= walk.treeLow)
    <3>1. /\ tree' = Link(tree, walk[side], m)
          /\ walk' = Onward(walk, side, length, <<Slot(walk.match), Other(side)>>,
                            tree'[Slot(walk.match)][Other(side)], best, reach)
          /\ UNCHANGED <<phase, next, stack>>
      BY <1>2, <1>5, <2>3 DEF Descend, Onward
    <3>2. m > walk.treeLow BY <1>2, <2>3
    <3>3. Deepens(top, role, bound, ends, x, m, side, length)
      BY <1>1, <2>1, <3>1, <3>2 DEF Deepens
    <3>4. DeepStep(side, length, best, reach)
      BY <1>1, <1>3, <3>1 DEF DeepStep, block, stack
    <3>5. walk' \in Way /\ tree' \in Forest
      BY <3>3, <3>4, DeepKeeps
    <3>6. PICK c \in [Sides -> [Nat -> Nat]], f \in [Sides -> Nat] : Shape(top, role, c, above, f)'
      BY <3>3, <3>4, DeepKeeps
    <3>7. TypeOK'
      <4>1. TableOK' BY <1>1, <3>1, <3>5 DEF TypeOK, TableOK
      <4>2. StackOK' BY <1>1, <3>1 DEF TypeOK, StackOK, stack
      <4>3. ResultOK' BY <1>1 DEF TypeOK, ResultOK
      <4>4. WalkOK' BY <3>5 DEF WalkOK
      <4>5. BlockOK' BY <1>1 DEF TypeOK, BlockOK, block
      <4> QED BY <4>1, <4>2, <4>3, <4>4, <4>5 DEF TypeOK
    <3>8. top \in Nat /\ role \in [Nat -> Roles] /\ above \in [Nat -> Nat] BY ShapeIs
    <3>9. phase' # "idle" BY <3>1 DEF Walking
    <3> QED BY <3>6, <3>7, <3>8, <3>9, InvariantBy
  <2> QED BY <2>2, <2>3
<1> QED BY <1>4, <1>5 DEF VisitStep

\* A node is compared: the walk goes on below it, or ends there.
LEMMA VisitKeeps ==
  ASSUME IInv, NEW prefers \in BOOLEAN, Visit(prefers)
  PROVE  IInv'
<1>1. PICK top \in Nat, role \in [Nat -> Roles], bound \in [Sides -> [Nat -> Nat]],
           above \in [Nat -> Nat], ends \in [Sides -> Nat] : Shape(top, role, bound, above, ends)
  BY DEF IInv
<1>0. TypeOK /\ CacheTrue /\ MatchesAreReal BY DEF IInv
<1>2. phase \in Walking /\ Continues BY DEF Visit
<1> PICK x, m : x = walk.node /\ m = walk.match OBVIOUS
<1>3. WalkFacts(top, role, bound, ends, x, m) BY <1>0, <1>1, <1>2, WalkFactsHold
<1> PICK length : length = ComparedLength OBVIOUS
<1>4. /\ Compares(top, role, bound, ends, x, m, length)
      /\ At = x - FrameLow /\ Matched = m - FrameLow
  BY <1>0, <1>1, <1>2, <1>3, ComparesHolds
<1> DEFINE longer == phase # "sort" /\ length > walk.best
           kept   == longer /\ (prefers \/ walk.best = 0)
           further == IF longer THEN Larger(walk.reach, m + length) ELSE walk.reach
           most    == IF kept THEN length ELSE walk.best
           tooLong == phase = "main" /\ kind # "lazy" /\ longer /\ length > MaxPath
<1> PICK best, reach : best = most /\ reach = further OBVIOUS
<1>5. /\ cache' = IF phase = "insert"
                  THEN [cache EXCEPT ![x % 2][m % CacheSize] = <<x, m, length>>] ELSE cache
      /\ IF phase = "main" /\ kept
         THEN /\ found' = [distance |-> x - m, length |-> length]
              /\ longest' = length
         ELSE UNCHANGED <<found, longest>>
      /\ IF tooLong \/ At + length = end
         THEN /\ tree' = Link(Link(tree, walk.smaller, 0), walk.larger, 0)
              /\ Finish(best, reach)
         ELSE Descend(IF Byte(Matched + length) < Byte(At + length)
                      THEN "smaller" ELSE "larger", length, best, reach)
      /\ UNCHANGED <<block, base, next3, heads, hash3, position, target, tried>>
  BY DEF Visit, AtEnd
<1>6. /\ walk \in Way /\ length \in Nat /\ m \in Nat /\ x \in Nat /\ walk.reach > x + Slack
  BY <1>3, <1>4 DEF WalkFacts, Compares
<1>7. walk.best \in Nat /\ walk.reach \in Nat /\ Slack \in Nat
  BY <1>6, ConstantsAssumption DEF ConstantsAssumption, Way
<1>8. best \in Nat /\ reach \in Nat /\ reach > x + Slack
  <2>1. m + length \in Nat BY <1>6
  <2>2. best \in Nat BY <1>6, <1>7
  <2>3. reach \in Nat /\ reach >= walk.reach BY <1>7, <2>1 DEF Larger
  <2> QED BY <1>6, <1>7, <2>2, <2>3
<1>9. VisitStep(x, m, length, best, reach)
  <2>1. SideOf(x, m, length) = IF Byte(Matched + length) < Byte(At + length)
                               THEN "smaller" ELSE "larger"
    BY <1>4 DEF SideOf
  <2> HIDE DEF longer, kept, further, most, tooLong
  <2> QED BY <1>4, <1>5, <1>8, <2>1 DEF VisitStep
<1> HIDE DEF longer, kept, further, most, tooLong
<1>10. UNCHANGED <<kind, input, base, end, target>> BY <1>5 DEF block
<1>11. cache' \in Caches /\ CacheTrue' BY <1>0, <1>1, <1>2, <1>4, <1>5, <1>10, VisitCache
<1>12. found' \in Match /\ longest' \in Nat /\ MatchesAreReal'
  <2>1. \/ phase = "main" /\ found' = [distance |-> x - m, length |-> length] /\ longest' = length
        \/ UNCHANGED <<found, longest>>
    BY <1>5
  <2> QED BY <2>1, <1>0, <1>1, <1>2, <1>4, <1>10, VisitFound
<1>13. walk.left > 0 BY <1>2 DEF Continues
<1> QED BY <1>0, <1>1, <1>2, <1>4, <1>9, <1>11, <1>12, <1>13, DescendKeeps

----------------------------------------------------------------------------
(* The invariant, and what follows from it.                                *)

\* The types of the first state.
LEMMA InitTypes ==
  ASSUME Init
  PROVE  TypeOK
<1> USE DEF Init
<1>1. /\ TreeSize \in Nat /\ CacheSize \in Nat \ {0} /\ \A i \in Inputs : i \in Seq(Nat)
  BY ConstantsAssumption DEF ConstantsAssumption
<1>2. end <= Len(input) /\ Len(input) \in Nat BY <1>1
<1>3. BlockOK BY <1>2 DEF BlockOK
<1>4. Leaf \in Node BY DEF Leaf, Node
<1>5. tree \in Forest BY <1>4 DEF Forest
<1>6. cache \in Caches BY DEF EmptyCache, NoEntry, Caches, Entry
<1>7. TableOK BY <1>5, <1>6 DEF TableOK, Bias
<1>8. StackOK BY DEF StackOK, Phases
<1>9. ResultOK BY DEF ResultOK, NoMatch, Match
<1>10. WalkOK BY DEF WalkOK, Walking
<1> QED BY <1>3, <1>7, <1>8, <1>9, <1>10 DEF TypeOK

\* A new match state holds no tree.
LEMMA InitHolds ==
  ASSUME Init
  PROVE  IInv
<1> PICK role : role = [i \in Nat |-> "none"] OBVIOUS
<1> PICK bound : bound = [side \in Sides |-> [i \in Nat |-> 0]] OBVIOUS
<1> PICK above : above = [i \in Nat |-> 0] OBVIOUS
<1> PICK ends : ends = [side \in Sides |-> 0] OBVIOUS
<1> PICK top : top = 1 OBVIOUS
<1>1. /\ role \in [Nat -> Roles] /\ bound \in [Sides -> [Nat -> Nat]] /\ above \in [Nat -> Nat]
      /\ ends \in [Sides -> Nat] /\ top \in Nat
      /\ \A i \in Nat : role[i] = "none"
  BY DEF Roles
<1>2. TypeOK BY InitTypes
<1>3. /\ base = 0 /\ next = 2 /\ phase = "idle" /\ found = NoMatch
      /\ heads = [h \in Hashes |-> 0] /\ FrameLow = 2
  BY DEF Init, FrameLow, Bias
<1>4. Shaped(role, bound, above, ends) BY <1>1 DEF Shaped
<1>5. Course(top, role) BY <1>3 DEF Course, Sorting
<1>6. Nodes(FrameLow, top, end, role, bound) /\ OnlyWhen(role) BY <1>1 DEF Nodes, OnlyWhen
<1>7. Bounds(input, FrameLow, end, role, bound) BY <1>1 DEF Bounds
<1>8. Trees(tree, Opens, FrameLow, top, role, bound) BY <1>1 DEF Trees
<1>9. Heads(input, heads, FrameLow, role, bound, above) BY <1>3 DEF Heads, Referred
<1>10. Lists(input, tree, FrameLow, top, role, bound, above) BY <1>1 DEF Lists
<1>11. Stacks(role) /\ Walk(top, role, bound, above, ends) /\ Unlisted(top, role)
  BY <1>3 DEF Stacks, Walk, Unlisted, Sorting, Walking
<1>12. Shape(top, role, bound, above, ends)
  BY <1>4, <1>5, <1>6, <1>7, <1>8, <1>9, <1>10, <1>11 DEF Shape
<1>13. CacheTrue /\ MatchesAreReal BY <1>3 DEF CacheTrue, MatchesAreReal
<1> QED BY <1>1, <1>2, <1>3, <1>12, <1>13 DEF IInv

\* Nothing happens.
LEMMA StutterKeeps ==
  ASSUME IInv, UNCHANGED vars
  PROVE  IInv'
<1>1. PICK top \in Nat, role \in [Nat -> Roles], bound \in [Sides -> [Nat -> Nat]],
           above \in [Nat -> Nat], ends \in [Sides -> Nat] : Shape(top, role, bound, above, ends)
  BY DEF IInv
<1>0. TypeOK BY DEF IInv
<1>2. /\ UNCHANGED <<kind, input, base, next, next3, heads, hash3, tree, cache, begin, end, position,
                     phase, target, candidate, previous, budget, tried, longest, found, walk>>
  BY DEF vars
<1>3. TypeOK'
  BY <1>0, <1>2 DEF TypeOK, BlockOK, TableOK, StackOK, ResultOK, WalkOK
<1>4. CacheTrue' BY <1>2, CacheStays DEF IInv
<1>5. MatchesAreReal' BY <1>2, FoundKept DEF IInv
<1>6. /\ FrameLow' = FrameLow /\ Opens' = Opens /\ Index(Limit)' = Index(Limit)
      /\ Index(end)' = Index(end) /\ UnsortedLimit' = UnsortedLimit /\ Root' = Root
      /\ \A i : Left(i)' = Left(i) /\ Unbiased(i)' = Unbiased(i)
      /\ WindowLow(target)' = WindowLow(target)
      /\ \A p, q, e : Matching(p, q, e)' = Matching(p, q, e)
  BY <1>2 DEF FrameLow, Opens, Index, Limit, UnsortedLimit, TreeLow, WindowLow, Root, Hash,
              Unbiased, Left, Slot, Matching, Byte
<1>7. Course(top, role)' /\ OnlyWhen(role)' BY <1>1, <1>2, <1>6 DEF Shape, Course, OnlyWhen
<1>8. /\ Shaped(role, bound, above, ends)'
      /\ Nodes(FrameLow, top, end, role, bound)' /\ Bounds(input, FrameLow, end, role, bound)'
      /\ Trees(tree, Opens, FrameLow, top, role, bound)'
      /\ Heads(input, heads, FrameLow, role, bound, above)'
      /\ Lists(input, tree, FrameLow, top, role, bound, above)'
  <2>1. /\ Shaped(role, bound, above, ends)
        /\ Nodes(FrameLow, top, end, role, bound) /\ Bounds(input, FrameLow, end, role, bound)
        /\ Trees(tree, Opens, FrameLow, top, role, bound)
        /\ Heads(input, heads, FrameLow, role, bound, above)
        /\ Lists(input, tree, FrameLow, top, role, bound, above)
    BY <1>1 DEF Shape
  <2>2. Trees(tree, Opens, FrameLow, top, role, bound)'
    <3> SUFFICES ASSUME NEW i \in Nat, NEW side \in Sides, role[i] = "sorted", Owned(top, i),
                        <<Slot(i), side>> \notin Opens'
                 PROVE  Child(FrameLow', role, bound, i, side, tree'[Slot(i)][side])
      BY DEF Trees, Child, Owned, Slot
    <3> QED BY <1>2, <1>6, <2>1 DEF Trees
  <2> QED BY <1>2, <1>6, <2>1, <2>2 DEF Shaped, Nodes, Bounds, Heads, Lists
<1>9. Stacks(role)'
  <2> PICK p, c : p = previous /\ c = candidate OBVIOUS
  <2>1. previous' = p /\ candidate' = c BY <1>2
  <2>2. \A first : Stack(role, first)' = Stack(role, first) BY <1>6 DEF Stack
  <2>3. Stacks(role) BY <1>1 DEF Shape
  <2>4. Left(previous)' = Left(p) /\ Left(candidate)' = Left(c) BY <1>2 DEF Left, Slot
  <2>5. Stack(role, previous)' = Stack(role, p) /\ Stack(role, candidate)' = Stack(role, c)
    BY <1>2, <1>6 DEF Stack
  <2> QED BY <1>2, <1>6, <2>1, <2>3, <2>4, <2>5 DEF Stacks, Given
<1>10. Walk(top, role, bound, above, ends)'
  <2>1. Walk(top, role, bound, above, ends) BY <1>1 DEF Shape
  <2>2. \A side \in Sides : Matching(Unbiased(walk.node), Unbiased(ends[side]), end)'
                             = Matching(Unbiased(walk.node), Unbiased(ends[side]), end)
    BY <1>2 DEF Matching, Unbiased, Byte
  <2> QED BY <1>2, <1>6, <2>1, <2>2 DEF Walk, Lost, Owned, Slot
<1>11. Unlisted(top, role)' BY <1>1, <1>2, <1>6 DEF Shape, Unlisted, Owned, Left, Slot
<1>12. Shape(top, role, bound, above, ends)' BY <1>7, <1>8, <1>9, <1>10, <1>11 DEF Shape
<1>13. phase' = "idle" => found' = NoMatch BY <1>2 DEF IInv
<1> QED BY <1>3, <1>4, <1>5, <1>12, <1>13, InvariantBy

\* The invariant holds, from the first frame to the last search.
THEOREM Invariance == Spec => []IInv
<1>1. Init => IInv BY InitHolds
<1>2. IInv /\ [Next]_vars => IInv'
  <2> SUFFICES ASSUME IInv, [Next]_vars PROVE IInv' OBVIOUS
  <2>1. CASE \E content \in Inputs : Reset(content) BY <2>1, ResetKeeps
  <2>2. CASE \E size \in BlockSizes : BeginBlock(size) \/ SkipBlock(size)
    BY <2>2, BeginBlockKeeps, SkipBlockKeeps
  <2>3. CASE \E step \in 0..MaxStep : Search(position + step) \/ SearchBehind(position + step)
    BY <2>3, SearchKeeps, SearchBehindKeeps
  <2>4. CASE EndBlock BY <2>4, EndBlockKeeps
  <2>5. CASE Insert BY <2>5, InsertKeeps
  <2>6. CASE Updated BY <2>6, UpdatedKeeps
  <2>7. CASE Unstack BY <2>7, UnstackKeeps
  <2>8. CASE Unstacked BY <2>8, UnstackedKeeps
  <2>9. CASE Sort BY <2>9, SortKeeps
  <2>10. CASE Sorted BY <2>10, SortedKeeps
  <2>11. CASE \E distance \in 1..Len(input) : TryRepeat(distance)
    <3>1. PICK distance \in 1..Len(input) : TryRepeat(distance) BY <2>11
    <3>2. Len(input) \in Nat
      <4>1. TypeOK BY DEF IInv
      <4> QED BY <4>1, Ranges
    <3>3. distance \in Nat /\ distance >= 1 BY <3>2
    <3> QED BY <3>1, <3>3, TryRepeatKeeps
  <2>12. CASE Repeated BY <2>12, RepeatedKeeps
  <2>13. CASE Stop BY <2>13, StopKeeps
  <2>14. CASE \E prefers \in BOOLEAN : Visit(prefers) BY <2>14, VisitKeeps
  <2>15. CASE UNCHANGED vars BY <2>15, StutterKeeps
  <2> QED BY <2>1, <2>2, <2>3, <2>4, <2>5, <2>6, <2>7, <2>8, <2>9, <2>10, <2>11, <2>12, <2>13,
             <2>14, <2>15 DEF Next
<1> QED BY <1>1, <1>2, PTL DEF Spec

\* What was found is a match: equal bytes in the block and in the window
\* (find_best_binary_tree_match and the repeat codes before it).
THEOREM MatchesHold == Spec => []MatchesAreReal
<1>1. IInv => MatchesAreReal BY DEF IInv
<1> QED BY <1>1, Invariance, PTL

----------------------------------------------------------------------------
(* What is below a link: Below's recursive function exists.                *)

\* Below's equation.
Under(f, index) ==
  IF index < FrameLow THEN {}
  ELSE {index} \cup
       (IF ~Followed(index) \/ tree[Slot(index)].larger = Mark THEN {}
        ELSE LET node == tree[Slot(index)]
             IN  (IF node.smaller < index THEN f[node.smaller] ELSE {index})
                 \cup (IF node.larger < index THEN f[node.larger] ELSE {index}))

\* f is a solution up to n.
Solves(f, n) == f = [index \in 0..n |-> Under(f, index)]

\* What is below a link depends on older links only.
LEMMA UnderAlike ==
  ASSUME TypeOK, NEW f, NEW g, NEW index \in Nat, \A k \in Nat : k < index => g[k] = f[k]
  PROVE  Under(g, index) = Under(f, index)
<1> PICK node : node = tree[Slot(index)] OBVIOUS
<1>1. node.smaller \in Nat /\ node.larger \in Nat
  <2>1. tree \in Forest BY DEF TypeOK, TableOK
  <2> QED BY <2>1, NodeIn
<1>2. node.smaller < index => g[node.smaller] = f[node.smaller] BY <1>1
<1>3. node.larger < index => g[node.larger] = f[node.larger] BY <1>1
<1> QED BY <1>2, <1>3 DEF Under

\* The equation of Below has a solution up to any index.
LEMMA Solvable ==
  ASSUME TypeOK
  PROVE  \A n \in Nat : \E f : Solves(f, n)
<1> DEFINE T == {n \in Nat : \E f : Solves(f, n)}
<1>0. FrameLow \in Nat /\ 0 < FrameLow
  <2>1. base \in Nat /\ FrameLow = base + 2 BY Ranges
  <2> QED BY <2>1
<1>1. ASSUME NEW n \in Nat, \A m \in Nat : m < n => m \in T PROVE n \in T
  <2>1. CASE n = 0
    <3> PICK f : f = [index \in 0..0 |-> {}] OBVIOUS
    <3>1. \A index \in 0..0 : Under(f, index) = {} BY <1>0 DEF Under
    <3>2. f = [index \in 0..0 |-> Under(f, index)] BY <3>1
    <3> QED BY <2>1, <3>2 DEF Solves
  <2>2. CASE n # 0
    <3>1. n - 1 \in Nat /\ n - 1 < n BY <2>2
    <3>2. n - 1 \in T BY <1>1, <3>1
    <3> PICK f : Solves(f, n - 1) BY <3>2
    <3>3. \A i \in 0..(n - 1) : f[i] = Under(f, i) BY DEF Solves
    <3> PICK g : g = [i \in 0..n |-> IF i = n THEN Under(f, n) ELSE f[i]] OBVIOUS
    <3>4. \A k \in Nat : k < n => g[k] = f[k] OBVIOUS
    <3>5. ASSUME NEW i \in 0..n PROVE g[i] = Under(g, i)
      <4>1. Under(g, i) = Under(f, i)
        <5>1. i \in Nat /\ \A k \in Nat : k < i => g[k] = f[k] BY <3>4
        <5> QED BY <5>1, UnderAlike
      <4>2. CASE i = n BY <4>1, <4>2
      <4>3. CASE i # n
        <5>1. i \in 0..(n - 1) BY <4>3
        <5>2. g[i] = f[i] BY <4>3
        <5> QED BY <3>3, <4>1, <5>1, <5>2
      <4> QED BY <4>2, <4>3
    <3>6. g = [i \in 0..n |-> Under(g, i)] BY <3>5
    <3> QED BY <3>6 DEF Solves
  <2> QED BY <2>1, <2>2
<1> HIDE DEF T
<1>2. \A n \in Nat : n \in T BY <1>1, Induction
<1> QED BY <1>2 DEF T

\* Below is that solution.
LEMMA BelowIs ==
  ASSUME TypeOK
  PROVE  \E f : /\ \A i \in 0..MaxIndex : f[i] = Under(f, i)
                /\ \A link : Below(link) = f[link]
<1> DEFINE f == CHOOSE f : f = [index \in 0..MaxIndex |-> Under(f, index)]
<1>1. MaxIndex \in Nat BY ConstantsAssumption DEF ConstantsAssumption
<1>2. \E g : g = [index \in 0..MaxIndex |-> Under(g, index)] BY <1>1, Solvable DEF Solves
<1>3. f = [index \in 0..MaxIndex |-> Under(f, index)] BY <1>2
<1>4. ASSUME NEW link PROVE Below(link) = f[link] BY DEF Below, Under
<1> HIDE DEF f
<1>5. \A i \in 0..MaxIndex : f[i] = Under(f, i) BY <1>3
<1> QED BY <1>4, <1>5

\* A length that is compared is the number of equal bytes, whether it starts from
\* what both sides have in common or from a comparison one byte before
\* (insert_binary_tree_candidate and the search's loop).
THEOREM LengthsHold == Spec => []LengthsAreExact
<1>1. IInv => LengthsAreExact
  <2> SUFFICES ASSUME IInv, Visiting PROVE ComparedLength = Matching(At, Matched, end)
    BY DEF LengthsAreExact
  <2>1. PICK top \in Nat, role \in [Nat -> Roles], bound \in [Sides -> [Nat -> Nat]],
             above \in [Nat -> Nat], ends \in [Sides -> Nat] : Shape(top, role, bound, above, ends)
    BY DEF IInv
  <2>2. TypeOK /\ CacheTrue /\ phase \in Walking /\ Continues BY DEF IInv, Visiting
  <2> PICK x, m : x = walk.node /\ m = walk.match OBVIOUS
  <2>3. WalkFacts(top, role, bound, ends, x, m) BY <2>1, <2>2, WalkFactsHold
  <2>4. /\ Compares(top, role, bound, ends, x, m, ComparedLength)
        /\ At = x - FrameLow /\ Matched = m - FrameLow
    BY <2>1, <2>2, <2>3, ComparesHolds
  <2> QED BY <2>4 DEF Compares
<1> QED BY <1>1, Invariance, PTL

\* No node on the way of a btlazy2 search still waits to be sorted
\* (the unsorted list is unstacked and sorted before the tree is searched).
THEOREM SortedHold == Spec => []SortedBeforeSearched
<1>1. IInv => SortedBeforeSearched
  <2> SUFFICES ASSUME IInv, phase = "main", Continues, walk.match > walk.treeLow
               PROVE  tree[Slot(walk.match)].larger # Mark
    BY DEF SortedBeforeSearched
  <2>1. PICK top \in Nat, role \in [Nat -> Roles], bound \in [Sides -> [Nat -> Nat]],
             above \in [Nat -> Nat], ends \in [Sides -> Nat] : Shape(top, role, bound, above, ends)
    BY DEF IInv
  <2>2. TypeOK /\ phase \in Walking BY DEF IInv, Walking
  <2> PICK x, m : x = walk.node /\ m = walk.match OBVIOUS
  <2>3. WalkFacts(top, role, bound, ends, x, m) BY <2>1, <2>2, WalkFactsHold
  <2>4. /\ EndsIn(FrameLow, top, role, bound, x, ends)
        /\ \A side \in Sides : ends[side] \in Nat /\ m < ends[side]
        /\ Opens = Openings(ends, x) /\ m \in Nat /\ top \in Nat
        /\ role[m] = "sorted" /\ Owned(top, m)
    <3>1. m > walk.treeLow /\ m > walk.low BY DEF Continues
    <3> QED BY <2>3, <3>1 DEF WalkFacts
  <2>5. \A i \in Nat : role[i] # "none" => i <= top BY <2>1, <2>2, ShapeIs
  <2>6. \A side \in Sides : Slot(ends[side]) # Slot(m)
    <3> TAKE side \in Sides
    <3>1. ends[side] \in Nat /\ role[ends[side]] # "none" /\ Owned(top, ends[side]) /\ ends[side] # m
      BY <2>4 DEF EndsIn
    <3>2. ends[side] <= top /\ m <= top BY <2>4, <2>5, <3>1
    <3> QED BY <2>4, <3>1, <3>2, OwnApart
  <2>7. <<Slot(m), "larger">> \notin Opens
    <3> SUFFICES ASSUME <<Slot(m), "larger">> \in Openings(ends, x) PROVE FALSE BY <2>4
    <3>1. PICK side \in Sides : <<Slot(m), "larger">> = OpenAt(ends, x, side) BY DEF Openings
    <3>2. Slot(m) = Slot(ends[side]) BY <3>1 DEF OpenAt
    <3> QED BY <3>2, <2>6
  <2>8. "larger" \in Sides BY DEF Sides
  <2>9. Child(FrameLow, role, bound, m, "larger", tree[Slot(m)]["larger"])
    BY <2>1, <2>4, <2>7, <2>8 DEF Shape, Trees
  <2> QED BY <2>9 DEF Child
<1> QED BY <1>1, Invariance, PTL

\* Every node below a link is older than it and lies where the bounds of the
\* link's own node say.
Within(f, role, bound, link) ==
  \A j \in f[link] :
    /\ j \in Nat /\ FrameLow <= j /\ j <= link /\ role[j] # "none"
    /\ \A s \in Sides : bound[s][link] # 0 => Lies(input, FrameLow, end, bound[s][link], s, j)

\* Lying on a side is transitive.
LEMMA LiesBelow ==
  ASSUME TypeOK, NEW a \in Nat, NEW c \in Nat, NEW j \in Nat, NEW s \in Sides,
         FrameLow <= a, FrameLow <= c, FrameLow <= j,
         Lies(input, FrameLow, end, a, s, c), Lies(input, FrameLow, end, c, s, j)
  PROVE  Lies(input, FrameLow, end, a, s, j)
<1>1. /\ FrameLow \in Nat /\ end \in Nat /\ input \in Text /\ end <= Len(input) BY Ranges
<1> PICK low \in Nat : low = FrameLow BY <1>1
<1>2. a - low \in Nat /\ c - low \in Nat /\ j - low \in Nat OBVIOUS
<1>3. CASE s = "smaller"
  <2>1. Precedes(input, a - low, c - low, end) /\ Precedes(input, c - low, j - low, end)
    BY <1>3 DEF Lies
  <2>2. Precedes(input, a - low, j - low, end) BY <1>1, <1>2, <2>1, PrecedesTransitive
  <2> QED BY <1>3, <2>2 DEF Lies
<1>4. CASE s # "smaller"
  <2>1. Precedes(input, c - low, a - low, end) /\ Precedes(input, j - low, c - low, end)
    BY <1>4 DEF Lies
  <2>2. Precedes(input, j - low, a - low, end) BY <1>1, <1>2, <2>1, PrecedesTransitive
  <2> QED BY <1>4, <2>2 DEF Lies
<1> QED BY <1>3, <1>4

\* A followed node that is sorted has sorted children.
LEMMA FollowedIs ==
  ASSUME TypeOK, NEW top, NEW role, NEW bound, NEW above, NEW ends,
         Shape(top, role, bound, above, ends), phase = "ready",
         NEW i \in Nat, role[i] # "none", Followed(i), tree[Slot(i)].larger # Mark,
         NEW d \in Sides
  PROVE  /\ tree[Slot(i)][d] \in Nat /\ tree[Slot(i)][d] < i
         /\ Child(FrameLow, role, bound, i, d, tree[Slot(i)][d])
<1>1. /\ FrameLow \in Nat /\ next \in Nat /\ target \in Nat BY Ranges
<1>2. top \in Nat /\ top < next /\ role \in [Nat -> Roles] BY ShapeIs DEF Shape, Course
<1>3. Owned(top, i)
  <2> PICK l \in Nat : l = Larger(next, target) BY <1>1 DEF Larger
  <2>1. l > top BY <1>1, <1>2 DEF Larger
  <2>2. i > TreeLow(l) BY DEF Followed
  <2>3. Owned(l, i) BY <2>2, TreeLowIs
  <2> QED BY <1>2, <2>1, <2>3, TreeSizeIs DEF Owned
<1>4. role[i] = "sorted"
  <2>1. role[i] # "stacked" BY DEF Shape, OnlyWhen, Sorting
  <2>2. role[i] # "listed"
    <3> SUFFICES ASSUME role[i] = "listed" PROVE FALSE OBVIOUS
    <3>1. tree[Slot(i)].larger = Mark BY <1>3 DEF Shape, Lists
    <3> QED BY <3>1
  <2> QED BY <1>2, <2>1, <2>2 DEF Roles
<1>5. Opens = {} BY DEF Opens, Walking
<1>6. Child(FrameLow, role, bound, i, d, tree[Slot(i)][d]) BY <1>3, <1>4, <1>5 DEF Shape, Trees
<1>7. tree[Slot(i)][d] \in Nat
  <2>1. tree \in Forest BY DEF TypeOK, TableOK
  <2> QED BY <2>1, NodeIn
<1>8. FrameLow <= i BY ShapeIs
<1>9. tree[Slot(i)][d] < i
  <2> PICK c \in Nat : c = tree[Slot(i)][d] BY <1>7
  <2>1. c >= FrameLow => c < i BY <1>6 DEF Child
  <2>2. c < i BY <2>1, <1>1, <1>8
  <2> QED BY <2>2
<1> QED BY <1>6, <1>7, <1>9

\* What is below a child is older than the node, and on its side.
LEMMA WithinChild ==
  ASSUME TypeOK, NEW top, NEW role, NEW bound, NEW above, NEW ends,
         Shape(top, role, bound, above, ends), phase = "ready", NEW f,
         NEW i \in Nat, role[i] # "none", Followed(i), tree[Slot(i)].larger # Mark,
         NEW d \in Sides, NEW c, c = tree[Slot(i)][d],
         IF c >= FrameLow THEN Within(f, role, bound, c) ELSE f[c] = {}
  PROVE  \A j \in f[c] :
           /\ j \in Nat /\ FrameLow <= j /\ j < i /\ role[j] # "none"
           /\ Lies(input, FrameLow, end, i, Other(d), j)
           /\ \A s \in Sides : bound[s][i] # 0 => Lies(input, FrameLow, end, bound[s][i], s, j)
<1> SUFFICES ASSUME NEW j \in f[c]
             PROVE  /\ j \in Nat /\ FrameLow <= j /\ j < i /\ role[j] # "none"
                    /\ Lies(input, FrameLow, end, i, Other(d), j)
                    /\ \A s \in Sides : bound[s][i] # 0 => Lies(input, FrameLow, end, bound[s][i], s, j)
  OBVIOUS
<1>1. c >= FrameLow /\ Within(f, role, bound, c) OBVIOUS
<1>2. c \in Nat /\ c < i /\ Child(FrameLow, role, bound, i, d, c) BY FollowedIs
<1>3. role[c] = "sorted" /\ bound[Other(d)][c] = i /\ bound[d][c] = bound[d][i]
  BY <1>1, <1>2 DEF Child
<1>4. /\ j \in Nat /\ FrameLow <= j /\ j <= c /\ role[j] # "none"
      /\ \A s \in Sides : bound[s][c] # 0 => Lies(input, FrameLow, end, bound[s][c], s, j)
  BY <1>1 DEF Within
<1>5. FrameLow <= i /\ FrameLow \in Nat /\ FrameLow > 0 /\ bound \in [Sides -> [Nat -> Nat]]
  <2>1. base \in Nat /\ FrameLow = base + 2 BY Ranges
  <2>2. FrameLow \in Nat /\ FrameLow > 0 BY <2>1
  <2>3. FrameLow <= i /\ bound \in [Sides -> [Nat -> Nat]] BY ShapeIs
  <2> QED BY <2>2, <2>3
<1> PICK o \in Sides : o = Other(d) /\ \A s \in Sides : s = d \/ s = o BY SidesAre
<1>6. Lies(input, FrameLow, end, i, o, j)
  <2>1. i # 0 BY <1>5
  <2> QED BY <1>3, <1>4, <2>1
<1>7. ASSUME NEW s \in Sides, bound[s][i] # 0
      PROVE  Lies(input, FrameLow, end, bound[s][i], s, j)
  <2>1. CASE s = d BY <1>3, <1>4, <1>7, <2>1
  <2>2. CASE s = o
    <3>1. FrameLow <= bound[o][i] /\ Lies(input, FrameLow, end, bound[o][i], o, i)
      BY <1>7, <2>2 DEF Shape, Bounds
    <3>2. bound[o][i] \in Nat BY <1>5
    <3>3. Lies(input, FrameLow, end, bound[o][i], o, j)
      BY <1>4, <1>5, <1>6, <3>1, <3>2, LiesBelow
    <3> QED BY <2>2, <3>3
  <2> QED BY <2>1, <2>2
<1>8. j < i BY <1>2, <1>4
<1> QED BY <1>4, <1>6, <1>7, <1>8

\* So it is below every link.
LEMMA WithinAll ==
  ASSUME TypeOK, NEW top, NEW role, NEW bound, NEW above, NEW ends,
         Shape(top, role, bound, above, ends), phase = "ready",
         NEW f, \A i \in 0..MaxIndex : f[i] = Under(f, i)
  PROVE  \A i \in 0..MaxIndex : IF i >= FrameLow
                                THEN role[i] # "none" => Within(f, role, bound, i)
                                ELSE f[i] = {}
<1> DEFINE T == {i \in Nat : i <= MaxIndex =>
                   IF i >= FrameLow THEN role[i] # "none" => Within(f, role, bound, i)
                                    ELSE f[i] = {}}
<1>0. FrameLow \in Nat /\ MaxIndex \in Nat
  BY Ranges, ConstantsAssumption DEF ConstantsAssumption
<1>1. ASSUME NEW i \in Nat, \A m \in Nat : m < i => m \in T PROVE i \in T
  <2> SUFFICES ASSUME i <= MaxIndex
               PROVE  IF i >= FrameLow THEN role[i] # "none" => Within(f, role, bound, i)
                                       ELSE f[i] = {}
    OBVIOUS
  <2>1. f[i] = Under(f, i) BY <1>0
  <2>2. CASE ~(i >= FrameLow) BY <1>0, <2>1, <2>2 DEF Under
  <2>3. CASE i >= FrameLow
    <3> SUFFICES ASSUME role[i] # "none" PROVE Within(f, role, bound, i) BY <2>3
    <3>1. \A s \in Sides : bound[s][i] # 0 => Lies(input, FrameLow, end, bound[s][i], s, i)
      BY DEF Shape, Bounds
    <3>2. /\ i \in Nat /\ FrameLow <= i /\ i <= i
      BY <1>0, <2>3
    <3>3. CASE ~Followed(i) \/ tree[Slot(i)].larger = Mark
      <4>1. f[i] = {i} BY <1>0, <2>1, <2>3, <3>3 DEF Under
      <4> QED BY <3>1, <3>2, <4>1 DEF Within
    <3>4. CASE Followed(i) /\ tree[Slot(i)].larger # Mark
      <4> PICK a, b : a = tree[Slot(i)].smaller /\ b = tree[Slot(i)].larger OBVIOUS
      <4>1. "smaller" \in Sides /\ "larger" \in Sides BY DEF Sides
      <4>2. /\ a = tree[Slot(i)]["smaller"] /\ b = tree[Slot(i)]["larger"]
            /\ a \in Nat /\ b \in Nat /\ a < i /\ b < i
            /\ Child(FrameLow, role, bound, i, "smaller", a)
            /\ Child(FrameLow, role, bound, i, "larger", b)
        <5>1. a = tree[Slot(i)]["smaller"] /\ b = tree[Slot(i)]["larger"] OBVIOUS
        <5>2. /\ tree[Slot(i)]["smaller"] \in Nat /\ tree[Slot(i)]["smaller"] < i
              /\ Child(FrameLow, role, bound, i, "smaller", tree[Slot(i)]["smaller"])
          BY <3>4, <4>1, FollowedIs
        <5>3. /\ tree[Slot(i)]["larger"] \in Nat /\ tree[Slot(i)]["larger"] < i
              /\ Child(FrameLow, role, bound, i, "larger", tree[Slot(i)]["larger"])
          BY <3>4, <4>1, FollowedIs
        <5> QED BY <5>1, <5>2, <5>3
      <4>3. f[i] = {i} \cup f[a] \cup f[b] BY <1>0, <2>1, <2>3, <3>4, <4>2 DEF Under
      <4>4. IF a >= FrameLow THEN Within(f, role, bound, a) ELSE f[a] = {}
        <5>1. a \in T /\ a <= MaxIndex BY <1>0, <1>1, <4>2
        <5>2. a >= FrameLow => role[a] # "none" BY <4>2 DEF Child
        <5> QED BY <5>1, <5>2
      <4>5. IF b >= FrameLow THEN Within(f, role, bound, b) ELSE f[b] = {}
        <5>1. b \in T /\ b <= MaxIndex BY <1>0, <1>1, <4>2
        <5>2. b >= FrameLow => role[b] # "none" BY <4>2 DEF Child
        <5> QED BY <5>1, <5>2
      <4>6. \A j \in f[a] :
              /\ j \in Nat /\ FrameLow <= j /\ j < i /\ role[j] # "none"
              /\ \A s \in Sides : bound[s][i] # 0 => Lies(input, FrameLow, end, bound[s][i], s, j)
        BY <3>4, <4>1, <4>2, <4>4, WithinChild
      <4>7. \A j \in f[b] :
              /\ j \in Nat /\ FrameLow <= j /\ j < i /\ role[j] # "none"
              /\ \A s \in Sides : bound[s][i] # 0 => Lies(input, FrameLow, end, bound[s][i], s, j)
        BY <3>4, <4>1, <4>2, <4>5, WithinChild
      <4>8. ASSUME NEW j \in f[i]
            PROVE  /\ j \in Nat /\ FrameLow <= j /\ j <= i /\ role[j] # "none"
                   /\ \A s \in Sides : bound[s][i] # 0 => Lies(input, FrameLow, end, bound[s][i], s, j)
        <5>1. CASE j = i BY <3>1, <3>2, <5>1
        <5>2. CASE j \in f[a] BY <4>6, <5>2
        <5>3. CASE j \in f[b] BY <4>7, <5>3
        <5> QED BY <4>3, <5>1, <5>2, <5>3
      <4> QED BY <4>8 DEF Within
    <3> QED BY <3>3, <3>4
  <2> QED BY <2>2, <2>3
<1> HIDE DEF T
<1>2. \A i \in Nat : i \in T BY <1>1, Induction
<1> QED BY <1>0, <1>2 DEF T

\* What precedes in the text is found before in a comparison.
LEMMA PrecedesBefore ==
  ASSUME TypeOK, NEW p \in Nat, NEW q \in Nat, p # q, p < end, q < end, Precedes(input, p, q, end)
  PROVE  Before(p, q)
<1>1. end \in Nat BY Ranges
<1> PICK n \in Nat : /\ p + n < end /\ q + n < end
                     /\ \A i \in 0..(n - 1) : Byte(p + i) = Byte(q + i)
                     /\ Byte(p + n) < Byte(q + n)
  BY DEF Precedes, Byte
<1>2. Byte(p + n) # Byte(q + n)
  <2>1. Byte(p + n) \in Nat /\ Byte(q + n) \in Nat
    <3>1. input \in Text /\ Len(input) \in Nat /\ end <= Len(input) BY Ranges
    <3>2. (p + n) + 1 \in 1..Len(input) /\ (q + n) + 1 \in 1..Len(input) BY <1>1, <3>1
    <3> QED BY SMTT(30), <3>1, <3>2 DEF Byte, Text
  <2> QED BY <2>1
<1> PICK a, b : a = Larger(p, q) /\ b = Smaller(p, q) OBVIOUS
<1>3. (a = p /\ b = q) \/ (a = q /\ b = p) BY DEF Larger, Smaller
<1>4. Agrees(a, b, end, n)
  <2>1. n \in 0..(end - a) BY <1>1, <1>3
  <2>2. \A i \in 0..(n - 1) : Byte(a + i) = Byte(b + i) BY <1>3
  <2>3. Byte(a + n) # Byte(b + n) BY <1>2, <1>3
  <2> QED BY <2>1, <2>2, <2>3 DEF Agrees
<1>5. Matching(a, b, end) = n
  <2>1. a \in Nat /\ b \in Nat /\ a <= end BY <1>1, <1>3
  <2> QED BY <1>1, <1>4, <2>1, MatchingIs
<1>6. a + n < end BY <1>3
<1> QED BY <1>5, <1>6 DEF Before

\* Between two searches every bucket is a search tree: what is below a node is
\* older than it, and on the side its bytes say.
THEOREM TreesHold == Spec => []TreesAreOrdered
<1>1. IInv => TreesAreOrdered
  <2> SUFFICES ASSUME IInv, phase = "ready", NEW h \in Hashes, NEW i \in Below(heads[h]),
                      Followed(i), tree[Slot(i)].larger # Mark
               PROVE  /\ \A other \in Below(tree[Slot(i)].smaller) :
                           other < i /\ Before(Unbiased(other), Unbiased(i))
                      /\ \A other \in Below(tree[Slot(i)].larger) :
                           other < i /\ Before(Unbiased(i), Unbiased(other))
    BY DEF TreesAreOrdered
  <2>1. PICK top \in Nat, role \in [Nat -> Roles], bound \in [Sides -> [Nat -> Nat]],
             above \in [Nat -> Nat], ends \in [Sides -> Nat] : Shape(top, role, bound, above, ends)
    BY DEF IInv
  <2>2. TypeOK BY DEF IInv
  <2>3. PICK f : /\ \A k \in 0..MaxIndex : f[k] = Under(f, k)
                 /\ \A link : Below(link) = f[link]
    BY <2>2, BelowIs
  <2>4. \A k \in 0..MaxIndex : IF k >= FrameLow
                               THEN role[k] # "none" => Within(f, role, bound, k) ELSE f[k] = {}
    BY <2>1, <2>2, <2>3, WithinAll
  <2>5. /\ FrameLow \in Nat /\ end \in Nat /\ MaxIndex \in Nat
        /\ \A k \in Int : Index(k) = FrameLow + k /\ Unbiased(k) = k - FrameLow
    BY <2>2, Ranges, ConstantsAssumption DEF ConstantsAssumption
  <2>6. FrameLow + end <= MaxIndex
    <3>1. Index(end) <= MaxIndex BY <2>1 DEF Shape, Course
    <3>2. Index(end) = FrameLow + end BY <2>5
    <3> QED BY <3>1, <3>2
  <2>7. \A k \in Nat : role[k] # "none" =>
          /\ FrameLow <= k /\ k - FrameLow \in Nat /\ k - FrameLow < end /\ k \in 0..MaxIndex
    <3> SUFFICES ASSUME NEW k \in Nat, role[k] # "none"
                 PROVE  /\ FrameLow <= k /\ k - FrameLow \in Nat /\ k - FrameLow < end
                        /\ k \in 0..MaxIndex
      OBVIOUS
    <3>1. FrameLow <= k /\ k - FrameLow < end BY <2>1, <2>2, ShapeIs
    <3> PICK low \in Nat : low = FrameLow BY <2>5
    <3>2. low <= k /\ k - low < end /\ low + end <= MaxIndex BY <3>1, <2>6
    <3>3. k - low \in Nat /\ k \in 0..MaxIndex BY <3>2, <2>5
    <3> QED BY <3>1, <3>3
  <2>8. i \in Nat /\ role[i] # "none"
    <3> PICK c : c = heads[h] OBVIOUS
    <3>1. c \in Nat /\ (c >= FrameLow => role[c] # "none") BY <2>1, <2>2, ShapeIs
    <3>2. i \in f[c] BY <2>3
    <3>3. c \in 0..MaxIndex
      <4>1. c >= FrameLow => c \in 0..MaxIndex BY <3>1, <2>7
      <4>2. c < FrameLow => c <= MaxIndex BY <2>5, <2>6, <3>1
      <4> QED BY <4>1, <4>2, <2>5, <3>1
    <3>4. c >= FrameLow /\ Within(f, role, bound, c) BY <2>4, <3>1, <3>2, <3>3
    <3> QED BY <3>2, <3>4 DEF Within
  <2>9. /\ FrameLow <= i /\ i - FrameLow \in Nat /\ i - FrameLow < end /\ i \in 0..MaxIndex
        /\ Unbiased(i) = i - FrameLow
    BY <2>5, <2>7, <2>8
  <2>10. ASSUME NEW d \in Sides, NEW other \in Below(tree[Slot(i)][d])
         PROVE  /\ other < i /\ Lies(input, FrameLow, end, i, Other(d), other)
                /\ other \in Nat /\ role[other] # "none"
    <3> PICK c : c = tree[Slot(i)][d] OBVIOUS
    <3>1. c \in Nat /\ c < i /\ Child(FrameLow, role, bound, i, d, c)
      BY <2>1, <2>2, <2>8, <2>10, FollowedIs
    <3>2. c \in 0..MaxIndex BY <2>5, <2>9, <3>1
    <3>3. c >= FrameLow => role[c] # "none" BY <3>1 DEF Child
    <3>4. IF c >= FrameLow THEN Within(f, role, bound, c) ELSE f[c] = {} BY <2>4, <3>2, <3>3
    <3>5. other \in f[c] BY <2>3, <2>10
    <3>6. Followed(i) /\ tree[Slot(i)].larger # Mark /\ phase = "ready" OBVIOUS
    <3>7. \A j \in f[c] :
            /\ j \in Nat /\ FrameLow <= j /\ j < i /\ role[j] # "none"
            /\ Lies(input, FrameLow, end, i, Other(d), j)
            /\ \A s \in Sides : bound[s][i] # 0 => Lies(input, FrameLow, end, bound[s][i], s, j)
      BY <2>1, <2>2, <2>8, <2>10, <3>4, <3>6, WithinChild
    <3> QED BY <3>5, <3>7
  <2>11. "smaller" \in Sides /\ "larger" \in Sides /\ Other("smaller") = "larger"
         /\ Other("larger") = "smaller"
    BY DEF Sides, Other
  <2>12. ASSUME NEW other \in Below(tree[Slot(i)].smaller)
         PROVE  other < i /\ Before(Unbiased(other), Unbiased(i))
    <3>1. other < i /\ Lies(input, FrameLow, end, i, "larger", other) /\ other \in Nat
          /\ role[other] # "none"
      <4>1. other \in Below(tree[Slot(i)]["smaller"]) BY <2>12
      <4> QED BY <4>1, <2>10, <2>11
    <3>2. /\ other - FrameLow \in Nat /\ other - FrameLow < end /\ Unbiased(other) = other - FrameLow
      BY <2>5, <2>7, <3>1
    <3>3. Precedes(input, other - FrameLow, i - FrameLow, end) BY <3>1 DEF Lies
    <3>4. other - FrameLow # i - FrameLow
      <4>1. other # i BY <2>8, <3>1
      <4> QED BY <4>1, <2>5, <2>8, <3>1
    <3> QED BY <2>2, <2>9, <3>1, <3>2, <3>3, <3>4, PrecedesBefore
  <2>13. ASSUME NEW other \in Below(tree[Slot(i)].larger)
         PROVE  other < i /\ Before(Unbiased(i), Unbiased(other))
    <3>1. other < i /\ Lies(input, FrameLow, end, i, "smaller", other) /\ other \in Nat
          /\ role[other] # "none"
      <4>1. other \in Below(tree[Slot(i)]["larger"]) BY <2>13
      <4> QED BY <4>1, <2>10, <2>11
    <3>2. /\ other - FrameLow \in Nat /\ other - FrameLow < end /\ Unbiased(other) = other - FrameLow
      BY <2>5, <2>7, <3>1
    <3>3. Precedes(input, i - FrameLow, other - FrameLow, end) BY <3>1 DEF Lies
    <3>4. other - FrameLow # i - FrameLow
      <4>1. other # i BY <2>8, <3>1
      <4> QED BY <4>1, <2>5, <2>8, <3>1
    <3> QED BY <2>2, <2>9, <3>1, <3>2, <3>3, <3>4, PrecedesBefore
  <2> QED BY <2>12, <2>13
<1> QED BY <1>1, Invariance, PTL
=============================================================================
