------------------------------ MODULE BinaryTree ------------------------------
(***************************************************************************)
(* The binary trees of btlazy2 and of the optimal strategies               *)
(* (greedy_match_state with BinaryTree).  Each bucket of the hash table is *)
(* the root of a search tree of positions, ordered by the bytes that       *)
(* follow them; a child is always older than its parent.  A search puts    *)
(* its own position at the root and splits the old tree on its way down.   *)
(* The nodes live in a ring addressed by index modulo its size.            *)
(*                                                                         *)
(* btlazy2 only lists the positions between two searches and sorts them    *)
(* into the tree when a search comes by; the optimal strategies insert     *)
(* them at once, and keep the lengths they compared for the next one.      *)
(*                                                                         *)
(* Content is real here: trees over real bytes are compared byte by byte.  *)
(* Which positions a parser searches and which distances it repeats are    *)
(* choices, and so is whether btlazy2 prefers the next length it meets.    *)
(***************************************************************************)
EXTENDS Integers, Sequences

CONSTANTS
  Kinds,        \* of "lazy" (btlazy2), "optimal", and "optimal3" with 3-byte matches
  Inputs,       \* contents of frames, as sequences of bytes
  HashBytes,    \* bytes a position is hashed by
  TreeSize,     \* nodes of chain_table_, tree_mask_ + 1
  CacheSize,    \* entries in a row of comparison_cache_
  MaxIndex,     \* the largest index, 2^32 - 1
  Window,       \* 1 << window_log
  ReadSize,     \* hash_read_size
  Slack,        \* 8: how far before its end a match is left alone
  MinMatch,     \* optimal_minimum_match()
  MaxPath,      \* 4096: a length that ends the search
  Sufficient,   \* sufficient_length, the target length
  Attempts,     \* 1 << search_log
  BlockSkip,    \* block_update_skip_threshold
  BlockTail,    \* block_update_tail
  RunLength,    \* 384: an insertion that saw so long a match skips some positions
  RunSkip,      \* 192: and at most so many
  BlockSizes,   \* sizes of blocks
  MaxStep       \* bound: positions a parser steps over between two searches

Bias  == 2
Mark  == 1           \* unsorted_mark: no index is 1
Guard == Bias + 9    \* what ensure_index_headroom keeps free

ASSUME ConstantsAssumption ==
  /\ Kinds \subseteq {"lazy", "optimal", "optimal3"}
  /\ \A i \in Inputs : i \in Seq(Nat)
  /\ TreeSize \in Nat \ {0} /\ CacheSize \in Nat \ {0} /\ Window \in Nat \ {0}
  /\ MaxIndex \in Nat /\ MaxIndex > Guard
  /\ HashBytes \in 0..ReadSize /\ ReadSize \in Nat /\ MinMatch \in 2..ReadSize
  /\ Slack \in Nat /\ MaxPath \in Nat /\ Sufficient \in Nat /\ Attempts \in Nat \ {0}
  /\ BlockSkip \in Nat /\ BlockTail \in Nat /\ RunLength \in Nat /\ RunSkip \in Nat
  /\ BlockSizes \subseteq Nat \ {0} /\ MaxStep \in Nat

VARIABLES
  kind,      \* the strategy
  input,     \* the frame's content
  base,      \* frame_index_base_
  next,      \* next_to_update_
  next3,     \* next_to_update3_
  heads,     \* hash_table_
  hash3,     \* hash3_table_
  tree,      \* chain_table_: two children a node
  cache,     \* comparison_cache_: two rows of <<current, match, length>>
  begin, end,\* the block; between blocks, the end of the last
  position,  \* the next position the parser may search
  phase,     \* "idle", "ready"; of a search: "update", "insert", "unstack",
             \* "resort", "sort", "repeats", "main"
  target,    \* the index that is searched, `current`
  candidate, previous, budget, \* match_index, previous_candidate and candidates
  tried,     \* repeat codes tried
  longest,   \* longest_collected, or the length of the best match
  found,     \* the last match that was better than the ones before it
  walk       \* the way down a tree

vars == <<kind, input, base, next, next3, heads, hash3, tree, cache, begin, end, position,
          phase, target, candidate, previous, budget, tried, longest, found, walk>>

table  == <<base, next, next3, heads, hash3, tree, cache>>
block  == <<kind, input, begin, end>>
stack  == <<candidate, previous, budget>>
result == <<tried, longest, found>>

Sides == {"smaller", "larger"}
Other(side) == IF side = "smaller" THEN "larger" ELSE "smaller"

Smaller(a, b) == IF a < b THEN a ELSE b
Larger(a, b)  == IF a > b THEN a ELSE b

Slot(index)  == index % TreeSize
Index(p)     == base + p + Bias
Unbiased(i)  == i - base - Bias
FrameLow     == base + Bias
Byte(p)      == input[p + 1]
Hash(p)      == SubSeq(input, p + 1, p + HashBytes)
Hashes       == UNION {{SubSeq(i, p, p + HashBytes - 1) : p \in 1..(Len(i) - HashBytes + 1)}
                         : i \in Inputs}

\* count_matching_bytes: how far the bytes at p are those at q, up to `limit`.
Matching(p, q, limit) ==
  CHOOSE n \in 0..(limit - p) :
    /\ \A i \in 0..(n - 1) : Byte(p + i) = Byte(q + i)
    /\ n = limit - p \/ Byte(p + n) # Byte(q + n)

Leaf       == [smaller |-> 0, larger |-> 0]
NoEntry    == <<0, 0, 0>>
EmptyCache == [r \in 0..1 |-> [c \in 0..(CacheSize - 1) |-> NoEntry]]
NoMatch    == [distance |-> 0, length |-> 0]
NoWalk     == <<>>

Init ==
  /\ kind \in Kinds /\ input \in Inputs
  /\ base = 0 /\ next = Bias /\ next3 = Bias
  /\ heads = [h \in Hashes |-> 0] /\ hash3 = [h \in Hashes |-> 0]
  /\ tree = [s \in 0..(TreeSize - 1) |-> Leaf] /\ cache = EmptyCache
  /\ begin = 0 /\ end = 0 /\ position = 0
  /\ phase = "idle" /\ target = 0 /\ candidate = 0 /\ previous = 0 /\ budget = 0
  /\ tried = 0 /\ longest = 0 /\ found = NoMatch /\ walk = NoWalk

----------------------------------------------------------------------------
(* reset(), and rebasing in ensure_index_headroom.                         *)

\* Past everything recorded, and a window more.
NextBase == next + Window

\* Another frame; ultra2 parses the first block of a frame twice, with a reset
\* in between, and keeps its content.
Reset(content) ==
  /\ phase = "idle" /\ end > 0
  /\ IF NextBase + Window + Bias > MaxIndex
     THEN /\ base' = 0
          /\ heads' = [h \in Hashes |-> 0] /\ hash3' = [h \in Hashes |-> 0]
          /\ tree' = [s \in DOMAIN tree |-> Leaf]
     ELSE base' = NextBase /\ UNCHANGED <<heads, hash3, tree>>
  /\ next' = base' + Bias /\ next3' = base' + Bias
  /\ input' = content /\ begin' = 0 /\ end' = 0 /\ position' = 0
  /\ UNCHANGED <<kind, cache, phase, target, stack, result, walk>>

Rebased(index) == IF index >= FrameLow THEN index - base ELSE 0

\* Mutant: the nodes keep their slots.
Unrotated ==
  [s \in DOMAIN tree |-> [side \in Sides |->
     IF tree[s][side] = Mark THEN Mark ELSE Rebased(tree[s][side])]]

\* A node moves with its index; a node that waits to be sorted stays marked.
Rotated ==
  [s \in DOMAIN tree |-> [side \in Sides |->
     LET link == tree[Slot(s + base)][side]
     IN  IF link = Mark THEN Mark ELSE Rebased(link)]]

HasRoom(blockEnd) == base + blockEnd + Guard <= MaxIndex

\* Where recording goes on at the start of a block: a long gap is given up but
\* for a tail.
CaughtUp(from, blockIndex) ==
  IF blockIndex > from + BlockSkip
  THEN blockIndex - Smaller(BlockTail, blockIndex - from - BlockSkip)
  ELSE from

\* Mutant: lengths compared in the last block are kept.
CacheKept == cache

\* Lengths end at the end of the block they were compared in.
CacheAtBlock == EmptyCache

BeginBlock(size) ==
  /\ phase = "idle" /\ size >= ReadSize
  /\ end + size <= Len(input) /\ end + size <= MaxIndex - Guard
  /\ LET room == HasRoom(end + size)
         from == IF room THEN next ELSE Larger(Bias, Rebased(next))
         from3 == IF room THEN next3 ELSE Larger(Bias, Rebased(next3))
     IN  /\ IF room THEN UNCHANGED <<base, heads, hash3, tree>>
            ELSE /\ base' = 0 /\ tree' = Rotated
                 /\ heads' = [h \in Hashes |-> Rebased(heads[h])]
                 /\ hash3' = [h \in Hashes |-> Rebased(hash3[h])]
         /\ next' = CaughtUp(from, base' + end + Bias)
         /\ next3' = IF kind = "lazy" THEN from3 ELSE next'
         /\ cache' = IF kind = "lazy" THEN cache ELSE CacheAtBlock
  /\ begin' = end /\ end' = end + size
  /\ position' = IF kind = "lazy" /\ end = 0 THEN 1 ELSE end
  /\ phase' = "ready"
  /\ UNCHANGED <<kind, input, target, stack, result, walk>>

\* A block too short to hash.
SkipBlock(size) ==
  /\ phase = "idle" /\ size < ReadSize /\ end + size <= Len(input)
  /\ begin' = end /\ end' = end + size
  /\ UNCHANGED <<kind, input, table, position, phase, target, stack, result, walk>>

Limit == end - ReadSize

EndBlock ==
  /\ phase = "ready" /\ phase' = "idle"
  /\ target' = 0 /\ tried' = 0 /\ longest' = 0 /\ found' = NoMatch   \* no search's
  /\ UNCHANGED <<block, table, position, stack, walk>>

----------------------------------------------------------------------------
(* find_best_binary_tree_match                                             *)

WindowLow(index) == IF index - FrameLow > Window THEN index - Window ELSE FrameLow

\* Mutant: children are followed however old their node is.
AlwaysOwned(index) == 0

\* Nodes up to here may have lost their slot to `index`.
TreeLow(index) == IF TreeSize - 1 >= index THEN 0 ELSE index - (TreeSize - 1)

UnsortedLimit == Larger(TreeLow(target), WindowLow(target))

\* update_binary_tree: everything between the searches is listed, newest first,
\* and waits to be sorted.
ListedSince(p) == {q \in Unbiased(next)..(p - 1) : TRUE}

NewestOf(h, positions) ==
  CHOOSE q \in positions : Hash(q) = h /\ \A r \in positions : Hash(r) = h => r <= q

ListedHeads(positions) ==
  [h \in Hashes |-> IF \E q \in positions : Hash(q) = h
                    THEN Index(NewestOf(h, positions)) ELSE heads[h]]

\* The head of q's bucket when q is listed.
HeadBefore(q) ==
  LET before == {r \in ListedSince(q) : Hash(r) = Hash(q)}
  IN  IF before = {} THEN heads[Hash(q)] ELSE Index(NewestOf(Hash(q), before))

\* A slot keeps the last position that was listed in it.
ListedTree(positions) ==
  [s \in DOMAIN tree |->
     LET here == {q \in positions : Slot(Index(q)) = s}
     IN  IF here = {} THEN tree[s]
         ELSE LET q == CHOOSE q \in here : \A r \in here : r <= q
              IN  [smaller |-> HeadBefore(q), larger |-> Mark]]

\* A search of a position behind what has been recorded finds nothing.
SearchBehind(p) ==
  /\ phase = "ready" /\ p \in position..Limit /\ Index(p) < next
  /\ position' = p + 1 /\ found' = NoMatch
  /\ UNCHANGED <<block, table, phase, target, stack, tried, longest, walk>>

Search(p) ==
  /\ phase = "ready" /\ p \in position..Limit /\ Index(p) >= next
  /\ target' = Index(p) /\ position' = p + 1
  /\ found' = NoMatch /\ tried' = 0
  /\ IF kind = "lazy"
     THEN /\ heads' = ListedHeads(ListedSince(p)) /\ tree' = ListedTree(ListedSince(p))
          /\ next' = Index(p) /\ longest' = 0
          /\ phase' = "unstack" /\ candidate' = heads'[Hash(p)]
          /\ previous' = 0 /\ budget' = Attempts
     ELSE /\ phase' = "update" /\ longest' = MinMatch - 1
          /\ UNCHANGED <<heads, tree, next, stack>>
  /\ UNCHANGED <<block, base, next3, hash3, cache, walk>>

----------------------------------------------------------------------------
(* Down a tree: the loop of insert_binary_tree_candidate and the one of    *)
(* the search itself.                                                      *)

Walking == {"insert", "sort", "main"}

Path(index, match, attempts, low, treeLow, best) ==
  [node |-> index, match |-> match,
   smaller |-> <<Slot(index), "smaller">>, larger |-> <<Slot(index), "larger">>,
   common |-> [side \in Sides |-> 0], left |-> attempts,
   low |-> low, treeLow |-> treeLow, best |-> best, reach |-> index + Slack + 1]

Continues == walk.left > 0 /\ walk.match > walk.low

At      == Unbiased(walk.node)
Matched == Unbiased(walk.match)

\* The comparison of the position before with the match before.
CacheKey(index, match) == <<index % 2, match % CacheSize>>
Cached == cache[(walk.node - 1) % 2][(walk.match - 1) % CacheSize]
Hits   == /\ phase = "insert"
          /\ Cached[1] = walk.node - 1 /\ Cached[2] = walk.match - 1 /\ Cached[3] # 0

\* One byte less than that, or what both sides of the way down have in common
\* and what the comparison adds.
ComparedLength ==
  LET common == Smaller(walk.common["smaller"], walk.common["larger"])
  IN  IF Hits THEN Cached[3] - 1 ELSE common + Matching(At + common, Matched + common, end)

Link(children, slot, index) == [children EXCEPT ![slot[1]][slot[2]] = index]

\* What follows the end of a walk, once the open ends are closed.
Forward(best, reach) ==
  Larger(IF best > RunLength THEN Smaller(RunSkip, best - RunLength) ELSE 0,
         reach - (walk.node + Slack))

Finish(best, reach) ==
  /\ walk' = NoWalk
  /\ \/ /\ phase = "insert" /\ phase' = "update"
        /\ next' = next + Larger(1, Forward(best, reach))
        /\ UNCHANGED stack
     \/ /\ phase = "sort" /\ phase' = "resort"
        /\ candidate' = previous /\ budget' = budget + 1
        /\ UNCHANGED <<next, previous>>
     \/ /\ phase = "main" /\ phase' = "ready"
        /\ next' = reach - Slack
        /\ UNCHANGED stack

\* No attempt is left, or the next node is out of reach: both ends are closed.
Stop ==
  /\ phase \in Walking /\ ~Continues
  /\ tree' = Link(Link(tree, walk.smaller, 0), walk.larger, 0)
  /\ Finish(walk.best, walk.reach)
  /\ UNCHANGED <<block, base, next3, heads, hash3, cache, position, target, result>>

\* Down one side: the node is linked there, and the walk goes on with its child
\* on the other side.  An old node is linked, but its children are left.
Descend(side, length, best, reach) ==
  LET linked == Link(tree, walk[side], walk.match)
  IN  IF walk.match <= walk.treeLow
      THEN tree' = Link(linked, walk[Other(side)], 0) /\ Finish(best, reach)
      ELSE /\ tree' = linked
           /\ walk' = [walk EXCEPT !.common[side] = length, !.left = @ - 1,
                         ![side] = <<Slot(walk.match), Other(side)>>,
                         !.match = linked[Slot(walk.match)][Other(side)],
                         !.best = best, !.reach = reach]
           /\ UNCHANGED <<phase, next, stack>>

\* The bytes do not tell on which side the node belongs.
AtEnd(length) == At + length = end

\* btlazy2 may not prefer a longer match that is further away.
Visit(prefers) ==
  /\ phase \in Walking /\ Continues
  /\ LET length == ComparedLength
         longer == phase # "sort" /\ length > walk.best
         kept   == longer /\ (prefers \/ walk.best = 0)
         reach  == IF longer THEN Larger(walk.reach, walk.match + length) ELSE walk.reach
         best   == IF kept THEN length ELSE walk.best
         tooLong == phase = "main" /\ kind # "lazy" /\ longer /\ length > MaxPath
     IN  /\ prefers \/ (kind = "lazy" /\ longer /\ walk.best > 0)
         /\ cache' = IF phase = "insert"
                     THEN [cache EXCEPT ![walk.node % 2][walk.match % CacheSize] =
                             <<walk.node, walk.match, length>>]
                     ELSE cache
         /\ IF phase = "main" /\ kept
            THEN /\ found' = [distance |-> walk.node - walk.match, length |-> length]
                 /\ longest' = length
            ELSE UNCHANGED <<found, longest>>
         /\ IF tooLong \/ AtEnd(length)
            THEN /\ tree' = Link(Link(tree, walk.smaller, 0), walk.larger, 0)
                 /\ Finish(best, reach)
            ELSE Descend(IF Byte(Matched + length) < Byte(At + length)
                         THEN "smaller" ELSE "larger", length, best, reach)
  /\ UNCHANGED <<block, base, next3, heads, hash3, position, target, tried>>

----------------------------------------------------------------------------
(* update_optimal_binary_tree: the positions between the searches.         *)

Insert ==
  /\ phase = "update" /\ next < target
  /\ LET h == Hash(Unbiased(next))
     IN  /\ tree' = [tree EXCEPT ![Slot(next)] = [smaller |-> heads[h], larger |-> Mark]]
         /\ heads' = [heads EXCEPT ![h] = next]
         /\ walk' = Path(next, heads[h], Attempts, WindowLow(target) - 1, TreeLow(next), Slack)
  /\ phase' = "insert"
  /\ UNCHANGED <<block, base, next, next3, hash3, cache, position, target, stack, result>>

Updated ==
  /\ phase = "update" /\ next >= target
  /\ next' = target /\ phase' = "repeats"
  /\ UNCHANGED <<block, base, next3, heads, hash3, tree, cache, position, target, stack,
                 result, walk>>

----------------------------------------------------------------------------
(* btlazy2: what waits to be sorted is unstacked, the oldest sorted first. *)

Unsorted(index) == index > UnsortedLimit /\ tree[Slot(index)].larger = Mark

Unstack ==
  /\ phase = "unstack" /\ Unsorted(candidate) /\ budget > 1
  /\ tree' = [tree EXCEPT ![Slot(candidate)].larger = previous]
  /\ previous' = candidate /\ candidate' = tree[Slot(candidate)].smaller
  /\ budget' = budget - 1
  /\ UNCHANGED <<block, base, next, next3, heads, hash3, cache, position, phase, target,
                 result, walk>>

\* Mutant: the list is not cut when it is too long.
ListLeft == tree

\* What waits behind the attempts is given up.
ListCut ==
  IF Unsorted(candidate) THEN [tree EXCEPT ![Slot(candidate)] = Leaf] ELSE tree

Unstacked ==
  /\ phase = "unstack" /\ ~(Unsorted(candidate) /\ budget > 1)
  /\ tree' = ListCut
  /\ candidate' = previous /\ phase' = "resort"
  /\ UNCHANGED <<block, base, next, next3, heads, hash3, cache, position, target, previous,
                 budget, result, walk>>

Sort ==
  /\ phase = "resort" /\ candidate # 0
  /\ previous' = tree[Slot(candidate)].larger
  /\ walk' = Path(candidate, tree[Slot(candidate)].smaller, budget, WindowLow(target),
                  UnsortedLimit, 0)
  /\ phase' = "sort"
  /\ UNCHANGED <<block, table, position, target, candidate, budget, result>>

----------------------------------------------------------------------------
(* The search in the sorted tree.                                          *)

StartMain(best) ==
  LET h == Hash(Unbiased(target))
      low == IF kind = "lazy" THEN WindowLow(target) ELSE WindowLow(target) - 1
  IN  /\ heads' = [heads EXCEPT ![h] = target]
      /\ walk' = Path(target, heads[h], Attempts, low, TreeLow(target), best)
      /\ phase' = "main"

Sorted ==
  /\ phase = "resort" /\ candidate = 0 /\ StartMain(0)
  /\ UNCHANGED <<block, base, next, next3, hash3, tree, cache, position, target, stack, result>>

EndsSearch(length) == length > Sufficient \/ Unbiased(target) + length = end

\* Mutant: a repeated distance may reach through the whole frame.
InFrame(distance) == distance <= Unbiased(target)

InReach(distance) == distance <= target - WindowLow(target)

\* A repeated distance that is long enough ends the search before its position
\* is put into the tree.
TryRepeat(distance) ==
  LET p == Unbiased(target)
  IN  /\ phase = "repeats" /\ tried < 3
      /\ InReach(distance)
      /\ Matching(p, p - distance, end) > longest
      /\ found' = [distance |-> distance, length |-> Matching(p, p - distance, end)]
      /\ longest' = Matching(p, p - distance, end) /\ tried' = tried + 1
      /\ phase' = IF EndsSearch(longest') THEN "ready" ELSE "repeats"
      /\ UNCHANGED <<block, table, position, target, stack, walk>>

\* The last position of each three bytes, where no repeated distance was found.
Hash3Now ==
  LET new == {q \in Unbiased(next3)..(Unbiased(target) - 1) : TRUE}
  IN  [h \in Hashes |-> IF \E q \in new : Hash(q) = h
                        THEN Index(NewestOf(h, new)) ELSE hash3[h]]

Repeated ==
  /\ phase = "repeats"
  /\ LET p == Unbiased(target)
         uses3 == kind = "optimal3" /\ longest < MinMatch
         match3 == Hash3Now[Hash(p)]
         length == Matching(p, Unbiased(match3), end)
         hit == uses3 /\ match3 >= WindowLow(target) /\ match3 < target /\ length >= MinMatch
     IN  /\ IF uses3 THEN hash3' = Hash3Now /\ next3' = Larger(next3, target)
            ELSE UNCHANGED <<hash3, next3>>
         /\ IF hit
            THEN found' = [distance |-> target - match3, length |-> length] /\ longest' = length
            ELSE UNCHANGED <<found, longest>>
         /\ IF hit /\ EndsSearch(length)
            THEN next' = target + 1 /\ phase' = "ready" /\ UNCHANGED <<heads, walk>>
            ELSE StartMain(longest') /\ UNCHANGED next
  /\ UNCHANGED <<block, base, tree, cache, position, target, stack, tried>>

Next ==
  \/ \E content \in Inputs : Reset(content)
  \/ \E size \in BlockSizes : BeginBlock(size) \/ SkipBlock(size)
  \/ \E step \in 0..MaxStep : Search(position + step) \/ SearchBehind(position + step)
  \/ EndBlock \/ Insert \/ Updated \/ Unstack \/ Unstacked \/ Sort \/ Sorted
  \/ \E distance \in 1..Len(input) : TryRepeat(distance)
  \/ Repeated \/ Stop
  \/ \E prefers \in BOOLEAN : Visit(prefers)

Spec == Init /\ [][Next]_vars

----------------------------------------------------------------------------
(* Properties.                                                             *)

Visiting == phase \in Walking /\ Continues

\* The length a walk goes by is the number of equal bytes, although it starts
\* from what both sides have in common, or from a comparison one byte before.
LengthsAreExact == Visiting => ComparedLength = Matching(At, Matched, end)

\* A match that was found is one: equal bytes, in the block, in the window.
MatchesAreReal ==
  found # NoMatch =>
    LET p == Unbiased(target)
    IN  /\ found.distance \in 1..Smaller(Window, p)
        /\ found.length <= end - p
        /\ Matching(p, p - found.distance, end) = found.length

\* Nodes that are followed: their slot is still their own, as far as a search of
\* the next position can see.
Followed(index) == index > TreeLow(Larger(next, target)) /\ index > FrameLow

\* All nodes below a link, as far as they are followed.
Below(link) ==
  LET below[index \in 0..MaxIndex] ==
        IF index < FrameLow THEN {}
        ELSE {index} \cup
             (IF ~Followed(index) \/ tree[Slot(index)].larger = Mark THEN {}
              ELSE LET node == tree[Slot(index)]
                   IN  (IF node.smaller < index THEN below[node.smaller] ELSE {index})
                       \cup (IF node.larger < index THEN below[node.larger] ELSE {index}))
  IN  below[link]

Before(p, q) ==
  LET common == Matching(Larger(p, q), Smaller(p, q), end)
  IN  /\ Larger(p, q) + common < end
      /\ Byte(p + common) < Byte(q + common)

\* Between searches every bucket is a search tree whose children are older than
\* their parent: what the shortcut of LengthsAreExact and every descent rely on.
TreesAreOrdered ==
  phase = "ready" =>
    \A h \in Hashes : \A index \in Below(heads[h]) :
      Followed(index) /\ tree[Slot(index)].larger # Mark =>
        LET node == tree[Slot(index)]
        IN  /\ \A other \in Below(node.smaller) :
                 other < index /\ Before(Unbiased(other), Unbiased(index))
            /\ \A other \in Below(node.larger) :
                 other < index /\ Before(Unbiased(index), Unbiased(other))

\* When btlazy2 searches, nothing on its way still waits to be sorted.
SortedBeforeSearched ==
  phase = "main" /\ Continues /\ walk.match > walk.treeLow =>
    tree[Slot(walk.match)].larger # Mark
=============================================================================
