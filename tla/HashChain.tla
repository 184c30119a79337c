------------------------------- MODULE HashChain -------------------------------
(***************************************************************************)
(* What the greedy and lazy parsers search (greedy_match_state): chains of *)
(* positions, or rows of them (see MatchRows).  Positions are recorded     *)
(* late: a search first records everything between the last search and its *)
(* own position, or only both ends of a long gap.  The chain is a ring     *)
(* addressed by index modulo its size, so a link is worth something only   *)
(* until its slot is written again, and rebasing a long frame has to move  *)
(* the slots as well.                                                      *)
(*                                                                         *)
(* Abstractions.  Which bucket or row a position hashes to is a choice,    *)
(* and so is whether a candidate is taken and how long its match is.  The  *)
(* tag bytes beside the links only spare comparisons and are left out.     *)
(***************************************************************************)
EXTENDS MatchRows

CONSTANTS
  Parsers,        \* template parameters: rows (RowMatch), lookAhead (LazyDepth)
  Buckets,        \* slots of hash_table_
  Hashes,         \* <<row, tag>>: what a position may hash to in the rows
  ChainSize,      \* chain_table_.size()
  MaxIndex,       \* the largest index, 2^32 - 1
  Window,         \* 1 << window_log
  ReadSize,       \* hash_read_size
  MinMatch,       \* the shortest match
  SkipThreshold,  \* skip_threshold
  HeadUpdates,    \* maximum_match_start_updates
  TailUpdates,    \* maximum_match_end_updates
  BlockTail,      \* block_update_tail
  SkippingStep,   \* lazy_skipping_step
  Attempts,       \* 1 << search_log
  BlockSizes(_),  \* sizes of blocks, for chains and for rows
  MaxStep,        \* bound: positions a search that fails may step over
  MaxInput        \* bound: bytes of a frame

ASSUME ConstantsAssumption ==
  /\ Buckets # {}
  /\ ChainSize \in Nat \ {0} /\ Window \in Nat \ {0}
  /\ MaxIndex \in Nat
  /\ Parsers \subseteq [rows : BOOLEAN, lookAhead : {0, 1, 2}]
  /\ Hashes \subseteq Nat \X Nat
  /\ MinMatch \in Nat /\ MinMatch >= 4
  /\ ReadSize \in Nat /\ ReadSize >= MinMatch   \* a match fits where one may be tried
  /\ SkipThreshold \in Nat /\ HeadUpdates \in Nat /\ TailUpdates \in Nat \ {0}
  /\ CacheSize <= TailUpdates + 2   \* the cache is full again behind a gap
  /\ HeadUpdates + TailUpdates <= SkipThreshold /\ BlockTail \in Nat
  /\ SkippingStep \in Nat /\ Attempts \in Nat \ {0}
  /\ \A rows \in BOOLEAN : BlockSizes(rows) \subseteq Nat \ {0}
  /\ MaxStep \in Nat /\ MaxInput \in Nat

VARIABLES
  parser,    \* the one of Parsers that the compressor was compiled with
  base,      \* frame_index_base_, of rows frame_base
  next,      \* the index of the next position to record: next_to_update_, of
             \* rows next
  heads,     \* hash_table_
  links,     \* chain_table_
  cells,     \* the rows: table
  cache,     \* cache
  phase,     \* "idle"; in parse() "scan", "look" or "taken"; in a search
             \* "insert", of rows "search", or "found"
  begin, end,\* the block; between blocks, the end of the last
  position,  \* where the parser is
  start,     \* match_start of the match in hand
  looks,     \* positions looked at ahead of it
  skipping,  \* lazy_skipping
  until, resume,  \* insert_until's bound, and where next_to_update_ goes then
  recorded,  \* history variable: what each bucket's positions were, newest first
  written    \* history variable: what each row's positions and tags were

table  == <<base, next, heads, links, cells, cache, recorded, written>>
search == <<until, resume>>
vars   == <<parser, table, phase, begin, end, position, start, looks, skipping, search>>

LookAhead == parser.lookAhead
Rows      == {hash[1] : hash \in Hashes}

Bias  == IF parser.rows THEN 1 ELSE 2
Guard == 2 + 9      \* what ensure_index_headroom keeps free

Slot(index)   == index % ChainSize
Index(p)      == base + p + Bias
Unbiased(i)   == i - base - Bias
Smaller(a, b) == IF a < b THEN a ELSE b
Larger(a, b)  == IF a > b THEN a ELSE b

Init ==
  /\ parser \in Parsers
  /\ base = 0 /\ next = Bias
  /\ heads = [b \in Buckets |-> 0] /\ links = [s \in 0..(ChainSize - 1) |-> 0]
  /\ cells = [row \in Rows |-> EmptyRow] /\ cache = EmptyCache
  /\ phase = "idle" /\ begin = 0 /\ end = 0 /\ position = 0 /\ start = 0 /\ looks = 0
  /\ skipping = FALSE /\ until = 0 /\ resume = 0
  /\ recorded = [b \in Buckets |-> <<>>] /\ written = [row \in Rows |-> <<>>]

----------------------------------------------------------------------------
(* reset() and ensure_index_headroom.                                      *)

\* Mutant: the next frame's indexes are those of this one.
SameBase == base

\* Past everything recorded, and a window more in the chains.
NextBase == IF parser.rows THEN next ELSE next + Window

Exhausted ==
  IF parser.rows THEN NextBase > MaxIndex \div 2 ELSE NextBase + Window + Bias > MaxIndex

Reset ==
  /\ phase = "idle" /\ end > 0
  /\ IF Exhausted
     THEN /\ base' = 0
          /\ heads' = [b \in Buckets |-> 0] /\ links' = [s \in DOMAIN links |-> 0]
          /\ cells' = [row \in Rows |-> EmptyRow]
     ELSE base' = NextBase /\ UNCHANGED <<heads, links, cells>>
  /\ next' = base' + Bias /\ cache' = EmptyCache
  /\ recorded' = [b \in Buckets |-> <<>>] /\ written' = [row \in Rows |-> <<>>]
  /\ begin' = 0 /\ end' = 0 /\ position' = 0 /\ start' = 0 /\ looks' = 0
  /\ UNCHANGED <<parser, phase, skipping, search>>

\* Indexes of this frame move down by the base, earlier ones become empty.
Rebased(index) == IF index >= base + Bias THEN index - base ELSE 0

\* Mutant: the links stay in their slots.
Unrotated == [s \in DOMAIN links |-> Rebased(links[s])]

\* A slot follows the index that is kept in it.
Rotated == [s \in DOMAIN links |-> Rebased(links[Slot(s + base)])]

HasRoom(blockEnd) ==
  base + blockEnd + (IF parser.rows THEN Bias ELSE Guard) <= MaxIndex

\* An index kept from before room was made.
Moved(index, blockEnd) ==
  IF HasRoom(blockEnd) THEN index ELSE Larger(Bias, Rebased(index))

Headroom(blockEnd) ==
  /\ IF HasRoom(blockEnd) THEN UNCHANGED <<base, heads, links, cells>>
     ELSE /\ base' = 0 /\ links' = Rotated
          /\ heads' = [b \in Buckets |-> Rebased(heads[b])]
          /\ cells' = [row \in Rows |-> [slot \in DOMAIN cells[row] |->
                          [cells[row][slot] EXCEPT !.index = Rebased(@)]]]
  /\ UNCHANGED <<recorded, written>>

----------------------------------------------------------------------------
(* parse()                                                                 *)

\* Mutant: the parser stops where a position can still be hashed, not one ahead.
OneRead == ReadSize

\* Hashing reads ReadSize bytes, in the rows of a position CacheSize ahead.
Reach == ReadSize + (IF parser.rows THEN CacheSize ELSE 0)

Limit == end - Reach

\* The block that follows the last.
Block(size) ==
  /\ phase = "idle"
  /\ size \in BlockSizes(parser.rows)
  /\ end + size <= MaxInput /\ end + size <= MaxIndex - Guard
  /\ begin' = end /\ end' = end + size

\* At the start of a block the rows give up most of a gap.
CaughtUp ==
  LET gap == Index(end) - next
  IN  IF parser.rows /\ gap > SkipThreshold
      THEN Index(end) - Smaller(BlockTail, gap - SkipThreshold) ELSE next

BeginBlock(size) ==
  /\ Block(size) /\ size >= Reach
  /\ Headroom(end + size)
  /\ next' = Moved(CaughtUp, end + size)
  /\ cache' = Filled(cache, Unbiased(CaughtUp), end + size - Reach)
  /\ position' = IF end = 0 THEN 1 ELSE end
  /\ start' = end /\ looks' = 0 /\ skipping' = FALSE /\ phase' = "scan"
  /\ UNCHANGED <<parser, search>>

\* A block too short to hash.
SkipBlock(size) ==
  /\ Block(size) /\ size < ReadSize
  /\ UNCHANGED <<parser, table, phase, position, start, looks, skipping, search>>

\* A block is written down without a search, after room was made for its indexes:
\* one that is a long run, and in the rows one too short to hash ahead.
Shortcut(size) ==
  /\ Block(size) /\ size >= ReadSize
  /\ parser.rows => size < Reach
  /\ Headroom(end + size)
  /\ next' = Moved(next, end + size)
  /\ UNCHANGED <<parser, cache, phase, position, start, looks, skipping, search>>

EndBlock ==
  /\ phase = "scan" /\ position >= Limit
  /\ phase' = "idle" /\ skipping' = FALSE
  /\ UNCHANGED <<parser, table, begin, end, position, start, looks, search>>

\* find_best_hash_chain_match and row_parser_workspace::find: what is recorded
\* before the search at `at`.  A long gap is recorded at both ends only, and
\* hardly or not at all while skipping.
BeginSearch(at) ==
  LET current == Index(at)
  IN  /\ phase' = "insert"
      /\ IF skipping
         THEN /\ until' = IF parser.rows THEN next ELSE Smaller(current, next + 1)
              /\ resume' = current
         ELSE IF current - next > SkipThreshold
         THEN until' = next + HeadUpdates /\ resume' = current - TailUpdates
         ELSE until' = current /\ resume' = current

\* The search at the parser's position.
Scan ==
  /\ phase = "scan" /\ position < Limit
  /\ BeginSearch(position) /\ start' = position /\ looks' = 0
  /\ UNCHANGED <<parser, table, begin, end, position, skipping>>

\* The lazy parsers search on from one position to the next with a match in hand.
Look ==
  /\ phase = "look" /\ looks < LookAhead /\ position < Limit
  /\ position' = position + 1 /\ looks' = looks + 1
  /\ BeginSearch(position + 1)
  /\ UNCHANGED <<parser, table, begin, end, start, skipping>>

\* A list of positions, newest first, down to position p.
Newest(list, p) ==
  SubSeq(list, 1, CHOOSE n \in 0..Len(list) :
                    \A i \in 1..Len(list) : i <= n <=> list[i] >= p)

\* What a search from here can still see of the recorded positions.
Kept(list, p) == Newest(list, p - Window)

\* insert_until: the index `next` is recorded and linked to its bucket's last.
Record(bucket) ==
  /\ phase = "insert" /\ next < until /\ ~parser.rows
  /\ links' = [links EXCEPT ![Slot(next)] = heads[bucket]]
  /\ heads' = [heads EXCEPT ![bucket] = next]
  /\ recorded' = [b \in Buckets |->
                    Kept(IF b = bucket THEN <<Unbiased(next)>> \o recorded[b]
                         ELSE recorded[b], Unbiased(next))]
  /\ next' = next + 1
  /\ UNCHANGED <<parser, base, cells, cache, written, phase, begin, end, position, start,
                 looks, skipping, search>>

\* A position is put into the row of its hash.
Insert(hash, at) ==
  /\ cells' = [cells EXCEPT ![hash[1]] = Inserted(@, hash[2], Index(at))]
  /\ written' = [written EXCEPT ![hash[1]] = SubSeq(<<<<at, hash[2]>>>> \o @, 1, Smaller(Len(@) + 1, RowMask))]
  /\ next' = Index(at) + 1

\* The same in the rows, where the hash comes from the cache.
RecordInRow(hash) ==
  /\ phase = "insert" /\ next < until /\ parser.rows
  /\ Insert(hash, Unbiased(next))
  /\ cache' = Advanced(cache, Unbiased(next))
  /\ UNCHANGED <<parser, base, heads, links, recorded, phase, begin, end, position, start,
                 looks, skipping, search>>

\* Mutant: the cache still waits for the positions of the gap.
Unfilled == cache

\* The cache after a gap.
Refilled == Filled(cache, Unbiased(resume), position + 1)

\* Everything that is to be recorded before the search is.
Recorded ==
  /\ phase = "insert" /\ next >= until
  /\ next' = resume
  /\ IF resume = Index(position)
     THEN /\ phase' = IF parser.rows THEN "search" ELSE "found"
          /\ UNCHANGED <<search, cache>>
     ELSE /\ phase' = phase /\ until' = Index(position) /\ resume' = Index(position)
          /\ cache' = IF parser.rows THEN Refilled ELSE cache
  /\ UNCHANGED <<parser, base, heads, links, cells, recorded, written, begin, end, position,
                 start, looks, skipping>>

\* The rows' candidates are collected before the position itself is recorded,
\* and while skipping its hash does not come from the cache.
SearchRow(hash) ==
  /\ phase = "search"
  /\ phase' = "found"
  /\ Insert(hash, position)
  /\ cache' = IF skipping THEN cache ELSE Advanced(cache, position)
  /\ UNCHANGED <<parser, base, heads, links, recorded, begin, end, position, start, looks,
                 skipping, search>>

\* No match: the parser steps on, faster the longer it has found none.
Miss(step) ==
  /\ phase = "found" /\ looks = 0 /\ (skipping => step > SkippingStep)
  /\ position' = position + step /\ skipping' = (step > SkippingStep)
  /\ phase' = "scan"
  /\ UNCHANGED <<parser, table, begin, end, start, looks, search>>

\* A match at the position, or the repeated distance one byte further.
Hit(at) ==
  /\ phase = "found" /\ looks = 0 /\ at \in {position, position + 1}
  /\ start' = at
  /\ phase' = IF LookAhead = 0 THEN "taken" ELSE "look"
  /\ UNCHANGED <<parser, table, begin, end, position, looks, skipping, search>>

\* The greedy parser takes the repeated distance without a search.
GreedyRepeat ==
  /\ LookAhead = 0 /\ phase = "scan" /\ position < Limit
  /\ start' = position + 1 /\ phase' = "taken"
  /\ UNCHANGED <<parser, table, begin, end, position, looks, skipping, search>>

\* A better match ahead starts the look over; the repeated distance, tried first
\* at each position, does not.
Better ==
  /\ phase = "found" /\ looks > 0
  /\ start' = position /\ looks' = 0 /\ phase' = "look"
  /\ UNCHANGED <<parser, table, begin, end, position, skipping, search>>

NotBetter(repeat) ==
  /\ phase = "found" /\ looks > 0
  /\ start' = IF repeat THEN position ELSE start
  /\ phase' = "look"
  /\ UNCHANGED <<parser, table, begin, end, position, looks, skipping, search>>

EndLook ==
  /\ phase = "look" /\ (looks = LookAhead \/ position >= Limit)
  /\ phase' = "taken"
  /\ UNCHANGED <<parser, table, begin, end, position, start, looks, skipping, search>>

\* Mutant: the match is as long as the parser looked.
AnyLength == 1

\* The shortest match any of the comparisons lets through.
Shortest == MinMatch

\* Mutant: the cache is not filled again after skipping.
KeptAfterSkipping == cache

\* While the parser skipped, the cache stood still.
FilledAgain == IF parser.rows /\ skipping THEN Filled(cache, Unbiased(next), Limit) ELSE cache

\* The match is stored and the parser goes on behind it.
Take(length) ==
  /\ phase = "taken" /\ length >= Shortest /\ start + length <= end
  /\ position' = start + length /\ start' = start + length
  /\ skipping' = FALSE /\ looks' = 0 /\ phase' = "scan"
  /\ cache' = FilledAgain
  /\ UNCHANGED <<parser, base, next, heads, links, cells, recorded, written, begin, end, search>>

\* Right behind a match the other distance is repeated, without a search.
ImmediateRepeat(length) ==
  /\ phase = "scan" /\ start = position /\ position > begin /\ position <= Limit
  /\ length >= MinMatch /\ position + length <= end
  /\ position' = position + length /\ start' = position + length
  /\ UNCHANGED <<parser, table, phase, begin, end, looks, skipping, search>>

Next ==
  \/ Reset
  \/ \E size \in 1..MaxInput : BeginBlock(size) \/ SkipBlock(size) \/ Shortcut(size)
  \/ Scan \/ Look \/ Recorded \/ GreedyRepeat \/ Better \/ EndLook \/ EndBlock
  \/ \E bucket \in Buckets : Record(bucket)
  \/ \E hash \in Hashes : RecordInRow(hash) \/ SearchRow(hash)
  \/ \E step \in 1..MaxStep : Miss(step)
  \/ \E at \in {position, position + 1} : Hit(at)
  \/ \E repeat \in BOOLEAN : NotBetter(repeat)
  \/ \E length \in 1..(end - begin) : Take(length) \/ ImmediateRepeat(length)

Spec == Init /\ [][Next]_vars

----------------------------------------------------------------------------
(* The search itself, at the position that has been prepared for.          *)

FrameLow == base + Bias

\* Mutant: candidates outside the window are accepted.
WholeFrame == FrameLow

LowLimit ==
  IF Index(position) - FrameLow > Window THEN Index(position) - Window ELSE FrameLow
MinimumChain ==
  IF Index(position) > ChainSize THEN Index(position) - ChainSize ELSE 0

\* Mutant: links are followed however old they are.
AlwaysFollowed(index) == TRUE

\* The slot of an older index may have been written again.
Followed(index) == index > MinimumChain

\* The indexes the loop looks at, from the head of a bucket on: match_index after
\* i turns, as long as there is another.
Walk(bucket) ==
  LET turn[i \in 0..Attempts] ==
        IF i = 0 THEN heads[bucket]
        ELSE LET last == turn[i - 1]
             IN  IF last >= LowLimit /\ Followed(last) THEN links[Slot(last)] ELSE 0
      turns == CHOOSE n \in 0..Attempts :
                 /\ \A i \in 0..(n - 1) : turn[i] >= LowLimit
                 /\ n = Attempts \/ turn[n] < LowLimit
  IN  [i \in 1..turns |-> turn[i - 1]]

\* What it is meant to look at: the positions of the bucket inside the window,
\* from the newest on, until one was recorded too long ago to have a link.
Reachable(bucket) ==
  LET near == Newest(recorded[bucket], Unbiased(LowLimit))
      linked == Newest(near, Unbiased(MinimumChain + 1))
      count == Smaller(Smaller(Len(linked) + 1, Len(near)), Attempts)
  IN  [i \in 1..count |-> Index(near[i])]

\* What the rows are meant to give: of the newest positions a row has room for,
\* those of the hash inside the window, as many as are attempted.
InRow(hash) ==
  LET list == written[hash[1]]
      Same(i) == {k \in 1..(i - 1) : list[k][2] = hash[2]}
  IN  {Index(list[i][1]) : i \in
         {k \in DOMAIN list : /\ list[k][2] = hash[2] /\ Index(list[k][1]) >= LowLimit
                              /\ Cardinality(Same(k)) < Attempts}}

----------------------------------------------------------------------------
\* A search walks through the positions this frame recorded in its bucket or row,
\* newest first, and through nothing else: no entry of an earlier frame, no link
\* or entry that was written again, nothing lost by rebasing in the middle of a
\* frame (find_best_hash_chain_match, collect_candidates_fixed).
WalksWhatWasRecorded ==
  /\ phase = "found" /\ ~parser.rows =>
       \A bucket \in Buckets : Walk(bucket) = Reachable(bucket)
  /\ phase = "search" =>
       \A hash \in Hashes : Collected(cells[hash[1]], hash[2], LowLimit, Attempts) = InRow(hash)

\* Though gaps are given up, searches skip and blocks end, a hash that is taken
\* from the cache is that of the position it is taken for, and none was computed
\* from bytes behind the block (row_hash_cache::next, fill).
HashesAreTrue ==
  parser.rows =>
    /\ phase = "insert" /\ next < until => CachedHash(cache, Unbiased(next)) = Unbiased(next)
    /\ phase = "search" /\ ~skipping => CachedHash(cache, position) = position
    /\ \A slot \in DOMAIN cache : cache[slot] # NotHashed => cache[slot] + ReadSize <= end

\* The parser never searches behind what it has recorded, though it looks ahead
\* and goes back to the start of the match: current - next would wrap.
NeverSearchesBehind == phase = "scan" => Index(position) >= next
=============================================================================
