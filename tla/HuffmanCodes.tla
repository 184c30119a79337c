----------------------------- MODULE HuffmanCodes -----------------------------
(***************************************************************************)
(* Prefix codes for literals: a Huffman tree over the counts of the        *)
(* symbols, its height brought down to a limit, the canonical codes, and   *)
(* the description the decoder rebuilds them from: a weight for every      *)
(* symbol but the last, whose weight is what completes the tree.           *)
(*                                                                         *)
(* Abstractions.  Symbols are 0, 1, ... as in the code, and the counts are *)
(* below 165, where sort_huffman_nodes has a bucket for every count and    *)
(* its order is a stable one.  `first_parent` and the parent links are     *)
(* gone: a subtree is the heights of its leaves.  last_rank is derived     *)
(* from the heights, which grow with the rank.                             *)
(***************************************************************************)
EXTENDS FseCodes

----------------------------------------------------------------------------
(* Bytes coded with two states that take turns: the weights of a Huffman   *)
(* tree.  Nothing says how many there are; the decoder stops when it has   *)
(* to read behind the first bit.                                           *)

\* Mutant: the turns are counted from the end.
TurnFromEnd(bytes, i) == (Len(bytes) - i) % 2

Turn(bytes, i) == i % 2

\* compress_fse_bytes: the last two start the states, `rest` ones are still to be coded.
RECURSIVE CompressRest(_, _, _, _, _)
CompressRest(bytes, table, rest, states, bits) ==
  LET turn == Turn(bytes, rest)
  IN  IF rest = 0 THEN bits \o FinalBits(table, states[0]) \o FinalBits(table, states[1])
      ELSE CompressRest(bytes, table, rest - 1,
                        [states EXCEPT ![turn] = Encoded(table, @, bytes[rest])],
                        bits \o Emitted(table, states[turn], bytes[rest]))

CompressedBytes(bytes, table) ==
  LET n == Len(bytes)
  IN  IF n <= 2 THEN <<>>
      ELSE CompressRest(bytes, table, n - 2,
             [turn \in {0, 1} |->
                Started(table, IF turn = Turn(bytes, n) THEN bytes[n] ELSE bytes[n - 1])], <<>>)

\* fse_decompress_bytes: `overread` once a read went behind the first bit; the
\* other state's byte is then the last.
RECURSIVE DecompressRest(_, _, _, _, _)
DecompressRest(bits, table, states, overread, bytes) ==
  LET turn  == Turn(bytes, Len(bytes) + 1)
      entry == table.entries[states[turn] + 1]
      wants == overread \/ entry.width > Len(bits)
      next  == [states EXCEPT ![turn] = entry.next + Peek(bits, entry.width)]
  IN  IF overread THEN bytes \o <<entry.symbol>>
      ELSE DecompressRest(Unread(bits, entry.width), table, next, wants, bytes \o <<entry.symbol>>)

DecompressedBytes(bits, table) ==
  LET after == Unread(bits, table.log)
  IN  DecompressRest(Unread(after, table.log), table,
                     [turn \in {0, 1} |-> Peek(IF turn = 1 THEN bits ELSE after, table.log)],
                     FALSE, <<>>)

----------------------------------------------------------------------------
(* Prefix codes.                                                           *)

Alphabet(frequencies) == Cardinality(DOMAIN frequencies)

\* sort_huffman_nodes, without the symbols that do not occur: the most frequent first.
Ranked(frequencies) ==
  LET occurs(s)    == frequencies[s] > 0
      before(a, b) == frequencies[a] > frequencies[b] \/ (frequencies[a] = frequencies[b] /\ a < b)
  IN  SortSeq(SelectSeq(UpTo(Alphabet(frequencies)), occurs), before)

----------------------------------------------------------------------------
(* The tree.  leaves: the subtrees of one leaf, the rarest first; nodes:   *)
(* the others, in the order they were made, which is that of their counts. *)

\* Mutant: the nodes are taken as the leaves are, the last made first.
LastMade(leaves, nodes) ==
  IF nodes = <<>> \/ (leaves # <<>> /\ Head(leaves).count < Last(nodes).count)
  THEN [tree |-> Head(leaves), leaves |-> Tail(leaves), nodes |-> nodes]
  ELSE [tree |-> Last(nodes), leaves |-> leaves, nodes |-> Front(nodes)]

\* The subtree of the smaller count; of equal ones the node.
Smallest(leaves, nodes) ==
  IF nodes = <<>> \/ (leaves # <<>> /\ Head(leaves).count < Head(nodes).count)
  THEN [tree |-> Head(leaves), leaves |-> Tail(leaves), nodes |-> nodes]
  ELSE [tree |-> Head(nodes), leaves |-> leaves, nodes |-> Tail(nodes)]

Joined(a, b) ==
  [count  |-> a.count + b.count,
   leaves |-> {[rank |-> l.rank, height |-> l.height + 1] : l \in a.leaves \cup b.leaves}]

RECURSIVE Tree(_, _)
Tree(leaves, nodes) ==
  LET first  == Smallest(leaves, nodes)
      second == Smallest(first.leaves, first.nodes)
  IN  IF Len(leaves) + Len(nodes) = 1 THEN Head(leaves \o nodes)
      ELSE Tree(second.leaves, Append(second.nodes, Joined(first.tree, second.tree)))

\* The heights by rank.
Heights(frequencies) ==
  LET ranked == Ranked(frequencies)
      n      == Len(ranked)
      tree   == Tree([i \in 1..n |->
                        [count  |-> frequencies[ranked[n + 1 - i]],
                         leaves |-> {[rank |-> n + 1 - i, height |-> 0]}]], <<>>)
  IN  <<>> \o [r \in 1..n |-> (CHOOSE leaf \in tree.leaves : leaf.rank = r).height]

----------------------------------------------------------------------------
(* limit_huffman_height.  The leaves above the limit are put at the limit, *)
(* and the room they take is paid back by others that go down.             *)

\* Ranks of the height `target - k`: last_rank[k] is the largest.
RanksAt(heights, height) == {r \in DOMAIN heights : heights[r] = height}
LastRank(heights, height) == Max(RanksAt(heights, height))

\* bits_to_decrease: the leaf that goes down a bit pays 2^(k - 1), no more than
\* is to be paid, unless two of the next lower ones would cost less.
BitsToDecrease(heights, counts, target, cost) ==
  LET exists(k) == RanksAt(heights, target - k) # {}
      count(k)  == counts[LastRank(heights, target - k)]
      k0 == Max({1} \cup {k \in 2..BitWidth(cost) :
                            exists(k) /\ (exists(k - 1) => count(k) <= 2 * count(k - 1))})
  IN  Min({k \in k0..target : exists(k)})

\* Mutant: a leaf pays for the place it goes to and the one it leaves.
PaidTwice(k) == 2^k

\* What a leaf pays that goes down from `k` above the limit.
Paid(k) == 2^(k - 1)

RECURSIVE Repaid(_, _, _, _)
Repaid(heights, counts, target, cost) ==
  LET k == BitsToDecrease(heights, counts, target, cost)
  IN  IF cost = 0 THEN heights
      ELSE IF cost < 0
      THEN Repaid([heights EXCEPT ![Min(RanksAt(heights, target))] = @ - 1], counts, target, cost + 1)
      ELSE Repaid([heights EXCEPT ![LastRank(heights, target - k)] = @ + 1], counts, target,
                  cost - Paid(k))

Limited(heights, counts, target) ==
  LET largest == Max(Range(heights))
      excess  == SumFunction([r \in DOMAIN heights |->
                   IF heights[r] > target
                   THEN 2^(largest - target) - 2^(largest - heights[r]) ELSE 0])
  IN  IF largest <= target THEN heights
      ELSE Repaid(<<>> \o [r \in DOMAIN heights |-> Min({heights[r], target})], counts, target,
                  excess \div 2^(largest - target))

----------------------------------------------------------------------------
\* The limit for a count of literals, when none is asked for.
DepthFor(size, alphabet) ==
  Min({11, Max({5, BitWidth(size - 1) - 2,
                Min({BitWidth(size), BitWidth(alphabet - 1) + 1})})})

\* optimal_huffman_depth tries every limit from one that has room for the symbols on.
Depths(frequencies) == {0} \cup BitWidth(Cardinality(Present(frequencies)))..11

\* build_reference_huffman_lengths: the length of each symbol's code, and the largest.
HuffmanLengths(frequencies, depth) ==
  LET ranked  == Ranked(frequencies)
      target  == IF depth > 0 THEN depth
                 ELSE DepthFor(SumFunction(frequencies), Alphabet(frequencies))
      heights == Heights(frequencies)
      limited == Limited(heights, [r \in DOMAIN ranked |-> frequencies[ranked[r]]], target)
      rank(s) == CHOOSE r \in DOMAIN ranked : ranked[r] = s
  IN  [log     |-> Min({Max(Range(heights)), target}),
       lengths |-> [s \in DOMAIN frequencies |->
                      IF frequencies[s] = 0 THEN 0 ELSE limited[rank(s)]]]

Weight(code, s) == IF code.lengths[s] = 0 THEN 0 ELSE code.log + 1 - code.lengths[s]

\* The cells of a table of 2^log that start with a code of this weight.
Run(weight) == IF weight = 0 THEN 0 ELSE 2^(weight - 1)

\* The symbols in the order of their codes.
Canonical(weights) ==
  LET occurs(s)    == weights[s] > 0
      before(a, b) == weights[a] < weights[b] \/ (weights[a] = weights[b] /\ a < b)
  IN  SortSeq(SelectSeq(UpTo(Cardinality(DOMAIN weights)), occurs), before)

\* assign_codes: the codes of a length are consecutive, in the symbols' order,
\* behind those of the longer ones.
Code(code, s) ==
  LET weights == [r \in DOMAIN code.lengths |-> Weight(code, r)]
      ahead   == {r \in DOMAIN weights : /\ weights[r] > 0
                                         /\ \/ weights[r] < weights[s]
                                            \/ weights[r] = weights[s] /\ r < s}
  IN  [length |-> code.lengths[s],
       value  |-> SumFunction([r \in ahead |-> Run(weights[r])]) \div Run(weights[s])]

----------------------------------------------------------------------------
(* The description.                                                        *)

Bytes(bits) == (Len(bits) + 7) \div 8

\* The weights but the last, coded as bytes when that takes less than half a
\* byte each, and there is more than one weight to tell apart.
TreeDescription(code) ==
  LET counted(weights) == [w \in 0..Max(Range(weights)) |->
                             Cardinality({i \in DOMAIN weights : weights[i] = w})]
      coded(weights, counts) ==
        [form |-> "coded", counts |-> Description(counts),
         weights |-> CompressedBytes(weights, CompressionTable(counts))]
      shorter(a, weights) ==
        IF Bytes(a.counts) + Bytes(a.weights \o <<1>>) < Len(weights) \div 2
        THEN a ELSE [form |-> "direct", weights |-> weights]
      described(weights, counts) ==
        IF Len(weights) > 2 /\ Max(Range(counts)) \notin {1, Len(weights)}
        THEN shorter(coded(weights, Normalize(counts,
                       OptimalTableLog(6, Len(weights), Max(DOMAIN counts)), 1)), weights)
        ELSE [form |-> "direct", weights |-> weights]
      explicit(weights) == described(weights, counted(weights))
  IN  explicit([i \in 1..(Cardinality(DOMAIN code.lengths) - 1) |-> Weight(code, i - 1)])

\* Mutant: the last weight is that of the largest.
LastAsLargest(weights) == Max(Range(weights))

\* The last symbol's weight is what the others leave of a power of two.
LastWeight(weights) ==
  LET total == SumFunction([i \in DOMAIN weights |-> Run(weights[i])])
  IN  BitWidth(2^BitWidth(total) - total)

\* read_huffman_table: the weights of the description.
WeightsIn(description) ==
  LET coded(read) ==
        IF ~read.accepted \/ read.counts.log > 6 \/ ~Fills(read.counts) THEN Refused
        ELSE [accepted |-> TRUE,
              weights  |-> DecompressedBytes(description.weights, DecodingTable(read.counts))]
  IN  IF description.form = "direct" THEN [accepted |-> TRUE, weights |-> description.weights]
      ELSE coded(ReadDescription(description.counts, 255))

\* The table they make: for each number of `log` bits the symbol it starts with,
\* and the bits of its code.
HuffmanTable(given) ==
  LET weights == given \o <<LastWeight(given)>>
      total   == SumFunction([i \in DOMAIN weights |-> Run(weights[i])])
      log     == BitWidth(total) - 1
      ordered == Canonical([s \in 0..(Len(weights) - 1) |-> weights[s + 1]])
      single  == Cardinality({i \in DOMAIN weights : weights[i] = 1})
      run(s)  == [i \in 1..Run(weights[s + 1]) |->
                    [symbol |-> s, width |-> log + 1 - weights[s + 1]]]
  IN  IF \/ Range(given) = {0} \/ \E i \in DOMAIN weights : weights[i] > 12
         \/ log > 12 \/ total # 2^log \/ single < 2 \/ single % 2 = 1
      THEN Refused
      ELSE [accepted |-> TRUE, log |-> log,
            entries |-> FlattenSeq([i \in DOMAIN ordered |-> run(ordered[i])])]
=============================================================================
