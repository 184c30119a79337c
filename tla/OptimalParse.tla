----------------------------- MODULE OptimalParse -----------------------------
(***************************************************************************)
(* The optimal parser (parse_optimal_block) and the partitions of what it  *)
(* parsed (derive_sequence_partitions).  A block is parsed in series: each *)
(* relaxes a frontier of nodes, one a byte, by literals and matches, and   *)
(* then reads its cheapest path backwards.  A node carries the repeat      *)
(* offsets of its path, since a repeat code found there means a distance   *)
(* only with them.  The nodes are reused from series to series and are     *)
(* initialised no further than needed.                                     *)
(*                                                                         *)
(* Prices are left out: which of two ways to reach a node is cheaper is a  *)
(* choice, a node that was not reached being dearer than any.  The matches *)
(* found at a position are a choice too, of what BinaryTree may find.      *)
(***************************************************************************)
EXTENDS RepeatOffsets, SequencesExt

CONSTANTS
  Strategies,     \* of "optimal" (btopt), "ultra" and "ultra2"
  BlockSizes,     \* sizes of blocks
  ReadSize,       \* 8: bytes a search needs
  PathWindow,     \* optimal_parse_workspace::path_window
  MinMatch,       \* optimal_minimum_match()
  Sufficient,     \* sufficient_length
  MinSplit,       \* 300: fewer sequences are not split
  MaxSplits,      \* 196: and no more splits than this are made
  OffsetBases,    \* offset bases of matches
  MaxCandidates,  \* bound: matches found at a position
  MaxInput        \* bound: bytes of a frame

ASSUME ConstantsAssumption ==
  /\ Strategies \subseteq {"optimal", "ultra", "ultra2"}
  /\ BlockSizes \subseteq Nat \ {0} /\ ReadSize \in Nat \ {0}
  /\ PathWindow \in Nat \ {0} /\ MinMatch \in Nat \ {0}
  /\ Sufficient \in 1..(PathWindow - 1)
  /\ MinSplit \in Nat /\ MinSplit >= 2 /\ MaxSplits \in Nat
  /\ OffsetBases \subseteq Nat \ {0} /\ MaxCandidates \in Nat /\ MaxInput \in Nat

VARIABLES
  strategy,
  seeded,       \* optimal.initialized: a block of the frame has been parsed
  repeats,      \* optimal.repeat_offsets
  blockRepeats, \* the same when the block began
  begin, end,   \* the block
  position,     \* where the next series starts
  anchor,       \* the end of the last match
  paths,        \* optimal.paths
  local,        \* the node in hand
  frontier,     \* frontier_end
  selected,     \* selected_size
  initialized,  \* initialized_end
  candidates,   \* the matches the series started from
  sequences,    \* what has been parsed of the block
  phase,        \* "idle", "scan", "relax", "look", "select", "parsed", "split"
  pending,      \* ranges of sequences to split, and cuts between them
  ends          \* sequence_partitions

vars == <<strategy, seeded, repeats, blockRepeats, begin, end, position, anchor, paths,
          local, frontier, selected, initialized, candidates, sequences, phase, pending, ends>>

frame  == <<strategy, seeded>>
block  == <<blockRepeats, begin, end>>
series == <<paths, local, frontier, selected, initialized, candidates>>
parts  == <<pending, ends>>

Smaller(a, b) == IF a < b THEN a ELSE b
Larger(a, b)  == IF a > b THEN a ELSE b

Accurate == strategy # "optimal"

\* A node; `distance` is what its match copied from where it was found, which the
\* code has no need to keep.
Unreached ==
  [reached |-> FALSE, length |-> 0, literals |-> 0, base |-> 0,
   repeats |-> InitialRepeats, distance |-> 0]

Init ==
  /\ strategy \in Strategies /\ seeded = FALSE
  /\ repeats = InitialRepeats /\ blockRepeats = InitialRepeats
  /\ begin = 0 /\ end = 0 /\ position = 0 /\ anchor = 0
  /\ paths = [n \in 0..PathWindow |-> Unreached]
  /\ local = 0 /\ frontier = 0 /\ selected = 0 /\ initialized = 0
  /\ candidates = <<>> /\ sequences = <<>> /\ phase = "idle"
  /\ pending = <<>> /\ ends = <<>>

----------------------------------------------------------------------------
ParseEnd == end - ReadSize

BeginBlock(size) ==
  /\ phase = "idle" /\ end + size <= MaxInput
  /\ begin' = end /\ end' = end + size
  /\ position' = end /\ anchor' = end
  /\ blockRepeats' = repeats /\ sequences' = <<>>
  /\ phase' = IF size < ReadSize THEN "parsed" ELSE "scan"
  /\ ends' = <<>>
  /\ UNCHANGED <<frame, repeats, series, pending>>

\* What a search may find: longer and longer matches inside the block.  A repeat
\* code is found where its distance, which is kept beside it here, is one.
Found(at, history, noLiterals) ==
  LET usable == {b \in OffsetBases : ResolveOptimalOffset(history, b, noLiterals) > 0}
      match  == {[base |-> b, length |-> length,
                  distance |-> ResolveOptimalOffset(history, b, noLiterals)]
                   : b \in usable, length \in MinMatch..(end - at)}
  IN  {<<>>} \cup {list \in UNION {[1..n -> match] : n \in 1..MaxCandidates} :
                     \A i \in 2..Len(list) : list[i - 1].length < list[i].length}

WindowSize == Smaller(PathWindow, end - position)

\* Mutant: nodes are left as the last series left them.
LeftAsTheyAre(nodes, last) == nodes

\* The nodes up to `last` are cleared the first time they are needed.
InitializedThrough(nodes, last) ==
  [n \in DOMAIN nodes |-> IF initialized < n /\ n <= last THEN Unreached ELSE nodes[n]]

\* Nothing begins here: one byte on.
Miss ==
  /\ phase = "scan" /\ position < ParseEnd
  /\ position' = position + 1
  /\ UNCHANGED <<frame, repeats, block, anchor, series, sequences, phase, parts>>

\* Mutant: the first node of a series forgets the literals before it.
WithoutLiterals == 0

\* The literals since the last match are those of the first node's path.
InitialLiterals == position - anchor

BeginSeries ==
  /\ phase = "scan" /\ position < ParseEnd
  /\ candidates' \in Found(position, repeats, position = anchor) \ {<<>>}
  /\ paths' = [paths EXCEPT ![0] = [Unreached EXCEPT !.reached = TRUE,
                 !.literals = InitialLiterals, !.repeats = repeats]]
  /\ local' = 0 /\ frontier' = 0 /\ selected' = 1 /\ initialized' = 0
  /\ phase' = "relax"
  /\ UNCHANGED <<frame, repeats, block, position, anchor, sequences, parts>>

InSeries == local < WindowSize /\ (local = 0 \/ local <= frontier)

EndSeries ==
  /\ phase = "relax" /\ ~InSeries /\ phase' = "select"
  /\ UNCHANGED <<frame, repeats, block, position, anchor, series, sequences, parts>>

\* relax_optimal_literal: one literal more than the node's path.
OneMoreLiteral(node) == [node EXCEPT !.literals = @ + 1]

\* ultra extends a match that a literal has just replaced by one literal itself,
\* where that is cheaper; the match's node is lost, but not its history.
Preserves(before, replaced) ==
  Accurate /\ replaced /\ before.literals = 0 /\ before.length # 0 /\ local + 2 <= WindowSize

\* (The code passes over a node that was not reached; PathsLeadBack says that a
\* series never meets one.)
RelaxLiteral(wins, lighter, cheaper) ==
  /\ phase = "relax" /\ InSeries /\ paths[local].reached
  /\ LET before   == InitializedThrough(paths, local + 1)[local + 1]
         replaced == ~before.reached \/ wins
         saves    == Preserves(before, replaced) /\ lighter
         keeps    == saves /\ cheaper
         reach    == IF saves THEN local + 2 ELSE local + 1
         cleared  == InitializedThrough(paths, reach)
         relaxed  == IF replaced
                     THEN [cleared EXCEPT ![local + 1] = OneMoreLiteral(paths[local])]
                     ELSE cleared
     IN  /\ wins => before.reached
         /\ lighter => Preserves(before, replaced)
         /\ cheaper => saves
         /\ initialized' = Larger(initialized, reach)
         /\ paths' = IF keeps THEN [relaxed EXCEPT ![local + 2] = OneMoreLiteral(before)]
                     ELSE relaxed
         /\ frontier' = IF keeps THEN Larger(frontier, local + 2) ELSE frontier
         /\ selected' = IF keeps THEN frontier' ELSE selected
  /\ phase' = "look"
  /\ UNCHANGED <<frame, repeats, block, position, anchor, local, candidates, sequences, parts>>

\* The end of the frontier has been reached, or no search is worth it here.
LastNode == local # 0 /\ local = frontier

NoLook ==
  /\ phase = "look"
  /\ IF LastNode THEN phase' = "select" /\ local' = local
     ELSE /\ \/ position + local > ParseEnd
             \/ local # 0 /\ ~Accurate /\ local + 1 < WindowSize
          /\ phase' = "relax" /\ local' = local + 1
  /\ UNCHANGED <<frame, repeats, block, position, anchor, paths, frontier, selected,
                 initialized, candidates, sequences, parts>>

\* Mutant: repeat codes are looked up with the offsets the series started from.
SeriesRepeats == repeats

NodeRepeats == paths[local].repeats

Looks == phase = "look" /\ ~LastNode /\ position + local <= ParseEnd

FoundHere ==
  IF local = 0 THEN {candidates} ELSE Found(position + local, NodeRepeats, paths[local].literals = 0)

\* A match that ends the series at once.
IsDirect(list) ==
  /\ list # <<>>
  /\ \/ Last(list).length > Sufficient
     \/ local # 0 /\ (local + Last(list).length >= PathWindow
                       \/ position + local + Last(list).length = end)

\* relax_optimal_match
MatchNode(node, match, length) ==
  [reached |-> TRUE, length |-> length, literals |-> 0, base |-> match.base,
   repeats |-> UpdateOptimalRepeats(node.repeats, match.base, node.literals = 0),
   distance |-> match.distance]

Clipped(match) == Smaller(match.length, WindowSize - local)

\* Each match is tried with the lengths that the ones before it do not reach,
\* from the longest down.
FirstLength(list, i) ==
  IF i = 1 THEN MinMatch ELSE Larger(MinMatch, Clipped(list[i - 1]) + 1)

Relax(list, wins) ==
  /\ Looks /\ list \in FoundHere /\ ~IsDirect(list)
  /\ LET reach   == IF list = <<>> THEN 0 ELSE Clipped(Last(list))
         longest == IF reach >= MinMatch THEN local + reach ELSE 0
         cleared == InitializedThrough(paths, longest)
         better(n) == ~cleared[n].reached \/ (n - local) \in wins
         tried(i) == {length \in FirstLength(list, i)..Clipped(list[i]) :
                        Accurate \/ \A more \in (length + 1)..Clipped(list[i]) : better(local + more)}
         by(n)   == {i \in DOMAIN list : (n - local) \in tried(i)}
     IN  /\ \A length \in wins : local + length \in DOMAIN cleared /\ cleared[local + length].reached
                                   /\ by(local + length) # {}
         /\ paths' = [n \in DOMAIN paths |->
                        IF by(n) # {} /\ better(n)
                        THEN MatchNode(paths[local], list[CHOOSE i \in by(n) : TRUE], n - local)
                        ELSE cleared[n]]
         /\ initialized' = Larger(initialized, longest)
         /\ frontier' = Larger(frontier, longest)
         /\ selected' = IF longest > 0 THEN frontier' ELSE selected
  /\ local' = local + 1 /\ phase' = "relax"
  /\ UNCHANGED <<frame, repeats, block, position, anchor, candidates, sequences, parts>>

----------------------------------------------------------------------------
(* reconstruct_optimal_sequences, from a node back to the first.           *)

Sequence(literals, node) ==
  [literals |-> literals, length |-> node.length, base |-> node.base, distance |-> node.distance]

Broken(n) == paths[n].literals + paths[n].length > n \/ paths[n].base = 0

Reconstruct(last) ==
  LET back[n \in 0..PathWindow] ==
        IF paths[n].length = 0 THEN <<>>
        ELSE IF Broken(n) THEN <<[broken |-> n]>>
        ELSE LET from == n - paths[n].literals - paths[n].length
             IN  back[from] \o <<Sequence(paths[from].literals, paths[n])>>
      list == back[last]
  IN  IF \E i \in DOMAIN list : "broken" \in DOMAIN list[i]
      THEN [sequences |-> <<>>, trailing |-> 0]
      ELSE [sequences |-> list, trailing |-> paths[last].literals]

\* The path to the end of the frontier; literals that follow its last match wait
\* for the next series.
Select ==
  /\ phase = "select"
  /\ LET path == Reconstruct(selected)
     IN  /\ sequences' = sequences \o path.sequences
         /\ anchor' = IF path.sequences = <<>> THEN anchor
                      ELSE position + selected - path.trailing
  /\ repeats' = paths[selected].repeats
  /\ position' = position + selected
  /\ phase' = "scan" /\ candidates' = <<>>
  /\ local' = 0 /\ frontier' = 0 /\ selected' = 0 /\ initialized' = 0
  /\ UNCHANGED <<frame, block, paths, parts>>

\* The path to the node in hand, and the long match found there.
Direct(list) ==
  /\ Looks /\ list \in FoundHere /\ IsDirect(list)
  /\ LET path == Reconstruct(local)
         node == MatchNode(paths[local], Last(list), Last(list).length)
     IN  /\ sequences' = Append(sequences \o path.sequences, Sequence(path.trailing, node))
         /\ repeats' = node.repeats
         /\ position' = position + local + node.length
         /\ anchor' = position + local + node.length
  /\ phase' = "scan" /\ candidates' = <<>>
  /\ local' = 0 /\ frontier' = 0 /\ selected' = 0 /\ initialized' = 0
  /\ UNCHANGED <<frame, block, paths, parts>>

\* The rest of the block is trailing literals.
Parsed ==
  /\ phase = "scan" /\ position >= ParseEnd
  /\ phase' = "parsed"
  /\ UNCHANGED <<frame, repeats, block, position, anchor, series, sequences, parts>>

\* Mutant: the repeat offsets of the first pass stay.
KeptRepeats == repeats

SeededRepeats == blockRepeats

\* ultra2 parses the first block for its prices, forgets the matches and their
\* history and parses it again.
ParseAgain ==
  /\ phase = "parsed" /\ strategy = "ultra2" /\ ~seeded /\ begin = 0 /\ end - begin > ReadSize
  /\ repeats' = SeededRepeats /\ seeded' = TRUE
  /\ position' = begin /\ anchor' = begin /\ sequences' = <<>>
  /\ phase' = "scan"
  /\ UNCHANGED <<strategy, block, series, parts>>

----------------------------------------------------------------------------
(* derive_sequence_partitions: halves of halves, while that pays.          *)

BeginSplit ==
  /\ phase = "parsed"
  /\ seeded \/ strategy # "ultra2" \/ begin # 0 \/ end - begin <= ReadSize
  /\ seeded' = TRUE
  /\ pending' = <<<<0, Len(sequences)>>>> /\ ends' = <<>> /\ phase' = "split"
  /\ UNCHANGED <<strategy, repeats, block, position, anchor, series, sequences>>

Splits(range) == range[2] - range[1] >= MinSplit /\ Len(ends) < MaxSplits

\* A range is left whole, or replaced by its halves and the cut between them.
Split(pays) ==
  /\ phase = "split" /\ pending # <<>> /\ Len(pending[1]) = 2
  /\ LET range  == pending[1]
         middle == range[1] + (range[2] - range[1]) \div 2
     IN  /\ pays => Splits(range)
         /\ pending' = IF pays
                       THEN <<<<range[1], middle>>, <<middle>>, <<middle, range[2]>>>> \o Tail(pending)
                       ELSE Tail(pending)
  /\ UNCHANGED <<frame, repeats, block, position, anchor, series, sequences, phase, ends>>

\* Mutant: the cut is written although the first half used up the splits.
AlwaysCut == TRUE

MayCut == Len(ends) < MaxSplits

Cut ==
  /\ phase = "split" /\ pending # <<>> /\ Len(pending[1]) = 1
  /\ ends' = IF MayCut THEN Append(ends, pending[1][1]) ELSE ends
  /\ pending' = Tail(pending)
  /\ UNCHANGED <<frame, repeats, block, position, anchor, series, sequences, phase>>

EndSplit ==
  /\ phase = "split" /\ pending = <<>>
  /\ ends' = Append(ends, Len(sequences)) /\ phase' = "idle"
  /\ UNCHANGED <<frame, repeats, block, position, anchor, series, sequences, pending>>

Next ==
  \/ \E size \in BlockSizes : BeginBlock(size)
  \/ Miss \/ BeginSeries \/ EndSeries \/ NoLook \/ Select \/ Parsed \/ ParseAgain
  \/ \E wins, lighter, cheaper \in BOOLEAN : RelaxLiteral(wins, lighter, cheaper)
  \/ Looks /\ \E list \in FoundHere :
       \/ Direct(list)
       \/ \E wins \in SUBSET (1..PathWindow) : Relax(list, wins)
  \/ BeginSplit \/ Cut \/ EndSplit
  \/ \E pays \in BOOLEAN : Split(pays)

Spec == Init /\ [][Next]_vars

----------------------------------------------------------------------------
(* Properties.                                                             *)

\* The bytes a list of sequences stands for.
Bytes(list) ==
  LET sum[i \in 0..Len(list)] ==
        IF i = 0 THEN 0 ELSE sum[i - 1] + list[i].literals + list[i].length
  IN  sum[Len(list)]

\* What has been parsed covers the block up to the anchor, without a gap or an
\* overlap, and the parser is never beyond the block.
SequencesCover ==
  /\ begin + Bytes(sequences) = anchor
  /\ anchor <= position /\ position <= end

\* Every node that was reached in this series is at the end of a path of just as
\* many bytes, none is left from an earlier series, and the series never comes to
\* one that was not reached.
PathsLeadBack ==
  phase \in {"relax", "look", "select"} =>
    /\ \A n \in 0..initialized : paths[n].reached =>
         LET path == Reconstruct(n)
         IN  Bytes(path.sequences) + path.trailing = n + InitialLiterals
    /\ phase = "relax" /\ InSeries => local <= initialized /\ paths[local].reached
    /\ phase = "select" => selected <= initialized /\ paths[selected].reached

\* The decoder after each of the block's sequences: the distance it copied from and
\* the history it keeps.
Decoded ==
  LET turn[i \in 0..Len(sequences)] ==
        IF i = 0 THEN [offset |-> 0, repeats |-> blockRepeats]
        ELSE DecodeOffset(turn[i - 1].repeats, sequences[i].base, sequences[i].literals = 0)
  IN  turn

\* Each match is decoded at the distance it was found at, though its repeat code
\* was chosen on a path that was completed later, and the parser's history after
\* the block is the decoder's.
MatchesDecodeAsFound ==
  /\ \A i \in DOMAIN sequences : Decoded[i].offset = sequences[i].distance
  /\ phase \notin {"relax", "look", "select"} => Decoded[Len(sequences)].repeats = repeats

\* parsed_block_view::subblock: the bytes of a range of sequences, the literals
\* behind the last sequence with the range that has it.
SubBlock(first, last) ==
  LET position1 == begin + Bytes(SubSeq(sequences, 1, first))
      position2 == position1 + Bytes(SubSeq(sequences, first + 1, last))
  IN  [from |-> position1, to |-> IF last = Len(sequences) THEN end ELSE position2]

Part(i) == SubBlock(IF i = 1 THEN 0 ELSE ends[i - 1], ends[i])

\* Partitions follow each other from the first byte of the block to its last, none
\* is empty, and there is room for all of them.
PartitionsTile ==
  phase = "idle" /\ ends # <<>> =>
    /\ Len(ends) <= MaxSplits + 1
    /\ Part(1).from = begin /\ Part(Len(ends)).to = end
    /\ \A i \in DOMAIN ends : Part(i).from < Part(i).to
    /\ \A i \in 2..Len(ends) : Part(i - 1).to = Part(i).from
=============================================================================
