# A verification project for zstdpp

`zstdpp` is a header-only C++23 implementation of Zstandard:
`sph::zstd::zstd_compress` writes a frame, `sph::zstd::zstd_decompress` reads
frames, both incrementally through a callback. This directory holds TLA+ models
of the parts whose correctness depends on state that lives from one call or
block to the next, TLC runs over them, and TLAPS proofs.

## The system

| Component | Where | State it keeps | Operations |
|---|---|---|---|
| Streaming decompressor | `zstd_decompress.h` | input buffer, cursor, parser state, frame information, window of history, counters, status | `update`, `finish`, two `decompress_frame`, `reset`, one parser function per state |
| Streaming compressor | `zstd_compress.h` | all input of the frame, size of the tail not yet emitted, counters, savings, status | `update`, `flush`, `finish`, `compress_frame`, `reset`, `emit_block` |
| Entropy and repeat-offset history | both, `detail/zstd_compression.h` | encoder: parser's repeat offsets, three table histories, Huffman table; decoder: its own copies | one block parsed, encoded whole or in partitions, sent or replaced by raw/RLE |
| Match finders | `detail/zstd_compression.h`, `detail/double_fast_parse.inl` | hash tables tagged by epoch, chains, rows and the cache of their hashes, binary trees and the cache of compared lengths, next position, repeat offsets | parse a block, insert, find, reset, rebase |
| Optimal parser | `detail/zstd_compression.h` | cost statistics, nodes of a series, repeat offsets | relax literal, relax match, trace back, two passes |
| Block sizing | `zstd_compress.h`, `detail/chunk_split_loop.inl`, `derive_sequence_partitions` | none | choose the size of a block, and its partitions |
| FSE and Huffman coding | `detail/zstd_entropy.h`, `detail/zstd_compression.h` | tables | normalise, describe, build, encode, decode |
| Literals and sequences, decoder | `zstd_decompress.h` | tables, caches of built tables and the descriptions they answer for | decode a section |
| xxHash64 | `zstd_common.h` | four lanes, buffered tail, total | update, digest, reset |
| Parameters | `detail/zstd_parameters.h` | none (compile time) | resolve a level to parameters |
| Sequence storage | `detail/compact_sequences.h` | records of 8 bytes, the index of the one that needs more, a flag | push, clear, resize, read a part, encode |

Everything runs in the thread of the caller; nothing is persisted. What is hard
here is not concurrency but agreement over time: two sides that must update
equal histories without ever comparing them, a parser that may be interrupted
at every byte, calls whose effect depends on what was called before, exceptions
in the middle of a block, and positions and epochs in reused tables.

What makes each component correct:

* decompressor: however the input is cut, the callback gets the content in
  order, once; the verdict says whether the stream was whole; the history holds
  what a match may refer to; a call always returns;
* compressor: what it emits is a frame whose content is the input, whatever
  sequence of calls was made; flushed input can be decoded; a reused object is
  as good as a new one;
* histories: a repeat code or repeated table means the same to both sides;
* match finders: a match refers to bytes that are equal and inside the window,
  also after the tables were reused; a position is never confused with one of
  an earlier frame;
* trees: a search tree stays one, although nodes are overwritten, sorted late
  and compared from where another comparison stopped;
* optimal parser: the sequences of a block cover it exactly, and a repeat code
  means the distance it was found at;
* partitions: they tile the block; FSE/Huffman: decode inverts encode, and a
  cached table is the one that was described;
  xxHash64: the digest does not depend on how the input was cut.

## The models

Each module names in its comments the functions it follows; the state
variables keep the names of the code's members where TLA+ allows it. What a
byte, a table or a distance *is* is left out wherever no property depends on
it; which branch is taken, what it assigns and in which order is kept.

| Module | Models | State and actions |
|---|---|---|
| `RepeatOffsets` | repeat offsets of both sides (`update_optimal_repeats`, `resolve_optimal_offset`, `reconcile_partition_repeats`, the decoder's `decode_sequences_impl`) | operators only: encoder and decoder translated apart, from their own functions |
| `EntropyHistory` | what a block leaves for the next, optimal strategies | both sides' repeat offsets, FSE and Huffman histories; a block is parsed sequence by sequence, encoded whole or in partitions, each part sent compressed, or raw/RLE with what the code then restores or forgets; `EntropyNewFrame` is the encoder's `reset` with the decoder's next header |
| `FastRepeatHistory` | the two distances of the fast and double-fast parsers | distances put aside at the start of a block, matches (searched, repeated, immediately repeated), the order they are put back in, the decoder's history beside it; `RepeatAhead` is 2 in the fast parser and 1 in double-fast |
| `LazyRepeatHistory` | the same of greedy, lazy, lazy2 and btlazy2 | extends `FastRepeatHistory`: the window of the first position, matches that win from further on, an immediate repeat only where the period ended, a first block that is one run in its two forms |
| `MatchIndex` | hash tables of the fast and double-fast parsers | the base of a frame, narrow indexes in slots, `reset`, `ensure_index_headroom`, the order in which a parse records and looks up |
| `MatchRows` | `row_match_table`, `row_hash_cache` | operators only: a row is a ring filled backwards, its first byte the head; the cache holds hashes of positions to come |
| `HashChain` | chains of greedy, lazy and lazy2, and the rows that replace them (`row_parser_workspace`); which of the two is the constant of a behaviour | heads, ring of links, rows, hash cache, `next_to_update_`; searches of a scan and of a look ahead, late and skipped recording, catching up, refilling the cache, rebasing with rotation |
| `BinaryTree` | the trees of btlazy2, btopt, btultra and ultra2 | roots, ring of nodes, listed and sorted nodes, the cache of compared lengths, three-byte table; one action per comparison of a walk; content is real bytes |
| `OptimalParse` | `parse_optimal_block`, both passes of ultra2, `derive_sequence_partitions` | nodes of a series with the offsets of their paths, frontier, long matches, sequences; which step is cheaper is a choice |
| `FseCodes` | normalised counts, table descriptions, encoding and decoding tables, the walk of states | operators only |
| `HuffmanCodes` | Huffman tree, height limit, canonical codes, weights plain and coded (bytes under a state code), one stream of literals | operators only |
| `SequenceTables` | the decompressor's tables of the codes of sequences and the tables it keeps (`load_sequence_table`, `find_extra_sequence_table`) | operators only |
| `TableCache` | the cache of one kind of sequence tables over blocks and frames | first table, extra tables in turn, misses of the frame; a section of any mode is loaded or refused, a frame starts |
| `BlockCoding` | sections of literals and sequences from the compressor's tables to the decompressor's symbols, with the three caches in between | a section of literals, or blocks and frames of sequences one after another |
| `LiteralGathering` | who copies a block's literals | extends `CompactSequences`: parser and encoder of a block are one behaviour with what they copy; the three compile-time choices, the wide copies, the storage that keeps the bytes of earlier blocks |
| `CompactSequences` | `compact_sequence_store`, `compact_sequence_view`, and `encoded_sequence_at` | records, exception and flag, which pass from block to block; the sequences pushed are kept beside them; parser, then encoder |
| `XxHash` | `xxhash64` | operators only: update, digest, reset of an object with accumulators, buffered tail and total length; both streams keep one in `hashed` |
| `FrameFormat` | a stream | its parts in order, with their lengths, and the digest of its content; no behaviour |
| `StreamEncoder` | `zstd_compress` | buffer, counters, status, the parts the callback received; one action per call, one per step of its loop, and the exception of the callback |
| `StreamDecoder` | `zstd_decompress` | input buffer or borrowed span, cursor, parser state, history, external storage, counters; one action per call and per parser state |
| `FrameReader` | what a decoder promises | abstract: stream, bytes given, bytes read, output, verdict |

How they fit: `EntropyHistory` and `FastRepeatHistory` both extend
`RepeatOffsets`, so one decoder is what all encoders have to agree with.
`OptimalParse` extends it too: what the parser finds on its paths is decoded by
the same functions. `StreamEncoder` and `StreamDecoder` both extend
`FrameFormat`, which extends `XxHash`: what one may send is what the other
reads, checksum included, and `FrameIsSound` asks of the encoder's stream
exactly the conditions under which the decoder accepts a part. `StreamDecoder`
instantiates `FrameReader` (`Reader`, a refinement mapping from the input
buffer, cursor and outcome) and `ReadsTheStream` says that it implements it.
The stream models leave open which form a block takes; `EntropyHistory` is that
choice seen from inside, and `BlockCoding` (over `HuffmanCodes` and
`SequenceTables`, both over `FseCodes`) the bits of one. `TableCache` is the cache
that `BlockCoding` also uses, alone and against any section. `MatchIndex`, `HashChain` and `BinaryTree` say which candidates
a parser may see, `FastRepeatHistory`, `LazyRepeatHistory` and `OptimalParse` what
the parser may do with them. `LiteralGathering` extends `CompactSequences`: what
a parser pushed is where its encoder copies from.

The `MC…` modules only hold constants that a `.cfg` cannot express, symmetry sets
and constraints; `MCRepeats` also lets a behaviour be one of the fast parsers or
one of the lazy ones, and `MCBlockCoding` one of `BlockCoding` or of `TableCache`.

## What is checked

| Run | Question | Bounds, and why they are enough |
|---|---|---|
| `entropy` | Does a repeat code or a repeated table mean the same to both sides, whatever is partitioned or rolled back? | Two sequences (each a partition of its own: the second may follow one the decoder never saw); bases 1 and 3 with and without literals name every entry and "less one"; two FSE tables so that a stale one is wrong. `FewDistances` stops "less one" from counting down for ever, `UntilDivergence` stops at a dropped whole block. The proofs have none of these bounds |
| `entropy_fallback` | The same when a whole block falls back | *violated*: see findings |
| `repeats` | Are the distances put aside and put back in the decoder's order, never outside the window, and is the history that a run leaves behind harmless? | Fast parsers and lazy ones under the same bounds: window 8; blocks of 4, 7 and 11, shorter and longer than the window, up to 19 bytes: a distance goes out of reach, returns, and is replaced before it could; a run of 6 or more (for 1024), then a match of distance 1 with an immediate repeat behind it |
| `match_index` | Can a reused table show a position of another frame, or one that is not behind the cursor? | 36 indexes and a window of 10: two frames later the tables are cleared, and a frame of 18 is rebased in the middle; one block is too short to hash, one is a window and more |
| `hash_chain` | Is what a search walks, in a chain or a row, what the frame recorded, through rings that wrap, skipping and rebasing, and is a cached hash that of its position? | 32 indexes and a window of 7. Chains: ring 6, blocks too short to hash and of a ring and more, no look ahead (greedy) and two (lazy2), three attempts, two buckets. Rows: three entries and the head, two tags of which one is also a head, a cache of two; blocks of 5 (cannot be hashed ahead), 8 and 14 (room for a gap, for skipping and for a match behind it), up to 16 bytes, so that a frame is rebased between its blocks; no look ahead and one |
| `binary_tree` | Does a tree stay a search tree of this frame, are compared lengths exact and matches real? | Nine bytes of two letters, periodic and not; window and ring of 4 nodes (a node that is overwritten is still linked), 30 indexes, two attempts, blocks of 1 and 4, gaps that are caught up with. All positions in one bucket is the deepest tree |
| `optimal_parse` | Do sequences cover the block, are paths whole, do repeat codes mean what they did? | A block of 4 in a window of nodes of 3 (a series ends at the frontier, at the window and in a long match), two candidates per position among bases 1, 3 and 5, one split. Every outcome of every price comparison |
| `literals` | Are the literals of a block its own, whoever copied them and however their lengths were kept? | Wide copies of 2 in a storage of 4, the largest block: both guards of a wide copy decide; builds where the parser, and where the encoder copies. Lengths are cut at 2 instead of 65536 and blocks are up to 4, as 128 KiB is twice 65536: a long sequence with a shorter one before or behind it, an offset that ends the encoding half way, and a block behind it in the same store. The proofs about the records have none of these bounds |
| `literals_other` | The same for level 1 with another compiler | *violated*: see findings |
| `block_coding` | Does the decompressor read back what was coded, and can it be seen that it caches tables? | Eight sets of literal counts: two symbols, gaps, ties, Fibonacci counts whose trees are above the limit, 28 symbols whose weights are coded; 40 choices of sequence tables of every kind with and without extra bits; up to two literals and three sequences; four tables that follow each other in a cache of two more, so that a description comes back after its table was dropped. The cache alone: each kind, every mode, four descriptions that can be kept (two of the same counts that differ in the padding, one of the same length, one with a run of zeros that is too long for the offsets), bits of the section behind them, and two that are refused and begin alike. The proofs about the cache have no bounds |
| `decoder` | Does the decoder implement `FrameReader`, keep the window and always return? | Streams that are concatenated with a skippable frame between, of unknown size, with a wrong checksum, a wrong size, corrupt, corrupt behind an empty block, skippable only, invalid; given in every cut, to `update` or to either `decompress_frame`, mixed whenever nothing is left unread; storage of three sizes, callbacks that throw anywhere; stripes of two bytes |
| `encoder` | Is what was emitted one whole frame of the input, with its checksum, exactly when `finish` or `compress_frame` succeeded? | Blocks of 3, up to 9 bytes: an empty frame, a part of a block, exactly two and three blocks, two and a byte; unknown size with partitions, unknown size with a checksum over stripes of 8 (every remainder of words, and bytes of an earlier frame in the buffer), pledges that end within a block and with one, kept, missed and exceeded |

### What the properties say

* `OffsetsDecodeAsParsed` (optimal strategies), `MatchesDecodeAsParsed` (the
  others), `TablesDecodeAsEncoded`, `HistoriesFollow`: two histories that are never compared stay equal where it
  matters. `HistoriesFollow` is `HistoryFollows` for the fast parsers; for the
  lazy ones it is `OnlyRunsDiffer`, which says where they do not stay equal.
* `MatchesInWindow`, `MatchesPointBack`: a match copies from bytes the decoder
  still has, although distances are computed in unsigned arithmetic that wraps.
* `TablesHoldThisFrame`, `WalksWhatWasRecorded`, `NeverSearchesBehind`: tables
  that are never cleared show this frame and nothing else.
* `HashesAreTrue`: hashes computed ahead are those of the positions they are
  taken for, after every gap, skip and block end.
* `LengthsAreExact`, `MatchesAreReal`, `TreesAreOrdered`,
  `SortedBeforeSearched`: what a descent may take for granted about a tree whose
  nodes are overwritten, and what it finds.
* `SequencesCover`, `PathsLeadBack`, `MatchesDecodeAsFound`, `PartitionsTile`:
  whatever the prices say, a block is parsed without gap or overlap into matches
  that are decoded at the distances they were found at.
* `LiteralsAreTheBlocks`, `CopiesStayInside`: wide copies into a reused storage
  leave the right bytes, and stay inside.
* `ReadsBack`, `OneException`: one place for an exception is
  enough, and the two pieces of code that read it agree.
* `TreesAreWhole`, `ShortestUnlessLimited`, `LiteralsSurvive`,
  `SequencesSurvive`: codes are complete, optimal where nothing
  limits them (compared with every prefix code), and what is coded by one side's
  tables is read back by the other's.
* `CachesAreTrue`, `AnsweredAsRead`: a kept table is that of its description, and
  what a cache answers is what would have been read, in table and in bits. Nothing
  says where the description of a section ends before it is read, so this needs
  that no description begins with another.
* `ReadsTheStream` (refinement), `FinishedHasReadAll`, `WindowRetained`,
  `StorageHoldsFrame`, `CallsReturn`: the decompressor.
* `NothingLost`, `FrameIsSound`, `EveryByteCounts`, `UnfinishedIsOpen`,
  `FlushedWhenUnpledged`, `CallsReturn`: the compressor.
* `EntropyInv`: the inductive invariant of the first proof, checked by TLC as
  well; `ParserFollowsDecoder` follows from it. The other inductive invariants
  are proved and no run repeats them.

### Fairness

`StreamDecoder` assumes `WF_vars(Parse \/ Returns)` and `StreamEncoder`
`WF_vars(Step)`: a call is one thread's own loop, which nothing interrupts but
an exception. Clients owe nothing: they may never call again, so nothing is
claimed of streams that stop. Only `CallsReturn` uses fairness. No other module
states any.

## What is proved

For every value of the constants that the module's assumption
(`ConstantsAssumption`; `EntropyAssumption`, `IndexAssumption`, `RowsAssumption`)
allows, by TLAPS:

* `RepeatProofs`, first part: of `EntropyHistory`, `HistoriesInStep`, that
  `EntropyInv` is invariant, and from it `EntropyTypesHold`, `OffsetsAgree`,
  `TablesAgree` and `ParserInStep`. The properties are not inductive: that a
  partition decodes as parsed depends on what the encoder believes of the
  decoder's offsets, and on the sequences that wait to be emitted. `EntropyInv`
  therefore says that the parsed sequences carry the parser's history from one
  to the next and that emission replays it (`ReplayOfParse`), that whatever the
  encoder may repeat the decoder has (`TablesHeld`), and where each phase of
  `emit_block` stands with the decoder's offsets (`RepeatsTracked`).
  `DecoderAgrees` is the lemma underneath: the decoder's arithmetic on symbols
  is the encoder's on bases; `reconcile_partition_repeats` has a lemma of its
  own. One lemma per action.
* `RepeatProofs`, second part: for the fast parsers `FastInvariant`, and from it
  `TypesHold`, `MatchesAgree`, `WindowHeld` and `KeptFollows`; for greedy, lazy,
  lazy2 and btlazy2 `LazyInvariant`; and from both, for a behaviour of either kind
  (`MCSpec`, which the run checks), `MatchesAlwaysAgree`, `WindowAlwaysHeld` and
  `HistoriesAlwaysFollow`. `FastInv` adds that, in a block, what would be
  restored now is the decoder's two most recent distances, and which of the
  distances can be put aside when. `LazyInv` weakens this by the runs: behind a
  first block that is one run the parser may stand at <1, 4> and the decoder at
  <1, 1, 4>, and until a new distance is found only distance 1 has been repeated
  (`OnlyTheRun`). The 4 cannot be named then: to repeat it the period of four
  must go on where that of one ended (`RunIsNotRepeated`, from `EndsPeriod`), so
  the next distance to be stored is a new one, and the histories are equal again.
* `CompressorProofs`, second part, on `MatchIndex` — `IndexesHold`, and from it `ReusedAsNew` and
  `MatchesReachBack`, for one table and for two. `IndexInv` bounds every index
  by what the next frame starts from, and says that what a search can see of a
  slot is what this frame put there, behind the cursor.
* `HashChainProofs` — `Invariance`, and from it all that the run checks:
  `NothingRecordedAhead`, `HashesHold` and `SearchesSeeWhatWasRecorded`. A parser
  that looks ahead goes back over fewer positions than the shortest match has, so
  the next position to record passes neither the search nor the block's end
  (`Course`); every index kept anywhere is then below it (`OldIndexes`) and the
  base of the next frame is not, so what an earlier frame left is out of reach.
  Within a frame a bucket's head is its newest position, and a link that still has
  its slot leads to the position recorded before it (`Chained`, in the chains); a
  row's entries from the head on are its newest positions, across the byte that is
  the head (`InRows`). `WalkIs` and `CollectedIs` turn these into what a search
  sees, with its limits of window, ring, row and attempts. Rebasing keeps `Chained`
  because ring and indexes turn by the same amount. `Ahead` says which positions
  the cache answers for; that a search which skips the middle of a gap still finds
  its own hash there needs the cache to be no larger than the tail that is caught
  up with and two (`CacheSize <= TailUpdates + 2`; the code has 8 and 32).
* `BinaryTreeProofs` — `Invariance`, and from it all that the run checks:
  `LengthsHold`, `MatchesHold`, `TreesHold` and `SortedHold`. The tables do not
  show why a tree is ordered: the nodes above a node may have lost their slots to
  newer ones, the lister of a listed node is nowhere written, and during a walk two
  children are still those of the node's predecessor in the slot. `IInv` therefore
  says that some choice of all that fits the tables (`Shape`): the role of every
  index (none, listed, stacked, sorted), the nodes it was put between (`bound`),
  its lister (`above`), the newest node (`top`) and the two open ends of a walk
  (`ends`). What is said of a node that lost its slot stays true and is never
  read; `Owned` says which slots can be trusted, and `Lost` that what a walk
  refuses to follow (`tree_low`) is what has lost them. Every step gives the next
  choice: a node that becomes a root has nothing above it, and both ends of its walk
  are the node itself (`RootStep`); one comparison gives the node that is compared
  one new bound, makes it the end of its side, and makes its child towards the
  walk's node the next one (`DeepIs`, `DeepWalk`); unstacking and sorting move roles
  (`Restacks`); rebasing moves every index by the same amount (`Downward`). A walk
  starts each comparison at the shorter of the two lengths its ends have in common
  with its node: what lies between them by order agrees that far
  (`AlikeBetween`), and this is how `LengthsHold` rests on the order. The order of
  two nodes is decided by a byte before the end of what was there to compare, so
  more input leaves it as it is (`LimitGrows`); a node that agrees up to that end
  is on neither side, and the walk drops it with what is below. For `TreesHold` a node is in the tree
  below what `Below` finds: the recursive function exists because children are
  older (`Solvable`, `BelowIs`).
* `CompactSequencesProofs` — `ReadsBackHolds`, `OneExceptionHolds` and
  `EncoderInStepHolds`, from `TypeCorrect` and what else `IInv` says: sequences
  lie behind each other in the block (`Apart`), records are what `push_back`
  makes of them (`Recorded`), the index names the long one (`Named`). A long
  sequence has more than half of the largest block (`LongIsHalf`), so no second
  one fits (`NotBehind`): this is where the limit of 128 KiB is used. `resize`,
  which only tests call, is in these proofs and in no run. The second half is
  about `LiteralGathering`: `GatheringInvariance`, and from it `LiteralsHold` and
  `CopiesHold`. Lengths as the encoder reads them are those that were pushed
  (`ReadsBackHolds` again), so the two stand at the same place of block and
  storage (`GInv`). `LiteralsHold` has the condition
  `CollectedLiterals => ParserGathers`: a build that breaks it is the second
  finding, so the theorem and the counterexample meet exactly. `RecordsBehave`
  says that the composition implements `CompactSequences`, so that its theorems
  hold in the run's behaviours.
* `OptimalParseProofs` — `Invariance`, and from it all that the run checks:
  `SequencesCoverHolds`, `PathsLeadBackHolds`, `DecodedAsFound` and
  `PartitionsTileHolds`. A trace of a list of sequences is where each of them
  ends and what repeat offsets it leaves; `IInv` says that the block's sequences
  have one, from the block's start to the anchor and the parser's history
  (`Parsing`). Of a series it says, of each node that was reached, from which
  other its last match was found and that nodes not reached are cleared
  (`NodesAreMade`): a path therefore only leads through nodes up to the node in
  hand, and a series writes only nodes after it, so no path changes once it is
  there. `Frontier` is why a series never meets a node that was not reached:
  of the lengths tried, one is always the longest (`Tried`). `PathsLead` turns
  this into a trace of what `reconstruct_optimal_sequences` reads backwards,
  which needs that its recursion defines a function (`BackExists`); bytes and
  decoded distances follow along the trace (`BytesCounted`, `DecodedAlong`). For
  the partitions, ranges and cuts wait in the order of the sequences (`Ordered`),
  and places along a trace grow (`PlacesGrow`), so no part is empty. That a range
  has two sequences when it is split is where `MinSplit >= 2` is used.
* `FrameProofs` — what both streams need of the operators of `XxHash` and
  `FrameFormat`, by induction along a sequence: `FlattenIsJoined`;
  `UpdatedHolds`, that an update keeps the relation `HashOf` between an object
  and the bytes it has seen, for every split, stripe size and content of the
  buffer behind what counts; `MixedIsContent` and `DigestOfPieces` from it, so
  the digest depends on the content alone; and `ContentExtended`, what one more
  part adds to what a stream decodes to.
* `CompressorProofs`, first part, on `StreamEncoder` — `Invariance`, and from it `NothingIsLost`,
  `EveryByteIsCounted`, `FinishedFrameIsSound`, `UnfinishedStaysOpen` and the
  action property `FlushEmitsEverything`. The properties say nothing of a call in
  the middle of its loop or of what the next call will find, so `IInv` states
  what the wire is (a header, then pairs of a block and its payload whose
  contents have the announced sizes), that the last block is only sent by a call
  that ends the frame and with an empty buffer, that counters and checksum are
  those of the input taken, and what of this an exception leaves.
* `DecompressorProofs`, first part, on `StreamDecoder` — `Invariance`, and from it `HistoryIsTheWindow`,
  `StorageIsTheFrame` and `NothingIsLeftUnread`; then `ImplementsFrameReader`,
  the safety and the steps of `ReadsTheStream` for every stream and every cut.
  `IInv` relates the parser to the part it read last (`Tracking`): that part
  determines the state, and size, checksum and history are those of the frame's
  content so far. The refinement has a lemma per kind of step: calls give bytes
  or begin again, a parser step takes one part or rejects it, a return passes the
  verdict. A decoder that stops for want of input stands before the first part
  the bytes do not cover (`StarvedMeans`), which is what makes `truncated` and
  `open` the reader's verdicts as well. The proof assumes of the constant
  `Wires` that each is a stream (`IsStream`): parts lie behind each other, and
  what may follow a part is what the parser would look for there, or `invalid`.
  Any bytes are such a stream: `parse` looks at them in this order, and what it
  refuses is an `invalid` part. `EmptyThenCorrupt` is there so that a run meets
  an `invalid` part behind a payload of no bytes.
* `DecompressorProofs`, second part, on `TableCache` — `CacheInvariance`, and from it
  `CachesHold` and `TransparencyHolds`. `CacheInv` says what may be kept: a
  description that is accepted as it stands and to its last bit, with the table
  built of it (`Holdings`); extra tables only behind a first one; no description
  twice (`Single`), which holds because a table is kept only when no kept one
  answered, and a frame's first miss, which has not looked at the extra tables, is
  not kept (`MissedHolds`, `KeptHolds`). That an answer is right rests on `ReadLocal`:
  `read_normalized_counts` peeks behind the end of the description it reads, and
  what it finds there changes nothing in a reading that is accepted. The lemma is
  proved by induction over the fields of a description (`FieldLocal`,
  `ThreesLocal`, `CountLocal`, `CountsLocal`). Of the constants it assumes that
  there is a place for an extra table and that sources are bits.

The library's induction theorems have an operator as parameter and cannot be
used. Where an induction is needed (`FrameProofs`, `OptimalParseProofs`,
`BinaryTreeProofs`, `DecompressorProofs`) the set of the numbers for which the statement fails is given
to `LeastNatural`, which rests on the library's
theorem that inclusion is well-founded on finite sets.

Only model-checked: `CallsReturn` of both streams (fairness and `ENABLED` are
out of the prover's reach), and `TreesAreWhole`, `ShortestUnlessLimited`,
`LiteralsSurvive` and `SequencesSurvive` of `BlockCoding`: the operators of
`HuffmanCodes` are RECURSIVE, and what both codes compute is a fold over data.
`EncoderInStepHolds` is the other way round: proved, and no run repeats it.

## Findings

Each is a `violation` run with TLC's counterexample, and is quoted in full in
`PROJECT.json`.

1. `entropy_fallback` — a whole block whose encoding is dropped (raw, or RLE in
   its place) leaves the parser's repeat offsets and the tables advanced. The
   next compressed block refers to history the decoder does not have. The proofs
   of agreement hold up to that point, hence `fellBack` and `diverged` in the models.
2. `literals_other` — for level 1 with `minimum_match` 7, a build that is neither
   GCC 13 nor MSVC tells the encoder that the literals are collected and calls
   a parser that does not collect them.

Five remarks met on the way that no run states:

* `decompress_frame` after an `update` that left part of a frame unread forgets
  those bytes, and the stream finishes; the model's clients call it only when
  nothing is left unread (the guard of `Borrow`);
* a flush sends one block; with a pledged size the buffer may hold a full block
  that is cut in two, and the second half stays, so that
  `FlushedWhenUnpledged` is claimed and no more;
* `decompress_frame` into storage compares the storage with all bytes decoded
  since the last reset, so after an `update` storage of the frame's size is
  refused (`zstd_decompress.h:117`);
* when its input holds two frames the second is written over the first, since
  `reset_frame_state` clears the history, which is the storage
  (`zstd_decompress.h:1525`). `StorageHoldsFrame` therefore speaks of
  single frames;
* a first block that is one run is written by lazy and lazy2 with a new offset,
  which moves the decoder's history to <1, 1, 4>, and the parser goes on from
  <1, 4, 8> (`detail/zstd_compression.h:2516`); greedy and btlazy2 write a repeat
  code, which moves nothing. The difference does no harm, for a reason the code
  does not give: to be named, the 4 would have to be repeated right behind a
  match of distance 1, where the byte differs from the one before it and so
  from the one four before (`EndsPeriod`). Without that conjunct
  `MatchesDecodeAsParsed` of `repeats` is violated.

## Plan

Done, in this order: the histories (the program's most fragile agreement), the
two stream classes and the abstract reader, the index tables, the chains,
literals and checksum, the proofs of the first and third; then the binary
trees, the optimal parser with its partitions, both entropy codes with the
sections and caches built on them, the checksum as part of both streams, the
rows beside the chains, the compact records with their proofs, and the repeat
offsets of the lazy parsers; then the proofs of these offsets, of the literals, of
both streams and of the refinement, of the optimal parser, of the chains and
rows, of the binary trees, and of the caches of sequence tables.

Next, models:

1. Four streams of literals, whose sizes the section tells; repeat modes inside
   `BlockCoding`, so that it and `EntropyHistory` are one composition.
2. `byte_buffer` under growth.

Next, theorems: `SequencesSurvive` of `BlockCoding`, for which `FseCodes` has
recursive functions already: that a state code's decoding table undoes its
encoding table is the lemma it needs. `LiteralsSurvive` needs those of
`HuffmanCodes` written so first.

## Not modelled

* Prices and their statistics (any step may be the cheaper one), the statistics
  that choose where a block is cut, the salt of the rows: they decide what is
  found and how much is saved, never whether it is decoded.
* The containers bits are packed in and refilled from, the Huffman decoder's
  packed tables of two symbols, four streams of literals. Bits themselves are
  modelled (`FseCodes`, `HuffmanCodes`).
* Vectorised copies and compiler-specific variants of the same loop, except
  where they decide who does the work (`LiteralGathering`).
* `magicless` frames and dictionaries, which only change the first bytes of a
  header or are refused, and the resolution of levels to parameters, which is a
  table evaluated when the program is compiled.
* Vendored reference implementation (`src/reference_zstd`), tests and the
  evaluation programs: they are inputs and oracles, not the program.
