--------------------------- MODULE EntropyHistory ---------------------------
(***************************************************************************)
(* What one block of a frame remembers for the next.  A compressed block   *)
(* may name match distances by their place in the repeat-offset history,   *)
(* and may say "the same FSE table" or "the same Huffman table as before". *)
(* The encoder keeps its own copy of all that history, the decoder builds  *)
(* another from the blocks it receives, and nothing in the format compares *)
(* the two.  This module runs both sides block by block for the optimal    *)
(* strategies (btopt, btultra, btultra2), whose blocks are emitted whole   *)
(* (zstd_compress::emit_block) or cut into partitions (emit_partitions).   *)
(*                                                                         *)
(* Abstractions.  A sequence is the offset base the parser chose and       *)
(* whether it has literals: lengths, literals and positions are left out.  *)
(* A table is a value: what is compared is which table each side uses.     *)
(* Prices and sizes are choices: any selection that a size could produce   *)
(* is taken.                                                               *)
(***************************************************************************)
EXTENDS RepeatOffsets

CONSTANTS
  NewOffsets,      \* distances the match finder can propose
  RepeatBases,     \* repeat-code bases the parser can choose, of {1, 2, 3}
  Alphabets,       \* the sequence alphabets: literal length, offset, match length
  FseTables,       \* FSE tables a block can describe
  HuffmanTables,   \* Huffman tables a block can describe
  Partitioning,    \* window_log >= 17: emit_block may cut a parsed block
  MaxSequences     \* bound: sequences of a parsed block

ASSUME EntropyAssumption ==
  /\ NewOffsets \subseteq Nat \ {0}
  /\ RepeatBases \subseteq {1, 2, 3}
  /\ Partitioning \in BOOLEAN
  /\ MaxSequences \in Nat

Predefined == "predefined"
RunLength  == "run_length"
NoTable    == "none"

SequenceTables == FseTables \cup {Predefined, RunLength, NoTable}
LiteralTables  == HuffmanTables \cup {NoTable}

VARIABLES
  \* --- encoder (compression_workspace_)
  phase,            \* "parse", "whole" or "partitions": where emit_block is
  optimalRepeats,   \* optimal.repeat_offsets, advanced by the parser
  parsed,           \* parsed_.sequences of the block being emitted, each with
                    \* the history its path node had (optimal.paths)
  next,             \* the sequence to be encoded next
  cut,              \* first sequence of the current partition
  encoderRepeats,   \* initial_optimal_repeats, then the history at `next`
  decoderRepeats,   \* emit_partitions: its belief of the decoder's history
  savedRepeats,     \* emit_partitions: that belief before the partition
  sequenceHistory,  \* sequence_histories, one per alphabet
  huffmanRepeat,    \* huffman_repeat_valid and the table it stands for
  firstBlock,       \* block_count_ == 0
  \* --- decoder
  repeatOffsets,    \* repeat_offsets_
  sequenceTable,    \* literal_length_table_, offset_table_, match_length_table_
  fseRepeatAllowed, \* fse_repeat_allowed_
  huffmanTable,     \* huffman_table_
  \* --- the block under way as the decoder will see it, and history
  received,         \* history and agreement after the sequences encoded so far
  lastBlock,        \* what the last block meant and what was decoded
  fellBack          \* a whole block with sequences was sent raw or RLE

encoderVars == <<phase, optimalRepeats, parsed, next, cut, encoderRepeats,
                 decoderRepeats, savedRepeats, sequenceHistory, huffmanRepeat,
                 firstBlock>>
decoderVars == <<repeatOffsets, sequenceTable, fseRepeatAllowed, huffmanTable>>
entropyVars == <<encoderVars, decoderVars, received, lastBlock, fellBack>>

----------------------------------------------------------------------------
(* Encodings.  A table choice is the mode that is sent, the table the      *)
(* encoder then codes with, and the history it keeps for the next block.   *)

Kept(valid, table) == [valid |-> valid, table |-> table]

Choice(mode, table, kept) == [mode |-> mode, table |-> table, kept |-> kept]

\* Mutant: a predefined table leaves an earlier description to be repeated.
PredefinedKeepsHistory(history) ==
  {Choice("predefined", Predefined, history),
   Choice("run_length", RunLength, Kept(FALSE, history.table))}
  \cup {Choice("compressed", t, Kept(TRUE, t)) : t \in FseTables}
  \cup {c \in {Choice("repeat", history.table, history)} : history.valid}

\* select_sequence_table with CarefulSelection: only a described table is
\* worth repeating, and a predefined or one-symbol table ends the history.
SequenceChoices(history) ==
  {Choice("predefined", Predefined, Kept(FALSE, history.table)),
   Choice("run_length", RunLength, Kept(FALSE, history.table))}
  \cup {Choice("compressed", t, Kept(TRUE, t)) : t \in FseTables}
  \cup {c \in {Choice("repeat", history.table, history)} : history.valid}

\* encode_huffman_literals: raw literals keep the previous table, a new one
\* is committed only when its description is sent.
LiteralChoices(history) ==
  {Choice("raw", NoTable, history)}
  \cup {Choice("compressed", t, Kept(TRUE, t)) : t \in HuffmanTables}
  \cup {c \in {Choice("repeat", history.table, history)} : history.valid}

Encodings ==
  [sequences : {f \in [Alphabets -> UNION {SequenceChoices(sequenceHistory[a]) : a \in Alphabets}] :
                  \A a \in Alphabets : f[a] \in SequenceChoices(sequenceHistory[a])},
   literals  : LiteralChoices(huffmanRepeat)]

----------------------------------------------------------------------------
(* The decoder's side of one compressed block.                             *)

\* load_sequence_table and decode_literals refuse a repeat without a table.
Accepts(e) ==
  /\ \A a \in Alphabets :
       e.sequences[a].mode = "repeat" => fseRepeatAllowed /\ sequenceTable[a].valid
  /\ e.literals.mode = "repeat" => huffmanTable.valid

\* The table the decoder uses where the encoder used choice.table.
DecodedTable(choice, held) ==
  IF choice.mode = "repeat" THEN held.table ELSE choice.table

Verdict(type, accepted, offsets, tables) ==
  [type |-> type, accepted |-> accepted, offsets |-> offsets, tables |-> tables]

\* A compressed block reaches the decoder.  One it rejects puts the stream in
\* its failed state and leaves no history worth following.
ReceiveCompressed(e) ==
  /\ lastBlock' = Verdict("compressed", Accepts(e), received.agrees,
        /\ \A a \in Alphabets :
             DecodedTable(e.sequences[a], sequenceTable[a]) = e.sequences[a].table
        /\ e.literals.mode = "repeat" => huffmanTable.table = e.literals.table)
  /\ IF Accepts(e)
     THEN /\ repeatOffsets' = received.repeats
          /\ sequenceTable' = [a \in Alphabets |->
                Kept(TRUE, DecodedTable(e.sequences[a], sequenceTable[a]))]
          /\ fseRepeatAllowed' = TRUE
          /\ huffmanTable' = IF e.literals.mode = "compressed"
                             THEN Kept(TRUE, e.literals.table) ELSE huffmanTable
     ELSE UNCHANGED decoderVars

\* A raw or RLE block only appends bytes: the decoder's history stays.
ReceiveUncompressed(type) ==
  /\ lastBlock' = Verdict(type, TRUE, TRUE, TRUE)
  /\ UNCHANGED decoderVars

\* The first block of a frame is never sent as RLE.
UncompressedTypes == {"raw"} \cup {t \in {"run_length"} : ~firstBlock}

CommitTables(e) ==
  /\ sequenceHistory' = [a \in Alphabets |-> e.sequences[a].kept]
  /\ huffmanRepeat' = e.literals.kept

----------------------------------------------------------------------------
(* The decoder's state when a frame header is parsed (reset_frame_state),  *)
(* and the encoder's after construction or reset().                        *)

NoHistory == Kept(FALSE, NoTable)

Opening == [repeats |-> InitialRepeats, agrees |-> TRUE]

EntropyInit ==
  /\ phase = "parse" /\ parsed = <<>> /\ next = 1 /\ cut = 1
  /\ optimalRepeats = InitialRepeats /\ encoderRepeats = InitialRepeats
  /\ decoderRepeats = InitialRepeats /\ savedRepeats = InitialRepeats
  /\ sequenceHistory = [a \in Alphabets |-> NoHistory]
  /\ huffmanRepeat = NoHistory
  /\ firstBlock = TRUE
  /\ repeatOffsets = InitialRepeats
  /\ sequenceTable = [a \in Alphabets |-> NoHistory]
  /\ fseRepeatAllowed = FALSE
  /\ huffmanTable = NoHistory
  /\ received = Opening
  /\ lastBlock = Verdict("none", TRUE, TRUE, TRUE)
  /\ fellBack = FALSE

\* The encoder finished or was reset, and the decoder read the next header.
\* reset() marks the encoder's tables invalid and leaves them in place.
EntropyNewFrame ==
  /\ phase = "parse" /\ parsed = <<>>
  /\ optimalRepeats' = InitialRepeats /\ encoderRepeats' = InitialRepeats
  /\ sequenceHistory' = [a \in Alphabets |-> Kept(FALSE, sequenceHistory[a].table)]
  /\ huffmanRepeat' = Kept(FALSE, huffmanRepeat.table)
  /\ firstBlock' = TRUE
  /\ repeatOffsets' = InitialRepeats
  /\ sequenceTable' = [a \in Alphabets |-> Kept(FALSE, sequenceTable[a].table)]
  /\ fseRepeatAllowed' = FALSE
  /\ huffmanTable' = Kept(FALSE, huffmanTable.table)
  /\ received' = Opening
  /\ lastBlock' = Verdict("none", TRUE, TRUE, TRUE)
  /\ fellBack' = FALSE
  /\ UNCHANGED <<phase, parsed, next, cut, decoderRepeats, savedRepeats>>

----------------------------------------------------------------------------
(* emit_block: parse, then choose between one block and partitions.        *)

Bases == RepeatBases \cup {NewOffsetBase(o) : o \in NewOffsets}

\* A repeat code is only a candidate when the distance it stands for is not
\* zero.  Mutant: the most recent less one is not looked at.
AnyCandidate(base, noLiterals) == TRUE

Candidate(base, noLiterals) ==
  ResolveOptimalOffset(optimalRepeats, base, noLiterals) > 0

\* parse_optimal_block stores one sequence.
ParseSequence ==
  /\ phase = "parse" /\ lastBlock.accepted
  /\ Len(parsed) < MaxSequences
  /\ \E base \in Bases, noLiterals \in BOOLEAN :
       /\ Candidate(base, noLiterals)
       /\ parsed' = Append(parsed, [base |-> base, noLiterals |-> noLiterals,
                                     before |-> optimalRepeats])
       /\ optimalRepeats' = UpdateOptimalRepeats(optimalRepeats, base, noLiterals)
  /\ UNCHANGED <<phase, next, cut, encoderRepeats, decoderRepeats, savedRepeats,
                 sequenceHistory, huffmanRepeat, firstBlock, decoderVars,
                 received, lastBlock, fellBack>>

\* No sequences: nothing is encoded and no history moves.
EmitUnparsed ==
  /\ phase = "parse" /\ lastBlock.accepted /\ parsed = <<>>
  /\ \E type \in UncompressedTypes : ReceiveUncompressed(type)
  /\ firstBlock' = FALSE
  /\ UNCHANGED <<phase, optimalRepeats, parsed, next, cut, encoderRepeats,
                 decoderRepeats, savedRepeats, sequenceHistory, huffmanRepeat,
                 received, fellBack>>

BeginWhole ==
  /\ phase = "parse" /\ parsed # <<>>
  /\ phase' = "whole"
  /\ UNCHANGED <<optimalRepeats, parsed, next, cut, encoderRepeats, decoderRepeats,
                 savedRepeats, sequenceHistory, huffmanRepeat, firstBlock,
                 decoderVars, received, lastBlock, fellBack>>

\* derive_sequence_partitions found at least one split worth making.
BeginPartitions ==
  /\ Partitioning
  /\ phase = "parse" /\ Len(parsed) > 1
  /\ phase' = "partitions"
  /\ decoderRepeats' = encoderRepeats /\ savedRepeats' = encoderRepeats
  /\ UNCHANGED <<optimalRepeats, parsed, next, cut, encoderRepeats,
                 sequenceHistory, huffmanRepeat, firstBlock, decoderVars,
                 received, lastBlock, fellBack>>

\* The base that is written for the parsed sequence s.
SentBase(s) ==
  IF phase = "partitions"
  THEN ReconciledBase(encoderRepeats, decoderRepeats, s.base, s.noLiterals)
  ELSE s.base

\* The next sequence is written, and what a decoder will make of it is noted
\* beside what the parser meant by it.  There are at least two partitions, so
\* the first never takes every sequence.
EncodeSequence ==
  /\ phase \in {"whole", "partitions"} /\ next <= Len(parsed)
  /\ phase = "partitions" /\ cut = 1 => next < Len(parsed)
  /\ LET s      == parsed[next]
         meant  == ResolveOptimalOffset(encoderRepeats, s.base, s.noLiterals)
         turn   == DecodeOffset(received.repeats, SentBase(s), s.noLiterals)
     IN  /\ received' = [repeats |-> turn.repeats,
                         agrees  |-> received.agrees /\ turn.offset = meant]
         /\ encoderRepeats' = UpdateOptimalRepeats(encoderRepeats, s.base, s.noLiterals)
         /\ decoderRepeats' = IF phase = "partitions"
              THEN UpdateOptimalRepeats(decoderRepeats, SentBase(s), s.noLiterals)
              ELSE decoderRepeats
  /\ next' = next + 1
  /\ UNCHANGED <<phase, optimalRepeats, parsed, cut, savedRepeats, sequenceHistory,
                 huffmanRepeat, firstBlock, decoderVars, lastBlock, fellBack>>

----------------------------------------------------------------------------
(* emit_block: the block is sent whole.                                    *)

EndOfBlock ==
  /\ phase' = "parse" /\ parsed' = <<>> /\ next' = 1 /\ cut' = 1
  /\ firstBlock' = FALSE

\* The decoder will start its next block from what it has received by now.
OpenNext == received' = [repeats |-> repeatOffsets', agrees |-> TRUE]

EmitWholeCompressed ==
  /\ phase = "whole" /\ next > Len(parsed)
  /\ \E e \in Encodings : CommitTables(e) /\ ReceiveCompressed(e)
  /\ encoderRepeats' = optimalRepeats
  /\ EndOfBlock /\ OpenNext
  /\ UNCHANGED <<optimalRepeats, decoderRepeats, savedRepeats, fellBack>>

\* compressed.size() >= bytes.size(), or an RLE block shorter than 25 bytes
\* compressed: the encoding is dropped.  The tables it committed and the
\* repeat offsets the parser advanced are not.  An offset code beyond the
\* format's alphabet drops the block before any table is chosen.
EmitWholeUncompressed ==
  /\ phase = "whole" /\ next > Len(parsed)
  /\ \/ \E e \in Encodings : CommitTables(e)
     \/ UNCHANGED <<sequenceHistory, huffmanRepeat>>
  /\ \E type \in UncompressedTypes : ReceiveUncompressed(type)
  /\ fellBack' = TRUE
  /\ encoderRepeats' = optimalRepeats
  /\ EndOfBlock /\ OpenNext
  /\ UNCHANGED <<optimalRepeats, decoderRepeats, savedRepeats>>

----------------------------------------------------------------------------
(* emit_partitions: the sequences from cut to next - 1 become a block.     *)

\* The locals of emit_partitions, out of scope between calls.
NoPartitions ==
  decoderRepeats' = InitialRepeats /\ savedRepeats' = InitialRepeats

\* Mutant: the parser goes on from where its own choices left it.
KeepParserHistory(belief) ==
  UNCHANGED optimalRepeats /\ encoderRepeats' = optimalRepeats

\* The last partition hands its belief to the parser of the next block.
HandBack(belief) == optimalRepeats' = belief /\ encoderRepeats' = belief

EndOfPartition(belief) ==
  IF next > Len(parsed)
  THEN EndOfBlock /\ NoPartitions /\ HandBack(belief)
  ELSE /\ cut' = next /\ firstBlock' = FALSE
       /\ decoderRepeats' = belief /\ savedRepeats' = belief
       /\ UNCHANGED <<phase, parsed, next, optimalRepeats, encoderRepeats>>

PartitionEnds == phase = "partitions" /\ next > cut

EmitPartitionCompressed ==
  /\ PartitionEnds
  /\ \E e \in Encodings : CommitTables(e) /\ ReceiveCompressed(e)
  /\ EndOfPartition(decoderRepeats) /\ OpenNext
  /\ UNCHANGED fellBack

\* Mutant: the tables the dropped partition committed stay.
KeepTables == \E e \in Encodings : CommitTables(e)

\* Saved before the partition was encoded, restored when it is not sent.
RollBack == UNCHANGED <<sequenceHistory, huffmanRepeat>>

EmitPartitionUncompressed ==
  /\ PartitionEnds
  /\ RollBack
  /\ \E type \in UncompressedTypes : ReceiveUncompressed(type)
  /\ EndOfPartition(savedRepeats) /\ OpenNext
  /\ UNCHANGED fellBack

----------------------------------------------------------------------------
EntropyNext ==
  \/ EntropyNewFrame
  \/ ParseSequence
  \/ EmitUnparsed
  \/ BeginWhole
  \/ BeginPartitions
  \/ EncodeSequence
  \/ EmitWholeCompressed
  \/ EmitWholeUncompressed
  \/ EmitPartitionCompressed
  \/ EmitPartitionUncompressed

EntropySpec == EntropyInit /\ [][EntropyNext]_entropyVars

----------------------------------------------------------------------------
(* Properties.                                                             *)

HeldTables(tables) == [valid : BOOLEAN, table : tables]

ParsedSequences == [base : Nat \ {0}, noLiterals : BOOLEAN, before : ParserHistories]

\* Every variable stays in its range.  The encoder's histories hold distances
\* a match can have: never zero, although "the most recent less one" can
\* come to it and must then not be a candidate.
EntropyTypeOK ==
  /\ phase \in {"parse", "whole", "partitions"}
  /\ optimalRepeats \in ParserHistories /\ encoderRepeats \in ParserHistories
  /\ decoderRepeats \in ParserHistories /\ savedRepeats \in ParserHistories
  /\ parsed \in Seq(ParsedSequences)
  /\ next \in Nat \ {0} /\ cut \in Nat \ {0}
  /\ sequenceHistory \in [Alphabets -> HeldTables(SequenceTables)]
  /\ huffmanRepeat \in HeldTables(LiteralTables)
  /\ firstBlock \in BOOLEAN /\ fellBack \in BOOLEAN
  /\ repeatOffsets \in Histories
  /\ sequenceTable \in [Alphabets -> HeldTables(SequenceTables)]
  /\ fseRepeatAllowed \in BOOLEAN
  /\ huffmanTable \in HeldTables(LiteralTables)
  /\ received \in [repeats : Histories, agrees : BOOLEAN]
  /\ lastBlock \in [type : {"none", "raw", "run_length", "compressed"},
                    accepted : BOOLEAN, offsets : BOOLEAN, tables : BOOLEAN]

\* As long as no whole block with sequences has fallen back to raw or RLE in
\* this frame, the decoder copies every match of a compressed block from the
\* distance the parser meant, whatever partitions were sent raw or RLE
\* (reconcile_partition_repeats, decode_sequences_impl).
OffsetsDecodeAsParsed ==
  ~fellBack => lastBlock.offsets

\* Under the same condition it uses the very tables the encoder coded with,
\* and never meets a repeat mode without a table (load_sequence_table,
\* decode_literals, select_sequence_table, encode_huffman_literals).
TablesDecodeAsEncoded ==
  ~fellBack => lastBlock.accepted /\ lastBlock.tables

\* Between blocks the parser's next block starts from the decoder's repeat
\* offsets, so a price the parser gives to a repeat code is for a distance
\* the decoder can name (emit_partitions' last line).
ParserFollowsDecoder ==
  phase = "parse" /\ parsed = <<>> /\ ~fellBack =>
    optimalRepeats = repeatOffsets

\* The comment on zstd_compress: the strategies emit "interoperable
\* entropy-coded sequence blocks, with raw/RLE fallbacks".
BlocksAreInteroperable ==
  lastBlock.accepted /\ lastBlock.offsets /\ lastBlock.tables

----------------------------------------------------------------------------
(* The inductive invariant behind those properties.                        *)

Means(s, repeats) == ResolveOptimalOffset(repeats, s.base, s.noLiterals)
After(s)          == UpdateOptimalRepeats(s.before, s.base, s.noLiterals)

\* The parsed sequences carry the parser's history from one to the next, up to
\* the history the parser keeps, and emission replays it.
ReplayOfParse ==
  /\ \A i \in 1..Len(parsed) :
       /\ Means(parsed[i], parsed[i].before) > 0
       /\ i < Len(parsed) => parsed[i + 1].before = After(parsed[i])
       /\ i = Len(parsed) => optimalRepeats = After(parsed[i])
  /\ next \in 1..(Len(parsed) + 1)
  /\ cut \in 1..next
  /\ phase = "parse" => next = 1 /\ cut = 1
  /\ next <= Len(parsed) => encoderRepeats = parsed[next].before
  /\ next > Len(parsed) => encoderRepeats = optimalRepeats
  /\ cut <= Len(parsed) \/ phase = "parse"

\* What the encoder could ask to repeat, the decoder has.
TablesHeld ==
  /\ \A a \in Alphabets : sequenceHistory[a].valid =>
       /\ fseRepeatAllowed
       /\ sequenceTable[a].valid
       /\ sequenceTable[a].table = sequenceHistory[a].table
  /\ huffmanRepeat.valid =>
       huffmanTable.valid /\ huffmanTable.table = huffmanRepeat.table

\* Where each phase of emit_block stands with the decoder's repeat offsets.
RepeatsTracked ==
  /\ phase = "parse" =>
       received.repeats = repeatOffsets /\ encoderRepeats = repeatOffsets
  /\ phase = "whole" => encoderRepeats = received.repeats
  /\ phase = "partitions" =>
       decoderRepeats = received.repeats /\ savedRepeats = repeatOffsets
  /\ received.agrees

EntropyInv ==
  /\ EntropyTypeOK
  /\ ReplayOfParse
  /\ ~fellBack => /\ TablesHeld
                  /\ RepeatsTracked
                  /\ lastBlock.accepted /\ lastBlock.offsets /\ lastBlock.tables
=============================================================================
