------------------------------ MODULE BlockCoding ------------------------------
(***************************************************************************)
(* The two coded sections of a compressed block, from the compressor that  *)
(* builds, describes and uses their tables to the decompressor that        *)
(* rebuilds them and reads the symbols back: literals under a Huffman      *)
(* code, sequences under three state codes that share one bitstream.       *)
(* The compressor codes both from their end, so that the decompressor,     *)
(* which reads the bits from their end, has them from their start.         *)
(*                                                                         *)
(* The decompressor keeps the tables of sequences that it has built, with  *)
(* their descriptions: the first one and, once a frame has shown others,   *)
(* a few of those in turn.  Nothing empties this cache, not even a new     *)
(* frame.                                                                  *)
(*                                                                         *)
(* Abstractions.  A behaviour follows one section of literals, or sections *)
(* of sequences of any number of blocks and frames.  A table is built from *)
(* counts in which every symbol to be coded occurs, of this block or,      *)
(* repeated, of an earlier one; which blocks repeat is studied in          *)
(* EntropyHistory.  Literals in four streams, alphabets of more than 128   *)
(* symbols whose weights are not coded, and sections that are too long to  *)
(* be sent, are left out.  A decoded offset is its base, as in             *)
(* RepeatOffsets.                                                          *)
(***************************************************************************)
EXTENDS HuffmanCodes, SequenceTables

CONSTANTS
  LiteralCounts,  \* frequencies of literals a tree is built from
  TableChoices,   \* select_sequence_table's outcomes: [Kinds -> mode and counts]
  Followers,      \* bound: those of the blocks that follow one another
  Sequences,      \* the sequences of a block
  MaxLiterals,    \* bound: literals coded
  MaxSequences    \* bound: sequences coded

\* A tree is built when there are two symbols or more, sixteen literals or more,
\* and one of them is frequent.
WorthATree(frequencies) ==
  /\ Cardinality(Present(frequencies)) >= 2 /\ SumFunction(frequencies) >= 16
  /\ Max(Range(frequencies)) > SumFunction(frequencies) \div 2^7 + 4

ASSUME ConstantsAssumption ==
  /\ \A f \in LiteralCounts : WorthATree(f) /\ Max(Range(f)) < 165 /\ f[Max(DOMAIN f)] > 0
  /\ \A t \in TableChoices : DOMAIN t = Kinds
  /\ Followers \subseteq TableChoices
  /\ Sequences \subseteq [literal_length : Nat, offset : Nat \ {0}, match_length : Nat \ 0..2]
  /\ MaxLiterals \in Nat /\ MaxSequences \in Nat

VARIABLES
  input,        \* the section: counts of literals, or choices of tables
  stage,        \* "building", "encoding", "loading", "decoding", "done", "refused"
  coding,       \* the compressor's code or tables
  description,  \* what the section says of them
  states,       \* the states of the three codes, the compressor's or the decompressor's
  bits,         \* the bitstream
  decoding,     \* the decompressor's table or tables
  caches,       \* for each kind the tables it keeps
  message,      \* history variable: what was coded
  decoded       \* what was read

vars == <<input, stage, coding, description, states, bits, decoding, caches, message, decoded>>

Literals == input.section = "literals"

Init ==
  /\ input \in [section : {"literals"}, frequencies : LiteralCounts]
               \cup [section : {"sequences"}, choice : TableChoices]
  /\ stage = "building" /\ coding = None /\ description = None /\ decoding = None
  /\ states = None /\ bits = <<>> /\ message = <<>> /\ decoded = <<>>
  /\ caches = [kind \in Kinds |-> EmptyCache]

----------------------------------------------------------------------------
(* Literals.                                                               *)

\* encode_huffman_literals up to the streams.
BuildTree ==
  /\ stage = "building" /\ Literals
  /\ \E depth \in Depths(input.frequencies) :
       coding' = HuffmanLengths(input.frequencies, depth)
  /\ description' = TreeDescription(coding')
  /\ stage' = "encoding"
  /\ UNCHANGED <<input, states, bits, decoding, caches, message, decoded>>

\* encode_huffman_stream: one more symbol, in front of those already coded.
EncodeLiteral ==
  /\ stage = "encoding" /\ Literals /\ Len(message) < MaxLiterals
  /\ \E s \in Present(input.frequencies) :
       /\ bits' = bits \o Bits(Code(coding, s).value, Code(coding, s).length)
       /\ message' = <<s>> \o message
  /\ UNCHANGED <<input, stage, coding, description, states, decoding, caches, decoded>>

EndLiterals ==
  /\ stage = "encoding" /\ Literals
  /\ stage' = "loading"
  /\ UNCHANGED <<input, coding, description, states, bits, decoding, caches, message, decoded>>

\* read_huffman_table.
LoadTree ==
  /\ stage = "loading" /\ Literals
  /\ \E read \in {WeightsIn(description)} :
       decoding' = IF read.accepted THEN HuffmanTable(read.weights) ELSE Refused
  /\ stage' = IF decoding'.accepted THEN "decoding" ELSE "refused"
  /\ UNCHANGED <<input, coding, description, states, bits, caches, message, decoded>>

\* decode_huffman_stream: the next bits, as many as the longest code has, tell the
\* symbol; only those of its code are consumed.
DecodeLiteral ==
  /\ stage = "decoding" /\ Literals /\ Len(decoded) < Len(message)
  /\ LET entry == decoding.entries[Peek(bits, decoding.log) + 1]
     IN  IF entry.width > Len(bits)
         THEN stage' = "refused" /\ UNCHANGED <<bits, decoded>>
         ELSE /\ bits' = Unread(bits, entry.width)
              /\ decoded' = Append(decoded, entry.symbol)
              /\ UNCHANGED stage
  /\ UNCHANGED <<input, coding, description, states, decoding, caches, message>>

----------------------------------------------------------------------------
(* Sequences.                                                              *)

\* Codes of lengths: the first value of each and the bits that tell the others.
LiteralLengthBase ==
  <<0, 1, 2, 3, 4, 5, 6, 7, 8, 9, 10, 11, 12, 13, 14, 15, 16, 18, 20, 22, 24, 28, 32, 40, 48, 64>>
    \o [i \in 1..10 |-> 2^(i + 6)]
LiteralLengthBits ==
  [i \in 1..16 |-> 0] \o <<1, 1, 1, 1, 2, 2, 3, 3, 4, 6>> \o [i \in 1..10 |-> i + 6]

MatchLengthBase ==
  [i \in 1..32 |-> i + 2] \o <<35, 37, 39, 41, 43, 47, 51, 59, 67, 83, 99>>
    \o [i \in 1..10 |-> 2^(i + 6) + 3]
MatchLengthBits ==
  [i \in 1..32 |-> 0] \o <<1, 1, 1, 1, 2, 2, 3, 3, 4, 4, 5>> \o [i \in 1..10 |-> i + 6]

Base(kind, code) ==
  CASE kind = "literal_length" -> LiteralLengthBase[code + 1]
    [] kind = "offset"         -> 2^code
    [] kind = "match_length"   -> MatchLengthBase[code + 1]

ExtraWidth(kind, code) ==
  CASE kind = "literal_length" -> LiteralLengthBits[code + 1]
    [] kind = "offset"         -> code
    [] kind = "match_length"   -> MatchLengthBits[code + 1]

\* literal_length_symbol, match_length_symbol, and the bit width of an offset's base.
SymbolOf(kind, value) ==
  IF kind = "offset" THEN BitWidth(value) - 1
  ELSE Max({code \in 0..LargestCode(kind) : Base(kind, code) <= value})

\* The low bits of a value, of a match length less three.
Extra(kind, value) ==
  Bits(IF kind = "match_length" THEN value - 3 ELSE value, ExtraWidth(kind, SymbolOf(kind, value)))

\* Mutant: the last code, which starts a state and costs no bits, is not counted.
LastUncounted(frequencies, last) == [frequencies EXCEPT ![last] = @ - 1]

\* The last code is counted only when it occurs nowhere else.
Adjusted(frequencies, last) ==
  IF frequencies[last] > 1 THEN [frequencies EXCEPT ![last] = @ - 1] ELSE frequencies

\* The counts of a table.  A symbol too rare for a cell has one nevertheless; in
\* large blocks the value -1 says so.
CountsOf(kind, choice) ==
  LET adjusted == Adjusted(choice.frequencies, choice.last)
  IN  CASE choice.mode = "predefined" -> DefaultCounts(kind)
        [] choice.mode = "compressed" ->
             Normalize(adjusted,
               OptimalTableLog(MaximumLog(kind), SumFunction(choice.frequencies),
                               Max(DOMAIN choice.frequencies)),
               IF SumFunction(adjusted) >= 2048 THEN -1 ELSE 1)

\* select_sequence_table for each of the three.
SelectTables ==
  /\ stage = "building" /\ ~Literals
  /\ LET choice == input.choice
     IN  /\ coding' = [kind \in Kinds |->
              IF choice[kind].mode = "run_length" THEN OneSymbol
              ELSE CompressionTable(CountsOf(kind, choice[kind]))]
         /\ description' = [kind \in Kinds |->
              [mode |-> choice[kind].mode,
               bytes |-> CASE choice[kind].mode = "predefined" -> <<>>
                           [] choice[kind].mode = "run_length" -> Bits(choice[kind].symbol, 8)
                           [] OTHER -> Description(CountsOf(kind, choice[kind]))]]
  /\ stage' = "encoding"
  /\ UNCHANGED <<input, states, bits, decoding, caches, message, decoded>>

\* The code of a value has a place in the table.
Representable(kind, value) ==
  LET choice == input.choice[kind]
      code   == SymbolOf(kind, value)
  IN  CASE choice.mode = "run_length" -> code = choice.symbol
        [] choice.mode = "predefined" -> code \in DOMAIN DefaultCounts(kind).values
        [] OTHER -> code \in DOMAIN choice.frequencies /\ choice.frequencies[code] > 0

ExtraBits(sequence) ==
  Extra("literal_length", sequence.literal_length)
    \o Extra("match_length", sequence.match_length) \o Extra("offset", sequence.offset)

\* Mutant: the states change in the order they are read.
StateBitsAsRead(change) ==
  change["literal_length"] \o change["match_length"] \o change["offset"]

\* The states change in this order, the reverse of the one they are read in.
StateBits(change) ==
  change["offset"] \o change["match_length"] \o change["literal_length"]

\* write_sequence_bitstream: the last sequence starts the states, each earlier one
\* changes them; then come the bits its codes leave out.
EncodeSequence ==
  /\ stage = "encoding" /\ ~Literals /\ Len(message) < MaxSequences
  /\ \E q \in Sequences :
       LET code(kind) == SymbolOf(kind, q[kind])
       IN  /\ \A kind \in Kinds : Representable(kind, q[kind])
           /\ IF message = <<>>
              THEN /\ states' = [kind \in Kinds |-> Started(coding[kind], code(kind))]
                   /\ bits' = ExtraBits(q)
              ELSE /\ states' = [kind \in Kinds |->
                                   Encoded(coding[kind], states[kind], code(kind))]
                   /\ bits' = bits \o StateBits([kind \in Kinds |->
                                          Emitted(coding[kind], states[kind], code(kind))])
                                   \o ExtraBits(q)
           /\ message' = <<q>> \o message
  /\ UNCHANGED <<input, stage, coding, description, decoding, caches, decoded>>

\* The descriptions of the tables are sent in this order, in front of the bits.
InOrder == <<"literal_length", "offset", "match_length">>

EndSequences ==
  /\ stage = "encoding" /\ ~Literals /\ message # <<>>
  /\ bits' = FlattenSeq([i \in DOMAIN InOrder |-> description[InOrder[i]].bytes])
                  \o bits \o FinalBits(coding["match_length"], states["match_length"])
                  \o FinalBits(coding["offset"], states["offset"])
                  \o FinalBits(coding["literal_length"], states["literal_length"])
  /\ states' = None /\ decoding' = [kind \in Kinds |-> None]
  /\ stage' = "loading"
  /\ UNCHANGED <<input, coding, description, caches, message, decoded>>

\* One description after another, and the bitstream behind them.
LoadTable(i) ==
  /\ stage = "loading" /\ ~Literals
  /\ \A j \in DOMAIN InOrder : j < i <=> decoding[InOrder[j]] # None
  /\ LET kind == InOrder[i]
     IN  \E loaded \in {Loaded(kind, description[kind].mode, bits, caches[kind])} :
           /\ caches' = [caches EXCEPT ![kind] = loaded.cache]
           /\ IF loaded.accepted
              THEN /\ decoding' = [decoding EXCEPT ![kind] = loaded.table]
                   /\ bits' = SubSeq(bits, loaded.used + 1, Len(bits))
                   /\ stage' = IF i = Len(InOrder) THEN "decoding" ELSE stage
              ELSE stage' = "refused" /\ UNCHANGED <<bits, decoding>>
  /\ UNCHANGED <<input, coding, description, states, message, decoded>>

\* Reads of the given widths, one after another: the numbers and what is left.
Reads(from, widths) ==
  LET left[i \in 0..Len(widths)] == IF i = 0 THEN from ELSE Unread(left[i - 1], widths[i])
  IN  [numbers |-> [i \in DOMAIN widths |-> Peek(left[i - 1], widths[i])],
       left    |-> left[Len(widths)]]

\* decode_sequences_impl, up to the first sequence.
StartStates ==
  /\ stage = "decoding" /\ ~Literals /\ states = None
  /\ LET read == Reads(bits, <<decoding["literal_length"].log, decoding["offset"].log,
                               decoding["match_length"].log>>)
     IN  /\ states' = [literal_length |-> read.numbers[1], offset |-> read.numbers[2],
                       match_length   |-> read.numbers[3]]
         /\ bits' = read.left
  /\ UNCHANGED <<input, stage, coding, description, decoding, caches, message, decoded>>

\* One sequence: its three extra bits, then, unless it is the last, the states.
DecodeSequence ==
  /\ stage = "decoding" /\ ~Literals /\ states # None /\ Len(decoded) < Len(message)
  /\ LET entry  == [kind \in Kinds |-> decoding[kind].entries[states[kind] + 1]]
         width(kind) == ExtraWidth(kind, entry[kind].symbol)
         isLast == Len(decoded) + 1 = Len(message)
         change(kind) == IF isLast THEN 0 ELSE entry[kind].width
         widths == <<width("offset"), width("match_length"), width("literal_length"),
                     change("literal_length"), change("match_length"), change("offset")>>
         read   == Reads(bits, widths)
         value(kind, i) == Base(kind, entry[kind].symbol) + read.numbers[i]
         next(kind, i)  == IF isLast THEN states[kind] ELSE entry[kind].next + read.numbers[i]
     IN  /\ decoded' = Append(decoded,
              [literal_length |-> value("literal_length", 3), offset |-> value("offset", 1),
               match_length   |-> value("match_length", 2)])
         /\ states' = [literal_length |-> next("literal_length", 4), offset |-> next("offset", 6),
                       match_length   |-> next("match_length", 5)]
         /\ bits' = read.left
         /\ stage' = IF SumFunction(widths) > Len(bits) THEN "refused" ELSE stage
  /\ UNCHANGED <<input, coding, description, decoding, caches, message>>

----------------------------------------------------------------------------
\* All is read: at_end.
End ==
  /\ stage = "decoding" /\ Len(decoded) = Len(message)
  /\ stage' = IF bits = <<>> THEN "done" ELSE "refused"
  /\ UNCHANGED <<input, coding, description, states, bits, decoding, caches, message, decoded>>

\* Another block, of this frame or of the next, which starts with no misses.
NextBlock ==
  /\ stage = "done" /\ ~Literals /\ input.choice \in Followers
  /\ \E choice \in Followers : input' = [section |-> "sequences", choice |-> choice]
  /\ \E newFrame \in BOOLEAN :
       caches' = IF newFrame THEN [kind \in Kinds |-> Restarted(caches[kind])] ELSE caches
  /\ stage' = "building" /\ coding' = None /\ description' = None /\ decoding' = None
  /\ states' = None /\ bits' = <<>> /\ message' = <<>> /\ decoded' = <<>>

Next ==
  \/ BuildTree \/ EncodeLiteral \/ EndLiterals \/ LoadTree \/ DecodeLiteral
  \/ SelectTables \/ EncodeSequence \/ EndSequences \/ StartStates
  \/ (\E i \in DOMAIN InOrder : LoadTable(i)) \/ DecodeSequence \/ End \/ NextBlock

Spec == Init /\ [][Next]_vars

----------------------------------------------------------------------------
\* Whatever the height is brought down to, the codes fill the space of codes: no
\* bits are left that no symbol begins with, and none that two do
\* (limit_huffman_height pays back what it took).
TreesAreWhole ==
  Literals /\ coding # None =>
    LET occurring == Present(input.frequencies)
    IN  /\ \A s \in occurring : coding.lengths[s] \in 1..coding.log
        /\ SumFunction([s \in occurring |-> 2^(coding.log - coding.lengths[s])]) = 2^coding.log

Cost(frequencies, lengths) ==
  SumFunction([s \in DOMAIN lengths |-> frequencies[s] * lengths[s]])

\* As long as the limit cuts nothing, no other code takes fewer bits: compared with
\* every assignment of lengths that is a prefix code, for up to five symbols
\* (build_reference_huffman_lengths with its two queues and its ties).
ShortestUnlessLimited ==
  LET occurring == Present(input.frequencies)
      n         == Cardinality(occurring)
      chosen    == [s \in occurring |-> coding.lengths[s]]
  IN  Literals /\ stage = "encoding" /\ message = <<>> /\ n <= 5
        /\ Max(Range(Heights(input.frequencies))) <= coding.log =>
        \A lengths \in [occurring -> 1..(n - 1)] :
          SumFunction([s \in occurring |-> 2^(n - 1 - lengths[s])]) <= 2^(n - 1) =>
            Cost(input.frequencies, chosen) <= Cost(input.frequencies, lengths)

\* The decompressor refuses no section that the compressor made, reads the literals
\* it coded, and all the bits.
LiteralsSurvive ==
  Literals => stage # "refused" /\ (stage = "done" => decoded = message)

\* The same of sequences: three codes and the bits they leave out, interleaved in
\* opposite orders, in one bitstream.
SequencesSurvive ==
  ~Literals => stage # "refused" /\ (stage = "done" => decoded = message)

=============================================================================
