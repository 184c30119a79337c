--------------------------- MODULE LiteralGathering ---------------------------
(***************************************************************************)
(* Who copies the literals of a block.  A parser that gathers writes the   *)
(* bytes before each match into the workspace as it finds the match; an    *)
(* encoder that does not trust it copies them again, from where the        *)
(* compact records say that they are.  Both copy short runs a fixed width  *)
(* at a time, past the bytes they want.  Which of the two does the work is *)
(* decided in three places by compiler, strategy and level, and the        *)
(* storage keeps the bytes of earlier blocks.                              *)
(*                                                                         *)
(* Abstractions.  A byte is its position in the input, so a literal is     *)
(* right when it is the position it should be.  With a minimum_match below *)
(* 7 the sequences are kept whole; what they read as is the same           *)
(* (ReadsBack), and the records stand for both.                            *)
(***************************************************************************)
EXTENDS CompactSequences

CONSTANTS
  Builds,        \* what is fixed when the compressor is compiled: the compiler, as
                 \* far as the preprocessor tells it apart, compression_level and
                 \* the minimum_match of the fast strategy
  ShortCopy,     \* short_literal_copy_size
  Storage,       \* workspace.literals.size()
  MaxInput       \* bound: bytes of an input

\* compression_workspace reserves the literals of the largest block.
ASSUME GatheringAssumption ==
  /\ Builds \subseteq [compiler : {"gcc13", "msvc", "other"}, level : Nat, minimumMatch : Nat]
  /\ ShortCopy \in Nat \ {0} /\ Storage \in Nat /\ MaxInput \in Nat
  /\ BlockSizes \subseteq 1..Storage

VARIABLES
  build,      \* the one of Builds that runs
  begin, end, \* the block
  input,      \* input.size(), which may reach beyond the block
  storage,    \* workspace.literals, and the memory behind it
  cursor,     \* literal_cursor, then literal_output
  literals,   \* the literal section of the block
  wanted,     \* the bytes of the block that no match covers
  sent        \* the block has a literal section

gatheringVars == <<build, begin, end, input, storage, cursor, literals, wanted, sent>>
allVars == <<vars, gatheringVars>>

\* What is not a byte of the input: memory not written yet, and what is read
\* behind the end of the input.
NoByte == MaxInput
PastInput == MaxInput + 1
Memory == 0..(Storage + ShortCopy)

GatheringInit ==
  /\ Init
  /\ build \in Builds
  /\ begin = 0 /\ end = 0 /\ input = 0
  /\ storage = [cell \in Memory |-> NoByte]
  /\ cursor = 0 /\ literals = <<>> /\ wanted = <<>> /\ sent = FALSE

----------------------------------------------------------------------------
\* Which parse() emit_block calls: one that gathers, or not.
ParserGathers ==
  /\ build.minimumMatch >= 7
  /\ build.compiler = "gcc13" \/ (build.compiler = "msvc" /\ build.level = 1)

\* The CollectedLiterals argument emit_block gives to encode_sequences_block.
CollectedLiterals ==
  build.minimumMatch >= 7 /\ (build.compiler = "gcc13" \/ build.level = 1)

\* Memory after `width` bytes are copied to `to` from `from` on.
Copied(to, from, width) ==
  [cell \in Memory |->
     IF cell \in to..(to + width - 1)
     THEN IF from + (cell - to) < input THEN from + (cell - to) ELSE PastInput
     ELSE storage[cell]]

\* Mutant: the room that is left for a wide copy is not looked at.
AlwaysWide(to, from, count) == IF count <= ShortCopy THEN ShortCopy ELSE count

\* Mutant: the wide copy may read past the input.
ReadsPast(to, from, count) ==
  IF count <= ShortCopy /\ to + ShortCopy <= Storage THEN ShortCopy ELSE count

\* A short run is copied whole width when there is room on both sides.
Width(to, from, count) ==
  IF /\ count <= ShortCopy
     /\ to + ShortCopy <= Storage
     /\ from + ShortCopy <= input
  THEN ShortCopy ELSE count

Bytes(from, count) == [i \in 1..count |-> from + i - 1]

----------------------------------------------------------------------------
Begin(count, more) ==
  /\ BeginBlock(count) /\ end + count + more <= MaxInput
  /\ begin' = end /\ end' = end + count /\ input' = end + count + more
  /\ wanted' = <<>> /\ literals' = <<>> /\ cursor' = 0 /\ sent' = FALSE
  /\ UNCHANGED <<build, storage>>

\* Mutant: the parser gathers only the bytes of runs that are not short.
GatherLong(from, count) ==
  /\ storage' = IF ParserGathers /\ count > ShortCopy
                THEN Copied(cursor, from, count) ELSE storage
  /\ cursor' = IF ParserGathers THEN cursor + count ELSE cursor

\* gather_literals
Gather(from, count) ==
  /\ storage' = IF ParserGathers
                THEN Copied(cursor, from, Width(cursor, from, count)) ELSE storage
  /\ cursor' = IF ParserGathers THEN cursor + count ELSE cursor

\* The literals before a match, and its record.
Match(literal, match, form) ==
  /\ Push(literal, match, form)
  /\ wanted' = wanted \o Bytes(begin + anchor, literal)
  /\ Gather(begin + anchor, literal)
  /\ UNCHANGED <<build, begin, end, input, literals, sent>>

\* parse() returns a block without sequences, which is sent raw.
NoMatches == NoSequences /\ UNCHANGED gatheringVars

\* The literals behind the last match; then the encoder starts over.
EndParse ==
  /\ BeginEncode
  /\ wanted' = wanted \o Bytes(begin + anchor, size - anchor)
  /\ storage' = IF ParserGathers
                THEN Copied(cursor, begin + anchor,
                            Width(cursor, begin + anchor, size - anchor))
                ELSE storage
  /\ cursor' = 0
  /\ UNCHANGED <<build, begin, end, input, literals, sent>>

\* The code-gathering loop of encode_sequences_block: the literals are copied
\* before the offset is found to have no code.
CopyLiterals ==
  /\ EncodeSequence
  /\ LET count == EncodedAt(index).literal
     IN  /\ storage' = IF CollectedLiterals THEN storage
                       ELSE Copied(cursor, begin + position,
                                   Width(cursor, begin + position, count))
         /\ cursor' = cursor + count
  /\ UNCHANGED <<build, begin, end, input, literals, wanted, sent>>

\* The trailing literals, and the section that goes to the literal encoder.
EncodeLiterals ==
  /\ EndEncode
  /\ LET all == IF CollectedLiterals THEN storage
                ELSE Copied(cursor, begin + anchor, size - anchor)
     IN  /\ storage' = all
         /\ literals' = [i \in 1..(cursor + size - anchor) |-> all[i - 1]]
  /\ sent' = TRUE
  /\ UNCHANGED <<build, begin, end, input, cursor, wanted>>

\* reset(), or the next call with another span: the storage keeps its bytes, and
\* the records theirs until the next block is parsed.
NewInput ==
  /\ phase = "idle" /\ end > 0
  /\ begin' = 0 /\ end' = 0 /\ input' = 0
  /\ wanted' = <<>> /\ literals' = <<>> /\ cursor' = 0 /\ sent' = FALSE
  /\ UNCHANGED <<build, storage, vars>>

GatheringNext ==
  \/ \E count \in BlockSizes, more \in 0..MaxInput : Begin(count, more)
  \/ \E literal \in 0..(size - anchor), match \in ShortMatch..(size - anchor), form \in Forms :
       Match(literal, match, form)
  \/ NoMatches \/ EndParse \/ CopyLiterals \/ EncodeLiterals \/ NewInput

GatheringSpec == GatheringInit /\ [][GatheringNext]_allVars

----------------------------------------------------------------------------
\* The literal section of a block is the bytes of this block that no match
\* covers, in their order, whoever gathered them and whatever the storage held
\* (gather_literals, encode_sequences_block).
LiteralsAreTheBlocks == sent => literals = wanted

\* Wide copies write nothing behind the storage, and the bytes in it were read
\* from inside an input (the two guards of every 16-byte memcpy).
CopiesStayInside ==
  \A cell \in Memory :
    /\ storage[cell] # PastInput
    /\ cell >= Storage => storage[cell] = NoByte
=============================================================================
