-------------------------- MODULE CompactSequences --------------------------
(***************************************************************************)
(* The eight-byte records in which the fast parser keeps the sequences of  *)
(* a block.  Both lengths lose everything above sixteen bits; one index    *)
(* beside the records names the one sequence that needs more, and one flag *)
(* tells which of its lengths does.  That one is enough is a matter of     *)
(* what fits in a block, and of clearing the index between blocks.         *)
(*                                                                         *)
(* Abstractions.  Indices start at 1 and 0 stands for the npos of the      *)
(* code.  Where the matches are is a choice.                               *)
(***************************************************************************)
EXTENDS Integers, Sequences

CONSTANTS
  Half,          \* 65536, what sixteen bits hold
  ShortMatch,    \* 3, the match length stored as zero
  Forms,         \* what a sequence may refer to: offsets, or repeat codes
  OffsetEnd,     \* the first offset base that has no offset code
  BlockSizes     \* sizes of blocks, at most 128 KiB

ASSUME ConstantsAssumption ==
  /\ Half \in Nat \ {0} /\ ShortMatch \in Nat \ {0}
  /\ Forms \subseteq [offset : Nat, repeat : 0..3]
  /\ \A form \in Forms : form.repeat = 0 => form.offset > 0
  /\ OffsetEnd \in Nat
  /\ BlockSizes \subseteq 0..(2 * Half)

VARIABLES
  phase,         \* "idle", "parse" or "encode"
  size,          \* block_size
  anchor,        \* parser: the end of the last match
  sequences,     \* the sequences given to push_back, and where they begin
  records,       \* compact_sequence_store::records
  exception,     \* exception_index
  longLiterals,  \* long_literals
  index,         \* encoder: the sequence it reads next
  position       \* encoder: literal_position

vars == <<phase, size, anchor, sequences, records, exception, longLiterals, index, position>>

Init ==
  /\ phase = "idle" /\ size = 0 /\ anchor = 0
  /\ sequences = <<>> /\ records = <<>> /\ exception = 0 /\ longLiterals = FALSE
  /\ index = 1 /\ position = 0

----------------------------------------------------------------------------
\* A length that sixteen bits do not hold; a match counts from the shortest.
IsLong(sequence) == sequence.literal >= Half \/ sequence.match - ShortMatch >= Half

\* What push_back keeps of a sequence.
Packed(sequence) ==
  [offsetBase |-> IF sequence.repeat # 0 THEN sequence.repeat ELSE sequence.offset + 3,
   literals   |-> sequence.literal % Half,
   matchBase  |-> (sequence.match - ShortMatch) % Half]

\* Half for the length, of the two, that the exception extends.
Extension(extended, here) == IF extended /\ here THEN Half ELSE 0

\* Mutant: the index of the exception is compared inside the part.
InPart(begin, at) ==
  LET record == records[begin + at]
      extended == at = exception
  IN  [literal |-> record.literals + Extension(extended, longLiterals),
       match   |-> record.matchBase + ShortMatch + Extension(extended, ~longLiterals),
       offset  |-> IF record.offsetBase >= 4 THEN record.offsetBase - 3 ELSE 0,
       repeat  |-> IF record.offsetBase < 4 THEN record.offsetBase ELSE 0]

\* operator[] of the part of a view that begins behind `begin` sequences: the
\* exception stays a pointer to a record, or is null when there is none.
Entry(begin, at) ==
  LET record == records[begin + at]
      extended == begin + at = exception
  IN  [literal |-> record.literals + Extension(extended, longLiterals),
       match   |-> record.matchBase + ShortMatch + Extension(extended, ~longLiterals),
       offset  |-> IF record.offsetBase >= 4 THEN record.offsetBase - 3 ELSE 0,
       repeat  |-> IF record.offsetBase < 4 THEN record.offsetBase ELSE 0]

\* Mutant: both lengths of the exception are extended.
ExtendsBoth(at) ==
  [literal    |-> records[at].literals + Extension(at = exception, TRUE),
   match      |-> records[at].matchBase + ShortMatch + Extension(at = exception, ~longLiterals),
   offsetBase |-> records[at].offsetBase]

\* encoded_sequence_at, which reads the records without operator[].
EncodedAt(at) ==
  [literal    |-> records[at].literals + Extension(at = exception, longLiterals),
   match      |-> records[at].matchBase + ShortMatch + Extension(at = exception, ~longLiterals),
   offsetBase |-> records[at].offsetBase]

----------------------------------------------------------------------------
\* Mutant: the records are emptied and the exception is not.
ClearRecords(count) ==
  /\ phase = "idle" /\ count \in BlockSizes
  /\ phase' = "parse" /\ size' = count /\ anchor' = 0
  /\ sequences' = <<>> /\ records' = <<>>
  /\ index' = 1 /\ position' = 0
  /\ UNCHANGED <<exception, longLiterals>>

\* parse() is given the store of the block before and clears it.
BeginBlock(count) ==
  /\ phase = "idle" /\ count \in BlockSizes
  /\ phase' = "parse" /\ size' = count /\ anchor' = 0
  /\ sequences' = <<>> /\ records' = <<>> /\ exception' = 0 /\ longLiterals' = FALSE
  /\ index' = 1 /\ position' = 0

\* push_back, with a match inside the block; its assertion that the index is
\* free is OneException.
Push(literal, match, form) ==
  /\ phase = "parse" /\ match >= ShortMatch /\ anchor + literal + match <= size
  /\ LET sequence == [begin |-> anchor, literal |-> literal, match |-> match,
                      offset |-> form.offset, repeat |-> form.repeat]
     IN  /\ sequences' = Append(sequences, sequence)
         /\ records' = Append(records, Packed(sequence))
         /\ exception' = IF IsLong(sequence) THEN Len(records) + 1 ELSE exception
         /\ longLiterals' = IF IsLong(sequence) THEN literal >= Half ELSE longLiterals
  /\ anchor' = anchor + literal + match
  /\ UNCHANGED <<phase, size, index, position>>

\* resize to fewer sequences; to more, it pushes.
Shrink(count) ==
  /\ phase = "parse" /\ count \in 0..(Len(records) - 1)
  /\ sequences' = SubSeq(sequences, 1, count) /\ records' = SubSeq(records, 1, count)
  /\ exception' = IF exception > count THEN 0 ELSE exception
  /\ anchor' = sequences[count + 1].begin
  /\ UNCHANGED <<phase, size, longLiterals, index, position>>

\* A block without sequences is sent raw; the encoder has nothing to do.
NoSequences ==
  /\ phase = "parse" /\ records = <<>>
  /\ phase' = "idle"
  /\ UNCHANGED <<size, anchor, sequences, records, exception, longLiterals, index, position>>

BeginEncode ==
  /\ phase = "parse" /\ records # <<>>
  /\ phase' = "encode"
  /\ UNCHANGED <<size, anchor, sequences, records, exception, longLiterals, index, position>>

\* The code-gathering loop; an offset without a code gives the section up.
EncodeSequence ==
  /\ phase = "encode" /\ index <= Len(records)
  /\ LET value == EncodedAt(index)
     IN  /\ position' = position + value.literal + value.match
         /\ phase' = IF value.offsetBase >= OffsetEnd THEN "idle" ELSE phase
  /\ index' = index + 1
  /\ UNCHANGED <<size, anchor, sequences, records, exception, longLiterals>>

\* The literals behind the last match are copied from the parser's position.
EndEncode ==
  /\ phase = "encode" /\ index > Len(records)
  /\ phase' = "idle"
  /\ UNCHANGED <<size, anchor, sequences, records, exception, longLiterals, index, position>>

Next ==
  \/ \E count \in BlockSizes : BeginBlock(count)
  \/ \E literal \in 0..(size - anchor), match \in ShortMatch..(size - anchor), form \in Forms :
       Push(literal, match, form)
  \/ \E count \in 0..(Len(records) - 1) : Shrink(count)
  \/ NoSequences \/ BeginEncode \/ EncodeSequence \/ EndEncode

Spec == Init /\ [][Next]_vars

----------------------------------------------------------------------------
\* A sequence as a reader of the store knows it: a repeat code has no offset.
Logical(sequence) ==
  [literal |-> sequence.literal, match |-> sequence.match,
   offset |-> IF sequence.repeat = 0 THEN sequence.offset ELSE 0,
   repeat |-> sequence.repeat]

\* Every part of a view gives back, at every index, the sequence that was
\* pushed, with lengths of more than sixteen bits; and so does the encoder, which
\* reads the records itself (compact_sequence_view, encoded_sequence_at).
ReadsBack ==
  /\ \A begin \in 0..Len(records), at \in 1..Len(records) :
       begin + at <= Len(records) => Entry(begin, at) = Logical(sequences[begin + at])
  /\ \A at \in 1..Len(records) :
       /\ EncodedAt(at).literal = sequences[at].literal
       /\ EncodedAt(at).match = sequences[at].match

\* While the encoder walks the records it stands where the parser found each
\* sequence to begin, and ends where the trailing literals begin
\* (encode_sequences_block, literal_position).
EncoderInStep ==
  phase = "encode" =>
    position = IF index <= Len(records) THEN sequences[index].begin ELSE anchor

\* The one place for an exception is never taken twice: push_back finds it free
\* when it needs it (its second assertion).
OneException ==
  [][exception' # exception => exception = 0 \/ exception' = 0]_vars
=============================================================================
