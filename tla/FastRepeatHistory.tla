-------------------------- MODULE FastRepeatHistory --------------------------
(***************************************************************************)
(* The repeat offsets of the fast and double_fast strategies (parse of     *)
(* both match states, which share this logic line by line).  The           *)
(* parser keeps two distances, puts those that reach before the window     *)
(* aside while it parses a block, and puts them back in an order that has  *)
(* to be the decoder's.  It names one only by repeat code 1, so the third  *)
(* entry of the decoder's history is never used.                           *)
(*                                                                         *)
(* Abstractions.  Which matches the hash table finds is a choice; a match  *)
(* is a position, a length and a distance.  Positions are those of the     *)
(* frame.                                                                  *)
(***************************************************************************)
EXTENDS RepeatOffsets

CONSTANTS
  Window,       \* 1 << window_log
  BlockSizes,   \* sizes of blocks
  MinMatch,     \* the shortest match
  RepeatAhead,  \* how far ahead of the search the repeat distance is probed at
                \* least: 2 in fast, 1 in double_fast
  MaxInput      \* bound: bytes of a frame

\* equal_four makes a match of four bytes; window_log is ten or more.  Nothing
\* keeps a block from being longer than the window.
ASSUME ConstantsAssumption ==
  /\ Window \in Nat /\ Window >= 4
  /\ MinMatch \in Nat /\ MinMatch >= 4
  /\ RepeatAhead \in {1, 2}
  /\ BlockSizes \subseteq Nat \ {0}
  /\ MaxInput \in Nat

VARIABLES
  parsing,      \* inside parse()
  begin,        \* block_begin
  end,          \* block_end
  anchor,       \* the end of the last match of the block
  matched,      \* the block has a sequence
  repeatOne, repeatTwo,  \* repeat_one, repeat_two
  savedOne, savedTwo,    \* saved_one, saved_two
  kept,         \* repeat_offsets_, the first two
  decoder,      \* the decoder's repeat_offsets_
  decoding,     \* ... once it has read the block's sequences so far
  lastMatch,    \* where the last match is, how far back the parser meant it to
                \* reach, and what the decoder makes of it
  diverged      \* a block with sequences was sent raw or RLE in this frame

vars == <<parsing, begin, end, anchor, matched, repeatOne, repeatTwo, savedOne,
          savedTwo, kept, decoder, decoding, lastMatch, diverged>>

NoMatch == [at |-> 0, meant |-> 0, decoded |-> 0]

Init ==
  /\ parsing = FALSE /\ begin = 0 /\ end = 0 /\ anchor = 0 /\ matched = FALSE
  /\ repeatOne = 0 /\ repeatTwo = 0 /\ savedOne = 0 /\ savedTwo = 0
  /\ kept = <<InitialRepeats[1], InitialRepeats[2]>>
  /\ decoder = InitialRepeats /\ decoding = InitialRepeats
  /\ lastMatch = NoMatch /\ diverged = FALSE

----------------------------------------------------------------------------
\* Mutant: the window is not looked at.
WholeInput(blockEnd) == 0

\* The first position of the input a match of this block may refer to.
PrefixStart(blockEnd) == IF blockEnd > Window THEN blockEnd - Window ELSE 0

\* Searching starts one byte later when nothing precedes the block.
FirstPosition(blockBegin, blockEnd) ==
  IF blockBegin = PrefixStart(blockEnd) THEN blockBegin + 1 ELSE blockBegin

\* maximum_repeat is unsigned: when the block is longer than the window, and
\* starts before it, the difference wraps and every distance is in reach.
Reaches(offset, blockBegin, blockEnd) ==
  LET first == FirstPosition(blockBegin, blockEnd)
  IN  first < PrefixStart(blockEnd) \/ offset <= first - PrefixStart(blockEnd)

\* A distance that is out of reach is put aside, and zero stands for it.
Within(offset, blockEnd)  == IF Reaches(offset, end, blockEnd) THEN offset ELSE 0
Outside(offset, blockEnd) == IF Reaches(offset, end, blockEnd) THEN 0 ELSE offset

BeginBlock(size) ==
  /\ ~parsing /\ end + size <= MaxInput
  /\ parsing' = TRUE /\ matched' = FALSE
  /\ begin' = end /\ end' = end + size /\ anchor' = end
  /\ repeatOne' = Within(kept[1], end + size) /\ savedOne' = Outside(kept[1], end + size)
  /\ repeatTwo' = Within(kept[2], end + size) /\ savedTwo' = Outside(kept[2], end + size)
  /\ decoding' = decoder
  /\ UNCHANGED <<kept, decoder, lastMatch, diverged>>

\* A block too short to be searched, or without sequences sent raw.
SkipBlock(size) ==
  /\ ~parsing /\ end + size <= MaxInput
  /\ begin' = end /\ end' = end + size /\ anchor' = end /\ matched' = FALSE
  /\ UNCHANGED <<parsing, repeatOne, repeatTwo, savedOne, savedTwo, kept,
                 decoder, decoding, lastMatch, diverged>>

\* The sequence of a match at `at` that reaches back `offset` bytes is stored,
\* and a decoder will read it with the offset base it is sent with.
Store(at, length, offset, base, noLiterals) ==
  LET turn == DecodeOffset(decoding, base, noLiterals)
  IN  /\ at + length <= end /\ length >= MinMatch
      /\ decoding' = turn.repeats
      /\ lastMatch' = [at |-> at, meant |-> offset, decoded |-> turn.offset]
      /\ anchor' = at + length
      /\ matched' = TRUE
      /\ UNCHANGED <<decoder, diverged>>

SearchStart ==
  IF anchor = begin THEN FirstPosition(begin, end) ELSE anchor

\* A match from the hash table, found at `at`, extended back by `back` bytes.
ExplicitMatch(at, back, length, offset) ==
  /\ parsing /\ SearchStart <= at
  /\ at - back >= anchor
  /\ offset > 0 /\ at - offset - back >= PrefixStart(end)
  /\ Store(at - back, length, offset, NewOffsetBase(offset), at - back = anchor)
  /\ repeatOne' = offset /\ repeatTwo' = repeatOne
  /\ UNCHANGED <<parsing, begin, end, savedOne, savedTwo, kept>>

\* The repeat distance is probed ahead of the search, and the match may be
\* extended back by one, which double_fast does not try.
RepeatMatch(at, back, length) ==
  /\ parsing /\ repeatOne # 0
  /\ SearchStart + RepeatAhead <= at /\ back < RepeatAhead
  /\ back = 1 => at - repeatOne > PrefixStart(end)
  /\ Store(at - back, length, repeatOne, 1, FALSE)
  /\ UNCHANGED <<parsing, begin, end, repeatOne, repeatTwo, savedOne, savedTwo, kept>>

\* Mutant: the two distances are not swapped.
ImmediateWithoutSwap(length) ==
  /\ parsing /\ matched /\ repeatTwo # 0
  /\ Store(anchor, length, repeatTwo, 1, TRUE)
  /\ UNCHANGED <<parsing, begin, end, repeatOne, repeatTwo, savedOne, savedTwo, kept>>

\* Right after a match the other distance is tried: a sequence of no literals.
ImmediateRepeat(length) ==
  /\ parsing /\ matched /\ repeatTwo # 0
  /\ Store(anchor, length, repeatTwo, 1, TRUE)
  /\ repeatOne' = repeatTwo /\ repeatTwo' = repeatOne
  /\ UNCHANGED <<parsing, begin, end, savedOne, savedTwo, kept>>

\* Mutant: what was put aside is lost.
NothingRestored == <<repeatOne, repeatTwo>>

\* Mutant: the second distance put aside is put back whatever was found.
RestoredAsSaved ==
  <<IF repeatOne # 0 THEN repeatOne ELSE savedOne,
    IF repeatTwo # 0 THEN repeatTwo ELSE savedTwo>>

\* What was put aside comes back; if the first was and a match was found, it
\* is the second by now.
Restored ==
  LET second == IF savedOne # 0 /\ repeatOne # 0 THEN savedOne ELSE savedTwo
  IN  <<IF repeatOne # 0 THEN repeatOne ELSE savedOne,
        IF repeatTwo # 0 THEN repeatTwo ELSE second>>

EndBlock ==
  /\ parsing
  /\ parsing' = FALSE /\ kept' = Restored
  /\ UNCHANGED <<begin, end, anchor, matched, repeatOne, repeatTwo, savedOne, savedTwo,
                 decoding, lastMatch>>

\* The block is sent compressed, or had no sequences.
SendBlock == EndBlock /\ decoder' = decoding /\ UNCHANGED diverged

\* emit_block drops the encoding of a block with sequences, and the decoder never
\* sees them.  What the parser keeps is not put back.
DropBlock == EndBlock /\ matched /\ diverged' = TRUE /\ UNCHANGED decoder

\* The first block of a frame is one long run: its only sequence is written
\* down without a search, and the initial history kept.
RunShortcut(size) ==
  /\ ~parsing /\ end = 0 /\ size > 2 /\ size - 2 >= MinMatch /\ size <= MaxInput
  /\ begin' = 0 /\ end' = size /\ anchor' = size /\ matched' = TRUE
  /\ LET turn == DecodeOffset(decoder, 1, FALSE)
     IN  /\ decoder' = turn.repeats /\ decoding' = turn.repeats
         /\ lastMatch' = [at |-> 2, meant |-> 1, decoded |-> turn.offset]
  /\ kept' = <<InitialRepeats[1], InitialRepeats[2]>>
  /\ UNCHANGED <<parsing, repeatOne, repeatTwo, savedOne, savedTwo, diverged>>

\* reset(), and the decoder's next frame header.
NewFrame ==
  /\ ~parsing /\ end > 0
  /\ begin' = 0 /\ end' = 0 /\ anchor' = 0 /\ matched' = FALSE
  /\ kept' = <<InitialRepeats[1], InitialRepeats[2]>>
  /\ decoder' = InitialRepeats /\ decoding' = InitialRepeats
  /\ lastMatch' = NoMatch /\ diverged' = FALSE
  /\ UNCHANGED <<parsing, repeatOne, repeatTwo, savedOne, savedTwo>>

Next ==
  \/ \E size \in BlockSizes : BeginBlock(size) \/ SkipBlock(size) \/ RunShortcut(size)
  \/ \E at \in begin..end, back \in 0..(end - begin), length \in 1..(end - begin),
        offset \in 1..end : ExplicitMatch(at, back, length, offset)
  \/ \E at \in begin..end, back \in {0, 1}, length \in 1..(end - begin) :
        RepeatMatch(at, back, length)
  \/ \E length \in 1..(end - begin) : ImmediateRepeat(length)
  \/ SendBlock \/ DropBlock
  \/ NewFrame

Spec == Init /\ [][Next]_vars

----------------------------------------------------------------------------
Flags == parsing \in BOOLEAN /\ matched \in BOOLEAN /\ diverged \in BOOLEAN

TypeOK ==
  /\ Flags
  /\ begin \in Nat /\ end \in Nat /\ anchor \in Nat
  /\ begin <= anchor /\ anchor <= end
  /\ repeatOne \in Nat /\ repeatTwo \in Nat /\ savedOne \in Nat /\ savedTwo \in Nat
  /\ kept \in (Nat \ {0}) \X (Nat \ {0})
  /\ decoder \in ParserHistories /\ decoding \in ParserHistories
  /\ lastMatch \in [at : Nat, meant : Nat, decoded : Nat]

\* As long as no block with sequences was sent raw or RLE in this frame, the
\* decoder copies every match from the distance the parser meant, repeat codes
\* included (parse, decode_sequences_impl).
MatchesDecodeAsParsed == ~diverged => lastMatch.decoded = lastMatch.meant

\* No match reaches further back than the window, nor before the first byte of
\* the frame, however old the repeated distance is (prefix_start, maximum_repeat).
MatchesInWindow ==
  matched => /\ lastMatch.meant \in 1..Window
             /\ lastMatch.meant <= lastMatch.at

\* Under the same condition, between blocks the parser keeps the two distances
\* the decoder would repeat (repeat_offsets_ on both sides).
HistoryFollows ==
  ~parsing /\ ~diverged => kept = <<decoder[1], decoder[2]>>

----------------------------------------------------------------------------
(* The inductive invariant: in a block, the decoder's history is what the  *)
(* parser holds and what it has put aside, in that order.                  *)

HistoryHeld ==
  parsing /\ ~diverged => Restored = <<decoding[1], decoding[2]>>

PutAside ==
  parsing =>
    /\ repeatOne = 0 => savedOne # 0 /\ ~matched
    /\ repeatTwo = 0 => savedTwo # 0 \/ (savedOne # 0 /\ matched)
    /\ ~matched => anchor = begin
    /\ matched => anchor > begin /\ (repeatTwo # 0 => repeatOne # 0)

\* Before the block's first match the first distance is met at least a byte into
\* the block, and the second only after a match.
InReach ==
  /\ repeatOne <= Window /\ savedOne <= Window /\ kept[1] <= Window
  /\ repeatTwo <= Window /\ savedTwo <= Window /\ kept[2] <= Window
  /\ ~parsing => kept[1] <= end + 1 /\ kept[2] <= end + 4
  /\ parsing => IF matched THEN repeatOne <= anchor /\ repeatTwo <= anchor
                           ELSE repeatOne <= begin + 1 /\ repeatTwo <= begin + 4
  /\ parsing => savedOne <= begin + 1 /\ savedTwo <= begin + 4

FreshFrame ==
  /\ parsing => begin < end
  /\ end = 0 => decoder = InitialRepeats

FastInv ==
  /\ TypeOK /\ FreshFrame
  /\ MatchesDecodeAsParsed /\ MatchesInWindow /\ HistoryFollows
  /\ HistoryHeld /\ PutAside /\ InReach
=============================================================================
