------------------------------ MODULE MatchIndex ------------------------------
(***************************************************************************)
(* The hash tables of the fast and double_fast parsers.  A position is     *)
(* stored as an index, counted from a base that every frame moves on, so   *)
(* that a reused table needs no clearing: what an earlier frame left is    *)
(* below the lowest index a search accepts.  Indexes are narrow integers;  *)
(* reset() clears the table before they run out, and a long frame is       *)
(* rebased in place (ensure_index_headroom).                               *)
(*                                                                         *)
(* double_fast has two tables, LongSlots and ShortSlots; fast has only the *)
(* second.                                                                 *)
(*                                                                         *)
(* Abstractions.  Which slot a position hashes to is a choice, and so is   *)
(* whether the bytes at a candidate are equal; a search may go up to the   *)
(* last position that can be hashed, which fast leaves a little earlier.   *)
(* Beside its index a slot has the position that was put there in this     *)
(* frame, which the code does not know.                                    *)
(***************************************************************************)
EXTENDS Integers

CONSTANTS
  LongSlots,    \* slots of long_table_; none for the fast parser
  ShortSlots,   \* slots of short_table_, or of hash_table_
  MaxIndex,     \* the largest index: 2^32 - 1, or 2^24 - 1 in compact tables
  WindowSize,       \* 1 << window_log
  ReadSize,     \* hash_read_size
  MinMatch,     \* the bytes a match has at least
  BlockLengths,   \* sizes of blocks
  MaxGap,       \* bound: distance from one probe to the next
  MaxInput      \* bound: bytes of a frame

Bias == 2

ASSUME IndexAssumption ==
  /\ LongSlots \cap ShortSlots = {} /\ ShortSlots # {}
  /\ MaxIndex \in Nat /\ MaxIndex > Bias
  /\ WindowSize \in Nat \ {0}
  /\ ReadSize \in Nat \ {0}
  /\ MinMatch \in Nat /\ MinMatch >= 4
  /\ BlockLengths \subseteq Nat \ {0}
  /\ MaxGap \in Nat /\ MaxInput \in Nat

Slots == LongSlots \cup ShortSlots
DoubleFast == LongSlots # {}

\* The slots in which one position is recorded together.
Places ==
  IF DoubleFast THEN {{l, s} : l \in LongSlots, s \in ShortSlots}
  ELSE {{s} : s \in ShortSlots}

\* The table that is also given the position after a match's probe.
AheadSlots == IF DoubleFast THEN LongSlots ELSE ShortSlots

NoPosition == -1
NoMatch == [at |-> NoPosition, from |-> NoPosition, holds |-> NoPosition]

VARIABLES
  base,       \* frame_index_base_
  extent,     \* frame_extent_
  entries,    \* the slots: their index, and the position they hold
  parsing,    \* inside parse()
  begin, end, \* block_begin, block_end; between blocks, the end of the last
  anchor,     \* the end of the last match of the block, or its first byte
  cursor,     \* position
  lastMatch   \* the match the last step took from a table

indexVars == <<base, extent, entries, parsing, begin, end, anchor, cursor, lastMatch>>

Empty == [index |-> 0, holds |-> NoPosition]

IndexInit ==
  /\ base = 0 /\ extent = 0
  /\ entries = [s \in Slots |-> Empty]
  /\ parsing = FALSE /\ begin = 0 /\ end = 0 /\ anchor = 0 /\ cursor = 0
  /\ lastMatch = NoMatch

----------------------------------------------------------------------------
Larger(a, b) == IF a > b THEN a ELSE b

PrefixStart == IF end > WindowSize THEN end - WindowSize ELSE 0
Limit == end - ReadSize

\* A sum as the table's integers hold it; it is never twice too large.
Wrapped(n) == IF n <= MaxIndex THEN n ELSE n - (MaxIndex + 1)

Index(position) == Wrapped(base + position + Bias)

\* The lowest index a search accepts, and what an accepted one stands for.
Lowest == base + PrefixStart + Bias
Unbiased(index) == index - base - Bias

\* The slots of place are given a position.
Put(slots, place, position) ==
  [s \in Slots |-> IF s \in place THEN [index |-> Index(position), holds |-> position]
                   ELSE slots[s]]

----------------------------------------------------------------------------
(* reset() and ensure_index_headroom.                                      *)

Forgotten(slots) == [s \in Slots |-> [slots[s] EXCEPT !.holds = NoPosition]]

\* Mutant: the next frame starts again from the indexes of this one.
SameBase == base

\* Past everything this frame stored, and a window more.
NextBase == base + extent + Bias + WindowSize

ResetTables ==
  /\ IF NextBase + WindowSize + Bias > MaxIndex
     THEN base' = 0 /\ entries' = [s \in Slots |-> Empty]
     ELSE base' = NextBase /\ entries' = Forgotten(entries)
  /\ extent' = 0
  /\ parsing' = FALSE /\ begin' = 0 /\ end' = 0 /\ anchor' = 0 /\ cursor' = 0
  /\ lastMatch' = NoMatch

\* This frame's entries keep their positions, earlier frames' become empty.
Rebased(e) == [e EXCEPT !.index = IF @ >= base + Bias THEN @ - base ELSE 0]

\* Mutant: room is made only when the base itself is too large.
BaseHasRoom(blockEnd) == base <= MaxIndex

HasRoom(blockEnd) == base + blockEnd + Bias <= MaxIndex

Headroom(blockEnd) ==
  IF HasRoom(blockEnd) THEN UNCHANGED <<base, entries>>
  ELSE base' = 0 /\ entries' = [s \in Slots |-> Rebased(entries[s])]

\* A block that ends where no index can follow is refused with an exception
\* before anything changes.
BeginBlock(size) ==
  /\ ~parsing /\ end + size <= MaxInput
  /\ size >= ReadSize /\ end + size <= MaxIndex - Bias
  /\ Headroom(end + size)
  /\ extent' = Larger(extent, end + size)
  /\ parsing' = TRUE /\ begin' = end /\ end' = end + size /\ anchor' = end
  /\ LET prefixStart == IF end + size > WindowSize THEN end + size - WindowSize ELSE 0
     IN  cursor' = IF end = prefixStart THEN end + 1 ELSE end
  /\ lastMatch' = NoMatch

\* A block shorter than a hash is not looked at.
SkipBlock(size) ==
  /\ ~parsing /\ end + size <= MaxInput /\ size < ReadSize
  /\ begin' = end /\ end' = end + size /\ lastMatch' = NoMatch
  /\ UNCHANGED <<base, extent, entries, parsing, anchor, cursor>>

\* The first block is one long run: nothing is recorded.
RunShortcut(size) ==
  /\ ~parsing /\ end = 0 /\ size <= MaxInput
  /\ size >= ReadSize /\ size <= MaxIndex - Bias
  /\ Headroom(size)
  /\ extent' = Larger(extent, size)
  /\ begin' = 0 /\ end' = size /\ lastMatch' = NoMatch
  /\ UNCHANGED <<parsing, anchor, cursor>>

----------------------------------------------------------------------------
(* The search.  cursor is the position whose hash is looked up; `gap` is   *)
(* the way to the next probe.                                              *)

Searching(gap) == parsing /\ cursor + gap <= Limit

\* The position is recorded whatever comes of it.
Probe(place, gap) ==
  /\ Searching(gap)
  /\ entries' = Put(entries, place, cursor)
  /\ cursor' = cursor + gap /\ lastMatch' = NoMatch
  /\ UNCHANGED <<base, extent, parsing, begin, end, anchor>>

\* After a match, when there is room for another: the third byte of what was
\* probed is recorded, and the last bytes of the match.
AfterMatch(slots, next) ==
  IF next > Limit THEN entries' = slots
  ELSE \E place \in Places, s \in ShortSlots :
         LET third == Put(slots, place, cursor + 2)
         IN  IF DoubleFast
             THEN \E l \in LongSlots :
                    entries' = Put(Put(third, {l}, next - 2), {s}, next - 1)
             ELSE entries' = Put(third, {s}, next - 2)

\* Mutant: the next probe's position is recorded however far it is.
AlwaysAhead(gap) == TRUE

\* `step <= 4` in one parser and `step < 4` in the other: what is recorded ahead
\* of a match has to lie inside it.
RecordedAhead(gap) == gap < 4

\* The tables after a match that ends at next.
RecordMatch(place, gap, next) ==
  LET probed == Put(entries, place, cursor)
  IN  IF RecordedAhead(gap)
      THEN \E s \in AheadSlots : AfterMatch(Put(probed, {s}, cursor + gap), next)
      ELSE AfterMatch(probed, next)

\* A candidate is what the slot had before the position was recorded there.
Match(place, slot, gap, length) ==
  /\ Searching(gap) /\ slot \in place
  /\ entries[slot].index >= Lowest
  /\ length >= MinMatch /\ cursor + length <= end
  /\ lastMatch' = [at |-> cursor, from |-> Unbiased(entries[slot].index),
                   holds |-> entries[slot].holds]
  /\ RecordMatch(place, gap, cursor + length)
  /\ cursor' = cursor + length /\ anchor' = cursor + length
  /\ UNCHANGED <<base, extent, parsing, begin, end>>

\* double_fast: a short match gives way to a long one at the next probe, whose
\* candidate may be the position just recorded.
NextMatch(place, slot, gap, length) ==
  /\ DoubleFast /\ Searching(gap) /\ slot \in LongSlots
  /\ \E short \in place \cap ShortSlots : entries[short].index >= Lowest
  /\ LET candidate == Put(entries, place, cursor)[slot]
     IN  /\ candidate.index > Lowest
         /\ lastMatch' = [at |-> cursor + gap, from |-> Unbiased(candidate.index),
                          holds |-> candidate.holds]
  /\ length > MinMatch /\ cursor + gap + length <= end
  /\ RecordMatch(place, gap, cursor + gap + length)
  /\ cursor' = cursor + gap + length /\ anchor' = cursor + gap + length
  /\ UNCHANGED <<base, extent, parsing, begin, end>>

\* A repeat offset: double_fast looks one byte ahead and records nothing there,
\* fast looks `gap` bytes ahead and records the byte after the probe.
RepeatMatch(place, gap, length) ==
  /\ Searching(gap) /\ IF DoubleFast THEN gap = 1 ELSE gap >= 2
  /\ length >= MinMatch /\ cursor + gap + length <= end
  /\ LET probed == Put(entries, place, cursor)
     IN  IF DoubleFast THEN AfterMatch(probed, cursor + gap + length)
         ELSE \E s \in ShortSlots :
                AfterMatch(Put(probed, {s}, cursor + 1), cursor + gap + length)
  /\ cursor' = cursor + gap + length /\ anchor' = cursor + gap + length
  /\ lastMatch' = NoMatch
  /\ UNCHANGED <<base, extent, parsing, begin, end>>

\* The other repeat offset, right after a match.
ImmediateRepeat(place, length) ==
  /\ parsing /\ cursor = anchor /\ begin < anchor /\ cursor <= Limit
  /\ length >= MinMatch /\ cursor + length <= end
  /\ entries' = Put(entries, place, cursor)
  /\ cursor' = cursor + length /\ anchor' = cursor + length
  /\ lastMatch' = NoMatch
  /\ UNCHANGED <<base, extent, parsing, begin, end>>

EndBlock ==
  /\ parsing /\ parsing' = FALSE
  /\ lastMatch' = NoMatch
  /\ UNCHANGED <<base, extent, entries, begin, end, anchor, cursor>>

IndexNext ==
  \/ \E size \in BlockLengths : BeginBlock(size) \/ SkipBlock(size) \/ RunShortcut(size)
  \/ \E place \in Places, gap \in 1..MaxGap :
       \/ Probe(place, gap)
       \/ \E length \in 1..(end - begin) :
            \/ \E slot \in Slots : Match(place, slot, gap, length)
                                   \/ NextMatch(place, slot, gap, length)
            \/ RepeatMatch(place, gap, length)
  \/ \E place \in Places, length \in 1..(end - begin) : ImmediateRepeat(place, length)
  \/ EndBlock
  \/ ResetTables

IndexSpec == IndexInit /\ [][IndexNext]_indexVars

----------------------------------------------------------------------------
IndexTypeOK ==
  /\ base \in 0..MaxIndex /\ extent \in 0..MaxIndex
  /\ entries \in [Slots -> [index : 0..MaxIndex, holds : Nat \cup {NoPosition}]]
  /\ parsing \in BOOLEAN
  /\ begin \in Nat /\ end \in Nat /\ anchor \in Nat /\ cursor \in Nat
  /\ lastMatch \in [at : Nat \cup {NoPosition}, from : Int, holds : Nat \cup {NoPosition}]

\* The position a search would see in a slot, were the window no limit.
Seen(e) == IF e.index >= base + Bias THEN Unbiased(e.index) ELSE NoPosition

\* What a search sees is what was recorded in this frame: nothing of an earlier
\* frame comes back, and no rebasing loses or moves a position of this one
\* (reset, ensure_index_headroom).
TablesHoldThisFrame == \A s \in Slots : Seen(entries[s]) = entries[s].holds

\* A match is taken from the position its slot was given, which lies before the
\* match and inside the window (matches, valid, the limits on recording ahead).
MatchesPointBack ==
  lastMatch # NoMatch =>
    /\ lastMatch.from = lastMatch.holds
    /\ lastMatch.holds \in 0..(lastMatch.at - 1)
    /\ lastMatch.at - lastMatch.holds <= WindowSize

----------------------------------------------------------------------------
(* The inductive invariant.                                                *)

\* Positions before this one may have been recorded.
Frontier == IF parsing THEN cursor ELSE end

\* Every index is below what extent promises to the next frame.
IndexesFit ==
  /\ base + extent + Bias <= MaxIndex
  /\ parsing => end <= extent /\ begin < end
  /\ parsing => begin <= anchor /\ anchor <= cursor /\ cursor <= end /\ begin <= cursor
  /\ \A s \in Slots : entries[s].index < base + extent + Bias

PositionsPrecede ==
  \A s \in Slots : entries[s].holds < Frontier \/ entries[s].holds = NoPosition

IndexInv == IndexTypeOK /\ TablesHoldThisFrame /\ MatchesPointBack /\ IndexesFit /\ PositionsPrecede
=============================================================================
