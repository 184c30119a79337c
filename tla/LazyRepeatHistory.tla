-------------------------- MODULE LazyRepeatHistory --------------------------
(***************************************************************************)
(* The repeat offsets of greedy, lazy, lazy2 and btlazy2, whose parse      *)
(* keeps two distances as the fast parsers do, with three differences: the *)
(* window is that of the first position searched, a match may be replaced  *)
(* by one found further on, and a first block that is one run is written   *)
(* down with a new offset by some of them and with a repeat code by the    *)
(* others, after which all of them start from the initial history.         *)
(*                                                                         *)
(* Abstractions, besides those of FastRepeatHistory.  Which of the matches *)
(* that are looked at ahead wins is a choice, so that depths need not be   *)
(* told apart.  Of the bytes it is only kept that a match ends where they  *)
(* stop repeating at its distance.                                         *)
(***************************************************************************)
EXTENDS FastRepeatHistory

CONSTANTS
  LongRun,   \* bytes of the shortest run that is written down without a search
  RunForms   \* how the sequence of that run is written: "repeat" by greedy and
             \* btlazy2, "offset" by lazy and lazy2; with rows there is none

ASSUME RunAssumption ==
  /\ LongRun \in Nat /\ LongRun >= MinMatch + 2
  /\ RunForms \subseteq {"repeat", "offset"}

\* Where the search of a block starts.
FirstSearched(blockBegin) == IF blockBegin = 0 THEN 1 ELSE blockBegin

\* maximum_repeat
InWindow(offset, blockBegin) ==
  offset <= IF FirstSearched(blockBegin) > Window THEN Window ELSE FirstSearched(blockBegin)

BeginLazyBlock(size) ==
  /\ ~parsing /\ end + size <= MaxInput
  /\ parsing' = TRUE /\ matched' = FALSE
  /\ begin' = end /\ end' = end + size /\ anchor' = end
  /\ repeatOne' = (IF InWindow(kept[1], end) THEN kept[1] ELSE 0)
  /\ savedOne'  = (IF InWindow(kept[1], end) THEN 0 ELSE kept[1])
  /\ repeatTwo' = (IF InWindow(kept[2], end) THEN kept[2] ELSE 0)
  /\ savedTwo'  = (IF InWindow(kept[2], end) THEN 0 ELSE kept[2])
  /\ decoding' = decoder
  /\ UNCHANGED <<kept, decoder, lastMatch, diverged>>

\* Where the scan stands when it looks for its next match.
Position == IF anchor = begin THEN FirstSearched(begin) ELSE anchor

\* find_best_match: a distance inside the window and the frame.
FoundAt(at, offset) == offset \in 1..at /\ offset <= Window

\* A match that was searched for, here or ahead, wins; it is extended back over
\* the bytes before it, as far as the frame goes.
SearchedMatch(at, back, length, offset) ==
  /\ parsing /\ Position <= at /\ at - back >= anchor
  /\ FoundAt(at, offset) /\ at - offset - back >= 0
  /\ Store(at - back, length, offset, NewOffsetBase(offset), at - back = anchor)
  /\ repeatOne' = offset /\ repeatTwo' = repeatOne
  /\ UNCHANGED <<parsing, begin, end, savedOne, savedTwo, kept>>

\* A match at the first distance wins: it was probed at least a byte ahead of
\* the scan, and is not extended back.
RepeatedMatch(at, length) ==
  /\ parsing /\ repeatOne # 0 /\ Position < at
  /\ Store(at, length, repeatOne, 1, FALSE)
  /\ UNCHANGED <<parsing, begin, end, repeatOne, repeatTwo, savedOne, savedTwo, kept>>

\* The last match ended where the byte differs from the one its distance back,
\* and from those any number of distances back that it covers.
EndsPeriod(distance) ==
  LET covered == anchor - lastMatch.at + lastMatch.meant
  IN  distance % lastMatch.meant = 0 /\ distance <= covered

RepeatAtOnce(length) ==
  /\ matched /\ ~EndsPeriod(repeatTwo)
  /\ ImmediateRepeat(length)

\* Mutant: the history after a run is taken to be older than it is.
RunForgotten(size, form) ==
  /\ ~parsing /\ end = 0 /\ size >= LongRun /\ size <= MaxInput
  /\ begin' = 0 /\ end' = size /\ anchor' = size /\ matched' = TRUE
  /\ LET at   == IF form = "repeat" THEN 2 ELSE 1
         turn == DecodeOffset(decoder, IF form = "repeat" THEN 1 ELSE NewOffsetBase(1), FALSE)
     IN  /\ decoder' = turn.repeats /\ decoding' = turn.repeats
         /\ lastMatch' = [at |-> at, meant |-> 1, decoded |-> turn.offset]
  /\ kept' = <<InitialRepeats[2], InitialRepeats[3]>>
  /\ UNCHANGED <<parsing, repeatOne, repeatTwo, savedOne, savedTwo, diverged>>

\* The first block is one run.  A later one is sent as RLE without a parse.
FirstRun(size, form) ==
  /\ ~parsing /\ end = 0 /\ size >= LongRun /\ size <= MaxInput
  /\ begin' = 0 /\ end' = size /\ anchor' = size /\ matched' = TRUE
  /\ LET at   == IF form = "repeat" THEN 2 ELSE 1
         turn == DecodeOffset(decoder, IF form = "repeat" THEN 1 ELSE NewOffsetBase(1), FALSE)
     IN  /\ decoder' = turn.repeats /\ decoding' = turn.repeats
         /\ lastMatch' = [at |-> at, meant |-> 1, decoded |-> turn.offset]
  /\ kept' = <<InitialRepeats[1], InitialRepeats[2]>>
  /\ UNCHANGED <<parsing, repeatOne, repeatTwo, savedOne, savedTwo, diverged>>

LazyNext ==
  \/ \E size \in BlockSizes : BeginLazyBlock(size) \/ SkipBlock(size)
  \/ \E size \in BlockSizes, form \in RunForms : FirstRun(size, form)
  \/ \E at \in Position..end : \E back \in 0..(at - anchor), offset \in 1..at,
        length \in MinMatch..(end - anchor) : SearchedMatch(at, back, length, offset)
  \/ \E at \in Position..end, length \in MinMatch..(end - anchor) : RepeatedMatch(at, length)
  \/ \E length \in MinMatch..(end - anchor) : RepeatAtOnce(length)
  \/ SendBlock \/ DropBlock
  \/ NewFrame

LazySpec == Init /\ [][LazyNext]_vars

----------------------------------------------------------------------------
\* Between blocks the parser keeps the two distances the decoder would repeat,
\* but for the second after a run: the decoder has the run's distance twice and
\* the parser a 4 behind it.  MatchesDecodeAsParsed says that this 4 is never
\* named: right behind a match of distance 1 no match of distance 4 begins, and
\* any other match takes its place (parse, repeat_offsets_).
OnlyRunsDiffer ==
  ~parsing /\ ~diverged =>
    /\ kept[1] = decoder[1]
    /\ kept[2] # decoder[2] => kept = <<1, 4>> /\ decoder = <<1, 1, 4>>

----------------------------------------------------------------------------
(* The inductive invariant.  In a block the decoder's history is what the  *)
(* parser holds and has put aside, or the block has so far only repeated   *)
(* the distance of the run before it.                                      *)

\* Only the run's distance was met since: what is repeated is a 1, and the 4 the
\* decoder does not have is still second, in use or put aside.
OnlyTheRun ==
  /\ repeatOne = 1 /\ repeatTwo \in {0, 4}
  /\ Restored = <<1, 4>> /\ decoding = <<1, 1, 4>>
  /\ matched => lastMatch.meant = 1

LazyHistoryHeld ==
  parsing /\ ~diverged => Restored = <<decoding[1], decoding[2]>> \/ OnlyTheRun

\* A match is not shorter than the shortest one, and the last sequence ends with it.
MatchBehind == parsing /\ matched => lastMatch.at + MinMatch <= anchor

LazyInv ==
  /\ TypeOK /\ FreshFrame
  /\ MatchesDecodeAsParsed /\ MatchesInWindow /\ OnlyRunsDiffer
  /\ LazyHistoryHeld /\ MatchBehind /\ PutAside /\ InReach
=============================================================================
