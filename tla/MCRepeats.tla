------------------------------ MODULE MCRepeats ------------------------------
(***************************************************************************)
(* FastRepeatHistory and LazyRepeatHistory under the same bounds: a        *)
(* behaviour is one of either strategy, with a window shorter than the     *)
(* frame, so that old distances go out of reach.                           *)
(***************************************************************************)
EXTENDS LazyRepeatHistory

VARIABLE lazy   \* the strategy is greedy or above, and not fast or double_fast

MCInit == Init /\ lazy \in BOOLEAN

Fast == ~lazy /\ UNCHANGED lazy
Lazy == lazy /\ UNCHANGED lazy

\* Next where lazy is false and LazyNext where it is true, one disjunct per action.
MCNext ==
  \/ Fast /\ \E size \in BlockSizes : BeginBlock(size)
  \/ Fast /\ \E size \in BlockSizes : RunShortcut(size)
  \/ Fast /\ \E at \in anchor..end : \E back \in 0..(at - anchor), offset \in 1..at,
       length \in MinMatch..(end - anchor) : ExplicitMatch(at, back, length, offset)
  \/ Fast /\ \E at \in anchor..end, back \in {0, 1}, length \in MinMatch..(end - anchor) :
       RepeatMatch(at, back, length)
  \/ Fast /\ \E length \in MinMatch..(end - anchor) : ImmediateRepeat(length)
  \/ Lazy /\ \E size \in BlockSizes : BeginLazyBlock(size)
  \/ Lazy /\ \E size \in BlockSizes, form \in RunForms : FirstRun(size, form)
  \/ Lazy /\ \E at \in Position..end : \E back \in 0..(at - anchor), offset \in 1..at,
       length \in MinMatch..(end - anchor) : SearchedMatch(at, back, length, offset)
  \/ Lazy /\ \E at \in Position..end, length \in MinMatch..(end - anchor) :
       RepeatedMatch(at, length)
  \/ Lazy /\ \E length \in MinMatch..(end - anchor) : RepeatAtOnce(length)
  \/ UNCHANGED lazy /\ \E size \in BlockSizes : SkipBlock(size)
  \/ UNCHANGED lazy /\ SendBlock
  \/ UNCHANGED lazy /\ DropBlock
  \/ UNCHANGED lazy /\ NewFrame

MCSpec == MCInit /\ [][MCNext]_<<vars, lazy>>

\* Between blocks each parser keeps the two distances the decoder would repeat
\* (repeat_offsets_ on both sides), the lazy ones but for a run.
HistoriesFollow == IF lazy THEN OnlyRunsDiffer ELSE HistoryFollows

\* The inductive invariant of either strategy.
RepeatsInv == /\ lazy \in BOOLEAN
              /\ ~lazy => FastInv
              /\ lazy => LazyInv
=============================================================================
