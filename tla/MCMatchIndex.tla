---------------------------- MODULE MCMatchIndex ----------------------------
(***************************************************************************)
(* MatchIndex with few indexes, so that a frame or two exhaust them.  The  *)
(* slots of a table are interchangeable.                                   *)
(***************************************************************************)
EXTENDS MatchIndex, TLC

Interchangeable == Permutations(LongSlots) \cup Permutations(ShortSlots)
=============================================================================
