---------------------------- MODULE MCOptimalParse ----------------------------
(* OptimalParse over a block of a few bytes, with a window shorter than it.   *)
EXTENDS OptimalParse
=============================================================================
