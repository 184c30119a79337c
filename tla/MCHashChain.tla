------------------------------ MODULE MCHashChain ------------------------------
(***************************************************************************)
(* HashChain on a small ring and a small row: both wrap within a frame,    *)
(* frames follow each other until the indexes run out, and the last ones   *)
(* are rebased on the way.  The rows' blocks are one that cannot be hashed *)
(* ahead, one of two searches and one of eight, with room to skip.         *)
(***************************************************************************)
EXTENDS HashChain, TLC

CONSTANTS b1, b2

MCParsers ==
  [rows : {FALSE}, lookAhead : {0, 2}] \cup [rows : {TRUE}, lookAhead : {0, 1}]

\* A row of two tags; one of them is also a head.
MCHashes == {<<0, 0>>, <<0, 2>>}

MCBlockSizes(rows) == IF rows THEN {5, 8, 14} ELSE {2, 7}

TwoBuckets == {b1, b2}
Interchangeable == Permutations(Buckets)
=============================================================================
