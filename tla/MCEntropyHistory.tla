-------------------------- MODULE MCEntropyHistory --------------------------
(***************************************************************************)
(* EntropyHistory with one alphabet and two FSE tables, so that a stale    *)
(* table is not the right one by luck.  Bases 1 and 3, with and without    *)
(* literals, name every entry of the history and "the most recent less     *)
(* one"; with two sequences a partition may follow one that the decoder    *)
(* never saw.                                                              *)
(***************************************************************************)
EXTENDS EntropyHistory, TLC

Interchangeable == Permutations(FseTables) \cup Permutations(HuffmanTables)

\* Nothing is claimed of a frame once its histories have fellBack.
UntilDivergence == ~fellBack

\* The distances a frame opens with, the new one and one that is "less one".
FewDistances == \A i \in 1..3 : optimalRepeats[i] \in {1, 2, 4, 7, 8}
=============================================================================
