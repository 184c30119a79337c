--------------------------- MODULE MCStreamEncoder ---------------------------
(***************************************************************************)
(* StreamEncoder on frames of a few blocks, of unknown and of pledged      *)
(* size.  One pledge ends a frame within a block and one with a block; the *)
(* second is the one whose last block is held back.                        *)
(***************************************************************************)
EXTENDS StreamEncoder

Streamed == [pledged |-> UnknownSize, checked |-> FALSE, partitioning |-> TRUE]

Summed == [pledged |-> UnknownSize, checked |-> TRUE, partitioning |-> FALSE]

PledgedTo(size) == [pledged |-> size, checked |-> FALSE, partitioning |-> FALSE]

MCParameters == {Streamed, Summed, PledgedTo(4), PledgedTo(6)}
=============================================================================
