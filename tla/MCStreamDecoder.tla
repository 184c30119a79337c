--------------------------- MODULE MCStreamDecoder ---------------------------
(***************************************************************************)
(* Streams for StreamDecoder.  Payload bytes are numbered so that every    *)
(* byte of a frame tells where it came from.                               *)
(***************************************************************************)
EXTENDS StreamDecoder

Block(type, length, bytes, last) ==
  <<BlockHeader(type, length, last), Payload(length, bytes)>>

\* A window shorter than the content, a run, and a checksum.
Checked ==
  <<Header(3, 2, TRUE)>> \o Block("raw", 1, <<1>>, FALSE)
    \o Block("run_length", 1, <<2, 2>>, TRUE) \o <<Checksum(DigestOf(<<1, 2, 2>>))>>

\* Content of unknown size, no window and an empty last block.
Unsized ==
  <<Header(UnknownSize, 0, FALSE)>> \o Block("compressed", 1, <<3, 4>>, FALSE)
    \o Block("raw", 0, <<>>, TRUE)

Concatenated == Checked \o <<Skippable(2)>> \o Unsized

WrongChecksum ==
  <<Header(UnknownSize, 1, TRUE)>> \o Block("raw", 2, <<5, 6>>, TRUE)
    \o <<Checksum(DigestOf(<<6, 5>>))>>

WrongSize == <<Header(1, 1, FALSE)>> \o Block("run_length", 1, <<7, 7>>, TRUE)

Corrupt == <<Header(2, 2, FALSE)>> \o Block("raw", 1, <<8>>, FALSE)
             \o <<BlockHeader("compressed", 1, TRUE), Invalid>>

\* An empty block with something wrong behind it.
EmptyThenCorrupt == <<Header(UnknownSize, 2, FALSE)>> \o Block("raw", 0, <<>>, FALSE) \o <<Invalid>>

MCWires == {Laid(w) : w \in {Concatenated, Unsized, WrongChecksum,
                             WrongSize, Corrupt, EmptyThenCorrupt, <<Skippable(2)>>, <<Invalid>>}}
=============================================================================
