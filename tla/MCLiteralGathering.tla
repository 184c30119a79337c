------------------------- MODULE MCLiteralGathering -------------------------
(***************************************************************************)
(* LiteralGathering for the ways compilers and levels share the work: the  *)
(* parser gathers, the encoder gathers, and neither does.  Lengths are cut *)
(* at 2 instead of 65536, and blocks are up to 4, twice that.              *)
(***************************************************************************)
EXTENDS LiteralGathering

Build(compiler, level, minimumMatch) ==
  [compiler |-> compiler, level |-> level, minimumMatch |-> minimumMatch]

Agreeing == {Build("gcc13", 2, 7), Build("msvc", 1, 7), Build("other", 2, 7)}

OtherCompiler == {Build("other", 1, 7)}

\* A repeat code, an offset, and an offset without a code.
SomeForms == {[offset |-> 6, repeat |-> 1], [offset |-> 1, repeat |-> 0],
              [offset |-> 29, repeat |-> 0]}
=============================================================================
