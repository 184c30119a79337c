--------------------------- MODULE RepeatOffsets ---------------------------
(***************************************************************************)
(* The three-entry repeat-offset history of a Zstandard frame, as the      *)
(* encoder keeps it (detail/zstd_compression.h) and as the decoder keeps   *)
(* it (zstd_decompress.h).  An offset is sent as an "offset base": 1, 2 or *)
(* 3 name an entry of the history, shifted by one when the sequence has no *)
(* literals, and a base of four or more is a new offset plus three.        *)
(* A history is <<most recent, second, third>>.                            *)
(***************************************************************************)
EXTENDS Integers, Sequences

Histories == Int \X Int \X Int

\* A distance of zero names no byte: the parser never keeps one.
ParserHistories == (Nat \ {0}) \X (Nat \ {0}) \X (Nat \ {0})

\* Both sides start every frame from this history.
InitialRepeats == <<1, 4, 8>>

\* The entry a base below four names, in the encoder's numbering.
RepeatCode(base, noLiterals) == base - 1 + (IF noLiterals THEN 1 ELSE 0)

NewOffsetBase(offset) == offset + 3

----------------------------------------------------------------------------
(* The encoder's two functions.                                            *)

\* The distance that a base means to the parser.
ResolveOptimalOffset(repeats, base, noLiterals) ==
  LET code == RepeatCode(base, noLiterals)
  IN  IF base >= 4 THEN base - 3
      ELSE IF code = 0 THEN repeats[1]
      ELSE IF code = 3 THEN repeats[1] - 1
      ELSE IF code = 2 THEN repeats[3]
      ELSE repeats[2]

\* Mutant: naming the second entry drops the third.
UpdateDroppingThird(repeats, base, noLiterals) ==
  LET current == ResolveOptimalOffset(repeats, base, noLiterals)
  IN  IF RepeatCode(base, noLiterals) = 0 /\ base < 4 THEN repeats
      ELSE <<current, repeats[1], repeats[2]>>

\* The parser's history after it has chosen a sequence with that base.
UpdateOptimalRepeats(repeats, base, noLiterals) ==
  LET code    == RepeatCode(base, noLiterals)
      current == ResolveOptimalOffset(repeats, base, noLiterals)
  IN  IF base >= 4 THEN <<base - 3, repeats[1], repeats[2]>>
      ELSE IF code = 0 THEN repeats
      ELSE IF code >= 2 THEN <<current, repeats[1], repeats[2]>>
      ELSE <<current, repeats[1], repeats[3]>>

----------------------------------------------------------------------------
(* The decoder reads an offset symbol (the bit width of the base, less     *)
(* one) and that many extra bits; it never sees the base itself.           *)

OffsetSymbol(base) == IF base = 1 THEN 0 ELSE IF base < 4 THEN 1 ELSE 2

\* One turn of the decoder's sequence loop: the match distance it copies
\* from and the history it keeps.
DecodeOffset(repeats, base, noLiterals) ==
  LET symbol == OffsetSymbol(base)
      second == IF noLiterals THEN repeats[1] ELSE repeats[2]
      first  == IF noLiterals THEN repeats[2] ELSE repeats[1]
      \* base value 1 of symbol 1, one extra bit
      code   == 1 + (IF noLiterals THEN 1 ELSE 0) + (base - 2)
      named  == IF code = 3 THEN repeats[1] - 1
                ELSE IF code = 2 THEN repeats[3] ELSE repeats[2]
  IN  IF symbol = 2
      THEN [offset  |-> base - 3, repeats |-> <<base - 3, repeats[1], repeats[2]>>]
      ELSE IF symbol = 0
      THEN [offset  |-> first, repeats |-> <<first, second, repeats[3]>>]
      ELSE [offset  |-> named,
            repeats |-> <<named, repeats[1], IF code # 1 THEN repeats[2] ELSE repeats[3]>>]

----------------------------------------------------------------------------
(* Partitions of one parsed block are emitted as separate blocks, and one  *)
(* that is sent raw or RLE leaves the decoder's history behind the         *)
(* parser's.  A repeat code that would then mean another distance is       *)
(* replaced by the distance itself.                                        *)

\* Mutant: the repeat code is written as the parser chose it.
UnreconciledBase(encoder, decoder, base, noLiterals) == base

ReconciledBase(encoder, decoder, base, noLiterals) ==
  LET wanted == ResolveOptimalOffset(encoder, base, noLiterals)
  IN  IF base < 4 /\ wanted # ResolveOptimalOffset(decoder, base, noLiterals)
      THEN NewOffsetBase(wanted)
      ELSE base
=============================================================================
