-------------------------------- MODULE XxHash --------------------------------
(***************************************************************************)
(* The checksum of a frame, xxhash64.  Content arrives in pieces of any    *)
(* size: whole stripes go into the accumulators, the rest waits in a       *)
(* buffer that is never cleared.  The digest may be taken at any time and  *)
(* has to be that of the content in one piece.  Both streams keep such an  *)
(* object; the operators are its functions.                                *)
(*                                                                         *)
(* Abstractions.  The arithmetic is left out: the accumulators are the     *)
(* stripes they absorbed, in order, and the digest is what is mixed into   *)
(* it.  Two digests that differ here may agree in 64 bits, never the other *)
(* way round.                                                              *)
(***************************************************************************)
EXTENDS Naturals, Sequences

CONSTANTS
  StripeSize,  \* stripe_size, 32
  Word, Half   \* the eight and four bytes digest() reads at a time

ASSUME StripesAssumption ==
  /\ StripeSize \in Nat \ {0} /\ Half \in Nat \ {0}
  /\ Word = 2 * Half /\ StripeSize % Word = 0

NoByte == 0

\* Mutant: what waits in the buffer is kept.
StillBuffered(h) == [h EXCEPT !.total = 0, !.absorbed = <<>>]

\* reset() leaves the bytes of the buffer.
Cleared(h) == [h EXCEPT !.total = 0, !.buffered = 0, !.absorbed = <<>>]

Fresh == [total |-> 0, buffered |-> 0, absorbed |-> <<>>,
          buffer |-> [i \in 1..StripeSize |-> NoByte]]

----------------------------------------------------------------------------
\* The buffer after `bytes` are put behind the first `count`.
Filled(buffer, count, bytes) ==
  [i \in 1..StripeSize |->
     IF i \in (count + 1)..(count + Len(bytes)) THEN bytes[i - count] ELSE buffer[i]]

\* The piece does not complete a stripe.
Waits(h, input) == h.buffered + Len(input) < StripeSize

\* update(): fill and absorb the buffer, absorb whole stripes, keep the rest.
Updated(h, input) ==
  LET needed  == IF h.buffered = 0 THEN 0 ELSE StripeSize - h.buffered
      full    == Filled(h.buffer, h.buffered, SubSeq(input, 1, needed))
      count   == (Len(input) - needed) \div StripeSize
      stripes == [k \in 1..count |->
                    SubSeq(input, needed + (k - 1) * StripeSize + 1, needed + k * StripeSize)]
      rest    == SubSeq(input, needed + count * StripeSize + 1, Len(input))
  IN  IF Waits(h, input)
      THEN [h EXCEPT !.total = @ + Len(input), !.buffered = @ + Len(input),
                     !.buffer = Filled(@, h.buffered, input)]
      ELSE [total    |-> h.total + Len(input),
            buffered |-> Len(rest),
            absorbed |-> h.absorbed \o (IF h.buffered = 0 THEN <<>> ELSE <<full>>) \o stripes,
            buffer   |-> Filled(full, 0, rest)]

\* Mutant: the last four bytes are read again, one by one.
WordsAndBytes(bytes) ==
  LET words == Len(bytes) \div Word
      rest  == Len(bytes) - words * Word
  IN  [i \in 1..words |-> SubSeq(bytes, (i - 1) * Word + 1, i * Word)]
      \o (IF rest >= Half THEN <<SubSeq(bytes, words * Word + 1, words * Word + Half)>> ELSE <<>>)
      \o [i \in 1..rest |-> <<bytes[words * Word + i]>>]

\* The remaining bytes as digest() reads them: words, at most a half, bytes.
Words(bytes) ==
  LET words == Len(bytes) \div Word
      rest  == Len(bytes) - words * Word
      half  == IF rest >= Half THEN Half ELSE 0
      done  == words * Word + half
  IN  [i \in 1..words |-> SubSeq(bytes, (i - 1) * Word + 1, i * Word)]
      \o (IF half > 0 THEN <<SubSeq(bytes, words * Word + 1, done)>> ELSE <<>>)
      \o [i \in 1..(rest - half) |-> <<bytes[done + i]>>]

\* digest(): accumulators that absorbed nothing are not mixed in.
Digest(h) ==
  [stripes |-> IF h.total >= StripeSize THEN h.absorbed ELSE <<>>,
   size    |-> h.total,
   words   |-> Words(SubSeq(h.buffer, 1, h.buffered))]

\* The bytes that were mixed in, in order.
Joined(parts) ==
  LET joined[i \in 0..Len(parts)] == IF i = 0 THEN <<>> ELSE joined[i - 1] \o parts[i]
  IN  joined[Len(parts)]

Mixed(digest) == Joined(digest.stripes) \o Joined(digest.words)
=============================================================================
