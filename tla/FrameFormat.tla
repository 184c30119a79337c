----------------------------- MODULE FrameFormat -----------------------------
(***************************************************************************)
(* Zstandard streams as the two stream classes read and write them: a      *)
(* sequence of parts, each the run of bytes that one step of the parser    *)
(* consumes.  A part has the place `at` where it starts and its `length`   *)
(* in bytes; what the bytes say is kept as fields.  The lengths are small  *)
(* numbers that keep the order and the splitting of a real stream.         *)
(*                                                                         *)
(*   skippable                                     a whole skippable frame *)
(*   header    contentSize, window, checksum                               *)
(*   block     type, size, last                    a block header          *)
(*   payload   bytes                               what the block decodes  *)
(*                                                 to; length 0 for an     *)
(*                                                 empty raw block         *)
(*   checksum  of                                  the digest, as XxHash   *)
(*                                                 has it                  *)
(*   invalid                                       bytes that are none of  *)
(*                                                 those at their place    *)
(***************************************************************************)
EXTENDS Integers, Sequences, SequencesExt, XxHash

UnknownSize == -1

Skippable(length) == [kind |-> "skippable", length |-> length]

Header(contentSize, window, checksum) ==
  [kind |-> "header", length |-> 2,
   contentSize |-> contentSize, window |-> window, checksum |-> checksum]

BlockHeader(type, size, last) ==
  [kind |-> "block", length |-> 1, type |-> type, size |-> size, last |-> last]

Payload(length, bytes) == [kind |-> "payload", length |-> length, bytes |-> bytes]

Checksum(digest) == [kind |-> "checksum", length |-> 1, of |-> digest]

Invalid == [kind |-> "invalid", length |-> 1]

----------------------------------------------------------------------------
EndOf(part) == part.at + part.length

EncodedLength(wire) == IF wire = <<>> THEN 0 ELSE EndOf(Last(wire))

\* A part with its place.
Placed(part, at) ==
  [field \in DOMAIN part \cup {"at"} |-> IF field = "at" THEN at ELSE part[field]]

\* The wire with one more part at its end.
Extended(wire, part) == Append(wire, Placed(part, EncodedLength(wire)))

Laid(parts) == FoldLeft(Extended, <<>>, parts)

BytesOf(part) == IF part.kind = "payload" THEN part.bytes ELSE <<>>

\* What the parts from first to last decode to.
ContentOf(wire, first, last) ==
  FlattenSeq([i \in 1..(last - first + 1) |-> BytesOf(wire[first + i - 1])])

\* The digest of content that comes in one piece.
DigestOf(content) == Digest(Updated(Fresh, content))

\* The header of the frame that part k belongs to.
HeaderOf(wire, k) ==
  CHOOSE h \in 1..k :
    /\ wire[h].kind = "header"
    /\ \A i \in (h + 1)..k : wire[i].kind # "header"

\* Part k is the last of its frame.
EndsFrame(wire, k) ==
  \/ wire[k].kind = "checksum"
  \/ /\ wire[k].kind = "payload" /\ wire[k - 1].last
     /\ ~wire[HeaderOf(wire, k)].checksum

\* Nothing at part k, nor the frame it completes, is wrong.
Sound(wire, k) ==
  /\ wire[k].kind # "invalid"
  /\ LET h == HeaderOf(wire, k)
     IN  /\ wire[k].kind = "checksum" => wire[k].of = DigestOf(ContentOf(wire, h, k))
         /\ EndsFrame(wire, k) =>
              wire[h].contentSize \in {UnknownSize, Len(ContentOf(wire, h, k))}

\* The first n bytes are whole frames, at least one of them not skippable.
CompleteAt(wire, n) ==
  /\ \E k \in DOMAIN wire : wire[k].kind = "header" /\ EndOf(wire[k]) <= n
  /\ \E k \in DOMAIN wire : /\ EndOf(wire[k]) = n
                            /\ wire[k].kind = "skippable" \/ EndsFrame(wire, k)
=============================================================================
