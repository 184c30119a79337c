------------------------- MODULE CompressorProofs -------------------------
(***************************************************************************)
(* What StreamEncoder's runs check, for every value of the constants:      *)
(* through every call no byte is lost or moved (NothingLost), the checksum *)
(* is that of the whole input however it was cut (EveryByteCounts), a      *)
(* finished stream is a frame that a decoder accepts (FrameIsSound), no    *)
(* other looks like one (UnfinishedIsOpen), and a flush without a pledge   *)
(* leaves nothing behind (FlushedWhenUnpledged).                           *)
(*                                                                         *)
(* The invariant IInv adds to NothingLost what each phase of a call has    *)
(* under way (Phases, Emission), that the buffer is full only where it is  *)
(* about to be emitted or held back for a pledge (NotHeldBack), and the    *)
(* shape of what was sent: one header first, pairs of a block's header and *)
(* its payload, the last block's only where the frame ends (Headed,        *)
(* Endings).                                                               *)
(*                                                                         *)
(* Then, of MatchIndex: the hash tables a compressor keeps from frame to   *)
(* frame show a search what this frame recorded and nothing else           *)
(* (TablesHoldThisFrame, MatchesPointBack; the invariant is IndexInv).     *)
(***************************************************************************)
EXTENDS StreamEncoder, MatchIndex, FrameProofs

\* A wire with one more part.
LEMMA WireExtended ==
  ASSUME NEW B, NEW w \in Seq(PlacedParts(B)), NEW part \in Parts(B)
  PROVE  LET v == Extended(w, part)
         IN  /\ v \in Seq(PlacedParts(B)) /\ Len(w) \in Nat /\ Len(v) = Len(w) + 1
             /\ \A k \in 1..Len(w) : v[k] = w[k]
             /\ v[Len(v)] = Placed(part, EncodedLength(w)) /\ EncodedLength(w) \in Nat
             /\ ContentOf(w, 1, Len(w)) \in Seq(B)
             /\ ContentOf(v, 1, Len(v)) = ContentOf(w, 1, Len(w)) \o BytesOf(v[Len(v)])
<1> DEFINE v == Extended(w, part)
           S == PlacedParts(B)
           e == EncodedLength(w)
           r == Placed(part, e)
<1>1. e \in Nat
  <2>1. CASE w = <<>> BY <2>1 DEF EncodedLength
  <2>2. CASE w # <<>>
    <3>1. Len(w) \in 1..Len(w) BY <2>2
    <3>2. Last(w) \in S BY <3>1, ElementOfSeq DEF Last
    <3> HIDE DEF S
    <3>3. Last(w).at \in Nat /\ Last(w).length \in Nat BY <3>2, PartsTyped DEF S
    <3> QED BY <2>2, <3>3 DEF EncodedLength, EndOf
  <2> QED BY <2>1, <2>2
<1>2. r \in S BY <1>1 DEF PlacedParts
<1>3. \A p \in S : BytesOf(p) \in Seq(B) BY PartsTyped
<1>4. v = Append(w, r) BY DEF Extended
<1> HIDE DEF S, e, r
<1>5. w \in Seq(S) BY DEF S
<1>6. /\ v \in Seq(S) /\ Len(w) \in Nat /\ Len(v) = Len(w) + 1
      /\ \A k \in 1..Len(w) : v[k] = w[k]
      /\ v[Len(v)] = r
  BY <1>2, <1>4, <1>5
<1>7. /\ ContentOf(w, 1, Len(w)) \in Seq(B)
      /\ ContentOf(Append(w, r), 1, Len(w) + 1) = ContentOf(w, 1, Len(w)) \o BytesOf(r)
  BY <1>2, <1>3, <1>5, ContentExtended
<1> QED BY <1>1, <1>4, <1>6, <1>7 DEF S, e, r

\* One header, before everything, and a block's header before each payload.
Shaped(w) ==
  /\ w # <<>> => w[1].kind = "header"
  /\ \A k \in 1..Len(w) :
       /\ k > 1 => w[k].kind # "header" /\ w[k].at >= EndOf(w[1])
       /\ w[k].kind = "payload" => k > 1 /\ w[k - 1].kind = "block"

NoneLast(w, n) == \A k \in 1..n : w[k].kind = "block" => ~w[k].last

\* Of the first n parts the last two are the block that ends the frame.
LastSent(w, n) ==
  /\ n > 2 /\ w[n].kind = "payload" /\ w[n - 1].kind = "block" /\ w[n - 1].last
  /\ NoneLast(w, n - 2)

NoChecksum(w, n) == \A k \in 1..n : w[k].kind # "checksum"

\* No part is before the header.
LEMMA EndIsBehindHeader ==
  ASSUME NEW B, NEW w \in Seq(PlacedParts(B)), Shaped(w), w # <<>>
  PROVE  /\ w[1].at \in Nat /\ w[1].length \in Nat
         /\ EncodedLength(w) = EndOf(w[Len(w)]) /\ EncodedLength(w) >= EndOf(w[1])
<1> DEFINE n == Len(w)
<1>1. n \in Nat /\ n > 0 /\ n \in 1..n /\ 1 \in 1..n OBVIOUS
<1>2. w[n] \in PlacedParts(B) /\ w[1] \in PlacedParts(B) BY <1>1, ElementOfSeq
<1>3. w[n].at \in Nat /\ w[n].length \in Nat /\ w[1].at \in Nat /\ w[1].length \in Nat
  BY <1>2, PartsTyped
<1>4. EncodedLength(w) = EndOf(w[n]) BY DEF EncodedLength, Last
<1>5. n > 1 => w[n].at >= EndOf(w[1]) BY <1>1 DEF Shaped
<1> HIDE DEF n
<1>6. EndOf(w[n]) >= EndOf(w[1])
  <2>1. CASE n = 1 BY <2>1, <1>3 DEF EndOf
  <2>2. CASE n > 1 BY <2>2, <1>3, <1>5 DEF EndOf
  <2> QED BY <2>1, <2>2, <1>1
<1> QED BY <1>3, <1>4, <1>6 DEF n

\* A block header, as it is on the wire.
LEMMA BlockPartPlaced ==
  ASSUME NEW h \in BlockParts, NEW a
  PROVE  LET r == Placed(h, a)
         IN  /\ r.at = a /\ r.kind = "block" /\ r.length = 1 /\ (r.last <=> h.last)
             /\ BytesOf(r) = <<>>
<1>1. PICK t, n, l : h = BlockHeader(t, n, l) BY DEF BlockParts
<1>2. h.last = l BY <1>1 DEF BlockHeader
<1> DEFINE r == Placed(h, a)
<1>3. r.at = a /\ r.kind = "block" /\ r.length = 1 /\ r.last = l BY <1>1, BlockPlaced
<1> HIDE DEF r
<1>4. BytesOf(r) = <<>> BY <1>3 DEF BytesOf
<1> QED BY <1>2, <1>3, <1>4 DEF r

\* A payload, as it is on the wire.
LEMMA PayloadPartPlaced ==
  ASSUME NEW B, NEW p \in PayloadParts(B), NEW a
  PROVE  LET r == Placed(p, a)
         IN  /\ r.at = a /\ r.kind = "payload" /\ r.length = p.length
             /\ BytesOf(r) = p.bytes /\ p.bytes \in Seq(B)
<1>1. PICK l \in Nat, b \in Seq(B) : p = Payload(l, b) BY DEF PayloadParts
<1>2. p.length = l /\ p.bytes = b BY <1>1 DEF Payload
<1> DEFINE r == Placed(p, a)
<1>3. r.at = a /\ r.kind = "payload" /\ r.length = l /\ r.bytes = b BY <1>1, PayloadPlaced
<1> HIDE DEF r
<1>4. BytesOf(r) = b BY <1>3 DEF BytesOf
<1> QED BY <1>2, <1>3, <1>4 DEF r

\* What a block header adds.
LEMMA HeaderSent ==
  ASSUME NEW B, NEW w \in Seq(PlacedParts(B)), Shaped(w), w # <<>>, NEW h \in BlockParts
  PROVE  LET v == Extended(w, h)
         IN  /\ v \in Seq(PlacedParts(B)) /\ Len(w) \in Nat /\ Len(v) = Len(w) + 1
             /\ v # <<>>
             /\ \A k \in 1..Len(w) : v[k] = w[k]
             /\ v[Len(v)].kind = "block" /\ (v[Len(v)].last <=> h.last)
             /\ Shaped(v)
             /\ ContentOf(v, 1, Len(v)) = ContentOf(w, 1, Len(w))
             /\ ContentOf(w, 1, Len(w)) \in Seq(B)
<1> DEFINE v == Extended(w, h)
           n == Len(w)
           e == EncodedLength(w)
           c == ContentOf(w, 1, n)
<1>1. h \in Parts(B) BY DEF Parts
<1>2. /\ v \in Seq(PlacedParts(B)) /\ n \in Nat /\ Len(v) = n + 1
      /\ \A k \in 1..n : v[k] = w[k]
      /\ v[Len(v)] = Placed(h, e)
      /\ c \in Seq(B)
      /\ ContentOf(v, 1, Len(v)) = c \o BytesOf(v[Len(v)])
  BY <1>1, WireExtended
<1> HIDE DEF v
<1>3. v[n + 1].at = e /\ v[n + 1].kind = "block" /\ (v[n + 1].last <=> h.last)
      /\ BytesOf(v[n + 1]) = <<>>
  BY <1>2, BlockPartPlaced
<1>4. e >= EndOf(w[1]) /\ n >= 1 BY EndIsBehindHeader
<1>5. Shaped(v)
  <2> HIDE DEF n, e
  <2>1. v[1] = w[1] /\ w[1].kind = "header" BY <1>2, <1>4 DEF Shaped
  <2>2. ASSUME NEW k \in 1..Len(v)
        PROVE  /\ k > 1 => v[k].kind # "header" /\ v[k].at >= EndOf(v[1])
               /\ v[k].kind = "payload" => k > 1 /\ v[k - 1].kind = "block"
    <3>1. CASE k = n + 1 BY <3>1, <2>1, <1>3, <1>4
    <3>2. CASE k \in 1..n
      <4>1. v[k] = w[k] /\ (k > 1 => v[k - 1] = w[k - 1]) BY <3>2, <1>2
      <4> QED BY <4>1, <3>2, <2>1, <1>2 DEF Shaped, n
    <3> QED BY <3>1, <3>2, <1>2
  <2> QED BY <2>1, <2>2 DEF Shaped
<1>6. ContentOf(v, 1, Len(v)) = c
  <2> HIDE DEF c
  <2> QED BY <1>3, <1>2
<1>7. v # <<>> BY <1>2
<1> QED BY <1>2, <1>3, <1>5, <1>6, <1>7 DEF v

\* What a whole block adds.
LEMMA BlockSent ==
  ASSUME NEW B, NEW w \in Seq(PlacedParts(B)), Shaped(w), w # <<>>,
         NEW h \in BlockParts, NEW p \in PayloadParts(B),
         NoneLast(w, Len(w)), NoChecksum(w, Len(w))
  PROVE  LET v == Extended(Extended(w, h), p)
         IN  /\ v \in Seq(PlacedParts(B)) /\ v # <<>> /\ v[1] = w[1]
             /\ Shaped(v) /\ NoChecksum(v, Len(v))
             /\ h.last => LastSent(v, Len(v))
             /\ ~h.last => NoneLast(v, Len(v))
             /\ ContentOf(v, 1, Len(v)) = ContentOf(w, 1, Len(w)) \o p.bytes
             /\ ContentOf(w, 1, Len(w)) \in Seq(B)
<1> DEFINE u == Extended(w, h)
           v == Extended(u, p)
           n == Len(w)
           e == EncodedLength(u)
           c == ContentOf(w, 1, n)
<1>1. /\ u \in Seq(PlacedParts(B)) /\ n \in Nat /\ Len(u) = n + 1 /\ u # <<>>
      /\ \A k \in 1..n : u[k] = w[k]
      /\ u[Len(u)].kind = "block" /\ (u[Len(u)].last <=> h.last)
      /\ Shaped(u)
      /\ ContentOf(u, 1, Len(u)) = c
      /\ c \in Seq(B)
  BY HeaderSent
<1>2. p \in Parts(B) BY DEF Parts
<1> HIDE DEF u
<1>4. /\ v \in Seq(PlacedParts(B)) /\ Len(v) = n + 2
      /\ \A k \in 1..(n + 1) : v[k] = u[k]
      /\ v[Len(v)] = Placed(p, e)
      /\ ContentOf(v, 1, Len(v)) = c \o BytesOf(v[Len(v)])
  <2>1. /\ v \in Seq(PlacedParts(B)) /\ Len(v) = Len(u) + 1
        /\ \A k \in 1..Len(u) : v[k] = u[k]
        /\ v[Len(v)] = Placed(p, EncodedLength(u))
        /\ ContentOf(v, 1, Len(v)) = ContentOf(u, 1, Len(u)) \o BytesOf(v[Len(v)])
    BY <1>1, <1>2, WireExtended
  <2> HIDE DEF n, c, v
  <2>2. Len(v) = n + 2 BY <1>1, <2>1
  <2> QED BY <1>1, <2>1, <2>2
<1> HIDE DEF c, v
<1>5. v[n + 2].at = e /\ v[n + 2].kind = "payload" /\ BytesOf(v[n + 2]) = p.bytes
  BY <1>4, PayloadPartPlaced
<1>6. e >= EndOf(u[1]) BY <1>1, EndIsBehindHeader
<1>7. n >= 1 BY <1>1
<1> HIDE DEF n, e
<1>8. v[1] = w[1] /\ u[1] = w[1] /\ u[1].kind = "header"
  BY <1>1, <1>4, <1>7 DEF Shaped
<1>9. v[n + 1].kind = "block" /\ (v[n + 1].last <=> h.last) /\ \A k \in 1..n : v[k] = w[k]
  BY <1>1, <1>4
<1>10. Shaped(v)
  <2>1. ASSUME NEW k \in 1..Len(v)
        PROVE  /\ k > 1 => v[k].kind # "header" /\ v[k].at >= EndOf(v[1])
               /\ v[k].kind = "payload" => k > 1 /\ v[k - 1].kind = "block"
    <3>1. CASE k = n + 2
      <4>1. (n + 2) - 1 = n + 1 /\ n + 2 > 1 BY <1>1
      <4> QED BY <3>1, <4>1, <1>5, <1>6, <1>8, <1>9
    <3>2. CASE k \in 1..(n + 1)
      <4>2. k > 1 => k - 1 \in 1..(n + 1) BY <3>2, <1>1
      <4>1. v[k] = u[k] /\ (k > 1 => v[k - 1] = u[k - 1]) BY <3>2, <4>2, <1>4
      <4> QED BY <4>1, <3>2, <1>8, <1>1 DEF Shaped
    <3> QED BY <3>1, <3>2, <1>1, <1>4
  <2> QED BY <2>1, <1>8 DEF Shaped
<1>11. NoChecksum(v, Len(v))
  <2>1. ASSUME NEW k \in 1..(n + 2) PROVE v[k].kind # "checksum"
    <3>1. CASE k \in 1..n BY <3>1, <1>9 DEF NoChecksum, n
    <3>2. CASE k = n + 1 BY <3>2, <1>9
    <3>3. CASE k = n + 2 BY <3>3, <1>5
    <3> QED BY <3>1, <3>2, <3>3, <1>1
  <2> QED BY <2>1, <1>4 DEF NoChecksum
<1>12. NoneLast(v, n)
  <2>1. ASSUME NEW k \in 1..n, v[k].kind = "block" PROVE ~v[k].last
    BY <2>1, <1>9 DEF NoneLast, n
  <2> QED BY <2>1 DEF NoneLast
<1>13. h.last => LastSent(v, Len(v))
  <2>1. (n + 2) - 1 = n + 1 /\ (n + 2) - 2 = n /\ n + 2 > 2 BY <1>1, <1>7
  <2> QED BY <2>1, <1>4, <1>5, <1>9, <1>12 DEF LastSent
<1>14. ~h.last => NoneLast(v, Len(v))
  <2> SUFFICES ASSUME ~h.last PROVE NoneLast(v, n + 2) BY <1>4
  <2>1. ASSUME NEW k \in 1..(n + 2), v[k].kind = "block" PROVE ~v[k].last
    <3>1. CASE k \in 1..n BY <3>1, <2>1, <1>12 DEF NoneLast
    <3>2. CASE k = n + 1 BY <3>2, <1>9
    <3>3. CASE k = n + 2 BY <3>3, <2>1, <1>5
    <3> QED BY <3>1, <3>2, <3>3, <1>1
  <2> QED BY <2>1 DEF NoneLast
<1>15. ContentOf(v, 1, Len(v)) = c \o p.bytes BY <1>4, <1>5
<1>16. v # <<>> BY <1>1, <1>4
<1> QED BY <1>1, <1>4, <1>8, <1>10, <1>11, <1>13, <1>14, <1>15, <1>16 DEF c, n, v, u
----------------------------------------------------------------------------
(* The invariant.                                                          *)

Ending == call \in {"finish", "frame"}

\* The block that ends the frame has been sent, and the call has not returned.
Ended == Ending /\ ~emitting

TypeOK ==
  /\ parameters \in Parameters
  /\ buffer \in Seq(Nat) /\ pending \in Seq(Nat) /\ submitted \in Seq(Nat)
  /\ started \in BOOLEAN /\ saving \in BOOLEAN /\ blockCount \in {0, 1}
  /\ status \in {"ready", "active", "finished", "failed"}
  /\ call \in {"none", "update", "flush", "finish", "frame"}
  /\ outcome \in {"none", "done", "callback", "pledge"}
  /\ emitting \in BOOLEAN
  /\ block \in [left : Int, last : BOOLEAN]
  /\ wire \in Seq(PlacedParts(Nat))
  /\ Len(buffer) <= BlockSize

\* The checksum's state is what the input leaves behind, and so is the count.
Accounted ==
  /\ sourceSize = Len(submitted)
  /\ HashOf(hashed, IF Checked THEN submitted ELSE <<>>, Nat)

\* What a call has under way, and what a status says of the frame.
Phases ==
  /\ call = "none" => pending = <<>> /\ ~emitting /\ block = NoBlock
  /\ call \in {"flush", "finish"} => pending = <<>>
  /\ call = "frame" => buffer = <<>>
  /\ call # "none" => started /\ status = "active" /\ outcome \in {"none", "done"}
  /\ status = "ready" => /\ ~started /\ outcome = "none"
                         /\ submitted = <<>> /\ buffer = <<>> /\ wire = <<>>
  /\ status = "finished" => buffer = <<>> /\ outcome = "done"
  /\ status = "failed" => outcome = "pledge"
  /\ status = "active" /\ outcome \in {"none", "done"} => started
  /\ Ending \/ status = "finished" => PledgeKept(sourceSize)

\* A block is never longer than what waits, and is the last exactly when it
\* takes all of it in an ending call.
Emission ==
  /\ block # NoBlock => /\ emitting
                        /\ block.left \in 0..Len(Waiting)
                        /\ block.last <=> (Ending /\ block.left = Len(Waiting))
  /\ emitting /\ ~Ending => buffer # <<>> /\ (block # NoBlock => block.left > 0)

\* Without a pledge no full buffer is held back, so that a flush takes it all.
NotHeldBack ==
  Pledged = UnknownSize =>
    /\ outcome # "callback" => Len(buffer) < BlockSize \/ (call = "update" /\ emitting)
    /\ call = "flush" => /\ block # NoBlock => block.left = Len(buffer)
                         /\ ~emitting => buffer = <<>>

\* The frame that a started compressor has sent the header of.
Headed ==
  /\ Shaped(wire)
  /\ wire # <<>> => /\ wire[1].checksum = Checked
                    /\ wire[1].contentSize = IF SizeField THEN Pledged ELSE UnknownSize
  /\ started /\ outcome # "callback" => wire # <<>>
  /\ ~started => wire = <<>>

\* Nothing ends the frame but the last block and the checksum behind it.
Endings ==
  /\ status # "finished" => NoChecksum(wire, Len(wire))
  /\ outcome # "callback" /\ status # "finished" /\ ~Ended => NoneLast(wire, Len(wire))
  /\ Ended => Waiting = <<>> /\ LastSent(wire, Len(wire))
  /\ status = "finished" /\ ~Checked => LastSent(wire, Len(wire)) /\ NoChecksum(wire, Len(wire))
  /\ status = "finished" /\ Checked =>
       /\ LastSent(wire, Len(wire) - 1) /\ NoChecksum(wire, Len(wire) - 1)
       /\ wire[Len(wire)].kind = "checksum" /\ wire[Len(wire)].of = Digest(hashed)
  /\ outcome = "callback" =>
       \A k \in 1..Len(wire) : wire[k].kind = "payload" /\ wire[k - 1].last => Checked

IInv == TypeOK /\ Accounted /\ Phases /\ Emission /\ NotHeldBack /\ Headed /\ Endings /\ NothingLost

----------------------------------------------------------------------------
\* A sequence is what its first k elements and the others make.
LEMMA Split ==
  ASSUME NEW S, NEW s \in Seq(S), NEW k \in 0..Len(s)
  PROVE  /\ SubSeq(s, 1, k) \in Seq(S) /\ Len(SubSeq(s, 1, k)) = k
         /\ SubSeq(s, k + 1, Len(s)) \in Seq(S)
         /\ Len(SubSeq(s, k + 1, Len(s))) = Len(s) - k
         /\ SubSeq(s, 1, k) \o SubSeq(s, k + 1, Len(s)) = s
<1> DEFINE n == Len(s)
           o == 0
           x == SubSeq(s, o + 1, k)
           y == SubSeq(s, k + 1, n)
<1>1. n \in Nat /\ k \in Nat /\ k <= n /\ o \in Nat /\ o <= k /\ k - o = k /\ o + 1 = 1 OBVIOUS
<1>2. x \in Seq(S) /\ Len(x) = k /\ y \in Seq(S) /\ Len(y) = n - k
  <2>1. x \in Seq(S) /\ Len(x) = k - o
    <3> HIDE DEF o
    <3> QED BY <1>1, Pieces
  <2>2. y \in Seq(S) /\ Len(y) = n - k BY <1>1, Pieces
  <2> QED BY <1>1, <2>1, <2>2
<1>3. SubSeq(s, 1, k) \o SubSeq(s, k + 1, n) = SubSeq(s, 1, n)
  <2>1. 1 \in 1..(Len(s) + 1) /\ k \in (1 - 1)..Len(s) /\ n \in k..Len(s) BY <1>1
  <2> QED BY <2>1, ConcatAdjacentSubSeq
<1>4. SubSeq(s, 1, n) = s OBVIOUS
<1>5. SubSeq(s, 1, k) = x OBVIOUS
<1> QED BY <1>2, <1>3, <1>4, <1>5

\* Concatenation is associative.
LEMMA Associative == \A x, y, z \in Seq(Nat) : (x \o y) \o z = x \o (y \o z)
OBVIOUS

\* The types of the template parameters, and the header they give.
LEMMA ParametersTyped ==
  ASSUME TypeOK
  PROVE  /\ Pledged \in Nat \cup {UnknownSize} /\ Checked \in BOOLEAN
         /\ FrameHeader \in Parts(Nat)
<1>1. parameters \in [pledged : Nat \cup {UnknownSize}, checked : BOOLEAN,
                      partitioning : BOOLEAN]
  BY ConstantsAssumption DEF TypeOK
<1>2. Pledged \in Nat \cup {UnknownSize} /\ Checked \in BOOLEAN BY <1>1 DEF Pledged, Checked
<1> DEFINE size == IF SizeField THEN Pledged ELSE UnknownSize
           window == IF SingleSegment THEN Pledged ELSE Window
<1>3. size \in Nat \cup {UnknownSize} /\ window \in Nat
  BY <1>2, ConstantsAssumption DEF SingleSegment
<1>4. FrameHeader = Header(size, window, Checked) BY DEF FrameHeader
<1> HIDE DEF size, window
<1> QED BY <1>2, <1>3, <1>4 DEF Parts, HeaderParts

\* A new compressor satisfies the invariant, and every action keeps it.
LEMMA InitHolds ==
  ASSUME Init
  PROVE  IInv
<1>1. TypeOK
  <2>1. <<>> \in Seq(Nat) /\ <<>> \in Seq(PlacedParts(Nat)) /\ Len(<<>>) = 0 OBVIOUS
  <2>2. NoBlock \in [left : Int, last : BOOLEAN] BY DEF NoBlock
  <2>3. 0 <= BlockSize BY ConstantsAssumption
  <2>4. /\ parameters \in Parameters /\ buffer = <<>> /\ pending = <<>> /\ submitted = <<>>
        /\ started = FALSE /\ saving = FALSE /\ blockCount = 0 /\ status = "ready"
        /\ call = "none" /\ outcome = "none" /\ emitting = FALSE /\ block = NoBlock /\ wire = <<>>
    BY DEF Init
  <2> QED BY <2>1, <2>2, <2>3, <2>4 DEF TypeOK
<1>2. Accounted
  <2>1. HashOf(Fresh, <<>>, Nat) BY FreshHolds DEF NoByte
  <2>2. Len(<<>>) = 0 OBVIOUS
  <2> QED BY <2>1, <2>2 DEF Init, Accounted
<1>3. Phases BY DEF Init, Phases, Ending
<1>4. Emission BY DEF Init, Emission
<1>5. NotHeldBack
  <2>1. Len(<<>>) = 0 OBVIOUS
  <2> QED BY <2>1, ConstantsAssumption DEF Init, NotHeldBack
<1>6. Headed
  <2>1. Len(<<>>) = 0 OBVIOUS
  <2> QED BY <2>1 DEF Init, Headed, Shaped
<1>7. Endings
  <2>1. Len(<<>>) = 0 OBVIOUS
  <2> QED BY <2>1 DEF Init, Endings, Ended, Ending, NoChecksum, NoneLast
<1>8. NothingLost
  <2>1. Len(<<>>) = 0 /\ <<>> \o <<>> = <<>> OBVIOUS
  <2>2. Content = <<>> BY <2>1, ContentEmpty DEF Init, Content
  <2> QED BY <2>1, <2>2 DEF Init, NothingLost
<1> QED BY <1>1, <1>2, <1>3, <1>4, <1>5, <1>6, <1>7, <1>8 DEF IInv

\* What the header does to the wire of a frame that can be written to.
LEMMA HeaderKeeps ==
  ASSUME IInv, Writable, SendHeader, parameters' = parameters
  PROVE  /\ wire' \in Seq(PlacedParts(Nat)) /\ started'
         /\ wire' # <<>> /\ Shaped(wire')
         /\ wire'[1].checksum = Checked
         /\ wire'[1].contentSize = IF SizeField THEN Pledged ELSE UnknownSize
         /\ NoneLast(wire', Len(wire')) /\ NoChecksum(wire', Len(wire'))
         /\ Content' = Content /\ Content \in Seq(Nat)
<1>1. /\ call = "none" /\ outcome \in {"none", "done"} /\ status \notin {"finished", "failed"}
  BY DEF Writable
<1>2. ~Ended /\ NoneLast(wire, Len(wire)) /\ NoChecksum(wire, Len(wire)) /\ Shaped(wire)
      /\ wire \in Seq(PlacedParts(Nat))
  BY <1>1 DEF IInv, Endings, Ended, Ending, Headed, TypeOK
<1> DEFINE h == FrameHeader
           v == Extended(wire, h)
<1>3. h \in Parts(Nat) BY ParametersTyped DEF IInv
<1> HIDE DEF h
<1>4. /\ v \in Seq(PlacedParts(Nat)) /\ Len(v) = Len(wire) + 1 /\ Len(wire) \in Nat
      /\ v[Len(v)] = Placed(h, EncodedLength(wire))
      /\ ContentOf(wire, 1, Len(wire)) \in Seq(Nat)
      /\ ContentOf(v, 1, Len(v)) = ContentOf(wire, 1, Len(wire)) \o BytesOf(v[Len(v)])
  BY <1>2, <1>3, WireExtended
<1>5. CASE started = TRUE
  <2>1. wire' = wire /\ started' = TRUE /\ wire # <<>>
    BY <1>1, <1>5 DEF SendHeader, IInv, Headed
  <2>2. Content' = Content BY <2>1 DEF Content
  <2> QED BY <1>2, <1>4, <2>1, <2>2 DEF IInv, Headed, Content
<1>6. CASE started = FALSE
  <2>1. wire' = v /\ started' = TRUE /\ wire = <<>>
    BY <1>6 DEF SendHeader, IInv, Headed, h
  <2>2. Len(v) = 1 /\ v # <<>> /\ v[1] = Placed(h, EncodedLength(wire)) BY <1>4, <2>1
  <2>3. /\ v[1].kind = "header" /\ v[1].checksum = Checked
        /\ v[1].contentSize = IF SizeField THEN Pledged ELSE UnknownSize
    BY <2>2, HeaderPlaced DEF h, FrameHeader
  <2> HIDE DEF v
  <2>4. \A k \in 1..Len(v) : k = 1 BY <2>2
  <2>5. Shaped(v) /\ NoneLast(v, Len(v)) /\ NoChecksum(v, Len(v))
    BY <2>2, <2>3, <2>4 DEF Shaped, NoneLast, NoChecksum
  <2>6. BytesOf(v[Len(v)]) = <<>> BY <2>2, <2>3 DEF BytesOf
  <2>7. ContentOf(v, 1, Len(v)) = ContentOf(wire, 1, Len(wire)) BY <2>6, <1>4
  <2>8. Content' = Content BY <2>1, <2>7 DEF Content
  <2> QED BY <1>4, <2>1, <2>2, <2>3, <2>5, <2>8 DEF Content
<1>7. started \in BOOLEAN BY DEF IInv, TypeOK
<1> QED BY <1>5, <1>6, <1>7

\* What update() and compress_frame() do to the totals.
LEMMA AccountKeeps ==
  ASSUME IInv, NEW bytes \in Seq(Nat), Account(bytes), parameters' = parameters
  PROVE  /\ Accounted' /\ submitted' \in Seq(Nat)
         /\ submitted' = submitted \o bytes /\ sourceSize' = sourceSize + Len(bytes)
<1>1. submitted \in Seq(Nat) /\ sourceSize = Len(submitted)
      /\ HashOf(hashed, IF Checked THEN submitted ELSE <<>>, Nat)
  BY DEF IInv, TypeOK, Accounted
<1>2. submitted' = submitted \o bytes /\ sourceSize' = sourceSize + Len(bytes)
  BY DEF Account
<1>3. submitted' \in Seq(Nat) /\ Len(submitted') = Len(submitted) + Len(bytes)
  BY <1>1, <1>2
<1>4. Checked' = Checked BY DEF Checked
<1>5. HashOf(hashed', IF Checked' THEN submitted' ELSE <<>>, Nat)
  <2>1. CASE Checked
    <3>1. HashOf(hashed, submitted, Nat) /\ hashed' = Updated(hashed, bytes)
      BY <1>1, <2>1 DEF Account
    <3>2. HashOf(Updated(hashed, bytes), submitted \o bytes, Nat)
      BY <1>1, <3>1, UpdatedHolds
    <3> QED BY <1>2, <1>4, <2>1, <3>1, <3>2
  <2>2. CASE ~Checked
    <3>1. HashOf(hashed, <<>>, Nat) /\ hashed' = hashed BY <1>1, <2>2 DEF Account
    <3> QED BY <1>4, <2>2, <3>1
  <2> QED BY <2>1, <2>2
<1>6. Accounted' BY <1>1, <1>2, <1>3, <1>5 DEF Accounted
<1> QED BY <1>2, <1>3, <1>6

\* Between calls everything is in blocks or in the buffer.
LEMMA WhenWritable ==
  ASSUME IInv, Writable
  PROVE  /\ call = "none" /\ outcome \in {"none", "done"} /\ status \in {"ready", "active"}
         /\ pending = <<>> /\ emitting = FALSE /\ block = NoBlock
         /\ Content \in Seq(Nat) => Content \o buffer = submitted
         /\ status = "active" <=> started
<1>1. /\ call = "none" /\ outcome \in {"none", "done"} /\ status \in {"ready", "active"}
  BY DEF Writable, IInv, TypeOK
<1>2. pending = <<>> /\ emitting = FALSE /\ block = NoBlock BY <1>1 DEF IInv, Phases, TypeOK
<1>3. Content \in Seq(Nat) => Content \o buffer = submitted
  <2> SUFFICES ASSUME Content \in Seq(Nat) PROVE Content \o buffer = submitted OBVIOUS
  <2> DEFINE c == Content
  <2>1. c \o buffer \o <<>> = submitted BY <1>1, <1>2 DEF IInv, NothingLost
  <2>2. c \in Seq(Nat) /\ buffer \in Seq(Nat) BY DEF IInv, TypeOK
  <2> HIDE DEF c
  <2>3. c \o buffer \o <<>> = c \o buffer BY <2>2
  <2> QED BY <2>1, <2>3 DEF c
<1>4. status = "active" <=> started BY <1>1 DEF IInv, Phases
<1> QED BY <1>1, <1>2, <1>3, <1>4

\* update(), before any block: a full buffer that was held back is emitted first.
LEMMA UpdateKeeps ==
  ASSUME IInv, NEW bytes \in Seq(Nat), Update(bytes)
  PROVE  IInv'
<1>1. Writable /\ SendHeader /\ Account(bytes) /\ parameters' = parameters
  BY DEF Update, BeginFrame
<1>2. /\ status' = (IF started THEN status ELSE "active")
      /\ call' = "update" /\ pending' = bytes /\ emitting' = HeldBack(bytes)
      /\ buffer' = buffer /\ saving' = saving /\ blockCount' = blockCount
      /\ block' = block /\ outcome' = outcome
  BY DEF Update, BeginFrame
<1>3. /\ call = "none" /\ outcome \in {"none", "done"} /\ status \in {"ready", "active"}
      /\ pending = <<>> /\ emitting = FALSE /\ block = NoBlock
      /\ Content \in Seq(Nat) => Content \o buffer = submitted
      /\ status = "active" <=> started
  BY <1>1, WhenWritable
<1>4. /\ wire' \in Seq(PlacedParts(Nat)) /\ started'
      /\ wire' # <<>> /\ Shaped(wire')
      /\ wire'[1].checksum = Checked
      /\ wire'[1].contentSize = IF SizeField THEN Pledged ELSE UnknownSize
      /\ NoneLast(wire', Len(wire')) /\ NoChecksum(wire', Len(wire'))
      /\ Content' = Content /\ Content \in Seq(Nat)
  BY <1>1, HeaderKeeps
<1>5. /\ Accounted' /\ submitted' \in Seq(Nat)
      /\ submitted' = submitted \o bytes /\ sourceSize' = sourceSize + Len(bytes)
  BY <1>1, AccountKeeps
<1>6. status' = "active" /\ outcome' \in {"none", "done"} /\ started' = TRUE
  BY <1>1, <1>2, <1>3 DEF SendHeader
<1>7. TypeOK' BY <1>1, <1>2, <1>3, <1>4, <1>5, <1>6 DEF IInv, TypeOK, HeldBack
<1>8. Phases'
  BY <1>2, <1>3, <1>6 DEF Phases, Ending
<1>9. Emission'
  <2>1. HeldBack(bytes) => buffer # <<>>
    BY ConstantsAssumption DEF HeldBack
  <2> QED BY <1>2, <1>3, <2>1 DEF Emission, Ending
<1>10. NotHeldBack'
  <2>1. Pledged = UnknownSize => Len(buffer) < BlockSize
    BY <1>3 DEF IInv, NotHeldBack
  <2>2. Pledged' = Pledged BY <1>1 DEF Pledged
  <2> QED BY <1>2, <2>1, <2>2 DEF NotHeldBack
<1>11. Headed'
  <2>1. Checked' = Checked /\ Pledged' = Pledged BY <1>1 DEF Checked, Pledged
  <2> QED BY <1>4, <2>1 DEF Headed
<1>12. Endings'
  BY <1>2, <1>4, <1>6 DEF Endings, Ended, Ending
<1>13. NothingLost'
  <2>1. Content' \o buffer' \o pending' = submitted' BY <1>2, <1>3, <1>4, <1>5
  <2> QED BY <2>1 DEF NothingLost
<1> QED BY <1>5, <1>7, <1>8, <1>9, <1>10, <1>11, <1>12, <1>13 DEF IInv

\* flush().
LEMMA FlushKeeps ==
  ASSUME IInv, Flush
  PROVE  IInv'
<1>1. Writable /\ SendHeader /\ parameters' = parameters
  BY DEF Flush, BeginFrame
<1>2. /\ status' = (IF started THEN status ELSE "active")
      /\ call' = "flush" /\ pending' = pending /\ emitting' = FlushDue
      /\ buffer' = buffer /\ saving' = saving /\ blockCount' = blockCount
      /\ block' = block /\ outcome' = outcome /\ sourceSize' = sourceSize
      /\ hashed' = hashed /\ submitted' = submitted
  BY DEF Flush, BeginFrame
<1>3. /\ call = "none" /\ outcome \in {"none", "done"} /\ status \in {"ready", "active"}
      /\ pending = <<>> /\ emitting = FALSE /\ block = NoBlock
      /\ Content \in Seq(Nat) => Content \o buffer = submitted
      /\ status = "active" <=> started
  BY <1>1, WhenWritable
<1>4. /\ wire' \in Seq(PlacedParts(Nat)) /\ started'
      /\ wire' # <<>> /\ Shaped(wire')
      /\ wire'[1].checksum = Checked
      /\ wire'[1].contentSize = IF SizeField THEN Pledged ELSE UnknownSize
      /\ NoneLast(wire', Len(wire')) /\ NoChecksum(wire', Len(wire'))
      /\ Content' = Content /\ Content \in Seq(Nat)
  BY <1>1, HeaderKeeps
<1>5. Checked' = Checked /\ Pledged' = Pledged BY <1>1 DEF Checked, Pledged
<1>6. status' = "active" /\ outcome' \in {"none", "done"} /\ started' = TRUE
  BY <1>1, <1>2, <1>3 DEF SendHeader
<1>7. TypeOK' BY <1>1, <1>2, <1>3, <1>4, <1>6 DEF IInv, TypeOK, FlushDue
<1>8. Phases' /\ Accounted'
  BY <1>2, <1>3, <1>5, <1>6 DEF IInv, Phases, Ending, Accounted
<1>9. Emission'
  BY <1>2, <1>3 DEF Emission, Ending, FlushDue
<1>10. NotHeldBack'
  <2>1. Pledged = UnknownSize => Len(buffer) < BlockSize
    BY <1>3 DEF IInv, NotHeldBack
  <2> QED BY <1>2, <1>3, <1>5, <2>1 DEF NotHeldBack, FlushDue
<1>11. Headed' BY <1>4, <1>5 DEF Headed
<1>12. Endings'
  BY <1>2, <1>4, <1>6 DEF Endings, Ended, Ending
<1>13. NothingLost' BY <1>2, <1>3, <1>4, <1>6 DEF IInv, NothingLost
<1> QED BY <1>7, <1>8, <1>9, <1>10, <1>11, <1>12, <1>13 DEF IInv

\* finish(): a broken pledge fails the frame, another ends it.
LEMMA FinishKeeps ==
  ASSUME IInv, Finish
  PROVE  IInv'
<1>1. Writable /\ SendHeader /\ parameters' = parameters BY DEF Finish
<1>2. /\ pending' = pending /\ buffer' = buffer /\ saving' = saving
      /\ blockCount' = blockCount /\ block' = block /\ sourceSize' = sourceSize
      /\ hashed' = hashed /\ submitted' = submitted
  BY DEF Finish
<1>3. /\ call = "none" /\ outcome \in {"none", "done"} /\ status \in {"ready", "active"}
      /\ pending = <<>> /\ emitting = FALSE /\ block = NoBlock
      /\ Content \in Seq(Nat) => Content \o buffer = submitted
      /\ status = "active" <=> started
  BY <1>1, WhenWritable
<1>4. /\ wire' \in Seq(PlacedParts(Nat)) /\ started'
      /\ wire' # <<>> /\ Shaped(wire')
      /\ wire'[1].checksum = Checked
      /\ wire'[1].contentSize = IF SizeField THEN Pledged ELSE UnknownSize
      /\ NoneLast(wire', Len(wire')) /\ NoChecksum(wire', Len(wire'))
      /\ Content' = Content /\ Content \in Seq(Nat)
  BY <1>1, HeaderKeeps
<1>5. Checked' = Checked /\ Pledged' = Pledged BY <1>1 DEF Checked, Pledged
<1>6. started' = TRUE BY <1>1 DEF SendHeader
<1>7. \/ /\ PledgeKept(sourceSize) /\ call' = "finish" /\ emitting' = TRUE
         /\ outcome' = outcome /\ status' = "active"
      \/ /\ status' = "failed" /\ outcome' = "pledge" /\ call' = "none" /\ emitting' = FALSE
  BY <1>3 DEF Finish, EndingCall
<1>8. TypeOK' BY <1>1, <1>2, <1>4, <1>6, <1>7 DEF IInv, TypeOK
<1>9. Phases' /\ Accounted'
  <2>1. PledgeKept(sourceSize) => PledgeKept(sourceSize)' BY <1>2, <1>5 DEF PledgeKept
  <2>2. Phases' BY <2>1, <1>2, <1>3, <1>6, <1>7 DEF Phases, Ending
  <2> QED BY <2>2, <1>2, <1>5 DEF IInv, Accounted
<1>10. Emission' BY <1>2, <1>3, <1>7 DEF Emission, Ending
<1>11. NotHeldBack'
  <2>1. Pledged = UnknownSize => Len(buffer) < BlockSize
    BY <1>3 DEF IInv, NotHeldBack
  <2> QED BY <1>2, <1>5, <1>7, <2>1 DEF NotHeldBack
<1>12. Headed' BY <1>4, <1>5, <1>6 DEF Headed
<1>13. Endings' BY <1>3, <1>4, <1>7 DEF Endings, Ended, Ending
<1>14. NothingLost' BY <1>2, <1>3, <1>4, <1>7 DEF IInv, NothingLost
<1> QED BY <1>8, <1>9, <1>10, <1>11, <1>12, <1>13, <1>14 DEF IInv

\* compress_frame(): all its input waits outside the buffer.
LEMMA CompressFrameKeeps ==
  ASSUME IInv, NEW bytes \in Seq(Nat), CompressFrame(bytes)
  PROVE  IInv'
<1>1. Writable /\ SendHeader /\ Account(bytes) /\ parameters' = parameters /\ status = "ready"
  BY DEF CompressFrame
<1>2. /\ buffer' = buffer /\ saving' = saving /\ blockCount' = blockCount /\ block' = block
      /\ pending' = IF PledgeKept(Len(bytes)) THEN bytes ELSE <<>>
  BY DEF CompressFrame
<1>3. /\ call = "none" /\ outcome \in {"none", "done"} /\ status \in {"ready", "active"}
      /\ pending = <<>> /\ emitting = FALSE /\ block = NoBlock
      /\ Content \in Seq(Nat) => Content \o buffer = submitted
      /\ status = "active" <=> started
  BY <1>1, WhenWritable
<1>4. /\ wire' \in Seq(PlacedParts(Nat)) /\ started'
      /\ wire' # <<>> /\ Shaped(wire')
      /\ wire'[1].checksum = Checked
      /\ wire'[1].contentSize = IF SizeField THEN Pledged ELSE UnknownSize
      /\ NoneLast(wire', Len(wire')) /\ NoChecksum(wire', Len(wire'))
      /\ Content' = Content /\ Content \in Seq(Nat)
  BY <1>1, HeaderKeeps
<1>5. Checked' = Checked /\ Pledged' = Pledged BY <1>1 DEF Checked, Pledged
<1>6. started' = TRUE BY <1>1 DEF SendHeader
<1>7. \/ /\ PledgeKept(Len(bytes)) /\ call' = "frame" /\ emitting' = TRUE /\ pending' = bytes
         /\ outcome' = outcome /\ status' = "active"
      \/ /\ status' = "failed" /\ outcome' = "pledge" /\ call' = "none" /\ emitting' = FALSE
         /\ pending' = <<>>
  BY <1>2, <1>3 DEF CompressFrame, EndingCall
<1>8. /\ Accounted' /\ submitted' \in Seq(Nat)
      /\ submitted' = submitted \o bytes /\ sourceSize' = sourceSize + Len(bytes)
  BY <1>1, AccountKeeps
<1>9. submitted = <<>> /\ buffer = <<>> /\ sourceSize' = Len(bytes)
  <2>1. submitted = <<>> /\ buffer = <<>> BY <1>1 DEF IInv, Phases
  <2>2. sourceSize = 0
    <3>1. Len(<<>>) = 0 OBVIOUS
    <3> QED BY <2>1, <3>1 DEF IInv, Accounted
  <2> QED BY <2>1, <2>2, <1>8
<1>10. TypeOK'
  <2>1. pending' \in Seq(Nat)
    <3>1. <<>> \in Seq(Nat) OBVIOUS
    <3> QED BY <3>1, <1>7
  <2> QED BY <2>1, <1>1, <1>2, <1>4, <1>6, <1>7, <1>8 DEF IInv, TypeOK
<1>11. Phases'
  <2>1. PledgeKept(Len(bytes)) => PledgeKept(sourceSize)' BY <1>5, <1>9 DEF PledgeKept
  <2> QED BY <2>1, <1>2, <1>3, <1>6, <1>7, <1>9 DEF Phases, Ending
<1>12. Emission' BY <1>2, <1>3, <1>7 DEF Emission, Ending
<1>13. NotHeldBack'
  <2>1. Pledged = UnknownSize => Len(buffer) < BlockSize
    BY <1>3 DEF IInv, NotHeldBack
  <2> QED BY <1>2, <1>5, <1>7, <2>1 DEF NotHeldBack
<1>14. Headed' BY <1>4, <1>5, <1>6 DEF Headed
<1>15. Endings' BY <1>3, <1>4, <1>7 DEF Endings, Ended, Ending
<1>16. NothingLost'
  <2> DEFINE c == Content
  <2>1. c \o buffer = submitted /\ c \in Seq(Nat) BY <1>3, <1>4
  <2>2. Content' = c BY <1>4
  <2> HIDE DEF c
  <2>3. c \o buffer \o bytes = submitted \o bytes BY <2>1
  <2> QED BY <2>2, <2>3, <1>2, <1>7, <1>8 DEF NothingLost
<1> QED BY <1>8, <1>10, <1>11, <1>12, <1>13, <1>14, <1>15, <1>16 DEF IInv

\* reset(): the hash keeps the bytes of its buffer, and no more.
LEMMA ResetKeeps ==
  ASSUME IInv, Reset
  PROVE  IInv'
<1>1. /\ call = "none" /\ parameters' = parameters
      /\ buffer' = <<>> /\ sourceSize' = 0 /\ started' = FALSE /\ hashed' = Cleared(hashed)
      /\ saving' = FALSE /\ blockCount' = 0 /\ status' = "ready" /\ wire' = <<>>
      /\ outcome' = "none" /\ submitted' = <<>>
      /\ call' = call /\ pending' = pending /\ emitting' = emitting /\ block' = block
  BY DEF Reset
<1>2. pending = <<>> /\ emitting = FALSE /\ block = NoBlock
  BY <1>1 DEF IInv, Phases, TypeOK
<1>3. Len(<<>>) = 0 /\ <<>> \in Seq(Nat) /\ <<>> \in Seq(PlacedParts(Nat)) /\ <<>> \o <<>> = <<>>
  OBVIOUS
<1>4. Checked' = Checked /\ Pledged' = Pledged BY <1>1 DEF Checked, Pledged
<1>5. TypeOK'
  <2>1. 0 <= BlockSize BY ConstantsAssumption
  <2> QED BY <1>1, <1>3, <2>1 DEF IInv, TypeOK
<1>6. Accounted'
  <2>1. HashOf(Cleared(hashed), <<>>, Nat)
    <3>1. HashOf(hashed, IF Checked THEN submitted ELSE <<>>, Nat) BY DEF IInv, Accounted
    <3> QED BY <3>1, ClearedHolds
  <2> QED BY <2>1, <1>1, <1>3, <1>4 DEF Accounted
<1>7. Phases' BY <1>1, <1>2 DEF Phases, Ending
<1>8. Emission' BY <1>1, <1>2 DEF Emission, Ending
<1>9. NotHeldBack' BY <1>1, <1>2, <1>3, ConstantsAssumption DEF NotHeldBack
<1>10. Headed' BY <1>1, <1>3 DEF Headed, Shaped
<1>11. Endings' BY <1>1, <1>3 DEF Endings, Ended, Ending, NoChecksum, NoneLast
<1>12. NothingLost'
  <2>1. Content' = <<>> BY <1>1, <1>3, ContentEmpty DEF Content
  <2> QED BY <2>1, <1>1, <1>2, <1>3 DEF NothingLost
<1> QED BY <1>5, <1>6, <1>7, <1>8, <1>9, <1>10, <1>11, <1>12 DEF IInv

\* What an update puts into the buffer leaves the input.
LEMMA TakeInputKeeps ==
  ASSUME IInv, TakeInput
  PROVE  IInv'
<1> DEFINE count == IF Len(pending) < Space THEN Len(pending) ELSE Space
           first == SubSeq(pending, 1, count)
           rest == SubSeq(pending, count + 1, Len(pending))
<1>1. /\ call = "update" /\ emitting = FALSE /\ pending # <<>>
      /\ buffer' = buffer \o first /\ pending' = rest
      /\ emitting' = (count = Space /\ ~PledgedFinalBlock(rest))
      /\ parameters' = parameters /\ sourceSize' = sourceSize /\ started' = started
      /\ hashed' = hashed /\ saving' = saving /\ blockCount' = blockCount
      /\ status' = status /\ wire' = wire /\ call' = call /\ block' = block
      /\ outcome' = outcome /\ submitted' = submitted
  BY DEF TakeInput, frameVars, IInv, TypeOK
<1>2. /\ buffer \in Seq(Nat) /\ pending \in Seq(Nat) /\ Len(buffer) <= BlockSize
      /\ block = NoBlock /\ status = "active" /\ outcome \in {"none", "done"} /\ started = TRUE
  BY <1>1 DEF IInv, TypeOK, Phases, Emission
<1>3. /\ BlockSize \in Nat \ {0} /\ Len(buffer) \in Nat /\ Len(pending) \in Nat
      /\ Space \in Nat /\ Space = BlockSize - Len(buffer)
  BY <1>2, ConstantsAssumption DEF Space
<1>4. count \in 0..Len(pending) /\ count <= Space BY <1>3
<1> HIDE DEF count
<1>5. first \in Seq(Nat) /\ Len(first) = count /\ rest \in Seq(Nat) /\ first \o rest = pending
  BY <1>2, <1>4, Split
<1> HIDE DEF first, rest
<1>6. buffer' \in Seq(Nat) /\ Len(buffer') = Len(buffer) + count /\ Len(buffer') <= BlockSize
  <2>1. buffer \o first \in Seq(Nat) /\ Len(buffer \o first) = Len(buffer) + Len(first)
    BY <1>2, <1>5, Concatenated
  <2>2. Len(buffer) + count <= BlockSize BY <1>3, <1>4
  <2> QED BY <2>1, <2>2, <1>1, <1>5
<1>7. Checked' = Checked /\ Pledged' = Pledged BY <1>1 DEF Checked, Pledged
<1>8. TypeOK' BY <1>1, <1>5, <1>6 DEF IInv, TypeOK
<1>9. Accounted' BY <1>1, <1>7 DEF IInv, Accounted
<1>10. Phases' BY <1>1, <1>2 DEF Phases, Ending
<1>11. Emission'
  <2>1. emitting' => buffer' # <<>>
    <3>3. emitting' => count = Space BY <1>1
    <3>1. emitting' => Len(buffer') = BlockSize BY <3>3, <1>3, <1>4, <1>6
    <3>2. Len(<<>>) = 0 OBVIOUS
    <3> QED BY <3>1, <3>2, <1>3
  <2> QED BY <2>1, <1>1, <1>2 DEF Emission, Ending
<1>12. NotHeldBack'
  <2>1. Pledged = UnknownSize => ~PledgedFinalBlock(rest) BY DEF PledgedFinalBlock
  <2>2. Pledged = UnknownSize => Len(buffer') < BlockSize \/ emitting'
    <3>1. count # Space => Len(buffer') < BlockSize BY <1>3, <1>4, <1>6
    <3> QED BY <3>1, <2>1, <1>1
  <2> QED BY <2>2, <1>1, <1>7 DEF NotHeldBack
<1>13. Headed' BY <1>1, <1>7 DEF IInv, Headed
<1>14. Endings'
  <2>1. NoneLast(wire, Len(wire)) /\ NoChecksum(wire, Len(wire))
    BY <1>1, <1>2 DEF IInv, Endings, Ended, Ending
  <2> QED BY <2>1, <1>1, <1>2 DEF Endings, Ended, Ending
<1>15. NothingLost'
  <2> DEFINE c == Content
  <2>1. c \o buffer \o pending = submitted BY <1>2 DEF IInv, NothingLost
  <2>2. c \in Seq(Nat)
    <3>1. \A p \in PlacedParts(Nat) : BytesOf(p) \in Seq(Nat) BY PartsTyped
    <3>2. wire \in Seq(PlacedParts(Nat)) BY DEF IInv, TypeOK
    <3> QED BY <3>1, <3>2, ContentTyped DEF Content
  <2>3. Content' = c BY <1>1 DEF Content
  <2> HIDE DEF c
  <2>4. c \o (buffer \o first) \o rest = c \o buffer \o (first \o rest)
    <3> DEFINE b == buffer
               d == c \o b
    <3>0. b \in Seq(Nat) /\ first \in Seq(Nat) /\ rest \in Seq(Nat) BY <1>2, <1>5
    <3> HIDE DEF b
    <3>1. c \o (b \o first) = d \o first BY <2>2, <3>0
    <3>2. d \in Seq(Nat) BY <2>2, <3>0
    <3> HIDE DEF d
    <3>3. (d \o first) \o rest = d \o (first \o rest) BY <3>2, <3>0, SMTT(30)
    <3> USE DEF b, d
    <3> QED BY <3>1, <3>3
  <2> QED BY <2>1, <2>3, <2>4, <1>1, <1>5 DEF NothingLost
<1> QED BY <1>8, <1>9, <1>10, <1>11, <1>12, <1>13, <1>14, <1>15 DEF IInv

\* What an emission has before it.
LEMMA WhenEmitting ==
  ASSUME IInv, emitting = TRUE
  PROVE  /\ call \in {"update", "flush", "finish", "frame"} /\ started = TRUE
         /\ status = "active" /\ outcome \in {"none", "done"} /\ ~Ended
         /\ wire \in Seq(PlacedParts(Nat)) /\ wire # <<>> /\ Shaped(wire)
         /\ NoneLast(wire, Len(wire)) /\ NoChecksum(wire, Len(wire))
         /\ Waiting \in Seq(Nat) /\ Len(Waiting) \in Nat
         /\ call # "frame" => Waiting = buffer
         /\ call = "frame" => Waiting = pending /\ buffer = <<>>
         /\ Content \in Seq(Nat)
<1>1. call \in {"update", "flush", "finish", "frame"} BY DEF IInv, Phases, TypeOK
<1>2. /\ status = "active" /\ outcome \in {"none", "done"} /\ started = TRUE
  BY <1>1 DEF IInv, Phases, TypeOK
<1>3. ~Ended BY DEF Ended
<1>4. NoneLast(wire, Len(wire)) /\ NoChecksum(wire, Len(wire))
  BY <1>2, <1>3 DEF IInv, Endings
<1>5. /\ wire \in Seq(PlacedParts(Nat)) /\ wire # <<>> /\ Shaped(wire)
  BY <1>2 DEF IInv, TypeOK, Headed
<1>6. /\ Waiting \in Seq(Nat)
      /\ call # "frame" => Waiting = buffer
      /\ call = "frame" => Waiting = pending /\ buffer = <<>>
  BY DEF IInv, TypeOK, Waiting, Phases
<1>7. Len(Waiting) \in Nat BY <1>6
<1>8. Content \in Seq(Nat)
  <2>1. \A p \in PlacedParts(Nat) : BytesOf(p) \in Seq(Nat) BY PartsTyped
  <2> QED BY <2>1, <1>5, ContentTyped DEF Content
<1> QED BY <1>1, <1>2, <1>3, <1>4, <1>5, <1>6, <1>7, <1>8

\* A block is at most what waits.
LEMMA SelectBlockKeeps ==
  ASSUME IInv, SelectBlock
  PROVE  IInv'
<1>1. /\ emitting = TRUE /\ block = NoBlock
      /\ parameters' = parameters /\ buffer' = buffer /\ sourceSize' = sourceSize
      /\ started' = started /\ hashed' = hashed /\ saving' = saving
      /\ blockCount' = blockCount /\ status' = status /\ wire' = wire /\ call' = call
      /\ pending' = pending /\ emitting' = emitting /\ outcome' = outcome
      /\ submitted' = submitted
  BY DEF SelectBlock, frameVars, IInv, TypeOK
<1>2. PICK size \in BlockSizes : block' = [left |-> size, last |-> IsLast(size)]
  BY DEF SelectBlock
<1>3. /\ call \in {"update", "flush", "finish", "frame"} /\ outcome \in {"none", "done"}
      /\ Waiting \in Seq(Nat) /\ Len(Waiting) \in Nat
      /\ call # "frame" => Waiting = buffer
  BY <1>1, WhenEmitting
<1>4. BlockSize \in Nat \ {0} BY ConstantsAssumption
<1>5. /\ size \in 0..Len(Waiting) /\ (Len(Waiting) # 0 => size > 0)
      /\ Len(Waiting) < BlockSize => size = Len(Waiting)
  <2> DEFINE n == Len(Waiting)
             whole == IF n < BlockSize THEN n ELSE BlockSize
  <2>1. whole \in Nat /\ whole <= n /\ (n # 0 => whole > 0) /\ (n < BlockSize => whole = n)
        /\ (n < BlockSize => whole # BlockSize)
    BY <1>3, <1>4
  <2>2. size \in {whole} \cup (IF Splitting /\ saving /\ whole = BlockSize THEN 1..whole ELSE {})
    BY DEF BlockSizes
  <2>3. n \in Nat BY <1>3
  <2> HIDE DEF n, whole
  <2>4. size = whole \/ (size \in 1..whole /\ whole = BlockSize) BY <2>2
  <2>5. size \in 0..n /\ (n # 0 => size > 0) /\ (n < BlockSize => size = n)
    BY <2>1, <2>3, <2>4
  <2> QED BY <2>5 DEF n
<1>6. /\ block'.left = size /\ block' # NoBlock /\ block' \in [left : Int, last : BOOLEAN]
      /\ block'.last <=> (Ending /\ size = Len(Waiting))
  <2>1. IsLast(size) \in BOOLEAN BY DEF IsLast
  <2>2. size \in Int /\ size # -1 BY <1>3, <1>5
  <2>3. block'.left = size /\ (block'.last <=> IsLast(size)) BY <1>2
  <2>4. block' # NoBlock BY <2>2, <2>3 DEF NoBlock
  <2>5. block' \in [left : Int, last : BOOLEAN] BY <1>2, <2>1, <2>2
  <2> QED BY <2>3, <2>4, <2>5 DEF IsLast, Ending
<1>7. Checked' = Checked /\ Pledged' = Pledged /\ Waiting' = Waiting /\ Ending' = Ending
  BY <1>1 DEF Checked, Pledged, Waiting, Ending
<1>8. TypeOK' BY <1>1, <1>6 DEF IInv, TypeOK
<1>9. Accounted' /\ Headed' BY <1>1, <1>7 DEF IInv, Accounted, Headed
<1>10. Phases'
  <2>1. PledgeKept(sourceSize)' <=> PledgeKept(sourceSize) BY <1>1, <1>7 DEF PledgeKept
  <2> QED BY <2>1, <1>1, <1>3, <1>7 DEF IInv, Phases
<1>11. Emission'
  <2>1. ~Ending => buffer # <<>> /\ size > 0
    <3>1. ~Ending => call # "frame" /\ buffer # <<>> BY <1>1 DEF IInv, Emission, Ending
    <3>2. buffer # <<>> => Len(buffer) # 0 BY DEF IInv, TypeOK
    <3> QED BY <3>1, <3>2, <1>3, <1>5
  <2> QED BY <2>1, <1>1, <1>5, <1>6, <1>7 DEF Emission
<1>12. NotHeldBack'
  <2>1. Pledged = UnknownSize /\ call = "flush" => size = Len(buffer)
    BY <1>1, <1>3, <1>5 DEF IInv, NotHeldBack
  <2> QED BY <2>1, <1>1, <1>6, <1>7 DEF IInv, NotHeldBack
<1>13. Endings' BY <1>1, <1>7 DEF IInv, Endings, Ended
<1>14. NothingLost' BY <1>1 DEF IInv, NothingLost, Content
<1> QED BY <1>8, <1>9, <1>10, <1>11, <1>12, <1>13, <1>14 DEF IInv

\* update() and flush() return.
LEMMA ReturnsKeeps ==
  ASSUME IInv, Returns
  PROVE  IInv'
<1>1. /\ call \in {"update", "flush"} /\ emitting = FALSE /\ pending = <<>>
      /\ call' = "none" /\ outcome' = "done"
      /\ parameters' = parameters /\ buffer' = buffer /\ sourceSize' = sourceSize
      /\ started' = started /\ hashed' = hashed /\ saving' = saving
      /\ blockCount' = blockCount /\ status' = status /\ wire' = wire
      /\ pending' = pending /\ emitting' = emitting /\ block' = block
      /\ submitted' = submitted
  BY DEF Returns, frameVars, IInv, TypeOK
<1>2. /\ block = NoBlock /\ started = TRUE /\ status = "active" /\ outcome \in {"none", "done"}
  BY <1>1 DEF IInv, Phases, Emission, TypeOK
<1>3. Checked' = Checked /\ Pledged' = Pledged BY <1>1 DEF Checked, Pledged
<1>4. TypeOK' BY <1>1 DEF IInv, TypeOK
<1>5. Accounted' /\ Headed' BY <1>1, <1>2, <1>3 DEF IInv, Accounted, Headed
<1>6. Phases' BY <1>1, <1>2 DEF Phases, Ending
<1>7. Emission' BY <1>1, <1>2 DEF Emission
<1>8. NotHeldBack' BY <1>1, <1>2, <1>3 DEF IInv, NotHeldBack
<1>9. Endings'
  <2>1. NoneLast(wire, Len(wire)) /\ NoChecksum(wire, Len(wire))
    BY <1>1, <1>2 DEF IInv, Endings, Ended, Ending
  <2> QED BY <2>1, <1>1, <1>2 DEF Endings, Ended, Ending
<1>10. NothingLost' BY <1>1, <1>2 DEF IInv, NothingLost, Content
<1> QED BY <1>4, <1>5, <1>6, <1>7, <1>8, <1>9, <1>10 DEF IInv

\* Every form of a block makes a block header and a payload.
LEMMA FormsTyped ==
  ASSUME NEW bytes \in Seq(Nat), NEW form \in Forms(bytes), NEW last \in BOOLEAN
  PROVE  /\ BlockHeader(form.type, form.length, last) \in BlockParts
         /\ Payload(form.length, bytes) \in PayloadParts(Nat)
<1>1. form.type \in {"raw", "run_length", "compressed"} /\ form.length \in Nat
  BY DEF Forms
<1> QED BY <1>1 DEF BlockParts, PayloadParts

\* A block, or a partition of it, goes from what waits to the wire.
LEMMA EmitPartKeeps ==
  ASSUME IInv, EmitPart
  PROVE  IInv'
<1>1. /\ emitting = TRUE /\ block # NoBlock /\ blockCount' = 1
      /\ parameters' = parameters /\ sourceSize' = sourceSize
      /\ started' = started /\ hashed' = hashed /\ status' = status /\ call' = call
      /\ outcome' = outcome /\ submitted' = submitted
  BY DEF EmitPart, frameVars, IInv, TypeOK
<1>2. PICK size \in PartSizes :
        /\ \E form \in Forms(SubSeq(Waiting, 1, size)) :
             /\ Send(SubSeq(Waiting, 1, size), block.last /\ size = block.left, form)
             /\ saving' \in Saved(form)
        /\ IF call = "frame" THEN pending' = Rest(size) /\ UNCHANGED buffer
                             ELSE buffer' = Rest(size) /\ UNCHANGED pending
        /\ block' = IF size = block.left THEN NoBlock ELSE [block EXCEPT !.left = @ - size]
        /\ emitting' = (~(size = block.left)
                        \/ (call \in {"finish", "frame"} /\ Rest(size) # <<>>))
  BY DEF EmitPart
<1>3. /\ call \in {"update", "flush", "finish", "frame"} /\ started = TRUE
      /\ status = "active" /\ outcome \in {"none", "done"} /\ ~Ended
      /\ wire \in Seq(PlacedParts(Nat)) /\ wire # <<>> /\ Shaped(wire)
      /\ NoneLast(wire, Len(wire)) /\ NoChecksum(wire, Len(wire))
      /\ Waiting \in Seq(Nat) /\ Len(Waiting) \in Nat
      /\ call # "frame" => Waiting = buffer
      /\ call = "frame" => Waiting = pending /\ buffer = <<>>
      /\ Content \in Seq(Nat)
  BY <1>1, WhenEmitting
<1>4. /\ block.left \in 0..Len(Waiting) /\ block \in [left : Int, last : BOOLEAN]
      /\ block.last <=> (Ending /\ block.left = Len(Waiting))
      /\ ~Ending => buffer # <<>> /\ block.left > 0
  BY <1>1 DEF IInv, Emission, TypeOK
<1>5. size \in 0..block.left /\ (size # block.left => size > 0)
  <2>1. size = block.left \/ size \in 1..block.left BY DEF PartSizes
  <2> QED BY <2>1, <1>3, <1>4
<1>6. size \in 0..Len(Waiting) BY <1>3, <1>4, <1>5
<1> DEFINE bytes == SubSeq(Waiting, 1, size)
           rest == Rest(size)
           done == size = block.left
           last == block.last /\ done
<1>7. /\ bytes \in Seq(Nat) /\ Len(bytes) = size
      /\ rest \in Seq(Nat) /\ Len(rest) = Len(Waiting) - size
      /\ bytes \o rest = Waiting
  <2> DEFINE w == Waiting
  <2>1. w \in Seq(Nat) /\ size \in 0..Len(w) BY <1>3, <1>6
  <2>2. bytes = SubSeq(w, 1, size) /\ rest = SubSeq(w, size + 1, Len(w)) BY DEF Rest
  <2> HIDE DEF w, bytes, rest
  <2>3. /\ bytes \in Seq(Nat) /\ Len(bytes) = size
        /\ rest \in Seq(Nat) /\ Len(rest) = Len(w) - size
        /\ bytes \o rest = w
    BY <2>1, <2>2, Split
  <2> QED BY <2>3 DEF w
<1>8. PICK form \in Forms(bytes) :
        /\ wire' = Extended(Extended(wire, BlockHeader(form.type, form.length, last)),
                            Payload(form.length, bytes))
        /\ saving' \in Saved(form)
  BY <1>2 DEF Send
<1> DEFINE h == BlockHeader(form.type, form.length, last)
           p == Payload(form.length, bytes)
<1>9. h \in BlockParts /\ p \in PayloadParts(Nat)
  <2>1. last \in BOOLEAN BY <1>4
  <2> HIDE DEF bytes, last
  <2> QED BY <2>1, <1>7, <1>8, FormsTyped
<1>10. (h.last <=> last) /\ p.bytes = bytes BY DEF BlockHeader, Payload
<1>11. wire' = Extended(Extended(wire, h), p) BY <1>8
<1> HIDE DEF h, p, bytes, rest
<1>12. /\ wire' \in Seq(PlacedParts(Nat)) /\ wire' # <<>> /\ wire'[1] = wire[1]
       /\ Shaped(wire') /\ NoChecksum(wire', Len(wire'))
       /\ h.last => LastSent(wire', Len(wire'))
       /\ ~h.last => NoneLast(wire', Len(wire'))
       /\ ContentOf(wire', 1, Len(wire')) = ContentOf(wire, 1, Len(wire)) \o p.bytes
  <2> DEFINE w == wire
             v == Extended(Extended(w, h), p)
  <2>1. /\ w \in Seq(PlacedParts(Nat)) /\ w # <<>> /\ Shaped(w)
        /\ NoneLast(w, Len(w)) /\ NoChecksum(w, Len(w))
    BY <1>3
  <2> HIDE DEF w
  <2>2. /\ v \in Seq(PlacedParts(Nat)) /\ v # <<>> /\ v[1] = w[1]
        /\ Shaped(v) /\ NoChecksum(v, Len(v))
        /\ h.last => LastSent(v, Len(v))
        /\ ~h.last => NoneLast(v, Len(v))
        /\ ContentOf(v, 1, Len(v)) = ContentOf(w, 1, Len(w)) \o p.bytes
    BY <2>1, <1>9, BlockSent
  <2>3. wire' = v BY <1>11 DEF w
  <2> HIDE DEF v
  <2> QED BY <2>2, <2>3 DEF w
<1>13. Checked' = Checked /\ Pledged' = Pledged /\ Ending' = Ending
  BY <1>1 DEF Checked, Pledged, Ending
<1>14. /\ call = "frame" => pending' = rest /\ buffer' = buffer
       /\ call # "frame" => buffer' = rest /\ pending' = pending
       /\ Waiting' = rest
       /\ done => block' = NoBlock
       /\ ~done => block' = [block EXCEPT !.left = @ - size]
       /\ emitting' = (~done \/ (Ending /\ rest # <<>>))
  BY <1>1, <1>2 DEF Waiting, Ending, rest
<1>15. /\ ~done => /\ block'.left = block.left - size /\ (block'.last <=> block.last)
                   /\ block'.left > 0
       /\ block' \in [left : Int, last : BOOLEAN]
  <2>1. NoBlock \in [left : Int, last : BOOLEAN] BY DEF NoBlock
  <2>2. block.left \in Int /\ size \in Int BY <1>3, <1>4, <1>5
  <2>3. ~done => /\ block'.left = block.left - size /\ (block'.last <=> block.last)
                 /\ block' \in [left : Int, last : BOOLEAN]
    BY <2>2, <1>4, <1>14
  <2> QED BY <2>1, <2>2, <2>3, <1>5, <1>14
<1>16. saving' \in BOOLEAN
  <2>1. saving \in BOOLEAN BY DEF IInv, TypeOK
  <2> QED BY <2>1, <1>8 DEF Saved
<1> HIDE DEF done, last
<1>17. buffer' \in Seq(Nat) /\ pending' \in Seq(Nat) /\ Len(buffer') <= BlockSize
  <2>1. Len(buffer) <= BlockSize /\ buffer \in Seq(Nat) /\ pending \in Seq(Nat)
    BY DEF IInv, TypeOK
  <2>2. call # "frame" => Len(rest) <= BlockSize
    BY <2>1, <1>3, <1>6, <1>7, ConstantsAssumption
  <2> QED BY <2>1, <2>2, <1>7, <1>14
<1>18. emitting' \in BOOLEAN BY <1>14
<1>19. TypeOK'
  BY <1>1, <1>12, <1>15, <1>16, <1>17, <1>18 DEF IInv, TypeOK
<1>20. Accounted' BY <1>1, <1>13 DEF IInv, Accounted
<1>21. Phases'
  <2>1. PledgeKept(sourceSize)' <=> PledgeKept(sourceSize) BY <1>1, <1>13 DEF PledgeKept
  <2>2. call \in {"flush", "finish"} => pending' = <<>>
    BY <1>14 DEF IInv, Phases
  <2>3. call = "frame" => buffer' = <<>> BY <1>3, <1>14
  <2> QED BY <2>1, <2>2, <2>3, <1>1, <1>3, <1>13 DEF IInv, Phases
<1>22. Emission'
  <2>1. CASE ~done
    <3>1. emitting' /\ block'.left = block.left - size /\ block'.left > 0
          /\ (block'.last <=> block.last)
      BY <2>1, <1>14, <1>15
    <3>2. block'.left \in 0..Len(Waiting')
      <4>1. Len(Waiting') = Len(Waiting) - size BY <1>7, <1>14
      <4>2. Len(Waiting) \in Nat /\ block.left \in 0..Len(Waiting) /\ size \in 0..block.left
        BY <1>3, <1>4, <1>5
      <4>3. block.left - size \in 0..(Len(Waiting) - size) BY <4>2
      <4> QED BY <3>1, <4>1, <4>3
    <3>3. block'.left = Len(Waiting') <=> block.left = Len(Waiting)
      <4>1. block'.left = block.left - size BY <3>1
      <4>2. Len(Waiting') = Len(Waiting) - size BY <1>7, <1>14
      <4>3. Len(Waiting) \in Nat /\ block.left \in Int /\ size \in Int BY <1>3, <1>4, <1>5
      <4> QED BY <4>1, <4>2, <4>3
    <3>4. ~Ending => buffer' # <<>>
      <4>1. Len(Waiting') # 0 BY <3>1, <3>2
      <4>2. Len(<<>>) = 0 OBVIOUS
      <4>3. ~Ending => Waiting' = buffer' BY <1>3, <1>14 DEF Ending
      <4> QED BY <4>1, <4>2, <4>3
    <3> QED BY <3>1, <3>2, <3>3, <3>4, <1>4, <1>13 DEF Emission
  <2>2. CASE done BY <2>2, <1>13, <1>14 DEF Emission
  <2> QED BY <2>1, <2>2
<1>23. NotHeldBack'
  <2>1. CASE Pledged = UnknownSize
    <3>1. Len(buffer) < BlockSize \/ (call = "update" /\ emitting)
      BY <2>1, <1>3 DEF IInv, NotHeldBack
    <3>2. Len(buffer') < BlockSize
      <4>1. CASE call = "frame" BY <4>1, <3>1, <1>14
      <4>2. CASE call # "frame"
        <5>1. Len(buffer) \in Nat /\ Len(buffer') = Len(buffer) - size /\ Len(buffer) <= BlockSize
              /\ BlockSize \in Nat
          BY <4>2, <1>3, <1>7, <1>14, ConstantsAssumption DEF IInv, TypeOK
        <5>2. call = "update" => size > 0
          <6>1. call = "update" => block.left > 0 BY <1>4 DEF Ending
          <6> QED BY <6>1, <1>5
        <5>3. size \in Nat BY <1>6
        <5> QED BY <5>1, <5>2, <5>3, <3>1
      <4> QED BY <4>1, <4>2
    <3>3. CASE call = "flush"
      <4>1. block.left = Len(buffer) /\ Waiting = buffer /\ buffer' = rest
        BY <2>1, <3>3, <1>1, <1>3, <1>14 DEF IInv, NotHeldBack
      <4>2. ~done => block'.left = Len(buffer') BY <4>1, <1>7, <1>15
      <4>3. done => buffer' = <<>>
        <5>1. done => Len(rest) = 0 BY <4>1, <1>7, <1>3 DEF done
        <5> QED BY <5>1, <4>1, <1>7
      <4>4. block' # NoBlock => ~done BY <1>14
      <4>5. ~emitting' => done BY <1>14
      <4> QED BY <4>2, <4>3, <4>4, <4>5, <3>2 DEF NotHeldBack
    <3>4. CASE call # "flush" BY <3>2, <3>4, <1>1 DEF NotHeldBack
    <3> QED BY <3>3, <3>4
  <2>2. CASE Pledged # UnknownSize BY <2>2, <1>13 DEF NotHeldBack
  <2> QED BY <2>1, <2>2
<1>24. Headed' BY <1>1, <1>3, <1>12, <1>13 DEF IInv, Headed
<1>25. Endings'
  <2>1. Ended' => last /\ rest = <<>>
    <3>1. Ended' => Ending /\ done /\ rest = <<>> BY <1>13, <1>14 DEF Ended
    <3>2. Len(<<>>) = 0 OBVIOUS
    <3>3. rest = <<>> => size = Len(Waiting) BY <3>2, <1>3, <1>6, <1>7
    <3> QED BY <3>1, <3>3, <1>4 DEF last, done
  <2>2. last => Ended'
    <3>1. last => Ending /\ done /\ size = Len(Waiting) BY <1>4 DEF last, done
    <3>2. size = Len(Waiting) => rest = <<>>
      <4>1. size = Len(Waiting) => Len(rest) = 0 BY <1>3, <1>7
      <4> QED BY <4>1, <1>7
    <3> QED BY <3>1, <3>2, <1>13, <1>14 DEF Ended
  <2>3. (Ended' => Waiting' = <<>> /\ LastSent(wire', Len(wire')))
        /\ (~Ended' => NoneLast(wire', Len(wire')))
    BY <2>1, <2>2, <1>10, <1>12, <1>14
  <2> QED BY <2>3, <1>1, <1>3, <1>12 DEF Endings
<1>26. NothingLost'
  <2> DEFINE c == Content
  <2>1. c \o buffer \o pending = submitted BY <1>3 DEF IInv, NothingLost
  <2>2. Content' = c \o bytes BY <1>10, <1>12 DEF Content
  <2>3. c \in Seq(Nat) /\ buffer \in Seq(Nat) /\ pending \in Seq(Nat)
    BY <1>3 DEF IInv, TypeOK
  <2> HIDE DEF c
  <2>6. (c \o bytes) \o rest = c \o (bytes \o rest)
    <3>1. c \in Seq(Nat) /\ bytes \in Seq(Nat) /\ rest \in Seq(Nat) BY <2>3, <1>7
    <3> QED BY <3>1, Associative
  <2>4. CASE call = "frame"
    <3>1. (c \o bytes) \o <<>> = c \o bytes /\ c \o <<>> = c BY <2>3, <1>7
    <3>2. (c \o bytes) \o rest = c \o (bytes \o rest) BY <2>6
    <3> QED BY <2>1, <2>2, <2>4, <3>1, <3>2, <1>1, <1>3, <1>7, <1>14 DEF NothingLost
  <2>5. CASE call # "frame"
    <3>1. (c \o bytes) \o rest = c \o (bytes \o rest) BY <2>6
    <3> QED BY <2>1, <2>2, <2>5, <3>1, <1>1, <1>3, <1>7, <1>14 DEF NothingLost
  <2> QED BY <2>4, <2>5
<1> QED BY <1>19, <1>20, <1>21, <1>22, <1>23, <1>24, <1>25, <1>26 DEF IInv

\* What the checksum adds.
LEMMA ChecksumSent ==
  ASSUME NEW B, NEW w \in Seq(PlacedParts(B)), Shaped(w), w # <<>>, NEW d \in ChecksumParts(B)
  PROVE  LET v == Extended(w, d)
         IN  /\ v \in Seq(PlacedParts(B)) /\ Len(w) \in Nat /\ Len(v) = Len(w) + 1
             /\ v # <<>>
             /\ \A k \in 1..Len(w) : v[k] = w[k]
             /\ v[Len(v)].kind = "checksum" /\ v[Len(v)].of = d.of
             /\ Shaped(v)
             /\ ContentOf(v, 1, Len(v)) = ContentOf(w, 1, Len(w))
<1> DEFINE v == Extended(w, d)
           n == Len(w)
           e == EncodedLength(w)
           c == ContentOf(w, 1, n)
<1>1. d \in Parts(B) BY DEF Parts
<1>2. /\ v \in Seq(PlacedParts(B)) /\ n \in Nat /\ Len(v) = n + 1
      /\ \A k \in 1..n : v[k] = w[k]
      /\ v[Len(v)] = Placed(d, e)
      /\ c \in Seq(B)
      /\ ContentOf(v, 1, Len(v)) = c \o BytesOf(v[Len(v)])
  BY <1>1, WireExtended
<1> HIDE DEF v
<1>3. v[n + 1].at = e /\ v[n + 1].kind = "checksum" /\ v[n + 1].of = d.of
      /\ BytesOf(v[n + 1]) = <<>>
  <2>1. PICK h : d = Checksum(h) BY DEF ChecksumParts
  <2>2. d.of = h BY <2>1 DEF Checksum
  <2>3. v[n + 1].at = e /\ v[n + 1].kind = "checksum" /\ v[n + 1].of = h
    BY <1>2, <2>1, ChecksumPlaced
  <2> QED BY <2>2, <2>3 DEF BytesOf
<1>4. e >= EndOf(w[1]) /\ n >= 1 BY EndIsBehindHeader
<1>5. Shaped(v)
  <2> HIDE DEF n, e
  <2>1. v[1] = w[1] /\ w[1].kind = "header" BY <1>2, <1>4 DEF Shaped
  <2>2. ASSUME NEW k \in 1..Len(v)
        PROVE  /\ k > 1 => v[k].kind # "header" /\ v[k].at >= EndOf(v[1])
               /\ v[k].kind = "payload" => k > 1 /\ v[k - 1].kind = "block"
    <3>1. CASE k = n + 1 BY <3>1, <2>1, <1>3, <1>4
    <3>2. CASE k \in 1..n
      <4>1. v[k] = w[k] /\ (k > 1 => v[k - 1] = w[k - 1]) BY <3>2, <1>2
      <4> QED BY <4>1, <3>2, <2>1, <1>2 DEF Shaped, n
    <3> QED BY <3>1, <3>2, <1>2
  <2> QED BY <2>1, <2>2 DEF Shaped
<1>6. ContentOf(v, 1, Len(v)) = c
  <2> HIDE DEF c
  <2> QED BY <1>3, <1>2
<1>7. v # <<>> BY <1>2
<1> QED BY <1>2, <1>3, <1>5, <1>6, <1>7 DEF v

\* finish() and compress_frame() return.
LEMMA EndFrameKeeps ==
  ASSUME IInv, EndFrame
  PROVE  IInv'
<1>1. /\ call \in {"finish", "frame"} /\ emitting = FALSE
      /\ status' = "finished" /\ call' = "none" /\ outcome' = "done"
      /\ parameters' = parameters /\ buffer' = buffer /\ sourceSize' = sourceSize
      /\ started' = started /\ hashed' = hashed /\ saving' = saving
      /\ blockCount' = blockCount /\ pending' = pending /\ emitting' = emitting
      /\ block' = block /\ submitted' = submitted
  BY DEF EndFrame, frameVars, IInv, TypeOK
<1>2. /\ block = NoBlock /\ started = TRUE /\ status = "active" /\ outcome \in {"none", "done"}
      /\ PledgeKept(sourceSize)
  BY <1>1 DEF IInv, Phases, Emission, TypeOK, Ending
<1>3. buffer = <<>> /\ pending = <<>> /\ LastSent(wire, Len(wire)) /\ NoChecksum(wire, Len(wire))
  BY <1>1, <1>2 DEF IInv, Phases, Endings, Ended, Ending, Waiting
<1>4. Checked' = Checked /\ Pledged' = Pledged BY <1>1 DEF Checked, Pledged
<1>5. wire \in Seq(PlacedParts(Nat)) /\ wire # <<>> /\ Shaped(wire)
  BY <1>2 DEF IInv, TypeOK, Headed
<1> DEFINE d == Checksum(Digest(hashed))
           w == wire
           v == Extended(w, d)
<1>6. d \in ChecksumParts(Nat) /\ d.of = Digest(hashed)
  <2>1. hashed \in HashRecords(Nat) BY DEF IInv, Accounted, HashOf
  <2>2. d.of = Digest(hashed) BY DEF Checksum
  <2> QED BY <2>1, <2>2 DEF ChecksumParts
<1> HIDE DEF d
<1>7. w \in Seq(PlacedParts(Nat)) /\ w # <<>> /\ Shaped(w) BY <1>5
<1> HIDE DEF w
<1>8. /\ v \in Seq(PlacedParts(Nat)) /\ Len(w) \in Nat /\ Len(v) = Len(w) + 1
      /\ v # <<>>
      /\ \A k \in 1..Len(w) : v[k] = w[k]
      /\ v[Len(v)].kind = "checksum" /\ v[Len(v)].of = d.of
      /\ Shaped(v)
      /\ ContentOf(v, 1, Len(v)) = ContentOf(w, 1, Len(w))
  BY <1>6, <1>7, ChecksumSent
<1>9. wire' = IF Checked THEN v ELSE w BY DEF EndFrame, d, w
<1> HIDE DEF v
<1>10. /\ wire' \in Seq(PlacedParts(Nat)) /\ Shaped(wire') /\ wire' # <<>> /\ wire'[1] = wire[1]
       /\ Content' = Content
  <2>1. 1 \in 1..Len(w) BY <1>7
  <2>2. CASE Checked BY <2>1, <2>2, <1>8, <1>9 DEF Content, w
  <2>3. CASE ~Checked BY <2>3, <1>5, <1>9 DEF Content, w
  <2> QED BY <2>2, <2>3
<1>11. TypeOK' BY <1>1, <1>10 DEF IInv, TypeOK
<1>12. Accounted' BY <1>1, <1>4 DEF IInv, Accounted
<1>13. Phases'
  <2>1. PledgeKept(sourceSize)' BY <1>1, <1>2, <1>4 DEF PledgeKept
  <2> QED BY <2>1, <1>1, <1>2, <1>3 DEF Phases, Ending
<1>14. Emission' BY <1>1, <1>2 DEF Emission
<1>15. NotHeldBack'
  <2>1. Len(<<>>) = 0 OBVIOUS
  <2> QED BY <2>1, <1>1, <1>2, <1>3, ConstantsAssumption DEF NotHeldBack
<1>16. Headed' BY <1>1, <1>2, <1>4, <1>5, <1>10 DEF IInv, Headed
<1>17. Endings'
  <2>1. CASE Checked
    <3>1. wire' = v BY <2>1, <1>9
    <3>2. Len(v) - 1 = Len(w) BY <1>8
    <3>3. NoChecksum(w, Len(w)) /\ LastSent(w, Len(w)) BY <1>3 DEF w
    <3>4. NoChecksum(v, Len(w)) BY <3>3, <1>8 DEF NoChecksum
    <3>5. LastSent(v, Len(w))
      <4> DEFINE n == Len(w)
      <4>1. n > 2 /\ n \in 1..n /\ n - 1 \in 1..n /\ n - 2 \in Nat /\ n \in Nat
        BY <3>3, <1>8 DEF LastSent
      <4>2. v[n] = w[n] /\ v[n - 1] = w[n - 1] BY <4>1, <1>8
      <4> HIDE DEF n
      <4>3. \A k \in 1..(n - 2) : k \in 1..n BY <4>1
      <4>4. \A k \in 1..(n - 2) : v[k] = w[k] BY <4>3, <1>8 DEF n
      <4>5. NoneLast(w, n - 2) BY <3>3 DEF LastSent, n
      <4>6. NoneLast(v, n - 2) BY <4>4, <4>5 DEF NoneLast
      <4> QED BY <3>3, <4>1, <4>2, <4>6 DEF LastSent, n
    <3> QED BY <3>1, <3>2, <3>4, <3>5, <2>1, <1>1, <1>4, <1>6, <1>8 DEF Endings, Ended, Ending
  <2>2. CASE ~Checked
    <3>1. wire' = wire BY <2>2, <1>9 DEF w
    <3> QED BY <3>1, <2>2, <1>1, <1>3, <1>4 DEF Endings, Ended, Ending
  <2> QED BY <2>1, <2>2
<1>18. NothingLost' BY <1>1, <1>2, <1>10 DEF IInv, NothingLost
<1> QED BY <1>11, <1>12, <1>13, <1>14, <1>15, <1>16, <1>17, <1>18 DEF IInv

\* A callback that throws: a block's header may be all that was sent of it.
LEMMA CallbackThrowsKeeps ==
  ASSUME IInv, CallbackThrows
  PROVE  IInv'
<1>1. /\ call' = "none" /\ outcome' = "callback"
      /\ pending' = <<>> /\ emitting' = FALSE /\ block' = NoBlock
      /\ parameters' = parameters /\ buffer' = buffer /\ sourceSize' = sourceSize
      /\ hashed' = hashed /\ saving' = saving /\ blockCount' = blockCount
      /\ submitted' = submitted
  BY DEF CallbackThrows
<1>2. Checked' = Checked /\ Pledged' = Pledged BY <1>1 DEF Checked, Pledged
<1> DEFINE Harmless(w) ==
             \A k \in 1..Len(w) : w[k].kind = "payload" /\ w[k - 1].last => Checked
<1>3. /\ wire' \in Seq(PlacedParts(Nat)) /\ Shaped(wire') /\ NoChecksum(wire', Len(wire'))
      /\ Harmless(wire')
      /\ wire' # <<>> => wire # <<>> /\ wire'[1] = wire[1]
      /\ started' = TRUE /\ status' = "active"
  <2>1. CASE call # "none" /\ block # NoBlock /\ started' = started /\ status' = status
             /\ \/ wire' = wire
                \/ \E f \in Forms(SubSeq(Waiting, 1, block.left)) :
                     wire' = Extended(wire, BlockHeader(f.type, f.length, block.last))
    <3>1. emitting = TRUE /\ block.left \in 0..Len(Waiting) /\ block.last \in BOOLEAN
      BY <2>1 DEF IInv, Emission, TypeOK
    <3>2. /\ started = TRUE /\ status = "active"
          /\ wire \in Seq(PlacedParts(Nat)) /\ wire # <<>> /\ Shaped(wire)
          /\ NoneLast(wire, Len(wire)) /\ NoChecksum(wire, Len(wire))
          /\ Waiting \in Seq(Nat)
      BY <3>1, WhenEmitting
    <3> DEFINE w == wire
    <3>3. \A k \in 1..Len(w) : ~(w[k].kind = "payload" /\ w[k - 1].last)
      <4> SUFFICES ASSUME NEW k \in 1..Len(w), w[k].kind = "payload" PROVE ~w[k - 1].last
        OBVIOUS
      <4>1. k > 1 /\ w[k - 1].kind = "block" BY <3>2 DEF Shaped
      <4>2. k - 1 \in 1..Len(w) BY <4>1
      <4> HIDE DEF w
      <4> QED BY <4>1, <4>2, <3>2 DEF NoneLast, w
    <3>4. CASE wire' = wire BY <3>2, <3>3, <3>4, <2>1
    <3>5. ASSUME NEW f \in Forms(SubSeq(Waiting, 1, block.left)),
                 wire' = Extended(wire, BlockHeader(f.type, f.length, block.last))
          PROVE  /\ wire' \in Seq(PlacedParts(Nat)) /\ Shaped(wire')
                 /\ NoChecksum(wire', Len(wire')) /\ Harmless(wire') /\ wire'[1] = wire[1]
      <4> DEFINE h == BlockHeader(f.type, f.length, block.last)
                 v == Extended(w, h)
                 bytes == SubSeq(Waiting, 1, block.left)
      <4>1. h \in BlockParts
        <5>1. bytes \in Seq(Nat) BY <3>1, <3>2, Split
        <5> HIDE DEF bytes
        <5>2. f \in Forms(bytes) BY DEF bytes
        <5> QED BY <5>1, <5>2, <3>1, FormsTyped
      <4>2. wire' = v BY <3>5
      <4> HIDE DEF h
      <4>3. w \in Seq(PlacedParts(Nat)) /\ w # <<>> /\ Shaped(w) BY <3>2
      <4> HIDE DEF w
      <4>4. /\ v \in Seq(PlacedParts(Nat)) /\ Len(w) \in Nat /\ Len(v) = Len(w) + 1
            /\ \A k \in 1..Len(w) : v[k] = w[k]
            /\ v[Len(v)].kind = "block"
            /\ Shaped(v)
        BY <4>1, <4>3, HeaderSent
      <4> HIDE DEF v
      <4>5. ASSUME NEW k \in 1..Len(v)
            PROVE  v[k].kind # "checksum" /\ ~(v[k].kind = "payload" /\ v[k - 1].last)
        <5>1. CASE k = Len(v) BY <5>1, <4>4
        <5>2. CASE k \in 1..Len(w)
          <6>1. v[k] = w[k] /\ w[k].kind # "checksum" BY <5>2, <4>4, <3>2 DEF NoChecksum, w
          <6>2. CASE w[k].kind = "payload"
            <7>1. k > 1 BY <6>2, <5>2, <4>3 DEF Shaped
            <7>2. k - 1 \in 1..Len(w) BY <7>1, <5>2, <4>4
            <7>3. v[k - 1] = w[k - 1] BY <7>2, <4>4
            <7> QED BY <6>1, <7>3, <6>2, <5>2, <3>3
          <6>3. CASE w[k].kind # "payload" BY <6>1, <6>3
          <6> QED BY <6>2, <6>3
        <5> QED BY <5>1, <5>2, <4>4
      <4>6. v[1] = w[1]
        <5>1. 1 \in 1..Len(w) BY <4>3
        <5> QED BY <5>1, <4>4
      <4> QED BY <4>2, <4>4, <4>5, <4>6 DEF NoChecksum, w
    <3> QED BY <3>2, <3>4, <3>5, <2>1
  <2>2. CASE call \in {"finish", "frame"} /\ ~emitting /\ Checked
             /\ started' = started /\ status' = status /\ wire' = wire
    BY <2>2 DEF IInv, Phases, TypeOK, Headed, Endings
  <2>3. CASE Writable /\ ~started /\ started' = TRUE /\ status' = "active" /\ wire' = wire
    <3>1. wire = <<>> BY <2>3 DEF IInv, Headed
    <3>2. Len(<<>>) = 0 OBVIOUS
    <3> QED BY <2>3, <3>1, <3>2 DEF IInv, TypeOK, Headed, NoChecksum
  <2> QED BY <2>1, <2>2, <2>3 DEF CallbackThrows
<1>4. TypeOK'
  <2>1. <<>> \in Seq(Nat) /\ NoBlock \in [left : Int, last : BOOLEAN] BY DEF NoBlock
  <2> QED BY <2>1, <1>1, <1>3 DEF IInv, TypeOK
<1>5. Accounted' BY <1>1, <1>2 DEF IInv, Accounted
<1>6. Phases' BY <1>1, <1>3 DEF Phases, Ending
<1>7. Emission' BY <1>1 DEF Emission
<1>8. NotHeldBack' BY <1>1 DEF NotHeldBack
<1>9. Headed' BY <1>1, <1>2, <1>3 DEF IInv, Headed
<1>10. Endings' BY <1>1, <1>2, <1>3 DEF Endings, Ended, Ending
<1>11. NothingLost' BY <1>1 DEF NothingLost
<1> QED BY <1>4, <1>5, <1>6, <1>7, <1>8, <1>9, <1>10, <1>11 DEF IInv

\* Nothing happens.
LEMMA StutterKeeps ==
  ASSUME IInv, UNCHANGED vars
  PROVE  IInv'
<1>1. /\ parameters' = parameters /\ buffer' = buffer /\ sourceSize' = sourceSize
      /\ started' = started /\ hashed' = hashed /\ saving' = saving
      /\ blockCount' = blockCount /\ status' = status /\ wire' = wire /\ call' = call
      /\ pending' = pending /\ emitting' = emitting /\ block' = block
      /\ outcome' = outcome /\ submitted' = submitted
  BY DEF vars, frameVars
<1>2. TypeOK' /\ Accounted' /\ Phases' /\ Emission' /\ NotHeldBack'
  BY <1>1 DEF IInv, TypeOK, Accounted, Phases, Emission, NotHeldBack, Ending, Waiting,
              Checked, Pledged, PledgeKept
<1>3. Headed' /\ Endings' /\ NothingLost'
  BY <1>1 DEF IInv, Headed, Endings, NothingLost, Content, Ended, Ending, Waiting, Checked, Pledged
<1> QED BY <1>2, <1>3 DEF IInv

\* Every step of the specification keeps the invariant.
LEMMA NextKeeps ==
  ASSUME IInv, [Next]_vars
  PROVE  IInv'
<1>1. ASSUME NEW n \in 0..(MaxSource - Len(submitted)) PROVE NextBytes(n) \in Seq(Nat)
  <2>1. Len(submitted) \in Nat BY DEF IInv, TypeOK
  <2>2. n \in Nat BY <2>1, ConstantsAssumption
  <2>3. \A i \in 1..n : Len(submitted) + i \in Nat BY <2>1, <2>2
  <2>4. NextBytes(n) \in [1..n -> Nat] BY <2>3 DEF NextBytes
  <2> QED BY <2>2, <2>4
<1>2. CASE Client
  <2>1. ASSUME NEW n \in 0..(MaxSource - Len(submitted)), Update(NextBytes(n)) PROVE IInv'
    BY <1>1, <2>1, UpdateKeeps
  <2>2. ASSUME NEW n \in 0..(MaxSource - Len(submitted)), CompressFrame(NextBytes(n)) PROVE IInv'
    BY <1>1, <2>2, CompressFrameKeeps
  <2> QED BY <1>2, <2>1, <2>2, FlushKeeps, FinishKeeps, ResetKeeps DEF Client
<1>3. CASE Step
  BY <1>3, TakeInputKeeps, SelectBlockKeeps, EmitPartKeeps, ReturnsKeeps, EndFrameKeeps DEF Step
<1>4. CASE CallbackThrows BY <1>4, CallbackThrowsKeeps
<1>5. CASE UNCHANGED vars BY <1>5, StutterKeeps
<1> QED BY <1>2, <1>3, <1>4, <1>5 DEF Next

\* The invariant holds in every reachable state of the compressor.
THEOREM Invariance == Spec => []IInv
<1>1. Init => IInv BY InitHolds
<1>2. IInv /\ [Next]_vars => IInv' BY NextKeeps
<1> QED BY <1>1, <1>2, PTL DEF Spec

\* No byte of the input is lost, repeated or moved between the buffer and the
\* blocks, whatever calls, blocks, cuts and partitions it went through.
THEOREM NothingIsLost == Spec => []NothingLost
<1>1. IInv => NothingLost BY DEF IInv
<1> QED BY <1>1, Invariance, PTL

\* Every byte counts, by the invariant.
LEMMA Counted ==
  ASSUME IInv
  PROVE  EveryByteCounts
<1> SUFFICES ASSUME Checked
             PROVE  Mixed(Digest(hashed)) = submitted /\ Digest(hashed).size = Len(submitted)
  BY DEF EveryByteCounts
<1>1. submitted \in Seq(Nat) /\ HashOf(hashed, submitted, Nat) BY DEF IInv, TypeOK, Accounted
<1> QED BY <1>1, MixedIsContent

\* The checksum is that of the whole input, in whatever pieces it came.
THEOREM EveryByteIsCounted == Spec => []EveryByteCounts
<1>1. IInv => EveryByteCounts BY Counted
<1> QED BY <1>1, Invariance, PTL

\* The only header is the first part: every part belongs to its frame.
LEMMA OneHeader ==
  ASSUME NEW w, Shaped(w), w # <<>>, NEW k \in 1..Len(w), Len(w) \in Nat
  PROVE  HeaderOf(w, k) = 1
<1> DEFINE P(h) == w[h].kind = "header" /\ \A i \in (h + 1)..k : w[i].kind # "header"
<1>1. w[1].kind = "header" /\ \A i \in 1..Len(w) : i > 1 => w[i].kind # "header" BY DEF Shaped
<1>2. 1 \in 1..k /\ P(1) BY <1>1
<1>3. \A h \in 1..k : P(h) => h = 1 BY <1>1
<1>4. HeaderOf(w, k) = CHOOSE h \in 1..k : P(h) BY DEF HeaderOf
<1> HIDE DEF P
<1> QED BY <1>2, <1>3, <1>4

\* What ends the frame of a compressor's wire.
LEMMA FrameEnds ==
  ASSUME IInv, NEW k \in 1..Len(wire)
  PROVE  /\ wire # <<>>
         /\ EndsFrame(wire, k) <=>
              \/ wire[k].kind = "checksum"
              \/ wire[k].kind = "payload" /\ wire[k - 1].last /\ ~Checked
<1>1. wire # <<>> /\ Len(wire) \in Nat BY DEF IInv, TypeOK
<1>2. Shaped(wire) /\ wire[1].checksum = Checked BY <1>1 DEF IInv, Headed
<1>3. HeaderOf(wire, k) = 1 BY <1>1, <1>2, OneHeader
<1> QED BY <1>1, <1>2, <1>3 DEF EndsFrame

\* Unfinished wires are open, by the invariant.
LEMMA Open ==
  ASSUME IInv
  PROVE  UnfinishedIsOpen
<1> SUFFICES ASSUME call = "none", status # "finished"
             PROVE  ~CompleteAt(wire, EncodedLength(wire))
  BY DEF UnfinishedIsOpen
<1>1. ASSUME NEW k \in 1..Len(wire)
      PROVE  wire[k].kind # "skippable" /\ ~EndsFrame(wire, k)
  <2>1. wire[k].kind # "skippable"
    <3>1. wire[k] \in PlacedParts(Nat) BY ElementOfSeq DEF IInv, TypeOK
    <3> QED BY <3>1, PartsTyped
  <2>2. wire[k].kind # "checksum" BY DEF IInv, Endings, NoChecksum
  <2>3. ASSUME wire[k].kind = "payload", wire[k - 1].last, ~Checked PROVE FALSE
    <3>1. outcome # "callback" BY <2>3 DEF IInv, Endings
    <3>2. NoneLast(wire, Len(wire)) BY <3>1 DEF IInv, Endings, Ended, Ending
    <3>3. k > 1 /\ wire[k - 1].kind = "block" BY <2>3 DEF IInv, Headed, Shaped
    <3>4. k - 1 \in 1..Len(wire) BY <3>3
    <3> QED BY <2>3, <3>2, <3>3, <3>4 DEF NoneLast
  <2> QED BY <2>1, <2>2, <2>3, FrameEnds
<1>2. DOMAIN wire = 1..Len(wire) BY DEF IInv, TypeOK
<1> QED BY <1>1, <1>2 DEF CompleteAt

\* Nothing but a finished stream looks like a whole frame, even where the
\* callback has thrown.
THEOREM UnfinishedStaysOpen == Spec => []UnfinishedIsOpen
<1>1. IInv => UnfinishedIsOpen BY Open
<1> QED BY <1>1, Invariance, PTL

\* In a finished stream the last part ends the frame, and no other does.
LEMMA EndsOnce ==
  ASSUME IInv, status = "finished"
  PROVE  /\ Len(wire) \in 1..Len(wire) /\ EndsFrame(wire, Len(wire))
         /\ \A k \in 1..Len(wire) :
              /\ EndsFrame(wire, k) => k = Len(wire)
              /\ wire[k].kind = "checksum" => wire[k].of = Digest(hashed) /\ k = Len(wire) /\ Checked
<1> DEFINE n == Len(wire)
<1>1. n \in Nat BY DEF IInv, TypeOK
<1>2. CASE Checked
  <2>1. /\ LastSent(wire, n - 1) /\ NoChecksum(wire, n - 1)
        /\ wire[n].kind = "checksum" /\ wire[n].of = Digest(hashed)
    BY <1>2 DEF IInv, Endings
  <2>2. n - 1 > 2 BY <2>1 DEF LastSent
  <2>3. n \in 1..n BY <1>1, <2>2
  <2>4. ASSUME NEW k \in 1..n
        PROVE  /\ EndsFrame(wire, k) => k = n
               /\ wire[k].kind = "checksum" => wire[k].of = Digest(hashed) /\ k = n /\ Checked
    <3>1. CASE k = n BY <3>1, <2>1, <1>2
    <3>2. CASE k \in 1..(n - 1)
      <4>1. wire[k].kind # "checksum" BY <3>2, <2>1 DEF NoChecksum
      <4> QED BY <4>1, <1>2, FrameEnds
    <3> QED BY <3>1, <3>2, <1>1
  <2>5. EndsFrame(wire, n) BY <2>1, <2>3, FrameEnds
  <2> QED BY <2>3, <2>4, <2>5
<1>3. CASE ~Checked
  <2>1. LastSent(wire, n) /\ NoChecksum(wire, n) BY <1>3 DEF IInv, Endings
  <2>2. n \in 1..n BY <1>1, <2>1 DEF LastSent
  <2>3. EndsFrame(wire, n) BY <2>1, <2>2, <1>3, FrameEnds DEF LastSent
  <2>4. ASSUME NEW k \in 1..n
        PROVE  wire[k].kind # "checksum" /\ (EndsFrame(wire, k) => k = n)
    <3>1. wire[k].kind # "checksum" BY <2>1 DEF NoChecksum
    <3>2. ASSUME EndsFrame(wire, k) PROVE k = n
      <4>1. wire[k].kind = "payload" /\ wire[k - 1].last BY <3>1, <3>2, FrameEnds
      <4>2. k > 1 /\ wire[k - 1].kind = "block" BY <4>1 DEF IInv, Headed, Shaped
      <4>3. k - 1 \notin 1..(n - 2) BY <4>1, <4>2, <2>1 DEF LastSent, NoneLast
      <4> QED BY <4>2, <4>3, <1>1
    <3> QED BY <3>1, <3>2
  <2> QED BY <2>2, <2>3, <2>4
<1> QED BY <1>2, <1>3

\* Finished frames are sound, by the invariant.
LEMMA Finished ==
  ASSUME IInv
  PROVE  FrameIsSound
<1> SUFFICES ASSUME status = "finished"
             PROVE  /\ CompleteAt(wire, EncodedLength(wire))
                    /\ \A k \in DOMAIN wire : Sound(wire, k) /\ (EndsFrame(wire, k) => k = Len(wire))
                    /\ Content = submitted
  BY DEF FrameIsSound
<1> DEFINE n == Len(wire)
<1>1. /\ wire \in Seq(PlacedParts(Nat)) /\ n \in Nat /\ DOMAIN wire = 1..n
      /\ submitted \in Seq(Nat) /\ Shaped(wire)
      /\ HashOf(hashed, IF Checked THEN submitted ELSE <<>>, Nat)
  BY DEF IInv, TypeOK, Accounted, Headed
<1>2. /\ n \in 1..n /\ EndsFrame(wire, n)
      /\ \A k \in 1..n :
           /\ EndsFrame(wire, k) => k = n
           /\ wire[k].kind = "checksum" => wire[k].of = Digest(hashed) /\ k = n /\ Checked
  BY EndsOnce
<1>3. wire # <<>> /\ 1 \in 1..n
  <2>1. n \in 1..n BY <1>2
  <2>2. n \in Nat BY <1>1
  <2> HIDE DEF n
  <2>3. n >= 1 /\ 1 \in 1..n BY <2>1, <2>2
  <2>4. n # 0 BY <2>3
  <2> QED BY <2>3, <2>4 DEF n
<1>4. Content = submitted
  <2>1. buffer = <<>> /\ outcome = "done" /\ call = "none" BY DEF IInv, Phases
  <2>2. pending = <<>> BY <2>1 DEF IInv, Phases
  <2>3. Content \o buffer \o pending = submitted BY <2>1 DEF IInv, NothingLost
  <2>4. Content \in Seq(Nat)
    <3>1. \A r \in PlacedParts(Nat) : BytesOf(r) \in Seq(Nat) BY PartsTyped
    <3> QED BY <1>1, <3>1, ContentTyped DEF Content
  <2> QED BY <2>1, <2>2, <2>3, <2>4
<1>5. CompleteAt(wire, EncodedLength(wire))
  <2>1. EncodedLength(wire) = EndOf(wire[n]) /\ EncodedLength(wire) >= EndOf(wire[1])
        /\ wire[1].at \in Nat /\ wire[1].length \in Nat
    BY <1>1, <1>3, EndIsBehindHeader
  <2>2. wire[1].kind = "header" BY <1>1, <1>3 DEF Shaped
  <2>3. EndOf(wire[1]) <= EncodedLength(wire) BY <2>1 DEF EndOf
  <2> QED BY <1>1, <1>2, <1>3, <2>1, <2>2, <2>3 DEF CompleteAt
<1>6. ASSUME NEW k \in 1..n PROVE Sound(wire, k)
  <2>1. wire[k].kind # "invalid"
    <3>1. wire[k] \in PlacedParts(Nat) BY <1>1, ElementOfSeq
    <3> QED BY <3>1, PartsTyped
  <2>2. HeaderOf(wire, k) = 1 BY <1>1, <1>3, OneHeader
  <2>3. ASSUME wire[k].kind = "checksum" PROVE wire[k].of = DigestOf(ContentOf(wire, 1, k))
    <3>1. wire[k].of = Digest(hashed) /\ k = n /\ Checked BY <1>2, <2>3
    <3>2. Digest(hashed) = DigestOf(submitted) BY <1>1, <3>1, DigestOfPieces DEF NoByte
    <3> QED BY <3>1, <3>2, <1>4 DEF Content
  <2>4. ASSUME EndsFrame(wire, k)
        PROVE  wire[1].contentSize \in {UnknownSize, Len(ContentOf(wire, 1, k))}
    <3>1. k = n BY <1>2, <2>4
    <3>2. wire[1].contentSize = IF SizeField THEN Pledged ELSE UnknownSize
      BY <1>3 DEF IInv, Headed
    <3>3. Pledged \in {UnknownSize, Len(submitted)}
      BY DEF IInv, Phases, Accounted, PledgeKept
    <3> QED BY <3>1, <3>2, <3>3, <1>4 DEF Content
  <2> QED BY <2>1, <2>2, <2>3, <2>4 DEF Sound
<1> QED BY <1>1, <1>2, <1>4, <1>5, <1>6

\* A finished stream is one whole frame, and a decoder that reads it accepts each
\* of its parts, the digest and the content size included, and gets the input.
THEOREM FinishedFrameIsSound == Spec => []FrameIsSound
<1>1. IInv => FrameIsSound BY Finished
<1> QED BY <1>1, Invariance, PTL

\* A flush that returns without a pledge has emitted all input: no action but
\* Returns ends it with "done".
THEOREM FlushEmitsEverything == Spec => FlushedWhenUnpledged
<1> DEFINE A == Pledged = UnknownSize /\ call = "flush" /\ outcome' = "done" /\ call' = "none"
                  => Content' = submitted
<1>1. ASSUME IInv, [Next]_vars PROVE [A]_vars
  <2> SUFFICES ASSUME Next, Pledged = UnknownSize, call = "flush", outcome' = "done",
                      call' = "none"
               PROVE  Content' = submitted
    BY <1>1
  <2>1. Returns
    <3>1. ~Client
      <4>1. ~Writable /\ ~Reset BY DEF Writable, Reset
      <4> QED BY <4>1 DEF Client, Update, CompressFrame, Flush, Finish
    <3>2. ~TakeInput /\ ~EndFrame BY DEF TakeInput, EndFrame
    <3>3. ~SelectBlock /\ ~EmitPart BY DEF SelectBlock, EmitPart
    <3>4. ~CallbackThrows BY DEF CallbackThrows
    <3> QED BY <3>1, <3>2, <3>3, <3>4 DEF Next, Step
  <2>2. ~emitting /\ pending = <<>> /\ wire' = wire BY <2>1 DEF Returns
  <2>3. buffer = <<>> BY <1>1, <2>2 DEF IInv, NotHeldBack
  <2>4. outcome # "callback" /\ status # "failed" BY <1>1 DEF IInv, Phases
  <2>5. Content \o buffer \o pending = submitted BY <1>1, <2>4 DEF IInv, NothingLost
  <2>6. Content \in Seq(Nat)
    <3>1. \A r \in PlacedParts(Nat) : BytesOf(r) \in Seq(Nat) BY PartsTyped
    <3>2. wire \in Seq(PlacedParts(Nat)) BY <1>1 DEF IInv, TypeOK
    <3> QED BY <3>1, <3>2, ContentTyped DEF Content
  <2>7. Content' = Content BY <2>2 DEF Content
  <2> QED BY <2>2, <2>3, <2>5, <2>6, <2>7
<1>2. (IInv /\ [Next]_vars) => [A]_vars BY <1>1
<1>3. Spec => [][A]_vars BY <1>2, Invariance, PTL DEF Spec
<1> QED BY <1>3 DEF FlushedWhenUnpledged

----------------------------------------------------------------------------
(* The index tables that the compressor's matcher keeps between frames     *)
(* (MatchIndex).  A search only ever puts positions behind its next cursor *)
(* into slots, so one lemma about Put serves every step of it; reset and   *)
(* rebasing have a lemma each.                                             *)

\* What the invariant says of one slot, when positions before f may be held.
SlotGood(e, f) ==
  /\ e \in [index : 0..MaxIndex, holds : Nat \cup {NoPosition}]
  /\ Seen(e) = e.holds
  /\ e.index < base + extent + Bias
  /\ e.holds < f \/ e.holds = NoPosition

Good(slots, f) == slots = [s \in Slots |-> slots[s]] /\ \A s \in Slots : SlotGood(slots[s], f)

\* The numbers of a search, apart from the tables.
Numbers ==
  /\ base \in 0..MaxIndex /\ extent \in 0..MaxIndex /\ base + extent + Bias <= MaxIndex
  /\ begin \in Nat /\ end \in Nat /\ cursor \in Nat /\ end <= extent

LEMMA LaterFrontier ==
  ASSUME NEW slots, NEW f \in Nat, NEW g \in Nat, f <= g, Good(slots, f)
  PROVE  Good(slots, g)
<1>1. ASSUME NEW s \in Slots PROVE SlotGood(slots[s], g)
  <2>1. SlotGood(slots[s], f) BY DEF Good
  <2>2. QED BY <2>1 DEF SlotGood, NoPosition
<1>2. QED BY <1>1 DEF Good

\* A position behind the frontier can be put anywhere.
LEMMA PutGood ==
  ASSUME Numbers, NEW slots, NEW place, NEW position \in Nat, NEW f \in Nat,
         Good(slots, f), position < f, position < extent
  PROVE  Good(Put(slots, place, position), f)
<1> DEFINE fresh == [index |-> Index(position), holds |-> position]
<1>1. base + position + Bias <= MaxIndex BY IndexAssumption DEF Numbers, Bias
<1>2. Index(position) = base + position + Bias BY <1>1 DEF Index, Wrapped
<1>3. fresh.index = base + position + Bias /\ fresh.holds = position BY <1>2
<1>4. Seen(fresh) = position
  BY <1>3, IndexAssumption DEF Numbers, Seen, Unbiased, Bias
<1>5. fresh \in [index : 0..MaxIndex, holds : Nat \cup {NoPosition}]
  BY <1>1, <1>2, IndexAssumption DEF Numbers, Bias
<1>6. SlotGood(fresh, f)
  <2> HIDE DEF fresh
  <2> QED BY <1>3, <1>4, <1>5 DEF SlotGood, Numbers, Bias
<1>7. Put(slots, place, position)
        = [s \in Slots |-> IF s \in place THEN fresh ELSE slots[s]] BY DEF Put
<1> HIDE DEF fresh
<1>8. ASSUME NEW s \in Slots PROVE SlotGood(Put(slots, place, position)[s], f)
  <2>1. Put(slots, place, position)[s] = IF s \in place THEN fresh ELSE slots[s] BY <1>7
  <2>2. SlotGood(slots[s], f) BY DEF Good
  <2>3. QED BY <2>1, <2>2, <1>6
<1>9. Put(slots, place, position) = [s \in Slots |-> Put(slots, place, position)[s]]
  BY <1>7
<1>10. QED BY <1>8, <1>9 DEF Good

LEMMA AfterMatchGood ==
  ASSUME Numbers, NEW slots, NEW next \in Nat, Good(slots, next),
         cursor + MinMatch <= next, next <= extent, AfterMatch(slots, next)
  PROVE  Good(entries', next)
<1>1. CASE next > Limit
  BY <1>1 DEF AfterMatch
<1>2. CASE ~(next > Limit)
  <2>1. PICK place \in Places, s \in ShortSlots :
          LET third == Put(slots, place, cursor + 2)
          IN  IF DoubleFast
              THEN \E l \in LongSlots :
                     entries' = Put(Put(third, {l}, next - 2), {s}, next - 1)
              ELSE entries' = Put(third, {s}, next - 2)
    BY <1>2 DEF AfterMatch
  <2> DEFINE third == Put(slots, place, cursor + 2)
  <2>2. cursor + 2 \in Nat /\ next - 2 \in Nat /\ next - 1 \in Nat
        /\ cursor + 2 < next /\ next - 2 < next /\ next - 1 < next
        /\ cursor + 2 < extent /\ next - 2 < extent /\ next - 1 < extent
    BY IndexAssumption DEF Numbers
  <2>3. Good(third, next) BY <2>2, PutGood
  <2>4. CASE DoubleFast
    <3>1. PICK l \in LongSlots : entries' = Put(Put(third, {l}, next - 2), {s}, next - 1)
      BY <2>1, <2>4
    <3> HIDE DEF third
    <3>2. Good(Put(third, {l}, next - 2), next) BY <2>2, <2>3, PutGood
    <3>3. Good(Put(Put(third, {l}, next - 2), {s}, next - 1), next) BY <2>2, <3>2, PutGood
    <3>4. QED BY <3>1, <3>3
  <2>5. CASE ~DoubleFast
    <3>1. entries' = Put(third, {s}, next - 2) BY <2>1, <2>5
    <3> HIDE DEF third
    <3>2. Good(Put(third, {s}, next - 2), next) BY <2>2, <2>3, PutGood
    <3>3. QED BY <3>1, <3>2
  <2>6. QED BY <2>4, <2>5
<1>3. QED BY <1>1, <1>2

LEMMA RecordMatchGood ==
  ASSUME Numbers, NEW gap \in Nat, NEW next \in Nat, NEW place, Good(entries, cursor),
         cursor + MinMatch <= next, next <= extent, RecordMatch(place, gap, next)
  PROVE  Good(entries', next)
<1> DEFINE probed == Put(entries, place, cursor)
<1>1. cursor < next /\ cursor < extent /\ cursor \in Nat BY IndexAssumption DEF Numbers
<1>2. Good(entries, next) BY <1>1, LaterFrontier
<1>3. Good(probed, next) BY <1>1, <1>2, PutGood
<1>4. CASE RecordedAhead(gap)
  <2>1. PICK s \in AheadSlots : AfterMatch(Put(probed, {s}, cursor + gap), next)
    BY <1>4 DEF RecordMatch
  <2> HIDE DEF probed
  <2>2. cursor + gap \in Nat /\ cursor + gap < next /\ cursor + gap < extent
    BY <1>4, IndexAssumption DEF RecordedAhead, Numbers
  <2>3. Good(Put(probed, {s}, cursor + gap), next) BY <2>2, <1>3, PutGood
  <2>4. QED BY <2>1, <2>3, AfterMatchGood
<1>5. CASE ~RecordedAhead(gap)
  <2>1. AfterMatch(probed, next) BY <1>5 DEF RecordMatch
  <2> HIDE DEF probed
  <2>2. QED BY <2>1, <1>3, AfterMatchGood
<1>6. QED BY <1>4, <1>5

----------------------------------------------------------------------------
(* The invariant and its two sides: numbers and slots.                     *)

LEMMA InvariantSlots == IndexInv => Good(entries, Frontier)
<1> SUFFICES ASSUME IndexInv PROVE Good(entries, Frontier) OBVIOUS
<1>1. entries = [s \in Slots |-> entries[s]] BY DEF IndexInv, IndexTypeOK
<1>2. ASSUME NEW s \in Slots PROVE SlotGood(entries[s], Frontier)
  <2>1. entries[s] \in [index : 0..MaxIndex, holds : Nat \cup {NoPosition}]
    BY DEF IndexInv, IndexTypeOK
  <2>2. Seen(entries[s]) = entries[s].holds BY DEF IndexInv, TablesHoldThisFrame
  <2>3. entries[s].index < base + extent + Bias BY DEF IndexInv, IndexesFit
  <2>4. entries[s].holds < Frontier \/ entries[s].holds = NoPosition
    BY DEF IndexInv, PositionsPrecede
  <2>5. QED BY <2>1, <2>2, <2>3, <2>4 DEF SlotGood
<1>3. QED BY <1>1, <1>2 DEF Good

\* What the slots contribute to the invariant.
LEMMA SlotsInvariant ==
  ASSUME Good(entries, Frontier)
  PROVE  /\ entries \in [Slots -> [index : 0..MaxIndex, holds : Nat \cup {NoPosition}]]
         /\ TablesHoldThisFrame /\ PositionsPrecede
         /\ \A s \in Slots : entries[s].index < base + extent + Bias
<1>1. ASSUME NEW s \in Slots
      PROVE  /\ entries[s] \in [index : 0..MaxIndex, holds : Nat \cup {NoPosition}]
             /\ Seen(entries[s]) = entries[s].holds
             /\ entries[s].index < base + extent + Bias
             /\ entries[s].holds < Frontier \/ entries[s].holds = NoPosition
  <2>1. SlotGood(entries[s], Frontier) BY DEF Good
  <2>2. QED BY <2>1 DEF SlotGood
<1>2. entries = [s \in Slots |-> entries[s]] BY DEF Good
<1>3. entries \in [Slots -> [index : 0..MaxIndex, holds : Nat \cup {NoPosition}]]
  BY <1>1, <1>2
<1>4. QED BY <1>1, <1>3 DEF TablesHoldThisFrame, PositionsPrecede

\* The numbers that the invariant is about, apart from the tables.
Flag == parsing \in BOOLEAN

NumbersOK ==
  /\ Flag /\ base \in 0..MaxIndex /\ extent \in 0..MaxIndex
  /\ begin \in Nat /\ end \in Nat /\ anchor \in Nat /\ cursor \in Nat
  /\ base + extent + Bias <= MaxIndex
  /\ parsing => end <= extent /\ begin < end
  /\ parsing => begin <= anchor /\ anchor <= cursor /\ cursor <= end /\ begin <= cursor

MatchOK ==
  /\ lastMatch \in [at : Nat \cup {NoPosition}, from : Int, holds : Nat \cup {NoPosition}]
  /\ MatchesPointBack

LEMMA InvariantParts == IndexInv <=> NumbersOK /\ MatchOK /\ Good(entries, Frontier)
<1>1. IndexInv => NumbersOK /\ MatchOK
  BY DEF IndexInv, IndexTypeOK, IndexesFit, NumbersOK, MatchOK, Flag
<1>2. ASSUME NumbersOK, MatchOK, Good(entries, Frontier) PROVE IndexInv
  <2>1. IndexTypeOK BY <1>2, SlotsInvariant DEF IndexTypeOK, NumbersOK, MatchOK, Flag
  <2>2. IndexesFit BY <1>2, SlotsInvariant DEF IndexesFit, NumbersOK
  <2>3. QED BY <1>2, <2>1, <2>2, SlotsInvariant DEF IndexInv, MatchOK
<1>3. QED BY <1>1, <1>2, InvariantSlots

LEMMA NoMatchOK == /\ lastMatch = NoMatch => MatchOK
                   /\ lastMatch' = NoMatch => MatchOK'
  BY DEF MatchOK, MatchesPointBack, NoMatch, NoPosition

----------------------------------------------------------------------------
(* The initial state, frames and blocks.                                   *)

LEMMA IndexInitHolds == IndexInit => IndexInv
<1> SUFFICES ASSUME IndexInit PROVE IndexInv OBVIOUS
<1>0. Flag BY DEF IndexInit, Flag
<1>1. NumbersOK BY <1>0, IndexAssumption DEF IndexInit, NumbersOK, Bias
<1>2. MatchOK BY NoMatchOK DEF IndexInit
<1>3. SlotGood(Empty, Frontier)
  BY IndexAssumption DEF IndexInit, SlotGood, Empty, Seen, Bias, NoPosition, Frontier
<1>4. Good(entries, Frontier) BY <1>3 DEF IndexInit, Good
<1>5. QED BY <1>1, <1>2, <1>4, InvariantParts

\* After reset() nothing of this frame can be seen.
LEMMA ResetStep == IndexInv /\ ResetTables => IndexInv'
<1> SUFFICES ASSUME IndexInv, ResetTables PROVE IndexInv' OBVIOUS
<1>1. NumbersOK /\ Good(entries, Frontier) BY InvariantParts
<1>0. Flag' BY DEF ResetTables, Flag
<1>2. MatchOK'
  BY DEF ResetTables, MatchOK, MatchesPointBack, NoMatch, NoPosition
<1>3. CASE NextBase + WindowSize + Bias > MaxIndex
  <2>1. base' = 0 /\ entries' = [s \in Slots |-> Empty] BY <1>3 DEF ResetTables
  <2>2. NumbersOK' BY <1>0, <2>1, IndexAssumption DEF ResetTables, NumbersOK, Bias
  <2>3. SlotGood(Empty, Frontier)'
    BY <2>1, IndexAssumption DEF ResetTables, SlotGood, Empty, Seen, Bias, NoPosition, Frontier
  <2>4. Good(entries, Frontier)' BY <2>1, <2>3 DEF Good, Empty
  <2>5. QED BY <2>2, <2>4, <1>2, InvariantParts, PTL
<1>4. CASE ~(NextBase + WindowSize + Bias > MaxIndex)
  <2>1. base' = NextBase /\ entries' = Forgotten(entries) BY <1>4 DEF ResetTables
  <2>2. NumbersOK'
    BY <1>0, <2>1, <1>1, <1>4, IndexAssumption DEF ResetTables, NumbersOK, NextBase, Bias
  <2>3. ASSUME NEW s \in Slots PROVE SlotGood(entries[s], Frontier)'
    <3>1. SlotGood(entries[s], Frontier) BY <1>1 DEF Good
    <3>2. entries'[s] = [entries[s] EXCEPT !.holds = NoPosition] BY <2>1 DEF Forgotten
    <3>3. entries'[s].index = entries[s].index /\ entries'[s].holds = NoPosition
          /\ entries'[s] \in [index : 0..MaxIndex, holds : Nat \cup {NoPosition}]
      BY <3>1, <3>2 DEF SlotGood
    <3>4. entries[s].index < NextBase /\ entries[s].index \in Nat
      BY <3>1, <1>1, IndexAssumption DEF SlotGood, NextBase, NumbersOK, Bias
    <3>5. NextBase \in Nat
      BY <1>1, IndexAssumption DEF NextBase, NumbersOK, Bias
    <3>6. Seen(entries[s])' = NoPosition
      BY <2>1, <3>3, <3>4, <3>5 DEF Seen, Bias
    <3>7. QED BY <2>1, <3>3, <3>4, <3>5, <3>6 DEF SlotGood, ResetTables, Bias
  <2>4. Good(entries, Frontier)'
    BY <2>1, <2>3 DEF Good, Forgotten
  <2>5. QED BY <2>2, <2>4, <1>2, InvariantParts, PTL
<1>5. QED BY <1>3, <1>4

\* ensure_index_headroom keeps what can be seen, and makes room for the block.
LEMMA HeadroomStep ==
  ASSUME IndexInv, ~parsing, NEW blockEnd \in Nat, blockEnd <= MaxIndex - Bias,
         Headroom(blockEnd), extent' = Larger(extent, blockEnd),
         Frontier' \in Nat, end <= Frontier'
  PROVE  /\ base' \in 0..MaxIndex /\ extent' \in 0..MaxIndex
         /\ base' + extent' + Bias <= MaxIndex /\ blockEnd <= extent'
         /\ Good(entries, Frontier)'
<1>1. NumbersOK /\ Good(entries, Frontier) BY InvariantParts
<1>2. extent <= extent' /\ blockEnd <= extent' /\ extent' \in {extent, blockEnd}
  BY <1>1 DEF Larger, NumbersOK
<1>3. Frontier = end BY DEF Frontier
<1>4. CASE HasRoom(blockEnd)
  <2>1. base' = base /\ entries' = entries BY <1>4 DEF Headroom
  <2>2. base' \in 0..MaxIndex /\ extent' \in 0..MaxIndex /\ base' + extent' + Bias <= MaxIndex
    BY <2>1, <1>1, <1>2, <1>4, IndexAssumption DEF NumbersOK, HasRoom, Bias
  <2>3. ASSUME NEW s \in Slots PROVE SlotGood(entries[s], Frontier)'
    <3>1. SlotGood(entries[s], end) BY <1>1, <1>3 DEF Good
    <3>2. entries'[s] = entries[s] BY <2>1
    <3>3. Seen(entries[s])' = Seen(entries[s]) BY <2>1 DEF Seen, Unbiased
    <3>4. entries[s].index < base' + extent' + Bias
      BY <3>1, <2>1, <1>1, <1>2 DEF SlotGood, NumbersOK, Bias
    <3>5. entries[s].holds < Frontier' \/ entries[s].holds = NoPosition
      BY <3>1, <1>1 DEF SlotGood, NumbersOK, NoPosition
    <3>6. QED BY <3>1, <3>2, <3>3, <3>4, <3>5 DEF SlotGood
  <2>4. Good(entries, Frontier)' BY <1>1, <2>1, <2>3 DEF Good
  <2>5. QED BY <2>2, <2>4, <1>2
<1>5. CASE ~HasRoom(blockEnd)
  <2>1. base' = 0 /\ entries' = [s \in Slots |-> Rebased(entries[s])]
    BY <1>5 DEF Headroom
  <2>2. base' \in 0..MaxIndex /\ extent' \in 0..MaxIndex /\ base' + extent' + Bias <= MaxIndex
    BY <2>1, <1>1, <1>2, IndexAssumption DEF NumbersOK, Bias
  <2>3. ASSUME NEW s \in Slots PROVE SlotGood(entries[s], Frontier)'
    <3> DEFINE e == entries[s]
               r == Rebased(e)
    <3>1. SlotGood(e, end) BY <1>1, <1>3 DEF Good
    <3>2. entries'[s] = r BY <2>1
    <3>3. e.index \in 0..MaxIndex /\ base \in Nat
      BY <3>1, <1>1 DEF SlotGood, NumbersOK
    <3>4. r.index = (IF e.index >= base + Bias THEN e.index - base ELSE 0)
          /\ r.holds = e.holds /\ r \in [index : Int, holds : Nat \cup {NoPosition}]
      BY <3>1, <3>3 DEF Rebased, SlotGood
    <3> HIDE DEF r, e
    <3>5. r.index \in 0..MaxIndex /\ r \in [index : 0..MaxIndex, holds : Nat \cup {NoPosition}]
      BY <3>3, <3>4, IndexAssumption DEF Bias
    <3>6. IF r.index >= 0 + Bias THEN r.index - 0 - Bias = e.holds ELSE e.holds = NoPosition
      BY <3>1, <3>3, <3>4 DEF SlotGood, Seen, Unbiased, Bias
    <3>7. Seen(entries[s])' = r.holds
      BY <2>1, <3>2, <3>4, <3>6 DEF Seen, Unbiased
    <3>8. r.index < base' + extent' + Bias
      BY <2>1, <2>2, <3>1, <3>3, <3>4, <1>1, <1>2 DEF SlotGood, NumbersOK, Bias
    <3>9. r.holds < Frontier' \/ r.holds = NoPosition
      BY <3>1, <3>4, <1>1 DEF SlotGood, NumbersOK, NoPosition
    <3>10. QED BY <3>2, <3>5, <3>7, <3>8, <3>9 DEF SlotGood
  <2>4. Good(entries, Frontier)' BY <2>1, <2>3 DEF Good
  <2>5. QED BY <2>2, <2>4, <1>2
<1>6. QED BY <1>4, <1>5

LEMMA BeginBlockStep == \A size \in BlockLengths : IndexInv /\ BeginBlock(size) => IndexInv'
<1> SUFFICES ASSUME NEW size \in BlockLengths, IndexInv, BeginBlock(size) PROVE IndexInv'
  OBVIOUS
<1>1. NumbersOK BY InvariantParts
<1>2. end + size \in Nat /\ size \in Nat \ {0} BY <1>1, IndexAssumption DEF NumbersOK
<1>3. parsing' /\ begin' = end /\ end' = end + size /\ anchor' = end
      /\ cursor' \in {end, end + 1} /\ lastMatch' = NoMatch /\ Flag'
  BY DEF BeginBlock, Flag
<1>4. Frontier' \in Nat /\ end <= Frontier'
  BY <1>1, <1>3 DEF Frontier, NumbersOK
<1>5. /\ base' \in 0..MaxIndex /\ extent' \in 0..MaxIndex
      /\ base' + extent' + Bias <= MaxIndex /\ end + size <= extent'
      /\ Good(entries, Frontier)'
  <2>1. ~parsing /\ end + size <= MaxIndex - Bias /\ Headroom(end + size)
        /\ extent' = Larger(extent, end + size) BY DEF BeginBlock
  <2>2. QED BY <2>1, <1>2, <1>4, HeadroomStep
<1>6. NumbersOK' BY <1>1, <1>2, <1>3, <1>5 DEF NumbersOK
<1>7. MatchOK' BY <1>3, NoMatchOK
<1>8. QED BY <1>5, <1>6, <1>7, InvariantParts, PTL

LEMMA RunShortcutStep == \A size \in BlockLengths : IndexInv /\ RunShortcut(size) => IndexInv'
<1> SUFFICES ASSUME NEW size \in BlockLengths, IndexInv, RunShortcut(size) PROVE IndexInv'
  OBVIOUS
<1>1. NumbersOK BY InvariantParts
<1>2. size \in Nat \ {0} BY IndexAssumption
<1>3. ~parsing /\ ~parsing' /\ begin' = 0 /\ end = 0 /\ end' = size /\ anchor' = anchor
      /\ cursor' = cursor /\ lastMatch' = NoMatch
  BY DEF RunShortcut
<1>4. Flag' BY <1>3, <1>1 DEF NumbersOK, Flag, RunShortcut
<1>5. Frontier' \in Nat /\ end <= Frontier'
  BY <1>2, <1>3 DEF Frontier
<1>6. /\ base' \in 0..MaxIndex /\ extent' \in 0..MaxIndex
      /\ base' + extent' + Bias <= MaxIndex
      /\ Good(entries, Frontier)'
  <2>1. size <= MaxIndex - Bias /\ Headroom(size) /\ extent' = Larger(extent, size)
    BY DEF RunShortcut
  <2>2. QED BY <2>1, <1>2, <1>3, <1>5, HeadroomStep
<1>7. NumbersOK' BY <1>1, <1>2, <1>3, <1>4, <1>6 DEF NumbersOK
<1>8. MatchOK' BY <1>3, NoMatchOK
<1>9. QED BY <1>6, <1>7, <1>8, InvariantParts, PTL

----------------------------------------------------------------------------
(* Steps that leave the base alone.                                        *)

\* The tables are good up to the new frontier, and the rest follows.
LEMMA SearchStep ==
  ASSUME IndexInv, UNCHANGED <<base, extent>>, Good(entries', Frontier')
  PROVE  Good(entries, Frontier)'
<1>1. ASSUME NEW s \in Slots PROVE SlotGood(entries[s], Frontier)'
  <2>1. SlotGood(entries'[s], Frontier') BY DEF Good
  <2>2. Seen(entries[s])' = Seen(entries'[s]) BY DEF Seen, Unbiased
  <2>3. QED BY <2>1, <2>2 DEF SlotGood
<1>2. QED BY <1>1 DEF Good

LEMMA SkipBlockStep == \A size \in BlockLengths : IndexInv /\ SkipBlock(size) => IndexInv'
<1> SUFFICES ASSUME NEW size \in BlockLengths, IndexInv, SkipBlock(size) PROVE IndexInv'
  OBVIOUS
<1>1. NumbersOK /\ Good(entries, Frontier) BY InvariantParts
<1>2. size \in Nat BY IndexAssumption
<1>3. ~parsing /\ ~parsing' /\ end' = end + size /\ entries' = entries
      /\ base' = base /\ extent' = extent /\ lastMatch' = NoMatch
  BY DEF SkipBlock
<1>4. Flag' BY <1>1 DEF NumbersOK, Flag, SkipBlock
<1>5. Good(entries', Frontier')
  <2>1. Frontier = end /\ Frontier' = end + size BY <1>3 DEF Frontier
  <2>2. end \in Nat /\ end + size \in Nat /\ end <= end + size BY <1>1, <1>2 DEF NumbersOK
  <2>3. QED BY <1>1, <1>3, <2>1, <2>2, LaterFrontier
<1>6. Good(entries, Frontier)' BY <1>3, <1>5, SearchStep
<1>7. NumbersOK' BY <1>1, <1>2, <1>3, <1>4 DEF NumbersOK, SkipBlock
<1>8. MatchOK' BY <1>3, NoMatchOK
<1>9. QED BY <1>6, <1>7, <1>8, InvariantParts, PTL

LEMMA EndBlockStep == IndexInv /\ EndBlock => IndexInv'
<1> SUFFICES ASSUME IndexInv, EndBlock PROVE IndexInv' OBVIOUS
<1>1. NumbersOK /\ Good(entries, Frontier) BY InvariantParts
<1>2. parsing /\ ~parsing' /\ end' = end /\ entries' = entries
      /\ base' = base /\ extent' = extent /\ lastMatch' = NoMatch /\ Flag'
  BY DEF EndBlock, Flag
<1>3. Good(entries', Frontier')
  <2>1. Frontier = cursor /\ Frontier' = end BY <1>2 DEF Frontier
  <2>2. cursor \in Nat /\ end \in Nat /\ cursor <= end BY <1>1, <1>2 DEF NumbersOK
  <2>3. QED BY <1>1, <1>2, <2>1, <2>2, LaterFrontier
<1>4. Good(entries, Frontier)' BY <1>2, <1>3, SearchStep
<1>5. NumbersOK' BY <1>1, <1>2 DEF NumbersOK, EndBlock
<1>6. MatchOK' BY <1>2, NoMatchOK
<1>7. QED BY <1>4, <1>5, <1>6, InvariantParts, PTL

----------------------------------------------------------------------------
(* The steps of a search.                                                  *)

LEMMA ProbeStep ==
  \A place \in Places, gap \in 1..MaxGap : IndexInv /\ Probe(place, gap) => IndexInv'
<1> SUFFICES ASSUME NEW place \in Places, NEW gap \in 1..MaxGap, IndexInv, Probe(place, gap)
             PROVE  IndexInv'
  OBVIOUS
<1>1. NumbersOK /\ Good(entries, Frontier) BY InvariantParts
<1>2. /\ parsing /\ parsing' /\ Flag' /\ cursor + gap <= Limit
      /\ entries' = Put(entries, place, cursor) /\ cursor' = cursor + gap
      /\ base' = base /\ extent' = extent /\ begin' = begin /\ end' = end
      /\ anchor' = anchor /\ lastMatch' = NoMatch
  BY <1>1 DEF Probe, Searching, NumbersOK, Flag
<1>3. gap \in Nat /\ gap >= 1 BY IndexAssumption
<1>4. cursor + gap <= end /\ cursor + gap < extent /\ Numbers
  BY <1>1, <1>2, <1>3, IndexAssumption DEF NumbersOK, Limit, Numbers
<1>5. Frontier = cursor /\ Frontier' = cursor + gap BY <1>2 DEF Frontier
<1>6. cursor \in Nat /\ cursor + gap \in Nat /\ cursor < cursor + gap /\ cursor < extent
  BY <1>1, <1>3, <1>4 DEF NumbersOK
<1>7. Good(entries', Frontier')
  <2>1. Good(entries, cursor + gap) BY <1>1, <1>5, <1>6, LaterFrontier
  <2>2. Good(Put(entries, place, cursor), cursor + gap) BY <2>1, <1>4, <1>6, PutGood
  <2>3. QED BY <2>2, <1>2, <1>5
<1>8. Good(entries, Frontier)' BY <1>2, <1>7, SearchStep
<1>9. NumbersOK' BY <1>1, <1>2, <1>3, <1>4 DEF NumbersOK
<1>10. MatchOK' BY <1>2, NoMatchOK
<1>11. QED BY <1>8, <1>9, <1>10, InvariantParts, PTL

\* What every step that ends a match has in common.
LEMMA MatchEndStep ==
  ASSUME IndexInv, parsing, NEW next \in Nat, cursor + MinMatch <= next, next <= end,
         cursor' = next, anchor' = next, UNCHANGED <<base, extent, parsing, begin, end>>,
         Good(entries', next), MatchOK'
  PROVE  IndexInv'
<1>1. NumbersOK BY InvariantParts
<1>2. Flag' BY <1>1 DEF NumbersOK, Flag
<1>3. Frontier' = next BY DEF Frontier
<1>4. Good(entries, Frontier)' BY <1>3, SearchStep
<1>5. NumbersOK' BY <1>1, <1>2, IndexAssumption DEF NumbersOK
<1>6. QED BY <1>4, <1>5, InvariantParts, PTL

LEMMA SearchingNumbers ==
  ASSUME IndexInv, parsing
  PROVE  /\ Numbers /\ Good(entries, cursor) /\ cursor \in Nat /\ end \in Nat /\ begin \in Nat
         /\ end <= extent /\ begin < end /\ begin <= cursor /\ cursor <= end
  BY InvariantParts DEF NumbersOK, Numbers, Frontier

\* A slot that a search accepts holds a position inside the window.
LEMMA Accepted ==
  ASSUME Numbers, NEW e, NEW f \in Nat, SlotGood(e, f), e.index >= Lowest
  PROVE  /\ Unbiased(e.index) = e.holds /\ e.holds \in Nat /\ e.holds < f
         /\ end - e.holds <= WindowSize
<1>1. base \in Nat /\ PrefixStart \in Nat /\ end - PrefixStart <= WindowSize
  BY IndexAssumption DEF Numbers, PrefixStart
<1>2. e.index \in Nat /\ e.index >= base + Bias /\ e.index >= base + PrefixStart + Bias
  BY <1>1 DEF SlotGood, Lowest, Bias
<1>3. e.holds = e.index - base - Bias
  BY <1>2 DEF SlotGood, Seen, Unbiased
<1>4. e.holds >= PrefixStart BY <1>1, <1>2, <1>3 DEF Bias
<1>5. end - e.holds <= WindowSize
  BY <1>1, <1>2, <1>3, <1>4, IndexAssumption DEF Numbers, Bias
<1>6. e.holds \in Nat BY <1>1, <1>2, <1>3 DEF Bias
<1>7. e.holds < f BY <1>6 DEF SlotGood, NoPosition
<1>8. QED BY <1>3, <1>5, <1>6, <1>7 DEF Unbiased

LEMMA MatchStep ==
  \A place \in Places, gap \in 1..MaxGap, length \in 1..(end - begin), slot \in Slots :
    IndexInv /\ Match(place, slot, gap, length) => IndexInv'
<1> SUFFICES ASSUME NEW place \in Places, NEW gap \in 1..MaxGap,
                    NEW length \in 1..(end - begin), NEW slot \in Slots,
                    IndexInv, Match(place, slot, gap, length)
             PROVE  IndexInv'
  OBVIOUS
<1> DEFINE next == cursor + length
           e == entries[slot]
<1>1. parsing BY DEF Match, Searching
<1>2. /\ Numbers /\ Good(entries, cursor) /\ cursor \in Nat /\ end \in Nat /\ begin \in Nat
      /\ end <= extent
  BY <1>1, SearchingNumbers
<1>3. e.index >= Lowest /\ next <= end /\ length >= MinMatch
      /\ lastMatch' = [at |-> cursor, from |-> Unbiased(e.index), holds |-> e.holds]
      /\ RecordMatch(place, gap, next) /\ cursor' = next /\ anchor' = next
      /\ UNCHANGED <<base, extent, parsing, begin, end>>
  BY DEF Match
<1>4. next \in Nat /\ cursor + MinMatch <= next /\ next <= extent /\ gap \in Nat
  BY <1>2, <1>3, IndexAssumption DEF Numbers
<1>5. SlotGood(e, cursor) BY <1>2 DEF Good
<1>6. Unbiased(e.index) = e.holds /\ e.holds \in Nat /\ e.holds < cursor
      /\ end - e.holds <= WindowSize
  BY <1>2, <1>3, <1>5, Accepted
<1> HIDE DEF next, e
<1>7. cursor <= end BY <1>1, SearchingNumbers
<1>8. MatchOK'
  BY <1>2, <1>3, <1>6, <1>7, IndexAssumption DEF MatchOK, MatchesPointBack
<1>9. Good(entries', next) BY <1>2, <1>3, <1>4, RecordMatchGood
<1>10. QED BY <1>1, <1>3, <1>4, <1>8, <1>9, MatchEndStep

LEMMA NextMatchStep ==
  \A place \in Places, gap \in 1..MaxGap, length \in 1..(end - begin), slot \in Slots :
    IndexInv /\ NextMatch(place, slot, gap, length) => IndexInv'
<1> SUFFICES ASSUME NEW place \in Places, NEW gap \in 1..MaxGap,
                    NEW length \in 1..(end - begin), NEW slot \in Slots,
                    IndexInv, NextMatch(place, slot, gap, length)
             PROVE  IndexInv'
  OBVIOUS
<1> DEFINE next == cursor + gap + length
           e == Put(entries, place, cursor)[slot]
<1>1. parsing BY DEF NextMatch, Searching
<1>2. /\ Numbers /\ Good(entries, cursor) /\ cursor \in Nat /\ end \in Nat /\ begin \in Nat
      /\ end <= extent
  BY <1>1, SearchingNumbers
<1>3. e.index > Lowest /\ next <= end /\ length > MinMatch
      /\ lastMatch' = [at |-> cursor + gap, from |-> Unbiased(e.index), holds |-> e.holds]
      /\ RecordMatch(place, gap, next) /\ cursor' = next /\ anchor' = next
      /\ UNCHANGED <<base, extent, parsing, begin, end>>
  BY DEF NextMatch
<1>4. next \in Nat /\ cursor + MinMatch <= next /\ next <= extent /\ gap \in Nat
      /\ cursor + gap \in Nat /\ cursor < cursor + gap /\ cursor < extent /\ cursor + gap <= end
  BY <1>2, <1>3, IndexAssumption DEF Numbers
<1>5. SlotGood(e, cursor + gap)
  <2>1. Good(entries, cursor + gap) BY <1>2, <1>4, LaterFrontier
  <2>2. Good(Put(entries, place, cursor), cursor + gap) BY <2>1, <1>2, <1>4, PutGood
  <2>3. QED BY <2>2 DEF Good
<1>6. Unbiased(e.index) = e.holds /\ e.holds \in Nat /\ e.holds < cursor + gap
      /\ end - e.holds <= WindowSize
  <2>1. e.index \in Int /\ Lowest \in Int
    BY <1>2, <1>5, IndexAssumption DEF SlotGood, Lowest, PrefixStart, Numbers, Bias
  <2>2. e.index >= Lowest BY <1>3, <2>1
  <2>3. QED BY <1>2, <1>4, <1>5, <2>2, Accepted
<1> HIDE DEF next, e
<1>7. MatchOK'
  BY <1>2, <1>3, <1>4, <1>6, IndexAssumption DEF MatchOK, MatchesPointBack
<1>8. Good(entries', next) BY <1>2, <1>3, <1>4, RecordMatchGood
<1>9. QED BY <1>1, <1>3, <1>4, <1>7, <1>8, MatchEndStep

LEMMA RepeatMatchStep ==
  \A place \in Places, gap \in 1..MaxGap, length \in 1..(end - begin) :
    IndexInv /\ RepeatMatch(place, gap, length) => IndexInv'
<1> SUFFICES ASSUME NEW place \in Places, NEW gap \in 1..MaxGap,
                    NEW length \in 1..(end - begin),
                    IndexInv, RepeatMatch(place, gap, length)
             PROVE  IndexInv'
  OBVIOUS
<1> DEFINE next == cursor + gap + length
           probed == Put(entries, place, cursor)
<1>1. parsing BY DEF RepeatMatch, Searching
<1>2. /\ Numbers /\ Good(entries, cursor) /\ cursor \in Nat /\ end \in Nat /\ begin \in Nat
      /\ end <= extent
  BY <1>1, SearchingNumbers
<1>3. next <= end /\ length >= MinMatch /\ lastMatch' = NoMatch
      /\ cursor' = next /\ anchor' = next
      /\ UNCHANGED <<base, extent, parsing, begin, end>>
  BY DEF RepeatMatch
<1>4. next \in Nat /\ cursor + MinMatch <= next /\ next <= extent
      /\ cursor < next /\ cursor < extent /\ cursor + 1 < next /\ cursor + 1 < extent
      /\ cursor + 1 \in Nat
  BY <1>2, <1>3, IndexAssumption DEF Numbers
<1>5. Good(probed, next)
  <2>1. Good(entries, next) BY <1>2, <1>4, LaterFrontier
  <2>2. QED BY <2>1, <1>2, <1>4, PutGood
<1>6. Good(entries', next)
  <2>1. CASE DoubleFast
    <3>1. AfterMatch(probed, next) BY <2>1 DEF RepeatMatch
    <3> HIDE DEF probed, next
    <3>2. QED BY <3>1, <1>2, <1>4, <1>5, AfterMatchGood
  <2>2. CASE ~DoubleFast
    <3>1. PICK s \in ShortSlots : AfterMatch(Put(probed, {s}, cursor + 1), next)
      BY <2>2 DEF RepeatMatch
    <3> HIDE DEF probed, next
    <3>2. Good(Put(probed, {s}, cursor + 1), next) BY <1>2, <1>4, <1>5, PutGood
    <3>3. QED BY <3>1, <3>2, <1>2, <1>4, AfterMatchGood
  <2>3. QED BY <2>1, <2>2
<1> HIDE DEF next
<1>7. MatchOK' BY <1>3, NoMatchOK
<1>8. QED BY <1>1, <1>3, <1>4, <1>6, <1>7, MatchEndStep

LEMMA ImmediateRepeatStep ==
  \A place \in Places, length \in 1..(end - begin) :
    IndexInv /\ ImmediateRepeat(place, length) => IndexInv'
<1> SUFFICES ASSUME NEW place \in Places, NEW length \in 1..(end - begin),
                    IndexInv, ImmediateRepeat(place, length)
             PROVE  IndexInv'
  OBVIOUS
<1> DEFINE next == cursor + length
<1>1. parsing BY DEF ImmediateRepeat
<1>2. /\ Numbers /\ Good(entries, cursor) /\ cursor \in Nat /\ end \in Nat /\ begin \in Nat
      /\ end <= extent
  BY <1>1, SearchingNumbers
<1>3. next <= end /\ length >= MinMatch /\ lastMatch' = NoMatch
      /\ cursor' = next /\ anchor' = next /\ entries' = Put(entries, place, cursor)
      /\ UNCHANGED <<base, extent, parsing, begin, end>>
  BY DEF ImmediateRepeat
<1>4. next \in Nat /\ cursor + MinMatch <= next /\ cursor < next /\ cursor < extent
      /\ cursor <= next /\ next <= extent
  BY <1>2, <1>3, IndexAssumption DEF Numbers
<1> HIDE DEF next
<1>5. Good(entries, next) BY <1>2, <1>4, LaterFrontier
<1>6. Good(entries', next) BY <1>2, <1>3, <1>4, <1>5, PutGood
<1>7. MatchOK' BY <1>3, NoMatchOK
<1>8. QED BY <1>1, <1>3, <1>4, <1>6, <1>7, MatchEndStep

LEMMA StutterStep == IndexInv /\ UNCHANGED indexVars => IndexInv'
<1> SUFFICES ASSUME IndexInv, UNCHANGED indexVars PROVE IndexInv' OBVIOUS
<1>1. NumbersOK /\ MatchOK /\ Good(entries, Frontier) BY InvariantParts
<1>2. Flag' BY <1>1 DEF NumbersOK, Flag, indexVars
<1>3. NumbersOK' BY <1>1, <1>2 DEF NumbersOK, indexVars
<1>4. MatchOK' BY <1>1 DEF MatchOK, MatchesPointBack, indexVars
<1>5. Good(entries', Frontier') BY <1>1 DEF indexVars, Frontier
<1>6. Good(entries, Frontier)' BY <1>5, SearchStep DEF indexVars
<1>7. QED BY <1>3, <1>4, <1>6, InvariantParts, PTL

----------------------------------------------------------------------------
(* The invariant.                                                          *)

LEMMA NextStep == IndexInv /\ [IndexNext]_indexVars => IndexInv'
<1> SUFFICES ASSUME IndexInv, [IndexNext]_indexVars PROVE IndexInv' OBVIOUS
<1>1. CASE \E size \in BlockLengths : BeginBlock(size) \/ SkipBlock(size) \/ RunShortcut(size)
  BY <1>1, BeginBlockStep, SkipBlockStep, RunShortcutStep
<1>2. CASE \E place \in Places, gap \in 1..MaxGap :
             \/ Probe(place, gap)
             \/ \E length \in 1..(end - begin) :
                  \/ \E slot \in Slots : Match(place, slot, gap, length)
                                         \/ NextMatch(place, slot, gap, length)
                  \/ RepeatMatch(place, gap, length)
  BY <1>2, ProbeStep, MatchStep, NextMatchStep, RepeatMatchStep
<1>3. CASE \E place \in Places, length \in 1..(end - begin) : ImmediateRepeat(place, length)
  BY <1>3, ImmediateRepeatStep
<1>4. CASE EndBlock BY <1>4, EndBlockStep
<1>5. CASE ResetTables BY <1>5, ResetStep
<1>6. CASE UNCHANGED indexVars BY <1>6, StutterStep
<1>7. QED BY <1>1, <1>2, <1>3, <1>4, <1>5, <1>6 DEF IndexNext

\* The tables' indexes and the positions they stand for, in every frame
\* (fast_match_state, double_fast_match_state).
THEOREM IndexesHold == IndexSpec => []IndexInv
<1>1. IndexInit => IndexInv BY IndexInitHolds
<1>2. IndexInv /\ [IndexNext]_indexVars => IndexInv' BY NextStep
<1>3. QED BY <1>1, <1>2, PTL DEF IndexSpec

\* However often the tables are reused or rebased, a search sees what this frame
\* recorded and nothing else (reset, ensure_index_headroom).
THEOREM ReusedAsNew == IndexSpec => []TablesHoldThisFrame
<1>1. IndexInv => TablesHoldThisFrame BY DEF IndexInv
<1>2. QED BY <1>1, IndexesHold, PTL

\* Every match that is taken from a table lies before its own position and
\* inside the window (parse of both parsers).
THEOREM MatchesReachBack == IndexSpec => []MatchesPointBack
<1>1. IndexInv => MatchesPointBack BY DEF IndexInv
<1>2. QED BY <1>1, IndexesHold, PTL
=============================================================================
