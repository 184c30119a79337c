------------------------- MODULE DecompressorProofs --------------------------
(***************************************************************************)
(* What StreamDecoder's run checks, for every stream and every way to hand *)
(* it over: the window of history is what a match may refer to             *)
(* (WindowRetained), the caller's storage holds the frame and is given     *)
(* back (StorageHoldsFrame), a finished stream has been read to its end    *)
(* (FinishedHasReadAll), and the decoder implements FrameReader            *)
(* (ReadsTheStream).                                                       *)
(*                                                                         *)
(* The invariant IInv relates the parser to the part of the stream it has  *)
(* read last (Tracking): its state is the one that part leaves behind, and *)
(* in a frame the checksum and the size are those of the content so far.   *)
(*                                                                         *)
(* Then what TableCache's run checks, for every number of kept tables and  *)
(* all that sections may begin with: a kept table is what its description  *)
(* says (CachesAreTrue), and answers as reading would (AnsweredAsRead).    *)
(* Both rest on ReadLocal: a description that is accepted says the same,   *)
(* whatever is behind it.                                                  *)
(***************************************************************************)
EXTENDS StreamDecoder, TableCache, FrameProofs

----------------------------------------------------------------------------
(* Streams.                                                                *)

\* The frame that part k belongs to has its header at h.
HasHeader(w, h, k) ==
  /\ h \in 1..k /\ w[h].kind = "header"
  /\ \A i \in (h + 1)..k : w[i].kind # "header"

\* The parser's state when part j was the last it read.
StateBehind(w, j) ==
  IF j = 0 \/ w[j].kind = "skippable" \/ EndsFrame(w, j) THEN "frame_header"
  ELSE CASE w[j].kind = "header"  -> "block_header"
         [] w[j].kind = "block"   -> "block_payload"
         [] w[j].kind = "payload" -> IF w[j - 1].last THEN "frame_checksum" ELSE "block_header"
         [] OTHER                 -> "none"

PlaceBehind(w, j) == IF j = 0 THEN 0 ELSE EndOf(w[j])

\* The types of a part's fields.
LEMMA PartFields ==
  ASSUME NEW p \in StreamParts
  PROVE  /\ p.at \in Nat /\ p.length \in Nat
         /\ p.kind \in {"skippable", "invalid", "header", "block", "payload", "checksum"}
         /\ p.kind = "header" => /\ p.contentSize \in Nat \cup {UnknownSize}
                                 /\ p.window \in Nat /\ p.checksum \in BOOLEAN
         /\ p.kind = "block" => /\ p.type \in {"raw", "run_length", "compressed"}
                                /\ p.last \in BOOLEAN
         /\ p.kind = "payload" => p.bytes \in Seq(Nat)
         /\ BytesOf(p) \in Seq(Nat)
<1>1. CASE p \in [kind : {"skippable", "invalid"}, length : Nat, at : Nat]
  BY <1>1 DEF BytesOf
<1>2. CASE p \in [kind : {"header"}, length : Nat, at : Nat,
                  contentSize : Nat \cup {UnknownSize}, window : Nat, checksum : BOOLEAN]
  BY <1>2 DEF BytesOf
<1>3. CASE p \in [kind : {"block"}, length : Nat, at : Nat, size : Nat, last : BOOLEAN,
                  type : {"raw", "run_length", "compressed"}]
  BY <1>3 DEF BytesOf
<1>4. CASE p \in [kind : {"payload"}, length : Nat, at : Nat, bytes : Seq(Nat)]
  BY <1>4 DEF BytesOf
<1>5. CASE p \in [kind : {"checksum"}, length : Nat, at : Nat,
                  of : [stripes : Seq(Seq(Nat)), size : Nat, words : Seq(Seq(Nat))]]
  BY <1>5 DEF BytesOf
<1> QED BY <1>1, <1>2, <1>3, <1>4, <1>5 DEF StreamParts

\* A stream's parts and how they follow one another.
LEMMA StreamFields ==
  ASSUME NEW w, IsStream(w)
  PROVE  /\ Len(w) \in Nat /\ DOMAIN w = 1..Len(w)
         /\ \A k \in 1..Len(w) :
              /\ w[k] \in StreamParts
              /\ w[k].at = PlaceBehind(w, k - 1)
              /\ w[k].length = 0 => w[k].kind = "payload" /\ w[k].bytes = <<>>
              /\ w[k].kind \in KindsBehind(w, k - 1)
<1>1. w \in Seq(StreamParts) BY DEF IsStream
<1>2. Len(w) \in Nat /\ DOMAIN w = 1..Len(w) BY <1>1
<1>3. ASSUME NEW k \in 1..Len(w)
      PROVE  /\ w[k] \in StreamParts
             /\ w[k].at = PlaceBehind(w, k - 1)
             /\ w[k].length = 0 => w[k].kind = "payload" /\ w[k].bytes = <<>>
             /\ w[k].kind \in KindsBehind(w, k - 1)
  <2>1. k \in DOMAIN w /\ k \in Nat /\ (k = 1 <=> k - 1 = 0) BY <1>2
  <2>2. w[k] \in StreamParts BY <1>1, <2>1
  <2> QED BY <2>1, <2>2 DEF IsStream, PlaceBehind
<1> QED BY <1>2, <1>3

\* A payload is only behind a block, and what is behind it is no payload.
LEMMA PayloadNeighbours ==
  ASSUME NEW w, IsStream(w), NEW k \in 1..Len(w), w[k].kind = "payload"
  PROVE  /\ k - 1 \in 1..Len(w) /\ w[k - 1].kind = "block"
         /\ \A i \in 1..Len(w) : i = k + 1 => w[i].kind # "payload"
<1>1. /\ Len(w) \in Nat
      /\ \A i \in 1..Len(w) : w[i].kind \in KindsBehind(w, i - 1)
  BY StreamFields
<1>2. \A j \in 0..Len(w) : "payload" \in KindsBehind(w, j) => j # 0 /\ w[j].kind = "block"
  BY <1>1 DEF KindsBehind
<1>3. k - 1 \in 0..Len(w) BY <1>1
<1>4. k - 1 # 0 /\ w[k - 1].kind = "block" BY <1>1, <1>2, <1>3
<1>5. ASSUME NEW i \in 1..Len(w), i = k + 1 PROVE w[i].kind # "payload"
  <2>1. i - 1 = k /\ k \in 0..Len(w) BY <1>5
  <2> QED BY <1>1, <1>2, <1>5, <2>1
<1> QED BY <1>3, <1>4, <1>5

\* Parts lie behind each other.
LEMMA PartsAreOrdered ==
  ASSUME NEW w, IsStream(w), NEW a \in 1..Len(w), NEW b \in 1..Len(w), a < b
  PROVE  w[b].at >= EndOf(w[a])
<1> DEFINE T == {d \in Nat : a + 1 + d <= Len(w) => w[a + 1 + d].at >= EndOf(w[a])}
<1>1. /\ Len(w) \in Nat
      /\ \A k \in 1..Len(w) : w[k].at \in Nat /\ w[k].length \in Nat
      /\ \A k \in 1..Len(w) : k > 1 => w[k].at = EndOf(w[k - 1])
  <2>1. \A k \in 1..Len(w) : w[k].at \in Nat /\ w[k].length \in Nat
    BY StreamFields, PartFields
  <2>2. Len(w) \in Nat /\ \A k \in 1..Len(w) : w[k].at = PlaceBehind(w, k - 1) BY StreamFields
  <2>3. \A k \in 1..Len(w) : k > 1 => w[k].at = EndOf(w[k - 1]) BY <2>2 DEF PlaceBehind
  <2> QED BY <2>1, <2>2, <2>3
<1>2. 0 \in T
  <2>1. CASE a + 1 <= Len(w)
    <3>1. a + 1 \in 1..Len(w) /\ (a + 1) - 1 = a /\ a + 1 > 1 /\ a + 1 + 0 = a + 1 BY <2>1, <1>1
    <3>2. w[a + 1].at = EndOf(w[a]) BY <3>1, <1>1
    <3>3. EndOf(w[a]) \in Nat BY <1>1 DEF EndOf
    <3> QED BY <3>1, <3>2, <3>3
  <2> QED BY <2>1, <1>1
<1>3. ASSUME NEW d \in Nat, d \in T PROVE d + 1 \in T
  <2> SUFFICES ASSUME a + 1 + (d + 1) <= Len(w) PROVE w[a + 1 + (d + 1)].at >= EndOf(w[a])
    OBVIOUS
  <2> DEFINE k == a + 1 + d
  <2>1. k \in 1..Len(w) /\ k + 1 \in 1..Len(w) /\ (k + 1) - 1 = k /\ k + 1 > 1
        /\ a + 1 + (d + 1) = k + 1
    BY <1>1
  <2>2. w[k].at >= EndOf(w[a]) BY <1>3, <2>1
  <2> HIDE DEF k
  <2>3. w[k + 1].at = EndOf(w[k]) BY <2>1, <1>1
  <2>4. EndOf(w[a]) \in Nat BY <1>1 DEF EndOf
  <2>5. w[k].at \in Nat /\ w[k].length \in Nat BY <2>1, <1>1
  <2>6. w[k + 1].at = w[k].at + w[k].length BY <2>3 DEF EndOf
  <2> QED BY <2>1, <2>2, <2>4, <2>5, <2>6
<1>4. b - (a + 1) \in Nat /\ a + 1 + (b - (a + 1)) = b BY <1>1
<1>5. b - (a + 1) \in T
  <2> HIDE DEF T
  <2> QED BY <1>2, <1>3, <1>4, Induction
<1> QED BY <1>4, <1>5, <1>1

\* The parts that start where the first j end: the next one, the one behind an
\* empty block's payload, or that payload itself.
LEMMA SamePlace ==
  ASSUME NEW w, IsStream(w), NEW j \in 0..Len(w), NEW k \in 1..Len(w),
         w[k].at = PlaceBehind(w, j)
  PROVE  \/ k = j + 1
         \/ k = j + 2 /\ w[j + 1].kind = "payload" /\ w[j + 1].length = 0
                      /\ w[j + 1].at = PlaceBehind(w, j)
         \/ k = j /\ w[j].kind = "payload" /\ w[j].length = 0
<1> DEFINE P == PlaceBehind(w, j)
<1>1. /\ Len(w) \in Nat
      /\ \A i \in 1..Len(w) : w[i].at \in Nat /\ w[i].length \in Nat
      /\ \A i \in 1..Len(w) : i > 1 => w[i].at = EndOf(w[i - 1])
      /\ \A i \in 1..Len(w) : w[i].at = PlaceBehind(w, i - 1)
      /\ \A i \in 1..Len(w) : w[i].length = 0 => w[i].kind = "payload"
  <2>1. \A i \in 1..Len(w) : w[i].at \in Nat /\ w[i].length \in Nat
    BY StreamFields, PartFields
  <2>2. /\ Len(w) \in Nat
        /\ \A i \in 1..Len(w) : /\ w[i].at = PlaceBehind(w, i - 1)
                                /\ w[i].length = 0 => w[i].kind = "payload"
    BY StreamFields
  <2>3. \A i \in 1..Len(w) : i > 1 => w[i].at = EndOf(w[i - 1]) BY <2>2 DEF PlaceBehind
  <2> QED BY <2>1, <2>2, <2>3
<1>2. \A i \in 1..Len(w) : i + 1 \in 1..Len(w) => ~(w[i].length = 0 /\ w[i + 1].length = 0)
  <2>1. ASSUME NEW i \in 1..Len(w), i + 1 \in 1..Len(w), w[i].length = 0, w[i + 1].length = 0
        PROVE FALSE
    <3>1. w[i].kind = "payload" /\ w[i + 1].kind = "payload" BY <2>1, <1>1
    <3> QED BY <3>1, <2>1, PayloadNeighbours
  <2> QED BY <2>1
<1>3. P \in Nat BY <1>1 DEF PlaceBehind, EndOf
<1>4. CASE k = j + 1 BY <1>4
<1>5. CASE k > j + 1
  <2>1. j + 1 \in 1..Len(w) /\ (j + 1) - 1 = j BY <1>1, <1>5
  <2>2. w[j + 1].at = P BY <1>1, <2>1
  <2>3. w[k].at >= EndOf(w[j + 1]) BY <2>1, <1>5, PartsAreOrdered
  <2> HIDE DEF P
  <2>4. w[k].at = P BY DEF P
  <2>5. w[j + 1].length = 0 BY <2>1, <2>2, <2>3, <2>4, <1>1, <1>3 DEF EndOf
  <2>6. k = j + 2
    <3> SUFFICES ASSUME k > j + 2 PROVE FALSE BY <1>1, <1>5
    <3>1. j + 2 \in 1..Len(w) /\ (j + 2) - 1 = j + 1 /\ j + 2 > 1 /\ j + 2 = (j + 1) + 1 BY <1>1
    <3>2. w[j + 2].at = EndOf(w[j + 1]) BY <1>1, <3>1
    <3>3. w[j + 2].at = P BY <3>2, <2>2, <2>5, <1>3 DEF EndOf
    <3>4. w[k].at >= EndOf(w[j + 2]) BY <3>1, PartsAreOrdered
    <3>5. w[j + 2].length = 0 BY <3>1, <3>3, <3>4, <2>4, <1>1, <1>3 DEF EndOf
    <3> QED BY <3>1, <3>5, <2>1, <2>5, <1>2
  <2> QED BY <2>1, <2>2, <2>5, <2>6, <1>1 DEF P
<1>6. CASE k = j
  <2>1. j \in 1..Len(w) /\ P = EndOf(w[j]) BY <1>6 DEF PlaceBehind
  <2> HIDE DEF P
  <2>2. w[j].at = P BY <1>6 DEF P
  <2>3. w[j].length = 0 BY <2>1, <2>2, <1>1, <1>3 DEF EndOf
  <2> QED BY <1>6, <2>1, <2>3, <1>1
<1>7. CASE k < j
  <2>1. j \in 1..Len(w) /\ j > 1 /\ P = EndOf(w[j]) /\ j - 1 \in 1..Len(w) /\ (j - 1) + 1 = j
    BY <1>7, <1>1 DEF PlaceBehind
  <2> HIDE DEF P
  <2>2. w[k].at = P BY DEF P
  <2>3. w[j].at >= EndOf(w[k]) BY <1>7, <2>1, PartsAreOrdered
  <2>4. w[j].length = 0 /\ w[k].length = 0 /\ w[j].at = P
    <3>1. w[j].at \in Nat /\ w[j].length \in Nat /\ w[k].length \in Nat BY <2>1, <1>1
    <3>2. P = w[j].at + w[j].length BY <2>1 DEF EndOf
    <3>3. w[j].at >= P + w[k].length BY <2>2, <2>3 DEF EndOf
    <3> QED BY <3>1, <3>2, <3>3, <1>3, SMTT(30)
  <2>5. w[j].at = EndOf(w[j - 1]) BY <1>1, <2>1
  <2>6. w[j - 1].length = 0
    <3>1. CASE k = j - 1 BY <3>1, <2>4
    <3>2. CASE k < j - 1
      <4>1. w[j - 1].at >= EndOf(w[k]) BY <3>2, <2>1, PartsAreOrdered
      <4>2. w[j - 1].at \in Nat /\ w[j - 1].length \in Nat BY <2>1, <1>1
      <4>3. P = w[j - 1].at + w[j - 1].length BY <2>4, <2>5 DEF EndOf
      <4>4. w[j - 1].at >= P BY <4>1, <2>2, <2>4, <1>3 DEF EndOf
      <4> QED BY <4>2, <4>3, <4>4, <1>3
    <3> QED BY <3>1, <3>2, <1>7, <1>1
  <2> QED BY <2>1, <2>4, <2>6, <1>2
<1> QED BY <1>4, <1>5, <1>6, <1>7, <1>1

\* The kinds that may come are those that the parser's state reads.
LEMMA KindsAreRead ==
  ASSUME NEW w, NEW j \in 0..Len(w), Len(w) \in Nat,
         j # 0 => w[j].kind \in {"skippable", "header", "block", "payload", "checksum"}
  PROVE  /\ StateBehind(w, j) \in DOMAIN KindRead
         /\ KindsBehind(w, j) = KindRead[StateBehind(w, j)] \cup {"invalid"}
<1>1. /\ KindRead["frame_header"] = {"skippable", "header"}
      /\ KindRead["block_header"] = {"block"}
      /\ KindRead["block_payload"] = {"payload"}
      /\ KindRead["frame_checksum"] = {"checksum"}
      /\ DOMAIN KindRead = {"frame_header", "block_header", "block_payload", "frame_checksum"}
  BY DEF KindRead
<1>2. CASE j = 0 \/ w[j].kind = "skippable" \/ EndsFrame(w, j)
  BY <1>1, <1>2 DEF StateBehind, KindsBehind
<1>3. CASE ~(j = 0 \/ w[j].kind = "skippable" \/ EndsFrame(w, j))
  <2>1. w[j].kind # "checksum" BY <1>3 DEF EndsFrame
  <2>2. CASE w[j].kind = "header" BY <1>1, <1>3, <2>2 DEF StateBehind, KindsBehind
  <2>3. CASE w[j].kind = "block" BY <1>1, <1>3, <2>3 DEF StateBehind, KindsBehind
  <2>4. CASE w[j].kind = "payload" /\ w[j - 1].last
    BY <1>1, <1>3, <2>4 DEF StateBehind, KindsBehind
  <2>5. CASE w[j].kind = "payload" /\ ~w[j - 1].last
    BY <1>1, <1>3, <2>5 DEF StateBehind, KindsBehind
  <2> QED BY <1>3, <2>1, <2>2, <2>3, <2>4, <2>5
<1> QED BY <1>2, <1>3

\* A part has one header.
LEMMA HeaderUnique ==
  ASSUME NEW w, NEW k \in Nat, NEW h, HasHeader(w, h, k)
  PROVE  HeaderOf(w, k) = h
<1> DEFINE P(g) == w[g].kind = "header" /\ \A i \in (g + 1)..k : w[i].kind # "header"
<1>1. h \in 1..k /\ P(h) BY DEF HasHeader
<1>2. ASSUME NEW g \in 1..k, P(g) PROVE g = h
  <2>1. ~(g < h)
    <3> SUFFICES ASSUME g < h PROVE FALSE OBVIOUS
    <3>1. h \in (g + 1)..k BY <1>1
    <3> QED BY <3>1, <1>1, <1>2
  <2>2. ~(h < g)
    <3> SUFFICES ASSUME h < g PROVE FALSE OBVIOUS
    <3>1. g \in (h + 1)..k BY <1>1
    <3> QED BY <3>1, <1>1, <1>2
  <2> QED BY <2>1, <2>2, <1>1
<1>3. HeaderOf(w, k) = CHOOSE g \in 1..k : P(g) BY DEF HeaderOf
<1> HIDE DEF P
<1> QED BY <1>1, <1>2, <1>3

\* A header is its own; any other part has that of the part before.
LEMMA NextHeader ==
  ASSUME NEW w, NEW j \in Nat
  PROVE  /\ w[j + 1].kind = "header" => HasHeader(w, j + 1, j + 1)
         /\ \A h : HasHeader(w, h, j) /\ w[j + 1].kind # "header" => HasHeader(w, h, j + 1)
<1>1. w[j + 1].kind = "header" => HasHeader(w, j + 1, j + 1) BY DEF HasHeader
<1>2. ASSUME NEW h, HasHeader(w, h, j), w[j + 1].kind # "header" PROVE HasHeader(w, h, j + 1)
  <2>1. h \in 1..(j + 1) BY <1>2 DEF HasHeader
  <2>2. \A i \in (h + 1)..(j + 1) : i \in (h + 1)..j \/ i = j + 1 BY <2>1
  <2> QED BY <1>2, <2>1, <2>2 DEF HasHeader
<1> QED BY <1>1, <1>2

\* A sequence with one more element, as a function.
LEMMA OneAppended ==
  ASSUME NEW S, NEW p \in Seq(S), NEW n \in Nat, Len(p) = n, NEW b \in S
  PROVE  Append(p, b) = [i \in 1..(n + 1) |-> IF i = n + 1 THEN b ELSE p[i]]
<1> DEFINE a == Append(p, b)
           m == n + 1
<1>1. a \in Seq(S) /\ Len(a) = m /\ a[m] = b /\ \A i \in 1..n : a[i] = p[i] OBVIOUS
<1>2. \A i \in 1..m : i \in 1..n \/ i = m OBVIOUS
<1> HIDE DEF a
<1>3. \A i \in 1..m : a[i] = IF i = m THEN b ELSE p[i] BY <1>1, <1>2
<1>4. a = [i \in 1..m |-> a[i]] BY <1>1
<1> QED BY <1>3, <1>4 DEF a

\* What one more part adds to the content from part h on.
LEMMA NextContent ==
  ASSUME NEW w, IsStream(w), NEW k \in 1..Len(w), NEW h \in 1..k
  PROVE  /\ ContentOf(w, h, k - 1) \in Seq(Nat)
         /\ ContentOf(w, h, k) = ContentOf(w, h, k - 1) \o BytesOf(w[k])
<1> DEFINE n == k - h
           m == n + 1
           b == BytesOf(w[k])
           P == [i \in 1..n |-> BytesOf(w[h + i - 1])]
           Q == [i \in 1..m |-> BytesOf(w[h + i - 1])]
<1>0. Len(w) \in Nat /\ \A i \in 1..Len(w) : BytesOf(w[i]) \in Seq(Nat)
  BY StreamFields, PartFields
<1>1. /\ k - 1 - h + 1 = n /\ k - h + 1 = m /\ m \in Nat /\ n \in Nat /\ k \in h..k
      /\ h + m - 1 = k /\ \A i \in 1..m : h + i - 1 \in h..k
      /\ \A i \in h..k : BytesOf(w[i]) \in Seq(Nat)
  <2>1. \A i \in h..k : i \in 1..Len(w) BY <1>0
  <2> QED BY <1>0, <2>1
<1>2. b \in Seq(Nat) BY <1>1
<1>3. ContentOf(w, h, k - 1) = FlattenSeq(P) /\ ContentOf(w, h, k) = FlattenSeq(Q)
  BY <1>1 DEF ContentOf
<1>4. P \in Seq(Seq(Nat)) /\ Len(P) = n /\ \A i \in 1..n : P[i] = BytesOf(w[h + i - 1])
  <2>1. \A i \in 1..n : BytesOf(w[h + i - 1]) \in Seq(Nat) BY <1>1
  <2> QED BY <2>1
<1>5. Q = [i \in 1..m |-> IF i = m THEN b ELSE P[i]]
  <2>1. ASSUME NEW i \in 1..m PROVE BytesOf(w[h + i - 1]) = IF i = m THEN b ELSE P[i]
    <3>1. CASE i = m BY <3>1, <1>1
    <3>2. CASE i # m
      <4>1. i \in 1..n BY <3>2
      <4> QED BY <3>2, <4>1, <1>4
    <3> QED BY <3>1, <3>2
  <2> QED BY <2>1
<1>6. Append(P, b) = [i \in 1..m |-> IF i = m THEN b ELSE P[i]]
  <2> HIDE DEF P, b, n
  <2> QED BY <1>1, <1>2, <1>4, OneAppended
<1> HIDE DEF P, Q, b
<1>8. FlattenSeq(P) = Joined(P) /\ FlattenSeq(Q) = Joined(Append(P, b))
  <2>1. Append(P, b) \in Seq(Seq(Nat)) BY <1>2, <1>4
  <2> QED BY <2>1, <1>4, <1>5, <1>6, FlattenIsJoined
<1>9. Joined(Append(P, b)) = Joined(P) \o b /\ Joined(P) \in Seq(Nat)
  BY <1>2, <1>4, JoinedOneMore, JoinedTyped
<1> QED BY <1>3, <1>8, <1>9 DEF b

\* No parts, no content.
LEMMA NoContent ==
  ASSUME NEW w, NEW k \in Nat
  PROVE  ContentOf(w, k, k - 1) = <<>>
<1> DEFINE m == k - 1 - k + 1
           P == [i \in 1..m |-> BytesOf(w[k + i - 1])]
<1>1. 1..m = {} OBVIOUS
<1>2. ContentOf(w, k, k - 1) = FlattenSeq(P) BY DEF ContentOf
<1> HIDE DEF m
<1>3. P = <<>> BY <1>1
<1>4. <<>> \in Seq(Seq(Nat)) OBVIOUS
<1>5. FlattenSeq(<<>>) = Joined(<<>>) BY <1>4, FlattenIsJoined
<1> HIDE DEF P
<1> QED BY <1>2, <1>3, <1>5, JoinedEmpty

----------------------------------------------------------------------------
(* The invariant.                                                          *)

\* No exception has ended the stream.
Regular == outcome \in {"none", "done"}

TypeOK ==
  /\ wire \in Wires
  /\ start \in Nat /\ received \in Nat /\ cursor \in Nat /\ encodedSize \in Nat
  /\ borrowed \in {<<>>} \cup (Nat \X Nat)
  /\ state \in {"frame_header", "block_header", "block_payload", "frame_checksum"}
  /\ block \in [type : {"raw", "run_length", "compressed"}, last : BOOLEAN]
  /\ information \in [contentSize : Nat \cup {UnknownSize}, window : Nat, checksum : BOOLEAN]
  /\ frameSize \in Nat /\ frameCount \in Nat
  /\ history \in Seq(Nat) /\ storage \in Seq(Nat) /\ delivered \in Seq(Nat)
  /\ capacity \in Nat \cup {NotDirect}
  /\ status \in {"ready", "active", "finished", "failed"}
  /\ call \in {"none", "update", "finish", "frame", "direct"}
  /\ outcome \in {"none", "done", "truncated", "invalid", "callback", "storage", "size"}

\* What a call has under way.
Phases ==
  /\ call # "none" => Regular /\ status \notin {"finished", "failed"}
  /\ status = "failed" => ~Regular
  /\ capacity # NotDirect <=> call = "direct"

\* The parser stands in what the client has handed over.  Between calls a fully
\* read pending_ is empty, so that cursor_ may serve a borrowed span from zero.
Inputs ==
  /\ Regular /\ call \in {"none", "update", "finish"} => borrowed = <<>>
  /\ call \in {"frame", "direct"} => borrowed # <<>> /\ start = received
  /\ Regular /\ status # "finished" => Position <= Source[2] /\ encodedSize = Source[2]
  /\ Regular /\ call = "none" /\ start + cursor = received => cursor = 0
  /\ status = "finished" => borrowed = <<>> /\ start + cursor = received

\* WindowRetained, and the size of the frame.
Windows ==
  /\ WindowRetained
  /\ Regular => frameSize <= Len(delivered)

\* All that was delivered is the first frame's.
Totals ==
  Regular =>
    /\ frameCount = 0 /\ state = "frame_header" => delivered = <<>>
    /\ \/ frameCount = 0 /\ state # "frame_header"
       \/ frameCount = 1 /\ state = "frame_header"
       => frameSize = Len(delivered)

\* Until the second frame of a direct call the storage is the history.
Storing ==
  Regular =>
    /\ call = "direct" =>
         /\ frameCount = 0 => storage = IF state = "frame_header" THEN <<>> ELSE history
         /\ frameCount = 1 /\ state = "frame_header" => storage \in {<<>>, delivered}
    /\ call # "direct" /\ status # "finished" => storage = <<>>
    /\ status = "finished" /\ frameCount = 1 => storage \in {<<>>, delivered}

\* What the parser holds of the frame that part j belongs to.
InFrame(j) ==
  LET h       == HeaderOf(wire, j)
      content == ContentOf(wire, h, j)
  IN  /\ HasHeader(wire, h, j)
      /\ information.contentSize = wire[h].contentSize
      /\ information.checksum = wire[h].checksum
      /\ frameSize = Len(content)
      /\ HashOf(hashed, IF information.checksum THEN content ELSE <<>>, Nat)
      /\ wire[j].kind = "block" => block.last = wire[j].last

\* The parts up to the j-th are read, and nothing was wrong with them.
ReadUpTo(j) ==
  /\ Position = PlaceBehind(wire, j)
  /\ state = StateBehind(wire, j)
  /\ \A i \in 1..j : Sound(wire, i)
  /\ frameCount = 0 /\ state = "frame_header" <=> \A i \in 1..j : wire[i].kind # "header"
  /\ state # "frame_header" => InFrame(j)

Tracking ==
  /\ Regular /\ status # "finished" => \E j \in 0..Len(wire) : ReadUpTo(j)
  /\ \E content \in Seq(Nat) : HashOf(hashed, content, Nat)

IInv == TypeOK /\ Phases /\ Inputs /\ Windows /\ Totals /\ Storing /\ Tracking

\* The stream, and the stretch of it that the decoder holds.
LEMMA StreamHeld ==
  ASSUME TypeOK
  PROVE  /\ IsStream(wire) /\ Len(wire) \in Nat /\ DOMAIN wire = 1..Len(wire)
         /\ EncodedLength(wire) \in Nat
         /\ Source[1] \in Nat /\ Source[2] \in Nat
         /\ Position = Source[1] + cursor /\ Available = Source[2] - Position
         /\ borrowed = <<>> => Source[1] = start /\ Source[2] = received
         /\ HistoryLimit \in Nat \ {0}
<1>1. IsStream(wire) BY ConstantsAssumption DEF TypeOK
<1>2. Len(wire) \in Nat /\ DOMAIN wire = 1..Len(wire) BY <1>1, StreamFields
<1>3. EncodedLength(wire) \in Nat
  <2>1. CASE wire = <<>> BY <2>1 DEF EncodedLength
  <2>2. CASE wire # <<>>
    <3>1. wire \in Seq(StreamParts) BY <1>1 DEF IsStream
    <3>2. Len(wire) \in 1..Len(wire) BY <2>2, <3>1
    <3>3. wire[Len(wire)].at \in Nat /\ wire[Len(wire)].length \in Nat
      BY <1>1, <3>2, StreamFields, PartFields
    <3> QED BY <2>2, <3>3 DEF EncodedLength, EndOf, Last
  <2> QED BY <2>1, <2>2
<1>4. borrowed = <<>> => Source = <<start, received>> BY DEF Source
<1>5. borrowed # <<>> => Source = borrowed /\ borrowed \in Nat \X Nat BY DEF Source, TypeOK
<1>6. Source[1] \in Nat /\ Source[2] \in Nat BY <1>4, <1>5 DEF TypeOK
<1>7. Position = Source[1] + cursor /\ Available = Source[2] - Position
  BY DEF Position, Available
<1>8. HistoryLimit \in Nat \ {0}
  BY ConstantsAssumption DEF HistoryLimit, TypeOK
<1> QED BY <1>1, <1>2, <1>3, <1>4, <1>6, <1>7, <1>8

\* The last n elements.
LEMMA LastElements ==
  ASSUME NEW s \in Seq(Nat), NEW n \in 0..Len(s)
  PROVE  /\ LastOf(n, s) \in Seq(Nat) /\ Len(LastOf(n, s)) = n
         /\ \A i \in 1..n : LastOf(n, s)[i] = s[Len(s) - n + i]
         /\ n = Len(s) => LastOf(n, s) = s
         /\ n = 0 => LastOf(n, s) = <<>>
<1> DEFINE a == Len(s) - n
           b == Len(s)
           t == SubSeq(s, a + 1, b)
<1>1. a \in Nat /\ b \in Nat /\ a <= b /\ b <= Len(s) /\ b - a = n /\ n \in Nat OBVIOUS
<1>2. LastOf(n, s) = t BY DEF LastOf
<1>3. t \in Seq(Nat) /\ Len(t) = b - a /\ \A i \in 1..(b - a) : t[i] = s[a + i]
  <2> HIDE DEF a, b
  <2> QED BY <1>1, Pieces
<1>4. n = Len(s) => t = s
  <2> SUFFICES ASSUME n = Len(s) PROVE t = s OBVIOUS
  <2>1. a + 1 = 1 OBVIOUS
  <2> QED BY <2>1
<1>5. n = 0 => t = <<>>
  <2> HIDE DEF t
  <2> QED BY <1>1, <1>3
<1> HIDE DEF t
<1> QED BY <1>1, <1>2, <1>3, <1>4, <1>5

\* How much of the frame the history keeps.
Retained ==
  IF capacity # NotDirect \/ frameSize < HistoryLimit THEN frameSize ELSE HistoryLimit

\* WindowRetained, with its number named.
LEMMA WindowIsRetained ==
  /\ WindowRetained <=>
       (Regular => \/ history = LastOf(Retained, delivered)
                   \/ history = <<>> /\ status = "finished"
                   \/ history = <<>> /\ call = "direct" /\ state = "frame_header")
  /\ WindowRetained' <=>
       (Regular' => \/ history' = LastOf(Retained', delivered')
                    \/ history' = <<>> /\ status' = "finished"
                    \/ history' = <<>> /\ call' = "direct" /\ state' = "frame_header")
BY DEF WindowRetained, Retained, Regular, LastOf

LEMMA InitHolds ==
  ASSUME Init
  PROVE  IInv
<1>1. /\ wire \in Wires
      /\ start = 0 /\ received = 0 /\ borrowed = <<>> /\ cursor = 0
      /\ state = "frame_header" /\ block = NoBlock /\ information = NoInformation
      /\ hashed = Fresh /\ frameSize = 0 /\ history = <<>>
      /\ capacity = NotDirect /\ storage = <<>>
      /\ status = "ready" /\ frameCount = 0 /\ encodedSize = 0 /\ delivered = <<>>
      /\ call = "none" /\ outcome = "none"
  BY DEF Init
<1>2. TypeOK
  <2>1. <<>> \in Seq(Nat) OBVIOUS
  <2>2. NoBlock \in [type : {"raw", "run_length", "compressed"}, last : BOOLEAN]
        /\ NoInformation \in [contentSize : Nat \cup {UnknownSize}, window : Nat, checksum : BOOLEAN]
    BY DEF NoBlock, NoInformation
  <2> QED BY <1>1, <2>1, <2>2 DEF TypeOK
<1>3. Phases BY <1>1 DEF Phases, Regular
<1>4. Source[2] = 0 /\ Position = 0 BY <1>1 DEF Source, Position
<1>5. Inputs BY <1>1, <1>4 DEF Inputs
<1>6. Len(<<>>) = 0 /\ <<>> \in Seq(Nat) OBVIOUS
<1>7. Windows
  <2>1. Retained = 0 BY <1>1, <1>2, StreamHeld DEF Retained
  <2>2. LastOf(0, <<>>) = <<>> BY <1>6 DEF LastOf
  <2> QED BY <1>1, <1>6, <2>1, <2>2, WindowIsRetained DEF Windows
<1>8. Totals BY <1>1, <1>6 DEF Totals
<1>9. Storing BY <1>1 DEF Storing
<1>10. Tracking
  <2>1. ReadUpTo(0) BY <1>1, <1>4 DEF ReadUpTo, PlaceBehind, StateBehind
  <2>2. HashOf(hashed, <<>>, Nat) BY <1>1, FreshHolds DEF NoByte
  <2>3. 0 \in 0..Len(wire) BY <1>2, StreamHeld
  <2> QED BY <2>1, <2>2, <2>3, <1>6 DEF Tracking
<1> QED BY <1>2, <1>3, <1>5, <1>7, <1>8, <1>9, <1>10 DEF IInv

\* Between calls the history is the window, and nothing is borrowed.
LEMMA WhenWritable ==
  ASSUME IInv, Writable
  PROVE  /\ call = "none" /\ Regular /\ status \in {"ready", "active"}
         /\ borrowed = <<>> /\ capacity = NotDirect
         /\ Position = start + cursor /\ Available = received - (start + cursor)
         /\ start + cursor <= received /\ encodedSize = received
         /\ start + cursor = received => cursor = 0
         /\ history = LastOf(Retained, delivered)
         /\ storage = <<>>
<1>1. call = "none" /\ Regular /\ status \in {"ready", "active"}
  BY DEF Writable, Regular, IInv, TypeOK
<1>2. borrowed = <<>> /\ capacity = NotDirect BY <1>1 DEF IInv, Inputs, Phases
<1>3. Position = start + cursor /\ Available = received - Position /\ Source[2] = received
  BY <1>2, StreamHeld DEF IInv
<1>4. Position <= received /\ encodedSize = received BY <1>1, <1>3 DEF IInv, Inputs
<1>5. start + cursor = received => cursor = 0 BY <1>1 DEF IInv, Inputs
<1>6. history = LastOf(Retained, delivered)
  BY <1>1, WindowIsRetained DEF IInv, Windows
<1>7. storage = <<>> BY <1>1 DEF IInv, Storing
<1> QED BY <1>1, <1>2, <1>3, <1>4, <1>5, <1>6, <1>7

\* Nothing that the parser holds has changed.
LEMMA TrackingKept ==
  ASSUME IInv, Position' = Position,
         UNCHANGED <<wire, state, block, information, hashed, frameSize, frameCount>>,
         Regular' /\ status' # "finished" => Regular /\ status # "finished"
  PROVE  Tracking'
<1>1. \A j : ReadUpTo(j) => ReadUpTo(j)'
  BY DEF ReadUpTo, InFrame
<1>2. Tracking BY DEF IInv
<1>3. Regular' /\ status' # "finished" => \E j \in 0..Len(wire') : ReadUpTo(j)'
  BY <1>1, <1>2 DEF Tracking
<1>4. \E content \in Seq(Nat) : HashOf(hashed', content, Nat) BY <1>2 DEF Tracking
<1> QED BY <1>3, <1>4 DEF Tracking

\* update(): more of the stream is handed over.
LEMMA UpdateKeeps ==
  ASSUME IInv, NEW to \in 1..EncodedLength(wire), Update(to)
  PROVE  IInv'
<1>1. /\ Writable /\ call' = "update" /\ status' = "active" /\ received < to /\ received' = to
      /\ encodedSize' = encodedSize + (to - received)
      /\ wire' = wire /\ start' = start /\ borrowed' = borrowed /\ cursor' = cursor
      /\ state' = state /\ block' = block /\ information' = information /\ hashed' = hashed
      /\ frameSize' = frameSize /\ history' = history /\ storage' = storage
      /\ capacity' = capacity /\ frameCount' = frameCount /\ delivered' = delivered
      /\ outcome' = outcome
  BY DEF Update, Begin, frameVars
<1>2. /\ call = "none" /\ Regular /\ status \in {"ready", "active"}
      /\ borrowed = <<>> /\ capacity = NotDirect
      /\ Position = start + cursor /\ start + cursor <= received /\ encodedSize = received
      /\ history = LastOf(Retained, delivered) /\ storage = <<>>
  BY <1>1, WhenWritable
<1>3. TypeOK /\ received \in Nat /\ start \in Nat /\ cursor \in Nat BY DEF IInv, TypeOK
<1>4. to \in Nat /\ EncodedLength(wire) \in Nat BY <1>3, StreamHeld
<1>5. TypeOK' BY <1>1, <1>2, <1>3, <1>4 DEF TypeOK
<1>6. Regular' BY <1>1, <1>2 DEF Regular
<1>7. Phases' BY <1>1, <1>2, <1>6 DEF Phases
<1>8. Position' = start + cursor /\ Source'[2] = to
  BY <1>1, <1>2, <1>5, StreamHeld, <1>3 DEF Source, Position
<1>9. Inputs' BY <1>1, <1>2, <1>3, <1>4, <1>6, <1>8 DEF Inputs
<1>10. Windows'
  <2>1. Retained' = Retained BY <1>1 DEF Retained, HistoryLimit
  <2>2. WindowRetained' BY <1>1, <1>2, <2>1, WindowIsRetained
  <2> QED BY <1>1, <1>2, <2>2 DEF IInv, Windows
<1>11. Totals' BY <1>1, <1>2 DEF IInv, Totals
<1>12. Storing' BY <1>1, <1>2 DEF Storing
<1>13. Tracking' BY <1>1, <1>2, <1>8, TrackingKept
<1> QED BY <1>5, <1>7, <1>9, <1>10, <1>11, <1>12, <1>13 DEF IInv

\* finish() parses what is there before it looks.
LEMMA FinishKeeps ==
  ASSUME IInv, Finish
  PROVE  IInv'
<1>1. /\ Writable /\ call' = "finish"
      /\ wire' = wire /\ start' = start /\ received' = received /\ borrowed' = borrowed
      /\ cursor' = cursor
      /\ state' = state /\ block' = block /\ information' = information /\ hashed' = hashed
      /\ frameSize' = frameSize /\ history' = history /\ storage' = storage
      /\ capacity' = capacity /\ frameCount' = frameCount /\ delivered' = delivered
      /\ encodedSize' = encodedSize /\ status' = status /\ outcome' = outcome
  BY DEF Finish, inputVars, frameVars, totals
<1>2. /\ call = "none" /\ Regular /\ status \in {"ready", "active"}
      /\ borrowed = <<>> /\ capacity = NotDirect
      /\ history = LastOf(Retained, delivered) /\ storage = <<>>
  BY <1>1, WhenWritable
<1>3. TypeOK' BY <1>1 DEF IInv, TypeOK
<1>4. Regular' /\ Position' = Position /\ Source' = Source
  BY <1>1, <1>2 DEF Regular, Position, Source
<1>5. Phases' BY <1>1, <1>2, <1>4 DEF Phases
<1>6. Inputs' BY <1>1, <1>2, <1>4 DEF IInv, Inputs
<1>7. Windows'
  <2>1. Retained' = Retained BY <1>1 DEF Retained, HistoryLimit
  <2>2. WindowRetained' BY <1>1, <1>2, <2>1, WindowIsRetained
  <2> QED BY <1>1, <1>2, <2>2 DEF IInv, Windows
<1>8. Totals' BY <1>1, <1>2 DEF IInv, Totals
<1>9. Storing' BY <1>1, <1>2 DEF Storing
<1>10. Tracking' BY <1>1, <1>2, <1>4, TrackingKept
<1> QED BY <1>3, <1>5, <1>6, <1>7, <1>8, <1>9, <1>10 DEF IInv

\* A borrowed span takes over where pending_ has ended.
LEMMA Borrows ==
  ASSUME IInv, Writable, NEW to \in 1..EncodedLength(wire), Borrow(to),
         start' = start, received' = received
  PROVE  /\ start = received /\ Position \in Nat /\ to \in Nat /\ Position < to
         /\ borrowed' = <<Position, to>> /\ borrowed' # <<>> /\ cursor' = 0
         /\ Source' = borrowed' /\ Position' = Position /\ encodedSize' = to
         /\ state = "frame_header"
<1>1. /\ state = "frame_header" /\ Position < to /\ Available = 0
      /\ borrowed' = <<Position, to>> /\ encodedSize' = encodedSize + (to - Position)
      /\ cursor' = 0
  BY DEF Borrow
<1>2. /\ Position = start + cursor /\ Available = received - (start + cursor)
      /\ encodedSize = received /\ (start + cursor = received => cursor = 0)
  BY WhenWritable
<1>3. start \in Nat /\ received \in Nat /\ cursor \in Nat /\ to \in Nat
  BY StreamHeld DEF IInv, TypeOK
<1>4. start + cursor = received /\ start = received /\ Position = received
  BY <1>1, <1>2, <1>3
<1>5. borrowed' # <<>> BY <1>1
<1>6. Source' = borrowed' BY <1>5 DEF Source
<1>7. Source'[1] = Position BY <1>6, <1>1
<1>8. Position' = Position + 0 BY <1>1, <1>7 DEF Position
<1>9. encodedSize' = to BY <1>1, <1>2, <1>3, <1>4
<1> QED BY <1>1, <1>3, <1>4, <1>5, <1>6, <1>8, <1>9

\* decompress_frame() with the caller's callback.
LEMMA DecompressFrameKeeps ==
  ASSUME IInv, NEW to \in 1..EncodedLength(wire), DecompressFrame(to)
  PROVE  IInv'
<1>1. /\ Writable /\ call' = "frame" /\ status' = "active" /\ Borrow(to)
      /\ wire' = wire /\ start' = start /\ received' = received
      /\ state' = state /\ block' = block /\ information' = information /\ hashed' = hashed
      /\ frameSize' = frameSize /\ history' = history /\ storage' = storage
      /\ capacity' = capacity /\ frameCount' = frameCount /\ delivered' = delivered
      /\ outcome' = outcome
  BY DEF DecompressFrame, Begin, frameVars
<1>2. /\ call = "none" /\ Regular /\ status \in {"ready", "active"}
      /\ capacity = NotDirect
      /\ history = LastOf(Retained, delivered) /\ storage = <<>>
  BY <1>1, WhenWritable
<1>3. /\ start = received /\ Position \in Nat /\ to \in Nat /\ Position < to
      /\ borrowed' = <<Position, to>> /\ borrowed' # <<>> /\ cursor' = 0
      /\ Source' = borrowed' /\ Position' = Position /\ encodedSize' = to
  BY <1>1, Borrows
<1>4. TypeOK' BY <1>1, <1>3 DEF IInv, TypeOK
<1>5. Regular' BY <1>1, <1>2 DEF Regular
<1>6. Phases' BY <1>1, <1>2, <1>5 DEF Phases
<1>7. Source'[2] = to BY <1>3
<1>8. Inputs' BY <1>1, <1>2, <1>3, <1>5, <1>7 DEF Inputs
<1>9. Windows'
  <2>1. Retained' = Retained BY <1>1 DEF Retained, HistoryLimit
  <2>2. WindowRetained' BY <1>1, <1>2, <2>1, WindowIsRetained
  <2> QED BY <1>1, <1>2, <2>2 DEF IInv, Windows
<1>10. Totals' BY <1>1, <1>2 DEF IInv, Totals
<1>11. Storing' BY <1>1, <1>2 DEF Storing
<1>12. Tracking' BY <1>1, <1>2, <1>3, TrackingKept
<1> QED BY <1>4, <1>6, <1>8, <1>9, <1>10, <1>11, <1>12 DEF IInv

\* decompress_frame() into the caller's storage.
LEMMA DecompressIntoKeeps ==
  ASSUME IInv, NEW to \in 1..EncodedLength(wire), NEW size \in Capacities,
         DecompressInto(to, size)
  PROVE  IInv'
<1>1. /\ Writable /\ call' = "direct" /\ status' = "active" /\ Borrow(to)
      /\ wire' = wire /\ start' = start /\ received' = received
      /\ state' = state /\ block' = block /\ information' = information /\ hashed' = hashed
      /\ frameSize' = frameSize /\ history' = <<>> /\ storage' = <<>>
      /\ capacity' = size /\ frameCount' = frameCount /\ delivered' = delivered
      /\ outcome' = outcome
  BY DEF DecompressInto, Begin
<1>2. call = "none" /\ Regular /\ status \in {"ready", "active"}
  BY <1>1, WhenWritable
<1>3. /\ start = received /\ Position \in Nat /\ to \in Nat /\ Position < to
      /\ borrowed' = <<Position, to>> /\ borrowed' # <<>> /\ cursor' = 0
      /\ Source' = borrowed' /\ Position' = Position /\ encodedSize' = to
      /\ state = "frame_header"
  BY <1>1, Borrows
<1>4. size \in Nat /\ size # NotDirect /\ <<>> \in Seq(Nat)
  BY ConstantsAssumption DEF NotDirect
<1>5. TypeOK' BY <1>1, <1>3, <1>4 DEF IInv, TypeOK
<1>6. Regular' BY <1>1, <1>2 DEF Regular
<1>7. Phases' BY <1>1, <1>4, <1>6 DEF Phases
<1>8. Source'[2] = to BY <1>3
<1>9. Inputs' BY <1>1, <1>2, <1>3, <1>6, <1>8 DEF Inputs
<1>10. Windows'
  <2>1. WindowRetained' BY <1>1, <1>3, WindowIsRetained
  <2> QED BY <1>1, <1>2, <2>1 DEF IInv, Windows
<1>11. Totals' BY <1>1, <1>2 DEF IInv, Totals
<1>12. Storing' BY <1>1, <1>3 DEF Storing
<1>13. Tracking' BY <1>1, <1>2, <1>3, TrackingKept
<1> QED BY <1>5, <1>7, <1>9, <1>10, <1>11, <1>12, <1>13 DEF IInv

\* reset() and another stream.
LEMMA ResetKeeps ==
  ASSUME IInv, Reset
  PROVE  IInv'
<1>1. /\ call = "none" /\ wire' \in Wires
      /\ start' = 0 /\ received' = 0 /\ borrowed' = <<>> /\ cursor' = 0
      /\ state' = "frame_header" /\ block' = [block EXCEPT !.last = FALSE]
      /\ information' = NoInformation
      /\ hashed' = Cleared(hashed) /\ frameSize' = 0 /\ history' = <<>>
      /\ capacity' = NotDirect /\ storage' = <<>>
      /\ status' = "ready" /\ frameCount' = 0 /\ encodedSize' = 0 /\ delivered' = <<>>
      /\ outcome' = "none" /\ call' = call
  BY DEF Reset
<1>2. <<>> \in Seq(Nat) /\ Len(<<>>) = 0 OBVIOUS
<1>3. TypeOK'
  <2>1. NoInformation \in [contentSize : Nat \cup {UnknownSize}, window : Nat, checksum : BOOLEAN]
    BY DEF NoInformation
  <2>2. block' \in [type : {"raw", "run_length", "compressed"}, last : BOOLEAN]
    BY <1>1 DEF IInv, TypeOK
  <2> QED BY <1>1, <1>2, <2>1, <2>2 DEF TypeOK
<1>4. Phases' BY <1>1 DEF Phases, Regular
<1>5. Source'[2] = 0 /\ Position' = 0 BY <1>1 DEF Source, Position
<1>6. Inputs' BY <1>1, <1>5 DEF Inputs
<1>7. Windows'
  <2>1. HistoryLimit' \in Nat \ {0}
    BY <1>1, ConstantsAssumption DEF HistoryLimit, NoInformation
  <2>2. Retained' = 0 BY <1>1, <2>1 DEF Retained
  <2>3. LastOf(0, <<>>) = <<>> BY <1>2 DEF LastOf
  <2> QED BY <1>1, <1>2, <2>2, <2>3, WindowIsRetained DEF Windows
<1>8. Totals' BY <1>1, <1>2 DEF Totals
<1>9. Storing' BY <1>1 DEF Storing
<1>10. Tracking'
  <2>1. ReadUpTo(0)' BY <1>1, <1>5 DEF ReadUpTo, PlaceBehind, StateBehind
  <2>2. \E content \in Seq(Nat) : HashOf(hashed', content, Nat)
    <3>1. PICK content \in Seq(Nat) : HashOf(hashed, content, Nat) BY DEF IInv, Tracking
    <3>2. HashOf(hashed', <<>>, Nat) BY <1>1, <3>1, ClearedHolds
    <3> QED BY <1>2, <3>2
  <2>3. IsStream(wire') BY <1>1, ConstantsAssumption
  <2>4. 0 \in 0..Len(wire') BY <2>3, StreamFields
  <2> QED BY <2>1, <2>2, <2>4 DEF Tracking
<1> QED BY <1>3, <1>4, <1>6, <1>7, <1>8, <1>9, <1>10 DEF IInv

----------------------------------------------------------------------------
(* The parser's steps.                                                     *)

\* A part that is none of these is sound, and ends no frame.
LEMMA PlainParts ==
  ASSUME NEW w, NEW k, w[k].kind \in {"skippable", "header", "block"}
  PROVE  Sound(w, k) /\ ~EndsFrame(w, k)
BY DEF Sound, EndsFrame

\* What the parser looks at is the part behind the last one it read.
LEMMA PartRead ==
  ASSUME IInv, NEW k \in DOMAIN wire, Reads(k)
  PROVE  /\ call # "none" /\ Regular /\ status \in {"ready", "active"}
         /\ k \in 1..Len(wire) /\ wire[k] \in StreamParts
         /\ Position = wire[k].at /\ Source[1] \in Nat
         /\ EndOf(wire[k]) \in Nat /\ EndOf(wire[k]) <= Source[2]
         /\ Consumed(k) \in Nat /\ Source[1] + Consumed(k) = EndOf(wire[k])
         /\ wire[k].kind \in KindRead[state] \cup {"invalid"}
         /\ k - 1 \in 0..Len(wire) /\ ReadUpTo(k - 1)
<1>1. /\ call # "none" /\ wire[k].at = Position /\ wire[k].length <= Available
      /\ wire[k].kind \in KindRead[state] \cup {"invalid"}
      /\ wire[k].kind \in KindRead[state]
         \/ \A i \in 1..(k - 1) : wire[i].at = Position => wire[i].kind \notin KindRead[state]
  BY DEF Reads
<1>2. Regular /\ status \in {"ready", "active"} BY <1>1 DEF IInv, Phases, TypeOK
<1>3. /\ IsStream(wire) /\ Len(wire) \in Nat /\ DOMAIN wire = 1..Len(wire)
      /\ Source[1] \in Nat /\ Source[2] \in Nat
      /\ Position = Source[1] + cursor /\ Available = Source[2] - Position
      /\ cursor \in Nat /\ state \in DOMAIN KindRead
  BY StreamHeld DEF IInv, TypeOK, KindRead
<1>4. k \in 1..Len(wire) /\ wire[k] \in StreamParts BY <1>3, StreamFields
<1>5. wire[k].at \in Nat /\ wire[k].length \in Nat BY <1>4, PartFields
<1>6. /\ EndOf(wire[k]) \in Nat /\ EndOf(wire[k]) <= Source[2]
      /\ Consumed(k) \in Nat /\ Source[1] + Consumed(k) = EndOf(wire[k])
  <2>1. EndOf(wire[k]) = wire[k].at + wire[k].length BY DEF EndOf
  <2>2. Consumed(k) = cursor + wire[k].length BY DEF Consumed
  <2>3. wire[k].at = Source[1] + cursor BY <1>1, <1>3
  <2>4. wire[k].length <= Source[2] - wire[k].at BY <1>1, <1>3
  <2> DEFINE a == wire[k].at
             l == wire[k].length
             s1 == Source[1]
             s2 == Source[2]
  <2>5. a \in Nat /\ l \in Nat /\ s1 \in Nat /\ s2 \in Nat /\ cursor \in Nat BY <1>3, <1>5
  <2>6. a = s1 + cursor /\ l <= s2 - a BY <2>3, <2>4
  <2>7. EndOf(wire[k]) = a + l /\ Consumed(k) = cursor + l BY <2>1, <2>2
  <2> HIDE DEF a, l, s1, s2
  <2>8. a + l \in Nat /\ a + l <= s2 /\ cursor + l \in Nat /\ s1 + (cursor + l) = a + l
    BY <2>5, <2>6
  <2> QED BY <2>7, <2>8 DEF s1, s2
<1>7. PICK j \in 0..Len(wire) : ReadUpTo(j) BY <1>2 DEF IInv, Tracking
<1>8. j # 0 => wire[j].kind \in {"skippable", "header", "block", "payload", "checksum"}
  <2> SUFFICES ASSUME j # 0
               PROVE  wire[j].kind \in {"skippable", "header", "block", "payload", "checksum"}
    OBVIOUS
  <2>1. j \in 1..Len(wire) BY <1>3
  <2>2. wire[j].kind # "invalid" BY <2>1, <1>7 DEF ReadUpTo, Sound
  <2> QED BY <2>1, <2>2, <1>3, StreamFields, PartFields
<1>9. state = StateBehind(wire, j) /\ Position = PlaceBehind(wire, j) BY <1>7 DEF ReadUpTo
<1>10. KindsBehind(wire, j) = KindRead[state] \cup {"invalid"}
  BY <1>3, <1>8, <1>9, KindsAreRead
<1>11. "payload" \in KindRead[state] <=> state = "block_payload" BY <1>3, SMTT(30) DEF KindRead
<1>12. k = j + 1
  <2>1. ~(k = j /\ wire[j].kind = "payload")
    <3> SUFFICES ASSUME k = j, wire[j].kind = "payload" PROVE FALSE OBVIOUS
    <3>1. state = "block_payload" BY <1>1, <1>11
    <3>2. wire[j].kind # "skippable" /\ wire[j].kind # "header" /\ wire[j].kind # "block" OBVIOUS
    <3> QED BY <3>1, <3>2, <1>9 DEF StateBehind
  <2>2. ~(/\ k = j + 2 /\ wire[j + 1].kind = "payload" /\ wire[j + 1].length = 0
          /\ wire[j + 1].at = PlaceBehind(wire, j))
    <3> SUFFICES ASSUME k = j + 2, wire[j + 1].kind = "payload",
                        wire[j + 1].at = PlaceBehind(wire, j)
                 PROVE FALSE
      OBVIOUS
    <3>1. j + 1 \in 1..Len(wire) /\ (j + 1) - 1 = j /\ j + 1 \in 1..(k - 1) /\ k = (j + 1) + 1
      BY <1>3, <1>4
    <3>2. "payload" \in KindRead[state] BY <3>1, <1>3, <1>10, StreamFields
    <3>3. wire[k].kind \in KindRead[state] BY <1>1, <1>9, <3>1, <3>2
    <3>4. wire[k].kind = "payload" BY <3>2, <3>3, <1>11 DEF KindRead
    <3> QED BY <3>1, <3>4, <1>3, <1>4, PayloadNeighbours
  <2>3. wire[k].at = PlaceBehind(wire, j) BY <1>1, <1>9
  <2> QED BY <2>1, <2>2, <2>3, <1>3, <1>4, SamePlace
<1>13. k - 1 = j BY <1>12
<1> QED BY <1>1, <1>2, <1>3, <1>4, <1>6, <1>7, <1>13

\* A part of a frame that goes on: its header, and the content so far.
LEMMA FrameGoesOn ==
  ASSUME IInv, NEW k \in 1..Len(wire), ReadUpTo(k - 1), state # "frame_header",
         wire[k].kind # "header"
  PROVE  LET h       == HeaderOf(wire, k - 1)
             content == ContentOf(wire, h, k - 1)
             bytes   == BytesOf(wire[k])
         IN  /\ HeaderOf(wire, k) = h /\ HasHeader(wire, h, k)
             /\ content \in Seq(Nat) /\ bytes \in Seq(Nat)
             /\ ContentOf(wire, h, k) = content \o bytes
<1> DEFINE h == HeaderOf(wire, k - 1)
<1>1. IsStream(wire) /\ Len(wire) \in Nat BY StreamHeld DEF IInv
<1>2. k - 1 \in Nat /\ (k - 1) + 1 = k BY <1>1
<1>3. HasHeader(wire, h, k - 1) BY DEF ReadUpTo, InFrame
<1>4. HasHeader(wire, h, k) BY <1>2, <1>3, NextHeader
<1>5. HeaderOf(wire, k) = h BY <1>2, <1>4, HeaderUnique
<1>6. h \in 1..(k - 1) BY <1>3 DEF HasHeader
<1>7. h \in 1..k BY <1>2, <1>6
<1> HIDE DEF h
<1>8. BytesOf(wire[k]) \in Seq(Nat) BY <1>1, StreamFields, PartFields
<1>9. /\ ContentOf(wire, h, k - 1) \in Seq(Nat)
      /\ ContentOf(wire, h, k) = ContentOf(wire, h, k - 1) \o BytesOf(wire[k])
  BY <1>1, <1>7, NextContent
<1> QED BY <1>4, <1>5, <1>8, <1>9 DEF h

\* The first part of a frame has no content.
LEMMA FrameBegins ==
  ASSUME IInv, NEW k \in 1..Len(wire), wire[k].kind = "header"
  PROVE  /\ HeaderOf(wire, k) = k /\ HasHeader(wire, k, k)
         /\ ContentOf(wire, k, k) = <<>>
<1>1. IsStream(wire) /\ Len(wire) \in Nat BY StreamHeld DEF IInv
<1>2. HasHeader(wire, k, k) /\ HeaderOf(wire, k) = k
  <2>1. (k - 1) \in Nat /\ (k - 1) + 1 = k BY <1>1
  <2>2. HasHeader(wire, k, k) BY <2>1, NextHeader
  <2> QED BY <2>2, <1>1, HeaderUnique
<1>3. BytesOf(wire[k]) = <<>> /\ <<>> \in Seq(Nat) BY DEF BytesOf
<1>4. k \in 1..k /\ k \in Nat OBVIOUS
<1>5. ContentOf(wire, k, k) = ContentOf(wire, k, k - 1) \o BytesOf(wire[k])
  BY <1>1, <1>4, NextContent
<1>6. ContentOf(wire, k, k - 1) = <<>> BY <1>4, NoContent
<1>7. <<>> \o <<>> = <<>> OBVIOUS
<1> QED BY <1>2, <1>3, <1>5, <1>6, <1>7

\* A part was consumed.
LEMMA Advances ==
  ASSUME IInv, NEW k \in DOMAIN wire, Reads(k), cursor' = Consumed(k),
         UNCHANGED <<wire, start, received, borrowed>>
  PROVE  /\ Source' = Source /\ Position' = EndOf(wire[k]) /\ Position' <= Source'[2]
         /\ Position' = PlaceBehind(wire, k)' /\ cursor' \in Nat
<1>1. /\ k \in 1..Len(wire) /\ EndOf(wire[k]) <= Source[2] /\ Source[1] \in Nat
      /\ Consumed(k) \in Nat /\ Source[1] + Consumed(k) = EndOf(wire[k])
  BY PartRead
<1>2. Source' = Source BY DEF Source
<1>3. Position' = EndOf(wire[k]) BY <1>1, <1>2 DEF Position
<1>4. k # 0 BY StreamHeld, <1>1 DEF IInv
<1> QED BY <1>1, <1>2, <1>3, <1>4 DEF PlaceBehind, EndOf

\* Where the parser stands after it has consumed a part.
LEMMA InputsAdvance ==
  ASSUME IInv, NEW k \in DOMAIN wire, Reads(k), cursor' = Consumed(k),
         UNCHANGED <<wire, start, received, borrowed, status, call, outcome, encodedSize>>
  PROVE  Inputs'
<1>1. Source' = Source /\ Position' <= Source'[2] BY Advances
<1>2. call # "none" /\ Regular /\ status \in {"ready", "active"} BY PartRead
<1> QED BY <1>1, <1>2 DEF IInv, Inputs, Regular

\* An exception: whatever else the step has done, nothing of the stream is used
\* before reset().
LEMMA Unwound ==
  ASSUME IInv, call # "none",
         NEW result \in {"truncated", "invalid", "callback", "storage", "size"},
         NEW consumed \in Nat, NEW bytes \in Seq(Nat), Unwind(result, consumed, bytes),
         UNCHANGED <<wire, start, received>>,
         status' \in {"ready", "active", "failed"},
         state' \in {"frame_header", "block_header", "block_payload", "frame_checksum"},
         UNCHANGED <<block, information>>,
         frameSize' \in Nat, frameCount' \in Nat, storage' \in Seq(Nat),
         delivered' \in Seq(Nat), encodedSize' \in Nat,
         \E content \in Seq(Nat) : HashOf(hashed', content, Nat)
  PROVE  IInv'
<1>1. call' = "none" /\ outcome' = result /\ ~Regular' BY DEF Unwind, Regular
<1>2. capacity' = NotDirect /\ cursor' \in Nat /\ history' \in Seq(Nat)
      /\ borrowed' \in {<<>>, borrowed}
  <2>1. <<>> \in Seq(Nat) OBVIOUS
  <2>2. CASE capacity # NotDirect BY <2>1, <2>2 DEF Unwind
  <2>3. CASE capacity = NotDirect BY <2>3 DEF Unwind
  <2> QED BY <2>2, <2>3
<1>3. TypeOK' BY <1>1, <1>2, ZenonT(30) DEF IInv, TypeOK
<1>4. Phases' BY <1>1, <1>2 DEF Phases
<1>5. Inputs' BY <1>1 DEF Inputs
<1>6. Windows' BY <1>1, WindowIsRetained DEF Windows
<1>7. Totals' /\ Storing' BY <1>1 DEF Totals, Storing
<1>8. Tracking' BY <1>1 DEF Tracking
<1> QED BY <1>3, <1>4, <1>5, <1>6, <1>7, <1>8 DEF IInv

\* What the parser holds of the frame after one more part of it.
LEMMA FrameContinues ==
  ASSUME IInv, NEW k \in 1..Len(wire), ReadUpTo(k - 1), state # "frame_header",
         wire[k].kind # "header", UNCHANGED <<wire, information>>,
         frameSize' = frameSize + Len(BytesOf(wire[k])),
         \A content \in Seq(Nat) :
           HashOf(hashed, content, Nat) =>
             HashOf(hashed', IF information.checksum THEN content \o BytesOf(wire[k]) ELSE content, Nat),
         wire[k].kind = "block" => block'.last = wire[k].last
  PROVE  InFrame(k)'
<1> DEFINE h == HeaderOf(wire, k - 1)
           content == ContentOf(wire, h, k - 1)
           bytes == BytesOf(wire[k])
<1>1. /\ HeaderOf(wire, k) = h /\ HasHeader(wire, h, k)
      /\ content \in Seq(Nat) /\ bytes \in Seq(Nat)
      /\ ContentOf(wire, h, k) = content \o bytes
  BY FrameGoesOn
<1>2. InFrame(k - 1) BY DEF ReadUpTo
<1>3. /\ information.contentSize = wire[h].contentSize
      /\ information.checksum = wire[h].checksum
      /\ frameSize = Len(content)
      /\ HashOf(hashed, IF information.checksum THEN content ELSE <<>>, Nat)
  BY <1>2 DEF InFrame
<1> HIDE DEF h, content, bytes
<1>4. frameSize' = Len(content \o bytes) BY <1>1, <1>3 DEF bytes
<1>5. HashOf(hashed', IF information.checksum THEN content \o bytes ELSE <<>>, Nat)
  <2>1. <<>> \in Seq(Nat) OBVIOUS
  <2>2. CASE information.checksum
    <3>1. HashOf(hashed, content, Nat) BY <1>3, <2>2
    <3> QED BY <1>1, <2>2, <3>1 DEF bytes
  <2>3. CASE ~information.checksum
    <3>1. HashOf(hashed, <<>>, Nat) BY <1>3, <2>3
    <3> QED BY <2>1, <2>3, <3>1
  <2> QED BY <2>2, <2>3
<1>6. InFrame(k)' <=>
        /\ HasHeader(wire, HeaderOf(wire, k), k)
        /\ information.contentSize = wire[HeaderOf(wire, k)].contentSize
        /\ information.checksum = wire[HeaderOf(wire, k)].checksum
        /\ frameSize' = Len(ContentOf(wire, HeaderOf(wire, k), k))
        /\ HashOf(hashed', IF information.checksum THEN ContentOf(wire, HeaderOf(wire, k), k)
                                                   ELSE <<>>, Nat)
        /\ wire[k].kind = "block" => block'.last = wire[k].last
  BY DEF InFrame
<1> QED BY <1>1, <1>3, <1>4, <1>5, <1>6

\* A skippable frame.
LEMMA SkippableKeeps ==
  ASSUME IInv, NEW k \in DOMAIN wire, ParseSkippable(k)
  PROVE  IInv'
<1>1. /\ Reads(k) /\ wire[k].kind = "skippable" /\ cursor' = Consumed(k)
      /\ wire' = wire /\ start' = start /\ received' = received /\ borrowed' = borrowed
      /\ state' = state /\ block' = block /\ information' = information /\ hashed' = hashed
      /\ frameSize' = frameSize /\ history' = history /\ storage' = storage
      /\ capacity' = capacity /\ frameCount' = frameCount /\ delivered' = delivered
      /\ encodedSize' = encodedSize /\ status' = status /\ call' = call /\ outcome' = outcome
  BY DEF ParseSkippable, frameVars, totals
<1>2. /\ k \in 1..Len(wire) /\ k - 1 \in 0..Len(wire) /\ ReadUpTo(k - 1)
      /\ wire[k].kind \in KindRead[state] \cup {"invalid"}
  BY <1>1, PartRead
<1>3. /\ Position' = PlaceBehind(wire, k)' /\ cursor' \in Nat
  BY <1>1, Advances
<1>4. TypeOK' BY <1>1, <1>3 DEF IInv, TypeOK
<1>5. Regular' = Regular /\ Phases' BY <1>1 DEF IInv, Phases, Regular
<1>6. Inputs' BY <1>1, InputsAdvance
<1>7. Windows'
  <2>1. Retained' = Retained BY <1>1 DEF Retained, HistoryLimit
  <2> QED BY <1>1, <1>5, <2>1, WindowIsRetained DEF IInv, Windows
<1>8. Totals' /\ Storing' BY <1>1, <1>5 DEF IInv, Totals, Storing
<1>9. Tracking'
  <2>1. state = "frame_header"
    <3>1. state \in {"frame_header", "block_header", "block_payload", "frame_checksum"}
      BY DEF IInv, TypeOK
    <3> QED BY <1>1, <1>2, <3>1 DEF KindRead
  <2>2. StateBehind(wire, k) = "frame_header" BY <1>1 DEF StateBehind
  <2>3. Sound(wire, k) BY <1>1, PlainParts
  <2>4. \A i \in 1..k : i \in 1..(k - 1) \/ i = k BY <1>2
  <2>5. \A i \in 1..(k - 1) : i \in 1..k BY <1>2
  <2>6. ReadUpTo(k)'
    <3>1. \A i \in 1..k : Sound(wire, i) BY <1>2, <2>3, <2>4 DEF ReadUpTo
    <3>2. (frameCount = 0 /\ state = "frame_header") <=> (\A i \in 1..k : wire[i].kind # "header")
      BY <1>1, <1>2, <2>4, <2>5 DEF ReadUpTo
    <3> QED BY <1>1, <1>3, <2>1, <2>2, <3>1, <3>2 DEF ReadUpTo
  <2>7. \E content \in Seq(Nat) : HashOf(hashed', content, Nat) BY <1>1 DEF IInv, Tracking
  <2>8. k \in 0..Len(wire') BY <1>1, <1>2, StreamHeld DEF IInv
  <2> QED BY <2>6, <2>7, <2>8 DEF Tracking
<1> QED BY <1>4, <1>5, <1>6, <1>7, <1>8, <1>9 DEF IInv

\* A frame's header: its history, size and checksum begin anew.
LEMMA FrameHeaderKeeps ==
  ASSUME IInv, NEW k \in DOMAIN wire, ParseFrameHeader(k)
  PROVE  IInv'
<1>1. /\ Reads(k) /\ wire[k].kind = "header" /\ cursor' = Consumed(k)
      /\ state' = "block_header"
      /\ information' = [contentSize |-> wire[k].contentSize, window |-> wire[k].window,
                         checksum |-> wire[k].checksum]
      /\ hashed' = Cleared(hashed) /\ frameSize' = 0 /\ history' = <<>>
      /\ wire' = wire /\ start' = start /\ received' = received /\ borrowed' = borrowed
      /\ block' = block /\ storage' = storage
      /\ capacity' = capacity /\ frameCount' = frameCount /\ delivered' = delivered
      /\ encodedSize' = encodedSize /\ status' = status /\ call' = call /\ outcome' = outcome
  BY DEF ParseFrameHeader, Continue, totals
<1>2. /\ k \in 1..Len(wire) /\ k - 1 \in 0..Len(wire) /\ ReadUpTo(k - 1)
      /\ wire[k].kind \in KindRead[state] \cup {"invalid"} /\ wire[k] \in StreamParts
      /\ call # "none" /\ Regular /\ status \in {"ready", "active"}
  BY <1>1, PartRead
<1>3. /\ Position' = PlaceBehind(wire, k)' /\ cursor' \in Nat
  BY <1>1, Advances
<1>4. <<>> \in Seq(Nat) /\ Len(<<>>) = 0 OBVIOUS
<1>5. wire[k].contentSize \in Nat \cup {UnknownSize} /\ wire[k].window \in Nat
      /\ wire[k].checksum \in BOOLEAN
  BY <1>1, <1>2, PartFields
<1>6. TypeOK' BY <1>1, <1>3, <1>4, <1>5 DEF IInv, TypeOK
<1>7. Regular' /\ Phases' BY <1>1, <1>2 DEF IInv, Phases, Regular
<1>8. Inputs' BY <1>1, InputsAdvance
<1>9. delivered \in Seq(Nat) /\ Len(delivered) \in Nat BY DEF IInv, TypeOK
<1>10. Windows'
  <2>1. HistoryLimit' \in Nat \ {0}
    BY <1>1, <1>5, ConstantsAssumption DEF HistoryLimit
  <2>2. Retained' = 0 BY <1>1, <2>1 DEF Retained
  <2>3. LastOf(0, delivered) = <<>> BY <1>9, LastElements
  <2> QED BY <1>1, <1>9, <2>2, <2>3, WindowIsRetained DEF Windows
<1>11. state = "frame_header"
  <2>1. state \in {"frame_header", "block_header", "block_payload", "frame_checksum"}
    BY DEF IInv, TypeOK
  <2> QED BY <1>1, <1>2, <2>1 DEF KindRead
<1>12. Totals'
  <2>1. frameCount = 0 => delivered = <<>> BY <1>2, <1>11 DEF IInv, Totals
  <2> QED BY <1>1, <1>4, <2>1 DEF Totals
<1>13. Storing'
  <2>1. call = "direct" /\ frameCount = 0 => storage = <<>> BY <1>2, <1>11 DEF IInv, Storing
  <2> QED BY <1>1, <1>2, <2>1 DEF IInv, Storing
<1>14. Tracking'
  <2>1. StateBehind(wire, k) = "block_header"
    BY <1>1, <1>2, PlainParts, StreamHeld DEF StateBehind, IInv
  <2>2. Sound(wire, k) BY <1>1, PlainParts
  <2>3. \A i \in 1..k : i \in 1..(k - 1) \/ i = k BY <1>2
  <2>4. PICK content \in Seq(Nat) : HashOf(hashed, content, Nat) BY DEF IInv, Tracking
  <2>5. HashOf(hashed', <<>>, Nat) BY <1>1, <2>4, ClearedHolds
  <2>6. InFrame(k)'
    <3>1. /\ HeaderOf(wire, k) = k /\ HasHeader(wire, k, k) /\ ContentOf(wire, k, k) = <<>>
      BY <1>1, <1>2, FrameBegins
    <3>2. InFrame(k)' <=>
            /\ HasHeader(wire, HeaderOf(wire, k), k)
            /\ information'.contentSize = wire[HeaderOf(wire, k)].contentSize
            /\ information'.checksum = wire[HeaderOf(wire, k)].checksum
            /\ frameSize' = Len(ContentOf(wire, HeaderOf(wire, k), k))
            /\ HashOf(hashed', IF information'.checksum THEN ContentOf(wire, HeaderOf(wire, k), k)
                                                        ELSE <<>>, Nat)
            /\ wire[k].kind = "block" => block'.last = wire[k].last
      BY <1>1 DEF InFrame
    <3>3. information'.contentSize = wire[k].contentSize /\ information'.checksum = wire[k].checksum
      BY <1>1
    <3>4. frameSize' = Len(<<>>) BY <1>1, <1>4
    <3>5. HashOf(hashed', IF information'.checksum THEN <<>> ELSE <<>>, Nat) BY <2>5
    <3> QED BY <1>1, <3>1, <3>2, <3>3, <3>4, <3>5
  <2>7. ReadUpTo(k)'
    <3>1. \A i \in 1..k : Sound(wire, i) BY <1>2, <2>2, <2>3 DEF ReadUpTo
    <3>2. k \in 1..k BY <1>2, StreamHeld DEF IInv
    <3> QED BY <1>1, <1>3, <2>1, <2>6, <3>1, <3>2 DEF ReadUpTo
  <2>8. k \in 0..Len(wire') BY <1>1, <1>2, StreamHeld DEF IInv
  <2> QED BY <1>4, <2>5, <2>7, <2>8 DEF Tracking
<1> QED BY <1>6, <1>7, <1>8, <1>10, <1>12, <1>13, <1>14 DEF IInv

\* A block's header.
LEMMA BlockHeaderKeeps ==
  ASSUME IInv, NEW k \in DOMAIN wire, ParseBlockHeader(k)
  PROVE  IInv'
<1>1. /\ Reads(k) /\ wire[k].kind = "block" /\ cursor' = Consumed(k)
      /\ state' = "block_payload"
      /\ block' = [type |-> wire[k].type, last |-> wire[k].last]
      /\ information' = information /\ hashed' = hashed /\ frameSize' = frameSize
      /\ history' = history /\ storage' = storage
      /\ wire' = wire /\ start' = start /\ received' = received /\ borrowed' = borrowed
      /\ capacity' = capacity /\ frameCount' = frameCount /\ delivered' = delivered
      /\ encodedSize' = encodedSize /\ status' = status /\ call' = call /\ outcome' = outcome
  BY DEF ParseBlockHeader, Continue, totals
<1>2. /\ k \in 1..Len(wire) /\ k - 1 \in 0..Len(wire) /\ ReadUpTo(k - 1)
      /\ wire[k].kind \in KindRead[state] \cup {"invalid"} /\ wire[k] \in StreamParts
      /\ call # "none" /\ Regular /\ status \in {"ready", "active"}
  BY <1>1, PartRead
<1>3. /\ Position' = PlaceBehind(wire, k)' /\ cursor' \in Nat
  BY <1>1, Advances
<1>4. wire[k].type \in {"raw", "run_length", "compressed"} /\ wire[k].last \in BOOLEAN
  BY <1>1, <1>2, PartFields
<1>5. TypeOK' BY <1>1, <1>3, <1>4 DEF IInv, TypeOK
<1>6. Regular' /\ Phases' BY <1>1, <1>2 DEF IInv, Phases, Regular
<1>7. Inputs' BY <1>1, InputsAdvance
<1>8. state = "block_header"
  <2>1. state \in {"frame_header", "block_header", "block_payload", "frame_checksum"}
    BY DEF IInv, TypeOK
  <2> QED BY <1>1, <1>2, <2>1 DEF KindRead
<1>9. Windows'
  <2>1. Retained' = Retained BY <1>1 DEF Retained, HistoryLimit
  <2> QED BY <1>1, <1>2, <1>8, <2>1, WindowIsRetained DEF IInv, Windows
<1>10. Totals' /\ Storing' BY <1>1, <1>2, <1>8 DEF IInv, Totals, Storing
<1>11. Tracking'
  <2>1. StateBehind(wire, k) = "block_payload"
    BY <1>1, <1>2, PlainParts, StreamHeld DEF StateBehind, IInv
  <2>2. Sound(wire, k) BY <1>1, PlainParts
  <2>3. \A i \in 1..k : i \in 1..(k - 1) \/ i = k BY <1>2
  <2>5. \A i \in 1..(k - 1) : i \in 1..k BY <1>2
  <2>4. InFrame(k)'
    <3>1. BytesOf(wire[k]) = <<>> BY <1>1 DEF BytesOf
    <3>2. frameSize' = frameSize + Len(BytesOf(wire[k]))
      <4>1. Len(<<>>) = 0 OBVIOUS
      <4>2. frameSize \in Nat BY DEF IInv, TypeOK
      <4> QED BY <1>1, <3>1, <4>1, <4>2
    <3>3. ASSUME NEW content \in Seq(Nat), HashOf(hashed, content, Nat)
          PROVE  HashOf(hashed', IF information.checksum THEN content \o BytesOf(wire[k])
                                                         ELSE content, Nat)
      <4>1. content \o <<>> = content OBVIOUS
      <4> QED BY <1>1, <3>1, <3>3, <4>1
    <3>4. block'.last = wire[k].last BY <1>1
    <3> QED BY <1>1, <1>2, <1>8, <3>2, <3>3, <3>4, FrameContinues
  <2>7. ReadUpTo(k)'
    <3>1. \A i \in 1..k : Sound(wire, i) BY <1>2, <2>2, <2>3 DEF ReadUpTo
    <3>2. \E i \in 1..(k - 1) : wire[i].kind = "header"
      <4>1. HasHeader(wire, HeaderOf(wire, k - 1), k - 1) BY <1>2, <1>8 DEF ReadUpTo, InFrame
      <4> QED BY <4>1 DEF HasHeader
    <3>3. \E i \in 1..k : wire[i].kind = "header" BY <2>5, <3>2
    <3> QED BY <1>1, <1>3, <2>1, <2>4, <3>1, <3>3 DEF ReadUpTo
  <2>8. k \in 0..Len(wire') BY <1>1, <1>2, StreamHeld DEF IInv
  <2>9. \E content \in Seq(Nat) : HashOf(hashed', content, Nat) BY <1>1 DEF IInv, Tracking
  <2> QED BY <2>7, <2>8, <2>9 DEF Tracking
<1> QED BY <1>5, <1>6, <1>7, <1>9, <1>10, <1>11 DEF IInv

\* The end of a sequence and what is put behind it.
LEMMA LastAppended ==
  ASSUME NEW s \in Seq(Nat), NEW u \in Seq(Nat), NEW n \in 0..Len(s)
  PROVE  LastOf(n, s) \o u = LastOf(n + Len(u), s \o u)
<1> DEFINE x == LastOf(n, s)
           t == s \o u
           m == n + Len(u)
           y == LastOf(m, t)
           z == x \o u
<1>1. /\ x \in Seq(Nat) /\ Len(x) = n /\ \A i \in 1..n : x[i] = s[Len(s) - n + i]
  BY LastElements
<1>2. /\ t \in Seq(Nat) /\ Len(t) = Len(s) + Len(u)
      /\ \A i \in 1..Len(s) : t[i] = s[i]
      /\ \A i \in (Len(s) + 1)..(Len(s) + Len(u)) : t[i] = u[i - Len(s)]
  BY Concatenated
<1> HIDE DEF x, t
<1>3. m \in 0..Len(t) /\ Len(s) \in Nat /\ Len(u) \in Nat /\ n \in Nat BY <1>2
<1>4. /\ z \in Seq(Nat) /\ Len(z) = n + Len(u)
      /\ \A i \in 1..n : z[i] = x[i]
      /\ \A i \in (n + 1)..(n + Len(u)) : z[i] = u[i - n]
  <2>1. /\ z \in Seq(Nat) /\ Len(z) = Len(x) + Len(u)
        /\ \A i \in 1..Len(x) : z[i] = x[i]
        /\ \A i \in (Len(x) + 1)..(Len(x) + Len(u)) : z[i] = u[i - Len(x)]
    BY <1>1, Concatenated, ZenonT(30)
  <2> QED BY <1>1, <2>1
<1>5. y \in Seq(Nat) /\ Len(y) = m /\ \A i \in 1..m : y[i] = t[Len(t) - m + i]
  <2> HIDE DEF m
  <2> QED BY <1>2, <1>3, LastElements
<1> HIDE DEF y, z
<1>6. ASSUME NEW i \in 1..m PROVE y[i] = z[i]
  <2>1. Len(t) - m + i = Len(s) - n + i BY <1>2, <1>3
  <2>2. y[i] = t[Len(s) - n + i] BY <1>5, <2>1
  <2>3. CASE i \in 1..n
    <3>1. Len(s) - n + i \in 1..Len(s) BY <2>3, <1>3
    <3> QED BY <3>1, <2>2, <2>3, <1>1, <1>2, <1>4
  <2>4. CASE i \in (n + 1)..(n + Len(u))
    <3>1. Len(s) - n + i \in (Len(s) + 1)..(Len(s) + Len(u))
          /\ (Len(s) - n + i) - Len(s) = i - n
      BY <2>4, <1>3
    <3>2. t[Len(s) - n + i] = u[i - n] BY <3>1, <1>2
    <3> QED BY <3>2, <2>2, <2>4, <1>4
  <2> QED BY <2>3, <2>4, <1>3
<1>7. y = z BY <1>3, <1>4, <1>5, <1>6
<1> QED BY <1>7 DEF x, t, y, z

\* The end of an end.
LEMMA LastOfLast ==
  ASSUME NEW s \in Seq(Nat), NEW n \in 0..Len(s), NEW m \in 0..n
  PROVE  LastOf(m, LastOf(n, s)) = LastOf(m, s)
<1> DEFINE x == LastOf(n, s)
           y == LastOf(m, x)
           z == LastOf(m, s)
<1>1. /\ x \in Seq(Nat) /\ Len(x) = n /\ \A i \in 1..n : x[i] = s[Len(s) - n + i]
  BY LastElements
<1>2. m \in 0..Len(s) /\ n \in Nat /\ m \in Nat /\ Len(s) \in Nat OBVIOUS
<1>3. /\ z \in Seq(Nat) /\ Len(z) = m /\ \A i \in 1..m : z[i] = s[Len(s) - m + i]
  BY <1>2, LastElements
<1> HIDE DEF x
<1>4. /\ y \in Seq(Nat) /\ Len(y) = m /\ \A i \in 1..m : y[i] = x[n - m + i]
  BY <1>1, LastElements
<1> HIDE DEF y, z
<1>5. ASSUME NEW i \in 1..m PROVE y[i] = z[i]
  <2>1. n - m + i \in 1..n /\ Len(s) - n + (n - m + i) = Len(s) - m + i BY <1>2
  <2>2. x[n - m + i] = s[Len(s) - m + i] BY <2>1, <1>1
  <2> QED BY <2>2, <1>3, <1>4
<1>6. y = z BY <1>2, <1>3, <1>4, <1>5
<1> QED BY <1>6 DEF x, y, z

\* A block leaves the window of history behind.
LEMMA WindowAppended ==
  ASSUME IInv, NEW bytes \in Seq(Nat), history = LastOf(Retained, delivered),
         frameSize <= Len(delivered), UNCHANGED <<capacity, information>>,
         frameSize' = frameSize + Len(bytes), delivered' = delivered \o bytes,
         history' = Trimmed(history \o bytes)
  PROVE  /\ history' = LastOf(Retained', delivered') /\ frameSize' <= Len(delivered')
         /\ delivered' \in Seq(Nat) /\ history' \in Seq(Nat) /\ frameSize' \in Nat
         /\ capacity # NotDirect => history' = history \o bytes
<1> DEFINE n == Retained
           L == HistoryLimit
           t == delivered \o bytes
           kept == history \o bytes
<1>1. /\ delivered \in Seq(Nat) /\ frameSize \in Nat /\ history \in Seq(Nat)
      /\ L \in Nat \ {0} /\ Len(delivered) \in Nat /\ Len(bytes) \in Nat
  <2>1. delivered \in Seq(Nat) /\ frameSize \in Nat /\ history \in Seq(Nat)
    BY DEF IInv, TypeOK
  <2>2. TypeOK BY DEF IInv
  <2>3. L \in Nat \ {0} BY <2>2, StreamHeld
  <2> HIDE DEF L
  <2> QED BY <2>1, <2>3
<1>2. n = IF capacity # NotDirect \/ frameSize < L THEN frameSize ELSE L BY DEF Retained
<1>3. n \in 0..Len(delivered) /\ n <= frameSize BY <1>1, <1>2
<1>4. t \in Seq(Nat) /\ Len(t) = Len(delivered) + Len(bytes) BY <1>1, Concatenated
<1>5. Retained' = IF capacity # NotDirect \/ frameSize + Len(bytes) < L
                  THEN frameSize + Len(bytes) ELSE L
  BY DEF Retained, HistoryLimit
<1> HIDE DEF n, L
<1>6. kept = LastOf(n + Len(bytes), t)
  <2>1. LastOf(n, delivered) \o bytes = LastOf(n + Len(bytes), delivered \o bytes)
    BY <1>1, <1>3, LastAppended
  <2> QED BY <2>1 DEF n
<1>7. n + Len(bytes) \in 0..Len(t) BY <1>1, <1>3, <1>4
<1> HIDE DEF t, kept
<1>8. kept \in Seq(Nat) /\ Len(kept) = n + Len(bytes) BY <1>4, <1>6, <1>7, LastElements
<1>9. history' = IF capacity # NotDirect \/ Len(kept) <= L THEN kept ELSE LastOf(L, kept)
  BY DEF Trimmed, kept, L
<1>10. CASE capacity # NotDirect
  <2>1. Retained' = n + Len(bytes) BY <1>2, <1>5, <1>10
  <2>2. history' = kept BY <1>9, <1>10
  <2> QED BY <1>1, <1>4, <1>6, <1>8, <2>1, <2>2 DEF t, kept
<1>11. CASE capacity = NotDirect /\ Len(kept) <= L
  <2>1. history' = kept BY <1>9, <1>11
  <2>2. Retained' = n + Len(bytes)
    <3>1. CASE frameSize < L
      <4>1. n = frameSize /\ frameSize + Len(bytes) <= L BY <1>2, <1>8, <1>11, <3>1
      <4> QED BY <4>1, <1>1, <1>5, <1>11
    <3>2. CASE frameSize >= L
      <4>1. n = L /\ Len(bytes) = 0 BY <1>1, <1>2, <1>8, <1>11, <3>2
      <4> QED BY <4>1, <1>1, <1>5, <1>11, <3>2
    <3> QED BY <3>1, <3>2, <1>1
  <2> QED BY <1>1, <1>4, <1>6, <1>8, <1>11, <2>1, <2>2 DEF t, kept
<1>12. CASE capacity = NotDirect /\ Len(kept) > L
  <2>1. history' = LastOf(L, kept) BY <1>1, <1>8, <1>9, <1>12
  <2>2. L \in 0..(n + Len(bytes)) BY <1>1, <1>8, <1>12
  <2>3. LastOf(L, kept) = LastOf(L, t) BY <1>4, <1>6, <1>7, <2>2, LastOfLast
  <2>4. Retained' = L
    <3>1. frameSize + Len(bytes) > L BY <1>1, <1>3, <1>8, <1>12
    <3> QED BY <3>1, <1>1, <1>5, <1>12
  <2>5. LastOf(L, t) \in Seq(Nat) BY <1>4, <1>7, <2>2, <1>1, <1>3, LastElements
  <2> QED BY <1>1, <1>4, <1>12, <2>1, <2>3, <2>4, <2>5 DEF t
<1> QED BY <1>10, <1>11, <1>12, <1>1, <1>8

\* What a payload finds: the frame, its block's header and its own end.
LEMMA PayloadRead ==
  ASSUME IInv, NEW k \in DOMAIN wire, Reads(k), wire[k].kind = "payload"
  PROVE  /\ state = "block_payload" /\ wire[k].bytes \in Seq(Nat)
         /\ BytesOf(wire[k]) = wire[k].bytes
         /\ wire[k - 1].kind = "block" /\ (block.last <=> wire[k - 1].last)
         /\ EndsFrame(wire, k) <=> block.last /\ ~information.checksum
         /\ wire[HeaderOf(wire, k)].contentSize = information.contentSize
         /\ Len(ContentOf(wire, HeaderOf(wire, k), k)) = frameSize + Len(wire[k].bytes)
         /\ \E i \in 1..(k - 1) : wire[i].kind = "header"
<1>1. /\ k \in 1..Len(wire) /\ k - 1 \in 0..Len(wire) /\ ReadUpTo(k - 1)
      /\ wire[k].kind \in KindRead[state] \cup {"invalid"} /\ wire[k] \in StreamParts
  BY PartRead
<1>2. state = "block_payload"
  <2>1. state \in {"frame_header", "block_header", "block_payload", "frame_checksum"}
    BY DEF IInv, TypeOK
  <2> QED BY <1>1, <2>1 DEF KindRead
<1>3. wire[k].bytes \in Seq(Nat) /\ BytesOf(wire[k]) = wire[k].bytes
  BY <1>1, PartFields DEF BytesOf
<1>4. wire[k - 1].kind = "block" BY <1>1, PayloadNeighbours, StreamHeld DEF IInv
<1>5. InFrame(k - 1) BY <1>1, <1>2 DEF ReadUpTo
<1> DEFINE h == HeaderOf(wire, k - 1)
           content == ContentOf(wire, h, k - 1)
<1>6. /\ HasHeader(wire, h, k - 1)
      /\ information.contentSize = wire[h].contentSize
      /\ information.checksum = wire[h].checksum
      /\ frameSize = Len(content) /\ block.last = wire[k - 1].last
  BY <1>4, <1>5 DEF InFrame
<1>7. /\ HeaderOf(wire, k) = h
      /\ content \in Seq(Nat)
      /\ ContentOf(wire, h, k) = content \o wire[k].bytes
  BY <1>1, <1>2, <1>3, FrameGoesOn
<1> HIDE DEF h, content
<1>8. EndsFrame(wire, k) <=> block.last /\ ~information.checksum
  BY <1>6, <1>7 DEF EndsFrame
<1>9. Len(content \o wire[k].bytes) = Len(content) + Len(wire[k].bytes) BY <1>3, <1>7
<1>10. \E i \in 1..(k - 1) : wire[i].kind = "header" BY <1>6 DEF HasHeader
<1> QED BY <1>2, <1>3, <1>4, <1>6, <1>7, <1>8, <1>9, <1>10

\* The caller's storage takes a block.
LEMMA StoredTyped ==
  ASSUME NEW s \in Seq(Nat), NEW a \in Seq(Nat)
  PROVE  /\ SubSeq(s, Len(a) + 1, Len(s)) \in Seq(Nat)
         /\ Len(s) <= Len(a) => a \o SubSeq(s, Len(a) + 1, Len(s)) = a
<1> DEFINE n == Len(a)
           x == SubSeq(s, n + 1, Len(s))
<1>1. n \in Nat /\ Len(s) \in Nat OBVIOUS
<1> HIDE DEF n
<1>2. CASE n <= Len(s)
  <2>1. x \in Seq(Nat) /\ Len(x) = Len(s) - n BY <1>1, <1>2, Pieces
  <2> HIDE DEF x
  <2>2. Len(s) <= n => a \o x = a
    <3>1. Len(s) <= n => Len(x) = 0 BY <1>1, <1>2, <2>1
    <3>2. Len(x) = 0 => x = <<>> BY <2>1
    <3>3. a \o <<>> = a OBVIOUS
    <3> QED BY <3>1, <3>2, <3>3
  <2> QED BY <2>1, <2>2 DEF x, n
<1>3. CASE n > Len(s)
  <2>1. x = <<>> BY <1>1, <1>3
  <2>2. a \o <<>> = a /\ <<>> \in Seq(Nat) OBVIOUS
  <2> HIDE DEF x
  <2>3. x \in Seq(Nat) /\ a \o x = a BY <2>1, <2>2
  <2> QED BY <2>3 DEF x, n
<1> QED BY <1>1, <1>2, <1>3

\* A block is the next of the frame's bytes, wherever they are kept.
LEMMA BlockStored ==
  ASSUME IInv, NEW bytes \in Seq(Nat), Regular, call # "none", state # "frame_header",
         UNCHANGED <<call, status, outcome, capacity, information>>,
         history = LastOf(Retained, delivered),
         frameSize' = frameSize + Len(bytes), delivered' = delivered \o bytes,
         history' = Trimmed(history \o bytes), storage' = Stored(bytes),
         \/ state' = "frame_header" /\ frameCount' = frameCount + 1
         \/ state' # "frame_header" /\ frameCount' = frameCount
  PROVE  Totals' /\ Storing' /\ storage' \in Seq(Nat)
<1>1. /\ delivered \in Seq(Nat) /\ frameSize \in Nat /\ history \in Seq(Nat)
      /\ storage \in Seq(Nat) /\ frameCount \in Nat
      /\ Len(delivered) \in Nat /\ Len(bytes) \in Nat
  BY DEF IInv, TypeOK
<1>2. Regular' /\ status # "finished" BY DEF Regular, IInv, Phases
<1>3. capacity # NotDirect <=> call = "direct" BY DEF IInv, Phases
<1>4. frameSize <= Len(delivered) BY DEF IInv, Windows
<1> DEFINE kept == history \o bytes
<1>5. kept \in Seq(Nat) /\ Len(kept) = Len(history) + Len(bytes) BY <1>1, Concatenated
<1>6. capacity # NotDirect => history' = kept BY DEF Trimmed
<1>7. storage' = IF capacity = NotDirect THEN storage
                 ELSE kept \o SubSeq(storage, Len(kept) + 1, Len(storage))
  BY DEF Stored
<1> HIDE DEF kept
<1>8. storage' \in Seq(Nat)
  <2>1. SubSeq(storage, Len(kept) + 1, Len(storage)) \in Seq(Nat) BY <1>1, <1>5, StoredTyped
  <2> HIDE DEF kept
  <2> QED BY <1>1, <1>5, <1>7, <2>1
<1>9. CASE frameCount = 0
  <2>1. frameSize = Len(delivered) BY <1>9 DEF IInv, Totals
  <2>2. Len(delivered \o bytes) = Len(delivered) + Len(bytes) BY <1>1
  <2>3. Totals' BY <1>1, <1>9, <2>1, <2>2 DEF Totals
  <2>4. CASE call = "direct"
    <3>1. storage = history BY <1>9, <2>4 DEF IInv, Storing
    <3>2. Retained = frameSize BY <1>3, <2>4 DEF Retained
    <3>3. history = delivered BY <1>1, <2>1, <3>2, LastElements
    <3>4. Len(storage) <= Len(kept) BY <1>1, <1>5, <3>1
    <3>5. storage' = kept BY <1>1, <1>3, <1>5, <1>7, <2>4, <3>4, StoredTyped
    <3>6. storage' = history' /\ storage' = delivered' BY <1>3, <1>6, <2>4, <3>3, <3>5 DEF kept
    <3> QED BY <1>2, <1>8, <1>9, <2>3, <2>4, <3>6 DEF Storing
  <2>5. CASE call # "direct"
    <3>1. storage' = storage /\ storage = <<>> BY <1>2, <1>3, <1>7, <2>5 DEF IInv, Storing
    <3> QED BY <1>2, <1>8, <2>3, <2>5, <3>1 DEF Storing
  <2> QED BY <2>4, <2>5
<1>10. CASE frameCount # 0
  <2>1. frameCount' # 0 /\ ~(frameCount' = 1 /\ state' = "frame_header") BY <1>1, <1>10
  <2>2. Totals' BY <2>1 DEF Totals
  <2>3. call # "direct" => storage' = <<>> BY <1>2, <1>3, <1>7 DEF IInv, Storing
  <2>4. Storing' BY <1>2, <2>1, <2>3 DEF Storing
  <2> QED BY <1>8, <2>2, <2>4
<1> QED BY <1>9, <1>10

\* A block's payload is appended, delivered and, if it is the last of a frame
\* without a checksum, completes the frame or fails it.
LEMMA PayloadKeeps ==
  ASSUME IInv, NEW k \in DOMAIN wire, ParseBlockPayload(k)
  PROVE  IInv'
<1> DEFINE bytes == wire[k].bytes
           kept  == Trimmed(history \o bytes)
           size  == frameSize + Len(bytes)
<1>1. /\ Reads(k) /\ wire[k].kind = "payload"
      /\ storage' = Stored(bytes) /\ delivered' = delivered \o bytes
      /\ hashed' = IF information.checksum THEN Updated(hashed, bytes) ELSE hashed
      /\ frameSize' = size
      /\ IF block.last /\ ~information.checksum
         THEN CompleteFrame(size, Consumed(k), kept)
         ELSE /\ state' = IF block.last THEN "frame_checksum" ELSE "block_header"
              /\ Continue(Consumed(k), kept)
              /\ frameCount' = frameCount
      /\ wire' = wire /\ start' = start /\ received' = received /\ block' = block
      /\ information' = information /\ encodedSize' = encodedSize
  BY DEF ParseBlockPayload
<1>2. /\ k \in 1..Len(wire) /\ k - 1 \in 0..Len(wire) /\ ReadUpTo(k - 1)
      /\ call # "none" /\ Regular /\ status \in {"ready", "active"} /\ Consumed(k) \in Nat
  BY <1>1, PartRead
<1>3. /\ state = "block_payload" /\ bytes \in Seq(Nat) /\ BytesOf(wire[k]) = bytes
      /\ wire[k - 1].kind = "block" /\ (block.last <=> wire[k - 1].last)
      /\ EndsFrame(wire, k) <=> block.last /\ ~information.checksum
      /\ wire[HeaderOf(wire, k)].contentSize = information.contentSize
      /\ Len(ContentOf(wire, HeaderOf(wire, k), k)) = size
      /\ \E i \in 1..(k - 1) : wire[i].kind = "header"
  BY <1>1, PayloadRead
<1>4. /\ delivered \in Seq(Nat) /\ frameSize \in Nat /\ history \in Seq(Nat)
      /\ storage \in Seq(Nat) /\ frameCount \in Nat /\ encodedSize \in Nat
      /\ hashed = hashed /\ Len(bytes) \in Nat
  BY <1>3 DEF IInv, TypeOK
<1>5. history = LastOf(Retained, delivered) /\ frameSize <= Len(delivered)
  BY <1>2, <1>3, WindowIsRetained DEF IInv, Windows, Phases
<1>6. \A content \in Seq(Nat) :
        HashOf(hashed, content, Nat) =>
          HashOf(hashed', IF information.checksum THEN content \o bytes ELSE content, Nat)
  BY <1>1, <1>3, UpdatedHolds
<1>7. \E content \in Seq(Nat) : HashOf(hashed', content, Nat)
  <2>1. PICK content \in Seq(Nat) : HashOf(hashed, content, Nat) BY DEF IInv, Tracking
  <2>2. content \o bytes \in Seq(Nat) BY <1>3
  <2> QED BY <1>6, <2>1, <2>2
<1> HIDE DEF bytes, kept, size
<1>8. size = frameSize + Len(bytes) /\ size \in Nat BY <1>4 DEF size
<1>9. delivered' \in Seq(Nat) BY <1>1, <1>3, <1>4
<1> DEFINE done == state' = "frame_header" /\ frameCount' = frameCount + 1
           on   == /\ state' = IF block.last THEN "frame_checksum" ELSE "block_header"
                   /\ frameCount' = frameCount
<1>10. ASSUME Continue(Consumed(k), kept),
              \/ done /\ EndsFrame(wire, k) /\ information.contentSize \in {UnknownSize, size}
              \/ on /\ ~EndsFrame(wire, k)
       PROVE  IInv'
  <2>1. /\ cursor' = Consumed(k) /\ history' = kept
        /\ borrowed' = borrowed /\ capacity' = capacity /\ status' = status /\ call' = call
        /\ outcome' = outcome
    BY <1>10 DEF Continue
  <2>2. /\ history' = LastOf(Retained', delivered') /\ frameSize' <= Len(delivered')
        /\ history' \in Seq(Nat)
    BY <1>1, <1>3, <1>5, <1>8, <2>1, WindowAppended DEF kept
  <2>3. Totals' /\ Storing' /\ storage' \in Seq(Nat)
    <3>1. \/ state' = "frame_header" /\ frameCount' = frameCount + 1
          \/ state' # "frame_header" /\ frameCount' = frameCount
      BY <1>10
    <3> HIDE DEF done, on
    <3> QED BY <1>1, <1>2, <1>3, <1>5, <1>8, <2>1, <3>1, BlockStored DEF kept
  <2>4. Position' = PlaceBehind(wire, k)' /\ cursor' \in Nat BY <1>1, <2>1, Advances
  <2>5. state' \in {"frame_header", "block_header", "block_payload", "frame_checksum"}
        /\ frameCount' \in Nat
    BY <1>4, <1>10
  <2>6. TypeOK' BY <1>1, <1>8, <1>9, <2>1, <2>2, <2>3, <2>4, <2>5 DEF IInv, TypeOK
  <2>7. Regular' /\ Phases' BY <1>2, <2>1 DEF IInv, Phases, Regular
  <2>8. Inputs' BY <1>1, <2>1, InputsAdvance
  <2>9. Windows' BY <2>2, WindowIsRetained DEF Windows
  <2>10. state' = StateBehind(wire, k)
    <3>1. k # 0 BY <1>2, StreamHeld DEF IInv
    <3>2. CASE EndsFrame(wire, k) BY <1>10, <3>2 DEF StateBehind
    <3>3. CASE ~EndsFrame(wire, k) BY <1>1, <1>3, <1>10, <3>1, <3>3 DEF StateBehind
    <3> QED BY <3>2, <3>3
  <2>11. Sound(wire, k)
    <3>1. EndsFrame(wire, k) => information.contentSize \in {UnknownSize, size} BY <1>10
    <3> QED BY <1>1, <1>3, <3>1 DEF Sound
  <2>12. \A i \in 1..k : i \in 1..(k - 1) \/ i = k BY <1>2
  <2>13. \A i \in 1..(k - 1) : i \in 1..k BY <1>2
  <2>14. state' # "frame_header" => InFrame(k)'
    <3>1. frameSize' = frameSize + Len(BytesOf(wire[k])) BY <1>1, <1>3, <1>8
    <3>2. wire[k].kind # "header" /\ wire[k].kind # "block" BY <1>1
    <3> QED BY <1>1, <1>2, <1>3, <1>6, <3>1, <3>2, FrameContinues
  <2>15. ReadUpTo(k)'
    <3>1. \A i \in 1..k : Sound(wire, i) BY <1>2, <2>11, <2>12 DEF ReadUpTo
    <3>2. \E i \in 1..k : wire[i].kind = "header" BY <1>3, <2>13
    <3>3. ~(frameCount' = 0 /\ state' = "frame_header") BY <1>4, <1>10
    <3> QED BY <1>1, <2>4, <2>10, <2>14, <3>1, <3>2, <3>3 DEF ReadUpTo
  <2>16. k \in 0..Len(wire') BY <1>1, <1>2, StreamHeld DEF IInv
  <2>17. Tracking' BY <1>7, <2>15, <2>16 DEF Tracking
  <2> QED BY <2>3, <2>6, <2>7, <2>8, <2>9, <2>17 DEF IInv
<1>11. ASSUME Fail("invalid", Consumed(k), kept), state' = state, frameCount' = frameCount
       PROVE  IInv'
  <2>1. kept \in Seq(Nat)
    <3> DEFINE x == history \o bytes
    <3>1. x \in Seq(Nat) BY <1>3, <1>4
    <3>2. HistoryLimit \in Nat \ {0} BY StreamHeld DEF IInv
    <3> HIDE DEF x
    <3>3. Trimmed(x) \in Seq(Nat)
      <4>1. CASE capacity # NotDirect \/ Len(x) <= HistoryLimit BY <3>1, <4>1 DEF Trimmed
      <4>2. CASE ~(capacity # NotDirect \/ Len(x) <= HistoryLimit)
        <5>1. HistoryLimit \in 0..Len(x) BY <3>1, <3>2, <4>2
        <5> QED BY <3>1, <4>2, <5>1, LastElements DEF Trimmed
      <4> QED BY <4>1, <4>2
    <3> QED BY <3>3 DEF kept, x
  <2>2. storage' \in Seq(Nat)
    <3> DEFINE x == history \o bytes
    <3>1. x \in Seq(Nat) BY <1>3, <1>4
    <3>2. storage' = IF capacity = NotDirect THEN storage
                     ELSE x \o SubSeq(storage, Len(x) + 1, Len(storage))
      BY <1>1 DEF Stored
    <3> HIDE DEF x
    <3>3. SubSeq(storage, Len(x) + 1, Len(storage)) \in Seq(Nat) BY <1>4, <3>1, StoredTyped
    <3> QED BY <1>4, <3>1, <3>2, <3>3
  <2>3. Unwind("invalid", Consumed(k), kept) /\ status' = "failed" BY <1>11 DEF Fail
  <2>4. state' \in {"frame_header", "block_header", "block_payload", "frame_checksum"}
    BY <1>3, <1>11
  <2>5. encodedSize' \in Nat /\ frameSize' \in Nat /\ frameCount' \in Nat BY <1>1, <1>4, <1>8, <1>11
  <2> QED BY <1>1, <1>2, <1>7, <1>9, <2>1, <2>2, <2>3, <2>4, <2>5, Unwound
<1>12. CASE block.last /\ ~information.checksum
  <2>1. CompleteFrame(size, Consumed(k), kept) /\ EndsFrame(wire, k) BY <1>1, <1>3, <1>12
  <2>2. CASE information.contentSize \in {UnknownSize, size}
    BY <2>1, <2>2, <1>10 DEF CompleteFrame
  <2>3. CASE information.contentSize \notin {UnknownSize, size}
    BY <2>1, <2>3, <1>11 DEF CompleteFrame
  <2> QED BY <2>2, <2>3
<1>13. CASE ~(block.last /\ ~information.checksum)
  BY <1>1, <1>3, <1>10, <1>13
<1> QED BY <1>12, <1>13

\* What a checksum finds: the frame that it ends, and the digest of its content.
LEMMA ChecksumRead ==
  ASSUME IInv, NEW k \in DOMAIN wire, Reads(k), wire[k].kind = "checksum"
  PROVE  /\ state = "frame_checksum" /\ EndsFrame(wire, k) /\ BytesOf(wire[k]) = <<>>
         /\ wire[HeaderOf(wire, k)].contentSize = information.contentSize
         /\ Len(ContentOf(wire, HeaderOf(wire, k), k)) = frameSize
         /\ Digest(hashed) = DigestOf(ContentOf(wire, HeaderOf(wire, k), k))
         /\ \E i \in 1..(k - 1) : wire[i].kind = "header"
<1>1. /\ k \in 1..Len(wire) /\ k - 1 \in 0..Len(wire) /\ ReadUpTo(k - 1)
      /\ wire[k].kind \in KindRead[state] \cup {"invalid"} /\ wire[k] \in StreamParts
  BY PartRead
<1>2. state = "frame_checksum"
  <2>1. state \in {"frame_header", "block_header", "block_payload", "frame_checksum"}
    BY DEF IInv, TypeOK
  <2> QED BY <1>1, <2>1 DEF KindRead
<1>3. EndsFrame(wire, k) BY DEF EndsFrame
<1>4. BytesOf(wire[k]) = <<>> /\ <<>> \in Seq(Nat) BY DEF BytesOf
<1>5. InFrame(k - 1) BY <1>1, <1>2 DEF ReadUpTo
<1> DEFINE h == HeaderOf(wire, k - 1)
           content == ContentOf(wire, h, k - 1)
<1>6. /\ HasHeader(wire, h, k - 1)
      /\ information.contentSize = wire[h].contentSize
      /\ information.checksum = wire[h].checksum
      /\ frameSize = Len(content)
      /\ HashOf(hashed, IF information.checksum THEN content ELSE <<>>, Nat)
  BY <1>5 DEF InFrame
<1>7. information.checksum
  <2>1. StateBehind(wire, k - 1) = "frame_checksum" BY <1>1, <1>2 DEF ReadUpTo
  <2>2. wire[k - 1].kind = "payload" /\ wire[(k - 1) - 1].last /\ ~EndsFrame(wire, k - 1)
    <3>1. ~(k - 1 = 0 \/ wire[k - 1].kind = "skippable" \/ EndsFrame(wire, k - 1))
      BY <2>1 DEF StateBehind
    <3>2. wire[k - 1].kind # "header" /\ wire[k - 1].kind # "block"
      BY <2>1, <3>1 DEF StateBehind
    <3>3. wire[k - 1].kind = "payload" BY <2>1, <3>1, <3>2 DEF StateBehind
    <3>4. wire[(k - 1) - 1].last BY <2>1, <3>1, <3>2, <3>3 DEF StateBehind
    <3> QED BY <3>1, <3>3, <3>4
  <2> QED BY <1>6, <2>2 DEF EndsFrame
<1>8. /\ HeaderOf(wire, k) = h /\ content \in Seq(Nat)
      /\ ContentOf(wire, h, k) = content \o BytesOf(wire[k])
  BY <1>1, <1>2, FrameGoesOn
<1> HIDE DEF h, content
<1>9. ContentOf(wire, h, k) = content
  <2>1. content \o <<>> = content BY <1>8
  <2> QED BY <1>4, <1>8, <2>1
<1>10. Digest(hashed) = DigestOf(content)
  <2>1. NoByte \in Nat BY DEF NoByte
  <2>2. HashOf(hashed, content, Nat) BY <1>6, <1>7
  <2> QED BY <1>8, <2>1, <2>2, DigestOfPieces
<1>11. \E i \in 1..(k - 1) : wire[i].kind = "header" BY <1>6 DEF HasHeader
<1> QED BY <1>2, <1>3, <1>4, <1>6, <1>8, <1>9, <1>10, <1>11

\* The checksum completes the frame, or fails it.
LEMMA ChecksumKeeps ==
  ASSUME IInv, NEW k \in DOMAIN wire, ParseFrameChecksum(k)
  PROVE  IInv'
<1>1. /\ Reads(k) /\ wire[k].kind = "checksum"
      /\ IF wire[k].of = Digest(hashed)
         THEN CompleteFrame(frameSize, Consumed(k), history)
         ELSE Fail("invalid", cursor, history) /\ state' = state /\ frameCount' = frameCount
      /\ wire' = wire /\ start' = start /\ received' = received /\ block' = block
      /\ information' = information /\ hashed' = hashed /\ frameSize' = frameSize
      /\ storage' = storage /\ encodedSize' = encodedSize /\ delivered' = delivered
  BY DEF ParseFrameChecksum
<1>2. /\ k \in 1..Len(wire) /\ k - 1 \in 0..Len(wire) /\ ReadUpTo(k - 1)
      /\ call # "none" /\ Regular /\ status \in {"ready", "active"} /\ Consumed(k) \in Nat
  BY <1>1, PartRead
<1>3. /\ state = "frame_checksum" /\ EndsFrame(wire, k)
      /\ wire[HeaderOf(wire, k)].contentSize = information.contentSize
      /\ Len(ContentOf(wire, HeaderOf(wire, k), k)) = frameSize
      /\ Digest(hashed) = DigestOf(ContentOf(wire, HeaderOf(wire, k), k))
      /\ \E i \in 1..(k - 1) : wire[i].kind = "header"
  BY <1>1, ChecksumRead
<1>4. /\ delivered \in Seq(Nat) /\ frameSize \in Nat /\ history \in Seq(Nat)
      /\ storage \in Seq(Nat) /\ frameCount \in Nat /\ encodedSize \in Nat /\ cursor \in Nat
  BY DEF IInv, TypeOK
<1>5. \E content \in Seq(Nat) : HashOf(hashed', content, Nat) BY <1>1 DEF IInv, Tracking
<1>6. ASSUME NEW consumed \in Nat, Fail("invalid", consumed, history), state' = state,
             frameCount' = frameCount
      PROVE  IInv'
  <2>1. Unwind("invalid", consumed, history) /\ status' = "failed" BY <1>6 DEF Fail
  <2>2. state' \in {"frame_header", "block_header", "block_payload", "frame_checksum"}
    BY <1>3, <1>6
  <2> QED BY <1>1, <1>2, <1>4, <1>5, <1>6, <2>1, <2>2, Unwound
<1>7. ASSUME wire[k].of = Digest(hashed), information.contentSize \in {UnknownSize, frameSize}
      PROVE  IInv'
  <2>1. /\ state' = "frame_header" /\ frameCount' = frameCount + 1
        /\ cursor' = Consumed(k) /\ history' = history
        /\ borrowed' = borrowed /\ capacity' = capacity /\ status' = status /\ call' = call
        /\ outcome' = outcome
    BY <1>1, <1>7 DEF CompleteFrame, Continue
  <2>2. Position' = PlaceBehind(wire, k)' /\ cursor' \in Nat BY <1>1, <2>1, Advances
  <2>3. TypeOK' BY <1>1, <1>4, <2>1, <2>2 DEF IInv, TypeOK
  <2>4. Regular' /\ Phases' BY <1>2, <2>1 DEF IInv, Phases, Regular
  <2>5. Inputs' BY <1>1, <2>1, InputsAdvance
  <2>6. history = LastOf(Retained, delivered) /\ frameSize <= Len(delivered)
    BY <1>2, <1>3, WindowIsRetained DEF IInv, Windows, Phases
  <2>7. Windows'
    <3>1. Retained' = Retained BY <1>1, <2>1 DEF Retained, HistoryLimit
    <3> QED BY <1>1, <2>1, <2>6, <3>1, WindowIsRetained DEF Windows
  <2>8. frameCount' # 0 /\ (frameCount' = 1 <=> frameCount = 0) BY <1>4, <2>1
  <2>9. frameCount = 0 => frameSize = Len(delivered) BY <1>2, <1>3 DEF IInv, Totals
  <2>10. Totals' BY <1>1, <2>1, <2>8, <2>9 DEF Totals
  <2>11. Storing'
    <3>1. call = "direct" /\ frameCount = 0 => storage = delivered
      <4> SUFFICES ASSUME call = "direct", frameCount = 0 PROVE storage = delivered
        OBVIOUS
      <4>1. storage = history BY <1>2, <1>3 DEF IInv, Storing
      <4>2. capacity # NotDirect BY DEF IInv, Phases
      <4>3. Retained = frameSize BY <4>2 DEF Retained
      <4>4. Len(delivered) \in 0..Len(delivered) BY <1>4
      <4>5. LastOf(Len(delivered), delivered) = delivered BY <1>4, <4>4, LastElements
      <4> QED BY <2>6, <2>9, <4>1, <4>3, <4>5
    <3>2. call # "direct" => storage = <<>> BY <1>2 DEF IInv, Storing
    <3> QED BY <1>1, <1>2, <2>1, <2>4, <2>8, <3>1, <3>2 DEF Storing
  <2>12. StateBehind(wire, k) = "frame_header" BY <1>3 DEF StateBehind
  <2>13. Sound(wire, k) BY <1>1, <1>3, <1>7 DEF Sound
  <2>14. \A i \in 1..k : i \in 1..(k - 1) \/ i = k BY <1>2
  <2>15. \A i \in 1..(k - 1) : i \in 1..k BY <1>2
  <2>16. ReadUpTo(k)'
    <3>1. \A i \in 1..k : Sound(wire, i) BY <1>2, <2>13, <2>14 DEF ReadUpTo
    <3>2. \E i \in 1..k : wire[i].kind = "header" BY <1>3, <2>15
    <3> QED BY <1>1, <2>1, <2>2, <2>8, <2>12, <3>1, <3>2 DEF ReadUpTo
  <2>17. k \in 0..Len(wire') BY <1>1, <1>2, StreamHeld DEF IInv
  <2>18. Tracking' BY <1>5, <2>16, <2>17 DEF Tracking
  <2> QED BY <2>3, <2>4, <2>5, <2>7, <2>10, <2>11, <2>18 DEF IInv
<1>8. CASE wire[k].of = Digest(hashed)
  <2>1. CASE information.contentSize \in {UnknownSize, frameSize} BY <1>7, <1>8, <2>1
  <2>2. CASE information.contentSize \notin {UnknownSize, frameSize}
    BY <1>1, <1>2, <1>6, <1>8, <2>2 DEF CompleteFrame
  <2> QED BY <2>1, <2>2
<1>9. CASE wire[k].of # Digest(hashed) BY <1>1, <1>4, <1>6, <1>9
<1> QED BY <1>8, <1>9

\* The callback throws.
LEMMA CallbackThrowsKeeps ==
  ASSUME IInv, NEW k \in DOMAIN wire, CallbackThrows(k)
  PROVE  IInv'
<1>1. /\ Reads(k) /\ wire[k].kind = "payload"
      /\ Unwind("callback", cursor, history \o wire[k].bytes)
      /\ wire' = wire /\ start' = start /\ received' = received /\ state' = state
      /\ block' = block /\ information' = information /\ hashed' = hashed
      /\ frameSize' = frameSize /\ storage' = storage /\ status' = status
      /\ frameCount' = frameCount /\ encodedSize' = encodedSize /\ delivered' = delivered
  BY DEF CallbackThrows, totals
<1>2. call # "none" /\ status \in {"ready", "active"} BY <1>1, PartRead
<1>3. wire[k].bytes \in Seq(Nat) BY <1>1, PayloadRead
<1>4. /\ history \o wire[k].bytes \in Seq(Nat) /\ cursor \in Nat /\ frameSize \in Nat
      /\ frameCount \in Nat /\ encodedSize \in Nat /\ storage \in Seq(Nat)
      /\ delivered \in Seq(Nat)
      /\ state \in {"frame_header", "block_header", "block_payload", "frame_checksum"}
  BY <1>3 DEF IInv, TypeOK
<1>5. \E content \in Seq(Nat) : HashOf(hashed', content, Nat) BY <1>1 DEF IInv, Tracking
<1> DEFINE bytes == history \o wire[k].bytes
<1>6. bytes \in Seq(Nat) /\ Unwind("callback", cursor, bytes) BY <1>1, <1>4
<1> HIDE DEF bytes
<1> QED BY <1>1, <1>2, <1>4, <1>5, <1>6, Unwound

\* The caller's storage is full.
LEMMA StorageFullKeeps ==
  ASSUME IInv, NEW k \in DOMAIN wire, StorageFull(k)
  PROVE  IInv'
<1>1. /\ Reads(k) /\ Unwind("storage", cursor, history)
      /\ status' \in {"failed", status}
      /\ wire' = wire /\ start' = start /\ received' = received /\ state' = state
      /\ block' = block /\ information' = information /\ hashed' = hashed
      /\ frameSize' = frameSize /\ storage' = storage
      /\ frameCount' = frameCount /\ encodedSize' = encodedSize /\ delivered' = delivered
  BY DEF StorageFull, totals
<1>2. call # "none" /\ status \in {"ready", "active"} BY <1>1, PartRead
<1>3. /\ history \in Seq(Nat) /\ cursor \in Nat /\ frameSize \in Nat
      /\ frameCount \in Nat /\ encodedSize \in Nat /\ storage \in Seq(Nat)
      /\ delivered \in Seq(Nat)
      /\ state \in {"frame_header", "block_header", "block_payload", "frame_checksum"}
  BY DEF IInv, TypeOK
<1>4. \E content \in Seq(Nat) : HashOf(hashed', content, Nat) BY <1>1 DEF IInv, Tracking
<1> QED BY <1>1, <1>2, <1>3, <1>4, Unwound

\* Bytes that no part of a frame may have.
LEMMA InvalidKeeps ==
  ASSUME IInv, NEW k \in DOMAIN wire, ParseInvalid(k)
  PROVE  IInv'
<1>1. /\ Reads(k) /\ Unwind("invalid", cursor, history) /\ status' = "failed"
      /\ wire' = wire /\ start' = start /\ received' = received /\ state' = state
      /\ block' = block /\ information' = information /\ hashed' = hashed
      /\ frameSize' = frameSize /\ storage' = storage
      /\ frameCount' = frameCount /\ encodedSize' = encodedSize /\ delivered' = delivered
  BY DEF ParseInvalid, Fail, totals
<1>2. call # "none" BY <1>1, PartRead
<1>3. /\ history \in Seq(Nat) /\ cursor \in Nat /\ frameSize \in Nat
      /\ frameCount \in Nat /\ encodedSize \in Nat /\ storage \in Seq(Nat)
      /\ delivered \in Seq(Nat)
      /\ state \in {"frame_header", "block_header", "block_payload", "frame_checksum"}
  BY DEF IInv, TypeOK
<1>4. \E content \in Seq(Nat) : HashOf(hashed', content, Nat) BY <1>1 DEF IInv, Tracking
<1> QED BY <1>1, <1>2, <1>3, <1>4, Unwound

----------------------------------------------------------------------------
(* The calls' returns.                                                     *)

\* What was consumed may be dropped: the parser stays where it is.
LEMMA Compacts ==
  ASSUME TypeOK, borrowed = <<>>, borrowed' = borrowed, received' = received, CompactInput
  PROVE  /\ start' \in Nat /\ cursor' \in Nat /\ start' + cursor' = start + cursor
         /\ start' + cursor' = received' => cursor' = 0
         /\ Position = start + cursor /\ Position' = Position /\ Source'[2] = Source[2]
         /\ Source[2] = received
<1>1. start \in Nat /\ cursor \in Nat /\ received \in Nat BY DEF TypeOK
<1>2. \/ start' = start + cursor /\ cursor' = 0
      \/ start' = start /\ cursor' = cursor /\ cursor # received - start
  BY DEF CompactInput
<1>3. start' \in Nat /\ cursor' \in Nat /\ start' + cursor' = start + cursor BY <1>1, <1>2
<1>4. start' + cursor' = received => cursor' = 0 BY <1>1, <1>2
<1>5. Source = <<start, received>> /\ Source' = <<start', received>> BY DEF Source
<1>6. Position = start + cursor /\ Position' = start' + cursor' BY <1>5 DEF Position
<1> QED BY <1>3, <1>4, <1>5, <1>6

\* update() returns.
LEMMA UpdateReturnsKeeps ==
  ASSUME IInv, UpdateReturns
  PROVE  IInv'
<1>1. /\ call = "update" /\ CompactInput /\ call' = "none" /\ outcome' = "done"
      /\ wire' = wire /\ received' = received /\ borrowed' = borrowed
      /\ state' = state /\ block' = block /\ information' = information /\ hashed' = hashed
      /\ frameSize' = frameSize /\ history' = history /\ storage' = storage
      /\ capacity' = capacity /\ frameCount' = frameCount /\ delivered' = delivered
      /\ encodedSize' = encodedSize /\ status' = status
  BY DEF UpdateReturns, frameVars, totals
<1>2. Regular /\ status \notin {"finished", "failed"} /\ capacity = NotDirect
  BY <1>1 DEF IInv, Phases
<1>3. borrowed = <<>> BY <1>1, <1>2 DEF IInv, Inputs
<1>4. /\ start' \in Nat /\ cursor' \in Nat
      /\ start' + cursor' = received' => cursor' = 0
      /\ Position' = Position /\ Source'[2] = Source[2]
  BY <1>1, <1>3, Compacts DEF IInv
<1>5. TypeOK' BY <1>1, <1>4 DEF IInv, TypeOK
<1>6. Regular' BY <1>1 DEF Regular
<1>7. Phases' BY <1>1, <1>2, <1>6 DEF Phases
<1>8. Inputs' BY <1>1, <1>2, <1>3, <1>4 DEF IInv, Inputs
<1>9. Windows'
  <2>1. Retained' = Retained BY <1>1 DEF Retained, HistoryLimit
  <2>2. history = LastOf(Retained, delivered)
    BY <1>1, <1>2, WindowIsRetained DEF IInv, Windows
  <2> QED BY <1>1, <1>2, <2>1, <2>2, WindowIsRetained DEF IInv, Windows
<1>10. Totals' BY <1>1, <1>2 DEF IInv, Totals
<1>11. Storing' BY <1>1, <1>2 DEF IInv, Storing
<1>12. Tracking' BY <1>1, <1>2, <1>4, TrackingKept
<1> QED BY <1>5, <1>7, <1>8, <1>9, <1>10, <1>11, <1>12 DEF IInv

\* finish() returns: the stream was whole, or it was not.
LEMMA FinishReturnsKeeps ==
  ASSUME IInv, FinishReturns
  PROVE  IInv'
<1>1. /\ call = "finish" /\ CompactInput /\ call' = "none"
      /\ status' = IF Complete THEN "finished" ELSE "failed"
      /\ outcome' = IF Complete THEN "done" ELSE "truncated"
      /\ wire' = wire /\ received' = received /\ borrowed' = borrowed
      /\ state' = state /\ block' = block /\ information' = information /\ hashed' = hashed
      /\ frameSize' = frameSize /\ history' = history /\ storage' = storage
      /\ capacity' = capacity /\ frameCount' = frameCount /\ delivered' = delivered
      /\ encodedSize' = encodedSize
  BY DEF FinishReturns, frameVars, totals
<1>2. Regular /\ status \notin {"finished", "failed"} /\ capacity = NotDirect
  BY <1>1 DEF IInv, Phases
<1>3. borrowed = <<>> BY <1>1, <1>2 DEF IInv, Inputs
<1>4. /\ start' \in Nat /\ cursor' \in Nat /\ start' + cursor' = start + cursor
      /\ start' + cursor' = received' => cursor' = 0
      /\ Position = start + cursor /\ Source[2] = received
  BY <1>1, <1>3, Compacts DEF IInv
<1>5. TypeOK' BY <1>1, <1>4 DEF IInv, TypeOK
<1>6. Complete <=> Regular' BY <1>1 DEF Regular
<1>7. Phases' BY <1>1, <1>2, <1>6 DEF Phases
<1>8. Inputs'
  <2>1. Complete => start + cursor = received
    <3>1. Available = received - (start + cursor) BY <1>4 DEF Available
    <3>2. start + cursor \in Nat /\ received \in Nat BY DEF IInv, TypeOK
    <3>3. Complete => Available = 0 BY DEF Complete
    <3> HIDE DEF Complete
    <3> QED BY <3>1, <3>2, <3>3
  <2>2. status' = "finished" <=> Complete BY <1>1
  <2> QED BY <1>1, <1>3, <1>4, <1>6, <2>1, <2>2 DEF Inputs
<1>9. Windows'
  <2>1. Retained' = Retained BY <1>1 DEF Retained, HistoryLimit
  <2>2. history = LastOf(Retained, delivered)
    BY <1>1, <1>2, WindowIsRetained DEF IInv, Windows
  <2> QED BY <1>1, <1>2, <2>1, <2>2, WindowIsRetained DEF IInv, Windows
<1>10. Totals' BY <1>1, <1>2 DEF IInv, Totals
<1>11. Storing' BY <1>1, <1>2 DEF IInv, Storing
<1>12. Tracking'
  <2>1. \E content \in Seq(Nat) : HashOf(hashed', content, Nat) BY <1>1 DEF IInv, Tracking
  <2> QED BY <1>1, <1>6, <2>1 DEF Tracking
<1> QED BY <1>5, <1>7, <1>8, <1>9, <1>10, <1>11, <1>12 DEF IInv

\* decompress_frame() returns.
LEMMA FrameReturnsKeeps ==
  ASSUME IInv, FrameReturns
  PROVE  IInv'
<1>1. /\ call = "frame"
      /\ IF Complete
         THEN /\ status' = "finished" /\ outcome' = "done" /\ call' = "none"
              /\ borrowed' = <<>> /\ cursor' = 0
              /\ history' = history /\ capacity' = capacity
         ELSE Unwind("truncated", cursor, history) /\ status' = "failed"
      /\ wire' = wire /\ start' = start /\ received' = received
      /\ state' = state /\ block' = block /\ information' = information /\ hashed' = hashed
      /\ frameSize' = frameSize /\ storage' = storage
      /\ frameCount' = frameCount /\ delivered' = delivered /\ encodedSize' = encodedSize
  BY DEF FrameReturns, Fail, totals
<1>2. Regular /\ status \notin {"finished", "failed"} /\ capacity = NotDirect
  BY <1>1 DEF IInv, Phases
<1>3. start = received BY <1>1 DEF IInv, Inputs
<1>4. /\ history \in Seq(Nat) /\ cursor \in Nat /\ frameSize \in Nat /\ received \in Nat
      /\ frameCount \in Nat /\ encodedSize \in Nat /\ storage \in Seq(Nat)
      /\ delivered \in Seq(Nat)
      /\ state \in {"frame_header", "block_header", "block_payload", "frame_checksum"}
  BY DEF IInv, TypeOK
<1>5. \E content \in Seq(Nat) : HashOf(hashed', content, Nat) BY <1>1 DEF IInv, Tracking
<1>6. CASE ~Complete BY <1>1, <1>4, <1>5, <1>6, Unwound
<1>7. CASE Complete
  <2>1. TypeOK' BY <1>1, <1>7 DEF IInv, TypeOK
  <2>2. Regular' BY <1>1, <1>7 DEF Regular
  <2>3. Phases' BY <1>1, <1>2, <1>7 DEF Phases
  <2>4. Inputs' BY <1>1, <1>3, <1>4, <1>7 DEF Inputs
  <2>5. Windows'
    <3>1. Retained' = Retained BY <1>1, <1>7 DEF Retained, HistoryLimit
    <3>2. history = LastOf(Retained, delivered)
      BY <1>1, <1>2, WindowIsRetained DEF IInv, Windows
    <3> QED BY <1>1, <1>2, <1>7, <3>1, <3>2, WindowIsRetained DEF IInv, Windows
  <2>6. Totals' BY <1>1, <1>2, <1>7 DEF IInv, Totals
  <2>7. Storing' BY <1>1, <1>2, <1>7 DEF IInv, Storing
  <2>8. Tracking' BY <1>1, <1>5, <1>7 DEF Tracking
  <2> QED BY <2>1, <2>3, <2>4, <2>5, <2>6, <2>7, <2>8 DEF IInv
<1> QED BY <1>6, <1>7

\* decompress_frame() into the caller's storage returns.
LEMMA DirectReturnsKeeps ==
  ASSUME IInv, DirectReturns
  PROVE  IInv'
<1>1. /\ call = "direct"
      /\ IF Complete
         THEN /\ status' = "finished"
              /\ Unwind(IF Len(delivered) = capacity THEN "done" ELSE "size", 0, <<>>)
         ELSE Unwind("truncated", 0, <<>>) /\ status' = "failed"
      /\ wire' = wire /\ start' = start /\ received' = received
      /\ state' = state /\ block' = block /\ information' = information /\ hashed' = hashed
      /\ frameSize' = frameSize /\ storage' = storage
      /\ frameCount' = frameCount /\ delivered' = delivered /\ encodedSize' = encodedSize
  BY DEF DirectReturns, Fail, totals
<1>2. Regular /\ status \notin {"finished", "failed"} /\ capacity # NotDirect
  BY <1>1 DEF IInv, Phases
<1>3. start = received BY <1>1 DEF IInv, Inputs
<1>4. /\ frameSize \in Nat /\ received \in Nat
      /\ frameCount \in Nat /\ encodedSize \in Nat /\ storage \in Seq(Nat)
      /\ delivered \in Seq(Nat) /\ <<>> \in Seq(Nat)
      /\ state \in {"frame_header", "block_header", "block_payload", "frame_checksum"}
  BY DEF IInv, TypeOK
<1>5. \E content \in Seq(Nat) : HashOf(hashed', content, Nat) BY <1>1 DEF IInv, Tracking
<1>6. CASE ~Complete
  <2> DEFINE o == 0
  <2>1. Unwind("truncated", o, <<>>) /\ o \in Nat BY <1>1, <1>6
  <2> HIDE DEF o
  <2> QED BY <1>1, <1>4, <1>5, <1>6, <2>1, Unwound
<1>7. CASE Complete
  <2>1. /\ status' = "finished" /\ call' = "none" /\ outcome' \in {"done", "size"}
        /\ borrowed' = <<>> /\ cursor' = 0 /\ history' = <<>> /\ capacity' = NotDirect
    BY <1>1, <1>2, <1>7 DEF Unwind
  <2>2. TypeOK' BY <1>1, <1>4, <2>1 DEF IInv, TypeOK
  <2>3. Phases' BY <2>1 DEF Phases
  <2>4. Inputs' BY <1>1, <1>3, <1>4, <2>1 DEF Inputs
  <2>5. Windows' BY <1>1, <1>2, <2>1, WindowIsRetained DEF IInv, Windows
  <2>6. Totals' BY <1>1, <1>2 DEF IInv, Totals
  <2>7. Storing'
    <3>1. state = "frame_header" BY <1>7 DEF Complete
    <3>2. frameCount = 1 => storage \in {<<>>, delivered} BY <1>1, <1>2, <3>1 DEF IInv, Storing
    <3> QED BY <1>1, <2>1, <3>2 DEF Storing
  <2>8. Tracking' BY <1>5, <2>1 DEF Tracking
  <2> QED BY <2>2, <2>3, <2>4, <2>5, <2>6, <2>7, <2>8 DEF IInv
<1> QED BY <1>6, <1>7

\* A step that leaves the decoder alone.
LEMMA StutterKeeps ==
  ASSUME IInv, UNCHANGED vars
  PROVE  IInv'
<1>1. /\ wire' = wire /\ start' = start /\ received' = received /\ borrowed' = borrowed
      /\ cursor' = cursor /\ state' = state /\ block' = block /\ information' = information
      /\ hashed' = hashed /\ frameSize' = frameSize /\ history' = history
      /\ storage' = storage /\ capacity' = capacity /\ status' = status
      /\ frameCount' = frameCount /\ encodedSize' = encodedSize /\ delivered' = delivered
      /\ call' = call /\ outcome' = outcome
  BY DEF vars, inputVars, frameVars, totals
<1>2. TypeOK' BY <1>1 DEF IInv, TypeOK
<1>3. Regular' = Regular /\ Position' = Position /\ Source' = Source
  BY <1>1 DEF Regular, Position, Source
<1>4. Phases' BY <1>1, <1>3 DEF IInv, Phases
<1>5. Inputs' BY <1>1, <1>3 DEF IInv, Inputs
<1>6. Windows'
  <2>1. Retained' = Retained BY <1>1 DEF Retained, HistoryLimit
  <2> QED BY <1>1, <1>3, <2>1, WindowIsRetained DEF IInv, Windows
<1>7. Totals' BY <1>1, <1>3 DEF IInv, Totals
<1>8. Storing' BY <1>1, <1>3 DEF IInv, Storing
<1>9. Tracking' BY <1>1, <1>3, TrackingKept
<1> QED BY <1>2, <1>4, <1>5, <1>6, <1>7, <1>8, <1>9 DEF IInv

\* Every step keeps the invariant.
LEMMA NextKeeps ==
  ASSUME IInv, [Next]_vars
  PROVE  IInv'
<1>1. CASE Client
  <2>1. ASSUME NEW to \in 1..EncodedLength(wire), Update(to) PROVE IInv'
    BY <2>1, UpdateKeeps
  <2>2. ASSUME NEW to \in 1..EncodedLength(wire), DecompressFrame(to) PROVE IInv'
    BY <2>2, DecompressFrameKeeps
  <2>3. ASSUME NEW to \in 1..EncodedLength(wire), NEW size \in Capacities,
               DecompressInto(to, size)
        PROVE  IInv'
    BY <2>3, DecompressIntoKeeps
  <2>4. CASE Finish BY <2>4, FinishKeeps
  <2>5. CASE Reset BY <2>5, ResetKeeps
  <2> QED BY <1>1, <2>1, <2>2, <2>3, <2>4, <2>5 DEF Client
<1>2. CASE Parse
  <2>1. PICK k \in DOMAIN wire :
          \/ ParseSkippable(k) \/ ParseFrameHeader(k) \/ ParseBlockHeader(k)
          \/ ParseBlockPayload(k) \/ CallbackThrows(k) \/ StorageFull(k)
          \/ ParseFrameChecksum(k) \/ ParseInvalid(k)
    BY <1>2 DEF Parse
  <2>2. CASE ParseSkippable(k) BY <2>2, SkippableKeeps
  <2>3. CASE ParseFrameHeader(k) BY <2>3, FrameHeaderKeeps
  <2>4. CASE ParseBlockHeader(k) BY <2>4, BlockHeaderKeeps
  <2>5. CASE ParseBlockPayload(k) BY <2>5, PayloadKeeps
  <2>6. CASE CallbackThrows(k) BY <2>6, CallbackThrowsKeeps
  <2>7. CASE StorageFull(k) BY <2>7, StorageFullKeeps
  <2>8. CASE ParseFrameChecksum(k) BY <2>8, ChecksumKeeps
  <2>9. CASE ParseInvalid(k) BY <2>9, InvalidKeeps
  <2> QED BY <2>1, <2>2, <2>3, <2>4, <2>5, <2>6, <2>7, <2>8, <2>9
<1>3. CASE Returns
  BY <1>3, UpdateReturnsKeeps, FinishReturnsKeeps, FrameReturnsKeeps, DirectReturnsKeeps
     DEF Returns
<1>4. CASE UNCHANGED vars BY <1>4, StutterKeeps
<1> QED BY <1>1, <1>2, <1>3, <1>4 DEF Next

\* The invariant holds in every state.
THEOREM Invariance == Spec => []IInv
<1>1. Init => IInv BY InitHolds
<1>2. IInv /\ [Next]_vars => IInv' BY NextKeeps
<1> QED BY <1>1, <1>2, PTL DEF Spec

\* Whatever the blocks and the pauses between calls, the history that a match
\* may refer to is the end of the frame's content, a window long.
THEOREM HistoryIsTheWindow == Spec => []WindowRetained
<1>1. IInv => WindowRetained BY DEF IInv, Windows
<1> QED BY <1>1, Invariance, PTL

\* After decompress_frame() into storage, the storage holds the content of a
\* single frame, and however a call ends it is given back.
THEOREM StorageIsTheFrame == Spec => []StorageHoldsFrame
<1>1. ASSUME IInv PROVE StorageHoldsFrame
  <2>1. call = "none" => capacity = NotDirect BY <1>1 DEF IInv, Phases
  <2>2. status = "finished" /\ outcome = "done" /\ frameCount = 1 /\ storage # <<>> =>
          storage = delivered
    BY <1>1 DEF IInv, Storing, Regular
  <2> QED BY <2>1, <2>2 DEF StorageHoldsFrame
<1>2. IInv => StorageHoldsFrame BY <1>1
<1> QED BY <1>2, Invariance, PTL

\* No byte that was handed over is left unread in a finished stream.
THEOREM NothingIsLeftUnread == Spec => []FinishedHasReadAll
<1>1. IInv => FinishedHasReadAll BY DEF IInv, Inputs, FinishedHasReadAll
<1> QED BY <1>1, Invariance, PTL

----------------------------------------------------------------------------
(* The decoder implements FrameReader.                                     *)

\* A later part ends no sooner.
LEMMA EndsAreOrdered ==
  ASSUME NEW w, IsStream(w), NEW a \in 1..Len(w), NEW b \in 1..Len(w), a <= b
  PROVE  /\ EndOf(w[a]) \in Nat /\ EndOf(w[b]) \in Nat
         /\ EndOf(w[a]) <= EndOf(w[b])
<1>1. /\ Len(w) \in Nat
      /\ \A k \in 1..Len(w) : w[k].at \in Nat /\ w[k].length \in Nat
  BY StreamFields, PartFields
<1>2. EndOf(w[a]) \in Nat /\ EndOf(w[b]) \in Nat BY <1>1 DEF EndOf
<1>3. CASE a = b BY <1>2, <1>3
<1>4. CASE a < b
  <2>1. w[b].at >= EndOf(w[a]) BY <1>4, PartsAreOrdered
  <2>2. EndOf(w[b]) = w[b].at + w[b].length BY DEF EndOf
  <2> QED BY <1>1, <1>2, <2>1, <2>2
<1> QED BY <1>1, <1>3, <1>4

\* parse() has returned: the part behind the last one read is not all there.
LEMMA NextIsMissing ==
  ASSUME IInv, call # "none", Starved, NEW j \in 0..Len(wire), ReadUpTo(j),
         j + 1 \in 1..Len(wire)
  PROVE  EndOf(wire[j + 1]) > Source[2]
<1>1. /\ IsStream(wire) /\ Len(wire) \in Nat /\ DOMAIN wire = 1..Len(wire)
      /\ Source[1] \in Nat /\ Source[2] \in Nat /\ cursor \in Nat
      /\ Position = Source[1] + cursor /\ Available = Source[2] - Position
  BY StreamHeld DEF IInv, TypeOK
<1> DEFINE k == j + 1
<1>2. k \in 1..Len(wire) /\ k - 1 = j OBVIOUS
<1>3. wire[k].at = PlaceBehind(wire, j) /\ wire[k].kind \in KindsBehind(wire, j)
  BY <1>1, <1>2, StreamFields
<1>4. wire[k].at \in Nat /\ wire[k].length \in Nat BY <1>1, <1>2, StreamFields, PartFields
<1>5. Position = PlaceBehind(wire, j) /\ state = StateBehind(wire, j)
      /\ \A i \in 1..j : Sound(wire, i)
  BY DEF ReadUpTo
<1>6. KindsBehind(wire, j) = KindRead[state] \cup {"invalid"}
  <2>1. j # 0 => wire[j].kind \in {"skippable", "header", "block", "payload", "checksum"}
    <3> SUFFICES ASSUME j # 0
                 PROVE  wire[j].kind \in {"skippable", "header", "block", "payload", "checksum"}
      OBVIOUS
    <3>1. j \in 1..Len(wire) /\ j \in 1..j BY <1>1
    <3>2. wire[j].kind # "invalid" BY <3>1, <1>5 DEF Sound
    <3> QED BY <3>1, <3>2, <1>1, StreamFields, PartFields
  <2> QED BY <1>1, <1>5, <2>1, KindsAreRead
<1> HIDE DEF k
<1>7. ~Reads(k) BY <1>1, <1>2 DEF Starved
<1>8. SUFFICES ASSUME EndOf(wire[k]) <= Source[2] PROVE FALSE
  <2>1. EndOf(wire[k]) \in Nat BY <1>4, SMTT(30) DEF EndOf
  <2> DEFINE e == EndOf(wire[k])
             n == Source[2]
  <2>2. e \in Nat /\ n \in Nat BY <1>1, <2>1
  <2>3. ~(e <= n)  => e > n
    <3> HIDE DEF e, n
    <3> QED BY <2>2
  <2> QED BY <2>3 DEF k
<1>9. wire[k].length <= Available
  <2>1. EndOf(wire[k]) = Position + wire[k].length BY <1>3, <1>5 DEF EndOf
  <2>2. Position \in Nat BY <1>1
  <2> DEFINE l == wire[k].length
             n == Source[2]
             p == Position
  <2>3. p + l <= n BY <1>8, <2>1
  <2>4. p \in Nat /\ l \in Nat /\ n \in Nat /\ Available = n - p BY <1>1, <1>4, <2>2
  <2> HIDE DEF l, n, p
  <2>5. l <= Available BY <2>3, <2>4
  <2> QED BY <2>5 DEF l
<1>10. wire[k].kind \notin KindRead[state] BY <1>3, <1>5, <1>7, <1>9 DEF Reads
<1>11. wire[k].kind = "invalid" BY <1>3, <1>6, <1>10
<1>12. PICK i \in 1..(k - 1) : wire[i].at = Position /\ wire[i].kind \in KindRead[state]
  BY <1>3, <1>5, <1>7, <1>9, <1>11 DEF Reads
<1>13. i \in 1..Len(wire) /\ i # j + 1 /\ i # j + 2 BY <1>1, <1>2, <1>12
<1>14. i = j /\ wire[j].kind = "payload" BY <1>1, <1>5, <1>12, <1>13, SamePlace, SMTT(30)
<1>15. state # "block_payload"
  <2>1. wire[j].kind # "skippable" /\ wire[j].kind # "header" /\ wire[j].kind # "block"
    BY <1>14
  <2> QED BY <1>5, <1>14, <2>1 DEF StateBehind
<1>16. state \in {"frame_header", "block_header", "block_payload", "frame_checksum"}
  BY DEF IInv, TypeOK
<1> QED BY <1>12, <1>14, <1>15, <1>16 DEF KindRead

\* Then nothing but what was read already could be read, and the decoder's test
\* says whether the stream is whole.
LEMMA StarvedMeans ==
  ASSUME IInv, call # "none", Starved
  PROVE  /\ \A k \in DOMAIN wire :
              wire[k].at = Position /\ EndOf(wire[k]) <= Source[2] =>
                Sound(wire, k) /\ wire[k].length = 0
         /\ Complete <=> CompleteAt(wire, Source[2])
         /\ encodedSize = Source[2]
<1>1. /\ IsStream(wire) /\ Len(wire) \in Nat /\ DOMAIN wire = 1..Len(wire)
      /\ Source[1] \in Nat /\ Source[2] \in Nat /\ cursor \in Nat
      /\ Position = Source[1] + cursor /\ Available = Source[2] - Position
  BY StreamHeld DEF IInv, TypeOK
<1>2. Position \in Nat /\ Position <= Source[2] /\ encodedSize = Source[2]
  BY <1>1 DEF IInv, Inputs, Phases
<1>3. PICK j \in 0..Len(wire) : ReadUpTo(j) BY DEF IInv, Tracking, Phases
<1>4. Position = PlaceBehind(wire, j) /\ state = StateBehind(wire, j)
      /\ \A i \in 1..j : Sound(wire, i)
  BY <1>3 DEF ReadUpTo
<1>5. j + 1 \in 1..Len(wire) => EndOf(wire[j + 1]) > Source[2] BY <1>3, NextIsMissing
<1>6. \A i \in 1..Len(wire) : wire[i].at \in Nat /\ wire[i].length \in Nat
  BY <1>1, StreamFields, PartFields
<1>7. ASSUME NEW k \in DOMAIN wire, wire[k].at = Position, EndOf(wire[k]) <= Source[2]
      PROVE  Sound(wire, k) /\ wire[k].length = 0
  <2>1. k \in 1..Len(wire) BY <1>1
  <2>2. ~(k = j + 1)
    <3> SUFFICES ASSUME k = j + 1 PROVE FALSE OBVIOUS
    <3>1. EndOf(wire[k]) > Source[2] BY <1>5, <2>1
    <3>2. EndOf(wire[k]) \in Nat BY <1>6, <2>1 DEF EndOf
    <3> QED BY <1>1, <1>7, <3>1, <3>2
  <2>3. ~(/\ k = j + 2 /\ wire[j + 1].length = 0 /\ wire[j + 1].at = PlaceBehind(wire, j))
    <3> SUFFICES ASSUME k = j + 2, wire[j + 1].length = 0,
                        wire[j + 1].at = PlaceBehind(wire, j)
                 PROVE FALSE
      OBVIOUS
    <3>1. j + 1 \in 1..Len(wire) BY <1>1, <2>1
    <3>2. EndOf(wire[j + 1]) = Position BY <1>2, <1>4 DEF EndOf
    <3>3. EndOf(wire[j + 1]) > Source[2] BY <1>5, <3>1
    <3> QED BY <1>1, <1>2, <3>2, <3>3
  <2>4. k = j /\ wire[j].length = 0
    <3>1. wire[k].at = PlaceBehind(wire, j) BY <1>4, <1>7
    <3>2. \/ k = j + 1
          \/ k = j + 2 /\ wire[j + 1].kind = "payload" /\ wire[j + 1].length = 0
                       /\ wire[j + 1].at = PlaceBehind(wire, j)
          \/ k = j /\ wire[j].kind = "payload" /\ wire[j].length = 0
      BY <1>1, <2>1, <3>1, SamePlace
    <3> QED BY <2>2, <2>3, <3>2
  <2>5. k \in 1..j BY <2>1, <2>4
  <2> QED BY <1>4, <2>4, <2>5
<1>8. ASSUME NEW k \in 1..Len(wire), EndOf(wire[k]) <= Source[2] PROVE k \in 1..j
  <2> SUFFICES ASSUME k > j PROVE FALSE BY <1>1
  <2>1. j + 1 \in 1..Len(wire) /\ j + 1 <= k BY <1>1
  <2>2. EndOf(wire[j + 1]) <= EndOf(wire[k]) /\ EndOf(wire[j + 1]) \in Nat
        /\ EndOf(wire[k]) \in Nat
    BY <1>1, <2>1, EndsAreOrdered
  <2>3. EndOf(wire[j + 1]) > Source[2] BY <1>5, <2>1
  <2> QED BY <1>1, <1>8, <2>2, <2>3
<1>9. ASSUME NEW k \in 1..j
      PROVE  k \in 1..Len(wire) /\ j \in 1..Len(wire) /\ EndOf(wire[k]) <= Position
             /\ EndOf(wire[j]) = Position /\ EndOf(wire[k]) \in Nat
  <2>1. k \in 1..Len(wire) /\ j \in 1..Len(wire) /\ k <= j /\ j # 0 BY <1>1
  <2>2. EndOf(wire[k]) <= EndOf(wire[j]) /\ EndOf(wire[k]) \in Nat BY <1>1, <2>1, EndsAreOrdered
  <2> QED BY <1>4, <2>1, <2>2 DEF PlaceBehind
<1>10. frameCount = 0 /\ state = "frame_header" <=> \A i \in 1..j : wire[i].kind # "header"
  BY <1>3 DEF ReadUpTo
<1>11. ASSUME Complete PROVE CompleteAt(wire, Source[2])
  <2>1. state = "frame_header" /\ Available = 0 /\ frameCount # 0 BY <1>11 DEF Complete
  <2>2. Position = Source[2] BY <1>1, <1>2, <2>1
  <2>3. PICK i \in 1..j : wire[i].kind = "header" BY <1>10, <2>1
  <2>4. i \in DOMAIN wire /\ EndOf(wire[i]) <= Source[2] /\ j \in DOMAIN wire
        /\ EndOf(wire[j]) = Source[2]
    BY <1>1, <1>9, <2>2
  <2>5. wire[j].kind = "skippable" \/ EndsFrame(wire, j)
    <3>1. j # 0 BY <1>1, <2>3
    <3>2. wire[j].kind \in {"skippable", "invalid", "header", "block", "payload", "checksum"}
      BY <1>1, <2>4, StreamFields, PartFields
    <3>3. j \in 1..j BY <1>1, <3>1
    <3>4. wire[j].kind # "invalid" BY <1>4, <3>3 DEF Sound
    <3> SUFFICES ASSUME wire[j].kind # "skippable", ~EndsFrame(wire, j) PROVE FALSE OBVIOUS
    <3>5. wire[j].kind # "checksum" BY DEF EndsFrame
    <3>6. CASE wire[j].kind = "header" BY <1>4, <2>1, <3>1, <3>6 DEF StateBehind
    <3>7. CASE wire[j].kind = "block" BY <1>4, <2>1, <3>1, <3>7 DEF StateBehind
    <3>8. CASE wire[j].kind = "payload" BY <1>4, <2>1, <3>1, <3>8 DEF StateBehind
    <3> QED BY <3>2, <3>4, <3>5, <3>6, <3>7, <3>8
  <2> QED BY <2>3, <2>4, <2>5 DEF CompleteAt
<1>12. ASSUME CompleteAt(wire, Source[2]) PROVE Complete
  <2>1. PICK g \in DOMAIN wire : wire[g].kind = "header" /\ EndOf(wire[g]) <= Source[2]
    BY <1>12 DEF CompleteAt
  <2>2. PICK e \in DOMAIN wire : /\ EndOf(wire[e]) = Source[2]
                                 /\ wire[e].kind = "skippable" \/ EndsFrame(wire, e)
    BY <1>12 DEF CompleteAt
  <2>3. g \in 1..j BY <1>1, <1>8, <2>1
  <2>4. ~(frameCount = 0 /\ state = "frame_header") BY <1>10, <2>1, <2>3
  <2>5. e \in 1..j BY <1>1, <1>8, <2>2
  <2>6. Position = Source[2] BY <1>1, <1>2, <1>9, <2>2, <2>5
  <2>7. Available = 0 BY <1>1, <1>2, <2>6
  <2>8. e = j
    <3> SUFFICES ASSUME e < j PROVE FALSE BY <1>1, <2>5
    <3>1. e \in 1..Len(wire) /\ j \in 1..Len(wire) /\ EndOf(wire[j]) = Position
      BY <1>9, <2>5
    <3>2. wire[j].at >= EndOf(wire[e]) BY <1>1, <3>1, PartsAreOrdered
    <3>3. wire[j].at >= Position BY <2>2, <2>6, <3>2
    <3>4. wire[j].length = 0 /\ wire[j].at = Position
      <4>1. Position = wire[j].at + wire[j].length BY <3>1 DEF EndOf
      <4> QED BY <1>2, <1>6, <3>1, <3>3, <4>1
    <3>5. wire[j].kind = "payload" BY <1>1, <3>1, <3>4, StreamFields
    <3>6. j - 1 \in 1..Len(wire) /\ wire[j - 1].kind = "block"
      BY <1>1, <3>1, <3>5, PayloadNeighbours
    <3>7. wire[j].at = EndOf(wire[j - 1])
      <4>1. wire[j].at = PlaceBehind(wire, j - 1) BY <1>1, <3>1, StreamFields
      <4>2. j - 1 # 0 BY <1>1, <3>6
      <4> QED BY <4>1, <4>2 DEF PlaceBehind
    <3>8. e # j - 1
      <4>1. ~(wire[j - 1].kind = "skippable" \/ EndsFrame(wire, j - 1))
        BY <3>6 DEF EndsFrame
      <4> QED BY <2>2, <4>1
    <3>9. e < j - 1
      <4>1. e \in Nat /\ j \in Nat BY <1>1
      <4> QED BY <3>8, <4>1
    <3>10. wire[j - 1].at >= EndOf(wire[e]) BY <1>1, <3>1, <3>6, <3>9, PartsAreOrdered
    <3>11. wire[j - 1].length # 0
      <4>1. wire[j - 1].length = 0 => wire[j - 1].kind = "payload" BY <1>1, <3>6, StreamFields
      <4> QED BY <3>6, <4>1
    <3>12. Position = wire[j - 1].at + wire[j - 1].length BY <3>4, <3>7 DEF EndOf
    <3>13. wire[j - 1].at >= Position BY <2>2, <2>6, <3>10
    <3>14. wire[j - 1].at \in Nat /\ wire[j - 1].length \in Nat BY <1>6, <3>6
    <3> QED BY <1>2, <3>11, <3>12, <3>13, <3>14, SMTT(30)
  <2>9. state = "frame_header" BY <1>4, <2>2, <2>8 DEF StateBehind
  <2> QED BY <2>4, <2>7, <2>9 DEF Complete
<1> QED BY <1>2, <1>7, <1>11, <1>12

\* FrameReader knows the format by the same definitions.
LEMMA ReaderFormat ==
  /\ \A p : Reader!BytesOf(p) = BytesOf(p) /\ Reader!EndOf(p) = EndOf(p)
  /\ \A w : Reader!EncodedLength(w) = EncodedLength(w)
  /\ \A w, k : Reader!Sound(w, k) <=> Sound(w, k)
  /\ \A w, n : Reader!CompleteAt(w, n) <=> CompleteAt(w, n)
<1>1. \A p : Reader!BytesOf(p) = BytesOf(p) /\ Reader!EndOf(p) = EndOf(p)
  BY DEF BytesOf, Reader!BytesOf, EndOf, Reader!EndOf
<1>2. \A w : Reader!EncodedLength(w) = EncodedLength(w)
  BY <1>1 DEF EncodedLength, Reader!EncodedLength, Last, Reader!Last
<1>3. \A p : Reader!FlattenSeq(p) = FlattenSeq(p)
  BY DEF FlattenSeq, Reader!FlattenSeq
<1>4. \A w, h, k : Reader!ContentOf(w, h, k) = ContentOf(w, h, k)
  BY <1>1, <1>3 DEF ContentOf, Reader!ContentOf
<1>5. \A w, k : Reader!HeaderOf(w, k) = HeaderOf(w, k)
  BY DEF HeaderOf, Reader!HeaderOf
<1>6. \A c : Reader!DigestOf(c) = DigestOf(c)
  <2>1. \A h, i : Reader!Updated(h, i) = Updated(h, i)
    BY DEF Updated, Reader!Updated, Filled, Reader!Filled, Waits, Reader!Waits
  <2>2. \A h : Reader!Digest(h) = Digest(h)
    BY DEF Digest, Reader!Digest, Words, Reader!Words
  <2>3. Reader!Fresh = Fresh BY DEF Fresh, Reader!Fresh, NoByte, Reader!NoByte
  <2> QED BY <2>1, <2>2, <2>3 DEF DigestOf, Reader!DigestOf
<1>7. \A w, k : Reader!EndsFrame(w, k) <=> EndsFrame(w, k)
  BY <1>5 DEF EndsFrame, Reader!EndsFrame
<1>8. Reader!UnknownSize = UnknownSize BY DEF UnknownSize, Reader!UnknownSize
<1>9. \A w, k : Reader!Sound(w, k) <=> Sound(w, k)
  BY <1>4, <1>5, <1>6, <1>7, <1>8 DEF Sound, Reader!Sound
<1>10. \A w, n : Reader!CompleteAt(w, n) <=> CompleteAt(w, n)
  BY <1>1, <1>7 DEF CompleteAt, Reader!CompleteAt
<1> QED BY <1>1, <1>2, <1>9, <1>10

\* The verdict on a stream.
LEMMA Verdicts ==
  ASSUME IInv
  PROVE  /\ Verdict = "open" <=> Regular /\ status # "finished"
         /\ call # "none" => Verdict = "open"
<1>1. outcome \in {"none", "done", "truncated", "invalid", "callback", "storage", "size"}
  BY DEF IInv, TypeOK
<1>2. Verdict = "open" <=> Regular /\ status # "finished"
  <2>1. CASE Regular BY <2>1 DEF Verdict, Regular
  <2>2. CASE ~Regular BY <1>1, <2>2 DEF Verdict, Regular
  <2> QED BY <2>1, <2>2
<1> QED BY <1>2 DEF IInv, Phases

\* A step that FrameReader does not see.
LEMMA ReaderStutters ==
  ASSUME UNCHANGED <<wire, encodedSize, delivered, status, outcome>>, Position' = Position
  PROVE  UNCHANGED Reader!vars
<1>1. Verdict' = Verdict BY DEF Verdict
<1> QED BY <1>1 DEF Reader!vars

\* The client hands over more.
LEMMA ReaderGives ==
  ASSUME IInv, Verdict = "open", Verdict' = "open", Position' = Position,
         encodedSize' \in (encodedSize + 1)..EncodedLength(wire),
         UNCHANGED <<wire, delivered>>
  PROVE  Reader!Next
BY ReaderFormat DEF Reader!Next, Reader!Give

\* A part that was read and is sound.
LEMMA ReaderTakes ==
  ASSUME IInv, NEW k \in DOMAIN wire, Reads(k), Sound(wire, k),
         cursor' = Consumed(k), delivered' = delivered \o BytesOf(wire[k]),
         UNCHANGED <<wire, start, received, borrowed, encodedSize, status, outcome>>
  PROVE  Reader!Next
<1>1. /\ call # "none" /\ Regular /\ status \in {"ready", "active"}
      /\ Position = wire[k].at /\ EndOf(wire[k]) <= Source[2] /\ ReadUpTo(k - 1)
  BY PartRead
<1>2. Verdict = "open" /\ Verdict' = "open" BY <1>1 DEF Verdict, Regular
<1>3. encodedSize = Source[2] BY <1>1 DEF IInv, Inputs
<1>4. \A i \in 1..(k - 1) : Sound(wire, i) BY <1>1 DEF ReadUpTo
<1>5. Position' = EndOf(wire[k]) BY Advances
<1>6. Reader!IsNext(k) BY <1>1, <1>2, <1>3, <1>4, ReaderFormat DEF Reader!IsNext
<1> QED BY <1>2, <1>5, <1>6, ReaderFormat DEF Reader!Next, Reader!Take

\* A part that was read and is not sound.
LEMMA ReaderRejects ==
  ASSUME IInv, NEW k \in DOMAIN wire, Reads(k), ~Sound(wire, k),
         delivered' = delivered \o BytesOf(wire[k]), outcome' = "invalid",
         UNCHANGED <<wire, encodedSize>>
  PROVE  Reader!Next
<1>1. /\ call # "none" /\ Regular /\ status \in {"ready", "active"}
      /\ Position = wire[k].at /\ EndOf(wire[k]) <= Source[2] /\ ReadUpTo(k - 1)
  BY PartRead
<1>2. Verdict = "open" /\ Verdict' = "rejected" BY <1>1 DEF Verdict, Regular
<1>3. encodedSize = Source[2] BY <1>1 DEF IInv, Inputs
<1>4. \A i \in 1..(k - 1) : Sound(wire, i) BY <1>1 DEF ReadUpTo
<1>5. Reader!IsNext(k) BY <1>1, <1>2, <1>3, <1>4, ReaderFormat DEF Reader!IsNext
<1> QED BY <1>2, <1>5, ReaderFormat DEF Reader!Next, Reader!Reject, Reader!End

\* The callback threw, or the storage was not of the content's size.
LEMMA ReaderIsInterrupted ==
  ASSUME IInv, call # "none", outcome' \in {"callback", "storage", "size"},
         UNCHANGED <<wire, encodedSize, delivered>>
  PROVE  Reader!Next
<1>1. Verdict = "open" BY Verdicts
<1>2. Verdict' = "interrupted" BY DEF Verdict
<1> QED BY <1>1, <1>2 DEF Reader!Next, Reader!Interrupt, Reader!End

\* The stream ends where the parser cannot go on.
LEMMA ReaderEnds ==
  ASSUME IInv, call # "none", Starved,
         \/ Complete /\ outcome' = "done" /\ status' = "finished"
         \/ ~Complete /\ outcome' = "truncated",
         UNCHANGED <<wire, encodedSize, delivered>>
  PROVE  Reader!Next
<1>1. Verdict = "open" BY Verdicts
<1>2. /\ \A k \in DOMAIN wire :
           wire[k].at = Position /\ EndOf(wire[k]) <= encodedSize =>
             Sound(wire, k) /\ wire[k].length = 0
      /\ Complete <=> CompleteAt(wire, encodedSize)
      /\ encodedSize = Source[2]
  BY StarvedMeans
<1>3. \A k \in DOMAIN wire : Reader!IsNext(k) => Sound(wire, k) /\ wire[k].length = 0
  BY <1>1, <1>2, ReaderFormat DEF Reader!IsNext
<1>4. CASE Complete /\ outcome' = "done" /\ status' = "finished"
  <2>1. Verdict' = "finished" BY <1>4 DEF Verdict
  <2>2. Position = encodedSize
    <3>1. Available = 0 BY <1>4 DEF Complete
    <3>2. Source[1] \in Nat /\ Source[2] \in Nat /\ cursor \in Nat
          /\ Position = Source[1] + cursor /\ Available = Source[2] - Position
      BY StreamHeld DEF IInv, TypeOK
    <3> QED BY <1>2, <3>1, <3>2
  <2>3. Reader!CompleteAt(wire, encodedSize) BY <1>2, <1>4, ReaderFormat
  <2>4. \A k \in DOMAIN wire : Reader!IsNext(k) => Reader!Sound(wire, k)
    BY <1>3, ReaderFormat
  <2>5. Reader!Finish BY <1>1, <2>1, <2>2, <2>3, <2>4 DEF Reader!Finish, Reader!End
  <2> QED BY <2>5 DEF Reader!Next
<1>5. CASE ~Complete /\ outcome' = "truncated"
  <2>1. Verdict' = "truncated" BY <1>5 DEF Verdict
  <2>2. ~Reader!CompleteAt(wire, encodedSize) BY <1>2, <1>5, ReaderFormat
  <2>3. ~ \E k \in DOMAIN wire : Reader!IsNext(k) /\ wire[k].length > 0
    <3>1. \A k \in DOMAIN wire : wire[k].length = 0 => ~(wire[k].length > 0) OBVIOUS
    <3> QED BY <1>3, <3>1
  <2>4. Reader!Truncate BY <1>1, <2>1, <2>2, <2>3 DEF Reader!Truncate, Reader!End
  <2> QED BY <2>4 DEF Reader!Next
<1> QED BY <1>4, <1>5

\* A client's call.
LEMMA ClientRefines ==
  ASSUME IInv, Client
  PROVE  [Reader!Next]_(Reader!vars)
<1>1. ASSUME NEW to \in 1..EncodedLength(wire), Update(to) PROVE Reader!Next
  <2>1. /\ Writable /\ received < to /\ received' = to /\ status' = "active"
        /\ encodedSize' = encodedSize + (to - received)
        /\ wire' = wire /\ start' = start /\ borrowed' = borrowed /\ cursor' = cursor
        /\ delivered' = delivered /\ outcome' = outcome
    BY <1>1 DEF Update, Begin
  <2>2. Regular /\ status \in {"ready", "active"} /\ borrowed = <<>> /\ encodedSize = received
    BY <2>1, WhenWritable
  <2>3. received \in Nat /\ to \in Nat /\ EncodedLength(wire) \in Nat
    BY StreamHeld DEF IInv, TypeOK
  <2>4. encodedSize' \in (encodedSize + 1)..EncodedLength(wire) BY <2>1, <2>2, <2>3
  <2>5. Verdict = "open" /\ Verdict' = "open" BY <2>1, <2>2 DEF Verdict, Regular
  <2>6. Position' = Position BY <2>1, <2>2 DEF Position, Source
  <2> QED BY <2>1, <2>4, <2>5, <2>6, ReaderGives
<1>2. ASSUME NEW to \in 1..EncodedLength(wire), Writable, Borrow(to), status' = "active",
             UNCHANGED <<wire, start, received, delivered, outcome>>
      PROVE  Reader!Next
  <2>1. Regular /\ status \in {"ready", "active"} /\ encodedSize = received
        /\ Available = received - (start + cursor) /\ Position = start + cursor
    BY <1>2, WhenWritable
  <2>2. Position < to /\ Position' = Position /\ encodedSize' = to BY <1>2, Borrows
  <2>3. received \in Nat /\ start \in Nat /\ cursor \in Nat /\ to \in Nat
        /\ EncodedLength(wire) \in Nat
    BY StreamHeld DEF IInv, TypeOK
  <2>4. Available = 0 BY <1>2 DEF Borrow
  <2>5. encodedSize' \in (encodedSize + 1)..EncodedLength(wire)
    BY <2>1, <2>2, <2>3, <2>4
  <2>6. Verdict = "open" /\ Verdict' = "open" BY <1>2, <2>1 DEF Verdict, Regular
  <2> QED BY <1>2, <2>2, <2>5, <2>6, ReaderGives
<1>3. ASSUME NEW to \in 1..EncodedLength(wire), DecompressFrame(to) PROVE Reader!Next
  BY <1>2, <1>3 DEF DecompressFrame, Begin
<1>4. ASSUME NEW to \in 1..EncodedLength(wire), NEW size \in Capacities,
             DecompressInto(to, size)
      PROVE  Reader!Next
  BY <1>2, <1>4 DEF DecompressInto, Begin
<1>5. CASE Finish
  <2>1. UNCHANGED <<wire, encodedSize, delivered, status, outcome>> /\ Position' = Position
    BY <1>5 DEF Finish, inputVars, totals, Position, Source
  <2> QED BY <2>1, ReaderStutters
<1>6. CASE Reset
  <2>1. /\ wire' \in Wires /\ start' = 0 /\ borrowed' = <<>> /\ cursor' = 0
        /\ status' = "ready" /\ encodedSize' = 0 /\ delivered' = <<>> /\ outcome' = "none"
        /\ received' = 0
    BY <1>6 DEF Reset
  <2>2. Verdict' = "open" BY <2>1 DEF Verdict
  <2>3. Position' = 0 BY <2>1 DEF Position, Source
  <2> QED BY <2>1, <2>2, <2>3 DEF Reader!Next, Reader!Restart
<1> QED BY <1>1, <1>3, <1>4, <1>5, <1>6 DEF Client

\* A step of the parser.
LEMMA ParseRefines ==
  ASSUME IInv, NEW k \in DOMAIN wire,
         \/ ParseSkippable(k) \/ ParseFrameHeader(k) \/ ParseBlockHeader(k)
         \/ ParseBlockPayload(k) \/ CallbackThrows(k) \/ StorageFull(k)
         \/ ParseFrameChecksum(k) \/ ParseInvalid(k)
  PROVE  Reader!Next
<1>1. delivered \in Seq(Nat) /\ delivered \o <<>> = delivered BY DEF IInv, TypeOK
<1>2. CASE ParseSkippable(k)
  <2>1. Sound(wire, k) /\ BytesOf(wire[k]) = <<>>
    BY <1>2, PlainParts DEF ParseSkippable, BytesOf
  <2>2. Reads(k) /\ cursor' = Consumed(k) /\ delivered' = delivered
        /\ UNCHANGED <<wire, start, received, borrowed, encodedSize, status, outcome>>
    BY <1>2 DEF ParseSkippable, totals
  <2> QED BY <1>1, <2>1, <2>2, ReaderTakes
<1>3. CASE ParseFrameHeader(k)
  <2>1. Sound(wire, k) /\ BytesOf(wire[k]) = <<>>
    BY <1>3, PlainParts DEF ParseFrameHeader, BytesOf
  <2>2. Reads(k) /\ cursor' = Consumed(k) /\ delivered' = delivered
        /\ UNCHANGED <<wire, start, received, borrowed, encodedSize, status, outcome>>
    BY <1>3 DEF ParseFrameHeader, Continue, totals
  <2> QED BY <1>1, <2>1, <2>2, ReaderTakes
<1>4. CASE ParseBlockHeader(k)
  <2>1. Sound(wire, k) /\ BytesOf(wire[k]) = <<>>
    BY <1>4, PlainParts DEF ParseBlockHeader, BytesOf
  <2>2. Reads(k) /\ cursor' = Consumed(k) /\ delivered' = delivered
        /\ UNCHANGED <<wire, start, received, borrowed, encodedSize, status, outcome>>
    BY <1>4 DEF ParseBlockHeader, Continue, totals
  <2> QED BY <1>1, <2>1, <2>2, ReaderTakes
<1>5. CASE ParseBlockPayload(k)
  <2> DEFINE bytes == wire[k].bytes
             kept  == Trimmed(history \o bytes)
             size  == frameSize + Len(bytes)
  <2>1. /\ Reads(k) /\ wire[k].kind = "payload" /\ delivered' = delivered \o bytes
        /\ IF block.last /\ ~information.checksum
           THEN CompleteFrame(size, Consumed(k), kept)
           ELSE Continue(Consumed(k), kept)
        /\ UNCHANGED <<wire, start, received, encodedSize>>
    BY <1>5 DEF ParseBlockPayload
  <2>2. /\ BytesOf(wire[k]) = bytes
        /\ EndsFrame(wire, k) <=> block.last /\ ~information.checksum
        /\ wire[HeaderOf(wire, k)].contentSize = information.contentSize
        /\ Len(ContentOf(wire, HeaderOf(wire, k), k)) = size
    BY <2>1, PayloadRead
  <2> HIDE DEF bytes, kept, size
  <2>3. Sound(wire, k) <=> (EndsFrame(wire, k) => information.contentSize \in {UnknownSize, size})
    BY <2>1, <2>2 DEF Sound
  <2>4. CASE Sound(wire, k)
    <3>1. Continue(Consumed(k), kept) BY <2>1, <2>2, <2>3, <2>4 DEF CompleteFrame
    <3>2. cursor' = Consumed(k) /\ UNCHANGED <<borrowed, status, outcome>>
      BY <3>1 DEF Continue
    <3> QED BY <2>1, <2>2, <2>4, <3>2, ReaderTakes
  <2>5. CASE ~Sound(wire, k)
    <3>1. Fail("invalid", Consumed(k), kept) BY <2>1, <2>2, <2>3, <2>5 DEF CompleteFrame
    <3>2. outcome' = "invalid" BY <3>1 DEF Fail, Unwind
    <3> QED BY <2>1, <2>2, <2>5, <3>2, ReaderRejects
  <2> QED BY <2>4, <2>5
<1>6. CASE CallbackThrows(k)
  <2>1. outcome' = "callback" /\ UNCHANGED <<wire, encodedSize, delivered>> /\ call # "none"
    BY <1>6 DEF CallbackThrows, Unwind, totals, Reads
  <2> QED BY <2>1, ReaderIsInterrupted
<1>7. CASE StorageFull(k)
  <2>1. outcome' = "storage" /\ UNCHANGED <<wire, encodedSize, delivered>> /\ call # "none"
    BY <1>7 DEF StorageFull, Unwind, totals, Reads
  <2> QED BY <2>1, ReaderIsInterrupted
<1>8. CASE ParseFrameChecksum(k)
  <2>1. /\ Reads(k) /\ wire[k].kind = "checksum" /\ delivered' = delivered
        /\ IF wire[k].of = Digest(hashed)
           THEN CompleteFrame(frameSize, Consumed(k), history)
           ELSE Fail("invalid", cursor, history)
        /\ UNCHANGED <<wire, start, received, encodedSize>>
    BY <1>8 DEF ParseFrameChecksum
  <2>2. /\ EndsFrame(wire, k) /\ BytesOf(wire[k]) = <<>>
        /\ wire[HeaderOf(wire, k)].contentSize = information.contentSize
        /\ Len(ContentOf(wire, HeaderOf(wire, k), k)) = frameSize
        /\ Digest(hashed) = DigestOf(ContentOf(wire, HeaderOf(wire, k), k))
    BY <2>1, ChecksumRead
  <2>3. Sound(wire, k) <=> /\ wire[k].of = Digest(hashed)
                           /\ information.contentSize \in {UnknownSize, frameSize}
    BY <2>1, <2>2 DEF Sound
  <2>4. CASE Sound(wire, k)
    <3>1. Continue(Consumed(k), history) BY <2>1, <2>3, <2>4 DEF CompleteFrame
    <3>2. cursor' = Consumed(k) /\ UNCHANGED <<borrowed, status, outcome>>
      BY <3>1 DEF Continue
    <3> QED BY <1>1, <2>1, <2>2, <2>4, <3>2, ReaderTakes
  <2>5. CASE ~Sound(wire, k)
    <3>1. outcome' = "invalid"
      <4>1. CASE wire[k].of # Digest(hashed) BY <2>1, <4>1 DEF Fail, Unwind
      <4>2. CASE wire[k].of = Digest(hashed)
        BY <2>1, <2>3, <2>5, <4>2 DEF CompleteFrame, Fail, Unwind
      <4> QED BY <4>1, <4>2
    <3> QED BY <1>1, <2>1, <2>2, <2>5, <3>1, ReaderRejects
  <2> QED BY <2>4, <2>5
<1>9. CASE ParseInvalid(k)
  <2>1. /\ Reads(k) /\ wire[k].kind = "invalid" /\ outcome' = "invalid"
        /\ delivered' = delivered /\ UNCHANGED <<wire, encodedSize>>
    BY <1>9 DEF ParseInvalid, Fail, Unwind, totals
  <2>2. ~Sound(wire, k) /\ BytesOf(wire[k]) = <<>> BY <2>1 DEF Sound, BytesOf
  <2> QED BY <1>1, <2>1, <2>2, ReaderRejects
<1> QED BY <1>2, <1>3, <1>4, <1>5, <1>6, <1>7, <1>8, <1>9

\* A call's return.
LEMMA ReturnsRefine ==
  ASSUME IInv, Returns
  PROVE  [Reader!Next]_(Reader!vars)
<1>1. CASE UpdateReturns
  <2>1. /\ call = "update" /\ CompactInput /\ outcome' = "done"
        /\ UNCHANGED <<wire, received, borrowed, status, encodedSize, delivered>>
    BY <1>1 DEF UpdateReturns, totals
  <2>2. Regular /\ status # "finished" BY <2>1 DEF IInv, Phases
  <2>3. borrowed = <<>> BY <2>1, <2>2 DEF IInv, Inputs
  <2>4. Position' = Position BY <2>1, <2>3, Compacts DEF IInv
  <2>5. Verdict' = Verdict BY <2>1, <2>2 DEF Verdict, Regular
  <2> QED BY <2>1, <2>4, <2>5 DEF Reader!vars
<1>2. CASE FinishReturns
  <2>1. /\ call # "none" /\ Starved /\ UNCHANGED <<wire, encodedSize, delivered>>
        /\ status' = IF Complete THEN "finished" ELSE "failed"
        /\ outcome' = IF Complete THEN "done" ELSE "truncated"
    BY <1>2 DEF FinishReturns, totals
  <2>2. \/ Complete /\ outcome' = "done" /\ status' = "finished"
        \/ ~Complete /\ outcome' = "truncated"
    BY <2>1
  <2> QED BY <2>1, <2>2, ReaderEnds
<1>3. CASE FrameReturns
  <2>1. /\ call # "none" /\ Starved /\ UNCHANGED <<wire, encodedSize, delivered>>
    BY <1>3 DEF FrameReturns, totals
  <2>2. \/ Complete /\ outcome' = "done" /\ status' = "finished"
        \/ ~Complete /\ outcome' = "truncated"
    BY <1>3 DEF FrameReturns, Fail, Unwind
  <2> QED BY <2>1, <2>2, ReaderEnds
<1>4. CASE DirectReturns
  <2>1. /\ call # "none" /\ Starved /\ UNCHANGED <<wire, encodedSize, delivered>>
    BY <1>4 DEF DirectReturns, totals
  <2>2. \/ Complete /\ outcome' = "done" /\ status' = "finished"
        \/ ~Complete /\ outcome' = "truncated"
        \/ outcome' = "size"
    BY <1>4 DEF DirectReturns, Fail, Unwind
  <2> QED BY <2>1, <2>2, ReaderEnds, ReaderIsInterrupted
<1> QED BY <1>1, <1>2, <1>3, <1>4 DEF Returns

\* What the calls deliver, and how they end, is what FrameReader allows.
THEOREM ImplementsFrameReader == Spec => ReadsTheStream
<1>1. Init => Reader!Init
  <2> SUFFICES ASSUME Init PROVE Reader!Init OBVIOUS
  <2>1. /\ wire \in Wires /\ encodedSize = 0 /\ delivered = <<>> /\ outcome = "none"
        /\ status = "ready" /\ borrowed = <<>> /\ start = 0 /\ cursor = 0
    BY DEF Init
  <2>2. Verdict = "open" BY <2>1 DEF Verdict
  <2>3. Position = 0 BY <2>1 DEF Position, Source
  <2> QED BY <2>1, <2>2, <2>3 DEF Reader!Init
<1>2. IInv /\ [Next]_vars => [Reader!Next]_(Reader!vars)
  <2> SUFFICES ASSUME IInv, [Next]_vars PROVE [Reader!Next]_(Reader!vars) OBVIOUS
  <2>1. CASE Client BY <2>1, ClientRefines
  <2>2. CASE Parse BY <2>2, ParseRefines DEF Parse
  <2>3. CASE Returns BY <2>3, ReturnsRefine
  <2>4. CASE UNCHANGED vars
    <3>1. UNCHANGED <<wire, encodedSize, delivered, status, outcome>> /\ Position' = Position
      BY <2>4 DEF vars, inputVars, totals, Position, Source
    <3> QED BY <3>1, ReaderStutters
  <2> QED BY <2>1, <2>2, <2>3, <2>4 DEF Next
<1> QED BY <1>1, <1>2, Invariance, PTL DEF Spec, ReadsTheStream, Reader!Spec


----------------------------------------------------------------------------
(* Numbers read from bits.                                                 *)

NumbersUpTo(f, bits, n) ==
  f = [i \in 0..n |-> IF i = 0 THEN 0 ELSE bits[Len(bits) + 1 - i] + 2 * f[i - 1]]

\* There is one for every number of bits.
LEMMA NumbersExist ==
  ASSUME NEW bits
  PROVE  \A n \in Nat : \E f : NumbersUpTo(f, bits, n)
<1> DEFINE T == {n \in Nat : \E f : NumbersUpTo(f, bits, n)}
<1>1. 0 \in T
  <2> DEFINE f == [i \in 0..0 |-> 0]
  <2>1. NumbersUpTo(f, bits, 0) BY DEF NumbersUpTo
  <2> QED BY <2>1
<1>2. ASSUME NEW n \in Nat, n \in T PROVE n + 1 \in T
  <2>1. PICK g : NumbersUpTo(g, bits, n) BY <1>2
  <2> DEFINE f == [i \in 0..(n + 1) |-> IF i \in 0..n THEN g[i]
                                        ELSE bits[Len(bits) + 1 - (n + 1)] + 2 * g[n]]
  <2>2. ASSUME NEW i \in 0..(n + 1)
        PROVE  f[i] = IF i = 0 THEN 0 ELSE bits[Len(bits) + 1 - i] + 2 * f[i - 1]
    <3>1. CASE i = 0 BY <2>1, <3>1 DEF NumbersUpTo
    <3>2. CASE i \in 1..n
      <4>1. f[i] = g[i] /\ f[i - 1] = g[i - 1] BY <3>2
      <4>2. i \in 0..n /\ i # 0 BY <3>2
      <4>3. g[i] = bits[Len(bits) + 1 - i] + 2 * g[i - 1] BY <2>1, <4>2 DEF NumbersUpTo
      <4> HIDE DEF f
      <4> QED BY <4>1, <4>2, <4>3
    <3>3. CASE i = n + 1
      <4>1. f[i] = bits[Len(bits) + 1 - i] + 2 * g[n] /\ f[i - 1] = g[n] /\ i # 0 BY <3>3
      <4> HIDE DEF f
      <4> QED BY <4>1
    <3> QED BY <3>1, <3>2, <3>3
  <2> HIDE DEF f
  <2>3. f = [i \in 0..(n + 1) |-> f[i]] BY DEF f
  <2>4. NumbersUpTo(f, bits, n + 1) BY <2>2, <2>3 DEF NumbersUpTo
  <2> QED BY <2>4
<1> HIDE DEF T
<1>3. \A n \in Nat : n \in T BY <1>1, <1>2, Induction
<1> QED BY <1>3 DEF T

\* Number, peek.
LEMMA NumberTyped ==
  ASSUME NEW bits \in Seq(Nat)
  PROVE  Number(bits) \in Nat
<1> DEFINE N == Len(bits)
           f == CHOOSE f : f = [i \in 0..N |-> IF i = 0 THEN 0
                                               ELSE bits[N + 1 - i] + 2 * f[i - 1]]
<1>0. N \in Nat OBVIOUS
<1>1. \E g : g = [i \in 0..N |-> IF i = 0 THEN 0 ELSE bits[N + 1 - i] + 2 * g[i - 1]]
  BY <1>0, NumbersExist DEF NumbersUpTo
<1>2. f = [i \in 0..N |-> IF i = 0 THEN 0 ELSE bits[N + 1 - i] + 2 * f[i - 1]] BY <1>1
<1>3. Number(bits) = f[N] BY DEF Number
<1> HIDE DEF f
<1> DEFINE T == {n \in Nat : n <= N => f[n] \in Nat}
<1>4. 0 \in T BY <1>0, <1>2
<1>5. ASSUME NEW n \in Nat, n \in T PROVE n + 1 \in T
  <2> SUFFICES ASSUME n + 1 <= N PROVE f[n + 1] \in Nat OBVIOUS
  <2>1. f[n] \in Nat BY <1>5, <1>0
  <2>2. n + 1 \in 0..N /\ n + 1 # 0 /\ n + 1 - 1 = n BY <1>0
  <2>3. f[n + 1] = bits[N + 1 - (n + 1)] + 2 * f[n] BY <1>2, <2>2
  <2>4. N + 1 - (n + 1) \in 1..N BY <1>0
  <2>5. bits[N + 1 - (n + 1)] \in Nat BY <2>4
  <2> QED BY SMTT(30), <2>1, <2>3, <2>5
<1> HIDE DEF T
<1>6. \A n \in Nat : n \in T BY <1>4, <1>5, Induction
<1> QED BY <1>0, <1>3, <1>6 DEF T

\* A field of bits is a number.
LEMMA FieldTyped ==
  ASSUME NEW bits \in Seq(0..1), NEW at \in Nat, NEW width \in Nat
  PROVE  Field(bits, at, width) \in Nat
<1> DEFINE p == [i \in 1..width |-> IF at + i <= Len(bits) THEN bits[at + i] ELSE 0]
<1>1. ASSUME NEW i \in 1..width
      PROVE  (IF at + i <= Len(bits) THEN bits[at + i] ELSE 0) \in Nat
  <2>1. CASE at + i <= Len(bits)
    <3>1. at + i \in 1..Len(bits) BY <2>1
    <3> QED BY <3>1, <2>1
  <2> QED BY <2>1
<1>2. p \in Seq(Nat) BY <1>1
<1> HIDE DEF p
<1>3. Number(p) \in Nat BY <1>2, NumberTyped
<1> QED BY <1>3 DEF Field, p

\* Two sources have the first n bits in common.
Agree(s, t, n) ==
  n \in Nat /\ n <= Len(s) /\ n <= Len(t) /\ \A i \in 1..n : s[i] = t[i]

\* A field that ends among them is read of either.
LEMMA FieldLocal ==
  ASSUME NEW s \in Seq(0..1), NEW t \in Seq(0..1), NEW n, Agree(s, t, n),
         NEW at \in Nat, NEW width \in Nat, at + width <= n
  PROVE  Field(t, at, width) = Field(s, at, width)
<1>1. ASSUME NEW i \in 1..width
      PROVE  (IF at + i <= Len(s) THEN s[at + i] ELSE 0)
                = (IF at + i <= Len(t) THEN t[at + i] ELSE 0)
  <2>1. at + i \in 1..n BY DEF Agree
  <2>2. at + i <= Len(s) /\ at + i <= Len(t) BY <2>1 DEF Agree
  <2> QED BY <2>1, <2>2 DEF Agree
<1>2. [i \in 1..width |-> IF at + i <= Len(s) THEN s[at + i] ELSE 0]
        = [i \in 1..width |-> IF at + i <= Len(t) THEN t[at + i] ELSE 0]
  BY <1>1
<1> QED BY <1>2 DEF Field

\* A positive number has a width.
LEMMA BitWidthTyped ==
  ASSUME NEW n \in Int
  PROVE  /\ BitWidth(n) \in Nat
         /\ n >= 1 => BitWidth(n) >= 1
<1> DEFINE W == {w \in 0..29 : 2^w <= n}
<1>1. IsFiniteSet(0..29)
  <2>1. 0 \in Int /\ 29 \in Int OBVIOUS
  <2> QED BY <2>1, FS_Interval
<1>2. IsFiniteSet(W) BY <1>1, FS_Subset
<1>3. Cardinality(W) \in Nat BY <1>2, FS_CardinalityType
<1>4. ASSUME n >= 1 PROVE Cardinality(W) >= 1
  <2>1. 2^0 = 1 OBVIOUS
  <2>2. 0 \in W BY <2>1, <1>4
  <2>3. Cardinality(W) # 0 BY <2>2, <1>2, FS_EmptySet
  <2> QED BY <2>3, <1>3
<1> QED BY <1>3, <1>4 DEF BitWidth

----------------------------------------------------------------------------
(* Runs of zero counts.                                                    *)

\* The numbers of twos of ones that fit.
Twos(bits, at) ==
  {k \in 1..Len(bits) : at + 2 * k <= Len(bits) /\ \A j \in (at + 1)..(at + 2 * k) : bits[j] = 1}

\* The twos of ones at a place are counted from the first on.
LEMMA ThreesTyped ==
  ASSUME NEW bits \in Seq(0..1), NEW at \in Nat
  PROVE  /\ Threes(bits, at) \in Nat
         /\ \A k \in Twos(bits, at) : k <= Threes(bits, at)
<1> DEFINE K == Twos(bits, at)
<1>0. Len(bits) \in Nat OBVIOUS
<1>1. IsFiniteSet(1..Len(bits)) BY <1>0, FS_Interval
<1>2. IsFiniteSet(K) BY <1>1, FS_Subset DEF Twos
<1>3. Threes(bits, at) = Cardinality(K) BY DEF Threes, Twos
<1>4. Cardinality(K) \in Nat BY <1>2, FS_CardinalityType
<1>5. ASSUME NEW k \in K PROVE k <= Cardinality(K)
  <2>0. k \in Nat /\ k >= 1 BY <1>0 DEF Twos
  <2>1. 1..k \subseteq K
    <3> SUFFICES ASSUME NEW i \in 1..k PROVE i \in K OBVIOUS
    <3>1. k \in 1..Len(bits) /\ at + 2 * k <= Len(bits)
          /\ \A j \in (at + 1)..(at + 2 * k) : bits[j] = 1
      BY DEF Twos
    <3>2. i \in 1..Len(bits) /\ at + 2 * i <= Len(bits) BY <2>0, <3>1
    <3>3. (at + 1)..(at + 2 * i) \subseteq (at + 1)..(at + 2 * k) BY <2>0
    <3> QED BY <3>1, <3>2, <3>3 DEF Twos
  <2>2. Cardinality(1..k) <= Cardinality(K) BY <2>1, <1>2, FS_Subset
  <2>3. Cardinality(1..k) = k BY <2>0, FS_Interval
  <2> QED BY <2>2, <2>3
<1> QED BY <1>3, <1>4, <1>5

\* The bits behind them, and the two that end the run, do not matter.
LEMMA ThreesLocal ==
  ASSUME NEW s \in Seq(0..1), NEW t \in Seq(0..1), NEW n, Agree(s, t, n), NEW at \in Nat,
         at + 2 * Threes(s, at) + 2 <= n
  PROVE  Threes(t, at) = Threes(s, at)
<1> DEFINE c == Threes(s, at)
<1>1. c \in Nat /\ \A k \in Twos(s, at) : k <= c BY ThreesTyped
<1>2. n \in Nat /\ n <= Len(s) /\ n <= Len(t) /\ Len(s) \in Nat /\ Len(t) \in Nat
      /\ at + 2 * c + 2 <= n
  BY DEF Agree
<1> HIDE DEF c
<1>3. ASSUME NEW k \in Nat, at + 2 * k <= n PROVE k \in Twos(s, at) <=> k \in Twos(t, at)
  <2>1. k \in 1..Len(s) <=> k \in 1..Len(t) BY <1>2, <1>3
  <2>2. at + 2 * k <= Len(s) /\ at + 2 * k <= Len(t) BY <1>2, <1>3
  <2>3. \A j \in (at + 1)..(at + 2 * k) : s[j] = t[j]
    <3>1. \A j \in (at + 1)..(at + 2 * k) : j \in 1..n BY <1>2, <1>3
    <3> QED BY <3>1 DEF Agree
  <2> QED BY SMTT(30), <2>1, <2>2, <2>3 DEF Twos
<1>4. ASSUME NEW k \in Twos(s, at) PROVE k \in Twos(t, at)
  <2>1. k \in Nat BY <1>2 DEF Twos
  <2>2. at + 2 * k <= n BY <1>1, <1>2, <2>1
  <2> QED BY <2>1, <2>2, <1>3
<1>5. ASSUME NEW k \in Twos(t, at) PROVE k \in Twos(s, at)
  <2>1. k \in Nat /\ at + 2 * k <= Len(t) /\ \A j \in (at + 1)..(at + 2 * k) : t[j] = 1
    BY <1>2 DEF Twos
  <2>2. CASE k <= c
    <3>1. at + 2 * k <= n BY <1>1, <1>2, <2>1, <2>2
    <3> QED BY <2>1, <3>1, <1>3
  <2>3. CASE k > c
    <3>1. c + 1 \in Nat /\ at + 2 * (c + 1) <= n /\ c + 1 \in 1..Len(t)
          /\ at + 2 * (c + 1) <= Len(t)
      BY <1>1, <1>2
    <3>2. (at + 1)..(at + 2 * (c + 1)) \subseteq (at + 1)..(at + 2 * k) BY <1>1, <2>1, <2>3
    <3>3. c + 1 \in Twos(t, at) BY <2>1, <3>1, <3>2 DEF Twos
    <3>4. c + 1 \in Twos(s, at) BY <3>1, <3>3, <1>3
    <3>5. c + 1 <= c BY <3>4, <1>1
    <3> QED BY <3>5, <1>1
  <2> QED BY <1>1, <2>1, <2>2, <2>3
<1>6. Twos(s, at) = Twos(t, at) BY <1>4, <1>5
<1> QED BY <1>6 DEF Threes, Twos

----------------------------------------------------------------------------
(* Counts read from a description.                                         *)

Readings == [at : Nat, remaining : Int, values : Seq(Int)]

\* What ReadCount does with one count, for the source b.
AfterZero(r) == r.values # <<>> /\ Last(r.values) = 0
RunOf(b, r) == IF AfterZero(r) THEN Threes(b, r.at) ELSE 0
ZerosOf(b, r) == IF AfterZero(r) THEN 3 * RunOf(b, r) + Field(b, r.at + 2 * RunOf(b, r), 2) ELSE 0
FromOf(b, r) == IF AfterZero(r) THEN r.at + 2 * RunOf(b, r) + 2 ELSE r.at
ShortOf(r) == BitWidth(r.remaining) - 1
IsShort(b, r) == Field(b, FromOf(b, r), ShortOf(r)) < Spare(r.remaining)
EndOfCount(b, r) ==
  IF IsShort(b, r) THEN FromOf(b, r) + ShortOf(r) ELSE FromOf(b, r) + ShortOf(r) + 1
FieldOf(b, r) == Field(b, FromOf(b, r), EndOfCount(b, r) - FromOf(b, r))
CountOf(b, r) ==
  (IF ~IsShort(b, r) /\ FieldOf(b, r) >= 2^ShortOf(r) THEN FieldOf(b, r) - Spare(r.remaining)
                                                      ELSE FieldOf(b, r)) - 1

\* These are the steps of ReadCount.
LEMMA CountSteps ==
  ASSUME NEW b, NEW top, NEW r
  PROVE  ReadCount(b, top, r) =
           IF r.remaining <= 1 THEN r
           ELSE IF Len(r.values) + ZerosOf(b, r) > top \/ EndOfCount(b, r) > Len(b)
           THEN [r EXCEPT !.remaining = 0]
           ELSE [at        |-> EndOfCount(b, r),
                 remaining |-> r.remaining - Cells(CountOf(b, r)),
                 values    |-> r.values \o [i \in 1..ZerosOf(b, r) |-> 0] \o <<CountOf(b, r)>>]
BY DEF ReadCount, AfterZero, RunOf, ZerosOf, FromOf, ShortOf, IsShort, EndOfCount, FieldOf, CountOf

\* What a count is made of; it ends behind what it was read from.
LEMMA CountTyped ==
  ASSUME NEW b \in Seq(0..1), NEW r \in Readings, r.remaining > 1
  PROVE  /\ RunOf(b, r) \in Nat /\ ZerosOf(b, r) \in Nat /\ FromOf(b, r) \in Nat
         /\ ShortOf(r) \in Nat /\ EndOfCount(b, r) \in Nat
         /\ r.at <= FromOf(b, r)
         /\ FromOf(b, r) + ShortOf(r) <= EndOfCount(b, r)
         /\ EndOfCount(b, r) - FromOf(b, r) \in Nat
         /\ AfterZero(r) => r.at + 2 * RunOf(b, r) + 2 <= EndOfCount(b, r)
         /\ CountOf(b, r) \in Int
<1>1. r.at \in Nat /\ r.remaining \in Int /\ r.values \in Seq(Int) BY DEF Readings
<1>2. RunOf(b, r) \in Nat BY <1>1, ThreesTyped DEF RunOf
<1>3. Field(b, r.at + 2 * RunOf(b, r), 2) \in Nat
  <2>1. r.at + 2 * RunOf(b, r) \in Nat /\ 2 \in Nat BY <1>1, <1>2
  <2> QED BY <2>1, FieldTyped
<1>4. ZerosOf(b, r) \in Nat BY <1>2, <1>3 DEF ZerosOf
<1>5. FromOf(b, r) \in Nat /\ r.at <= FromOf(b, r) BY <1>1, <1>2 DEF FromOf
<1>6. ShortOf(r) \in Nat
  <2>0. r.remaining >= 1 BY <1>1
  <2>1. BitWidth(r.remaining) \in Nat /\ BitWidth(r.remaining) >= 1
    BY <2>0, <1>1, BitWidthTyped
  <2> QED BY <2>1 DEF ShortOf
<1>7. /\ EndOfCount(b, r) \in Nat /\ FromOf(b, r) + ShortOf(r) <= EndOfCount(b, r)
      /\ EndOfCount(b, r) - FromOf(b, r) \in Nat
  BY <1>5, <1>6 DEF EndOfCount
<1>8. AfterZero(r) => r.at + 2 * RunOf(b, r) + 2 <= EndOfCount(b, r)
  <2>1. AfterZero(r) => FromOf(b, r) = r.at + 2 * RunOf(b, r) + 2 BY DEF FromOf
  <2> QED BY <2>1, <1>1, <1>2, <1>5, <1>6, <1>7
<1>9. FieldOf(b, r) \in Nat BY <1>5, <1>7, FieldTyped DEF FieldOf
<1>10. Spare(r.remaining) \in Int
  <2>1. BitWidth(r.remaining) \in Nat BY <1>1, BitWidthTyped
  <2>2. 2^BitWidth(r.remaining) \in Int BY <2>1
  <2> QED BY <1>1, <2>2 DEF Spare
<1>11. CountOf(b, r) \in Int BY <1>9, <1>10 DEF CountOf
<1> QED BY <1>2, <1>4, <1>5, <1>6, <1>7, <1>8, <1>11

\* A count is read forwards, and only while there are cells to give out.
LEMMA ReadingTyped ==
  ASSUME NEW b \in Seq(0..1), NEW top, NEW r \in Readings
  PROVE  /\ ReadCount(b, top, r) \in Readings
         /\ r.at <= ReadCount(b, top, r).at
         /\ r.remaining <= 1 => ReadCount(b, top, r) = r
<1> DEFINE q == ReadCount(b, top, r)
<1>0. r.at \in Nat /\ r.remaining \in Int /\ r.values \in Seq(Int) BY DEF Readings
<1>1. CASE r.remaining <= 1
  <2>1. q = r BY <1>1, CountSteps
  <2> QED BY <2>1, <1>0
<1>2. CASE r.remaining > 1
  <2>1. /\ ZerosOf(b, r) \in Nat /\ EndOfCount(b, r) \in Nat /\ r.at <= EndOfCount(b, r)
        /\ CountOf(b, r) \in Int
    BY <1>0, <1>2, CountTyped
  <2>2. Cells(CountOf(b, r)) \in Int BY <2>1 DEF Cells
  <2>3. ~ r.remaining <= 1 BY <1>0, <1>2
  <2>4. CASE q = [r EXCEPT !.remaining = 0]
    <3>0. [r EXCEPT !.remaining = 0] = [at |-> r.at, remaining |-> 0, values |-> r.values]
      BY DEF Readings
    <3>1. q \in Readings /\ q.at = r.at BY <2>4, <3>0, <1>0 DEF Readings
    <3> HIDE DEF q
    <3>2. r.at <= q.at BY <3>1, <1>0
    <3> QED BY <3>1, <3>2, <2>3 DEF q
  <2>5. CASE q = [at        |-> EndOfCount(b, r),
                  remaining |-> r.remaining - Cells(CountOf(b, r)),
                  values    |-> r.values \o [i \in 1..ZerosOf(b, r) |-> 0] \o <<CountOf(b, r)>>]
    <3> DEFINE v == r.values \o [i \in 1..ZerosOf(b, r) |-> 0] \o <<CountOf(b, r)>>
    <3>1. v \in Seq(Int)
      <4>1. [i \in 1..ZerosOf(b, r) |-> 0] \in Seq(Int) BY <2>1
      <4>2. <<CountOf(b, r)>> \in Seq(Int) BY <2>1
      <4> QED BY <4>1, <4>2, <1>0
    <3> HIDE DEF v
    <3>2. r.remaining - Cells(CountOf(b, r)) \in Int BY <1>0, <2>2
    <3>3. q = [at |-> EndOfCount(b, r), remaining |-> r.remaining - Cells(CountOf(b, r)),
               values |-> v]
      BY <2>5 DEF v
    <3> HIDE DEF q
    <3>4. q \in Readings /\ q.at = EndOfCount(b, r) BY <3>1, <3>2, <3>3, <2>1 DEF Readings
    <3> QED BY <3>4, <2>1, <2>3 DEF q
  <2> QED BY <2>3, <2>4, <2>5, CountSteps
<1> QED BY <1>0, <1>1, <1>2

\* A count that was read of one source, up to a bit they have in common, is read of the other.
LEMMA CountLocal ==
  ASSUME NEW s \in Seq(0..1), NEW t \in Seq(0..1), NEW n, Agree(s, t, n), NEW top,
         NEW r \in Readings,
         ReadCount(s, top, r).remaining >= 1, ReadCount(s, top, r).at <= n
  PROVE  ReadCount(t, top, r) = ReadCount(s, top, r)
<1>0. r.at \in Nat /\ r.remaining \in Int /\ r.values \in Seq(Int) BY DEF Readings
<1>1. CASE r.remaining <= 1 BY <1>1, CountSteps
<1>2. CASE r.remaining > 1
  <2>0. ~ r.remaining <= 1 BY <1>0, <1>2
  <2>1. ~ (Len(r.values) + ZerosOf(s, r) > top \/ EndOfCount(s, r) > Len(s))
    <3> SUFFICES ASSUME Len(r.values) + ZerosOf(s, r) > top \/ EndOfCount(s, r) > Len(s)
                 PROVE  FALSE
      OBVIOUS
    <3>1. ReadCount(s, top, r) = [r EXCEPT !.remaining = 0] BY <2>0, CountSteps
    <3>2. ReadCount(s, top, r).remaining = 0 BY <3>1 DEF Readings
    <3> QED BY <3>2
  <2>2. ReadCount(s, top, r) =
          [at        |-> EndOfCount(s, r),
           remaining |-> r.remaining - Cells(CountOf(s, r)),
           values    |-> r.values \o [i \in 1..ZerosOf(s, r) |-> 0] \o <<CountOf(s, r)>>]
    BY <2>0, <2>1, CountSteps
  <2>3. EndOfCount(s, r) <= n BY <2>2
  <2>4. /\ RunOf(s, r) \in Nat /\ FromOf(s, r) \in Nat /\ ShortOf(r) \in Nat
        /\ EndOfCount(s, r) \in Nat
        /\ FromOf(s, r) + ShortOf(r) <= EndOfCount(s, r)
        /\ EndOfCount(s, r) - FromOf(s, r) \in Nat
        /\ AfterZero(r) => r.at + 2 * RunOf(s, r) + 2 <= EndOfCount(s, r)
    BY <1>0, <1>2, CountTyped
  <2>5. n \in Nat /\ n <= Len(t) BY DEF Agree
  <2>16. r.at \in Nat /\ RunOf(s, r) \in Nat /\ n \in Nat /\ EndOfCount(s, r) \in Nat
    BY <1>0, <2>4, <2>5
  <2>17. AfterZero(r) => r.at + 2 * RunOf(s, r) + 2 <= EndOfCount(s, r) BY <2>4
  <2>6. RunOf(t, r) = RunOf(s, r)
    <3>1. CASE AfterZero(r)
      <4>0. r.at + 2 * RunOf(s, r) + 2 <= n BY <3>1, <2>3, <2>16, <2>17
      <4>1. r.at + 2 * Threes(s, r.at) + 2 <= n BY <3>1, <4>0 DEF RunOf
      <4>2. Threes(t, r.at) = Threes(s, r.at) BY <4>1, <1>0, ThreesLocal
      <4> QED BY <4>2 DEF RunOf
    <3> QED BY <3>1 DEF RunOf
  <2>7. FromOf(t, r) = FromOf(s, r) BY <2>6 DEF FromOf
  <2>8. ZerosOf(t, r) = ZerosOf(s, r)
    <3>1. CASE AfterZero(r)
      <4>1. /\ r.at + 2 * RunOf(s, r) \in Nat /\ 2 \in Nat
            /\ r.at + 2 * RunOf(s, r) + 2 <= n
        BY <3>1, <2>3, <2>16, <2>17
      <4>2. Field(t, r.at + 2 * RunOf(s, r), 2) = Field(s, r.at + 2 * RunOf(s, r), 2)
        BY <4>1, FieldLocal
      <4> QED BY <4>2, <2>6 DEF ZerosOf
    <3> QED BY <3>1 DEF ZerosOf
  <2>9. IsShort(t, r) = IsShort(s, r)
    <3>1. FromOf(s, r) + ShortOf(r) <= n BY <2>3, <2>4, <2>5
    <3>2. Field(t, FromOf(s, r), ShortOf(r)) = Field(s, FromOf(s, r), ShortOf(r))
      BY <3>1, <2>4, FieldLocal
    <3> QED BY <3>2, <2>7 DEF IsShort
  <2>10. EndOfCount(t, r) = EndOfCount(s, r) BY <2>7, <2>9 DEF EndOfCount
  <2>11. FieldOf(t, r) = FieldOf(s, r)
    <3>1. FromOf(s, r) + (EndOfCount(s, r) - FromOf(s, r)) <= n BY <2>3, <2>4, <2>5
    <3>2. Field(t, FromOf(s, r), EndOfCount(s, r) - FromOf(s, r))
            = Field(s, FromOf(s, r), EndOfCount(s, r) - FromOf(s, r))
      BY <3>1, <2>4, FieldLocal
    <3> QED BY <3>2, <2>7, <2>10 DEF FieldOf
  <2>12. CountOf(t, r) = CountOf(s, r) BY <2>9, <2>11 DEF CountOf
  <2>13. Len(t) \in Nat /\ ~ EndOfCount(t, r) > Len(t) BY <2>3, <2>4, <2>5, <2>10
  <2>14. ~ (Len(r.values) + ZerosOf(t, r) > top \/ EndOfCount(t, r) > Len(t))
    BY <2>1, <2>8, <2>13
  <2>15. ReadCount(t, top, r) =
          [at        |-> EndOfCount(t, r),
           remaining |-> r.remaining - Cells(CountOf(t, r)),
           values    |-> r.values \o [i \in 1..ZerosOf(t, r) |-> 0] \o <<CountOf(t, r)>>]
    BY <2>0, <2>14, CountSteps
  <2> QED BY <2>2, <2>8, <2>10, <2>12, <2>15
<1> QED BY <1>0, <1>1, <1>2

----------------------------------------------------------------------------
(* Descriptions.                                                           *)

Begun(b) == [at |-> 4, remaining |-> 2^(Field(b, 0, 4) + 5) + 1, values |-> <<>>]

CountsUpTo(g, b, top, n) ==
  g = [i \in 0..n |-> IF i = 0 THEN Begun(b) ELSE ReadCount(b, top, g[i - 1])]

\* ReadDescription's answer, when the last reading is r.
Concluded(b, r) ==
  IF \/ Field(b, 0, 4) + 5 > 12 \/ r.remaining # 1 \/ 8 * ((r.at + 7) \div 8) > Len(b)
  THEN Refused
  ELSE [accepted |-> TRUE, consumed |-> 8 * ((r.at + 7) \div 8),
        counts   |-> [log    |-> Field(b, 0, 4) + 5,
                      values |-> [s \in 0..(Len(r.values) - 1) |-> r.values[s + 1]]]]

\* There are readings of every number of counts.
LEMMA CountsExist ==
  ASSUME NEW b, NEW top
  PROVE  \A n \in Nat : \E g : CountsUpTo(g, b, top, n)
<1> DEFINE T == {n \in Nat : \E g : CountsUpTo(g, b, top, n)}
<1>1. 0 \in T
  <2> DEFINE g == [i \in 0..0 |-> Begun(b)]
  <2>1. CountsUpTo(g, b, top, 0) BY DEF CountsUpTo
  <2> QED BY <2>1
<1>2. ASSUME NEW n \in Nat, n \in T PROVE n + 1 \in T
  <2>1. PICK g : CountsUpTo(g, b, top, n) BY <1>2
  <2> DEFINE f == [i \in 0..(n + 1) |-> IF i \in 0..n THEN g[i] ELSE ReadCount(b, top, g[n])]
  <2>2. ASSUME NEW i \in 0..(n + 1)
        PROVE  f[i] = IF i = 0 THEN Begun(b) ELSE ReadCount(b, top, f[i - 1])
    <3>1. CASE i = 0 BY <2>1, <3>1 DEF CountsUpTo
    <3>2. CASE i \in 1..n
      <4>1. f[i] = g[i] /\ f[i - 1] = g[i - 1] BY <3>2
      <4>2. i \in 0..n /\ i # 0 BY <3>2
      <4>3. g[i] = ReadCount(b, top, g[i - 1]) BY <2>1, <4>2 DEF CountsUpTo
      <4> HIDE DEF f
      <4> QED BY <4>1, <4>2, <4>3
    <3>3. CASE i = n + 1
      <4>1. f[i] = ReadCount(b, top, g[n]) /\ f[i - 1] = g[n] /\ i # 0 BY <3>3
      <4> HIDE DEF f
      <4> QED BY <4>1
    <3> QED BY <3>1, <3>2, <3>3
  <2> HIDE DEF f
  <2>3. f = [i \in 0..(n + 1) |-> f[i]] BY DEF f
  <2>4. CountsUpTo(f, b, top, n + 1) BY <2>2, <2>3 DEF CountsUpTo
  <2> QED BY <2>4
<1> HIDE DEF T
<1>3. \A n \in Nat : n \in T BY <1>1, <1>2, Induction
<1> QED BY <1>3 DEF T

\* read_normalized_counts is what it ends with.
LEMMA ReadBy ==
  ASSUME NEW b, NEW top \in Nat
  PROVE  \E g : CountsUpTo(g, b, top, top + 1) /\ ReadDescription(b, top) = Concluded(b, g[top + 1])
<1> DEFINE g == CHOOSE g : g = [i \in 0..(top + 1) |->
                                  IF i = 0
                                  THEN [at |-> 4, remaining |-> 2^(Field(b, 0, 4) + 5) + 1,
                                        values |-> <<>>]
                                  ELSE ReadCount(b, top, g[i - 1])]
<1>0. top + 1 \in Nat OBVIOUS
<1>1. \E f : f = [i \in 0..(top + 1) |->
                    IF i = 0
                    THEN [at |-> 4, remaining |-> 2^(Field(b, 0, 4) + 5) + 1, values |-> <<>>]
                    ELSE ReadCount(b, top, f[i - 1])]
  <2>1. PICK f : CountsUpTo(f, b, top, top + 1) BY <1>0, CountsExist
  <2>2. f = [i \in 0..(top + 1) |->
               IF i = 0
               THEN [at |-> 4, remaining |-> 2^(Field(b, 0, 4) + 5) + 1, values |-> <<>>]
               ELSE ReadCount(b, top, f[i - 1])]
    BY <2>1 DEF CountsUpTo, Begun
  <2> QED BY <2>2
<1>2. CountsUpTo(g, b, top, top + 1) BY <1>1 DEF CountsUpTo, Begun
<1>3. ReadDescription(b, top) = Concluded(b, g[top + 1]) BY DEF ReadDescription, Concluded
<1> QED BY <1>2, <1>3

\* Every reading is one, and goes on from the one before.
LEMMA CountsTyped ==
  ASSUME NEW b \in Seq(0..1), NEW top, NEW n \in Nat, NEW g, CountsUpTo(g, b, top, n)
  PROVE  /\ g[0] = Begun(b)
         /\ \A i \in Nat : i < n => g[i + 1] = ReadCount(b, top, g[i])
         /\ \A i \in Nat : i <= n => g[i] \in Readings /\ g[i].at >= 4
<1>1. g[0] = Begun(b) BY DEF CountsUpTo
<1>2. ASSUME NEW i \in Nat, i < n PROVE g[i + 1] = ReadCount(b, top, g[i])
  <2>1. i + 1 \in 0..n /\ i + 1 # 0 /\ i + 1 - 1 = i BY <1>2
  <2> QED BY <2>1 DEF CountsUpTo
<1> DEFINE T == {i \in Nat : i <= n => g[i] \in Readings /\ g[i].at >= 4}
<1>3. 0 \in T
  <2>1. 0 \in Nat /\ 4 \in Nat OBVIOUS
  <2>2. Field(b, 0, 4) \in Nat BY <2>1, FieldTyped
  <2>3. 2^(Field(b, 0, 4) + 5) \in Int BY <2>2
  <2>4. Begun(b) \in Readings /\ Begun(b).at = 4 BY <2>3 DEF Begun, Readings
  <2> QED BY <2>4, <1>1
<1>4. ASSUME NEW i \in Nat, i \in T PROVE i + 1 \in T
  <2> SUFFICES ASSUME i + 1 <= n PROVE g[i + 1] \in Readings /\ g[i + 1].at >= 4 OBVIOUS
  <2>1. i < n /\ i <= n OBVIOUS
  <2>2. g[i] \in Readings /\ g[i].at >= 4 BY <1>4, <2>1
  <2>3. g[i + 1] = ReadCount(b, top, g[i]) BY <2>1, <1>2
  <2>4. g[i + 1] \in Readings /\ g[i].at <= g[i + 1].at BY <2>2, <2>3, ReadingTyped
  <2>5. g[i].at \in Nat /\ g[i + 1].at \in Nat BY <2>2, <2>4 DEF Readings
  <2> QED BY <2>2, <2>4, <2>5
<1> HIDE DEF T
<1>5. \A i \in Nat : i \in T BY <1>3, <1>4, Induction
<1> QED BY <1>1, <1>2, <1>5 DEF T

\* What was read of one source, up to a bit they have in common, is read of the other.
LEMMA CountsLocal ==
  ASSUME NEW s \in Seq(0..1), NEW t \in Seq(0..1), NEW c, Agree(s, t, c), NEW top,
         NEW n \in Nat, NEW g, CountsUpTo(g, s, top, n), NEW h, CountsUpTo(h, t, top, n),
         g[n].remaining >= 1, g[n].at <= c
  PROVE  g[n] = h[n] /\ Field(t, 0, 4) = Field(s, 0, 4)
<1>g. /\ g[0] = Begun(s)
      /\ \A i \in Nat : i < n => g[i + 1] = ReadCount(s, top, g[i])
      /\ \A i \in Nat : i <= n => g[i] \in Readings /\ g[i].at >= 4
  BY CountsTyped
<1>h. /\ h[0] = Begun(t)
      /\ \A i \in Nat : i < n => h[i + 1] = ReadCount(t, top, h[i])
  BY CountsTyped
<1>c. c \in Nat BY DEF Agree
<1>1. Field(t, 0, 4) = Field(s, 0, 4)
  <2>1. g[n].at \in Nat /\ g[n].at >= 4 BY <1>g DEF Readings
  <2>2. 0 \in Nat /\ 4 \in Nat /\ 0 + 4 <= c BY <2>1, <1>c
  <2> QED BY <2>2, FieldLocal
<1> DEFINE T == {i \in Nat : i <= n /\ g[i].remaining >= 1 /\ g[i].at <= c => g[i] = h[i]}
<1>2. 0 \in T BY <1>1, <1>g, <1>h DEF Begun
<1>3. ASSUME NEW i \in Nat, i \in T PROVE i + 1 \in T
  <2> SUFFICES ASSUME i + 1 <= n, g[i + 1].remaining >= 1, g[i + 1].at <= c
               PROVE  g[i + 1] = h[i + 1]
    OBVIOUS
  <2>1. i < n /\ i <= n OBVIOUS
  <2>2. g[i] \in Readings /\ g[i + 1] \in Readings BY <1>g, <2>1
  <2>3. g[i + 1] = ReadCount(s, top, g[i]) BY <1>g, <2>1
  <2>4. g[i].at <= g[i + 1].at /\ (g[i].remaining <= 1 => g[i + 1] = g[i])
    BY <2>2, <2>3, ReadingTyped
  <2>5. /\ g[i].at \in Nat /\ g[i + 1].at \in Nat
        /\ g[i].remaining \in Int /\ g[i + 1].remaining \in Int
    BY <2>2 DEF Readings
  <2>6. g[i].at <= c BY <2>4, <2>5, <1>c, SMTT(30)
  <2>7. g[i].remaining >= 1 BY <2>4, <2>5
  <2>8. g[i] = h[i] BY <2>1, <2>6, <2>7, <1>3
  <2>9. h[i + 1] = ReadCount(t, top, g[i]) BY <1>h, <2>1, <2>8
  <2>10. ReadCount(t, top, g[i]) = ReadCount(s, top, g[i])
    <3>1. ReadCount(s, top, g[i]).remaining >= 1 /\ ReadCount(s, top, g[i]).at <= c BY <2>3
    <3> QED BY <3>1, <2>2, CountLocal
  <2> QED BY <2>3, <2>9, <2>10
<1> HIDE DEF T
<1>4. \A i \in Nat : i \in T BY <1>2, <1>3, Induction
<1>5. g[n] = h[n] BY <1>4 DEF T
<1> QED BY <1>1, <1>5

\* A description says the same, whatever is behind it (read_normalized_counts).
LEMMA ReadLocal ==
  ASSUME NEW s \in Seq(0..1), NEW t \in Seq(0..1), NEW top \in Nat,
         ReadDescription(s, top).accepted,
         ReadDescription(s, top).consumed <= Len(t),
         \A i \in 1..ReadDescription(s, top).consumed : s[i] = t[i]
  PROVE  ReadDescription(t, top) = ReadDescription(s, top)
<1> DEFINE n == top + 1
<1>0. n \in Nat OBVIOUS
<1>g. PICK g : CountsUpTo(g, s, top, n) /\ ReadDescription(s, top) = Concluded(s, g[n])
  BY ReadBy
<1>h. PICK h : CountsUpTo(h, t, top, n) /\ ReadDescription(t, top) = Concluded(t, h[n])
  BY ReadBy
<1> HIDE DEF n
<1> DEFINE c == 8 * ((g[n].at + 7) \div 8)
<1>1. ~ (\/ Field(s, 0, 4) + 5 > 12 \/ g[n].remaining # 1 \/ c > Len(s))
  <2> SUFFICES ASSUME \/ Field(s, 0, 4) + 5 > 12 \/ g[n].remaining # 1 \/ c > Len(s)
               PROVE  FALSE
    OBVIOUS
  <2>1. Concluded(s, g[n]) = Refused BY DEF Concluded
  <2> QED BY <2>1, <1>g DEF Refused
<1>2. Concluded(s, g[n]) =
        [accepted |-> TRUE, consumed |-> c,
         counts   |-> [log    |-> Field(s, 0, 4) + 5,
                       values |-> [i \in 0..(Len(g[n].values) - 1) |-> g[n].values[i + 1]]]]
  BY <1>1 DEF Concluded
<1>3. ReadDescription(s, top).consumed = c BY <1>2, <1>g
<1>4. g[n] \in Readings
  <2>1. n <= n BY <1>0
  <2>2. \A i \in Nat : i <= n => g[i] \in Readings BY <1>0, <1>g, CountsTyped
  <2> QED BY <1>0, <2>1, <2>2
<1>5. g[n].at \in Nat BY <1>4 DEF Readings
<1>6. c \in Nat /\ g[n].at <= c
  <2> DEFINE a == g[n].at
  <2>1. a \in Nat BY <1>5
  <2> HIDE DEF a
  <2>2. 8 * ((a + 7) \div 8) \in Nat /\ a <= 8 * ((a + 7) \div 8) BY <2>1
  <2> QED BY <2>2 DEF a
<1> HIDE DEF c
<1>7. Agree(s, t, c)
  <2>1. Len(s) \in Nat /\ c <= Len(s) BY <1>1, <1>6
  <2> QED BY <1>3, <1>6, <2>1 DEF Agree
<1>8. g[n].remaining = 1 BY <1>1
<1>9. g[n] = h[n] /\ Field(t, 0, 4) = Field(s, 0, 4)
  <2>1. g[n].remaining >= 1 BY <1>8
  <2> QED BY <2>1, <1>0, <1>g, <1>h, <1>6, <1>7, CountsLocal
<1>10. ~ c > Len(t) BY <1>6, <1>7 DEF Agree
<1>11. Concluded(t, h[n]) = Concluded(s, g[n]) BY <1>1, <1>9, <1>10 DEF Concluded, c
<1> QED BY <1>11, <1>g, <1>h

\* What a source starts with, when a description is read of it.
LEMMA ReadTyped ==
  ASSUME NEW s \in Seq(0..1), NEW top \in Nat, ReadDescription(s, top).accepted
  PROVE  /\ ReadDescription(s, top).consumed \in Nat
         /\ ReadDescription(s, top).consumed <= Len(s)
         /\ ReadDescription(s, top).counts.log \in Nat
<1> DEFINE n == top + 1
<1>0. n \in Nat OBVIOUS
<1>g. PICK g : CountsUpTo(g, s, top, n) /\ ReadDescription(s, top) = Concluded(s, g[n])
  BY ReadBy
<1> HIDE DEF n
<1>1. g[n] \in Readings
  <2>1. n <= n BY <1>0
  <2>2. \A i \in Nat : i <= n => g[i] \in Readings BY <1>0, <1>g, CountsTyped
  <2> QED BY <1>0, <2>1, <2>2
<1> DEFINE a == g[n].at
           c == 8 * ((a + 7) \div 8)
<1>2. a \in Nat BY <1>1 DEF Readings
<1> HIDE DEF a
<1>3. c \in Nat BY <1>2
<1>4. ~ (\/ Field(s, 0, 4) + 5 > 12 \/ g[n].remaining # 1 \/ c > Len(s))
  <2> SUFFICES ASSUME \/ Field(s, 0, 4) + 5 > 12 \/ g[n].remaining # 1 \/ c > Len(s)
               PROVE  FALSE
    OBVIOUS
  <2>1. Concluded(s, g[n]) = Refused BY DEF Concluded, a
  <2> QED BY <2>1, <1>g DEF Refused
<1>5. Concluded(s, g[n]).consumed = c /\ Concluded(s, g[n]).counts.log = Field(s, 0, 4) + 5
  BY <1>4 DEF Concluded, a
<1>7. Field(s, 0, 4) \in Nat
  <2>1. 0 \in Nat /\ 4 \in Nat OBVIOUS
  <2> QED BY <2>1, FieldTyped
<1>6. Len(s) \in Nat /\ c <= Len(s) BY <1>3, <1>4
<1> QED BY <1>3, <1>5, <1>6, <1>7, <1>g

\* IsPrefix, element by element.
LEMMA PrefixIs ==
  ASSUME NEW S, NEW p \in Seq(S), NEW q \in Seq(S)
  PROVE  IsPrefix(p, q) <=> Len(p) <= Len(q) /\ \A i \in 1..Len(p) : p[i] = q[i]
<1>0. Len(p) \in Nat /\ Len(q) \in Nat OBVIOUS
<1>1. ASSUME Len(p) <= Len(q)
      PROVE  SubSeq(p, 1, Len(p)) = SubSeq(q, 1, Len(p)) <=> \A i \in 1..Len(p) : p[i] = q[i]
  <2> DEFINE n == Len(p)
             x == SubSeq(p, 1, n)
             y == SubSeq(q, 1, n)
  <2>1. x \in Seq(S) /\ Len(x) = n /\ \A i \in 1..n : x[i] = p[i] BY <1>0
  <2>2. y \in Seq(S) /\ Len(y) = n /\ \A i \in 1..n : y[i] = q[i] BY <1>0, <1>1
  <2> HIDE DEF x, y, n
  <2>3. ASSUME x = y PROVE \A i \in 1..n : p[i] = q[i] BY <2>1, <2>2, <2>3
  <2>4. ASSUME \A i \in 1..n : p[i] = q[i] PROVE x = y
    <3>1. \A i \in 1..Len(x) : x[i] = y[i] BY <2>1, <2>2, <2>4
    <3> QED BY <2>1, <2>2, <3>1, SeqEqual
  <2>5. x = y <=> \A i \in 1..n : p[i] = q[i] BY <2>3, <2>4
  <2> QED BY <2>5 DEF x, y, n
<1> QED BY <1>0, <1>1 DEF IsPrefix

----------------------------------------------------------------------------
(* The cache.                                                              *)

\* The numbers of codes are those of the three tables.
LEMMA LargestCodes ==
  ASSUME NEW k \in Kinds
  PROVE  LargestCode(k) \in Nat
BY DEF Kinds, LargestCode

\* All of d is a description, of a table of kind k.
Describes(d, k) ==
  LET read == ReadDescription(d, LargestCode(k))
  IN  /\ read.accepted /\ read.consumed = Len(d)
      /\ read.counts.log <= MaximumLog(k) /\ Fills(read.counts)

TableOf(d, k) ==
  [description |-> d, table |-> DecodingTable(ReadDescription(d, LargestCode(k)).counts)]

\* What a place of the cache holds.
Holdings(k) == {TableOf(d, k) : d \in {d \in Seq(0..1) : Describes(d, k)}} \cup {None}

CacheType(c, k) ==
  c \in [first : Holdings(k), extra : [1..ExtraTables -> Holdings(k)],
         next : 1..ExtraTables, misses : 0..2]

\* Extra tables are only behind a first one, and no description is there twice.
Single(c) ==
  /\ c.first = None => \A i \in 1..ExtraTables : c.extra[i] = None
  /\ \A i, j \in Places :
       At(c, i) # None /\ At(c, j) # None /\ At(c, i).description = At(c, j).description => i = j

CacheInv ==
  kind \in Kinds /\ failed \in BOOLEAN /\ CacheType(cache, kind) /\ Single(cache)

\* What is kept was described.
LEMMA HoldingIs ==
  ASSUME NEW k \in Kinds, NEW e \in Holdings(k), e # None
  PROVE  /\ e.description \in Seq(0..1) /\ Describes(e.description, k)
         /\ e.table = DecodingTable(ReadDescription(e.description, LargestCode(k)).counts)
<1>1. PICK d \in Seq(0..1) : Describes(d, k) /\ e = TableOf(d, k) BY DEF Holdings
<1> QED BY <1>1 DEF TableOf

\* Every place holds a described table or none.
LEMMA PlacesHold ==
  ASSUME NEW k, NEW c, CacheType(c, k), NEW i \in Places
  PROVE  At(c, i) \in Holdings(k)
<1>1. CASE i = 0 BY <1>1 DEF CacheType, At
<1>2. CASE i # 0
  <2>1. i \in 1..ExtraTables BY <1>2, ExtraTablesAssumption DEF Places
  <2> QED BY <1>2, <2>1 DEF CacheType, At
<1> QED BY <1>1, <1>2

\* What is built of a source is what its description says, and nothing behind it.
LEMMA BuiltIs ==
  ASSUME NEW k \in Kinds, NEW source \in Seq(0..1), BuiltTable(k, source).accepted
  PROVE  /\ Entry(BuiltTable(k, source)) \in Holdings(k)
         /\ BuiltTable(k, source).description \in Seq(0..1)
         /\ IsPrefix(BuiltTable(k, source).description, source)
<1> DEFINE top  == LargestCode(k)
           read == ReadDescription(source, top)
           d    == SubSeq(source, 1, read.consumed)
<1>0. top \in Nat BY LargestCodes
<1>1. /\ read.accepted /\ ~ read.counts.log > MaximumLog(k) /\ Fills(read.counts)
  <2> SUFFICES ASSUME ~read.accepted \/ read.counts.log > MaximumLog(k) \/ ~Fills(read.counts)
               PROVE  FALSE
    OBVIOUS
  <2>1. BuiltTable(k, source) = Refused BY DEF BuiltTable, BuiltOf
  <2> QED BY <2>1 DEF Refused
<1>2. BuiltTable(k, source) = [accepted |-> TRUE, description |-> d,
                               table |-> DecodingTable(read.counts)]
  BY <1>1 DEF BuiltTable, BuiltOf
<1>3. read.consumed \in Nat /\ read.consumed <= Len(source) BY <1>0, <1>1, ReadTyped
<1>4. d \in Seq(0..1) /\ Len(d) = read.consumed /\ \A i \in 1..read.consumed : d[i] = source[i]
  <2> DEFINE c == read.consumed
  <2> HIDE DEF read
  <2>1. c \in Nat /\ c <= Len(source) BY <1>3
  <2> HIDE DEF c
  <2>2. /\ SubSeq(source, 1, c) \in Seq(0..1) /\ Len(SubSeq(source, 1, c)) = c
        /\ \A i \in 1..c : SubSeq(source, 1, c)[i] = source[i]
    BY <2>1
  <2> QED BY <2>2 DEF c
<1> HIDE DEF d, top
<1>5. ReadDescription(d, top) = read
  <2>1. read.consumed <= Len(d) BY <1>3, <1>4
  <2>2. \A i \in 1..read.consumed : source[i] = d[i] BY <1>4
  <2> QED BY <1>0, <1>1, <1>4, <2>1, <2>2, ReadLocal
<1>6. IsPrefix(d, source)
  <2>1. Len(d) <= Len(source) /\ \A i \in 1..Len(d) : d[i] = source[i] BY <1>3, <1>4
  <2> QED BY <1>4, <2>1, PrefixIs
<1>7. read.counts.log <= MaximumLog(k)
  <2>1. read.counts.log \in Int /\ MaximumLog(k) \in Int
    <3>1. MaximumLog(k) \in Int BY DEF MaximumLog
    <3>2. read.counts.log \in Int BY <1>0, <1>1, ReadTyped
    <3> QED BY <3>1, <3>2
  <2> QED BY <1>1, <2>1
<1>8. Describes(d, k) BY <1>1, <1>4, <1>5, <1>7 DEF Describes, top
<1>9. Entry(BuiltTable(k, source)) = TableOf(d, k) BY <1>2, <1>5 DEF Entry, TableOf, top
<1> QED BY <1>2, <1>4, <1>6, <1>8, <1>9 DEF Holdings

\* What a kept table answers, the source's own description says.
LEMMA AnswerIs ==
  ASSUME NEW k \in Kinds, NEW e \in Holdings(k), NEW source \in Seq(0..1), Answers(e, source)
  PROVE  BuiltTable(k, source) = [accepted |-> TRUE, description |-> e.description,
                                  table |-> e.table]
<1> DEFINE top  == LargestCode(k)
           d    == e.description
           told == ReadDescription(d, top)
           read == ReadDescription(source, top)
<1>0. top \in Nat BY LargestCodes
<1>1. e # None /\ IsPrefix(d, source) BY DEF Answers
<1>2. /\ d \in Seq(0..1) /\ e.table = DecodingTable(told.counts)
      /\ told.accepted /\ told.consumed = Len(d)
      /\ told.counts.log <= MaximumLog(k) /\ Fills(told.counts)
  BY <1>1, HoldingIs DEF Describes
<1> HIDE DEF d
<1>3. Len(d) <= Len(source) /\ \A i \in 1..Len(d) : d[i] = source[i] BY <1>1, <1>2, PrefixIs
<1> HIDE DEF top
<1>4. read = told BY <1>0, <1>2, <1>3, ReadLocal
<1>5. SubSeq(source, 1, Len(d)) = d
  <2> DEFINE n == Len(d)
             x == SubSeq(source, 1, n)
  <2>1. n \in Nat /\ n <= Len(source) BY <1>2, <1>3
  <2>2. x \in Seq(0..1) /\ Len(x) = n /\ \A i \in 1..n : x[i] = source[i]
    <3> HIDE DEF n
    <3> QED BY <2>1
  <2> HIDE DEF x
  <2>3. \A i \in 1..Len(x) : x[i] = d[i] BY <1>3, <2>2
  <2>4. x = d BY <1>2, <2>2, <2>3, SeqEqual
  <2> QED BY <2>4 DEF x
<1>6. ~ told.counts.log > MaximumLog(k)
  <2>1. told.counts.log \in Nat BY <1>0, <1>2, ReadTyped
  <2>2. MaximumLog(k) \in Nat BY DEF MaximumLog
  <2> QED BY <1>2, <2>1, <2>2
<1> HIDE DEF told
<1>7. BuiltTable(k, source) = [accepted |-> TRUE, description |-> SubSeq(source, 1, read.consumed),
                               table |-> DecodingTable(read.counts)]
  BY <1>2, <1>4, <1>6 DEF BuiltTable, BuiltOf, top
<1> QED BY <1>2, <1>4, <1>5, <1>7 DEF d

\* A miss is counted, and nothing else changes; the second one has looked everywhere.
LEMMA MissedHolds ==
  ASSUME NEW k, NEW c, CacheType(c, k), Single(c)
  PROVE  /\ CacheType(Missed(c), k) /\ Single(Missed(c))
         /\ Missed(c).first = c.first /\ \A i \in Places : At(Missed(c), i) = At(c, i)
         /\ c.first # None /\ KeepsExtra(Missed(c)) => c.misses # 0
<1>1. CASE Missed(c) = c BY <1>1 DEF KeepsExtra, CacheType
<1>2. CASE c.misses # 2 /\ Missed(c) = [c EXCEPT !.misses = @ + 1]
  <2> DEFINE m == Missed(c)
  <2>1. m = [c EXCEPT !.misses = c.misses + 1] BY <1>2
  <2>2. c.misses \in 0..2 /\ c.misses + 1 \in 0..2 BY <1>2 DEF CacheType
  <2> HIDE DEF m
  <2>3. /\ m \in [first : Holdings(k), extra : [1..ExtraTables -> Holdings(k)],
                  next : 1..ExtraTables, misses : 0..2]
        /\ m.first = c.first /\ m.extra = c.extra /\ m.misses = c.misses + 1
    BY <2>1, <2>2 DEF CacheType
  <2>4. \A i \in Places : At(m, i) = At(c, i) BY <2>3 DEF At
  <2>5. Single(m) BY <2>3, <2>4 DEF Single
  <2>6. KeepsExtra(m) => c.misses # 0 BY <2>2, <2>3 DEF KeepsExtra
  <2> QED BY <2>3, <2>4, <2>5, <2>6 DEF CacheType, m
<1> QED BY <1>1, <1>2 DEF Missed

\* A table may be kept when there is none of its description, or no place for it.
LEMMA KeptHolds ==
  ASSUME NEW k, NEW c, CacheType(c, k), Single(c), NEW e \in Holdings(k),
         c.first # None /\ KeepsExtra(c) =>
           \A i \in Places : At(c, i) # None => At(c, i).description # e.description
  PROVE  CacheType(Kept(c, e), k) /\ Single(Kept(c, e))
<1> DEFINE q == Kept(c, e)
<1>t. c \in [first : Holdings(k), extra : [1..ExtraTables -> Holdings(k)],
             next : 1..ExtraTables, misses : 0..2]
  BY DEF CacheType
<1>0. ExtraTables \in Nat /\ 0 \in Places /\ \A i \in Places : i # 0 => i \in 1..ExtraTables
  BY ExtraTablesAssumption DEF Places
<1>1. CASE c.first = None
  <2>1. q = [c EXCEPT !.first = e] BY <1>1 DEF Kept
  <2> HIDE DEF q
  <2>2. CacheType(q, k) /\ q.first = e /\ q.extra = c.extra BY <1>t, <2>1 DEF CacheType
  <2>3. \A i \in Places : i # 0 => At(q, i) = None BY <1>0, <1>1, <2>2 DEF Single, At
  <2>4. Single(q)
    <3>1. q.first = None => \A i \in 1..ExtraTables : q.extra[i] = None
      BY <1>1, <2>2 DEF Single
    <3>2. ASSUME NEW i \in Places, NEW j \in Places, At(q, i) # None, At(q, j) # None
          PROVE  i = j
      BY <2>3, <3>2
    <3> QED BY <3>1, <3>2 DEF Single
  <2> QED BY <2>2, <2>4 DEF q
<1>2. CASE c.first # None /\ KeepsExtra(c)
  <2>1. q = [c EXCEPT !.extra[c.next] = e, !.next = (c.next % ExtraTables) + 1]
    BY <1>2 DEF Kept
  <2>2. c.next \in 1..ExtraTables BY <1>t
  <2>3. (c.next % ExtraTables) + 1 \in 1..ExtraTables
    <3> DEFINE r == c.next % ExtraTables
    <3>1. c.next \in Int /\ ExtraTables \in Nat /\ ExtraTables > 0 BY <2>2, ExtraTablesAssumption
    <3>2. r \in 0..(ExtraTables - 1) BY <3>1
    <3> HIDE DEF r
    <3>3. r + 1 \in 1..ExtraTables BY <3>1, <3>2
    <3> QED BY <3>3 DEF r
  <2> DEFINE x == [c.extra EXCEPT ![c.next] = e]
  <2>4. x \in [1..ExtraTables -> Holdings(k)] BY <1>t, <2>2
  <2>5. /\ x[c.next] = e
        /\ \A i \in 1..ExtraTables : i # c.next => x[i] = c.extra[i]
    BY <1>t, <2>2
  <2>6. q.first = c.first /\ q.extra = x BY <1>t, <2>1
  <2>7. CacheType(q, k) BY <1>t, <2>1, <2>3, <2>4 DEF CacheType
  <2> HIDE DEF q, x
  <2>8. /\ c.next # 0 /\ At(q, c.next) = e
        /\ \A i \in Places : i # c.next => At(q, i) = At(c, i)
    BY <1>0, <2>2, <2>5, <2>6 DEF At
  <2>9. Single(q)
    <3>1. q.first # None BY <1>2, <2>6
    <3>2. ASSUME NEW i \in Places, NEW j \in Places, At(q, i) # None, At(q, j) # None,
                 At(q, i).description = At(q, j).description, i # j
          PROVE  FALSE
      <4>1. CASE i = c.next
        <5>1. At(q, j) = At(c, j) BY <2>8, <3>2, <4>1
        <5> QED BY <1>2, <2>8, <3>2, <4>1, <5>1
      <4>2. CASE j = c.next
        <5>1. At(q, i) = At(c, i) BY <2>8, <3>2, <4>2
        <5> QED BY <1>2, <2>8, <3>2, <4>2, <5>1
      <4>3. CASE i # c.next /\ j # c.next
        <5>1. At(q, i) = At(c, i) /\ At(q, j) = At(c, j) BY <2>8, <4>3
        <5> QED BY <3>2, <5>1 DEF Single
      <4> QED BY <4>1, <4>2, <4>3
    <3> QED BY <3>1, <3>2 DEF Single
  <2> QED BY <2>7, <2>9 DEF q
<1>3. CASE c.first # None /\ ~ KeepsExtra(c)
  <2>1. q = c BY <1>3 DEF Kept
  <2> QED BY <2>1
<1> QED BY <1>1, <1>2, <1>3

\* A description that is loaded leaves the cache in order: it is kept only where no kept
\* table answered.
LEMMA DescribedHolds ==
  ASSUME NEW k \in Kinds, NEW c, CacheType(c, k), Single(c), NEW source \in Seq(0..1)
  PROVE  CacheType(Described(k, source, c).cache, k) /\ Single(Described(k, source, c).cache)
<1> DEFINE after == IF Answers(c.first, source) THEN c ELSE Missed(c)
           built == BuiltTable(k, source)
<1>1. CacheType(after, k) /\ Single(after) BY MissedHolds
<1>2. CASE Described(k, source, c).cache = after BY <1>1, <1>2
<1>3. CASE /\ Answering(c, source) = {} /\ built.accepted
           /\ Described(k, source, c).cache = Kept(after, Entry(built))
  <2>1. /\ Entry(built) \in Holdings(k) /\ built.description \in Seq(0..1)
        /\ IsPrefix(built.description, source)
    BY <1>3, BuiltIs
  <2>2. Entry(built).description = built.description BY DEF Entry
  <2>3. 0 \in Places BY ExtraTablesAssumption DEF Places
  <2>4. ~ Answers(c.first, source) BY <1>3, <2>3 DEF Answering, At
  <2>5. after = Missed(c) BY <2>4
  <2>6. ASSUME after.first # None, KeepsExtra(after), NEW i \in Places, At(after, i) # None,
               At(after, i).description = Entry(built).description
        PROVE  FALSE
    <3>1. /\ c.first # None /\ c.misses # 0 /\ At(after, i) = At(c, i)
      BY <2>5, <2>6, MissedHolds
    <3>2. Answers(At(c, i), source) BY <2>1, <2>2, <2>6, <3>1 DEF Answers
    <3>3. i \in Answering(c, source) BY <3>1, <3>2 DEF Answering
    <3> QED BY <1>3, <3>3
  <2> HIDE DEF after, built
  <2>7. after.first # None /\ KeepsExtra(after) =>
          \A i \in Places : At(after, i) # None =>
            At(after, i).description # Entry(built).description
    BY <2>6
  <2> QED BY <1>1, <1>3, <2>1, <2>7, KeptHolds
<1> QED BY <1>2, <1>3 DEF Described, Taken

----------------------------------------------------------------------------
(* The specification.                                                      *)

\* The empty cache is in order.
LEMMA CacheBegins == CacheInit => CacheInv
<1> SUFFICES ASSUME CacheInit PROVE CacheInv OBVIOUS
<1>1. /\ kind \in Kinds /\ failed \in BOOLEAN
      /\ cache = [first |-> None, extra |-> [i \in 1..ExtraTables |-> None], next |-> 1,
                  misses |-> 0]
  BY DEF CacheInit, EmptyCache
<1>2. None \in Holdings(kind) BY DEF Holdings
<1>3. 1 \in 1..ExtraTables BY ExtraTablesAssumption
<1>4. [i \in 1..ExtraTables |-> None] \in [1..ExtraTables -> Holdings(kind)] BY <1>2
<1>5. CacheType(cache, kind) BY <1>1, <1>2, <1>3, <1>4 DEF CacheType
<1>6. \A i \in Places : At(cache, i) = None BY <1>1, ExtraTablesAssumption DEF Places, At
<1>7. Single(cache) BY <1>1, <1>6 DEF Single
<1> QED BY <1>1, <1>5, <1>7 DEF CacheInv

\* load_sequence_table keeps it so.
LEMMA LoadHolds ==
  ASSUME CacheInv, NEW mode \in Modes, NEW source \in Sources, Load(mode, source)
  PROVE  CacheInv'
<1>1. kind \in Kinds /\ CacheType(cache, kind) /\ Single(cache) BY DEF CacheInv
<1>2. source \in Seq(0..1) BY SourcesAssumption
<1>3. /\ cache' = Loaded(kind, mode, source, cache).cache
      /\ failed' = ~ Loaded(kind, mode, source, cache).accepted
      /\ kind' = kind
  BY DEF Load
<1>4. CacheType(cache', kind) /\ Single(cache')
  <2>1. CASE mode = "predefined" \/ mode = "run_length"
    <3>1. Loaded(kind, mode, source, cache).cache = cache BY <2>1 DEF Loaded
    <3> QED BY <1>1, <1>3, <3>1
  <2>2. CASE mode = "compressed"
    <3>1. Loaded(kind, mode, source, cache) = Described(kind, source, cache) BY <2>2 DEF Loaded
    <3> QED BY <1>1, <1>2, <1>3, <3>1, DescribedHolds
  <2> QED BY <2>1, <2>2 DEF Modes
<1>5. CacheType(cache, kind)' BY <1>3, <1>4 DEF CacheType
<1>6. Single(cache)' BY <1>4 DEF Single, At, Places
<1> QED BY <1>1, <1>3, <1>5, <1>6 DEF CacheInv

\* reset_frame_state forgets misses, not tables.
LEMMA StartFrameHolds ==
  ASSUME CacheInv, StartFrame
  PROVE  CacheInv'
<1>1. /\ kind \in Kinds /\ Single(cache)
      /\ cache \in [first : Holdings(kind), extra : [1..ExtraTables -> Holdings(kind)],
                    next : 1..ExtraTables, misses : 0..2]
  BY DEF CacheInv, CacheType
<1>2. kind' = kind /\ failed' = FALSE /\ cache' = [cache EXCEPT !.misses = 0]
  BY DEF StartFrame, Restarted
<1>3. /\ CacheType(cache', kind)
      /\ cache'.first = cache.first /\ cache'.extra = cache.extra
  BY <1>1, <1>2 DEF CacheType
<1>4. \A i \in Places : At(cache', i) = At(cache, i) BY <1>3 DEF At
<1>5. Single(cache') BY <1>1, <1>3, <1>4 DEF Single
<1>6. CacheType(cache, kind)' BY <1>2, <1>3 DEF CacheType
<1>7. Single(cache)' BY <1>5 DEF Single, At, Places
<1> QED BY <1>1, <1>2, <1>6, <1>7 DEF CacheInv

\* Behind every load and every start of a frame the cache is as load_sequence_table
\* expects it.
THEOREM CacheInvariance == CacheSpec => []CacheInv
<1>1. CacheInv /\ [CacheNext]_cacheVars => CacheInv'
  <2> SUFFICES ASSUME CacheInv, [CacheNext]_cacheVars PROVE CacheInv' OBVIOUS
  <2>1. ASSUME NEW mode \in Modes, NEW source \in Sources, Load(mode, source)
        PROVE  CacheInv'
    BY <2>1, LoadHolds
  <2>2. CASE StartFrame BY <2>2, StartFrameHolds
  <2>3. CASE UNCHANGED cacheVars
    BY <2>3 DEF cacheVars, CacheInv, CacheType, Single, At, Places
  <2> QED BY <2>1, <2>2, <2>3 DEF CacheNext
<1> QED BY <1>1, CacheBegins, PTL DEF CacheSpec

\* A kept table is the one its description says, and none is kept twice
\* (load_sequence_table).
THEOREM CachesHold == CacheSpec => []CachesAreTrue
<1>1. CacheInv => CachesAreTrue
  <2> SUFFICES ASSUME CacheInv PROVE CachesAreTrue OBVIOUS
  <2>1. kind \in Kinds /\ CacheType(cache, kind) /\ Single(cache) BY DEF CacheInv
  <2>2. ASSUME NEW i \in KeptPlaces, NEW j \in KeptPlaces,
               At(cache, i).description = At(cache, j).description
        PROVE  i = j
    BY <2>1, <2>2 DEF KeptPlaces, Single
  <2>3. ASSUME NEW i \in KeptPlaces
        PROVE  LET read == ReadDescription(At(cache, i).description, LargestCode(kind))
               IN  /\ read.accepted /\ read.consumed = Len(At(cache, i).description)
                   /\ At(cache, i).table = DecodingTable(read.counts)
    <3>1. At(cache, i) # None /\ At(cache, i) \in Holdings(kind)
      BY <2>1, PlacesHold DEF KeptPlaces
    <3> QED BY <2>1, <3>1, HoldingIs DEF Describes
  <2> QED BY <2>2, <2>3 DEF CachesAreTrue
<1> QED BY <1>1, CacheInvariance, PTL

\* Of what answers a source, the first place.
LEMMA FirstAnswer ==
  ASSUME NEW c, NEW source, Answering(c, source) # {}
  PROVE  (CHOOSE i \in Answering(c, source) : \A j \in Answering(c, source) : i <= j)
           \in Answering(c, source)
<1> DEFINE A == Answering(c, source)
<1>1. A \subseteq Nat BY ExtraTablesAssumption DEF Answering, Places
<1> HIDE DEF A
<1>2. A # {} BY DEF A
<1>3. \E i \in A : \A j \in A : i <= j BY <1>1, <1>2, LeastNatural
<1>4. (CHOOSE i \in A : \A j \in A : i <= j) \in A BY <1>3
<1> QED BY <1>4 DEF A

\* What is loaded from the cache is what would have been read, from as many bits
\* (load_sequence_table, find_extra_sequence_table).
THEOREM TransparencyHolds == CacheSpec => []AnsweredAsRead
<1>1. CacheInv => AnsweredAsRead
  <2> SUFFICES ASSUME CacheInv, NEW source \in Sources, Answering(cache, source) # {}
               PROVE  LET loaded == Loaded(kind, "compressed", source, cache)
                          read   == Loaded(kind, "compressed", source, EmptyCache)
                      IN  /\ loaded.accepted /\ read.accepted
                          /\ loaded.table = read.table /\ loaded.used = read.used
    BY Zenon DEF AnsweredAsRead
  <2> DEFINE built  == BuiltTable(kind, source)
             loaded == Described(kind, source, cache)
             read   == Described(kind, source, EmptyCache)
             i      == CHOOSE i \in Answering(cache, source) :
                         \A j \in Answering(cache, source) : i <= j
             hit    == At(cache, i)
  <2>1. kind \in Kinds /\ CacheType(cache, kind) /\ source \in Seq(0..1)
    BY SourcesAssumption DEF CacheInv
  <2>2. Answering(EmptyCache, source) = {}
    <3>1. \A p \in Places : At(EmptyCache, p) = None
      BY ExtraTablesAssumption DEF Places, At, EmptyCache
    <3> QED BY <3>1 DEF Answering, Answers
  <2>3. built.accepted => /\ read.accepted = TRUE /\ read.table = built.table
                          /\ read.used = Len(built.description)
    BY <2>2 DEF Described, Taken
  <2>4. i \in Answering(cache, source) BY FirstAnswer
  <2>5. /\ loaded.accepted = TRUE /\ loaded.table = hit.table
        /\ loaded.used = Len(hit.description)
    BY DEF Described, Taken
  <2> HIDE DEF i
  <2>6. i \in Places /\ Answers(hit, source) BY <2>4 DEF Answering
  <2>7. hit \in Holdings(kind) BY <2>1, <2>6, PlacesHold
  <2>8. built = [accepted |-> TRUE, description |-> hit.description, table |-> hit.table]
    BY <2>1, <2>6, <2>7, AnswerIs
  <2>9. /\ loaded.accepted = TRUE /\ read.accepted = TRUE
        /\ loaded.table = read.table /\ loaded.used = read.used
    <3> HIDE DEF loaded, read, built, hit
    <3> QED BY <2>3, <2>5, <2>8
  <2> QED BY <2>9 DEF Loaded
<1> QED BY <1>1, CacheInvariance, PTL
=============================================================================
