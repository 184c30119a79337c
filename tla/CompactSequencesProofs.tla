----------------------- MODULE CompactSequencesProofs -----------------------
(***************************************************************************)
(* The compact records lose nothing, whatever sixteen bits are worth and   *)
(* however many sequences a block has; and the literals of a block are its *)
(* own, whoever copies them.                                               *)
(*                                                                         *)
(* The argument.  The sequences lie behind each other in a block, so two   *)
(* of them have at most its bytes together.  A sequence with a long length *)
(* has more than half of the largest block, so there is one at most, and   *)
(* only one of its lengths is long.  Hence push_back finds the index free, *)
(* and the index and flag say of every record what was cut off.  So the    *)
(* encoder stands, at every sequence, where the parser stood; both have    *)
(* copied the same literals before it, and a run is never longer than what *)
(* is left of the block, which the storage has room for.                   *)
(***************************************************************************)
EXTENDS LiteralGathering, TLAPS

Sequence == [begin : Nat, literal : Nat, match : Nat, offset : Nat, repeat : 0..3]

Record == [offsetBase : Nat, literals : Nat, matchBase : Nat]

TypeOK ==
  /\ phase \in {"idle", "parse", "encode"}
  /\ size \in 0..(2 * Half) /\ anchor \in 0..size
  /\ sequences \in Seq(Sequence) /\ records \in Seq(Record)
  /\ exception \in Nat /\ longLiterals \in BOOLEAN
  /\ index \in Nat \ {0} /\ position \in Nat

End(sequence) == sequence.begin + sequence.literal + sequence.match

\* A sequence push_back takes, inside the parsed bytes.
Placed(sequence) ==
  /\ sequence.match >= ShortMatch /\ End(sequence) <= anchor
  /\ sequence.repeat = 0 => sequence.offset > 0

\* The sequences are inside the block, behind each other and without gaps.
Apart ==
  /\ \A i \in 1..Len(sequences) : Placed(sequences[i])
  /\ \A i, j \in 1..Len(sequences) : i < j => End(sequences[i]) <= sequences[j].begin
  /\ \A i \in 1..Len(sequences) :
       End(sequences[i]) = IF i < Len(sequences) THEN sequences[i + 1].begin ELSE anchor
  /\ IF Len(sequences) = 0 THEN anchor = 0 ELSE sequences[1].begin = 0

Recorded ==
  /\ Len(records) = Len(sequences)
  /\ \A i \in 1..Len(records) : records[i] = Packed(sequences[i])

\* The index names the long sequence, and none when there is none.
Named ==
  /\ exception # 0 => exception \in 1..Len(sequences) /\ IsLong(sequences[exception])
  /\ \A i \in 1..Len(sequences) :
       IsLong(sequences[i]) => exception = i /\ longLiterals = (sequences[i].literal >= Half)

Walks ==
  phase = "encode" =>
    /\ index <= Len(sequences) + 1 /\ sequences # <<>>
    /\ position = IF index <= Len(sequences) THEN sequences[index].begin ELSE anchor

Starts == phase = "parse" => index = 1 /\ position = 0

IInv == TypeOK /\ Apart /\ Recorded /\ Named /\ Walks /\ Starts

----------------------------------------------------------------------------
\* What is left of a length that is cut once: half of the largest block less.
LEMMA CutOnce ==
  ASSUME NEW half \in Nat \ {0}, NEW length \in Nat, half <= length, length < 2 * half
  PROVE  length % half = length - half
<1>1. /\ length % half \in 0..(half - 1) /\ length \div half \in Int
      /\ length = half * (length \div half) + (length % half)
  BY SMT
<1> DEFINE q == length \div half
<1>2. q < 2
  <2>1. ASSUME q >= 2 PROVE half * q >= half * 2
    BY <1>1, <2>1, SMT
  <2> QED  BY <1>1, <2>1, SMT
<1>3. q > 0
  <2>1. ASSUME q <= 0 PROVE half * q <= 0
    BY <1>1, <2>1, SMT
  <2> QED  BY <1>1, <2>1, SMT
<1>4. q = 1
  BY <1>1, <1>2, <1>3
<1> QED  BY <1>1, <1>4, SMT

\* What is left of a length that is not cut.
LEMMA NotCut ==
  ASSUME NEW half \in Nat \ {0}, NEW length \in Nat, length < half
  PROVE  length % half = length
<1>1. /\ length % half \in 0..(half - 1) /\ length \div half \in Int
      /\ length = half * (length \div half) + (length % half)
  BY SMT
<1> DEFINE q == length \div half
<1>2. q < 1
  <2>1. ASSUME q >= 1 PROVE half * q >= half
    BY <1>1, <2>1, SMT
  <2> QED  BY <1>1, <2>1, SMT
<1>3. q > -1
  <2>1. ASSUME q <= -1 PROVE half * q <= -half
    BY <1>1, <2>1, SMT
  <2> QED  BY <1>1, <2>1, SMT
<1>4. q = 0
  BY <1>1, <1>2, <1>3
<1> QED  BY <1>1, <1>4, SMT

----------------------------------------------------------------------------
\* A sequence with a long length has more than half of the largest block.
LEMMA LongIsHalf ==
  ASSUME NEW sequence \in Sequence, sequence.match >= ShortMatch, IsLong(sequence)
  PROVE  sequence.literal + sequence.match > Half
BY ConstantsAssumption DEF Sequence, IsLong

\* So one that ends inside the block is not behind another.
LEMMA NotBehind ==
  ASSUME NEW first \in Sequence, NEW second \in Sequence,
         first.match >= ShortMatch, second.match >= ShortMatch,
         IsLong(first), IsLong(second), End(second) <= 2 * Half
  PROVE  ~(End(first) <= second.begin)
<1>1. /\ first.literal + first.match > Half
      /\ second.literal + second.match > Half
  BY LongIsHalf
<1>2. /\ first.begin \in Nat /\ first.literal \in Nat /\ first.match \in Nat
      /\ second.begin \in Nat /\ second.literal \in Nat /\ second.match \in Nat
  BY DEF Sequence
<1>3. Half \in Nat
  BY ConstantsAssumption
<1>4. second.begin + second.literal + second.match <= 2 * Half
  BY DEF End
<1> QED  BY <1>1, <1>2, <1>3, <1>4 DEF End

\* What a record and the exception say of a sequence is what the sequence was.
LEMMA Unpacked ==
  ASSUME IInv, NEW i \in 1..Len(records)
  PROVE  /\ records[i].literals + Extension(i = exception, longLiterals) = sequences[i].literal
         /\ records[i].matchBase + ShortMatch + Extension(i = exception, ~longLiterals)
              = sequences[i].match
         /\ records[i].offsetBase = IF sequences[i].repeat # 0 THEN sequences[i].repeat
                                   ELSE sequences[i].offset + 3
<1> DEFINE s == sequences[i]
<1>1. i \in 1..Len(sequences) /\ s \in Sequence /\ Placed(s) /\ records[i] = Packed(s)
  BY DEF IInv, TypeOK, Apart, Recorded
<1>3. /\ Half \in Nat \ {0} /\ ShortMatch \in Nat \ {0}
  BY ConstantsAssumption
<1>2. /\ s.literal \in Nat /\ s.match \in Nat /\ s.match >= ShortMatch
      /\ s.literal + s.match <= 2 * Half
  <2>1. s.begin \in Nat /\ s.literal \in Nat /\ s.match \in Nat
    BY <1>1 DEF Sequence
  <2>2. size \in Nat /\ anchor \in Nat /\ anchor <= size /\ size <= 2 * Half
    BY <1>3 DEF IInv, TypeOK
  <2> QED  BY <1>1, <1>3, <2>1, <2>2 DEF Placed, End
<1>4. s.match - ShortMatch \in Nat /\ s.match - ShortMatch < 2 * Half /\ s.literal < 2 * Half
  BY <1>2, <1>3
<1>5. s.literal % Half = IF s.literal >= Half THEN s.literal - Half ELSE s.literal
  <2>1. CASE s.literal >= Half
    BY <1>2, <1>3, <1>4, <2>1, CutOnce
  <2>2. CASE ~(s.literal >= Half)
    <3>1. s.literal < Half
      BY <1>2, <1>3, <2>2
    <3> QED  BY <1>2, <1>3, <2>2, <3>1, NotCut
  <2> QED  BY <2>1, <2>2
<1>6. (s.match - ShortMatch) % Half =
        IF s.match - ShortMatch >= Half THEN s.match - ShortMatch - Half ELSE s.match - ShortMatch
  <2> DEFINE m == s.match - ShortMatch
  <2>1. m \in Nat /\ m < 2 * Half  BY <1>4
  <2> HIDE DEF m
  <2>2. CASE m >= Half
    BY <1>3, <2>1, <2>2, CutOnce DEF m
  <2>3. CASE ~(m >= Half)
    BY <1>3, <2>1, <2>3, NotCut DEF m
  <2> QED  BY <2>2, <2>3
<1>7. ~(s.literal >= Half /\ s.match - ShortMatch >= Half)
  BY <1>2, <1>3
<1>8. /\ IsLong(s) => exception = i /\ longLiterals = (s.literal >= Half)
      /\ ~IsLong(s) => exception # i
  BY <1>1, <1>3 DEF IInv, Named
<1>9. /\ records[i].literals = s.literal % Half
      /\ records[i].matchBase = (s.match - ShortMatch) % Half
      /\ records[i].offsetBase = IF s.repeat # 0 THEN s.repeat ELSE s.offset + 3
  BY <1>1 DEF Packed
<1>10. records[i].literals + Extension(i = exception, longLiterals) = s.literal
  <2>1. CASE s.literal >= Half
    <3>1. Extension(i = exception, longLiterals) = Half
      BY <1>8, <2>1 DEF Extension, IsLong
    <3> QED  BY <1>2, <1>3, <1>5, <1>9, <2>1, <3>1
  <2>2. CASE ~(s.literal >= Half)
    <3>1. Extension(i = exception, longLiterals) = 0
      BY <1>8, <2>2 DEF Extension
    <3> QED  BY <1>2, <1>5, <1>9, <2>2, <3>1
  <2> QED  BY <2>1, <2>2
<1>11. records[i].matchBase + ShortMatch + Extension(i = exception, ~longLiterals) = s.match
  <2>1. CASE s.match - ShortMatch >= Half
    <3>1. Extension(i = exception, ~longLiterals) = Half
      BY <1>7, <1>8, <2>1 DEF Extension, IsLong
    <3> QED  BY <1>2, <1>3, <1>6, <1>9, <2>1, <3>1
  <2>2. CASE ~(s.match - ShortMatch >= Half)
    <3>1. Extension(i = exception, ~longLiterals) = 0
      BY <1>8, <2>2 DEF Extension, IsLong
    <3> QED  BY <1>2, <1>3, <1>6, <1>9, <2>2, <3>1
  <2> QED  BY <2>1, <2>2
<1> QED  BY <1>9, <1>10, <1>11

----------------------------------------------------------------------------
LEMMA InitHolds == Init => IInv
<1> SUFFICES ASSUME Init PROVE IInv
  OBVIOUS
<1>1. TypeOK
  <2>1. Half \in Nat /\ size = 0 /\ anchor = 0 /\ index = 1 /\ position = 0
    BY ConstantsAssumption DEF Init
  <2>2. size \in 0..(2 * Half) /\ anchor \in 0..size
    BY <2>1
  <2>3. sequences \in Seq(Sequence) /\ records \in Seq(Record)
    BY DEF Init
  <2>4. phase \in {"idle", "parse", "encode"} /\ exception \in Nat
    BY DEF Init
  <2>5. longLiterals \in BOOLEAN
    BY Zenon DEF Init
  <2>6. index \in Nat \ {0} /\ position \in Nat
    BY <2>1
  <2> QED  BY <2>2, <2>3, <2>4, <2>5, <2>6 DEF TypeOK
<1>2. Apart /\ Recorded /\ Named
  BY DEF Init, Apart, Recorded, Named
<1>3. Walks /\ Starts
  BY DEF Init, Walks, Starts
<1> QED  BY <1>1, <1>2, <1>3 DEF IInv

LEMMA BeginBlockHolds ==
  ASSUME IInv, NEW count \in BlockSizes, BeginBlock(count)
  PROVE  IInv'
<1>1. Half \in Nat /\ BlockSizes \subseteq 0..(2 * Half)
  BY ConstantsAssumption
<1>2. TypeOK'
  <2>1. count \in 0..(2 * Half) /\ 0 \in 0..count
    BY <1>1
  <2>2. sequences' \in Seq(Sequence) /\ records' \in Seq(Record)
    BY DEF BeginBlock
  <2>3. size' \in 0..(2 * Half) /\ anchor' \in 0..size'
    BY <2>1 DEF BeginBlock
  <2>4. phase' \in {"idle", "parse", "encode"} /\ exception' \in Nat
    BY DEF BeginBlock
  <2>5. longLiterals' \in BOOLEAN
    BY Zenon DEF BeginBlock
  <2>6. index' \in Nat \ {0} /\ position' \in Nat
    BY DEF BeginBlock
  <2> QED  BY <2>2, <2>3, <2>4, <2>5, <2>6 DEF TypeOK
<1>3. Apart' /\ Recorded' /\ Named'
  BY DEF BeginBlock, Apart, Recorded, Named
<1>4. Walks' /\ Starts'
  BY DEF BeginBlock, Walks, Starts
<1> QED  BY <1>2, <1>3, <1>4 DEF IInv

\* The records and what they mean do not depend on where the block stands.
LEMMA NoSequencesHolds == ASSUME IInv, NoSequences PROVE IInv'
BY DEF NoSequences, IInv, TypeOK, Apart, Recorded, Named, Walks, Starts, Placed

LEMMA EndEncodeHolds == ASSUME IInv, EndEncode PROVE IInv'
BY DEF EndEncode, IInv, TypeOK, Apart, Recorded, Named, Walks, Starts, Placed

LEMMA BeginEncodeHolds == ASSUME IInv, BeginEncode PROVE IInv'
<1>1. /\ TypeOK' /\ Apart' /\ Recorded' /\ Named'
  BY DEF BeginEncode, IInv, TypeOK, Apart, Recorded, Named, Placed
<1>2. sequences # <<>> /\ Len(sequences) >= 1
  BY DEF BeginEncode, IInv, TypeOK, Recorded
<1>3. Walks' /\ Starts'
  BY <1>2 DEF BeginEncode, IInv, TypeOK, Apart, Walks, Starts
<1> QED  BY <1>1, <1>3 DEF IInv

LEMMA EncodeSequenceHolds == ASSUME IInv, EncodeSequence PROVE IInv'
<1>1. index \in 1..Len(records) /\ index \in 1..Len(sequences) /\ sequences[index] \in Sequence
  BY DEF EncodeSequence, IInv, TypeOK, Recorded
<1>2. /\ EncodedAt(index).literal = sequences[index].literal
      /\ EncodedAt(index).match = sequences[index].match
  BY <1>1, Unpacked DEF EncodedAt
<1>3. position' = position + sequences[index].literal + sequences[index].match
  BY <1>2 DEF EncodeSequence
<1>4. position = sequences[index].begin
  BY <1>1 DEF EncodeSequence, IInv, Walks
<1>5. position' = End(sequences[index])
  BY <1>3, <1>4 DEF End
<1>6. End(sequences[index]) \in Nat
  BY <1>1 DEF Sequence, End
<1>7. TypeOK' /\ Recorded' /\ Named' /\ Apart'
  BY <1>5, <1>6 DEF EncodeSequence, IInv, TypeOK, Recorded, Named, Apart, Placed
<1>8. Walks'
  <2>1. index' = index + 1 /\ sequences' = sequences /\ anchor' = anchor /\ index \in Nat
    BY DEF EncodeSequence, IInv, TypeOK
  <2>2. Len(sequences) \in Nat /\ sequences # <<>>
    BY DEF EncodeSequence, IInv, TypeOK, Walks
  <2>3. End(sequences[index]) =
          IF index < Len(sequences) THEN sequences[index + 1].begin ELSE anchor
    BY <1>1 DEF IInv, Apart
  <2>4. index <= Len(sequences) /\ (index + 1 <= Len(sequences) <=> index < Len(sequences))
    BY <1>1, <2>1, <2>2
  <2> QED  BY <1>5, <2>1, <2>2, <2>3, <2>4 DEF Walks
<1>9. Starts'
  BY DEF EncodeSequence, Starts
<1> QED  BY <1>7, <1>8, <1>9 DEF IInv

\* The sequences that remain of a resize, and the bytes they cover.
LEMMA ShrinkHolds ==
  ASSUME IInv, NEW count \in 0..(Len(records) - 1), Shrink(count)
  PROVE  IInv'
<1>1. /\ count \in Nat /\ count < Len(sequences) /\ Len(records) = Len(sequences)
      /\ sequences \in Seq(Sequence) /\ records \in Seq(Record)
  BY DEF IInv, TypeOK, Recorded
<1>2. /\ sequences' \in Seq(Sequence) /\ Len(sequences') = count
      /\ \A i \in 1..count : sequences'[i] = sequences[i]
      /\ records' \in Seq(Record) /\ Len(records') = count
      /\ \A i \in 1..count : records'[i] = records[i]
  BY <1>1 DEF Shrink
<1>3. \A i \in 1..(count + 1) : i \in 1..Len(sequences) /\ sequences[i] \in Sequence
  BY <1>1
<1>4. /\ anchor' = sequences[count + 1].begin /\ anchor' \in Nat /\ anchor' <= anchor
      /\ anchor \in 0..size /\ size \in Nat
  <2>1. sequences[count + 1] \in Sequence /\ Placed(sequences[count + 1])
    BY <1>1, <1>3 DEF IInv, Apart
  <2>2. /\ sequences[count + 1].begin \in Nat /\ sequences[count + 1].literal \in Nat
        /\ sequences[count + 1].match \in Nat
    BY <2>1 DEF Sequence
  <2>3. anchor \in 0..size /\ size \in 0..(2 * Half) /\ Half \in Nat
    BY ConstantsAssumption DEF IInv, TypeOK
  <2>4. sequences[count + 1].begin + sequences[count + 1].literal
          + sequences[count + 1].match <= anchor
    BY <2>1 DEF Placed, End
  <2>5. sequences[count + 1].begin <= anchor
    BY <2>2, <2>3, <2>4, SMTT(30)
  <2>6. anchor' = sequences[count + 1].begin
    BY DEF Shrink
  <2> QED  BY <2>2, <2>3, <2>5, <2>6
<1>5. TypeOK'
  BY <1>1, <1>2, <1>4, SMTT(30) DEF Shrink, IInv, TypeOK
<1>6. Apart'
  <2>1. \A i \in 1..count : End(sequences[i]) <= anchor' /\ Placed(sequences[i])
    BY <1>1, <1>3, <1>4 DEF IInv, Apart
  <2>2. \A i \in 1..count : Placed(sequences[i])'
    BY <1>2, <2>1 DEF Placed, End
  <2>3. \A i, j \in 1..count : i < j => End(sequences[i]) <= sequences[j].begin
    BY <1>1, <1>3 DEF IInv, Apart
  <2>4. \A i \in 1..count :
          End(sequences[i]) = IF i < count THEN sequences[i + 1].begin ELSE anchor'
    BY <1>1, <1>3, <1>4 DEF IInv, Apart
  <2>5. \A i \in 1..count : End(sequences'[i]) = End(sequences[i])
    BY <1>2
  <2>6. IF count = 0 THEN anchor' = 0 ELSE sequences'[1].begin = 0
    <3>1. sequences[1].begin = 0
      BY <1>1 DEF IInv, Apart
    <3>2. CASE count = 0
      BY <1>4, <3>1, <3>2
    <3>3. CASE count # 0
      BY <1>1, <1>2, <3>1, <3>3
    <3> QED  BY <3>2, <3>3
  <2> QED  BY <1>1, <1>2, <2>2, <2>3, <2>4, <2>5, <2>6 DEF Apart, End
<1>7. Recorded'
  BY <1>1, <1>2 DEF IInv, Recorded
<1>8. Named'
  BY <1>1, <1>2 DEF Shrink, IInv, Named, TypeOK
<1>9. Walks' /\ Starts'
  BY DEF Shrink, IInv, Walks, Starts
<1> QED  BY <1>5, <1>6, <1>7, <1>8, <1>9 DEF IInv

\* A match behind all the others; the exception is free when it needs it.
LEMMA PushHolds ==
  ASSUME IInv, NEW literal \in Nat, NEW match \in Nat, NEW form \in Forms,
         Push(literal, match, form)
  PROVE  IInv' /\ (exception' # exception => exception = 0)
<1> DEFINE new == [begin |-> anchor, literal |-> literal, match |-> match,
                   offset |-> form.offset, repeat |-> form.repeat]
<1>0. PICK n \in Nat : n = Len(sequences)
  BY DEF IInv, TypeOK
<1>1. /\ sequences \in Seq(Sequence) /\ records \in Seq(Record)
      /\ Len(records) = n /\ n = Len(sequences)
  BY <1>0 DEF IInv, TypeOK, Recorded
<1>2. /\ anchor \in Nat /\ size \in Nat /\ anchor <= size /\ Half \in Nat \ {0}
      /\ ShortMatch \in Nat \ {0} /\ size \in 0..(2 * Half)
      /\ form.offset \in Nat /\ form.repeat \in 0..3
      /\ form.repeat = 0 => form.offset > 0
  BY ConstantsAssumption DEF IInv, TypeOK
<1>3. /\ new \in Sequence /\ new.begin = anchor /\ new.literal = literal /\ new.match = match
      /\ new.offset = form.offset /\ new.repeat = form.repeat
  BY <1>2 DEF Sequence
<1>4. /\ anchor' = anchor + literal + match /\ anchor' \in Nat /\ anchor <= anchor'
      /\ anchor' <= size /\ match >= ShortMatch /\ size' = size /\ phase = "parse"
      /\ phase' = "parse" /\ index' = index /\ position' = position
  BY <1>2 DEF Push
<1>5. /\ sequences' = Append(sequences, new) /\ records' = Append(records, Packed(new))
      /\ exception' = IF IsLong(new) THEN n + 1 ELSE exception
      /\ longLiterals' = IF IsLong(new) THEN new.literal >= Half ELSE longLiterals
  BY <1>1 DEF Push
<1>6. End(new) = anchor'
  BY <1>3, <1>4 DEF End
<1> HIDE DEF new
<1>7. Packed(new) \in Record
  <2>1. new.literal % Half \in Nat
    BY <1>2, <1>3
  <2>2. (new.match - ShortMatch) % Half \in Nat
    <3>1. new.match - ShortMatch \in Int
      BY <1>2, <1>3
    <3> QED  BY <1>2, <3>1
  <2>3. (IF new.repeat # 0 THEN new.repeat ELSE new.offset + 3) \in Nat
    BY <1>2, <1>3
  <2> QED  BY <2>1, <2>2, <2>3 DEF Packed, Record
<1>8. /\ sequences' \in Seq(Sequence) /\ Len(sequences') = n + 1
      /\ \A i \in 1..n : sequences'[i] = sequences[i]
      /\ sequences'[n + 1] = new
      /\ records' \in Seq(Record) /\ Len(records') = n + 1
      /\ \A i \in 1..n : records'[i] = records[i]
      /\ records'[n + 1] = Packed(new)
  BY <1>1, <1>3, <1>5, <1>7
<1>9. \A i \in 1..n : sequences[i] \in Sequence /\ Placed(sequences[i])
  BY <1>1 DEF IInv, Apart
<1>10. TypeOK'
  <2>1. phase' \in {"idle", "parse", "encode"} /\ exception' \in Nat
    BY <1>4, <1>5 DEF IInv, TypeOK
  <2>2. (new.literal >= Half) \in BOOLEAN
    BY <1>2, <1>3
  <2>3. longLiterals' \in BOOLEAN
    BY <1>5, <2>2, Zenon DEF IInv, TypeOK
  <2>4. size' \in 0..(2 * Half) /\ anchor' \in 0..size'
    BY <1>2, <1>4
  <2>5. index' \in Nat \ {0} /\ position' \in Nat
    BY <1>4 DEF IInv, TypeOK
  <2> QED  BY <1>8, <2>1, <2>3, <2>4, <2>5 DEF TypeOK
<1>11. Apart'
  <2>1. \A i \in 1..n : End(sequences[i]) \in Nat /\ End(sequences[i]) <= anchor
    BY <1>9 DEF Placed, End, Sequence
  <2>2. \A i \in 1..(n + 1) : Placed(sequences[i])'
    <3>1. \A i \in 1..n : Placed(sequences[i])'
      <4>1. \A i \in 1..n : End(sequences[i]) <= anchor'
        BY <1>2, <1>4, <2>1
      <4> QED  BY <1>8, <1>9, <4>1 DEF Placed, End
    <3>2. Placed(sequences[n + 1])'
      BY <1>1, <1>2, <1>3, <1>4, <1>6, <1>8 DEF Placed, End
    <3> QED  BY <1>1, <3>1, <3>2
  <2>3. \A i, j \in 1..(n + 1) : i < j => End(sequences'[i]) <= sequences'[j].begin
    <3>1. \A i, j \in 1..n : i < j => End(sequences'[i]) <= sequences'[j].begin
      BY <1>1, <1>8 DEF IInv, Apart
    <3>2. \A i \in 1..n : End(sequences'[i]) <= sequences'[n + 1].begin
      BY <1>3, <1>8, <2>1
    <3> QED  BY <1>1, <3>1, <3>2
  <2>4. \A i \in 1..(n + 1) :
          End(sequences'[i]) = IF i < n + 1 THEN sequences'[i + 1].begin ELSE anchor'
    <3>1. \A i \in 1..n : End(sequences'[i]) = sequences'[i + 1].begin
      BY <1>1, <1>3, <1>8 DEF IInv, Apart
    <3>2. \A i \in 1..(n + 1) : (i < n + 1 <=> i \in 1..n) /\ (~(i < n + 1) => i = n + 1)
      BY <1>0
    <3>3. End(sequences'[n + 1]) = anchor'
      BY <1>6, <1>8
    <3> QED  BY <3>1, <3>2, <3>3
  <2>5. sequences'[1].begin = 0
    <3>1. CASE n = 0
      <4>1. anchor = 0
        BY <1>1, <3>1 DEF IInv, Apart
      <4> QED  BY <1>3, <1>8, <3>1, <4>1
    <3>2. CASE n # 0
      BY <1>1, <1>8, <3>2 DEF IInv, Apart
    <3> QED  BY <3>1, <3>2
  <2> QED  BY <1>8, <2>2, <2>3, <2>4, <2>5 DEF Apart, End
<1>12. Recorded'
  <2>1. \A i \in 1..n : records'[i] = Packed(sequences'[i])
    BY <1>1, <1>8 DEF IInv, Recorded
  <2>2. \A i \in 1..(n + 1) : i \in 1..n \/ i = n + 1
    BY <1>0
  <2> QED  BY <1>8, <2>1, <2>2 DEF Recorded
<1>13. IsLong(new) => \A i \in 1..n : ~IsLong(sequences[i])
  <2> SUFFICES ASSUME IsLong(new), NEW i \in 1..n, IsLong(sequences[i]) PROVE FALSE
    OBVIOUS
  <2>1. /\ sequences[i] \in Sequence /\ new \in Sequence
        /\ sequences[i].match >= ShortMatch /\ new.match >= ShortMatch
    BY <1>3, <1>4, <1>9 DEF Placed
  <2>2. End(new) <= 2 * Half
    BY <1>2, <1>4, <1>6
  <2>3. End(sequences[i]) <= new.begin
    BY <1>3, <1>9 DEF Placed
  <2> QED  BY <2>1, <2>2, <2>3, NotBehind
<1>14. IsLong(new) => exception = 0
  BY <1>1, <1>13 DEF IInv, Named
<1>15. Named'
  BY <1>1, <1>5, <1>8, <1>13, <1>14 DEF IInv, Named, IsLong
<1>16. Walks' /\ Starts'
  BY <1>4 DEF IInv, Walks, Starts
<1> QED  BY <1>5, <1>10, <1>11, <1>12, <1>14, <1>15, <1>16 DEF IInv

----------------------------------------------------------------------------
LEMMA StepHolds == IInv /\ [Next]_vars => IInv'
<1> SUFFICES ASSUME IInv, [Next]_vars PROVE IInv'
  OBVIOUS
<1>1. ASSUME NEW count \in BlockSizes, BeginBlock(count) PROVE IInv'
  BY <1>1, BeginBlockHolds
<1>2. ASSUME NEW literal \in 0..(size - anchor), NEW match \in ShortMatch..(size - anchor),
             NEW form \in Forms, Push(literal, match, form)
      PROVE  IInv'
  <2>1. literal \in Nat /\ match \in Nat
    BY ConstantsAssumption DEF IInv, TypeOK
  <2> QED  BY <1>2, <2>1, PushHolds
<1>3. ASSUME NEW count \in 0..(Len(records) - 1), Shrink(count) PROVE IInv'
  BY <1>3, ShrinkHolds
<1>4. CASE UNCHANGED vars
  BY <1>4 DEF vars, IInv, TypeOK, Apart, Recorded, Named, Walks, Starts, Placed
<1> QED
  BY <1>1, <1>2, <1>3, <1>4, NoSequencesHolds, BeginEncodeHolds, EncodeSequenceHolds,
     EndEncodeHolds DEF Next

LEMMA Invariance == Spec => []IInv
<1>1. Init => IInv
  BY InitHolds
<1>2. IInv /\ [Next]_vars => IInv'
  BY StepHolds
<1> QED  BY <1>1, <1>2, PTL DEF Spec

\* The types, and that all sequences lie inside their block.
THEOREM TypeCorrect == Spec => [](TypeOK /\ Apart)
<1>1. IInv => TypeOK /\ Apart
  BY DEF IInv
<1> QED  BY <1>1, Invariance, PTL

\* Reading any part of a view gives the sequences that were pushed.
THEOREM ReadsBackHolds == Spec => []ReadsBack
<1>1. ASSUME IInv, NEW first \in 0..Len(records), NEW at \in 1..Len(records),
             first + at <= Len(records)
      PROVE  Entry(first, at) = Logical(sequences[first + at])
  <2> DEFINE i == first + at
             s == sequences[i]
  <2>1. i \in 1..Len(records) /\ i \in 1..Len(sequences)
    BY <1>1 DEF IInv, Recorded, TypeOK
  <2>2. /\ records[i].literals + Extension(i = exception, longLiterals) = s.literal
        /\ records[i].matchBase + ShortMatch + Extension(i = exception, ~longLiterals) = s.match
        /\ records[i].offsetBase = IF s.repeat # 0 THEN s.repeat ELSE s.offset + 3
    BY <1>1, <2>1, Unpacked
  <2>3. s \in Sequence /\ (s.repeat = 0 => s.offset > 0)
    BY <1>1, <2>1 DEF IInv, TypeOK, Apart, Placed
  <2>4. s.repeat \in 0..3 /\ s.offset \in Nat
    BY <2>3 DEF Sequence
  <2>5. /\ (IF records[i].offsetBase >= 4 THEN records[i].offsetBase - 3 ELSE 0)
             = IF s.repeat = 0 THEN s.offset ELSE 0
        /\ (IF records[i].offsetBase < 4 THEN records[i].offsetBase ELSE 0) = s.repeat
    BY <2>2, <2>3, <2>4
  <2> QED  BY <2>2, <2>5 DEF Entry, Logical
<1>2. ASSUME IInv, NEW at \in 1..Len(records)
      PROVE  /\ EncodedAt(at).literal = sequences[at].literal
             /\ EncodedAt(at).match = sequences[at].match
  BY <1>2, Unpacked DEF EncodedAt
<1>3. IInv => ReadsBack
  BY <1>1, <1>2 DEF ReadsBack
<1> QED  BY <1>3, Invariance, PTL

\* The encoder stands where the parser stood, at every sequence and at the end.
THEOREM EncoderInStepHolds == Spec => []EncoderInStep
<1>1. IInv => EncoderInStep
  BY DEF IInv, Walks, Recorded, EncoderInStep
<1> QED  BY <1>1, Invariance, PTL

\* push_back never takes the place of an exception a second time.
THEOREM OneExceptionHolds == Spec => OneException
<1> DEFINE Free == exception' # exception => exception = 0 \/ exception' = 0
<1>1. IInv /\ [Next]_vars => [Free]_vars
  <2> SUFFICES ASSUME IInv, Next PROVE Free
    OBVIOUS
  <2>1. ASSUME NEW count \in BlockSizes, BeginBlock(count) PROVE Free
    BY <2>1 DEF BeginBlock
  <2>2. ASSUME NEW literal \in 0..(size - anchor), NEW match \in ShortMatch..(size - anchor),
               NEW form \in Forms, Push(literal, match, form)
        PROVE  Free
    <3>1. literal \in Nat /\ match \in Nat
      BY ConstantsAssumption DEF IInv, TypeOK
    <3> QED  BY <2>2, <3>1, PushHolds
  <2>3. ASSUME NEW count \in 0..(Len(records) - 1), Shrink(count) PROVE Free
    BY <2>3 DEF Shrink
  <2>4. CASE NoSequences \/ BeginEncode \/ EncodeSequence \/ EndEncode
    BY <2>4 DEF NoSequences, BeginEncode, EncodeSequence, EndEncode
  <2> QED  BY <2>1, <2>2, <2>3, <2>4 DEF Next
<1> QED  BY <1>1, Invariance, PTL DEF Spec, OneException

----------------------------------------------------------------------------
(* Who copies the literals.  The encoder finds each sequence where the     *)
(* parser began it, so both count the same literals before it; and a copy, *)
(* wide or not, leaves the bytes before it alone and has the bytes it      *)
(* wants right, whatever it leaves behind them.                            *)

GatheringType ==
  /\ build \in Builds
  /\ begin \in Nat /\ end \in Nat /\ input \in Nat /\ input <= MaxInput
  /\ storage \in [Memory -> 0..MaxInput]
  /\ \A cell \in Memory : cell >= Storage => storage[cell] = NoByte
  /\ cursor \in Nat /\ wanted \in Seq(Nat) /\ sent \in BOOLEAN
  /\ size <= Storage

\* The block that is parsed or encoded is inside the input, and has no section.
InsideInput ==
  phase # "idle" => end = begin + size /\ end <= input /\ ~sent

\* at[k] literals come before those of sequence k, which lie where it begins.
LaidOut(at) ==
  /\ at \in [1..(Len(sequences) + 1) -> Nat] /\ at[1] = 0
  /\ at[Len(sequences) + 1] <= anchor /\ at[Len(sequences) + 1] <= Len(wanted)
  /\ \A k \in 1..Len(sequences) :
       /\ at[k + 1] = at[k] + sequences[k].literal
       /\ at[k] <= sequences[k].begin /\ at[k + 1] <= Len(wanted)
       /\ \A j \in Nat : at[k] < j /\ j <= at[k + 1] =>
            wanted[j] = begin + sequences[k].begin + (j - at[k] - 1)

\* Behind the last match the literals go on to the end of the block.
Trailing(from) ==
  /\ Len(wanted) = from + (size - anchor)
  /\ \A j \in Nat : from < j /\ j <= Len(wanted) =>
       wanted[j] = begin + anchor + (j - from - 1)

\* The first n literals are in the storage.
Holds(n) == \A cell \in 0..(n - 1) : storage[cell] = wanted[cell + 1]

Parsing ==
  phase = "parse" =>
    /\ \E at : LaidOut(at) /\ Len(wanted) = at[Len(sequences) + 1]
    /\ ParserGathers => cursor = Len(wanted) /\ Holds(Len(wanted))

Encoding ==
  phase = "encode" =>
    /\ \E at : LaidOut(at) /\ Trailing(at[Len(sequences) + 1]) /\ cursor = at[index]
    /\ IF CollectedLiterals THEN ParserGathers => Holds(Len(wanted)) ELSE Holds(cursor)

\* Who does the work is agreed on: what the encoder takes as gathered, the parser
\* gathers.
WorkIsShared == CollectedLiterals => ParserGathers

Sent == sent => phase = "idle" /\ (WorkIsShared => literals = wanted)

GInv == IInv /\ GatheringType /\ InsideInput /\ Parsing /\ Encoding /\ Sent

----------------------------------------------------------------------------
\* A run lies inside the storage and the input.
Inside(to, from, count) == to + count <= Storage /\ from + count <= input

\* The storage after a run is copied: the run is there, and what was before it.
RunCopied(memory, to, from, count) ==
  /\ memory \in [Memory -> 0..MaxInput]
  /\ \A cell \in Memory : cell >= Storage => memory[cell] = NoByte
  /\ \A cell \in Nat : cell < to => memory[cell] = storage[cell]
  /\ \A cell \in Nat : to <= cell /\ cell < to + count => memory[cell] = from + (cell - to)

\* A copy of `width` bytes inside the input and the storage, of which `count` are
\* wanted.
LEMMA CopyLeaves ==
  ASSUME GatheringType, NEW to \in Nat, NEW from \in Nat, NEW width \in Nat,
         NEW count \in 0..width, Inside(to, from, width)
  PROVE  RunCopied(Copied(to, from, width), to, from, count)
<1>0. to + width <= Storage /\ from + width <= input BY DEF Inside
<1> DEFINE new == Copied(to, from, width)
<1>1. /\ input \in Nat /\ input <= MaxInput /\ MaxInput \in Nat
      /\ Storage \in Nat /\ ShortCopy \in Nat
      /\ storage \in [Memory -> 0..MaxInput]
      /\ \A cell \in Memory : cell >= Storage => storage[cell] = NoByte
  BY GatheringAssumption DEF GatheringType
<1>2. new = [cell \in Memory |->
               IF cell \in to..(to + width - 1)
               THEN IF from + (cell - to) < input THEN from + (cell - to) ELSE PastInput
               ELSE storage[cell]]
  BY DEF Copied
<1> HIDE DEF new
<1>3. \A cell \in Memory : cell \in Nat BY <1>1 DEF Memory
<1>4. ASSUME NEW cell \in Memory, cell \in to..(to + width - 1)
      PROVE  /\ new[cell] = from + (cell - to) /\ new[cell] \in 0..MaxInput
             /\ ~(cell >= Storage)
  <2>1. cell \in Nat /\ to <= cell /\ cell < to + width BY <1>3, <1>4
  <2>2. from + (cell - to) < input /\ from + (cell - to) \in Nat BY <2>1, <1>0, <1>1
  <2>3. new[cell] = from + (cell - to) BY <1>2, <1>4, <2>2
  <2> QED BY <2>1, <2>2, <2>3, <1>0, <1>1
<1>5. ASSUME NEW cell \in Memory, cell \notin to..(to + width - 1)
      PROVE  new[cell] = storage[cell]
  BY <1>2, <1>5
<1>6. new \in [Memory -> 0..MaxInput]
  <2>1. \A cell \in Memory : new[cell] \in 0..MaxInput BY <1>1, <1>4, <1>5
  <2> QED BY <1>2, <2>1
<1>7. \A cell \in Memory : cell >= Storage => new[cell] = NoByte BY <1>1, <1>4, <1>5
<1>8. ASSUME NEW cell \in Nat, cell < to PROVE new[cell] = storage[cell]
  <2>1. cell \in Memory BY <1>0, <1>1, <1>8 DEF Memory
  <2>2. cell \notin to..(to + width - 1) BY <1>8
  <2> QED BY <2>1, <2>2, <1>5
<1>9. ASSUME NEW cell \in Nat, to <= cell, cell < to + count
      PROVE  new[cell] = from + (cell - to)
  <2>1. cell \in to..(to + width - 1) BY <1>9
  <2>2. cell \in Memory BY <1>0, <1>1, <1>9 DEF Memory
  <2> QED BY <2>1, <2>2, <1>4
<1> QED BY <1>6, <1>7, <1>8, <1>9 DEF new, RunCopied

\* A wide copy has room on both sides.
LEMMA WidthFits ==
  ASSUME NEW to \in Nat, NEW from \in Nat, NEW count \in Nat, Inside(to, from, count)
  PROVE  /\ Width(to, from, count) \in Nat /\ count \in 0..Width(to, from, count)
         /\ Inside(to, from, Width(to, from, count))
BY GatheringAssumption DEF Width, Inside

\* What gather_literals leaves.
LEMMA RunGathered ==
  ASSUME GatheringType, NEW to \in Nat, NEW from \in Nat, NEW count \in Nat,
         Inside(to, from, count)
  PROVE  RunCopied(Copied(to, from, Width(to, from, count)), to, from, count)
<1> DEFINE width == Width(to, from, count)
<1>1. width \in Nat /\ count \in 0..width /\ Inside(to, from, width)
  BY WidthFits
<1> HIDE DEF width
<1>2. RunCopied(Copied(to, from, width), to, from, count)
  BY <1>1, CopyLeaves
<1> QED BY <1>2 DEF width

\* A run of bytes behind those before.
RunAdded(all, before, from, count) ==
  /\ all \in Seq(Nat) /\ Len(all) = Len(before) + count
  /\ \A j \in Nat : 0 < j /\ j <= Len(before) => all[j] = before[j]
  /\ \A j \in Nat : Len(before) < j /\ j <= Len(all) => all[j] = from + (j - Len(before) - 1)

LEMMA RunWanted ==
  ASSUME NEW before \in Seq(Nat), NEW from \in Nat, NEW count \in Nat
  PROVE  RunAdded(before \o Bytes(from, count), before, from, count)
<1> DEFINE run == Bytes(from, count)
           all == before \o run
<1>1. run \in Seq(Nat) /\ Len(run) = count /\ \A i \in 1..count : run[i] = from + i - 1
  BY DEF Bytes
<1> HIDE DEF run
<1>2. /\ all \in Seq(Nat) /\ Len(all) = Len(before) + count
      /\ \A j \in 1..(Len(before) + count) :
           all[j] = IF j <= Len(before) THEN before[j] ELSE run[j - Len(before)]
  BY <1>1
<1> HIDE DEF all
<1>3. ASSUME NEW j \in Nat, 0 < j, j <= Len(before) PROVE all[j] = before[j]
  BY <1>2, <1>3
<1>4. ASSUME NEW j \in Nat, Len(before) < j, j <= Len(before) + count
      PROVE  all[j] = from + (j - Len(before) - 1)
  <2>1. j - Len(before) \in 1..count BY <1>4
  <2>2. run[j - Len(before)] = from + (j - Len(before)) - 1 BY <2>1, <1>1
  <2> QED BY <2>1, <2>2, <1>2, <1>4
<1> QED BY <1>2, <1>3, <1>4 DEF all, run, RunAdded

\* The storage after a run was copied behind the literals it held.
LEMMA HoldsMore ==
  ASSUME NEW memory, NEW before, NEW all, NEW n \in Nat, NEW count \in Nat, NEW from \in Nat,
         \A cell \in 0..(n - 1) : storage[cell] = before[cell + 1],
         \A cell \in Nat : cell < n => memory[cell] = storage[cell],
         \A cell \in Nat : n <= cell /\ cell < n + count => memory[cell] = from + (cell - n),
         \A j \in Nat : 0 < j /\ j <= n => all[j] = before[j],
         \A j \in Nat : n < j /\ j <= n + count => all[j] = from + (j - n - 1)
  PROVE  \A cell \in 0..((n + count) - 1) : memory[cell] = all[cell + 1]
<1> SUFFICES ASSUME NEW cell \in 0..((n + count) - 1) PROVE memory[cell] = all[cell + 1]
  OBVIOUS
<1>0. cell \in Nat /\ cell + 1 \in Nat /\ 0 < cell + 1 OBVIOUS
<1>1. CASE cell < n
  <2>1. cell \in 0..(n - 1) /\ cell + 1 <= n BY <1>1
  <2> QED BY <2>1, <1>0, <1>1
<1>2. CASE ~(cell < n)
  <2>1. n <= cell /\ cell < n + count BY <1>2
  <2>2. memory[cell] = from + (cell - n) BY <2>1, <1>0
  <2>3. n < cell + 1 /\ cell + 1 <= n + count BY <2>1
  <2>4. all[cell + 1] = from + ((cell + 1) - n - 1) BY <2>3, <1>0
  <2> QED BY <2>2, <2>4
<1> QED BY <1>1, <1>2

----------------------------------------------------------------------------
LEMMA GatheringInitHolds == GatheringInit => GInv
<1> SUFFICES ASSUME GatheringInit PROVE GInv OBVIOUS
<1>1. IInv BY InitHolds DEF GatheringInit
<1>2. phase = "idle" /\ size = 0 BY DEF GatheringInit, Init
<1>3. /\ build \in Builds /\ begin = 0 /\ end = 0 /\ input = 0 /\ cursor = 0
      /\ wanted = <<>> /\ sent = FALSE /\ storage = [cell \in Memory |-> NoByte]
  BY DEF GatheringInit
<1>4. sent \in BOOLEAN /\ ~sent BY <1>3, Zenon
<1>5. wanted \in Seq(Nat) BY <1>3
<1>6. /\ storage \in [Memory -> 0..MaxInput]
      /\ \A cell \in Memory : cell >= Storage => storage[cell] = NoByte
  <2>1. NoByte \in 0..MaxInput BY GatheringAssumption DEF NoByte
  <2> QED BY <2>1, <1>3
<1>7. GatheringType
  BY <1>2, <1>3, <1>4, <1>5, <1>6, GatheringAssumption DEF GatheringType
<1>8. InsideInput /\ Parsing /\ Encoding /\ Sent
  BY <1>2, <1>4 DEF InsideInput, Parsing, Encoding, Sent
<1> QED BY <1>1, <1>7, <1>8 DEF GInv

LEMMA BeginStep ==
  ASSUME GInv, NEW count \in BlockSizes, NEW more \in 0..MaxInput, Begin(count, more)
  PROVE  GInv'
<1>1. IInv' BY BeginBlockHolds DEF Begin, GInv
<1>2. /\ count \in Nat /\ count <= Storage /\ more \in Nat /\ end \in Nat
      /\ end + count + more <= MaxInput
  BY GatheringAssumption DEF Begin, GInv, GatheringType
<1>3. /\ phase' = "parse" /\ size' = count /\ anchor' = 0 /\ sequences' = <<>>
      /\ begin' = end /\ end' = end + count /\ input' = end + count + more
      /\ wanted' = <<>> /\ cursor' = 0 /\ sent' = FALSE
      /\ build' = build /\ storage' = storage
  BY DEF Begin, BeginBlock
<1>4. ~sent' /\ sent' \in BOOLEAN BY <1>3, Zenon
<1>5. GatheringType'
  <2>1. wanted' \in Seq(Nat) BY <1>3
  <2> QED BY <2>1, <1>2, <1>3, <1>4 DEF GInv, GatheringType, NoByte
<1>6. InsideInput' BY <1>2, <1>3, <1>4 DEF InsideInput
<1>7. Parsing'
  <2> DEFINE at == [k \in 1..1 |-> 0]
  <2>1. /\ at \in [1..(Len(sequences') + 1) -> Nat] /\ at[1] = 0
        /\ Len(sequences') = 0 /\ Len(wanted') = 0
    BY <1>3
  <2> HIDE DEF at
  <2>2. LaidOut(at)' BY <2>1, <1>3 DEF LaidOut
  <2>3. Holds(0)' BY DEF Holds
  <2>4. Len(wanted') = at[Len(sequences') + 1] BY <2>1
  <2> QED BY <2>1, <2>2, <2>3, <2>4, <1>3 DEF Parsing
<1>8. Encoding' /\ Sent' BY <1>3, <1>4 DEF Encoding, Sent
<1> QED BY <1>1, <1>5, <1>6, <1>7, <1>8 DEF GInv

\* What the invariants say of the numbers.
LEMMA Numbers ==
  ASSUME GInv
  PROVE  /\ Len(sequences) \in Nat /\ Len(wanted) \in Nat /\ anchor \in Nat /\ size \in Nat
         /\ begin \in Nat /\ end \in Nat /\ input \in Nat /\ cursor \in Nat
         /\ anchor <= size /\ size <= Storage /\ Storage \in Nat
         /\ wanted \in Seq(Nat) /\ size - anchor \in Nat
<1>1. anchor \in Nat /\ size \in Nat /\ anchor <= size
  BY ConstantsAssumption DEF GInv, IInv, TypeOK
<1>2. Len(sequences) \in Nat BY DEF GInv, IInv, TypeOK
<1>3. /\ wanted \in Seq(Nat) /\ Len(wanted) \in Nat
      /\ begin \in Nat /\ end \in Nat /\ input \in Nat /\ cursor \in Nat /\ size <= Storage
  BY DEF GInv, GatheringType
<1>4. Storage \in Nat BY GatheringAssumption
<1> QED BY <1>1, <1>2, <1>3, <1>4

\* A match's literals come behind those of the match before it.
LEMMA LaidBehind ==
  ASSUME GInv, NEW at, LaidOut(at), Len(wanted) = at[Len(sequences) + 1],
         NEW literal \in Nat, NEW match \in Nat, NEW new,
         new.begin = anchor, new.literal = literal,
         sequences' = Append(sequences, new), anchor' = anchor + literal + match,
         begin' = begin, wanted' = wanted \o Bytes(begin + anchor, literal)
  PROVE  \E more : LaidOut(more)' /\ Len(wanted') = more[Len(sequences') + 1]
<1> DEFINE n == Len(sequences)
           before == Len(wanted)
           next == before + literal
           from == begin + anchor
<1>1. /\ n \in Nat /\ before \in Nat /\ anchor \in Nat /\ begin \in Nat /\ wanted \in Seq(Nat)
      /\ from \in Nat /\ next \in Nat
  <2>1. /\ n \in Nat /\ before \in Nat /\ anchor \in Nat /\ begin \in Nat /\ wanted \in Seq(Nat)
    BY Numbers
  <2> QED BY <2>1
<1>2. /\ at \in [1..(n + 1) -> Nat] /\ at[1] = 0 /\ at[n + 1] = before /\ before <= anchor
      /\ \A k \in 1..n :
           /\ at[k + 1] = at[k] + sequences[k].literal
           /\ at[k] <= sequences[k].begin /\ at[k + 1] <= before
           /\ \A j \in Nat : at[k] < j /\ j <= at[k + 1] =>
                wanted[j] = begin + sequences[k].begin + (j - at[k] - 1)
  BY DEF LaidOut
<1>3. /\ wanted' \in Seq(Nat) /\ Len(wanted') = next
      /\ \A j \in Nat : 0 < j /\ j <= before => wanted'[j] = wanted[j]
      /\ \A j \in Nat : before < j /\ j <= next => wanted'[j] = from + (j - before - 1)
  <2> HIDE DEF from
  <2>1. RunAdded(wanted \o Bytes(from, literal), wanted, from, literal) BY <1>1, RunWanted
  <2>2. wanted' = wanted \o Bytes(from, literal) BY DEF from
  <2> QED BY <2>1, <2>2 DEF RunAdded
<1>4. /\ Len(sequences') = n + 1 /\ \A k \in 1..n : sequences'[k] = sequences[k]
      /\ sequences'[n + 1] = new
  <2>1. sequences \in Seq(Sequence) BY DEF GInv, IInv, TypeOK
  <2> QED BY <2>1
<1>5. PICK more : /\ more \in [1..(n + 2) -> Nat] /\ more[n + 2] = next
                  /\ \A k \in 1..(n + 1) : more[k] = at[k]
  <2> DEFINE longer == [k \in 1..(n + 2) |-> IF k <= n + 1 THEN at[k] ELSE next]
  <2>1. /\ longer \in [1..(n + 2) -> Nat] /\ longer[n + 2] = next
        /\ \A k \in 1..(n + 1) : longer[k] = at[k]
    BY <1>1, <1>2
  <2> QED BY <2>1
<1>6. anchor' \in Nat /\ next <= anchor' /\ before <= next BY <1>1, <1>2
<1>7. from = begin + anchor OBVIOUS
<1> HIDE DEF n, before, next, from
<1>8. more \in [1..(Len(sequences') + 1) -> Nat] /\ more[1] = 0
  <2>1. (n + 1) + 1 = n + 2 /\ 1 \in 1..(n + 1) BY <1>1
  <2> QED BY <2>1, <1>2, <1>4, <1>5
<1>9. more[Len(sequences') + 1] = next
  <2>1. (n + 1) + 1 = n + 2 BY <1>1
  <2> QED BY <2>1, <1>4, <1>5
<1>10. ASSUME NEW k \in 1..n
       PROVE  /\ more[k + 1] = more[k] + sequences'[k].literal
              /\ more[k] <= sequences'[k].begin /\ more[k + 1] <= Len(wanted')
              /\ \A j \in Nat : more[k] < j /\ j <= more[k + 1] =>
                   wanted'[j] = begin' + sequences'[k].begin + (j - more[k] - 1)
  <2>1. k \in 1..(n + 1) /\ k + 1 \in 1..(n + 1) BY <1>1
  <2>2. more[k] = at[k] /\ more[k + 1] = at[k + 1] BY <2>1, <1>5
  <2>3. at[k] \in Nat /\ at[k + 1] \in Nat /\ at[k + 1] <= before BY <2>1, <1>2
  <2>4. at[k + 1] <= next BY <2>3, <1>1, <1>6
  <2>5. ASSUME NEW j \in Nat, at[k] < j, j <= at[k + 1]
        PROVE  wanted'[j] = begin + sequences[k].begin + (j - at[k] - 1)
    <3>1. 0 < j /\ j <= before BY <2>3, <2>5, <1>1
    <3>2. wanted'[j] = wanted[j] BY <3>1, <1>3
    <3> QED BY <3>2, <2>5, <1>2
  <2> QED BY <2>2, <2>4, <2>5, <1>2, <1>3, <1>4
<1>11. /\ more[(n + 1) + 1] = more[n + 1] + sequences'[n + 1].literal
       /\ more[n + 1] <= sequences'[n + 1].begin /\ more[(n + 1) + 1] <= Len(wanted')
       /\ \A j \in Nat : more[n + 1] < j /\ j <= more[(n + 1) + 1] =>
            wanted'[j] = begin' + sequences'[n + 1].begin + (j - more[n + 1] - 1)
  <2>1. (n + 1) + 1 = n + 2 /\ n + 1 \in 1..(n + 1) BY <1>1
  <2>2. more[(n + 1) + 1] = next /\ more[n + 1] = before BY <2>1, <1>2, <1>5
  <2>3. next = before + literal BY DEF next
  <2>4. sequences'[n + 1].begin = anchor /\ sequences'[n + 1].literal = literal BY <1>4
  <2>5. \A j \in Nat : before < j /\ j <= next =>
          wanted'[j] = begin' + anchor + (j - before - 1)
    BY <1>3, <1>7
  <2>6. more[(n + 1) + 1] = more[n + 1] + sequences'[n + 1].literal BY <2>2, <2>3, <2>4
  <2>7. more[n + 1] <= sequences'[n + 1].begin /\ more[(n + 1) + 1] <= Len(wanted')
    BY <2>2, <2>4, <1>2, <1>3
  <2>8. \A j \in Nat : more[n + 1] < j /\ j <= more[(n + 1) + 1] =>
          wanted'[j] = begin' + sequences'[n + 1].begin + (j - more[n + 1] - 1)
    BY <2>2, <2>4, <2>5
  <2> QED BY <2>6, <2>7, <2>8
<1>12. \A k \in 1..(n + 1) : k \in 1..n \/ k = n + 1 BY <1>1
<1>13. ASSUME NEW k \in 1..Len(sequences')
       PROVE  /\ more[k + 1] = more[k] + sequences'[k].literal
              /\ more[k] <= sequences'[k].begin /\ more[k + 1] <= Len(wanted')
              /\ \A j \in Nat : more[k] < j /\ j <= more[k + 1] =>
                   wanted'[j] = begin' + sequences'[k].begin + (j - more[k] - 1)
  <2>1. CASE k \in 1..n BY <2>1, <1>10
  <2>2. CASE k = n + 1 BY <2>2, <1>11
  <2> QED BY <2>1, <2>2, <1>4, <1>12
<1>14. more[Len(sequences') + 1] <= anchor' /\ more[Len(sequences') + 1] <= Len(wanted')
  BY <1>3, <1>6, <1>9
<1>15. LaidOut(more)' BY <1>8, <1>13, <1>14 DEF LaidOut
<1> QED BY <1>3, <1>9, <1>15

\* The bytes gathered are the bytes wanted.
LEMMA GatheredBehind ==
  ASSUME GatheringType, NEW memory, NEW from \in Nat, NEW count \in Nat,
         Holds(Len(wanted)), RunCopied(memory, Len(wanted), from, count),
         storage' = memory, wanted' = wanted \o Bytes(from, count)
  PROVE  Holds(Len(wanted))'
<1> DEFINE n == Len(wanted)
<1>1. wanted \in Seq(Nat) /\ n \in Nat BY DEF GatheringType
<1>2. /\ wanted' \in Seq(Nat) /\ Len(wanted') = n + count
      /\ \A j \in Nat : 0 < j /\ j <= n => wanted'[j] = wanted[j]
      /\ \A j \in Nat : n < j /\ j <= n + count => wanted'[j] = from + (j - n - 1)
  <2>1. RunAdded(wanted \o Bytes(from, count), wanted, from, count) BY <1>1, RunWanted
  <2> QED BY <2>1 DEF RunAdded
<1>3. \A cell \in 0..(n - 1) : storage[cell] = wanted[cell + 1] BY DEF Holds
<1>4. /\ \A cell \in Nat : cell < n => memory[cell] = storage[cell]
      /\ \A cell \in Nat : n <= cell /\ cell < n + count => memory[cell] = from + (cell - n)
  BY DEF RunCopied
<1> HIDE DEF n
<1>5. \A cell \in 0..((n + count) - 1) : memory[cell] = wanted'[cell + 1]
  BY <1>1, <1>2, <1>3, <1>4, HoldsMore, SMTT(30)
<1> QED BY <1>2, <1>5 DEF Holds

LEMMA MatchStep ==
  ASSUME GInv, NEW literal \in Nat, NEW match \in Nat, NEW form \in Forms,
         Match(literal, match, form)
  PROVE  GInv'
<1> DEFINE from == begin + anchor
           new == [begin |-> anchor, literal |-> literal, match |-> match,
                   offset |-> form.offset, repeat |-> form.repeat]
<1>1. IInv' BY PushHolds DEF Match, GInv
<1>2. /\ phase = "parse" /\ phase' = "parse" /\ size' = size
      /\ anchor + literal + match <= size /\ anchor' = anchor + literal + match
      /\ sequences' = Append(sequences, new)
  BY DEF Match, Push
<1>3. /\ wanted' = wanted \o Bytes(from, literal)
      /\ build' = build /\ begin' = begin /\ end' = end /\ input' = input
      /\ sent' = sent
  BY DEF Match
<1>4. /\ storage' = IF ParserGathers THEN Copied(cursor, from, Width(cursor, from, literal))
                    ELSE storage
      /\ cursor' = IF ParserGathers THEN cursor + literal ELSE cursor
  BY DEF Match, Gather
<1>n. new.begin = anchor /\ new.literal = literal OBVIOUS
<1>5. PICK at : LaidOut(at) /\ Len(wanted) = at[Len(sequences) + 1]
  BY <1>2 DEF GInv, Parsing
<1>6. /\ Len(wanted) <= anchor /\ end = begin + size /\ end <= input /\ ~sent
      /\ ParserGathers => cursor = Len(wanted) /\ Holds(Len(wanted))
  BY <1>2, <1>5 DEF LaidOut, GInv, InsideInput, Parsing
<1>7. from \in Nat /\ from = begin + anchor BY Numbers
<1>w. RunAdded(wanted \o Bytes(from, literal), wanted, from, literal)
  <2> HIDE DEF from
  <2> QED BY <1>7, Numbers, RunWanted
<1>8. \E more : LaidOut(more)' /\ Len(wanted') = more[Len(sequences') + 1]
  <2> HIDE DEF new
  <2> QED BY <1>2, <1>3, <1>5, <1>n, LaidBehind
<1> HIDE DEF from, new
<1>9. ParserGathers =>
        RunCopied(Copied(cursor, from, Width(cursor, from, literal)), cursor, from, literal)
  <2> SUFFICES ASSUME ParserGathers
               PROVE  RunCopied(Copied(cursor, from, Width(cursor, from, literal)),
                                cursor, from, literal)
    OBVIOUS
  <2>1. Inside(cursor, from, literal)
    <3>1. /\ anchor \in Nat /\ size \in Nat /\ begin \in Nat /\ cursor \in Nat
          /\ size <= Storage /\ Storage \in Nat /\ input \in Nat
      BY Numbers
    <3>2. cursor <= anchor BY <1>6
    <3>3. cursor + literal <= Storage BY <3>1, <3>2, <1>2
    <3>4. from + literal <= input BY <3>1, <1>2, <1>6, <1>7
    <3> QED BY <3>3, <3>4 DEF Inside
  <2>2. cursor \in Nat /\ GatheringType BY Numbers DEF GInv
  <2> QED BY <2>1, <2>2, <1>7, RunGathered
<1>10. GatheringType'
  <2>1. /\ storage' \in [Memory -> 0..MaxInput]
        /\ \A cell \in Memory : cell >= Storage => storage'[cell] = NoByte
    BY <1>4, <1>9 DEF RunCopied, GInv, GatheringType
  <2>2. wanted' \in Seq(Nat) BY <1>3, <1>w DEF RunAdded
  <2>3. cursor' \in Nat BY <1>4, Numbers
  <2> QED BY <2>1, <2>2, <2>3, <1>2, <1>3 DEF GInv, GatheringType, NoByte
<1>11. InsideInput' BY <1>2, <1>3, <1>6 DEF InsideInput
<1>12. ParserGathers => cursor' = Len(wanted') /\ Holds(Len(wanted))'
  <2> SUFFICES ASSUME ParserGathers PROVE cursor' = Len(wanted') /\ Holds(Len(wanted))'
    OBVIOUS
  <2>1. cursor' = Len(wanted') BY <1>3, <1>4, <1>6, <1>w DEF RunAdded
  <2>2. RunCopied(storage', Len(wanted), from, literal) /\ Holds(Len(wanted))
    BY <1>4, <1>6, <1>9
  <2>3. Holds(Len(wanted))'
    BY <2>2, <1>3, <1>7, GatheredBehind DEF GInv
  <2> QED BY <2>1, <2>3
<1>13. ParserGathers' = ParserGathers BY <1>3 DEF ParserGathers
<1>14. Parsing' BY <1>8, <1>12, <1>13 DEF Parsing
<1>15. Encoding' /\ Sent' BY <1>2, <1>3, <1>6 DEF Encoding, Sent
<1> QED BY <1>1, <1>10, <1>11, <1>14, <1>15 DEF GInv

LEMMA NoMatchesStep == ASSUME GInv, NoMatches PROVE GInv'
<1>1. IInv' BY NoSequencesHolds DEF NoMatches, GInv
<1>2. /\ phase = "parse" /\ phase' = "idle" /\ size' = size /\ UNCHANGED gatheringVars
  BY DEF NoMatches, NoSequences
<1>3. ~sent BY <1>2 DEF GInv, InsideInput
<1>4. GatheringType' BY <1>2 DEF GInv, GatheringType, gatheringVars, NoByte
<1>5. InsideInput' /\ Parsing' /\ Encoding' BY <1>2 DEF InsideInput, Parsing, Encoding
<1>6. Sent' BY <1>2, <1>3 DEF Sent, gatheringVars
<1> QED BY <1>1, <1>4, <1>5, <1>6 DEF GInv

\* Where literals lie does not change with what is wanted behind them.
LEMMA StillLaidOut ==
  ASSUME NEW at, LaidOut(at), wanted \in Seq(Nat), Len(sequences) \in Nat,
         sequences' = sequences, anchor' = anchor, begin' = begin,
         Len(wanted) <= Len(wanted'), Len(wanted') \in Nat,
         \A j \in Nat : 0 < j /\ j <= Len(wanted) => wanted'[j] = wanted[j]
  PROVE  LaidOut(at)'
<1> DEFINE n == Len(sequences)
<1>1. n \in Nat /\ Len(wanted) \in Nat OBVIOUS
<1>2. /\ at \in [1..(n + 1) -> Nat] /\ at[1] = 0
      /\ at[n + 1] <= anchor /\ at[n + 1] <= Len(wanted)
      /\ \A k \in 1..n :
           /\ at[k + 1] = at[k] + sequences[k].literal
           /\ at[k] <= sequences[k].begin /\ at[k + 1] <= Len(wanted)
           /\ \A j \in Nat : at[k] < j /\ j <= at[k + 1] =>
                wanted[j] = begin + sequences[k].begin + (j - at[k] - 1)
  BY DEF LaidOut
<1> HIDE DEF n
<1>3. ASSUME NEW k \in 1..n
      PROVE  /\ at[k + 1] = at[k] + sequences[k].literal
             /\ at[k] <= sequences[k].begin /\ at[k + 1] <= Len(wanted')
             /\ \A j \in Nat : at[k] < j /\ j <= at[k + 1] =>
                  wanted'[j] = begin + sequences[k].begin + (j - at[k] - 1)
  <2>1. k \in 1..(n + 1) /\ k + 1 \in 1..(n + 1) BY <1>1
  <2>2. at[k] \in Nat /\ at[k + 1] \in Nat /\ at[k + 1] <= Len(wanted) BY <2>1, <1>2
  <2>3. at[k + 1] <= Len(wanted') BY <2>2, <1>1
  <2>4. ASSUME NEW j \in Nat, at[k] < j, j <= at[k + 1]
        PROVE  wanted'[j] = begin + sequences[k].begin + (j - at[k] - 1)
    <3>1. 0 < j /\ j <= Len(wanted) BY <2>2, <2>4, <1>1
    <3>2. wanted'[j] = wanted[j] BY <3>1
    <3> QED BY <3>2, <2>4, <1>2
  <2> QED BY <2>3, <2>4, <1>2
<1>4. at[n + 1] <= Len(wanted')
  <2>1. at[n + 1] \in Nat BY <1>1, <1>2
  <2> QED BY <2>1, <1>1, <1>2
<1>5. /\ at \in [1..(Len(sequences') + 1) -> Nat] /\ at[1] = 0
      /\ at[Len(sequences') + 1] <= anchor' /\ at[Len(sequences') + 1] <= Len(wanted')
  BY <1>2, <1>4 DEF n
<1>6. ASSUME NEW k \in 1..Len(sequences')
      PROVE  /\ at[k + 1] = at[k] + sequences'[k].literal
             /\ at[k] <= sequences'[k].begin /\ at[k + 1] <= Len(wanted')
             /\ \A j \in Nat : at[k] < j /\ j <= at[k + 1] =>
                  wanted'[j] = begin' + sequences'[k].begin + (j - at[k] - 1)
  <2>1. k \in 1..n BY DEF n
  <2> QED BY <2>1, <1>3
<1> QED BY <1>5, <1>6 DEF LaidOut

LEMMA EndParseStep == ASSUME GInv, EndParse PROVE GInv'
<1> DEFINE from == begin + anchor
           count == size - anchor
<1>1. IInv' BY BeginEncodeHolds DEF EndParse, GInv
<1>2. /\ phase = "parse" /\ phase' = "encode" /\ size' = size /\ anchor' = anchor
      /\ sequences' = sequences /\ index' = index
  BY DEF EndParse, BeginEncode
<1>3. /\ wanted' = wanted \o Bytes(from, count)
      /\ storage' = IF ParserGathers THEN Copied(cursor, from, Width(cursor, from, count))
                    ELSE storage
      /\ cursor' = 0
      /\ build' = build /\ begin' = begin /\ end' = end /\ input' = input
      /\ sent' = sent
  BY DEF EndParse
<1>5. PICK at : LaidOut(at) /\ Len(wanted) = at[Len(sequences) + 1]
  BY <1>2 DEF GInv, Parsing
<1>6. /\ Len(wanted) <= anchor /\ end = begin + size /\ end <= input /\ ~sent
      /\ ParserGathers => cursor = Len(wanted) /\ Holds(Len(wanted))
  BY <1>2, <1>5 DEF LaidOut, GInv, InsideInput, Parsing
<1>7. /\ from \in Nat /\ from = begin + anchor /\ count \in Nat /\ count = size - anchor
  BY Numbers
<1> HIDE DEF from, count
<1>w. RunAdded(wanted', wanted, from, count)
  BY <1>3, <1>7, Numbers, RunWanted
<1>8. Len(wanted) \in Nat /\ Len(wanted') = Len(wanted) + count /\ wanted' \in Seq(Nat)
  BY <1>w, Numbers DEF RunAdded
<1>9. LaidOut(at)'
  <2>1. Len(wanted) <= Len(wanted') /\ Len(wanted') \in Nat BY <1>7, <1>8
  <2>2. \A j \in Nat : 0 < j /\ j <= Len(wanted) => wanted'[j] = wanted[j]
    BY <1>w DEF RunAdded
  <2>3. wanted \in Seq(Nat) /\ Len(sequences) \in Nat BY Numbers
  <2> QED BY <2>1, <2>2, <2>3, <1>2, <1>3, <1>5, StillLaidOut
<1>10. Trailing(at[Len(sequences) + 1])'
  <2>1. \A j \in Nat : Len(wanted) < j /\ j <= Len(wanted') =>
          wanted'[j] = from + (j - Len(wanted) - 1)
    BY <1>w DEF RunAdded
  <2>2. at[Len(sequences') + 1] = Len(wanted) BY <1>2, <1>5
  <2>3. /\ Len(wanted') = Len(wanted) + (size' - anchor')
        /\ \A j \in Nat : Len(wanted) < j /\ j <= Len(wanted') =>
             wanted'[j] = begin' + anchor' + (j - Len(wanted) - 1)
    BY <2>1, <1>2, <1>3, <1>7, <1>8
  <2> QED BY <2>2, <2>3 DEF Trailing
<1>11. ParserGathers => RunCopied(storage', cursor, from, count)
  <2> SUFFICES ASSUME ParserGathers PROVE RunCopied(storage', cursor, from, count)
    OBVIOUS
  <2>1. Inside(cursor, from, count)
    <3>1. /\ anchor \in Nat /\ size \in Nat /\ begin \in Nat /\ cursor \in Nat
          /\ size <= Storage /\ Storage \in Nat /\ input \in Nat
      BY Numbers
    <3>2. cursor <= anchor BY <1>6
    <3>3. cursor + count <= Storage BY <3>1, <3>2, <1>7
    <3>4. from + count <= input BY <3>1, <1>6, <1>7
    <3> QED BY <3>3, <3>4 DEF Inside
  <2>2. cursor \in Nat /\ GatheringType BY Numbers DEF GInv
  <2> QED BY <2>1, <2>2, <1>3, <1>7, RunGathered
<1>12. GatheringType'
  <2>1. /\ storage' \in [Memory -> 0..MaxInput]
        /\ \A cell \in Memory : cell >= Storage => storage'[cell] = NoByte
    BY <1>3, <1>11 DEF RunCopied, GInv, GatheringType
  <2> QED BY <2>1, <1>2, <1>3, <1>8 DEF GInv, GatheringType, NoByte
<1>13. InsideInput' BY <1>2, <1>3, <1>6 DEF InsideInput
<1>14. ParserGathers => Holds(Len(wanted))'
  <2> SUFFICES ASSUME ParserGathers PROVE Holds(Len(wanted))' OBVIOUS
  <2>1. RunCopied(storage', Len(wanted), from, count) /\ Holds(Len(wanted))
    BY <1>6, <1>11
  <2> QED BY <2>1, <1>3, <1>7, GatheredBehind DEF GInv
<1>15. /\ ParserGathers' = ParserGathers /\ CollectedLiterals' = CollectedLiterals
  BY <1>3 DEF ParserGathers, CollectedLiterals
<1>16. cursor' = at[index']
  <2>1. index = 1 BY <1>2 DEF GInv, IInv, Starts
  <2> QED BY <2>1, <1>2, <1>3, <1>5 DEF LaidOut
<1>17. Holds(cursor)' BY <1>3 DEF Holds
<1>18. Encoding' BY <1>9, <1>10, <1>14, <1>15, <1>16, <1>17 DEF Encoding
<1>19. Parsing' /\ Sent' BY <1>2, <1>3, <1>6 DEF Parsing, Sent
<1> QED BY <1>1, <1>12, <1>13, <1>18, <1>19 DEF GInv

\* What the encoder reads of a sequence, and where it then stands.
LEMMA EncoderStands ==
  ASSUME GInv, phase = "encode", NEW at, LaidOut(at), cursor = at[index], index <= Len(records)
  PROVE  /\ index \in 1..Len(sequences)
         /\ EncodedAt(index).literal \in Nat
         /\ at[index + 1] = cursor + EncodedAt(index).literal
         /\ position \in Nat /\ cursor <= position
         /\ position + EncodedAt(index).literal <= size
         /\ at[index + 1] <= Len(wanted)
         /\ \A j \in Nat : cursor < j /\ j <= at[index + 1] =>
              wanted[j] = begin + position + (j - cursor - 1)
<1>1. index \in 1..Len(sequences) /\ index \in 1..Len(records) /\ sequences[index] \in Sequence
  BY DEF GInv, IInv, TypeOK, Recorded
<1>2. EncodedAt(index).literal = sequences[index].literal
  <2>1. IInv BY DEF GInv
  <2> QED BY <2>1, <1>1, Unpacked DEF EncodedAt
<1>3. position = sequences[index].begin
  BY <1>1 DEF GInv, IInv, Walks
<1>4. Placed(sequences[index]) BY <1>1 DEF GInv, IInv, Apart
<1> DEFINE s == sequences[index]
<1>5. /\ s.begin \in Nat /\ s.literal \in Nat /\ s.match \in Nat
      /\ s.begin + s.literal + s.match <= anchor
  BY <1>1, <1>4 DEF Sequence, Placed, End
<1>6. s.begin + s.literal <= size
  <2>1. anchor \in Nat /\ size \in Nat /\ anchor <= size BY Numbers
  <2> HIDE DEF s
  <2> QED BY <1>5, <2>1
<1>7. /\ at[index + 1] = at[index] + s.literal
      /\ at[index] <= s.begin /\ at[index + 1] <= Len(wanted)
      /\ \A j \in Nat : at[index] < j /\ j <= at[index + 1] =>
           wanted[j] = begin + s.begin + (j - at[index] - 1)
  BY <1>1 DEF LaidOut
<1> QED BY <1>1, <1>2, <1>3, <1>5, <1>6, <1>7

LEMMA CopyLiteralsStep == ASSUME GInv, CopyLiterals PROVE GInv'
<1> DEFINE count == EncodedAt(index).literal
           from == begin + position
<1>1. IInv' BY EncodeSequenceHolds DEF CopyLiterals, GInv
<1>2. /\ phase = "encode" /\ phase' \in {"encode", "idle"} /\ index <= Len(records)
      /\ index' = index + 1 /\ size' = size /\ anchor' = anchor /\ sequences' = sequences
  BY DEF CopyLiterals, EncodeSequence
<1>3. /\ storage' = IF CollectedLiterals THEN storage
                    ELSE Copied(cursor, from, Width(cursor, from, count))
      /\ cursor' = cursor + count
      /\ build' = build /\ begin' = begin /\ end' = end /\ input' = input
      /\ sent' = sent /\ wanted' = wanted
  BY DEF CopyLiterals
<1>5. PICK at : LaidOut(at) /\ Trailing(at[Len(sequences) + 1]) /\ cursor = at[index]
  BY <1>2 DEF GInv, Encoding
<1>6. /\ end = begin + size /\ end <= input /\ ~sent
      /\ IF CollectedLiterals THEN ParserGathers => Holds(Len(wanted)) ELSE Holds(cursor)
  BY <1>2 DEF GInv, InsideInput, Encoding
<1>7. /\ index \in 1..Len(sequences) /\ count \in Nat
      /\ at[index + 1] = cursor + count
      /\ position \in Nat /\ cursor <= position /\ position + count <= size
      /\ at[index + 1] <= Len(wanted)
      /\ \A j \in Nat : cursor < j /\ j <= at[index + 1] =>
           wanted[j] = begin + position + (j - cursor - 1)
  BY <1>2, <1>5, EncoderStands
<1>8. from \in Nat /\ from = begin + position BY <1>7, Numbers, SMTT(30)
<1> HIDE DEF count, from
<1>9. ~CollectedLiterals => RunCopied(storage', cursor, from, count)
  <2> SUFFICES ASSUME ~CollectedLiterals PROVE RunCopied(storage', cursor, from, count)
    OBVIOUS
  <2>1. Inside(cursor, from, count)
    <3>1. /\ size \in Nat /\ begin \in Nat /\ cursor \in Nat
          /\ size <= Storage /\ Storage \in Nat /\ input \in Nat
      BY Numbers
    <3>2. cursor + count <= Storage BY <3>1, <1>7
    <3>3. from + count <= input BY <3>1, <1>6, <1>7, <1>8
    <3> QED BY <3>2, <3>3 DEF Inside
  <2>2. cursor \in Nat /\ GatheringType BY Numbers DEF GInv
  <2> QED BY <2>1, <2>2, <1>3, <1>7, <1>8, RunGathered
<1>10. GatheringType'
  <2>1. /\ storage' \in [Memory -> 0..MaxInput]
        /\ \A cell \in Memory : cell >= Storage => storage'[cell] = NoByte
    BY <1>3, <1>9 DEF RunCopied, GInv, GatheringType
  <2>2. cursor' \in Nat BY <1>3, <1>7, Numbers, SMTT(30)
  <2> QED BY <2>1, <2>2, <1>2, <1>3 DEF GInv, GatheringType, NoByte
<1>11. InsideInput' BY <1>2, <1>3, <1>6 DEF InsideInput
<1>12. LaidOut(at)' /\ Trailing(at[Len(sequences) + 1])'
  BY <1>2, <1>3, <1>5 DEF LaidOut, Trailing
<1>13. cursor' = at[index'] BY <1>2, <1>3, <1>7
<1>14. ~CollectedLiterals => Holds(cursor)'
  <2> SUFFICES ASSUME ~CollectedLiterals PROVE Holds(cursor)' OBVIOUS
  <2>1. \A cell \in 0..(cursor - 1) : storage[cell] = wanted[cell + 1] BY <1>6 DEF Holds
  <2>2. /\ \A cell \in Nat : cell < cursor => storage'[cell] = storage[cell]
        /\ \A cell \in Nat : cursor <= cell /\ cell < cursor + count =>
             storage'[cell] = from + (cell - cursor)
    BY <1>9 DEF RunCopied
  <2>3. \A j \in Nat : cursor < j /\ j <= cursor + count =>
          wanted[j] = from + (j - cursor - 1)
    BY <1>7, <1>8
  <2>4. \A cell \in 0..((cursor + count) - 1) : storage'[cell] = wanted[cell + 1]
    <3>1. cursor \in Nat BY Numbers
    <3>2. \A j \in Nat : 0 < j /\ j <= cursor => wanted[j] = wanted[j] OBVIOUS
    <3> QED BY <2>1, <2>2, <2>3, <3>1, <3>2, <1>7, <1>8, HoldsMore
  <2> QED BY <2>4, <1>3 DEF Holds
<1>15. CollectedLiterals /\ ParserGathers => Holds(Len(wanted))'
  BY <1>3, <1>6 DEF Holds
<1>16. /\ ParserGathers' = ParserGathers /\ CollectedLiterals' = CollectedLiterals
  BY <1>3 DEF ParserGathers, CollectedLiterals
<1>17. Encoding' BY <1>12, <1>13, <1>14, <1>15, <1>16 DEF Encoding
<1>18. Parsing' /\ Sent' BY <1>2, <1>3, <1>6 DEF Parsing, Sent
<1> QED BY <1>1, <1>10, <1>11, <1>17, <1>18 DEF GInv

\* The section is what is wanted, if who gathered it is agreed on.
LEMMA EncodeLiteralsStep == ASSUME GInv, EncodeLiterals PROVE GInv'
<1> DEFINE from == begin + anchor
           count == size - anchor
           all == IF CollectedLiterals THEN storage ELSE Copied(cursor, from, count)
<1>1. IInv' BY EndEncodeHolds DEF EncodeLiterals, GInv
<1>2. /\ phase = "encode" /\ phase' = "idle" /\ index > Len(records) /\ size' = size
  BY DEF EncodeLiterals, EndEncode
<1>3. /\ storage' = all /\ literals' = [i \in 1..(cursor + size - anchor) |-> all[i - 1]]
      /\ sent' = TRUE
      /\ build' = build /\ begin' = begin /\ end' = end /\ input' = input
      /\ cursor' = cursor /\ wanted' = wanted
  BY DEF EncodeLiterals
<1>5. PICK at : LaidOut(at) /\ Trailing(at[Len(sequences) + 1]) /\ cursor = at[index]
  BY <1>2 DEF GInv, Encoding
<1>6. /\ end = begin + size /\ end <= input /\ ~sent
      /\ IF CollectedLiterals THEN ParserGathers => Holds(Len(wanted)) ELSE Holds(cursor)
  BY <1>2 DEF GInv, InsideInput, Encoding
<1>7. /\ anchor \in Nat /\ size \in Nat /\ begin \in Nat /\ cursor \in Nat /\ anchor <= size
      /\ size <= Storage /\ Storage \in Nat /\ input \in Nat /\ Len(sequences) \in Nat
      /\ wanted \in Seq(Nat) /\ Len(wanted) \in Nat
  BY Numbers
<1>8. index = Len(sequences) + 1
  BY <1>2, <1>7 DEF GInv, IInv, TypeOK, Recorded, Walks
<1>9. /\ cursor <= anchor /\ Len(wanted) = cursor + (size - anchor)
      /\ \A j \in Nat : cursor < j /\ j <= Len(wanted) =>
           wanted[j] = begin + anchor + (j - cursor - 1)
  BY <1>5, <1>8 DEF LaidOut, Trailing
<1>10. from \in Nat /\ from = begin + anchor /\ count \in Nat /\ count = size - anchor
  BY <1>7
<1>11. storage' = IF CollectedLiterals THEN storage ELSE Copied(cursor, from, count)
  BY <1>3
<1> HIDE DEF from, count, all
<1>12. ~CollectedLiterals => RunCopied(storage', cursor, from, count)
  <2>1. cursor + count <= Storage BY <1>7, <1>9, <1>10
  <2>2. from + count <= input BY <1>6, <1>7, <1>10
  <2>3. Inside(cursor, from, count) BY <2>1, <2>2 DEF Inside
  <2>4. GatheringType /\ count \in 0..count BY <1>10 DEF GInv
  <2>5. RunCopied(Copied(cursor, from, count), cursor, from, count)
    BY <2>3, <2>4, <1>7, <1>10, CopyLeaves
  <2> QED BY <2>5, <1>11
<1>13. GatheringType'
  <2>1. /\ storage' \in [Memory -> 0..MaxInput]
        /\ \A cell \in Memory : cell >= Storage => storage'[cell] = NoByte
    BY <1>11, <1>12 DEF RunCopied, GInv, GatheringType
  <2>2. sent' \in BOOLEAN BY <1>3, Zenon
  <2> QED BY <2>1, <2>2, <1>2, <1>3 DEF GInv, GatheringType, NoByte
<1>14. InsideInput' /\ Parsing' /\ Encoding' BY <1>2 DEF InsideInput, Parsing, Encoding
<1>15. WorkIsShared => Holds(Len(wanted))'
  <2> SUFFICES ASSUME WorkIsShared PROVE Holds(Len(wanted))' OBVIOUS
  <2>1. CASE CollectedLiterals
    <3>1. Holds(Len(wanted)) BY <2>1, <1>6 DEF WorkIsShared
    <3> QED BY <3>1, <2>1, <1>3, <1>11 DEF Holds
  <2>2. CASE ~CollectedLiterals
    <3>1. \A cell \in 0..(cursor - 1) : storage[cell] = wanted[cell + 1]
      BY <2>2, <1>6 DEF Holds
    <3>2. /\ \A cell \in Nat : cell < cursor => storage'[cell] = storage[cell]
          /\ \A cell \in Nat : cursor <= cell /\ cell < cursor + count =>
               storage'[cell] = from + (cell - cursor)
      BY <2>2, <1>12 DEF RunCopied
    <3>3. \A j \in Nat : cursor < j /\ j <= cursor + count =>
            wanted[j] = from + (j - cursor - 1)
      BY <1>9, <1>10
    <3>4. \A j \in Nat : 0 < j /\ j <= cursor => wanted[j] = wanted[j] OBVIOUS
    <3>5. \A cell \in 0..((cursor + count) - 1) : storage'[cell] = wanted[cell + 1]
      BY <3>1, <3>2, <3>3, <3>4, <1>7, <1>10, HoldsMore
    <3>6. Len(wanted) = cursor + count BY <1>9, <1>10
    <3> QED BY <3>5, <3>6, <1>3 DEF Holds
  <2> QED BY <2>1, <2>2
<1>16. WorkIsShared => literals' = wanted
  <2> SUFFICES ASSUME WorkIsShared PROVE literals' = wanted OBVIOUS
  <2> DEFINE n == Len(wanted)
  <2>1. n \in Nat /\ wanted = [i \in 1..n |-> wanted[i]] BY <1>7
  <2>2. cursor + size - anchor = n BY <1>7, <1>9
  <2>3. literals' = [i \in 1..n |-> storage'[i - 1]] BY <2>2, <1>3
  <2>4. \A cell \in 0..(n - 1) : storage'[cell] = wanted[cell + 1]
    BY <1>3, <1>15 DEF Holds
  <2> HIDE DEF n
  <2>5. ASSUME NEW i \in 1..n PROVE storage'[i - 1] = wanted[i]
    <3>1. i - 1 \in 0..(n - 1) /\ (i - 1) + 1 = i BY <2>1
    <3> QED BY <3>1, <2>4
  <2> QED BY <2>1, <2>3, <2>5
<1>17. WorkIsShared' = WorkIsShared
  BY <1>3 DEF WorkIsShared, ParserGathers, CollectedLiterals
<1>18. Sent' BY <1>2, <1>3, <1>16, <1>17 DEF Sent
<1> QED BY <1>1, <1>13, <1>14, <1>18 DEF GInv

LEMMA NewInputStep == ASSUME GInv, NewInput PROVE GInv'
<1>1. UNCHANGED vars /\ phase = "idle" /\ phase' = "idle" /\ size' = size
  BY DEF NewInput, vars
<1>2. IInv' BY <1>1, StepHolds DEF GInv
<1>3. /\ begin' = 0 /\ end' = 0 /\ input' = 0 /\ wanted' = <<>> /\ cursor' = 0
      /\ sent' = FALSE /\ build' = build /\ storage' = storage
  BY DEF NewInput
<1>4. ~sent' /\ sent' \in BOOLEAN BY <1>3, Zenon
<1>5. wanted' \in Seq(Nat) BY <1>3
<1>6. GatheringType'
  BY <1>1, <1>3, <1>4, <1>5, GatheringAssumption DEF GInv, GatheringType, NoByte
<1>7. InsideInput' /\ Parsing' /\ Encoding' /\ Sent'
  BY <1>1, <1>4 DEF InsideInput, Parsing, Encoding, Sent
<1> QED BY <1>2, <1>6, <1>7 DEF GInv

LEMMA GatheringStutterStep == ASSUME GInv, UNCHANGED allVars PROVE GInv'
<1>1. UNCHANGED vars /\ UNCHANGED gatheringVars BY DEF allVars
<1>2. IInv' BY <1>1, StepHolds DEF GInv
<1> USE <1>1 DEF vars, gatheringVars
<1>3. GatheringType' BY DEF GInv, GatheringType, NoByte
<1>4. InsideInput' BY DEF GInv, InsideInput
<1>5. ParserGathers' = ParserGathers /\ CollectedLiterals' = CollectedLiterals
  BY DEF ParserGathers, CollectedLiterals
<1>6. Parsing' BY <1>5 DEF GInv, Parsing, LaidOut, Holds
<1>7. Encoding' BY <1>5 DEF GInv, Encoding, LaidOut, Trailing, Holds
<1>8. Sent' BY <1>5 DEF GInv, Sent, WorkIsShared
<1> QED BY <1>2, <1>3, <1>4, <1>6, <1>7, <1>8 DEF GInv

LEMMA GatheringNextStep == GInv /\ [GatheringNext]_allVars => GInv'
<1> SUFFICES ASSUME GInv, [GatheringNext]_allVars PROVE GInv' OBVIOUS
<1>1. ASSUME NEW count \in BlockSizes, NEW more \in 0..MaxInput, Begin(count, more)
      PROVE  GInv'
  BY <1>1, BeginStep
<1>2. ASSUME NEW literal \in 0..(size - anchor), NEW match \in ShortMatch..(size - anchor),
             NEW form \in Forms, Match(literal, match, form)
      PROVE  GInv'
  <2>1. literal \in Nat /\ match \in Nat BY ConstantsAssumption, Numbers
  <2> QED BY <1>2, <2>1, MatchStep
<1>3. CASE NoMatches BY <1>3, NoMatchesStep
<1>4. CASE EndParse BY <1>4, EndParseStep
<1>5. CASE CopyLiterals BY <1>5, CopyLiteralsStep
<1>6. CASE EncodeLiterals BY <1>6, EncodeLiteralsStep
<1>7. CASE NewInput BY <1>7, NewInputStep
<1>8. CASE UNCHANGED allVars BY <1>8, GatheringStutterStep
<1> QED BY <1>1, <1>2, <1>3, <1>4, <1>5, <1>6, <1>7, <1>8 DEF GatheringNext

\* Parser and encoder agree on which literals come before every sequence, and the
\* storage has those that were gathered.
THEOREM GatheringInvariance == GatheringSpec => []GInv
<1>1. GatheringInit => GInv BY GatheringInitHolds
<1>2. GInv /\ [GatheringNext]_allVars => GInv' BY GatheringNextStep
<1> QED BY <1>1, <1>2, PTL DEF GatheringSpec

\* The literal section is the bytes of the block that no match covers, in every
\* build where the encoder takes as gathered only what the parser gathers.
THEOREM LiteralsHold ==
  GatheringSpec => []((CollectedLiterals => ParserGathers) => LiteralsAreTheBlocks)
<1>1. GInv => ((CollectedLiterals => ParserGathers) => LiteralsAreTheBlocks)
  BY DEF GInv, Sent, WorkIsShared, LiteralsAreTheBlocks
<1> QED BY <1>1, GatheringInvariance, PTL

\* No copy, wide or not, writes behind the storage or keeps what is not input, in
\* any build.
THEOREM CopiesHold == GatheringSpec => []CopiesStayInside
<1>1. GInv => CopiesStayInside
  <2> SUFFICES ASSUME GInv, NEW cell \in Memory
               PROVE  /\ storage[cell] # PastInput
                      /\ cell >= Storage => storage[cell] = NoByte
    BY DEF CopiesStayInside
  <2>1. /\ storage[cell] \in 0..MaxInput
        /\ cell >= Storage => storage[cell] = NoByte
    BY DEF GInv, GatheringType
  <2> QED BY <2>1, GatheringAssumption DEF PastInput
<1> QED BY <1>1, GatheringInvariance, PTL

\* With or without who copies, the records behave alike: every step is one of theirs
\* or leaves them alone.
THEOREM RecordsBehave == GatheringSpec => Spec
<1>1. GatheringInit => Init BY DEF GatheringInit
<1>2. [GatheringNext]_allVars => [Next]_vars
  <2> SUFFICES ASSUME [GatheringNext]_allVars PROVE [Next]_vars OBVIOUS
  <2>1. ASSUME NEW count \in BlockSizes, NEW more \in 0..MaxInput, Begin(count, more)
        PROVE  Next
    BY <2>1 DEF Begin, Next
  <2>2. ASSUME NEW literal \in 0..(size - anchor), NEW match \in ShortMatch..(size - anchor),
               NEW form \in Forms, Match(literal, match, form)
        PROVE  Next
    BY <2>2 DEF Match, Next
  <2>3. CASE NoMatches \/ EndParse \/ CopyLiterals \/ EncodeLiterals
    BY <2>3 DEF NoMatches, EndParse, CopyLiterals, EncodeLiterals, Next
  <2>4. CASE NewInput BY <2>4 DEF NewInput
  <2>5. CASE UNCHANGED allVars BY <2>5 DEF allVars
  <2> QED BY <2>1, <2>2, <2>3, <2>4, <2>5 DEF GatheringNext
<1> QED BY <1>1, <1>2, PTL DEF GatheringSpec, Spec
=============================================================================
