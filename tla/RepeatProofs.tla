---------------------------- MODULE RepeatProofs ----------------------------
(***************************************************************************)
(* The repeat offsets of every strategy, and the tables that blocks repeat.*)
(* First EntropyHistory, for every set of distances, tables and alphabets  *)
(* and any number of sequences and blocks; then the invariants of          *)
(* FastRepeatHistory and LazyRepeatHistory for every window, block size    *)
(* and length of input, and of the behaviours of MCRepeats, which are of   *)
(* one or the other.  In each part one lemma per action shows that the     *)
(* part's invariant is kept.                                               *)
(***************************************************************************)
EXTENDS EntropyHistory, MCRepeats, TLAPS

----------------------------------------------------------------------------
(* Repeat offsets: the two sides' functions.                               *)

\* The decoder's sequence loop, which sees a symbol and extra bits, computes
\* the distance and the history that the encoder's functions define on bases.
LEMMA DecoderAgrees ==
  ASSUME NEW r \in Histories, NEW base \in Nat \ {0}, NEW noLiterals \in BOOLEAN
  PROVE  DecodeOffset(r, base, noLiterals) =
           [offset  |-> ResolveOptimalOffset(r, base, noLiterals),
            repeats |-> UpdateOptimalRepeats(r, base, noLiterals)]
<1>1. CASE base >= 4
  BY <1>1 DEF DecodeOffset, OffsetSymbol, ResolveOptimalOffset, UpdateOptimalRepeats
<1>2. CASE base = 1
  BY <1>2 DEF DecodeOffset, OffsetSymbol, ResolveOptimalOffset, UpdateOptimalRepeats,
              RepeatCode, Histories
<1>3. CASE base = 2
  BY <1>3 DEF DecodeOffset, OffsetSymbol, ResolveOptimalOffset, UpdateOptimalRepeats,
              RepeatCode, Histories
<1>4. CASE base = 3
  BY <1>4 DEF DecodeOffset, OffsetSymbol, ResolveOptimalOffset, UpdateOptimalRepeats,
              RepeatCode, Histories
<1> QED BY <1>1, <1>2, <1>3, <1>4

LEMMA ResolveType ==
  ASSUME NEW r \in Histories, NEW base \in Nat \ {0}, NEW noLiterals \in BOOLEAN
  PROVE  ResolveOptimalOffset(r, base, noLiterals) \in Int
BY DEF ResolveOptimalOffset, RepeatCode, Histories

LEMMA UpdateType ==
  ASSUME NEW r \in Histories, NEW base \in Nat \ {0}, NEW noLiterals \in BOOLEAN
  PROVE  UpdateOptimalRepeats(r, base, noLiterals) \in Histories
BY ResolveType DEF UpdateOptimalRepeats, ResolveOptimalOffset, RepeatCode, Histories

LEMMA ParserHistoriesAre == ParserHistories \subseteq Histories
BY DEF ParserHistories, Histories

\* A sequence that moves to a distance other than zero keeps zero out.
LEMMA UpdateParserType ==
  ASSUME NEW r \in ParserHistories, NEW base \in Nat \ {0}, NEW noLiterals \in BOOLEAN,
         ResolveOptimalOffset(r, base, noLiterals) > 0
  PROVE  UpdateOptimalRepeats(r, base, noLiterals) \in ParserHistories
BY DEF UpdateOptimalRepeats, ResolveOptimalOffset, RepeatCode, ParserHistories

\* A reconciled base means to the decoder what the parser meant, provided the
\* parser never chose a repeat code for distance zero.
LEMMA ReconcileAgrees ==
  ASSUME NEW meant \in Histories, NEW believed \in Histories,
         NEW base \in Nat \ {0}, NEW noLiterals \in BOOLEAN,
         ResolveOptimalOffset(meant, base, noLiterals) > 0
  PROVE  /\ ReconciledBase(meant, believed, base, noLiterals) \in Nat \ {0}
         /\ ResolveOptimalOffset(believed,
              ReconciledBase(meant, believed, base, noLiterals), noLiterals)
            = ResolveOptimalOffset(meant, base, noLiterals)
<1> DEFINE wanted == ResolveOptimalOffset(meant, base, noLiterals)
           got    == ResolveOptimalOffset(believed, base, noLiterals)
<1>1. wanted \in Int /\ wanted > 0 BY ResolveType
<1>2. CASE base < 4 /\ wanted # got
  <2>1. ReconciledBase(meant, believed, base, noLiterals) = wanted + 3
    BY <1>2 DEF ReconciledBase, NewOffsetBase
  <2>2. ResolveOptimalOffset(believed, wanted + 3, noLiterals) = wanted
    <3> HIDE DEF wanted
    <3> QED BY <1>1 DEF ResolveOptimalOffset
  <2> QED BY <2>1, <2>2, <1>1
<1>3. CASE ~(base < 4 /\ wanted # got)
  <2>1. ReconciledBase(meant, believed, base, noLiterals) = base
    BY <1>3 DEF ReconciledBase
  <2>2. CASE base >= 4
    BY <2>1, <2>2 DEF ResolveOptimalOffset
  <2>3. CASE base < 4
    BY <2>1, <2>3, <1>3
  <2> QED BY <2>2, <2>3
<1> QED BY <1>2, <1>3

----------------------------------------------------------------------------
(* Encodings.                                                              *)

\* What the tables of an encoding can be, alphabet by alphabet.
LEMMA EncodingParts ==
  ASSUME NEW e \in Encodings
  PROVE  /\ \A a \in Alphabets : e.sequences[a] \in SequenceChoices(sequenceHistory[a])
         /\ e.literals \in LiteralChoices(huffmanRepeat)
BY DEF Encodings

LEMMA ChoiceTypes ==
  ASSUME EntropyTypeOK, NEW e \in Encodings
  PROVE  /\ \A a \in Alphabets :
              /\ e.sequences[a].table \in SequenceTables
              /\ e.sequences[a].kept \in HeldTables(SequenceTables)
         /\ e.literals.table \in LiteralTables
         /\ e.literals.kept \in HeldTables(LiteralTables)
<1>1. ASSUME NEW a \in Alphabets
      PROVE  /\ e.sequences[a].table \in SequenceTables
             /\ e.sequences[a].kept \in HeldTables(SequenceTables)
  <2>1. sequenceHistory[a] \in HeldTables(SequenceTables) BY DEF EntropyTypeOK
  <2>2. e.sequences[a] \in SequenceChoices(sequenceHistory[a]) BY EncodingParts
  <2> DEFINE h == sequenceHistory[a]
             c == e.sequences[a]
  <2>3. \/ c = Choice("predefined", Predefined, Kept(FALSE, h.table))
        \/ c = Choice("run_length", RunLength, Kept(FALSE, h.table))
        \/ \E t \in FseTables : c = Choice("compressed", t, Kept(TRUE, t))
        \/ c = Choice("repeat", h.table, h)
    BY <2>2 DEF SequenceChoices
  <2>4. /\ h.table \in SequenceTables
        /\ \A v \in BOOLEAN, t \in SequenceTables : Kept(v, t) \in HeldTables(SequenceTables)
        /\ Predefined \in SequenceTables /\ RunLength \in SequenceTables
        /\ FseTables \subseteq SequenceTables
    BY <2>1 DEF HeldTables, Kept, SequenceTables
  <2>5. \A m, t, k : Choice(m, t, k).table = t /\ Choice(m, t, k).kept = k
    BY DEF Choice
  <2>6. \E m : \E t \in SequenceTables, k \in HeldTables(SequenceTables) : c = Choice(m, t, k)
    BY <2>1, <2>3, <2>4
  <2> QED BY <2>5, <2>6
<1>2. e.literals \in LiteralChoices(huffmanRepeat) BY EncodingParts
<1>3. huffmanRepeat \in HeldTables(LiteralTables) BY DEF EntropyTypeOK
<1>4. /\ e.literals.table \in LiteralTables
      /\ e.literals.kept \in HeldTables(LiteralTables)
  <2> DEFINE c == e.literals
             h == huffmanRepeat
  <2>1. \/ c = Choice("raw", NoTable, h)
        \/ \E t \in HuffmanTables : c = Choice("compressed", t, Kept(TRUE, t))
        \/ c = Choice("repeat", h.table, h)
    BY <1>2 DEF LiteralChoices
  <2>2. /\ h.table \in LiteralTables
        /\ \A t \in LiteralTables : Kept(TRUE, t) \in HeldTables(LiteralTables)
        /\ NoTable \in LiteralTables /\ HuffmanTables \subseteq LiteralTables
    BY <1>3 DEF HeldTables, Kept, LiteralTables
  <2>3. \A m, t, k : Choice(m, t, k).table = t /\ Choice(m, t, k).kept = k
    BY DEF Choice
  <2>4. \E m : \E t \in LiteralTables, k \in HeldTables(LiteralTables) : c = Choice(m, t, k)
    BY <1>3, <2>1, <2>2
  <2> QED BY <2>3, <2>4
<1> QED BY <1>1, <1>4

\* With the encoder's history held by the decoder, a compressed block is
\* accepted, decoded with the tables it was coded with, and leaves the
\* history that the encoder keeps for the next block held again.
LEMMA CompressedBlockHeld ==
  ASSUME EntropyTypeOK, TablesHeld, NEW e \in Encodings,
         CommitTables(e), ReceiveCompressed(e)
  PROVE  /\ Accepts(e)
         /\ lastBlock'.accepted
         /\ lastBlock'.offsets = received.agrees
         /\ lastBlock'.tables
         /\ repeatOffsets' = received.repeats
         /\ TablesHeld'
<1>1. \A a \in Alphabets : e.sequences[a] \in SequenceChoices(sequenceHistory[a])
  BY EncodingParts
<1>2. e.literals \in LiteralChoices(huffmanRepeat) BY EncodingParts
<1>3. ASSUME NEW a \in Alphabets
      PROVE  /\ e.sequences[a].mode = "repeat" => sequenceHistory[a].valid
             /\ e.sequences[a].mode = "repeat" =>
                  e.sequences[a].table = sequenceHistory[a].table
             /\ e.sequences[a].kept.valid => e.sequences[a].kept.table = e.sequences[a].table
  <2>1. sequenceHistory[a] \in HeldTables(SequenceTables) BY DEF EntropyTypeOK
  <2> QED BY <1>1, <2>1 DEF SequenceChoices, Choice, Kept, HeldTables
<1>4. /\ e.literals.mode = "repeat" =>
           huffmanRepeat.valid /\ e.literals.table = huffmanRepeat.table
      /\ e.literals.mode = "repeat" => e.literals.kept = huffmanRepeat
      /\ e.literals.mode = "compressed" => e.literals.kept.table = e.literals.table
      /\ e.literals.mode \notin {"repeat", "compressed"} => e.literals.kept = huffmanRepeat
  <2>1. huffmanRepeat \in HeldTables(LiteralTables) BY DEF EntropyTypeOK
  <2> QED BY <1>2, <2>1 DEF LiteralChoices, Choice, Kept, HeldTables
<1>5. Accepts(e)
  BY <1>3, <1>4 DEF Accepts, TablesHeld
<1>6. \A a \in Alphabets :
        DecodedTable(e.sequences[a], sequenceTable[a]) = e.sequences[a].table
  BY <1>3 DEF DecodedTable, TablesHeld
<1>7. e.literals.mode = "repeat" => huffmanTable.table = e.literals.table
  BY <1>4 DEF TablesHeld
<1>8. /\ lastBlock'.accepted
      /\ lastBlock'.offsets = received.agrees
      /\ lastBlock'.tables
  BY <1>5, <1>6, <1>7 DEF ReceiveCompressed, Verdict
<1>9. repeatOffsets' = received.repeats
  BY <1>5 DEF ReceiveCompressed
<1>10. ASSUME NEW a \in Alphabets, sequenceHistory'[a].valid
       PROVE  /\ fseRepeatAllowed'
              /\ sequenceTable'[a].valid
              /\ sequenceTable'[a].table = sequenceHistory'[a].table
  <2>1. sequenceHistory'[a] = e.sequences[a].kept BY DEF CommitTables
  <2>2. /\ fseRepeatAllowed'
        /\ sequenceTable'[a] = Kept(TRUE, e.sequences[a].table)
    BY <1>5, <1>6 DEF ReceiveCompressed
  <2> QED BY <2>1, <2>2, <1>3, <1>10 DEF Kept
<1>11. ASSUME huffmanRepeat'.valid
       PROVE  huffmanTable'.valid /\ huffmanTable'.table = huffmanRepeat'.table
  <2>1. huffmanRepeat' = e.literals.kept BY DEF CommitTables
  <2>2. CASE e.literals.mode = "compressed"
    <3>1. huffmanTable' = Kept(TRUE, e.literals.table)
      BY <2>2, <1>5 DEF ReceiveCompressed
    <3> QED BY <3>1, <2>1, <2>2, <1>4 DEF Kept
  <2>3. CASE e.literals.mode # "compressed"
    <3>1. huffmanTable' = huffmanTable /\ huffmanRepeat' = huffmanRepeat
      BY <2>1, <2>3, <1>4, <1>5 DEF ReceiveCompressed
    <3> QED BY <3>1, <1>11 DEF TablesHeld
  <2> QED BY <2>2, <2>3
<1>12. TablesHeld' BY <1>10, <1>11 DEF TablesHeld
<1> QED BY <1>5, <1>8, <1>9, <1>12

----------------------------------------------------------------------------
(* The inductive invariant: one lemma per action.                          *)

LEMMA InitialHistory == InitialRepeats \in Histories /\ InitialRepeats \in ParserHistories
BY DEF InitialRepeats, Histories, ParserHistories

LEMMA InitInv == EntropyInit => EntropyInv
<1> SUFFICES ASSUME EntropyInit PROVE EntropyInv OBVIOUS
<1>1. EntropyTypeOK
  <2>1. NoHistory \in HeldTables(SequenceTables) /\ NoHistory \in HeldTables(LiteralTables)
    BY DEF NoHistory, Kept, HeldTables, SequenceTables, LiteralTables
  <2>2. /\ sequenceHistory \in [Alphabets -> HeldTables(SequenceTables)]
        /\ sequenceTable \in [Alphabets -> HeldTables(SequenceTables)]
        /\ huffmanRepeat \in HeldTables(LiteralTables)
        /\ huffmanTable \in HeldTables(LiteralTables)
    BY <2>1 DEF EntropyInit
  <2>3. /\ received \in [repeats : Histories, agrees : BOOLEAN]
        /\ lastBlock \in [type : {"none", "raw", "run_length", "compressed"},
                          accepted : BOOLEAN, offsets : BOOLEAN, tables : BOOLEAN]
    BY InitialHistory DEF EntropyInit, Opening, Verdict
  <2>4. parsed \in Seq(ParsedSequences)
    BY DEF EntropyInit
  <2>5. /\ optimalRepeats \in ParserHistories /\ encoderRepeats \in ParserHistories
        /\ decoderRepeats \in ParserHistories /\ savedRepeats \in ParserHistories
        /\ repeatOffsets \in Histories
    BY InitialHistory DEF EntropyInit
  <2>6. /\ phase \in {"parse", "whole", "partitions"}
        /\ next \in Nat \ {0} /\ cut \in Nat \ {0}
    BY DEF EntropyInit
  <2>7. firstBlock \in BOOLEAN /\ fellBack \in BOOLEAN /\ fseRepeatAllowed \in BOOLEAN
    BY Zenon DEF EntropyInit
  <2> QED BY <2>2, <2>3, <2>4, <2>5, <2>6, <2>7 DEF EntropyTypeOK
<1>2. ReplayOfParse BY DEF EntropyInit, ReplayOfParse
<1>3. TablesHeld BY DEF EntropyInit, TablesHeld, NoHistory, Kept
<1>4. RepeatsTracked BY DEF EntropyInit, RepeatsTracked, Opening
<1>5. lastBlock.accepted /\ lastBlock.offsets /\ lastBlock.tables
  BY DEF EntropyInit, Verdict
<1> QED BY <1>1, <1>2, <1>3, <1>4, <1>5 DEF EntropyInv

LEMMA NewFrameInv == ASSUME EntropyInv, EntropyNewFrame PROVE EntropyInv'
<1> USE DEF EntropyInv
<1>1. EntropyTypeOK'
  BY InitialHistory DEF EntropyNewFrame, EntropyTypeOK, Kept, Opening, Verdict, HeldTables
<1>2. ReplayOfParse' BY DEF EntropyNewFrame, ReplayOfParse
<1>3. TablesHeld' BY DEF EntropyNewFrame, TablesHeld, Kept
<1>4. RepeatsTracked' BY DEF EntropyNewFrame, RepeatsTracked, Opening
<1>5. (lastBlock.accepted /\ lastBlock.offsets /\ lastBlock.tables)'
  BY DEF EntropyNewFrame, Verdict
<1> QED BY <1>1, <1>2, <1>3, <1>4, <1>5

LEMMA ParseSequenceInv == ASSUME EntropyInv, ParseSequence PROVE EntropyInv'
<1> USE DEF EntropyInv
<1>1. PICK base \in Bases, noLiterals \in BOOLEAN :
        /\ ResolveOptimalOffset(optimalRepeats, base, noLiterals) > 0
        /\ parsed' = Append(parsed, [base |-> base, noLiterals |-> noLiterals,
                                     before |-> optimalRepeats])
        /\ optimalRepeats' = UpdateOptimalRepeats(optimalRepeats, base, noLiterals)
  BY DEF ParseSequence, Candidate
<1>2. base \in Nat \ {0}
  BY EntropyAssumption DEF Bases, NewOffsetBase
<1>3. optimalRepeats \in ParserHistories BY DEF EntropyTypeOK
<1>4. optimalRepeats' \in ParserHistories BY <1>1, <1>2, <1>3, UpdateParserType
<1> DEFINE s == [base |-> base, noLiterals |-> noLiterals, before |-> optimalRepeats]
           Sequence == ParsedSequences
<1>5. s \in Sequence /\ parsed \in Seq(Sequence) BY <1>2, <1>3 DEF EntropyTypeOK, ParsedSequences
<1>6. parsed' = Append(parsed, s) BY <1>1
<1>7. parsed' \in Seq(Sequence) BY <1>5, <1>6
<1>8. EntropyTypeOK'
  BY <1>4, <1>7 DEF ParseSequence, EntropyTypeOK, decoderVars
<1>9. /\ Len(parsed') = Len(parsed) + 1
      /\ \A i \in 1..Len(parsed) : parsed'[i] = parsed[i]
      /\ parsed'[Len(parsed) + 1] = s
      /\ Len(parsed) \in Nat
  BY <1>5, <1>6
<1>10. Means(s, s.before) > 0 /\ optimalRepeats' = After(s)
  BY <1>1 DEF Means, After
<1>11. /\ phase = "parse" /\ phase' = phase /\ next' = next /\ cut' = cut
       /\ encoderRepeats' = encoderRepeats
       /\ next = 1 /\ cut = 1
  BY DEF ParseSequence, ReplayOfParse
<1>12. ASSUME NEW i \in 1..Len(parsed')
       PROVE  /\ Means(parsed'[i], parsed'[i].before) > 0
              /\ i < Len(parsed') => parsed'[i + 1].before = After(parsed'[i])
              /\ i = Len(parsed') => optimalRepeats' = After(parsed'[i])
  <2>1. CASE i = Len(parsed) + 1 BY <2>1, <1>9, <1>10
  <2>2. CASE i = Len(parsed)
    <3>1. parsed'[i] = parsed[i] /\ parsed'[i + 1] = s BY <2>2, <1>9, <1>12
    <3>2. optimalRepeats = After(parsed[i]) /\ Means(parsed[i], parsed[i].before) > 0
      BY <2>2, <1>9, <1>12 DEF ReplayOfParse
    <3> QED BY <3>1, <3>2, <2>2, <1>9
  <2>3. CASE i < Len(parsed)
    <3>1. parsed'[i] = parsed[i] /\ parsed'[i + 1] = parsed[i + 1]
      BY <2>3, <1>9, <1>12
    <3> QED BY <3>1, <2>3, <1>9, <1>12 DEF ReplayOfParse
  <2> QED BY <2>1, <2>2, <2>3, <1>9
<1>13. next' <= Len(parsed') => encoderRepeats' = parsed'[next'].before
  <2>1. CASE Len(parsed) = 0 BY <2>1, <1>9, <1>11 DEF ReplayOfParse
  <2>2. CASE Len(parsed) > 0 BY <2>2, <1>9, <1>11 DEF ReplayOfParse
  <2> QED BY <2>1, <2>2, <1>9
<1>14. ReplayOfParse'
  <2>1. /\ next' \in 1..(Len(parsed') + 1) /\ cut' \in 1..next'
        /\ ~(next' > Len(parsed'))
    BY <1>9, <1>11
  <2> QED BY <2>1, <1>11, <1>12, <1>13 DEF ReplayOfParse
<1>15. TablesHeld => TablesHeld'
  BY DEF ParseSequence, TablesHeld, decoderVars
<1>16. RepeatsTracked => RepeatsTracked'
  BY <1>11 DEF ParseSequence, RepeatsTracked, decoderVars
<1> QED BY <1>8, <1>14, <1>15, <1>16 DEF ParseSequence

LEMMA EmitUnparsedInv == ASSUME EntropyInv, EmitUnparsed PROVE EntropyInv'
<1> USE DEF EntropyInv
<1>1. PICK type \in UncompressedTypes : ReceiveUncompressed(type)
  BY DEF EmitUnparsed
<1>2. /\ lastBlock' \in [type : {"none", "raw", "run_length", "compressed"},
                         accepted : BOOLEAN, offsets : BOOLEAN, tables : BOOLEAN]
      /\ lastBlock'.accepted /\ lastBlock'.offsets /\ lastBlock'.tables
      /\ UNCHANGED decoderVars
  BY <1>1 DEF ReceiveUncompressed, Verdict, UncompressedTypes
<1>3. EntropyTypeOK' BY <1>2 DEF EmitUnparsed, EntropyTypeOK, decoderVars
<1>4. ReplayOfParse' BY DEF EmitUnparsed, ReplayOfParse
<1>5. TablesHeld => TablesHeld' BY <1>2 DEF EmitUnparsed, TablesHeld, decoderVars
<1>6. RepeatsTracked => RepeatsTracked'
  BY <1>2 DEF EmitUnparsed, RepeatsTracked, decoderVars
<1> QED BY <1>2, <1>3, <1>4, <1>5, <1>6 DEF EmitUnparsed

LEMMA BeginWholeInv == ASSUME EntropyInv, BeginWhole PROVE EntropyInv'
<1> USE DEF EntropyInv
<1>1. EntropyTypeOK' BY DEF BeginWhole, EntropyTypeOK, decoderVars
<1>2. parsed \in Seq(ParsedSequences)
  BY DEF EntropyTypeOK
<1>3. Len(parsed) \in Nat \ {0} BY <1>2 DEF BeginWhole
<1>4. ReplayOfParse' BY <1>3 DEF BeginWhole, ReplayOfParse
<1>5. TablesHeld => TablesHeld' BY DEF BeginWhole, TablesHeld, decoderVars
<1>6. RepeatsTracked => RepeatsTracked' BY DEF BeginWhole, RepeatsTracked, decoderVars
<1> QED BY <1>1, <1>4, <1>5, <1>6 DEF BeginWhole

LEMMA BeginPartitionsInv == ASSUME EntropyInv, BeginPartitions PROVE EntropyInv'
<1> USE DEF EntropyInv
<1>1. EntropyTypeOK' BY DEF BeginPartitions, EntropyTypeOK, decoderVars
<1>2. ReplayOfParse' BY DEF BeginPartitions, ReplayOfParse
<1>3. TablesHeld => TablesHeld' BY DEF BeginPartitions, TablesHeld, decoderVars
<1>4. RepeatsTracked => RepeatsTracked'
  BY DEF BeginPartitions, RepeatsTracked, decoderVars
<1> QED BY <1>1, <1>2, <1>3, <1>4 DEF BeginPartitions

\* What is written for a sequence means to the histories that emit_partitions
\* keeps what the parser meant.
LEMMA EncodeSequenceInv == ASSUME EntropyInv, EncodeSequence PROVE EntropyInv'
<1> USE DEF EntropyInv
<1> DEFINE s    == parsed[next]
           turn == DecodeOffset(received.repeats, SentBase(s), s.noLiterals)
           Sequence == ParsedSequences
<1>1. /\ s.base \in Nat \ {0} /\ s.noLiterals \in BOOLEAN
      /\ encoderRepeats = s.before /\ Means(s, s.before) > 0
      /\ next \in 1..Len(parsed) /\ Len(parsed) \in Nat
  <2>1. parsed \in Seq(Sequence) BY DEF EntropyTypeOK
  <2>2. next \in 1..Len(parsed) /\ Len(parsed) \in Nat
    BY <2>1 DEF EncodeSequence, ReplayOfParse
  <2>3. s \in Sequence
    <3> HIDE DEF Sequence
    <3> QED BY <2>1, <2>2
  <2>4. encoderRepeats = s.before /\ Means(s, s.before) > 0
    BY <2>2 DEF ReplayOfParse
  <2> QED BY <2>2, <2>3, <2>4 DEF ParsedSequences
<1>2. /\ encoderRepeats \in Histories /\ decoderRepeats \in Histories
      /\ encoderRepeats \in ParserHistories /\ decoderRepeats \in ParserHistories
      /\ received.repeats \in Histories /\ received.agrees \in BOOLEAN
  BY ParserHistoriesAre DEF EntropyTypeOK
<1> DEFINE meant == ResolveOptimalOffset(encoderRepeats, s.base, s.noLiterals)
<1>3. meant > 0 BY <1>1 DEF Means
<1>4. /\ SentBase(s) \in Nat \ {0}
      /\ phase = "partitions" =>
           ResolveOptimalOffset(decoderRepeats, SentBase(s), s.noLiterals) = meant
  BY <1>1, <1>2, <1>3, ReconcileAgrees DEF SentBase
<1>5. turn = [offset  |-> ResolveOptimalOffset(received.repeats, SentBase(s), s.noLiterals),
              repeats |-> UpdateOptimalRepeats(received.repeats, SentBase(s), s.noLiterals)]
  BY <1>1, <1>2, <1>4, DecoderAgrees
<1>6. turn.repeats \in Histories BY <1>1, <1>2, <1>4, <1>5, UpdateType
<1>7. /\ encoderRepeats' = UpdateOptimalRepeats(encoderRepeats, s.base, s.noLiterals)
      /\ encoderRepeats' = After(s)
      /\ encoderRepeats' \in ParserHistories
  <2>1. encoderRepeats' = UpdateOptimalRepeats(encoderRepeats, s.base, s.noLiterals)
    BY DEF EncodeSequence
  <2> QED BY <2>1, <1>1, <1>2, <1>3, UpdateParserType DEF After
<1>8. received' = [repeats |-> turn.repeats,
                   agrees  |-> received.agrees /\ turn.offset = meant]
  BY DEF EncodeSequence
<1>9. /\ decoderRepeats' \in ParserHistories
      /\ phase = "partitions" =>
           decoderRepeats' = UpdateOptimalRepeats(decoderRepeats, SentBase(s), s.noLiterals)
  BY <1>1, <1>2, <1>3, <1>4, UpdateParserType DEF EncodeSequence
<1>10. received' \in [repeats : Histories, agrees : BOOLEAN] BY <1>2, <1>6, <1>8
<1>11. EntropyTypeOK'
  BY <1>7, <1>9, <1>10, <1>1 DEF EncodeSequence, EntropyTypeOK, decoderVars
<1>12. ReplayOfParse'
  <2>1. /\ next' = next + 1 /\ UNCHANGED <<phase, parsed, cut, optimalRepeats>>
        /\ phase # "parse"
    BY DEF EncodeSequence
  <2>2. next < Len(parsed) => encoderRepeats' = parsed[next + 1].before
    BY <1>1, <1>7 DEF ReplayOfParse
  <2>3. next = Len(parsed) => encoderRepeats' = optimalRepeats
    BY <1>1, <1>7 DEF ReplayOfParse
  <2> QED BY <1>1, <2>1, <2>2, <2>3 DEF ReplayOfParse
<1>13. TablesHeld => TablesHeld'
  BY DEF EncodeSequence, TablesHeld, decoderVars
<1>14. RepeatsTracked => RepeatsTracked'
  <2> SUFFICES ASSUME RepeatsTracked PROVE RepeatsTracked' OBVIOUS
  <2>1. /\ phase' = phase /\ phase \in {"whole", "partitions"}
        /\ savedRepeats' = savedRepeats /\ repeatOffsets' = repeatOffsets
    BY DEF EncodeSequence, decoderVars
  <2>2. CASE phase = "whole"
    <3>1. SentBase(s) = s.base /\ received.repeats = encoderRepeats
      BY <2>2 DEF SentBase, RepeatsTracked
    <3>2. turn.offset = meant /\ turn.repeats = encoderRepeats'
      BY <3>1, <1>5, <1>7
    <3> QED BY <3>2, <2>1, <2>2, <1>8 DEF RepeatsTracked
  <2>3. CASE phase = "partitions"
    <3>1. received.repeats = decoderRepeats BY <2>3 DEF RepeatsTracked
    <3>2. turn.offset = meant /\ turn.repeats = decoderRepeats'
      BY <3>1, <2>3, <1>4, <1>5, <1>9
    <3> QED BY <3>2, <2>1, <2>3, <1>8 DEF RepeatsTracked
  <2> QED BY <2>1, <2>2, <2>3
<1> QED BY <1>11, <1>12, <1>13, <1>14 DEF EncodeSequence

----------------------------------------------------------------------------
(* The four emissions.                                                     *)

Verdicts == [type : {"none", "raw", "run_length", "compressed"},
             accepted : BOOLEAN, offsets : BOOLEAN, tables : BOOLEAN]

LEMMA CommitTypes ==
  ASSUME EntropyTypeOK, NEW e \in Encodings, CommitTables(e)
  PROVE  /\ sequenceHistory' \in [Alphabets -> HeldTables(SequenceTables)]
         /\ huffmanRepeat' \in HeldTables(LiteralTables)
BY ChoiceTypes DEF CommitTables

\* Whatever the decoder makes of a compressed block, its state stays typed.
LEMMA ReceiveTypes ==
  ASSUME EntropyTypeOK, NEW e \in Encodings, ReceiveCompressed(e)
  PROVE  /\ lastBlock' \in Verdicts
         /\ repeatOffsets' \in Histories
         /\ sequenceTable' \in [Alphabets -> HeldTables(SequenceTables)]
         /\ fseRepeatAllowed' \in BOOLEAN
         /\ huffmanTable' \in HeldTables(LiteralTables)
<1>1. lastBlock' \in Verdicts
  <2>1. received.agrees \in BOOLEAN BY DEF EntropyTypeOK
  <2>2. Accepts(e) \in BOOLEAN BY DEF Accepts
  <2> QED BY <2>1, <2>2 DEF ReceiveCompressed, Verdict, Verdicts
<1>2. CASE ~Accepts(e) BY <1>1, <1>2 DEF ReceiveCompressed, decoderVars, EntropyTypeOK
<1>3. CASE Accepts(e)
  <2>1. repeatOffsets' \in Histories BY <1>3 DEF ReceiveCompressed, EntropyTypeOK
  <2>2. \A a \in Alphabets : DecodedTable(e.sequences[a], sequenceTable[a]) \in SequenceTables
    BY ChoiceTypes DEF DecodedTable, EntropyTypeOK, HeldTables
  <2>3. \A t \in SequenceTables : Kept(TRUE, t) \in HeldTables(SequenceTables)
    BY DEF Kept, HeldTables
  <2>4. sequenceTable' \in [Alphabets -> HeldTables(SequenceTables)]
    BY <1>3, <2>2, <2>3 DEF ReceiveCompressed
  <2>5. huffmanTable' \in HeldTables(LiteralTables)
    <3>1. Kept(TRUE, e.literals.table) \in HeldTables(LiteralTables)
      BY ChoiceTypes DEF Kept, HeldTables
    <3> QED BY <1>3, <3>1 DEF ReceiveCompressed, EntropyTypeOK
  <2>6. fseRepeatAllowed' = TRUE BY <1>3 DEF ReceiveCompressed
  <2> QED BY <1>1, <2>1, <2>4, <2>5, <2>6
<1> QED BY <1>2, <1>3

LEMMA ReceiveUncompressedFacts ==
  ASSUME NEW type \in UncompressedTypes, ReceiveUncompressed(type)
  PROVE  /\ lastBlock' \in Verdicts
         /\ lastBlock'.accepted /\ lastBlock'.offsets /\ lastBlock'.tables
         /\ UNCHANGED decoderVars
BY DEF ReceiveUncompressed, Verdict, Verdicts, UncompressedTypes

\* Emission of a whole block ends it: the parser starts where it stopped.
LEMMA WholeEnds ==
  ASSUME EntropyTypeOK, EndOfBlock, encoderRepeats' = optimalRepeats,
         optimalRepeats' = optimalRepeats
  PROVE  /\ ReplayOfParse'
         /\ phase' = "parse"
         /\ parsed' \in Seq(ParsedSequences)
         /\ next' \in Nat \ {0} /\ cut' \in Nat \ {0}
         /\ firstBlock' = FALSE
BY DEF EndOfBlock, ReplayOfParse, EntropyTypeOK

LEMMA EmitWholeCompressedInv ==
  ASSUME EntropyInv, EmitWholeCompressed PROVE EntropyInv'
<1> USE DEF EntropyInv
<1>1. PICK e \in Encodings : CommitTables(e) /\ ReceiveCompressed(e)
  BY DEF EmitWholeCompressed
<1>2. /\ phase = "whole" /\ next > Len(parsed) /\ EndOfBlock /\ OpenNext
      /\ encoderRepeats' = optimalRepeats /\ optimalRepeats' = optimalRepeats
      /\ UNCHANGED <<decoderRepeats, savedRepeats, fellBack>>
  BY DEF EmitWholeCompressed
<1>3. ReplayOfParse' /\ phase' = "parse" BY <1>2, WholeEnds
<1>4. received' \in [repeats : Histories, agrees : BOOLEAN]
  BY <1>1, <1>2, ReceiveTypes DEF OpenNext
<1>5. EntropyTypeOK'
  <2>1. firstBlock' \in BOOLEAN BY <1>2, WholeEnds, Zenon
  <2> QED BY <1>1, <1>2, <1>4, <2>1, WholeEnds, CommitTypes, ReceiveTypes DEF EntropyTypeOK, Verdicts
<1>6. ASSUME ~fellBack
      PROVE  /\ TablesHeld' /\ RepeatsTracked'
             /\ lastBlock'.accepted /\ lastBlock'.offsets /\ lastBlock'.tables
  <2>1. /\ encoderRepeats = optimalRepeats
        /\ encoderRepeats = received.repeats /\ received.agrees
    BY <1>2, <1>6 DEF ReplayOfParse, RepeatsTracked
  <2>2. /\ TablesHeld' /\ repeatOffsets' = received.repeats
        /\ lastBlock'.accepted /\ lastBlock'.offsets = received.agrees /\ lastBlock'.tables
    BY <1>1, <1>6, CompressedBlockHeld
  <2>3. RepeatsTracked'
    BY <2>1, <2>2, <1>2, <1>3 DEF RepeatsTracked, OpenNext
  <2> QED BY <2>1, <2>2, <2>3
<1> QED BY <1>2, <1>3, <1>5, <1>6

LEMMA EmitWholeUncompressedInv ==
  ASSUME EntropyInv, EmitWholeUncompressed PROVE EntropyInv'
<1> USE DEF EntropyInv
<1>1. PICK type \in UncompressedTypes : ReceiveUncompressed(type)
  BY DEF EmitWholeUncompressed
<1>2. /\ EndOfBlock /\ OpenNext /\ fellBack' = TRUE
      /\ encoderRepeats' = optimalRepeats /\ optimalRepeats' = optimalRepeats
      /\ UNCHANGED <<decoderRepeats, savedRepeats>>
  BY DEF EmitWholeUncompressed
<1>3. ReplayOfParse' BY <1>2, WholeEnds
<1>4. /\ sequenceHistory' \in [Alphabets -> HeldTables(SequenceTables)]
      /\ huffmanRepeat' \in HeldTables(LiteralTables)
  <2>1. CASE \E e \in Encodings : CommitTables(e) BY <2>1, CommitTypes
  <2>2. CASE UNCHANGED <<sequenceHistory, huffmanRepeat>> BY <2>2 DEF EntropyTypeOK
  <2> QED BY <2>1, <2>2 DEF EmitWholeUncompressed
<1>5. UNCHANGED decoderVars /\ lastBlock' \in Verdicts
  BY <1>1, ReceiveUncompressedFacts
<1>6. received' \in [repeats : Histories, agrees : BOOLEAN]
  BY <1>2, <1>5 DEF OpenNext, decoderVars, EntropyTypeOK
<1>7. EntropyTypeOK'
  <2>1. firstBlock' \in BOOLEAN /\ fellBack' \in BOOLEAN BY <1>2, WholeEnds, Zenon
  <2> QED BY <1>2, <1>4, <1>5, <1>6, <2>1, WholeEnds DEF EntropyTypeOK, decoderVars, Verdicts
<1> QED BY <1>2, <1>3, <1>7

\* A partition ends and the next one, or the next block, starts from belief.
LEMMA PartitionEndsWith ==
  ASSUME EntropyInv, PartitionEnds, NEW belief \in ParserHistories, EndOfPartition(belief)
  PROVE  /\ ReplayOfParse'
         /\ parsed' \in Seq(ParsedSequences)
         /\ next' \in Nat \ {0} /\ cut' \in Nat \ {0}
         /\ firstBlock' = FALSE
         /\ phase' \in {"parse", "partitions"}
         /\ optimalRepeats' \in ParserHistories /\ encoderRepeats' \in ParserHistories
         /\ decoderRepeats' \in ParserHistories /\ savedRepeats' \in ParserHistories
         /\ phase' = "parse" => optimalRepeats' = belief /\ encoderRepeats' = belief
         /\ phase' = "partitions" => decoderRepeats' = belief /\ savedRepeats' = belief
<1> USE DEF EntropyInv
<1>0. Len(parsed) \in Nat
  <2>1. parsed \in Seq(ParsedSequences)
    BY DEF EntropyTypeOK
  <2> QED BY <2>1
<1>1. CASE next > Len(parsed)
  <2>1. /\ EndOfBlock /\ NoPartitions
        /\ optimalRepeats' = belief /\ encoderRepeats' = belief
    BY <1>1 DEF EndOfPartition, HandBack
  <2> QED BY <2>1, InitialHistory DEF EndOfBlock, NoPartitions, ReplayOfParse, EntropyTypeOK
<1>2. CASE ~(next > Len(parsed))
  <2>1. /\ cut' = next /\ firstBlock' = FALSE
        /\ decoderRepeats' = belief /\ savedRepeats' = belief
        /\ UNCHANGED <<phase, parsed, next, optimalRepeats, encoderRepeats>>
    BY <1>2 DEF EndOfPartition
  <2>2. phase' = "partitions" BY <2>1 DEF PartitionEnds
  <2>3. ReplayOfParse' BY <1>0, <1>2, <2>1, <2>2 DEF ReplayOfParse
  <2> QED BY <2>1, <2>2, <2>3 DEF EntropyTypeOK
<1> QED BY <1>1, <1>2

LEMMA EmitPartitionCompressedInv ==
  ASSUME EntropyInv, EmitPartitionCompressed PROVE EntropyInv'
<1> USE DEF EntropyInv
<1>1. PICK e \in Encodings : CommitTables(e) /\ ReceiveCompressed(e)
  BY DEF EmitPartitionCompressed
<1>2. /\ PartitionEnds /\ EndOfPartition(decoderRepeats) /\ OpenNext
      /\ fellBack' = fellBack /\ decoderRepeats \in ParserHistories
  BY DEF EmitPartitionCompressed, EntropyTypeOK
<1>3. /\ ReplayOfParse' /\ phase' \in {"parse", "partitions"}
      /\ phase' = "parse" => encoderRepeats' = decoderRepeats
      /\ phase' = "partitions" =>
           decoderRepeats' = decoderRepeats /\ savedRepeats' = decoderRepeats
  BY <1>2, PartitionEndsWith
<1>4. received' \in [repeats : Histories, agrees : BOOLEAN]
  BY <1>1, <1>2, ReceiveTypes DEF OpenNext
<1>5. EntropyTypeOK'
  <2>1. firstBlock' \in BOOLEAN BY <1>2, PartitionEndsWith, Zenon
  <2> QED BY <1>1, <1>2, <1>3, <1>4, <2>1, PartitionEndsWith, CommitTypes, ReceiveTypes
       DEF EntropyTypeOK, Verdicts
<1>6. ASSUME ~fellBack
      PROVE  /\ TablesHeld' /\ RepeatsTracked'
             /\ lastBlock'.accepted /\ lastBlock'.offsets /\ lastBlock'.tables
  <2>1. decoderRepeats = received.repeats /\ received.agrees
    BY <1>2, <1>6 DEF PartitionEnds, RepeatsTracked
  <2>2. /\ TablesHeld' /\ repeatOffsets' = received.repeats
        /\ lastBlock'.accepted /\ lastBlock'.offsets = received.agrees /\ lastBlock'.tables
    BY <1>1, <1>6, CompressedBlockHeld
  <2>3. RepeatsTracked'
    BY <2>1, <2>2, <1>2, <1>3 DEF RepeatsTracked, OpenNext
  <2> QED BY <2>1, <2>2, <2>3
<1> QED BY <1>2, <1>3, <1>5, <1>6

LEMMA EmitPartitionUncompressedInv ==
  ASSUME EntropyInv, EmitPartitionUncompressed PROVE EntropyInv'
<1> USE DEF EntropyInv
<1>1. PICK type \in UncompressedTypes : ReceiveUncompressed(type)
  BY DEF EmitPartitionUncompressed
<1>2. /\ PartitionEnds /\ EndOfPartition(savedRepeats) /\ OpenNext
      /\ fellBack' = fellBack /\ savedRepeats \in ParserHistories
      /\ UNCHANGED <<sequenceHistory, huffmanRepeat>>
  BY DEF EmitPartitionUncompressed, EntropyTypeOK, RollBack
<1>3. /\ ReplayOfParse' /\ phase' \in {"parse", "partitions"}
      /\ phase' = "parse" => encoderRepeats' = savedRepeats
      /\ phase' = "partitions" =>
           decoderRepeats' = savedRepeats /\ savedRepeats' = savedRepeats
  BY <1>2, PartitionEndsWith
<1>4. /\ UNCHANGED decoderVars /\ lastBlock' \in Verdicts
      /\ lastBlock'.accepted /\ lastBlock'.offsets /\ lastBlock'.tables
  BY <1>1, ReceiveUncompressedFacts
<1>5. received' \in [repeats : Histories, agrees : BOOLEAN]
  BY <1>2, <1>4 DEF OpenNext, decoderVars, EntropyTypeOK
<1>6. EntropyTypeOK'
  <2>1. firstBlock' \in BOOLEAN BY <1>2, PartitionEndsWith, Zenon
  <2> QED BY <1>2, <1>3, <1>4, <1>5, <2>1, PartitionEndsWith
       DEF EntropyTypeOK, Verdicts, decoderVars
<1>7. TablesHeld => TablesHeld' BY <1>2, <1>4 DEF TablesHeld, decoderVars
<1>8. RepeatsTracked => RepeatsTracked'
  <2> SUFFICES ASSUME RepeatsTracked PROVE RepeatsTracked' OBVIOUS
  <2>1. savedRepeats = repeatOffsets /\ repeatOffsets' = repeatOffsets
    BY <1>2, <1>4 DEF PartitionEnds, RepeatsTracked, decoderVars
  <2> QED BY <2>1, <1>2, <1>3 DEF RepeatsTracked, OpenNext
<1> QED BY <1>2, <1>3, <1>4, <1>6, <1>7, <1>8

----------------------------------------------------------------------------
LEMMA StutterInv == ASSUME EntropyInv, UNCHANGED entropyVars PROVE EntropyInv'
BY DEF EntropyInv, entropyVars, encoderVars, decoderVars, EntropyTypeOK, ReplayOfParse, TablesHeld,
   RepeatsTracked

LEMMA NextInv == ASSUME EntropyInv, [EntropyNext]_entropyVars PROVE EntropyInv'
BY NewFrameInv, ParseSequenceInv, EmitUnparsedInv, BeginWholeInv, BeginPartitionsInv,
   EncodeSequenceInv, EmitWholeCompressedInv, EmitWholeUncompressedInv,
   EmitPartitionCompressedInv, EmitPartitionUncompressedInv, StutterInv
   DEF EntropyNext

\* Encoder and decoder histories stay in step in every frame until a whole
\* block with sequences falls back, for every choice of the constants.
THEOREM HistoriesInStep == EntropySpec => []EntropyInv
<1>1. EntropyInv /\ [EntropyNext]_entropyVars => EntropyInv' BY NextInv
<1> QED BY InitInv, <1>1, PTL DEF EntropySpec

THEOREM EntropyTypesHold == EntropySpec => []EntropyTypeOK
<1>1. EntropyInv => EntropyTypeOK BY DEF EntropyInv
<1> QED BY <1>1, HistoriesInStep, PTL

\* The decoder copies every match from the distance the parser meant.
THEOREM OffsetsAgree == EntropySpec => []OffsetsDecodeAsParsed
<1>1. EntropyInv => OffsetsDecodeAsParsed BY DEF EntropyInv, OffsetsDecodeAsParsed
<1> QED BY <1>1, HistoriesInStep, PTL

\* The decoder never misses a table and uses the one the encoder used.
THEOREM TablesAgree == EntropySpec => []TablesDecodeAsEncoded
<1>1. EntropyInv => TablesDecodeAsEncoded BY DEF EntropyInv, TablesDecodeAsEncoded
<1> QED BY <1>1, HistoriesInStep, PTL

\* A block is parsed from the repeat offsets the decoder has.
THEOREM ParserInStep == EntropySpec => []ParserFollowsDecoder
<1>1. EntropyInv => ParserFollowsDecoder
  BY DEF EntropyInv, ParserFollowsDecoder, RepeatsTracked, ReplayOfParse
<1> QED BY <1>1, HistoriesInStep, PTL

----------------------------------------------------------------------------
(* The repeat codes of the fast, double-fast and lazy strategies.          *)

USE DEF ParserHistories

\* What the decoder does with a new offset, and with base 1.
LEMMA Decoding ==
  ASSUME NEW h \in ParserHistories
  PROVE  /\ \A o \in Nat \ {0}, n \in BOOLEAN :
              DecodeOffset(h, NewOffsetBase(o), n) =
                [offset |-> o, repeats |-> <<o, h[1], h[2]>>]
         /\ DecodeOffset(h, 1, FALSE) = [offset |-> h[1], repeats |-> <<h[1], h[2], h[3]>>]
         /\ DecodeOffset(h, 1, TRUE) = [offset |-> h[2], repeats |-> <<h[2], h[1], h[3]>>]
  BY DEF DecodeOffset, OffsetSymbol, NewOffsetBase

\* The prefix starts a window before the block's end, and the search at its
\* first byte or the one after it.
LEMMA Windows ==
  ASSUME NEW b \in Nat, NEW e \in Nat
  PROVE  /\ PrefixStart(e) \in Nat /\ PrefixStart(e) <= e /\ e - PrefixStart(e) <= Window
         /\ FirstPosition(b, e) \in b..(b + 1)
  BY ConstantsAssumption DEF PrefixStart, FirstPosition

\* A history of three is its three entries.
LEMMA HistoryEntries ==
  ASSUME NEW h \in ParserHistories
  PROVE  /\ h = <<h[1], h[2], h[3]>>
         /\ h[1] \in Nat \ {0} /\ h[2] \in Nat \ {0} /\ h[3] \in Nat \ {0}
  OBVIOUS

\* The initial states satisfy the invariant.
LEMMA InitHolds == Init => FastInv
<1> SUFFICES ASSUME Init PROVE FastInv OBVIOUS
<1> USE ConstantsAssumption DEF Init
<1>0. Flags BY DEF Flags
<1>1. TypeOK BY <1>0 DEF TypeOK, InitialRepeats, NoMatch
<1>2. FreshFrame BY DEF FreshFrame, InitialRepeats, NoMatch
<1>3. MatchesDecodeAsParsed BY DEF MatchesDecodeAsParsed, InitialRepeats, NoMatch
<1>4. MatchesInWindow BY DEF MatchesInWindow, InitialRepeats, NoMatch
<1>5. HistoryFollows BY DEF HistoryFollows, InitialRepeats, NoMatch
<1>6. HistoryHeld BY DEF HistoryHeld, InitialRepeats, NoMatch
<1>7. PutAside BY DEF PutAside, InitialRepeats, NoMatch
<1>8. InReach BY DEF InReach, InitialRepeats, NoMatch
<1> QED BY <1>1, <1>2, <1>3, <1>4, <1>5, <1>6, <1>7, <1>8 DEF FastInv

----------------------------------------------------------------------------
(* The block is begun, skipped or ended.                                   *)

\* A distance is either in use or put aside.
LEMMA Sorted ==
  ASSUME NEW o, NEW e
  PROVE  \/ Within(o, e) = o /\ Outside(o, e) = 0
         \/ Within(o, e) = 0 /\ Outside(o, e) = o
  BY DEF Within, Outside

LEMMA BeginBlockStep ==
  ASSUME FastInv, NEW size \in BlockSizes, BeginBlock(size)
  PROVE  FastInv'
<1>1. /\ size \in Nat \ {0} /\ end \in Nat /\ ~parsing /\ kept \in (Nat \ {0}) \X (Nat \ {0})
      /\ kept[1] \in Nat \ {0} /\ kept[2] \in Nat \ {0}
  BY ConstantsAssumption DEF FastInv, TypeOK, BeginBlock
<1>2. \/ repeatOne' = kept[1] /\ savedOne' = 0
      \/ repeatOne' = 0 /\ savedOne' = kept[1]
  BY Sorted DEF BeginBlock
<1>3. \/ repeatTwo' = kept[2] /\ savedTwo' = 0
      \/ repeatTwo' = 0 /\ savedTwo' = kept[2]
  BY Sorted DEF BeginBlock
<1>4. /\ begin' = end /\ end' = end + size /\ anchor' = end
      /\ parsing' = TRUE /\ matched' = FALSE
      /\ kept' = kept /\ decoder' = decoder /\ decoding' = decoder
      /\ lastMatch' = lastMatch /\ diverged' = diverged
  BY DEF BeginBlock
<1>0. Flags' BY <1>4 DEF FastInv, TypeOK, Flags
<1>5. TypeOK' BY <1>0, <1>1, <1>2, <1>3, <1>4 DEF FastInv, TypeOK
<1>6. FreshFrame' BY <1>1, <1>4 DEF FreshFrame
<1>7. MatchesDecodeAsParsed' BY <1>4 DEF FastInv, MatchesDecodeAsParsed
<1>8. MatchesInWindow' BY <1>4 DEF MatchesInWindow
<1>9. HistoryFollows' BY <1>4 DEF HistoryFollows
<1>10. HistoryHeld'
  <2>1. ~diverged => kept = <<decoder[1], decoder[2]>>
    BY <1>1 DEF FastInv, HistoryFollows
  <2> QED BY <2>1, <1>1, <1>2, <1>3, <1>4 DEF HistoryHeld, Restored
<1>11. PutAside' BY <1>1, <1>2, <1>3, <1>4 DEF PutAside
<1>12. InReach'
  BY <1>1, <1>2, <1>3, <1>4, ConstantsAssumption DEF FastInv, InReach
<1> QED BY <1>5, <1>6, <1>7, <1>8, <1>9, <1>10, <1>11, <1>12 DEF FastInv

LEMMA SkipBlockStep ==
  ASSUME FastInv, NEW size \in BlockSizes, SkipBlock(size)
  PROVE  FastInv'
<1>1. size \in Nat \ {0} /\ end \in Nat
  BY ConstantsAssumption DEF FastInv, TypeOK
<1> USE <1>1 DEF SkipBlock
<1>0. Flags' BY DEF FastInv, TypeOK, Flags
<1>2. TypeOK' BY <1>0 DEF FastInv, TypeOK
<1>3. FreshFrame' BY DEF FastInv, FreshFrame
<1>4. MatchesDecodeAsParsed' BY DEF FastInv, MatchesDecodeAsParsed
<1>5. MatchesInWindow' BY DEF MatchesInWindow
<1>6. HistoryFollows' BY DEF FastInv, HistoryFollows
<1>7. HistoryHeld' /\ PutAside' BY DEF HistoryHeld, PutAside
<1>8. InReach'
  <2>1. kept[1] \in Nat /\ kept[2] \in Nat BY DEF FastInv, TypeOK
  <2> QED BY <2>1 DEF FastInv, InReach
<1> QED BY <1>2, <1>3, <1>4, <1>5, <1>6, <1>7, <1>8 DEF FastInv

\* What parse() puts back is positive and near enough.
LEMMA RestoredInReach ==
  ASSUME TypeOK, PutAside, InReach, parsing
  PROVE  /\ Restored \in (Nat \ {0}) \X (Nat \ {0})
         /\ Restored[1] <= Window /\ Restored[1] <= end + 1
         /\ Restored[2] <= Window /\ Restored[2] <= end + 4
<1>1. /\ begin \in Nat /\ end \in Nat /\ anchor \in Nat /\ begin <= end /\ anchor <= end
      /\ repeatOne \in Nat /\ repeatTwo \in Nat /\ savedOne \in Nat /\ savedTwo \in Nat
  BY DEF TypeOK
<1>2. Restored[1] = IF repeatOne # 0 THEN repeatOne ELSE savedOne BY DEF Restored
<1>3. Restored[2] = IF repeatTwo # 0 THEN repeatTwo
                    ELSE IF savedOne # 0 /\ repeatOne # 0 THEN savedOne ELSE savedTwo
  BY DEF Restored
<1>4. /\ Restored[1] \in Nat \ {0} /\ Restored[1] <= Window /\ Restored[1] <= end + 1
  BY <1>1, <1>2 DEF PutAside, InReach
<1>5. /\ Restored[2] \in Nat \ {0} /\ Restored[2] <= Window /\ Restored[2] <= end + 4
  BY <1>1, <1>3 DEF PutAside, InReach
<1>6. Restored = <<Restored[1], Restored[2]>> BY DEF Restored
<1> QED BY <1>4, <1>5, <1>6

\* The two ways a block can end differ in whether the decoder follows.
LEMMA EndBlockStep ==
  ASSUME FastInv, EndBlock, decoder' \in ParserHistories, diverged' \in BOOLEAN,
         \/ decoder' = decoding /\ diverged' = diverged
         \/ diverged'
  PROVE  FastInv'
<1>1. parsing BY DEF EndBlock
<1> USE <1>1 DEF EndBlock
<1>0. Flags' BY DEF FastInv, TypeOK, Flags
<1>9. TypeOK /\ PutAside /\ InReach BY DEF FastInv
<1>2. TypeOK' BY <1>0, <1>9, RestoredInReach DEF TypeOK
<1>3. FreshFrame' BY DEF FastInv, FreshFrame, TypeOK
<1>4. MatchesDecodeAsParsed' BY DEF FastInv, MatchesDecodeAsParsed
<1>5. MatchesInWindow' BY DEF FastInv, MatchesInWindow
<1>6. HistoryFollows' BY DEF FastInv, HistoryFollows, HistoryHeld
<1>7. HistoryHeld' /\ PutAside' BY DEF HistoryHeld, PutAside
<1>8. InReach' BY <1>9, RestoredInReach DEF InReach
<1> QED BY <1>2, <1>3, <1>4, <1>5, <1>6, <1>7, <1>8 DEF FastInv

LEMMA SendBlockStep == FastInv /\ SendBlock => FastInv'
  BY EndBlockStep DEF SendBlock, FastInv, TypeOK, Flags

LEMMA DropBlockStep == FastInv /\ DropBlock => FastInv'
  BY EndBlockStep DEF DropBlock, FastInv, TypeOK, Flags

LEMMA RunShortcutStep ==
  ASSUME FastInv, NEW size \in BlockSizes, RunShortcut(size)
  PROVE  FastInv'
<1>1. size \in Nat \ {0} /\ ~parsing /\ end = 0
  BY ConstantsAssumption DEF RunShortcut
<1>2. decoder = <<1, 4, 8>> BY <1>1 DEF FastInv, FreshFrame, InitialRepeats
<1>3. DecodeOffset(decoder, 1, FALSE) = [offset |-> 1, repeats |-> <<1, 4, 8>>]
  <2>1. decoder \in ParserHistories BY DEF FastInv, TypeOK
  <2>2. DecodeOffset(decoder, 1, FALSE) =
          [offset |-> decoder[1], repeats |-> <<decoder[1], decoder[2], decoder[3]>>]
    BY <2>1, Decoding
  <2> QED BY <1>2, <2>2
<1>f. matched' = TRUE /\ parsing' = FALSE BY <1>1 DEF RunShortcut, FastInv, TypeOK, Flags
<1>4. /\ begin' = 0 /\ end' = size /\ anchor' = size
      /\ decoder' = <<1, 4, 8>> /\ decoding' = <<1, 4, 8>> /\ kept' = <<1, 4>>
      /\ lastMatch' = [at |-> 2, meant |-> 1, decoded |-> 1] /\ diverged' = diverged
      /\ repeatOne' = repeatOne /\ repeatTwo' = repeatTwo
      /\ savedOne' = savedOne /\ savedTwo' = savedTwo
  <2> DEFINE decodes == DecodeOffset(decoder, 1, FALSE)
  <2>1. /\ decoder' = decodes.repeats /\ decoding' = decodes.repeats
        /\ lastMatch' = [at |-> 2, meant |-> 1, decoded |-> decodes.offset]
        /\ diverged' = diverged
    BY DEF RunShortcut
  <2>2. decodes = [offset |-> 1, repeats |-> <<1, 4, 8>>] BY <1>3
  <2> HIDE DEF decodes
  <2>3. /\ decoder' = <<1, 4, 8>> /\ decoding' = <<1, 4, 8>>
        /\ lastMatch' = [at |-> 2, meant |-> 1, decoded |-> 1]
    BY <2>1, <2>2
  <2> QED BY <2>1, <2>3 DEF RunShortcut, InitialRepeats
<1>0. Flags' BY <1>f, <1>4 DEF FastInv, TypeOK, Flags
<1>5. TypeOK' BY <1>f, <1>0, <1>1, <1>4 DEF FastInv, TypeOK
<1>6. FreshFrame' BY <1>f, <1>1, <1>4 DEF FreshFrame
<1>7. MatchesDecodeAsParsed' BY <1>f, <1>4 DEF MatchesDecodeAsParsed
<1>8. MatchesInWindow' BY <1>f, <1>4, ConstantsAssumption DEF MatchesInWindow
<1>9. HistoryFollows' BY <1>f, <1>4 DEF HistoryFollows
<1>10. HistoryHeld' /\ PutAside' BY <1>f, <1>4 DEF HistoryHeld, PutAside
<1>11. InReach' BY <1>f, <1>1, <1>4, ConstantsAssumption DEF FastInv, InReach
<1> QED BY <1>5, <1>6, <1>7, <1>8, <1>9, <1>10, <1>11 DEF FastInv

LEMMA NewFrameStep == FastInv /\ NewFrame => FastInv'
<1> SUFFICES ASSUME FastInv, NewFrame PROVE FastInv' OBVIOUS
<1> USE ConstantsAssumption DEF NewFrame, FastInv
<1>0. Flags' BY DEF TypeOK, Flags
<1>1. TypeOK' BY <1>0 DEF TypeOK, InitialRepeats, NoMatch
<1>2. FreshFrame' BY DEF FreshFrame
<1>3. MatchesDecodeAsParsed' /\ MatchesInWindow' BY DEF MatchesDecodeAsParsed, MatchesInWindow, NoMatch
<1>4. HistoryFollows' BY DEF HistoryFollows, InitialRepeats
<1>5. HistoryHeld' /\ PutAside' BY DEF HistoryHeld, PutAside
<1>6. InReach' BY DEF InReach, InitialRepeats
<1> QED BY <1>1, <1>2, <1>3, <1>4, <1>5, <1>6

----------------------------------------------------------------------------
(* A sequence is stored.                                                   *)

\* What the invariant says in a block.
LEMMA InBlock ==
  ASSUME FastInv, parsing
  PROVE  /\ begin \in Nat /\ end \in Nat /\ anchor \in Nat
         /\ begin <= anchor /\ anchor <= end /\ begin < end
         /\ repeatOne \in Nat /\ repeatTwo \in Nat /\ savedOne \in Nat /\ savedTwo \in Nat
         /\ decoding \in ParserHistories
         /\ ~diverged => decoding[1] = Restored[1] /\ decoding[2] = Restored[2]
<1>1. decoding \in ParserHistories BY DEF FastInv, TypeOK
<1>2. ~diverged => decoding[1] = Restored[1] /\ decoding[2] = Restored[2]
  BY DEF FastInv, HistoryHeld
<1> QED BY <1>1, <1>2 DEF FastInv, TypeOK, FreshFrame

\* The actions below differ in the distances; the rest of the invariant follows
\* from what the stored match is.
LEMMA StoredStep ==
  ASSUME FastInv, parsing, parsing' = TRUE, matched' = TRUE,
         NEW at \in Nat, NEW length \in Nat, NEW offset \in Nat, NEW decoded \in Nat \ {0},
         begin <= at, at + length <= end, length >= 4,
         begin' = begin, end' = end, anchor' = at + length,
         savedOne' = savedOne, savedTwo' = savedTwo,
         kept' = kept, decoder' = decoder, diverged' = diverged,
         decoding' \in ParserHistories,
         lastMatch' = [at |-> at, meant |-> offset, decoded |-> decoded],
         offset \in 1..Window, offset <= at,
         ~diverged => decoded = offset,
         ~diverged => Restored' = <<decoding'[1], decoding'[2]>>,
         repeatOne' \in 1..Window, repeatOne' <= anchor',
         repeatTwo' \in 0..Window, repeatTwo' <= anchor',
         repeatTwo' = 0 => savedTwo # 0 \/ savedOne # 0
  PROVE  FastInv'
<1>0. Flags' BY DEF FastInv, TypeOK, Flags
<1>1. TypeOK' BY <1>0, InBlock, ConstantsAssumption DEF FastInv, TypeOK
<1>2. FreshFrame' BY DEF FastInv, FreshFrame
<1>3. MatchesDecodeAsParsed' BY DEF MatchesDecodeAsParsed
<1>4. MatchesInWindow' BY DEF MatchesInWindow
<1>5. HistoryFollows' BY DEF HistoryFollows
<1>6. HistoryHeld' BY DEF HistoryHeld
<1>7. PutAside' BY InBlock, ConstantsAssumption DEF PutAside
<1>8. InReach' BY InBlock, ConstantsAssumption DEF FastInv, InReach
<1> QED BY <1>1, <1>2, <1>3, <1>4, <1>5, <1>6, <1>7, <1>8 DEF FastInv

LEMMA ExplicitMatchStep ==
  ASSUME FastInv, NEW at \in begin..end, NEW back \in 0..(end - begin),
         NEW length \in 1..(end - begin), NEW offset \in 1..end,
         ExplicitMatch(at, back, length, offset)
  PROVE  FastInv'
<1>1. parsing BY DEF ExplicitMatch
<1> USE <1>1, InBlock, ConstantsAssumption
<1> DEFINE start == at - back
           decodes == DecodeOffset(decoding, NewOffsetBase(offset), start = anchor)
<1>2. /\ start >= anchor /\ start \in Nat /\ offset \in Nat \ {0} /\ length \in Nat
      /\ start - offset >= PrefixStart(end) /\ start + length <= end /\ length >= 4
  BY DEF ExplicitMatch, Store
<1>3. decodes = [offset |-> offset, repeats |-> <<offset, decoding[1], decoding[2]>>]
  BY <1>2, Decoding
<1>4. /\ parsing' = TRUE /\ matched' = TRUE /\ begin' = begin /\ end' = end
      /\ anchor' = start + length
      /\ savedOne' = savedOne /\ savedTwo' = savedTwo /\ kept' = kept
      /\ decoder' = decoder /\ diverged' = diverged
      /\ decoding' = <<offset, decoding[1], decoding[2]>>
      /\ lastMatch' = [at |-> start, meant |-> offset, decoded |-> offset]
      /\ repeatOne' = offset /\ repeatTwo' = repeatOne
  BY <1>3 DEF ExplicitMatch, Store
<1>5. offset \in 1..Window /\ offset <= start
  <2>1. PrefixStart(end) \in Nat /\ end - PrefixStart(end) <= Window BY Windows
  <2> QED BY <1>2, <2>1
<1>6. ~diverged => Restored' = <<decoding'[1], decoding'[2]>>
  <2> SUFFICES ASSUME ~diverged PROVE Restored' = <<decoding'[1], decoding'[2]>> OBVIOUS
  <2>1. decoding[1] = IF repeatOne # 0 THEN repeatOne ELSE savedOne BY DEF Restored
  <2>2. Restored' = <<offset, IF repeatOne # 0 THEN repeatOne
                              ELSE IF savedOne # 0 THEN savedOne ELSE savedTwo>>
    BY <1>2, <1>4 DEF Restored
  <2>3. repeatOne = 0 => savedOne # 0 BY DEF FastInv, PutAside
  <2> QED BY <2>1, <2>2, <2>3, <1>4
<1>7. /\ repeatTwo' \in 0..Window /\ repeatTwo' <= anchor'
      /\ repeatTwo' = 0 => savedTwo # 0 \/ savedOne # 0
  BY <1>2, <1>4 DEF FastInv, InReach, PutAside
<1>8. decoding' \in ParserHistories BY <1>2, <1>4, HistoryEntries
<1> HIDE DEF start, decodes
<1> QED BY <1>2, <1>4, <1>5, <1>6, <1>7, <1>8, StoredStep

LEMMA RepeatMatchStep ==
  ASSUME FastInv, NEW at \in begin..end, NEW back \in {0, 1},
         NEW length \in 1..(end - begin), RepeatMatch(at, back, length)
  PROVE  FastInv'
<1>1. parsing BY DEF RepeatMatch
<1> USE <1>1, InBlock, ConstantsAssumption
<1> DEFINE start == at - back
           decodes == DecodeOffset(decoding, 1, FALSE)
<1>0. /\ SearchStart + RepeatAhead <= at /\ back < RepeatAhead
      /\ RepeatAhead \in {1, 2}
  BY DEF RepeatMatch
<1>2. /\ repeatOne # 0
      /\ start + length <= end /\ length >= 4 /\ length \in Nat
  BY DEF RepeatMatch, Store
<1>3. /\ SearchStart \in Nat /\ SearchStart >= anchor
      /\ ~matched => repeatOne <= SearchStart + 1
      /\ matched => repeatOne <= SearchStart
  <2>1. FirstPosition(begin, end) \in begin..(begin + 1) BY Windows
  <2>2. anchor # begin => SearchStart = anchor BY DEF SearchStart
  <2>3. /\ ~matched => anchor = begin /\ repeatOne <= begin + 1
        /\ matched => anchor > begin /\ repeatOne <= anchor
    BY DEF FastInv, InReach, PutAside
  <2>4. anchor = begin => SearchStart = FirstPosition(begin, end) BY DEF SearchStart
  <2>5. CASE matched BY <2>1, <2>2, <2>3, <2>5
  <2>6. CASE ~matched BY <2>1, <2>2, <2>3, <2>4, <2>6
  <2> QED BY <2>5, <2>6
<1>4. start \in Nat /\ start >= anchor /\ repeatOne <= start
  BY <1>0, <1>3
<1>5. decodes = [offset |-> decoding[1], repeats |-> <<decoding[1], decoding[2], decoding[3]>>]
  BY Decoding
<1>6. /\ parsing' = TRUE /\ matched' = TRUE /\ begin' = begin /\ end' = end
      /\ anchor' = start + length
      /\ savedOne' = savedOne /\ savedTwo' = savedTwo /\ kept' = kept
      /\ decoder' = decoder /\ diverged' = diverged
      /\ decoding' = <<decoding[1], decoding[2], decoding[3]>>
      /\ lastMatch' = [at |-> start, meant |-> repeatOne, decoded |-> decoding[1]]
      /\ repeatOne' = repeatOne /\ repeatTwo' = repeatTwo
  <2>1. /\ decoding' = decodes.repeats
        /\ lastMatch' = [at |-> start, meant |-> repeatOne, decoded |-> decodes.offset]
    BY DEF RepeatMatch, Store
  <2>2. parsing' = TRUE /\ matched' = TRUE /\ decoder' = decoder /\ diverged' = diverged
    BY DEF RepeatMatch, Store
  <2> HIDE DEF decodes
  <2>3. /\ decoding' = <<decoding[1], decoding[2], decoding[3]>>
        /\ lastMatch' = [at |-> start, meant |-> repeatOne, decoded |-> decoding[1]]
    BY <2>1, <1>5
  <2> QED BY <2>2, <2>3 DEF RepeatMatch, Store
<1>7. decoding[1] \in Nat \ {0} /\ decoding' \in ParserHistories
  BY <1>6, HistoryEntries
<1>8. ~diverged => decoding[1] = repeatOne
  BY <1>2 DEF Restored
<1>9. ~diverged => Restored' = <<decoding'[1], decoding'[2]>>
  BY <1>2, <1>6, HistoryEntries DEF Restored
<1>10. repeatOne \in 1..Window /\ repeatTwo \in 0..Window
  BY <1>2 DEF FastInv, InReach
<1>11. repeatOne <= anchor' /\ repeatTwo <= anchor'
  BY <1>2, <1>4, <1>6 DEF FastInv, InReach, PutAside
<1>12. repeatTwo = 0 => savedTwo # 0 \/ savedOne # 0
  BY DEF FastInv, PutAside
<1> HIDE DEF start, decodes
<1> QED BY <1>2, <1>4, <1>6, <1>7, <1>8, <1>9, <1>10, <1>11, <1>12, StoredStep

LEMMA ImmediateRepeatStep ==
  ASSUME FastInv, NEW length \in 1..(end - begin), ImmediateRepeat(length)
  PROVE  FastInv'
<1>1. parsing /\ matched /\ repeatTwo # 0 BY DEF ImmediateRepeat
<1> USE <1>1, InBlock, ConstantsAssumption
<1> DEFINE decodes == DecodeOffset(decoding, 1, TRUE)
<1>2. anchor + length <= end /\ length >= 4 /\ length \in Nat
  BY DEF ImmediateRepeat, Store
<1>3. repeatOne # 0 /\ repeatOne <= anchor /\ repeatTwo <= anchor
  BY DEF FastInv, PutAside, InReach
<1>4. decodes = [offset |-> decoding[2], repeats |-> <<decoding[2], decoding[1], decoding[3]>>]
  BY Decoding
<1>5. /\ parsing' = TRUE /\ matched' = TRUE /\ begin' = begin /\ end' = end
      /\ anchor' = anchor + length
      /\ savedOne' = savedOne /\ savedTwo' = savedTwo /\ kept' = kept
      /\ decoder' = decoder /\ diverged' = diverged
      /\ decoding' = <<decoding[2], decoding[1], decoding[3]>>
      /\ lastMatch' = [at |-> anchor, meant |-> repeatTwo, decoded |-> decoding[2]]
      /\ repeatOne' = repeatTwo /\ repeatTwo' = repeatOne
  <2>1. /\ decoding' = decodes.repeats
        /\ lastMatch' = [at |-> anchor, meant |-> repeatTwo, decoded |-> decodes.offset]
    BY DEF ImmediateRepeat, Store
  <2>2. parsing' = TRUE /\ matched' = TRUE /\ decoder' = decoder /\ diverged' = diverged
    BY DEF ImmediateRepeat, Store
  <2> HIDE DEF decodes
  <2>3. /\ decoding' = <<decoding[2], decoding[1], decoding[3]>>
        /\ lastMatch' = [at |-> anchor, meant |-> repeatTwo, decoded |-> decoding[2]]
    BY <2>1, <1>4
  <2> QED BY <2>2, <2>3 DEF ImmediateRepeat, Store
<1>6. decoding[2] \in Nat \ {0} /\ decoding' \in ParserHistories
  BY <1>5, HistoryEntries
<1>7. ~diverged => decoding[1] = repeatOne /\ decoding[2] = repeatTwo
  BY <1>3 DEF Restored
<1>8. ~diverged => Restored' = <<decoding'[1], decoding'[2]>>
  BY <1>3, <1>5, <1>7 DEF Restored
<1>9. repeatOne \in 1..Window /\ repeatTwo \in 1..Window
  BY <1>3 DEF FastInv, InReach
<1> HIDE DEF decodes
<1> QED BY <1>2, <1>3, <1>5, <1>6, <1>7, <1>8, <1>9, StoredStep

----------------------------------------------------------------------------
LEMMA StutterStep == FastInv /\ UNCHANGED vars => FastInv'
<1> SUFFICES ASSUME FastInv, UNCHANGED vars PROVE FastInv' OBVIOUS
<1> USE DEF vars, FastInv
<1>0. Flags' BY DEF TypeOK, Flags
<1>1. TypeOK' BY <1>0 DEF TypeOK
<1>2. FreshFrame' BY DEF FreshFrame
<1>3. MatchesDecodeAsParsed' BY DEF MatchesDecodeAsParsed
<1>4. MatchesInWindow' BY DEF MatchesInWindow
<1>5. HistoryFollows' BY DEF HistoryFollows
<1>6. HistoryHeld' BY DEF HistoryHeld, Restored
<1>7. PutAside' BY DEF PutAside
<1>8. InReach' BY DEF InReach
<1> QED BY <1>1, <1>2, <1>3, <1>4, <1>5, <1>6, <1>7, <1>8

LEMMA NextStep == FastInv /\ [Next]_vars => FastInv'
<1> SUFFICES ASSUME FastInv, [Next]_vars PROVE FastInv' OBVIOUS
<1>1. ASSUME NEW size \in BlockSizes, BeginBlock(size) PROVE FastInv'
  BY <1>1, BeginBlockStep
<1>2. ASSUME NEW size \in BlockSizes, SkipBlock(size) PROVE FastInv'
  BY <1>2, SkipBlockStep
<1>3. ASSUME NEW size \in BlockSizes, RunShortcut(size) PROVE FastInv'
  BY <1>3, RunShortcutStep
<1>4. ASSUME NEW at \in begin..end, NEW back \in 0..(end - begin),
             NEW length \in 1..(end - begin), NEW offset \in 1..end,
             ExplicitMatch(at, back, length, offset)
      PROVE  FastInv'
  BY <1>4, ExplicitMatchStep
<1>5. ASSUME NEW at \in begin..end, NEW back \in {0, 1}, NEW length \in 1..(end - begin),
             RepeatMatch(at, back, length)
      PROVE  FastInv'
  BY <1>5, RepeatMatchStep
<1>6. ASSUME NEW length \in 1..(end - begin), ImmediateRepeat(length) PROVE FastInv'
  BY <1>6, ImmediateRepeatStep
<1>7. CASE SendBlock BY <1>7, SendBlockStep
<1>8. CASE DropBlock BY <1>8, DropBlockStep
<1>9. CASE NewFrame BY <1>9, NewFrameStep
<1>10. CASE UNCHANGED vars BY <1>10, StutterStep
<1> QED BY <1>1, <1>2, <1>3, <1>4, <1>5, <1>6, <1>7, <1>8, <1>9, <1>10 DEF Next

\* In every reachable state of every window, set of block sizes and input, the
\* decoder's history in a block is what the parser holds and has put aside.
THEOREM FastInvariant == Spec => []FastInv
  BY InitHolds, NextStep, PTL DEF Spec

\* The types hold.
THEOREM TypesHold == Spec => []TypeOK
<1>1. FastInv => TypeOK BY DEF FastInv
<1> QED BY <1>1, FastInvariant, PTL

\* Without a dropped block the decoder copies every match from the distance the
\* fast parser meant.
THEOREM MatchesAgree == Spec => []MatchesDecodeAsParsed
<1>1. FastInv => MatchesDecodeAsParsed BY DEF FastInv
<1> QED BY <1>1, FastInvariant, PTL

\* No match of the fast parser reaches before the window or the frame, for any
\* block size, those beyond the window included.
THEOREM WindowHeld == Spec => []MatchesInWindow
<1>1. FastInv => MatchesInWindow BY DEF FastInv
<1> QED BY <1>1, FastInvariant, PTL

\* Without a dropped block the parser keeps, from block to block, the distances
\* the decoder would repeat.
THEOREM KeptFollows == Spec => []HistoryFollows
<1>1. FastInv => HistoryFollows BY DEF FastInv
<1> QED BY <1>1, FastInvariant, PTL

----------------------------------------------------------------------------
(* The lazy strategies.  Between blocks and in a block the decoder's       *)
(* history is the parser's, or the block continues a run.                  *)

LEMMA LazyInitHolds == Init => LazyInv
<1> SUFFICES ASSUME Init PROVE LazyInv OBVIOUS
<1>1. FastInv BY InitHolds
<1> USE DEF Init
<1>2. OnlyRunsDiffer BY DEF OnlyRunsDiffer, InitialRepeats
<1>3. LazyHistoryHeld /\ MatchBehind BY DEF LazyHistoryHeld, MatchBehind
<1> QED BY <1>1, <1>2, <1>3 DEF FastInv, LazyInv

LEMMA BeginLazyBlockStep ==
  ASSUME LazyInv, NEW size \in BlockSizes, BeginLazyBlock(size)
  PROVE  LazyInv'
<1>1. /\ size \in Nat \ {0} /\ end \in Nat /\ ~parsing /\ kept \in (Nat \ {0}) \X (Nat \ {0})
      /\ kept[1] \in Nat \ {0} /\ kept[2] \in Nat \ {0}
  BY ConstantsAssumption DEF LazyInv, TypeOK, BeginLazyBlock
<1>2. \/ repeatOne' = kept[1] /\ savedOne' = 0 /\ InWindow(kept[1], end)
      \/ repeatOne' = 0 /\ savedOne' = kept[1] /\ ~InWindow(kept[1], end)
  BY DEF BeginLazyBlock
<1>3. \/ repeatTwo' = kept[2] /\ savedTwo' = 0 /\ InWindow(kept[2], end)
      \/ repeatTwo' = 0 /\ savedTwo' = kept[2] /\ ~InWindow(kept[2], end)
  BY DEF BeginLazyBlock
<1>4. /\ begin' = end /\ end' = end + size /\ anchor' = end
      /\ parsing' = TRUE /\ matched' = FALSE
      /\ kept' = kept /\ decoder' = decoder /\ decoding' = decoder
      /\ lastMatch' = lastMatch /\ diverged' = diverged
  BY DEF BeginLazyBlock
<1>0. Flags' BY <1>4 DEF LazyInv, TypeOK, Flags
<1>5. TypeOK' BY <1>0, <1>1, <1>2, <1>3, <1>4 DEF LazyInv, TypeOK
<1>6. FreshFrame' BY <1>1, <1>4 DEF FreshFrame
<1>7. MatchesDecodeAsParsed' BY <1>4 DEF LazyInv, MatchesDecodeAsParsed
<1>8. MatchesInWindow' BY <1>4 DEF MatchesInWindow
<1>9. OnlyRunsDiffer' /\ MatchBehind' BY <1>4 DEF OnlyRunsDiffer, MatchBehind
<1>10. LazyHistoryHeld'
  <2>1. Restored' = kept
    BY <1>1, <1>2, <1>3 DEF Restored
  <2>2. CASE kept[2] = decoder[2]
    <3>1. ~diverged => kept[1] = decoder[1]
      BY <1>1 DEF LazyInv, OnlyRunsDiffer
    <3>2. kept = <<kept[1], kept[2]>> BY <1>1
    <3> QED BY <2>1, <2>2, <3>1, <3>2, <1>4 DEF LazyHistoryHeld
  <2>3. CASE kept[2] # decoder[2]
    <3> SUFFICES ASSUME ~diverged PROVE OnlyTheRun'
      BY <1>4 DEF LazyHistoryHeld
    <3>1. kept = <<1, 4>> /\ decoder = <<1, 1, 4>>
      BY <1>1, <2>3 DEF LazyInv, OnlyRunsDiffer
    <3>2. InWindow(1, end)
      BY <1>1, ConstantsAssumption DEF InWindow, FirstSearched
    <3>3. repeatOne' = 1 /\ repeatTwo' \in {0, 4} BY <1>2, <1>3, <3>1, <3>2
    <3> QED BY <2>1, <3>1, <3>3, <1>4 DEF OnlyTheRun
  <2> QED BY <2>2, <2>3
<1>11. PutAside' BY <1>1, <1>2, <1>3, <1>4 DEF PutAside
<1>12. InReach'
  BY <1>1, <1>2, <1>3, <1>4, ConstantsAssumption DEF LazyInv, InReach
<1> QED BY <1>5, <1>6, <1>7, <1>8, <1>9, <1>10, <1>11, <1>12 DEF LazyInv

LEMMA LazySkipStep ==
  ASSUME LazyInv, NEW size \in BlockSizes, SkipBlock(size)
  PROVE  LazyInv'
<1>1. size \in Nat \ {0} /\ end \in Nat
  BY ConstantsAssumption DEF LazyInv, TypeOK
<1> USE <1>1 DEF SkipBlock
<1>0. Flags' BY DEF LazyInv, TypeOK, Flags
<1>2. TypeOK' BY <1>0 DEF LazyInv, TypeOK
<1>3. FreshFrame' BY DEF LazyInv, FreshFrame
<1>4. MatchesDecodeAsParsed' BY DEF LazyInv, MatchesDecodeAsParsed
<1>5. MatchesInWindow' BY DEF MatchesInWindow
<1>6. OnlyRunsDiffer' BY DEF LazyInv, OnlyRunsDiffer
<1>7. LazyHistoryHeld' /\ PutAside' /\ MatchBehind'
  BY DEF LazyHistoryHeld, PutAside, MatchBehind
<1>8. InReach'
  <2>1. kept[1] \in Nat /\ kept[2] \in Nat BY DEF LazyInv, TypeOK
  <2> QED BY <2>1 DEF LazyInv, InReach
<1> QED BY <1>2, <1>3, <1>4, <1>5, <1>6, <1>7, <1>8 DEF LazyInv

LEMMA LazyEndStep ==
  ASSUME LazyInv, EndBlock, decoder' \in ParserHistories, diverged' \in BOOLEAN,
         \/ decoder' = decoding /\ diverged' = diverged
         \/ diverged'
  PROVE  LazyInv'
<1>1. parsing BY DEF EndBlock
<1>9. /\ Restored \in (Nat \ {0}) \X (Nat \ {0})
      /\ Restored[1] <= Window /\ Restored[1] <= end + 1
      /\ Restored[2] <= Window /\ Restored[2] <= end + 4
  BY <1>1, RestoredInReach DEF LazyInv
<1> USE <1>1 DEF EndBlock
<1>0. Flags' BY DEF LazyInv, TypeOK, Flags
<1>2. TypeOK' BY <1>0, <1>9 DEF LazyInv, TypeOK
<1>3. FreshFrame' BY DEF LazyInv, FreshFrame, TypeOK
<1>4. MatchesDecodeAsParsed' BY DEF LazyInv, MatchesDecodeAsParsed
<1>5. MatchesInWindow' BY DEF LazyInv, MatchesInWindow
<1>6. OnlyRunsDiffer'
  <2> SUFFICES ASSUME ~diverged' PROVE OnlyRunsDiffer' BY DEF OnlyRunsDiffer
  <2>1. decoder' = decoding /\ ~diverged BY DEF LazyInv, TypeOK, Flags
  <2>2. CASE Restored = <<decoding[1], decoding[2]>>
    BY <2>1, <2>2 DEF OnlyRunsDiffer
  <2>3. CASE OnlyTheRun BY <2>1, <2>3 DEF OnlyRunsDiffer, OnlyTheRun
  <2> QED BY <2>1, <2>2, <2>3 DEF LazyInv, LazyHistoryHeld
<1>7. LazyHistoryHeld' /\ PutAside' /\ MatchBehind'
  BY DEF LazyHistoryHeld, PutAside, MatchBehind
<1>8. InReach' BY <1>9 DEF LazyInv, InReach
<1> QED BY <1>2, <1>3, <1>4, <1>5, <1>6, <1>7, <1>8 DEF LazyInv

LEMMA LazySendStep == LazyInv /\ SendBlock => LazyInv'
  BY LazyEndStep DEF SendBlock, LazyInv, TypeOK, Flags

LEMMA LazyDropStep == LazyInv /\ DropBlock => LazyInv'
  BY LazyEndStep DEF DropBlock, LazyInv, TypeOK, Flags

\* A run's sequence moves the decoder's history or not, as it is written; what the
\* parser keeps is the initial history either way.
LEMMA FirstRunStep ==
  ASSUME LazyInv, NEW size \in BlockSizes, NEW form \in RunForms, FirstRun(size, form)
  PROVE  LazyInv'
<1>1. /\ size \in Nat \ {0} /\ ~parsing /\ end = 0 /\ size >= 6
  BY ConstantsAssumption, RunAssumption DEF FirstRun
<1>2. decoder = <<1, 4, 8>> BY <1>1 DEF LazyInv, FreshFrame, InitialRepeats
<1> DEFINE at == IF form = "repeat" THEN 2 ELSE 1
           turn == DecodeOffset(decoder, IF form = "repeat" THEN 1 ELSE NewOffsetBase(1), FALSE)
<1>3. /\ turn.offset = 1
      /\ turn.repeats = <<1, 4, 8>> \/ turn.repeats = <<1, 1, 4>>
  <2>1. decoder \in ParserHistories BY <1>2
  <2>2. CASE form = "repeat"
    <3>1. turn = [offset |-> decoder[1], repeats |-> <<decoder[1], decoder[2], decoder[3]>>]
      BY <2>1, <2>2, Decoding
    <3> HIDE DEF turn
    <3> QED BY <3>1, <1>2
  <2>3. CASE form # "repeat"
    <3>0. 1 \in Nat \ {0} /\ FALSE \in BOOLEAN OBVIOUS
    <3>1. DecodeOffset(decoder, NewOffsetBase(1), FALSE) =
            [offset |-> 1, repeats |-> <<1, decoder[1], decoder[2]>>]
      BY <2>1, <3>0, Decoding
    <3>2. turn = [offset |-> 1, repeats |-> <<1, decoder[1], decoder[2]>>]
      BY <3>1, <2>3
    <3> HIDE DEF turn
    <3> QED BY <3>2, <1>2
  <2> QED BY <2>2, <2>3
<1>4. /\ begin' = 0 /\ end' = size /\ anchor' = size
      /\ kept' = <<1, 4>> /\ diverged' = diverged
      /\ decoder' = turn.repeats /\ decoding' = turn.repeats
      /\ lastMatch' = [at |-> at, meant |-> 1, decoded |-> turn.offset]
      /\ repeatOne' = repeatOne /\ repeatTwo' = repeatTwo
      /\ savedOne' = savedOne /\ savedTwo' = savedTwo
  BY DEF FirstRun, InitialRepeats
<1>f. matched' = TRUE /\ parsing' = FALSE BY <1>1 DEF FirstRun, LazyInv, TypeOK, Flags
<1>g. at \in Nat /\ at >= 1 OBVIOUS
<1> HIDE DEF at, turn
<1>d. /\ decoder' \in ParserHistories /\ decoding' \in ParserHistories
      /\ decoder' = <<1, 4, 8>> \/ decoder' = <<1, 1, 4>>
  BY <1>3, <1>4
<1>0. Flags' BY <1>f, <1>4 DEF LazyInv, TypeOK, Flags
<1>5. TypeOK' BY <1>f, <1>0, <1>1, <1>3, <1>4, <1>d, <1>g DEF LazyInv, TypeOK
<1>6. FreshFrame' BY <1>f, <1>1, <1>4 DEF FreshFrame
<1>7. MatchesDecodeAsParsed' BY <1>f, <1>3, <1>4 DEF MatchesDecodeAsParsed
<1>8. MatchesInWindow' BY <1>f, <1>4, <1>g, ConstantsAssumption DEF MatchesInWindow
<1>9. OnlyRunsDiffer' BY <1>f, <1>4, <1>d DEF OnlyRunsDiffer
<1>10. LazyHistoryHeld' /\ PutAside' /\ MatchBehind'
  BY <1>f, <1>4 DEF LazyHistoryHeld, PutAside, MatchBehind
<1>11. InReach' BY <1>f, <1>1, <1>4, ConstantsAssumption DEF LazyInv, InReach
<1> QED BY <1>5, <1>6, <1>7, <1>8, <1>9, <1>10, <1>11 DEF LazyInv

LEMMA LazyFrameStep == LazyInv /\ NewFrame => LazyInv'
<1> SUFFICES ASSUME LazyInv, NewFrame PROVE LazyInv' OBVIOUS
<1> USE ConstantsAssumption DEF NewFrame, LazyInv
<1>0. Flags' BY DEF TypeOK, Flags
<1>1. TypeOK' BY <1>0 DEF TypeOK, InitialRepeats, NoMatch
<1>2. FreshFrame' BY DEF FreshFrame
<1>3. MatchesDecodeAsParsed' /\ MatchesInWindow' BY DEF MatchesDecodeAsParsed, MatchesInWindow, NoMatch
<1>4. OnlyRunsDiffer' BY DEF OnlyRunsDiffer, InitialRepeats
<1>5. LazyHistoryHeld' /\ PutAside' /\ MatchBehind'
  BY DEF LazyHistoryHeld, PutAside, MatchBehind
<1>6. InReach' BY DEF InReach, InitialRepeats
<1> QED BY <1>1, <1>2, <1>3, <1>4, <1>5, <1>6

\* What the invariant says in a block.
LEMMA InLazyBlock ==
  ASSUME LazyInv, parsing
  PROVE  /\ begin \in Nat /\ end \in Nat /\ anchor \in Nat
         /\ begin <= anchor /\ anchor <= end /\ begin < end
         /\ repeatOne \in Nat /\ repeatTwo \in Nat /\ savedOne \in Nat /\ savedTwo \in Nat
         /\ decoding \in ParserHistories
         /\ matched \in BOOLEAN
         /\ Position \in Nat /\ anchor <= Position /\ repeatOne <= Position + 1
<1>1. decoding \in ParserHistories BY DEF LazyInv, TypeOK
<1>2. matched \in BOOLEAN BY DEF LazyInv, TypeOK, Flags
<1>3. /\ begin \in Nat /\ end \in Nat /\ anchor \in Nat
      /\ begin <= anchor /\ anchor <= end /\ begin < end
      /\ repeatOne \in Nat /\ repeatTwo \in Nat /\ savedOne \in Nat /\ savedTwo \in Nat
  BY DEF LazyInv, TypeOK, FreshFrame
<1>4. /\ Position \in Nat /\ anchor <= Position
  BY <1>3 DEF Position, FirstSearched
<1>5. IF matched THEN repeatOne <= anchor ELSE anchor = begin /\ repeatOne <= begin + 1
  BY DEF LazyInv, InReach, PutAside
<1> QED BY <1>1, <1>2, <1>3, <1>4, <1>5

\* As StoredStep: what the actions of a lazy parser share.
LEMMA LazyStoredStep ==
  ASSUME LazyInv, parsing, parsing' = TRUE, matched' = TRUE,
         NEW at \in Nat, NEW length \in Nat, NEW offset \in Nat, NEW decoded \in Nat \ {0},
         begin <= at, at + length <= end, length >= MinMatch,
         begin' = begin, end' = end, anchor' = at + length,
         savedOne' = savedOne, savedTwo' = savedTwo,
         kept' = kept, decoder' = decoder, diverged' = diverged,
         decoding' \in ParserHistories,
         lastMatch' = [at |-> at, meant |-> offset, decoded |-> decoded],
         offset \in 1..Window, offset <= at,
         ~diverged => decoded = offset,
         ~diverged => Restored' = <<decoding'[1], decoding'[2]>> \/ OnlyTheRun',
         repeatOne' \in 1..Window, repeatOne' <= anchor',
         repeatTwo' \in 0..Window, repeatTwo' <= anchor',
         repeatTwo' = 0 => savedTwo # 0 \/ savedOne # 0
  PROVE  LazyInv'
<1>a. length >= 4 BY ConstantsAssumption
<1>0. Flags' BY DEF LazyInv, TypeOK, Flags
<1>1. TypeOK' BY <1>0, <1>a, InLazyBlock, ConstantsAssumption DEF LazyInv, TypeOK
<1>2. FreshFrame' BY DEF LazyInv, FreshFrame
<1>3. MatchesDecodeAsParsed' BY DEF MatchesDecodeAsParsed
<1>4. MatchesInWindow' BY DEF MatchesInWindow
<1>5. OnlyRunsDiffer' BY DEF OnlyRunsDiffer
<1>6. LazyHistoryHeld' BY DEF LazyHistoryHeld
<1>7. PutAside' BY <1>a, InLazyBlock, ConstantsAssumption DEF PutAside
<1>8. InReach' BY InLazyBlock, ConstantsAssumption DEF LazyInv, InReach
<1>9. MatchBehind' BY ConstantsAssumption DEF MatchBehind
<1> QED BY <1>1, <1>2, <1>3, <1>4, <1>5, <1>6, <1>7, <1>8, <1>9 DEF LazyInv

\* A new distance ends what a run left behind: the 4 falls out on both sides.
LEMMA SearchedMatchStep ==
  ASSUME LazyInv, NEW at \in Position..end, NEW back \in 0..(at - anchor),
         NEW length \in MinMatch..(end - anchor), NEW offset \in 1..at,
         SearchedMatch(at, back, length, offset)
  PROVE  LazyInv'
<1>1. parsing BY DEF SearchedMatch
<1> USE <1>1, InLazyBlock, ConstantsAssumption
<1> DEFINE start == at - back
           decodes == DecodeOffset(decoding, NewOffsetBase(offset), start = anchor)
<1>2. /\ start >= anchor /\ start \in Nat /\ offset \in Nat \ {0} /\ length \in Nat
      /\ start - offset >= 0 /\ offset <= Window
      /\ start + length <= end /\ length >= MinMatch
  BY DEF SearchedMatch, Store, FoundAt
<1>3. decodes = [offset |-> offset, repeats |-> <<offset, decoding[1], decoding[2]>>]
  BY <1>2, Decoding
<1>4. /\ parsing' = TRUE /\ matched' = TRUE /\ begin' = begin /\ end' = end
      /\ anchor' = start + length
      /\ savedOne' = savedOne /\ savedTwo' = savedTwo /\ kept' = kept
      /\ decoder' = decoder /\ diverged' = diverged
      /\ decoding' = <<offset, decoding[1], decoding[2]>>
      /\ lastMatch' = [at |-> start, meant |-> offset, decoded |-> offset]
      /\ repeatOne' = offset /\ repeatTwo' = repeatOne
  BY <1>3 DEF SearchedMatch, Store
<1>5. offset \in 1..Window /\ offset <= start BY <1>2
<1>6. ~diverged => Restored' = <<decoding'[1], decoding'[2]>>
  <2> SUFFICES ASSUME ~diverged PROVE Restored' = <<decoding'[1], decoding'[2]>> OBVIOUS
  <2>1. decoding[1] = IF repeatOne # 0 THEN repeatOne ELSE savedOne
    <3>1. CASE Restored = <<decoding[1], decoding[2]>> BY <3>1 DEF Restored
    <3>2. CASE OnlyTheRun BY <3>2 DEF OnlyTheRun
    <3> QED BY <3>1, <3>2 DEF LazyInv, LazyHistoryHeld
  <2>2. Restored' = <<offset, IF repeatOne # 0 THEN repeatOne
                              ELSE IF savedOne # 0 THEN savedOne ELSE savedTwo>>
    BY <1>2, <1>4 DEF Restored
  <2>3. repeatOne = 0 => savedOne # 0 BY DEF LazyInv, PutAside
  <2> QED BY <2>1, <2>2, <2>3, <1>4
<1>7. /\ repeatTwo' \in 0..Window /\ repeatTwo' <= anchor'
      /\ repeatTwo' = 0 => savedTwo # 0 \/ savedOne # 0
  BY <1>2, <1>4 DEF LazyInv, InReach, PutAside
<1>8. decoding' \in ParserHistories BY <1>2, <1>4, HistoryEntries
<1> HIDE DEF start, decodes
<1> QED BY <1>2, <1>4, <1>5, <1>6, <1>7, <1>8, LazyStoredStep

\* The first distance repeated is the decoder's, after a run as well.
LEMMA RepeatedMatchStep ==
  ASSUME LazyInv, NEW at \in Position..end, NEW length \in MinMatch..(end - anchor),
         RepeatedMatch(at, length)
  PROVE  LazyInv'
<1>1. parsing BY DEF RepeatedMatch
<1> USE <1>1, InLazyBlock, ConstantsAssumption
<1> DEFINE decodes == DecodeOffset(decoding, 1, FALSE)
<1>2. /\ repeatOne # 0 /\ Position < at /\ at \in Nat
      /\ at + length <= end /\ length >= MinMatch /\ length \in Nat
  BY DEF RepeatedMatch, Store
<1>4. at >= anchor /\ repeatOne <= at BY <1>2
<1>5. decodes = [offset |-> decoding[1], repeats |-> <<decoding[1], decoding[2], decoding[3]>>]
  BY Decoding
<1>6. /\ parsing' = TRUE /\ matched' = TRUE /\ begin' = begin /\ end' = end
      /\ anchor' = at + length
      /\ savedOne' = savedOne /\ savedTwo' = savedTwo /\ kept' = kept
      /\ decoder' = decoder /\ diverged' = diverged
      /\ decoding' = <<decoding[1], decoding[2], decoding[3]>>
      /\ lastMatch' = [at |-> at, meant |-> repeatOne, decoded |-> decoding[1]]
      /\ repeatOne' = repeatOne /\ repeatTwo' = repeatTwo
  <2>1. /\ decoding' = decodes.repeats
        /\ lastMatch' = [at |-> at, meant |-> repeatOne, decoded |-> decodes.offset]
    BY DEF RepeatedMatch, Store
  <2>2. parsing' = TRUE /\ matched' = TRUE /\ decoder' = decoder /\ diverged' = diverged
    BY DEF RepeatedMatch, Store
  <2> HIDE DEF decodes
  <2>3. /\ decoding' = <<decoding[1], decoding[2], decoding[3]>>
        /\ lastMatch' = [at |-> at, meant |-> repeatOne, decoded |-> decoding[1]]
    BY <2>1, <1>5
  <2> QED BY <2>2, <2>3 DEF RepeatedMatch, Store
<1>7. decoding[1] \in Nat \ {0} /\ decoding' \in ParserHistories /\ decoding' = decoding
  BY <1>6, HistoryEntries
<1>8. Restored' = Restored BY <1>6 DEF Restored
<1>9. ~diverged => /\ decoding[1] = repeatOne
                   /\ Restored' = <<decoding'[1], decoding'[2]>> \/ OnlyTheRun'
  <2> SUFFICES ASSUME ~diverged
               PROVE  /\ decoding[1] = repeatOne
                      /\ Restored' = <<decoding'[1], decoding'[2]>> \/ OnlyTheRun'
    OBVIOUS
  <2>1. CASE Restored = <<decoding[1], decoding[2]>>
    BY <2>1, <1>2, <1>7, <1>8 DEF Restored
  <2>2. CASE OnlyTheRun
    BY <2>2, <1>6, <1>7, <1>8 DEF OnlyTheRun
  <2> QED BY <2>1, <2>2 DEF LazyInv, LazyHistoryHeld
<1>10. repeatOne \in 1..Window /\ repeatTwo \in 0..Window
  BY <1>2 DEF LazyInv, InReach
<1>11. repeatOne <= anchor' /\ repeatTwo <= anchor'
  BY <1>2, <1>4, <1>6 DEF LazyInv, InReach, PutAside
<1>12. repeatTwo = 0 => savedTwo # 0 \/ savedOne # 0
  BY DEF LazyInv, PutAside
<1> HIDE DEF decodes
<1> QED BY <1>2, <1>4, <1>6, <1>7, <1>9, <1>10, <1>11, <1>12, LazyStoredStep

\* Behind a match of distance 1 the 4 of a run is not named: four bytes further
\* back than that match covers there is nothing that differs.
LEMMA RunIsNotRepeated ==
  ASSUME LazyInv, parsing, matched, OnlyTheRun, repeatTwo # 0
  PROVE  EndsPeriod(repeatTwo)
<1>1. repeatTwo = 4 /\ lastMatch.meant = 1 BY DEF OnlyTheRun
<1>2. /\ lastMatch.at \in Nat /\ anchor \in Nat /\ lastMatch.at + MinMatch <= anchor
  BY DEF LazyInv, TypeOK, MatchBehind
<1>3. 4 <= anchor - lastMatch.at + 1 BY <1>2, ConstantsAssumption
<1>4. 4 % 1 = 0 OBVIOUS
<1> QED BY <1>1, <1>3, <1>4 DEF EndsPeriod

LEMMA RepeatAtOnceStep ==
  ASSUME LazyInv, NEW length \in MinMatch..(end - anchor), RepeatAtOnce(length)
  PROVE  LazyInv'
<1>1. parsing /\ matched /\ repeatTwo # 0 BY DEF RepeatAtOnce, ImmediateRepeat
<1> USE <1>1, InLazyBlock, ConstantsAssumption
<1> DEFINE decodes == DecodeOffset(decoding, 1, TRUE)
<1>2. anchor + length <= end /\ length >= MinMatch /\ length \in Nat
  BY DEF RepeatAtOnce, ImmediateRepeat, Store
<1>3. repeatOne # 0 /\ repeatOne <= anchor /\ repeatTwo <= anchor
  BY DEF LazyInv, PutAside, InReach
<1>4. decodes = [offset |-> decoding[2], repeats |-> <<decoding[2], decoding[1], decoding[3]>>]
  BY Decoding
<1>5. /\ parsing' = TRUE /\ matched' = TRUE /\ begin' = begin /\ end' = end
      /\ anchor' = anchor + length
      /\ savedOne' = savedOne /\ savedTwo' = savedTwo /\ kept' = kept
      /\ decoder' = decoder /\ diverged' = diverged
      /\ decoding' = <<decoding[2], decoding[1], decoding[3]>>
      /\ lastMatch' = [at |-> anchor, meant |-> repeatTwo, decoded |-> decoding[2]]
      /\ repeatOne' = repeatTwo /\ repeatTwo' = repeatOne
  <2>1. /\ decoding' = decodes.repeats
        /\ lastMatch' = [at |-> anchor, meant |-> repeatTwo, decoded |-> decodes.offset]
    BY DEF RepeatAtOnce, ImmediateRepeat, Store
  <2>2. parsing' = TRUE /\ matched' = TRUE /\ decoder' = decoder /\ diverged' = diverged
    BY DEF RepeatAtOnce, ImmediateRepeat, Store
  <2> HIDE DEF decodes
  <2>3. /\ decoding' = <<decoding[2], decoding[1], decoding[3]>>
        /\ lastMatch' = [at |-> anchor, meant |-> repeatTwo, decoded |-> decoding[2]]
    BY <2>1, <1>4
  <2> QED BY <2>2, <2>3 DEF RepeatAtOnce, ImmediateRepeat, Store
<1>6. decoding[2] \in Nat \ {0} /\ decoding' \in ParserHistories
  BY <1>5, HistoryEntries
<1>7. ~diverged => decoding[1] = repeatOne /\ decoding[2] = repeatTwo
  <2>1. ~OnlyTheRun BY RunIsNotRepeated DEF RepeatAtOnce
  <2> QED BY <2>1, <1>3 DEF LazyInv, LazyHistoryHeld, Restored
<1>8. ~diverged => Restored' = <<decoding'[1], decoding'[2]>>
  BY <1>3, <1>5, <1>7 DEF Restored
<1>9. repeatOne \in 1..Window /\ repeatTwo \in 1..Window
  BY <1>3 DEF LazyInv, InReach
<1> HIDE DEF decodes
<1> QED BY <1>2, <1>3, <1>5, <1>6, <1>7, <1>8, <1>9, LazyStoredStep

LEMMA LazyStutterStep == LazyInv /\ UNCHANGED vars => LazyInv'
<1> SUFFICES ASSUME LazyInv, UNCHANGED vars PROVE LazyInv' OBVIOUS
<1> USE DEF vars, LazyInv
<1>0. Flags' BY DEF TypeOK, Flags
<1>1. TypeOK' BY <1>0 DEF TypeOK
<1>2. FreshFrame' BY DEF FreshFrame
<1>3. MatchesDecodeAsParsed' BY DEF MatchesDecodeAsParsed
<1>4. MatchesInWindow' BY DEF MatchesInWindow
<1>5. OnlyRunsDiffer' BY DEF OnlyRunsDiffer
<1>6. LazyHistoryHeld' BY DEF LazyHistoryHeld, OnlyTheRun, Restored
<1>7. PutAside' /\ MatchBehind' BY DEF PutAside, MatchBehind
<1>8. InReach' BY DEF InReach
<1> QED BY <1>1, <1>2, <1>3, <1>4, <1>5, <1>6, <1>7, <1>8

LEMMA LazyNextStep == LazyInv /\ [LazyNext]_vars => LazyInv'
<1> SUFFICES ASSUME LazyInv, [LazyNext]_vars PROVE LazyInv' OBVIOUS
<1>1. ASSUME NEW size \in BlockSizes, BeginLazyBlock(size) PROVE LazyInv'
  BY <1>1, BeginLazyBlockStep
<1>2. ASSUME NEW size \in BlockSizes, SkipBlock(size) PROVE LazyInv'
  BY <1>2, LazySkipStep
<1>3. ASSUME NEW size \in BlockSizes, NEW form \in RunForms, FirstRun(size, form)
      PROVE  LazyInv'
  BY <1>3, FirstRunStep
<1>4. ASSUME NEW at \in Position..end, NEW back \in 0..(at - anchor), NEW offset \in 1..at,
             NEW length \in MinMatch..(end - anchor), SearchedMatch(at, back, length, offset)
      PROVE  LazyInv'
  BY <1>4, SearchedMatchStep
<1>5. ASSUME NEW at \in Position..end, NEW length \in MinMatch..(end - anchor),
             RepeatedMatch(at, length)
      PROVE  LazyInv'
  BY <1>5, RepeatedMatchStep
<1>6. ASSUME NEW length \in MinMatch..(end - anchor), RepeatAtOnce(length) PROVE LazyInv'
  BY <1>6, RepeatAtOnceStep
<1>7. CASE SendBlock BY <1>7, LazySendStep
<1>8. CASE DropBlock BY <1>8, LazyDropStep
<1>9. CASE NewFrame BY <1>9, LazyFrameStep
<1>10. CASE UNCHANGED vars BY <1>10, LazyStutterStep
<1> QED BY <1>1, <1>2, <1>3, <1>4, <1>5, <1>6, <1>7, <1>8, <1>9, <1>10 DEF LazyNext

\* In every reachable state of a lazy strategy the decoder's history in a block is
\* what the parser holds and has put aside, or the block continues a run.
THEOREM LazyInvariant == LazySpec => []LazyInv
  BY LazyInitHolds, LazyNextStep, PTL DEF LazySpec

----------------------------------------------------------------------------
(* Both kinds of strategy, as the run checks them.                         *)

\* A step of MCNext is one of the strategy that runs.
LEMMA EitherStep ==
  ASSUME RepeatsInv, MCNext
  PROVE  /\ lazy' = lazy
         /\ IF lazy THEN LazyNext ELSE Next
<1>0. lazy \in BOOLEAN BY DEF RepeatsInv
<1>t. /\ begin \in Nat /\ end \in Nat /\ anchor \in Nat /\ begin <= anchor /\ anchor <= end
  BY <1>0 DEF RepeatsInv, FastInv, LazyInv, TypeOK
<1>1. CASE Fast /\ \E size \in BlockSizes : BeginBlock(size) BY <1>1 DEF Fast, Next
<1>2. CASE Fast /\ \E size \in BlockSizes : RunShortcut(size) BY <1>2 DEF Fast, Next
<1>3. CASE Fast /\ \E at \in anchor..end : \E back \in 0..(at - anchor), offset \in 1..at,
             length \in MinMatch..(end - anchor) : ExplicitMatch(at, back, length, offset)
  <2>1. PICK at \in anchor..end : \E back \in 0..(at - anchor), offset \in 1..at,
               length \in MinMatch..(end - anchor) : ExplicitMatch(at, back, length, offset)
    BY <1>3
  <2>2. PICK back \in 0..(at - anchor), offset \in 1..at,
             length \in MinMatch..(end - anchor) : ExplicitMatch(at, back, length, offset)
    BY <2>1
  <2>3. /\ at \in begin..end /\ back \in 0..(end - begin) /\ length \in 1..(end - begin)
        /\ offset \in 1..end
    BY <1>t, ConstantsAssumption
  <2>4. Next BY <2>2, <2>3 DEF Next
  <2> QED BY <1>3, <2>4 DEF Fast
<1>4. CASE Fast /\ \E at \in anchor..end, back \in {0, 1}, length \in MinMatch..(end - anchor) :
             RepeatMatch(at, back, length)
  <2>1. PICK at \in anchor..end, back \in {0, 1}, length \in MinMatch..(end - anchor) :
               RepeatMatch(at, back, length)
    BY <1>4
  <2>2. at \in begin..end /\ length \in 1..(end - begin) BY <1>t, ConstantsAssumption
  <2>3. Next BY <2>1, <2>2 DEF Next
  <2> QED BY <1>4, <2>3 DEF Fast
<1>5. CASE Fast /\ \E length \in MinMatch..(end - anchor) : ImmediateRepeat(length)
  <2>1. PICK length \in MinMatch..(end - anchor) : ImmediateRepeat(length) BY <1>5
  <2>2. length \in 1..(end - begin) BY <1>t, ConstantsAssumption
  <2>3. Next BY <2>1, <2>2 DEF Next
  <2> QED BY <1>5, <2>3 DEF Fast
<1>6. CASE Lazy /\ \E size \in BlockSizes : BeginLazyBlock(size) BY <1>6 DEF Lazy, LazyNext
<1>7. CASE Lazy /\ \E size \in BlockSizes, form \in RunForms : FirstRun(size, form)
  BY <1>7 DEF Lazy, LazyNext
<1>8. CASE Lazy /\ \E at \in Position..end : \E back \in 0..(at - anchor), offset \in 1..at,
             length \in MinMatch..(end - anchor) : SearchedMatch(at, back, length, offset)
  BY <1>8 DEF Lazy, LazyNext
<1>9. CASE Lazy /\ \E at \in Position..end, length \in MinMatch..(end - anchor) :
             RepeatedMatch(at, length)
  BY <1>9 DEF Lazy, LazyNext
<1>10. CASE Lazy /\ \E length \in MinMatch..(end - anchor) : RepeatAtOnce(length)
  BY <1>10 DEF Lazy, LazyNext
<1>11. CASE /\ UNCHANGED lazy
            /\ (\E size \in BlockSizes : SkipBlock(size)) \/ SendBlock \/ DropBlock \/ NewFrame
  BY <1>11 DEF LazyNext, Next
<1> QED
  BY <1>1, <1>2, <1>3, <1>4, <1>5, <1>6, <1>7, <1>8, <1>9, <1>10, <1>11 DEF MCNext

\* Whichever strategy runs, its inductive invariant holds.
THEOREM EitherInvariant == MCSpec => []RepeatsInv
<1>1. MCInit => RepeatsInv
  BY InitHolds, LazyInitHolds DEF MCInit, RepeatsInv
<1>2. RepeatsInv /\ [MCNext]_<<vars, lazy>> => RepeatsInv'
  <2> SUFFICES ASSUME RepeatsInv, [MCNext]_<<vars, lazy>> PROVE RepeatsInv' OBVIOUS
  <2>1. CASE MCNext
    BY <2>1, EitherStep, NextStep, LazyNextStep DEF RepeatsInv
  <2>2. CASE UNCHANGED <<vars, lazy>>
    BY <2>2, StutterStep, LazyStutterStep DEF RepeatsInv
  <2> QED BY <2>1, <2>2
<1> QED BY <1>1, <1>2, PTL DEF MCSpec

\* Without a dropped block the decoder copies every match from the distance the
\* parser meant, of every strategy, and behind a run as well.
THEOREM MatchesAlwaysAgree == MCSpec => []MatchesDecodeAsParsed
<1>1. RepeatsInv => MatchesDecodeAsParsed BY DEF RepeatsInv, FastInv, LazyInv
<1> QED BY <1>1, EitherInvariant, PTL

\* No match of any strategy reaches before the window or the frame.
THEOREM WindowAlwaysHeld == MCSpec => []MatchesInWindow
<1>1. RepeatsInv => MatchesInWindow BY DEF RepeatsInv, FastInv, LazyInv
<1> QED BY <1>1, EitherInvariant, PTL

\* Between blocks a parser keeps the two distances the decoder would repeat; only a
\* run leaves a lazy one with a second distance of its own, and always the same.
THEOREM HistoriesAlwaysFollow == MCSpec => []HistoriesFollow
<1>1. RepeatsInv => HistoriesFollow BY DEF RepeatsInv, FastInv, LazyInv, HistoriesFollow
<1> QED BY <1>1, EitherInvariant, PTL
=============================================================================
