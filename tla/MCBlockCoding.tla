----------------------------- MODULE MCBlockCoding -----------------------------
(***************************************************************************)
(* BlockCoding on small alphabets: counts that make trees higher than any  *)
(* limit and that have ties, a wide alphabet whose weights are coded, and  *)
(* tables of every kind for sequences with and without extra bits.  A      *)
(* behaviour is one of BlockCoding or one of TableCache, whose sections    *)
(* begin with descriptions of small tables: two of the same counts, one of *)
(* the same length, one with a run of zeros that is too long for the       *)
(* offsets, and two that are refused and begin like others.                *)
(***************************************************************************)
EXTENDS BlockCoding, TableCache

\* Frequencies of the symbols 0, 1, ...
Of(counts) == [s \in 0..(Len(counts) - 1) |-> counts[s + 1]]

\* Twenty-eight symbols, of which every third occurs.
Wide == [s \in 0..27 |-> IF s % 3 = 0 THEN 1 + 2 * ((s \div 3) % 4) ELSE 0]

MCLiteralCounts ==
  {Of(<<8, 8>>), Of(<<5, 0, 11>>), Of(<<3, 3, 2, 3, 5>>), Of(<<1, 9, 1, 4, 2>>),
   Of(<<1, 1, 2, 3, 5, 8, 13>>), Of(<<21, 13, 8, 5, 3, 2, 1, 1>>),
   Of(<<1, 1, 1, 1, 1, 1, 1, 16, 40>>), Wide}

Predefined == [mode |-> "predefined"]
Only(code) == [mode |-> "run_length", symbol |-> code]
Built(counts, last) == [mode |-> "compressed", frequencies |-> Of(counts), last |-> last]

\* Literal lengths 0, 1 and 17, match lengths 3, 4 and 36, offset bases 1 and 6.
Zeros(n) == [i \in 1..n |-> 0]

MCTableChoices ==
  [literal_length : {Predefined, Only(0), Built(<<3, 1>>, 0), Built(<<9, 30>> \o Zeros(14) \o <<1>>, 16)},
   offset         : {Predefined, Only(2), Built(<<1, 0, 2>>, 2)},
   match_length   : {Built(<<40, 1>>, 1), Built([i \in 1..25 |-> 4], 0), Built(<<2, 5>> \o Zeros(30) \o <<2>>, 32)}]

\* Blocks of match lengths 3 and 4 that follow one another, under four tables.
MCFollowers ==
  {[literal_length |-> Only(0), offset |-> Only(2), match_length |-> Built(counts, 0)] :
     counts \in {<<9, 3>>, <<3, 9>>, <<5, 5, 1>>, <<6, 1, 9>>}}

MCAllChoices == MCTableChoices \cup MCFollowers

Sequence(l, o, m) == [literal_length |-> l, offset |-> o, match_length |-> m]

MCSequences ==
  {Sequence(0, 1, 3), Sequence(1, 6, 4), Sequence(17, 6, 36), Sequence(0, 6, 3), Sequence(1, 1, 4)}

----------------------------------------------------------------------------
Halves == Description([log |-> 5, values |-> Of(<<16, 16>>)])

\* The bits up to a whole byte say nothing.
OtherPadding == Front(Halves) \o <<1>>

FarApart == Description([log |-> 5, values |-> Of(<<10>> \o Zeros(32) \o <<22>>)])

MCSources ==
  {Halves \o Bits(37, 8), OtherPadding,
   Description([log |-> 5, values |-> Of(<<30, -1, 1>>)]) \o Bits(255, 8), FarApart \o Bits(1, 8),
   Description([log |-> 10, values |-> Of(<<512, 512>>)]), SubSeq(Halves, 1, 8)}

----------------------------------------------------------------------------
NoKind == "none"   \* of a behaviour of BlockCoding

MCInit ==
  /\ Init
  /\ \/ kind = NoKind /\ cache = EmptyCache /\ failed = FALSE
     \/ CacheInit /\ input = [section |-> "literals", frequencies |-> Of(<<8, 8>>)]

Coding  == kind = NoKind /\ UNCHANGED cacheVars
Caching == kind # NoKind /\ UNCHANGED vars

\* Next or CacheNext, one disjunct per action.
MCNext ==
  \/ Coding /\ BuildTree
  \/ Coding /\ EncodeLiteral
  \/ Coding /\ EndLiterals
  \/ Coding /\ LoadTree
  \/ Coding /\ DecodeLiteral
  \/ Coding /\ SelectTables
  \/ Coding /\ EncodeSequence
  \/ Coding /\ EndSequences
  \/ Coding /\ \E i \in DOMAIN InOrder : LoadTable(i)
  \/ Coding /\ StartStates
  \/ Coding /\ DecodeSequence
  \/ Coding /\ End
  \/ Coding /\ NextBlock
  \/ Caching /\ \E mode \in Modes, source \in Sources : Load(mode, source)
  \/ Caching /\ StartFrame

MCSpec == MCInit /\ [][MCNext]_<<vars, cacheVars>>
=============================================================================
