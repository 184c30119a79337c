------------------------------ MODULE TableCache ------------------------------
(***************************************************************************)
(* The cache of one kind of sequence tables over the frames and blocks     *)
(* that a decompressor reads: sections of any mode, with descriptions      *)
(* that come back, that begin like others, and that are refused.           *)
(*                                                                         *)
(* Abstractions.  A source is what a section has left when its table is    *)
(* due, bit by bit.  The three kinds have caches of their own and nothing  *)
(* in common; a behaviour follows one of them.  A section whose table is   *)
(* refused ends the frame with an error.                                   *)
(***************************************************************************)
EXTENDS SequenceTables

CONSTANT Sources  \* what sections begin with

ASSUME SourcesAssumption == Sources \subseteq Seq(0..1)

VARIABLES
  kind,    \* the code the tables are of
  cache,   \* its first table and the extra ones
  failed   \* a table was refused in this frame

cacheVars == <<kind, cache, failed>>

CacheInit == kind \in Kinds /\ cache = EmptyCache /\ failed = FALSE

\* load_sequence_table, called for a block.
Load(mode, source) ==
  /\ ~failed
  /\ \E loaded \in {Loaded(kind, mode, source, cache)} :
       cache' = loaded.cache /\ failed' = ~loaded.accepted
  /\ UNCHANGED kind

\* reset_frame_state, behind a frame's end or behind an error.
StartFrame ==
  /\ cache' = Restarted(cache) /\ failed' = FALSE
  /\ UNCHANGED kind

Modes == {"predefined", "run_length", "compressed"}

CacheNext ==
  \/ \E mode \in Modes, source \in Sources : Load(mode, source)
  \/ StartFrame

CacheSpec == CacheInit /\ [][CacheNext]_cacheVars

----------------------------------------------------------------------------
KeptPlaces == {i \in Places : At(cache, i) # None}

\* A table that is kept is the one its description says, and none is kept twice,
\* however many blocks and frames there were (load_sequence_table fills the place
\* of the oldest extra table, and a frame's first miss is read without a look at
\* the extra tables).
CachesAreTrue ==
  /\ \A i, j \in KeptPlaces : At(cache, i).description = At(cache, j).description => i = j
  /\ \A i \in KeptPlaces :
       \E read \in {ReadDescription(At(cache, i).description, LargestCode(kind))} :
         /\ read.accepted /\ read.consumed = Len(At(cache, i).description)
         /\ At(cache, i).table = DecodingTable(read.counts)

\* The cache is not to be seen: a section that a kept table answers is given the
\* table, and loses the bits, that a decompressor that has kept nothing would read
\* of it, and it is none that would be refused (load_sequence_table trusts the
\* description of a kept table without knowing where that of the section ends).
AnsweredAsRead ==
  \A i \in KeptPlaces : \A source \in {s \in Sources : i \in Answering(cache, s)} :
    \E loaded \in {Loaded(kind, "compressed", source, cache)},
       read \in {Loaded(kind, "compressed", source, EmptyCache)} :
      /\ loaded.accepted /\ read.accepted
      /\ loaded.table = read.table /\ loaded.used = read.used
=============================================================================
