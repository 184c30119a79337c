---------------------------- MODULE SequenceTables ----------------------------
(***************************************************************************)
(* The decompressor's tables of the codes of sequences, and the tables it  *)
(* keeps: for each of the three kinds the first it has built and, once a   *)
(* frame has shown other descriptions, a few of those in turn.  A kept     *)
(* table answers a source that starts with its description, which is then  *)
(* not read.  Nothing empties this cache, not even a new frame.            *)
(*                                                                         *)
(* Abstractions.  A description is never longer than the 256 bytes there   *)
(* is room for: its counts are at most 53.  Repeating the table in use     *)
(* (mode 3) leaves the cache alone and is studied in EntropyHistory.       *)
(***************************************************************************)
EXTENDS FseCodes

CONSTANT ExtraTables  \* tables kept besides the first

ASSUME ExtraTablesAssumption == ExtraTables \in Nat \ {0}

Kinds == {"literal_length", "offset", "match_length"}

LargestCode(kind) ==
  CASE kind = "literal_length" -> 35 [] kind = "offset" -> 31 [] kind = "match_length" -> 52

\* The default distributions.
DefaultCounts(kind) ==
  LET values ==
        CASE kind = "literal_length" ->
               <<4, 3>> \o [i \in 1..11 |-> 2] \o <<1, 1, 1>> \o [i \in 1..9 |-> 2] \o <<3, 2>>
                 \o [i \in 1..5 |-> 1] \o [i \in 1..4 |-> -1]
          [] kind = "offset" ->
               [i \in 1..6 |-> 1] \o <<2, 2, 2>> \o [i \in 1..15 |-> 1] \o [i \in 1..5 |-> -1]
          [] kind = "match_length" ->
               <<1, 4, 3>> \o [i \in 1..6 |-> 2] \o [i \in 1..37 |-> 1] \o [i \in 1..7 |-> -1]
  IN  [log    |-> IF kind = "offset" THEN 5 ELSE 6,
       values |-> [code \in 0..(Len(values) - 1) |-> values[code + 1]]]

MaximumLog(kind) == IF kind = "offset" THEN 8 ELSE 9

----------------------------------------------------------------------------
(* The cache of one kind.  Place 0 is the first table's.  misses counts    *)
(* the sources of this frame that the first table did not answer.          *)

None == [none |-> TRUE]

EmptyCache == [first |-> None, extra |-> [i \in 1..ExtraTables |-> None], next |-> 1, misses |-> 0]

Places == 0..ExtraTables
At(cache, i) == IF i = 0 THEN cache.first ELSE cache.extra[i]

\* Mutant: the sizes are compared, and the bytes are not.
LongEnough(kept, source) == kept # None /\ Len(kept.description) <= Len(source)

\* The table is that of the description the source starts with.
Answers(kept, source) == kept # None /\ IsPrefix(kept.description, source)

\* The places whose tables answer the source.  A frame's first miss does not look
\* further than the first table.
Answering(cache, source) ==
  {i \in Places : /\ i = 0 \/ (cache.first # None /\ cache.misses # 0)
                  /\ Answers(At(cache, i), source)}

\* A source that the first table, which there is, does not answer.  Two of them
\* are as good as more.
Missed(cache) ==
  IF cache.first = None \/ cache.misses = 2 THEN cache ELSE [cache EXCEPT !.misses = @ + 1]

\* Mutant: whatever is built is kept.
AlwaysKept(cache) == TRUE

\* The second miss of a frame, and those behind it, have their tables kept.
KeepsExtra(cache) == cache.misses > 1

Kept(cache, table) ==
  CASE cache.first = None -> [cache EXCEPT !.first = table]
    [] cache.first # None /\ KeepsExtra(cache) ->
         [cache EXCEPT !.extra[cache.next] = table, !.next = (@ % ExtraTables) + 1]
    [] OTHER -> cache

\* reset_frame_state.
Restarted(cache) == [cache EXCEPT !.misses = 0]

\* What a source's own description says, when a table of the kind can be built of it.
BuiltOf(kind, source, read) ==
  IF ~read.accepted \/ read.counts.log > MaximumLog(kind) \/ ~Fills(read.counts) THEN Refused
  ELSE [accepted    |-> TRUE,
        description |-> SubSeq(source, 1, read.consumed),
        table       |-> DecodingTable(read.counts)]

BuiltTable(kind, source) == BuiltOf(kind, source, ReadDescription(source, LargestCode(kind)))

Entry(built) == [description |-> built.description, table |-> built.table]

\* A table that was built, or refused.
Taken(built, cache) ==
  IF built.accepted
  THEN [accepted |-> TRUE, table |-> built.table, used |-> Len(built.description),
        cache |-> Kept(cache, Entry(built))]
  ELSE [accepted |-> FALSE, cache |-> cache]

\* A description: answered from the cache, or read.
Described(kind, source, cache) ==
  LET answering == Answering(cache, source)
      hit   == At(cache, CHOOSE i \in answering : \A j \in answering : i <= j)
      after == IF Answers(cache.first, source) THEN cache ELSE Missed(cache)
  IN  IF answering # {}
      THEN [accepted |-> TRUE, table |-> hit.table, used |-> Len(hit.description), cache |-> after]
      ELSE Taken(BuiltTable(kind, source), after)

\* load_sequence_table: the table, the bits of the source it takes, and the cache.
Loaded(kind, mode, source, cache) ==
  CASE mode = "predefined" ->
         [accepted |-> TRUE, table |-> DecodingTable(DefaultCounts(kind)), used |-> 0,
          cache |-> cache]
    [] mode = "run_length" ->
         IF Len(source) < 8 \/ Field(source, 0, 8) > LargestCode(kind)
         THEN [accepted |-> FALSE, cache |-> cache]
         ELSE [accepted |-> TRUE, table |-> OneSymbolDecoding(Field(source, 0, 8)), used |-> 8,
               cache |-> cache]
    [] mode = "compressed" -> Described(kind, source, cache)
=============================================================================
