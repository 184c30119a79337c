------------------------------ MODULE MatchRows ------------------------------
(***************************************************************************)
(* The tables of the row matcher (row_match_table, row_hash_cache).  A row *)
(* is a ring of entries filled from its end to its beginning: a byte of    *)
(* the hash and an index each, but the first byte is the row's head.  The  *)
(* cache holds the hashes of the positions to come, computed ahead.        *)
(*                                                                         *)
(* Abstractions.  A hash is the row and the tag it names; in the cache, it *)
(* is the position it was computed from.  The salt only changes which hash *)
(* that is.                                                                *)
(***************************************************************************)
EXTENDS Integers, Sequences, FiniteSets

CONSTANTS
  RowEntries,  \* 1 << row_log
  CacheSize    \* row_hash_cache::size

ASSUME RowsAssumption ==
  /\ RowEntries \in Nat /\ RowEntries >= 2
  /\ CacheSize \in Nat \ {0}

NotHashed == -1

RowMask == RowEntries - 1

EmptyRow   == [slot \in 0..RowMask |-> [tag |-> 0, index |-> 0]]
EmptyCache == [slot \in 0..(CacheSize - 1) |-> NotHashed]

HeadOf(row) == row[0].tag

\* Mutant: the ring has an entry where the head is.
AroundHead(row) == (HeadOf(row) - 1) % RowEntries

\* The entry before the head, around the byte that is the head.
NextSlot(row) ==
  LET next == (HeadOf(row) - 1) % RowEntries IN IF next = 0 THEN RowMask ELSE next

\* insert_fixed
Inserted(row, tag, index) ==
  LET slot == NextSlot(row)
  IN  [row EXCEPT ![0].tag = slot, ![slot] = [tag |-> tag, index |-> index]]

\* The entry `rank` steps from the newest, around the byte that is the head.
SlotAt(row, rank) ==
  LET slot == HeadOf(row) + rank - 1
  IN  IF HeadOf(row) = 0 THEN rank ELSE IF slot < RowEntries THEN slot ELSE slot - RowMask

EntryAt(row, rank) == row[SlotAt(row, rank)]

\* The entries before this one that the tag's mask lets through.
Earlier(row, tag, rank) == {k \in 1..(rank - 1) : EntryAt(row, k).tag = tag}

\* collect_candidates_fixed: newest first, up to the first that is too old.
Collected(row, tag, low, attempts) ==
  {EntryAt(row, rank).index : rank \in
     {k \in 1..RowMask :
        /\ EntryAt(row, k).tag = tag
        /\ \A j \in Earlier(row, tag, k) \cup {k} : EntryAt(row, j).index >= low
        /\ Cardinality(Earlier(row, tag, k)) < attempts}}

----------------------------------------------------------------------------
\* fill: the hashes from begin on, as many as there is room for.
Filled(cache, begin, last) ==
  [slot \in DOMAIN cache |->
     LET at == begin + ((slot - begin) % CacheSize) IN IF at <= last THEN at ELSE cache[slot]]

CachedHash(cache, at) == cache[at % CacheSize]

\* next: a hash that is taken makes room for the one CacheSize ahead.
Advanced(cache, at) == [cache EXCEPT ![at % CacheSize] = at + CacheSize]
=============================================================================
