------------------------------- MODULE FseCodes -------------------------------
(***************************************************************************)
(* Finite-state entropy codes: how counts of symbols become a table, how   *)
(* the table is described in a few bits, and how the two sides build from  *)
(* the description tables that walk the same states in opposite            *)
(* directions.  The encoder codes a message from its end and writes        *)
(* forward; the decoder reads the bits from their end.                     *)
(*                                                                         *)
(* Abstractions.  A bitstream is the sequence of its bits, first written   *)
(* first; the words it is written in and its end marker are left out.  The *)
(* 62-bit fixed-point divisions of normalize_counts are rationals: for     *)
(* totals of a block they round as the fixed-point ones do.                *)
(***************************************************************************)
EXTENDS Integers, Sequences, SequencesExt, FiniteSetsExt, Functions

\* std::bit_width.
BitWidth(n) == Cardinality({w \in 0..29 : 2^w <= n})

Bits(value, count) == [i \in 1..count |-> (value \div 2^(i - 1)) % 2]

\* The number that bits are, the lowest first.
Number(bits) ==
  LET last[n \in 0..Len(bits)] == IF n = 0 THEN 0 ELSE bits[Len(bits) + 1 - n] + 2 * last[n - 1]
  IN  last[Len(bits)]

\* The last `count` bits, and what is left: reverse_bit_reader::read.  Behind
\* the first bit it reads zeros, in the lowest places.
AtHand(bits, count) == IF count < Len(bits) THEN count ELSE Len(bits)
Unread(bits, count) == SubSeq(bits, 1, Len(bits) - AtHand(bits, count))
Peek(bits, count) ==
  Number(SubSeq(bits, Len(bits) - AtHand(bits, count) + 1, Len(bits)))
    * 2^(count - AtHand(bits, count))

----------------------------------------------------------------------------
(* Counts.  [log, values]: a table of 2^log cells, values[s] of them for   *)
(* the symbol s, or one cell when the value is -1, for a symbol too rare   *)
(* for a whole share.                                                      *)

Cells(value) == IF value = -1 THEN 1 ELSE value
TableSize(counts) == 2^counts.log
LastSymbol(counts) == Max(DOMAIN counts.values)

\* optimal_fse_table_log.
OptimalTableLog(maximumLog, size, maximumSymbol) ==
  LET reduced == IF BitWidth(size - 1) - 1 > 2 THEN BitWidth(size - 1) - 3 ELSE 0
      needed  == Min({BitWidth(size), IF maximumSymbol = 0 THEN 2 ELSE BitWidth(maximumSymbol) + 1})
      log     == Max({Min({maximumLog, reduced}), needed})
  IN  Min({Max({log, 5}), 12})

RoundingThresholds == <<0, 473195, 504333, 520860, 550000, 700000, 750000, 830000>>

\* A symbol's share of the table, rounded down and then, when it is small,
\* up behind a threshold.  2^62 is a multiple of no total but powers of two,
\* so that an exact share falls just short.
Share(count, total, log) ==
  LET scaled == count * 2^log
      floor  == IF 2^BitWidth(total - 1) = total THEN scaled \div total
                                                 ELSE (scaled - 1) \div total
      rest   == scaled - floor * total
      left   == (rest * 2^10) % total
      above  == ((rest * 2^10) \div total) * 2^10 + (left * 2^10) \div total
  IN  IF /\ floor < 8
         /\ \/ above > RoundingThresholds[floor + 1]
            \/ above = RoundingThresholds[floor + 1] /\ (left * 2^10) % total > 0
      THEN floor + 1 ELSE floor

Present(frequencies) == {s \in DOMAIN frequencies : frequencies[s] # 0}

\* normalize_counts_secondary: the rare symbols get a cell each and the others
\* share what is left, so that the rounding never runs out of cells.  Its ways
\* out of a table without room are left out: OptimalTableLog leaves at least
\* half of the cells to the symbols that are not rare.
NormalizeSecondary(frequencies, log, low) ==
  LET total   == SumFunction(frequencies)
      lowOne  == (total * 3) \div 2^(log + 1)
      rare    == {s \in Present(frequencies) : frequencies[s] <= total \div 2^log}
      ones    == {s \in Present(frequencies) : frequencies[s] <= lowOne}
      free(used) == 2^log - Cardinality(used)
      left(used) == total - SumFunctionOnSet(frequencies, used)
      more    == {s \in Present(frequencies) :
                    frequencies[s] <= (left(rare \cup ones) * 3) \div (free(rare \cup ones) * 2)}
      used    == IF left(rare \cup ones) \div free(rare \cup ones) > lowOne
                 THEN rare \cup ones \cup more ELSE rare \cup ones
      upTo(s) == SumFunctionOnSet(frequencies, {r \in Present(frequencies) \ used : r <= s})
      end(n)  == (left(used) + n * (2 * free(used) + 1) - 1) \div (2 * left(used))
  IN  [s \in DOMAIN frequencies |->
         CASE s \in rare             -> low
           [] s \in used \ rare      -> 1
           [] frequencies[s] = 0     -> 0
           [] OTHER                  -> end(upTo(s)) - end(upTo(s) - frequencies[s])]

\* normalize_counts: shares rounded one by one, and what is missing or too much
\* is made up by the largest, unless that would take half of it.
Normalize(frequencies, log, low) ==
  LET total == SumFunction(frequencies)
      rare  == {s \in Present(frequencies) : frequencies[s] <= total \div 2^log}
      balanced(shares, largest, missing) ==
        IF -missing >= shares[largest] \div 2 THEN NormalizeSecondary(frequencies, log, low)
        ELSE [shares EXCEPT ![largest] = @ + missing]
      completed(shares, most) ==
        balanced(shares, Min({s \in DOMAIN shares \ rare : shares[s] = most}),
                 2^log - SumFunction([s \in DOMAIN shares |-> Cells(shares[s])]))
      rounded(shares) == completed(shares, Max({shares[s] : s \in DOMAIN shares \ rare}))
  IN  [log    |-> log,
       values |-> rounded([s \in DOMAIN frequencies |->
                    IF frequencies[s] = 0 THEN 0
                    ELSE IF s \in rare THEN low ELSE Share(frequencies[s], total, log)])]

----------------------------------------------------------------------------
(* The description of counts, written and read front to back.  The writer  *)
(* collects bits in a word of 32, of which sixteen are sent when more than *)
(* sixteen are there: `done` are the ones sent, `word` the others.         *)

\* What is put behind the end of the word is lost.
Appended(stream, bits) == [stream EXCEPT !.word = SubSeq(@ \o bits, 1, Min({32, Len(@) + Len(bits)}))]

Sent(stream, count) ==
  [done |-> stream.done \o SubSeq(stream.word, 1, count),
   word |-> SubSeq(stream.word, count + 1, Len(stream.word))]

\* flush_sixteen.
Flushed(stream) == IF Len(stream.word) <= 16 THEN stream ELSE Sent(stream, 16)

Ones(count) == [i \in 1..count |-> 1]

\* A run of zero counts behind a zero: sixteen bits for every 24, sent at once,
\* two bits for every three, and two for the rest.
ZeroRun(stream, length) ==
  LET rest == length % 24
      long == [stream EXCEPT !.word = @ \o Ones(16 * (length \div 24))]
  IN  Flushed(Appended(Sent(long, 16 * (length \div 24)),
                       Ones(2 * (rest \div 3)) \o Bits(rest % 3, 2)))

\* The values that a count may have are one more than a power of two in general:
\* this many of them do with a bit less.
Spare(remaining) == 2^BitWidth(remaining) - 1 - remaining

CountBits(value, remaining) ==
  LET sent == IF value >= 2^(BitWidth(remaining) - 1) THEN value + Spare(remaining) ELSE value
  IN  Bits(sent, IF sent < Spare(remaining) THEN BitWidth(remaining) - 1 ELSE BitWidth(remaining))

\* One count and, behind a zero, the run of zeros in front of it: the loop of
\* write_normalized_counts.  `remaining` is one more than the cells left.
WriteCount(counts, written) ==
  LET s      == written.symbol
      zeros  == {z \in s..LastSymbol(counts) : \A r \in s..z : counts.values[r] = 0}
      t      == IF written.afterZero THEN s + Cardinality(zeros) ELSE s
      opened == IF written.afterZero THEN ZeroRun(written.stream, t - s) ELSE written.stream
      value  == counts.values[t]
  IN  IF s > LastSymbol(counts) \/ written.remaining = 1 THEN written
      ELSE [symbol    |-> t + 1,
            remaining |-> written.remaining - Cells(value),
            afterZero |-> value = 0,
            stream    |-> Flushed(Appended(opened, CountBits(value + 1, written.remaining)))]

\* Zeros up to a whole byte.
Padded(bits) == bits \o [i \in 1..((8 - (Len(bits) % 8)) % 8) |-> 0]

\* write_normalized_counts.  The first four bits tell the size of the table.
Description(counts) ==
  LET written[n \in 0..(LastSymbol(counts) + 1)] ==
        IF n = 0
        THEN [symbol |-> 0, remaining |-> TableSize(counts) + 1, afterZero |-> FALSE,
              stream |-> [done |-> <<>>, word |-> Bits(counts.log - 5, 4)]]
        ELSE WriteCount(counts, written[n - 1])
      stream == written[LastSymbol(counts) + 1].stream
  IN  Padded(stream.done \o stream.word)

Refused == [accepted |-> FALSE]

\* Behind the last bit there are zeros, until the reader sees that it is there.
Field(bits, at, width) ==
  Number([i \in 1..width |-> IF at + i <= Len(bits) THEN bits[at + i] ELSE 0])

\* The twos of ones from the bit `at` on: three more zeros each.
Threes(bits, at) ==
  Cardinality({k \in 1..Len(bits) :
                 at + 2 * k <= Len(bits) /\ \A j \in (at + 1)..(at + 2 * k) : bits[j] = 1})

\* One count and, behind a zero, the zeros in front of it: the loop of
\* read_normalized_counts.  `at` is the last bit read, `values` are the counts so
\* far; without `remaining` cells to give out, nothing is read.
ReadCount(bits, maximumSymbol, read) ==
  LET afterZero == read.values # <<>> /\ Last(read.values) = 0
      threes == IF afterZero THEN Threes(bits, read.at) ELSE 0
      zeros  == IF afterZero THEN 3 * threes + Field(bits, read.at + 2 * threes, 2) ELSE 0
      from   == IF afterZero THEN read.at + 2 * threes + 2 ELSE read.at
      short  == BitWidth(read.remaining) - 1
      isShort == Field(bits, from, short) < Spare(read.remaining)
      end    == IF isShort THEN from + short ELSE from + short + 1
      field  == Field(bits, from, end - from)
      count  == (IF ~isShort /\ field >= 2^short THEN field - Spare(read.remaining) ELSE field) - 1
  IN  IF read.remaining <= 1 THEN read
      ELSE IF Len(read.values) + zeros > maximumSymbol \/ end > Len(bits)
      THEN [read EXCEPT !.remaining = 0]
      ELSE [at        |-> end,
            remaining |-> read.remaining - Cells(count),
            values    |-> read.values \o [i \in 1..zeros |-> 0] \o <<count>>]

\* read_normalized_counts: there are no more counts than symbols.
ReadDescription(bits, maximumSymbol) ==
  LET log == Field(bits, 0, 4) + 5
      read[n \in 0..(maximumSymbol + 1)] ==
        IF n = 0 THEN [at |-> 4, remaining |-> 2^log + 1, values |-> <<>>]
        ELSE ReadCount(bits, maximumSymbol, read[n - 1])
      end      == read[maximumSymbol + 1]
      consumed == 8 * ((end.at + 7) \div 8)
  IN  IF log > 12 \/ end.remaining # 1 \/ consumed > Len(bits) THEN Refused
      ELSE [accepted |-> TRUE, consumed |-> consumed,
            counts   |-> [log    |-> log,
                          values |-> [s \in 0..(Len(end.values) - 1) |-> end.values[s + 1]]]]

----------------------------------------------------------------------------
(* Tables.  A symbol's cells are spread over the table by a fixed stride;  *)
(* the rare symbols have the cells from the end down, which the others     *)
(* step over.                                                              *)

\* 0, 1, ..., n - 1.
UpTo(n) == [i \in 1..n |-> i - 1]

Rare(counts) ==
  LET rare(s) == counts.values[s] = -1 IN SelectSeq(UpTo(LastSymbol(counts) + 1), rare)

HighThreshold(counts) == TableSize(counts) - 1 - Len(Rare(counts))

Stride(size) == size \div 2 + size \div 8 + 3

\* The cells that no rare symbol has, in the order they are given out.
CellsInOrder(counts) ==
  LET size      == TableSize(counts)
      free(cell) == cell <= HighThreshold(counts)
  IN  SelectSeq([k \in 1..size |-> ((k - 1) * Stride(size)) % size], free)

\* The symbols as often as they have cells of their own.
Occurrences(counts) ==
  FlattenSeq([i \in 1..(LastSymbol(counts) + 1) |->
                [k \in 1..counts.values[i - 1] |-> i - 1]])

\* What both builders require of counts.
Fills(counts) ==
  SumFunction([s \in DOMAIN counts.values |-> Cells(counts.values[s])]) = TableSize(counts)

\* Every cell with its symbol.
Spread(counts) ==
  LET cells   == CellsInOrder(counts)
      symbols == Occurrences(counts)
      rare    == Rare(counts)
  IN  [i \in 1..Len(symbols) |-> [symbol |-> symbols[i], cell |-> cells[i]]]
      \o [i \in 1..Len(rare) |-> [symbol |-> rare[i], cell |-> TableSize(counts) - i]]

\* Cells of the symbols before s: `cumulative` and `total` of the builder.
Before(counts, s) == SumFunction([r \in 0..(s - 1) |-> Cells(counts.values[r])])

\* The bits that the highest state of a symbol gives off are log less this.
KeptWidth(value) == BitWidth(value - 1) - 1

\* delta_number_bits and delta_find_state.
Transform(counts, s) ==
  LET value   == counts.values[s]
      maximum == counts.log - KeptWidth(value)
  IN  CASE value = 0 ->
             [bits |-> (counts.log + 1) * 2^16 - TableSize(counts), find |-> 0]
        [] value \in {-1, 1} ->
             [bits |-> counts.log * 2^16 - TableSize(counts), find |-> Before(counts, s) - 1]
        [] OTHER ->
             [bits |-> maximum * 2^16 - value * 2^maximum, find |-> Before(counts, s) - value]

\* Mutant: the states of a symbol are in the order its cells were given out.
InOrderOfPlacement(counts) ==
  LET before(a, b) == a.symbol < b.symbol
      states       == SortSeq(Spread(counts), before)
  IN  [log        |-> counts.log,
       states     |-> [i \in DOMAIN states |-> TableSize(counts) + states[i].cell],
       transforms |-> [s \in DOMAIN counts.values |-> Transform(counts, s)]]

\* build_fse_compression_table: the states of a symbol are its cells, in order.
CompressionTable(counts) ==
  LET before(a, b) == a.symbol < b.symbol \/ (a.symbol = b.symbol /\ a.cell < b.cell)
      states       == SortSeq(Spread(counts), before)
  IN  [log        |-> counts.log,
       states     |-> [i \in DOMAIN states |-> TableSize(counts) + states[i].cell],
       transforms |-> [s \in DOMAIN counts.values |-> Transform(counts, s)]]

\* make_run_length_fse_table, make_rle_sequence_table: one symbol, no bits.
OneSymbol == [log |-> 0, states |-> <<>>, transforms |-> <<>>]
OneSymbolDecoding(s) == [log |-> 0, entries |-> <<[symbol |-> s, width |-> 0, next |-> 0]>>]

\* fse_compression_state::initialize.
Started(table, s) ==
  LET transform == table.transforms[s]
      width     == (transform.bits + 2^15) \div 2^16
      value     == width * 2^16 - transform.bits
  IN  IF table.log = 0 THEN 0 ELSE table.states[value \div 2^width + transform.find + 1]

\* encode: the low bits of the state are given off, the rest finds the next.
Width(table, state, s) ==
  IF table.log = 0 THEN 0 ELSE (state + table.transforms[s].bits) \div 2^16
Emitted(table, state, s) == Bits(state, Width(table, state, s))
Encoded(table, state, s) ==
  IF table.log = 0 THEN 0
  ELSE table.states[state \div 2^Width(table, state, s) + table.transforms[s].find + 1]

\* flush: a state is its cell and a bit above the table.
FinalBits(table, state) == Bits(state, table.log)

\* build_fse_table: the k-th cell of a symbol stands for the state `share + k`.
DecodingTable(counts) ==
  LET before(a, b) == a.cell < b.cell
      width(n) == counts.log - (BitWidth(n) - 1)
      entry(s, n) == [symbol |-> s, width |-> width(n), next |-> n * 2^width(n) - TableSize(counts)]
      rank(placed, i) == Cells(counts.values[placed[i].symbol])
                           + Cardinality({j \in 1..(i - 1) : placed[j].symbol = placed[i].symbol})
      entries(placed) ==
        <<>> \o [i \in DOMAIN placed |-> entry(placed[i].symbol, rank(placed, i))]
  IN  [log |-> counts.log, entries |-> entries(SortSeq(Spread(counts), before))]

=============================================================================
