---------------------------- MODULE StreamDecoder ----------------------------
(***************************************************************************)
(* zstd_decompress: the incremental parser over its input buffer, its      *)
(* window of history, and the four calls that drive it (update, finish and *)
(* the two forms of decompress_frame).  One call is one client action      *)
(* followed by parser steps, one for each turn of parse() that makes       *)
(* progress; an exception ends the call where it is thrown.                *)
(*                                                                         *)
(* Abstractions.  What the bytes of a part say is given by the wire (see   *)
(* FrameFormat), so entropy decoding is the step from a payload to its     *)
(* bytes.  Calls with no input, and calls on a finished or failed stream,  *)
(* change nothing and are left out.  The counter decoded_size_ is the      *)
(* length of `delivered`.                                                  *)
(***************************************************************************)
EXTENDS FrameFormat

CONSTANTS
  Wires,         \* the streams a client may have
  CompactAt,     \* maximum_block_size, the consumed prefix pending_ may keep
  DecodedBlock,  \* maximum_decoded_block_size: the window of a frame of none
  Capacities     \* sizes of a client's output storage

\* The parts of a stream, with the values their bytes may give.
StreamParts ==
  [kind : {"skippable", "invalid"}, length : Nat, at : Nat]
  \cup [kind : {"header"}, length : Nat, at : Nat, contentSize : Nat \cup {UnknownSize},
        window : Nat, checksum : BOOLEAN]
  \cup [kind : {"block"}, length : Nat, at : Nat, size : Nat, last : BOOLEAN,
        type : {"raw", "run_length", "compressed"}]
  \cup [kind : {"payload"}, length : Nat, at : Nat, bytes : Seq(Nat)]
  \cup [kind : {"checksum"}, length : Nat, at : Nat,
        of : [stripes : Seq(Seq(Nat)), size : Nat, words : Seq(Seq(Nat))]]

\* The kinds of part that the format has behind part k, and at the beginning (0).
\* Bytes that are none of them are an invalid part, and the last one.
KindsBehind(w, k) ==
  IF k = 0 \/ w[k].kind = "skippable" \/ EndsFrame(w, k)
  THEN {"skippable", "header", "invalid"}
  ELSE CASE w[k].kind = "header"  -> {"block", "invalid"}
         [] w[k].kind = "block"   -> {"payload", "invalid"}
         [] w[k].kind = "payload" -> {IF w[k - 1].last THEN "checksum" ELSE "block", "invalid"}
         [] OTHER                 -> {}

\* Any bytes are such a stream, its last part maybe not given whole.
IsStream(w) ==
  /\ w \in Seq(StreamParts)
  /\ \A k \in DOMAIN w :
       /\ w[k].at = IF k = 1 THEN 0 ELSE EndOf(w[k - 1])
       /\ w[k].length = 0 => w[k].kind = "payload" /\ w[k].bytes = <<>>
       /\ w[k].kind \in KindsBehind(w, k - 1)

ASSUME ConstantsAssumption ==
  /\ \A w \in Wires : IsStream(w)
  /\ CompactAt \in Nat \ {0} /\ DecodedBlock \in Nat \ {0}
  /\ Capacities \subseteq Nat

NotDirect == -1

VARIABLES
  wire,         \* the client's stream, of which pending_ and borrowed_input_
                \* hold parts
  start,        \* pending_ is the bytes from start ...
  received,     \* ... to received
  borrowed,     \* borrowed_input_: none, or the bytes <<from, to>>
  cursor,       \* cursor_
  state,        \* state_
  block,        \* block_type_ and last_block_
  information,  \* information_
  hashed,       \* checksum_
  frameSize,    \* frame_decoded_size_
  history,      \* history_
  capacity,     \* NotDirect, or the capacity of history_'s external storage
  storage,      \* what that storage holds (direct_output_)
  status,       \* status_
  frameCount,   \* frame_count_
  encodedSize,  \* encoded_size_
  delivered,    \* history variable: all bytes of deliver() since the last reset
  call,         \* the call under way: "none", "update", "finish", "frame", "direct"
  outcome       \* how the last call ended: "done" or what it threw

inputVars  == <<wire, start, received, borrowed, cursor>>
frameVars  == <<block, information, hashed, frameSize, history, storage>>
totals     == <<frameCount, encodedSize, delivered>>
vars == <<inputVars, state, frameVars, capacity, status, totals, call, outcome>>

NoBlock       == [type |-> "raw", last |-> FALSE]
NoInformation == [contentSize |-> UnknownSize, window |-> 0, checksum |-> FALSE]

\* A decoder as constructed.
Init ==
  /\ wire \in Wires
  /\ start = 0 /\ received = 0 /\ borrowed = <<>> /\ cursor = 0
  /\ state = "frame_header" /\ block = NoBlock /\ information = NoInformation
  /\ hashed = Fresh /\ frameSize = 0 /\ history = <<>>
  /\ capacity = NotDirect /\ storage = <<>>
  /\ status = "ready" /\ frameCount = 0 /\ encodedSize = 0 /\ delivered = <<>>
  /\ call = "none" /\ outcome = "none"

----------------------------------------------------------------------------
(* Input.  A position is a place in the wire; pending_ and borrowed_input_ *)
(* hold a stretch of it.                                                   *)

Source    == IF borrowed = <<>> THEN <<start, received>> ELSE borrowed
Position  == Source[1] + cursor
Available == Source[2] - Position

\* compact_input drops what was consumed when it is all, or much of, pending_.
CompactInput ==
  IF borrowed # <<>> THEN UNCHANGED <<start, cursor>>
  ELSE IF cursor = received - start \/ cursor >= CompactAt
  THEN start' = start + cursor /\ cursor' = 0
  ELSE UNCHANGED <<start, cursor>>

----------------------------------------------------------------------------
(* The client's calls.  After an exception it only calls reset().          *)

Writable ==
  /\ call = "none" /\ outcome \in {"none", "done"}
  /\ status \notin {"finished", "failed"}

Begin(name) == call' = name /\ status' = "active"

Update(to) ==
  /\ Writable /\ Begin("update")
  /\ received < to
  /\ received' = to
  /\ encodedSize' = encodedSize + (to - received)
  /\ UNCHANGED <<wire, start, borrowed, cursor, state, frameVars, capacity,
                 frameCount, delivered, outcome>>

Finish ==
  /\ Writable
  /\ call' = "finish"
  /\ UNCHANGED <<inputVars, state, frameVars, capacity, status, totals, outcome>>

\* The caller's span starts where a frame starts: where the parser is, with
\* nothing left over from an update before.
Borrow(to) ==
  /\ state = "frame_header" /\ Position < to
  /\ Available = 0
  /\ borrowed' = <<Position, to>>
  /\ encodedSize' = encodedSize + (to - Position)
  /\ cursor' = 0

DecompressFrame(to) ==
  /\ Writable /\ Begin("frame")
  /\ Borrow(to)
  /\ UNCHANGED <<wire, start, received, state, frameVars, capacity, frameCount,
                 delivered, outcome>>

\* set_external(output): the history is laid out in the caller's storage.
DecompressInto(to, size) ==
  /\ Writable /\ Begin("direct")
  /\ Borrow(to)
  /\ capacity' = size
  /\ history' = <<>> /\ storage' = <<>>
  /\ UNCHANGED <<wire, start, received, state, block, information, hashed, frameSize,
                 frameCount, delivered, outcome>>

\* The wire is the client's: after a reset it may turn to another.
Reset ==
  /\ call = "none" /\ status # "ready"
  /\ wire' \in Wires
  /\ start' = 0 /\ received' = 0 /\ borrowed' = <<>> /\ cursor' = 0
  /\ state' = "frame_header" /\ block' = [block EXCEPT !.last = FALSE]
  /\ information' = NoInformation
  /\ hashed' = Cleared(hashed) /\ frameSize' = 0 /\ history' = <<>>
  /\ capacity' = NotDirect /\ storage' = <<>>
  /\ status' = "ready" /\ frameCount' = 0 /\ encodedSize' = 0 /\ delivered' = <<>>
  /\ outcome' = "none" /\ UNCHANGED call

----------------------------------------------------------------------------
(* How a call ends.                                                        *)

\* Mutant: an exception leaves the caller's storage in use.
UnwindKeepingStorage(result, consumed, bytes) ==
  /\ call' = "none" /\ outcome' = result
  /\ cursor' = consumed /\ history' = bytes /\ UNCHANGED <<borrowed, capacity>>

\* The two-argument decompress_frame gives the storage back whatever happened;
\* every other call leaves its buffers as they are.
Unwind(result, consumed, bytes) ==
  /\ call' = "none" /\ outcome' = result
  /\ IF capacity # NotDirect
     THEN borrowed' = <<>> /\ cursor' = 0 /\ history' = <<>> /\ capacity' = NotDirect
     ELSE cursor' = consumed /\ history' = bytes /\ UNCHANGED <<borrowed, capacity>>

\* fail(): the stream is in its failed state until reset().
Fail(result, consumed, bytes) ==
  status' = "failed" /\ Unwind(result, consumed, bytes)

Continue(consumed, bytes) ==
  /\ cursor' = consumed /\ history' = bytes
  /\ UNCHANGED <<borrowed, capacity, status, call, outcome>>

----------------------------------------------------------------------------
(* The parser's steps.                                                     *)

KindRead == [frame_header   |-> {"skippable", "header"},
             block_header   |-> {"block"},
             block_payload  |-> {"payload"},
             frame_checksum |-> {"checksum"}]

\* Part k is what the parser looks at, and all of it is there.  A payload of no
\* bytes is read before what is wrong behind it.
Reads(k) ==
  /\ call # "none"
  /\ wire[k].at = Position /\ wire[k].length <= Available
  /\ \/ wire[k].kind \in KindRead[state]
     \/ wire[k].kind = "invalid"
          /\ \A i \in 1..(k - 1) : wire[i].at = Position => wire[i].kind \notin KindRead[state]

Consumed(k) == cursor + wire[k].length

\* Mutant: a skippable frame is recognised and not skipped.
SkipNothing(k) ==
  /\ Reads(k) /\ wire[k].kind = "skippable"
  /\ UNCHANGED vars

\* A skippable frame changes nothing but the cursor.
ParseSkippable(k) ==
  /\ Reads(k) /\ wire[k].kind = "skippable"
  /\ cursor' = Consumed(k)
  /\ UNCHANGED <<wire, start, received, borrowed, state, frameVars, capacity, status,
                 totals, call, outcome>>

ParseFrameHeader(k) ==
  /\ Reads(k) /\ wire[k].kind = "header"
  /\ state' = "block_header"
  /\ information' = [contentSize |-> wire[k].contentSize, window |-> wire[k].window,
                     checksum |-> wire[k].checksum]
  /\ hashed' = Cleared(hashed) /\ frameSize' = 0
  /\ Continue(Consumed(k), <<>>)
  /\ UNCHANGED <<wire, start, received, block, storage, totals>>

ParseBlockHeader(k) ==
  /\ Reads(k) /\ wire[k].kind = "block"
  /\ state' = "block_payload"
  /\ block' = [type |-> wire[k].type, last |-> wire[k].last]
  /\ Continue(Consumed(k), history)
  /\ UNCHANGED <<wire, start, received, information, hashed, frameSize, storage, totals>>

\* Mutant: the content size is not compared.
CompleteAnySize(size, consumed, bytes) ==
  /\ state' = "frame_header" /\ frameCount' = frameCount + 1
  /\ Continue(consumed, bytes)

\* complete_frame: the frame is counted unless its content size was not true.
CompleteFrame(size, consumed, bytes) ==
  IF information.contentSize \in {UnknownSize, size}
  THEN /\ state' = "frame_header"
       /\ frameCount' = frameCount + 1
       /\ Continue(consumed, bytes)
  ELSE Fail("invalid", consumed, bytes) /\ UNCHANGED <<state, frameCount>>

HistoryLimit == IF information.window = 0 THEN DecodedBlock ELSE information.window

LastOf(n, bytes) == SubSeq(bytes, Len(bytes) - n + 1, Len(bytes))

\* Mutant: what is kept is the oldest part of the history.
KeepOldest(bytes) ==
  IF capacity # NotDirect \/ Len(bytes) <= HistoryLimit THEN bytes
  ELSE SubSeq(bytes, 1, HistoryLimit)

\* trim_history: nothing is dropped from the caller's storage.
Trimmed(bytes) ==
  IF capacity # NotDirect \/ Len(bytes) <= HistoryLimit THEN bytes
  ELSE LastOf(HistoryLimit, bytes)

Fits(bytes) == capacity = NotDirect \/ Len(history) + Len(bytes) <= capacity

\* Mutant: every block is written at the beginning of the storage.
StoredFromStart(bytes) ==
  IF capacity = NotDirect THEN storage
  ELSE bytes \o SubSeq(storage, Len(bytes) + 1, Len(storage))

\* External storage after bytes were appended to the history.
Stored(bytes) ==
  IF capacity = NotDirect THEN storage
  ELSE history \o bytes \o SubSeq(storage, Len(history \o bytes) + 1, Len(storage))

\* emit_input, emit_run and decode_compressed_block: the block's bytes are
\* appended to the history, delivered and trimmed, then the input is consumed.
ParseBlockPayload(k) ==
  LET bytes == wire[k].bytes
      kept  == Trimmed(history \o bytes)
      size  == frameSize + Len(bytes)
  IN  /\ Reads(k) /\ wire[k].kind = "payload" /\ Fits(bytes)
      /\ storage' = Stored(bytes)
      /\ delivered' = delivered \o bytes
      /\ hashed' = IF information.checksum THEN Updated(hashed, bytes) ELSE hashed
      /\ frameSize' = size
      /\ IF block.last /\ ~information.checksum
         THEN CompleteFrame(size, Consumed(k), kept)
         ELSE /\ state' = IF block.last THEN "frame_checksum" ELSE "block_header"
              /\ Continue(Consumed(k), kept)
              /\ UNCHANGED frameCount
      /\ UNCHANGED <<wire, start, received, block, information, encodedSize>>

\* The callback throws out of deliver(): the bytes are in the history, the
\* input is not consumed and the counters have not moved.
CallbackThrows(k) ==
  /\ Reads(k) /\ wire[k].kind = "payload"
  /\ wire[k].bytes # <<>> /\ capacity = NotDirect
  /\ Unwind("callback", cursor, history \o wire[k].bytes)
  /\ UNCHANGED <<wire, start, received, state, block, information, hashed, frameSize,
                 storage, status, totals>>

\* The storage is too small.  A compressed block with sequences reports it as an
\* invalid frame; one without, whose literals are appended whole, and any other
\* block throw length_error, which leaves the stream active.  The wire does not
\* tell whether a compressed block has sequences.
StorageFull(k) ==
  /\ Reads(k) /\ wire[k].kind = "payload" /\ ~Fits(wire[k].bytes)
  /\ Unwind("storage", cursor, history)
  /\ status' \in {status} \cup (IF block.type = "compressed" THEN {"failed"} ELSE {})
  /\ UNCHANGED <<wire, start, received, state, block, information, hashed, frameSize,
                 storage, totals>>

ParseFrameChecksum(k) ==
  /\ Reads(k) /\ wire[k].kind = "checksum"
  /\ IF wire[k].of = Digest(hashed)
     THEN CompleteFrame(frameSize, Consumed(k), history)
     ELSE Fail("invalid", cursor, history) /\ UNCHANGED <<state, frameCount>>
  /\ UNCHANGED <<wire, start, received, block, information, hashed, frameSize, storage,
                 encodedSize, delivered>>

\* Bytes that no part of a frame may have: each parse function's fail().
ParseInvalid(k) ==
  /\ Reads(k) /\ wire[k].kind = "invalid"
  /\ Fail("invalid", cursor, history)
  /\ UNCHANGED <<wire, start, received, state, block, information, hashed, frameSize,
                 storage, totals>>

Parse ==
  \E k \in DOMAIN wire :
    \/ ParseSkippable(k) \/ ParseFrameHeader(k) \/ ParseBlockHeader(k)
    \/ ParseBlockPayload(k) \/ CallbackThrows(k) \/ StorageFull(k)
    \/ ParseFrameChecksum(k) \/ ParseInvalid(k)

----------------------------------------------------------------------------
(* parse() returned: the rest of each call.                                *)

Starved == \A k \in DOMAIN wire : ~Reads(k)

UpdateReturns ==
  /\ call = "update" /\ Starved
  /\ CompactInput
  /\ call' = "none" /\ outcome' = "done"
  /\ UNCHANGED <<wire, received, borrowed, state, frameVars, capacity, status, totals>>

\* Mutant: bytes left over after the last frame are not noticed.
CompleteIgnoringRest == state = "frame_header" /\ frameCount # 0

\* finish()'s test.
Complete == state = "frame_header" /\ Available = 0 /\ frameCount # 0

FinishReturns ==
  /\ call = "finish" /\ Starved
  /\ CompactInput
  /\ call' = "none"
  /\ status' = IF Complete THEN "finished" ELSE "failed"
  /\ outcome' = IF Complete THEN "done" ELSE "truncated"
  /\ UNCHANGED <<wire, received, borrowed, state, frameVars, capacity, totals>>

\* The borrowed span is given up only when the frame was complete.
FrameReturns ==
  /\ call = "frame" /\ Starved
  /\ IF Complete
     THEN /\ status' = "finished" /\ outcome' = "done" /\ call' = "none"
          /\ borrowed' = <<>> /\ cursor' = 0
          /\ UNCHANGED <<history, capacity>>
     ELSE Fail("truncated", cursor, history)
  /\ UNCHANGED <<wire, start, received, state, block, information, hashed, frameSize,
                 storage, totals>>

\* Only after finish() has succeeded is the size of the storage looked at.
DirectReturns ==
  /\ call = "direct" /\ Starved
  /\ IF Complete
     THEN /\ status' = "finished"
          /\ Unwind(IF Len(delivered) = capacity THEN "done" ELSE "size", 0, <<>>)
     ELSE Fail("truncated", 0, <<>>)
  /\ UNCHANGED <<wire, start, received, state, block, information, hashed, frameSize,
                 storage, totals>>

Returns == UpdateReturns \/ FinishReturns \/ FrameReturns \/ DirectReturns

----------------------------------------------------------------------------
Client ==
  \/ \E to \in 1..EncodedLength(wire) :
       \/ Update(to) \/ DecompressFrame(to)
       \/ \E size \in Capacities : DecompressInto(to, size)
  \/ Finish
  \/ Reset

Next == Client \/ Parse \/ Returns

\* A call runs to its end: it is one thread's own progress.
Fairness == WF_vars(Parse \/ Returns)

Spec == Init /\ [][Next]_vars /\ Fairness

----------------------------------------------------------------------------
\* Whatever the blocks and the pauses between calls, the history a match may
\* refer to is exactly the end of the frame's content, a window long ("Match
\* copies may refer to earlier blocks, but retained history is always bounded
\* by the frame window"), or all of it in the caller's storage.
WindowRetained ==
  outcome \in {"none", "done"} =>
    LET n == IF capacity # NotDirect \/ frameSize < HistoryLimit
             THEN frameSize ELSE HistoryLimit
    IN  \/ history = LastOf(n, delivered)
        \/ history = <<>> /\ status = "finished"
        \/ history = <<>> /\ call = "direct" /\ state = "frame_header"

\* When decompress_frame into storage returns after a single frame, the storage
\* holds the frame's content, and however a call ends, the decoder has given the
\* client's memory back (byte_buffer::set_external, deliver, clear_external).
StorageHoldsFrame ==
  /\ status = "finished" /\ outcome = "done" /\ frameCount = 1 /\ storage # <<>> =>
       storage = delivered
  /\ call = "none" => capacity = NotDirect

\* finish() "verifies that the final frame was complete and reports truncated
\* input explicitly": no byte handed over is left unread in a finished stream.
FinishedHasReadAll ==
  status = "finished" => start + cursor = received

\* Every call returns: each turn of parse() consumes input or changes state.
CallsReturn == (call # "none") ~> (call = "none")

----------------------------------------------------------------------------
(* The decoder implements FrameReader.                                     *)

Verdict ==
  IF outcome = "done" \/ outcome = "none"
  THEN IF status = "finished" THEN "finished" ELSE "open"
  ELSE IF outcome = "truncated" THEN "truncated"
  ELSE IF outcome = "invalid" THEN "rejected"
  ELSE "interrupted"

Reader == INSTANCE FrameReader WITH
  given   <- encodedSize,
  read    <- IF Verdict = "open" THEN Position ELSE 0,
  out     <- delivered,
  verdict <- Verdict

\* What the calls deliver, and how they end, is what FrameReader allows: the
\* content of the parts in order, finished exactly when the stream is whole.
ReadsTheStream == Reader!Spec
=============================================================================
