---------------------------- MODULE StreamEncoder ----------------------------
(***************************************************************************)
(* zstd_compress: the calls that fill a frame (update, flush, finish,      *)
(* compress_frame), the buffer of input that no block has taken yet, and   *)
(* the blocks, partitions, header and checksum they send to the callback.  *)
(* One call is one client action followed by its loop's steps; a callback  *)
(* that throws ends the call where it is invoked.                          *)
(*                                                                         *)
(* Abstractions.  Input bytes are numbered 1, 2, ... in a frame, so that a *)
(* lost, doubled or moved byte shows.  Whether a block is sent raw, as RLE *)
(* or compressed, where it is split and partitioned, and whether it saved  *)
(* bytes, are choices.  Updates with no input after the first call, and    *)
(* calls refused by require_writable, change nothing and are left out.     *)
(* encoded_size_ is the length of `wire`.                                  *)
(***************************************************************************)
EXTENDS FrameFormat

CONSTANTS
  BlockSize,     \* block_size
  Splitting,     \* block_size is maximum_block_size: a full block may be cut
  Parameters,    \* template parameters: pledged (pledged_source_size), checked
                 \* (checksum), partitioning (an optimal strategy, window_log >= 17)
  SizeField,     \* content_size: the header tells a pledged size
  Window,        \* 1 << window_log
  MaxSource      \* bound: bytes of a frame's input

ASSUME ConstantsAssumption ==
  /\ BlockSize \in Nat \ {0} /\ Window \in Nat \ {0} /\ MaxSource \in Nat
  /\ Splitting \in BOOLEAN /\ SizeField \in BOOLEAN
  /\ Parameters \subseteq [pledged : Nat \cup {UnknownSize}, checked : BOOLEAN,
                             partitioning : BOOLEAN]

VARIABLES
  parameters,  \* the one of Parameters that the compressor was compiled with
  buffer,      \* the last buffered_size_ bytes of history_
  sourceSize,  \* source_size_
  started,     \* frame_started_
  hashed,      \* checksum_
  saving,      \* compression_savings_ >= 3
  blockCount,  \* block_count_, up to the one the code distinguishes
  status,      \* status_
  wire,        \* what the callback has received since the last reset
  call,        \* "none", "update", "flush", "finish", "frame"
  pending,     \* the call's input that is neither buffered nor emitted
  emitting,    \* an emit_block is due
  block,       \* the block being emitted: bytes left, and its last flag
  outcome,     \* how the last call ended: "done" or what it threw
  submitted    \* history variable: all input of the frame

frameVars == <<sourceSize, started, hashed>>
vars == <<parameters, buffer, frameVars, saving, blockCount, status, wire, call,
          pending, emitting, block, outcome, submitted>>

Pledged      == parameters.pledged
Checked      == parameters.checked
Partitioning == parameters.partitioning

NoBlock == [left |-> -1, last |-> FALSE]

Init ==
  /\ parameters \in Parameters
  /\ buffer = <<>> /\ sourceSize = 0 /\ started = FALSE /\ hashed = Fresh
  /\ saving = FALSE /\ blockCount = 0 /\ status = "ready" /\ wire = <<>>
  /\ call = "none" /\ pending = <<>> /\ emitting = FALSE /\ block = NoBlock
  /\ outcome = "none" /\ submitted = <<>>

----------------------------------------------------------------------------
(* The client's calls.  After an exception it only calls reset().          *)

Writable ==
  /\ call = "none" /\ outcome \in {"none", "done"}
  /\ status \notin {"finished", "failed"}

SingleSegment == SizeField /\ Pledged # UnknownSize /\ Pledged <= Window

FrameHeader ==
  Header(IF SizeField THEN Pledged ELSE UnknownSize,
         IF SingleSegment THEN Pledged ELSE Window, Checked)

\* begin_frame: the first call of a frame sends its header.
SendHeader ==
  /\ started' = TRUE
  /\ wire' = IF started THEN wire ELSE Extended(wire, FrameHeader)

BeginFrame ==
  /\ SendHeader
  /\ status' = IF started THEN status ELSE "active"

\* The next n bytes of the client's input.
NextBytes(n) == [i \in 1..n |-> Len(submitted) + i]

\* What update and compress_frame do with the whole input before any block.
Account(bytes) ==
  /\ submitted' = submitted \o bytes
  /\ hashed' = IF Checked THEN Updated(hashed, bytes) ELSE hashed
  /\ sourceSize' = sourceSize + Len(bytes)

\* A full buffer was held back for finish(), and more input came after all.
HeldBack(bytes) == Len(buffer) = BlockSize /\ bytes # <<>>

Update(bytes) ==
  /\ Writable /\ BeginFrame /\ Account(bytes)
  /\ call' = "update" /\ pending' = bytes
  /\ emitting' = HeldBack(bytes)
  /\ UNCHANGED <<parameters, buffer, saving, blockCount, block, outcome>>

\* Mutant: only a full buffer is flushed.
FlushDueWhenFull == Len(buffer) = BlockSize

FlushDue == buffer # <<>>

Flush ==
  /\ Writable /\ BeginFrame
  /\ call' = "flush" /\ emitting' = FlushDue
  /\ UNCHANGED <<parameters, buffer, sourceSize, hashed, saving, blockCount, pending, block,
                 outcome, submitted>>

\* Mutant: only an input longer than pledged is refused.
PledgeNotExceeded(size) == Pledged = UnknownSize \/ size <= Pledged

\* The pledge is compared with all input when the frame is to be ended.
PledgeKept(size) == Pledged \in {UnknownSize, size}

\* finish() and compress_frame() refuse a broken pledge after the header.
EndingCall(name, size) ==
  IF PledgeKept(size)
  THEN /\ call' = name /\ emitting' = TRUE /\ UNCHANGED outcome
       /\ status' = IF started THEN status ELSE "active"
  ELSE /\ status' = "failed" /\ outcome' = "pledge" /\ UNCHANGED <<call, emitting>>

Finish ==
  /\ Writable /\ SendHeader /\ EndingCall("finish", sourceSize)
  /\ UNCHANGED <<parameters, buffer, sourceSize, hashed, saving, blockCount, pending, block,
                 submitted>>

CompressFrame(bytes) ==
  /\ Writable /\ status = "ready"
  /\ SendHeader /\ Account(bytes) /\ EndingCall("frame", Len(bytes))
  /\ pending' = IF PledgeKept(Len(bytes)) THEN bytes ELSE <<>>
  /\ UNCHANGED <<parameters, buffer, saving, blockCount, block>>

Reset ==
  /\ call = "none" /\ status # "ready"
  /\ buffer' = <<>> /\ sourceSize' = 0 /\ started' = FALSE /\ hashed' = Cleared(hashed)
  /\ saving' = FALSE /\ blockCount' = 0 /\ status' = "ready" /\ wire' = <<>>
  /\ outcome' = "none" /\ submitted' = <<>>
  /\ UNCHANGED <<parameters, call, pending, emitting, block>>

----------------------------------------------------------------------------
(* Filling the buffer.                                                     *)

\* Mutant: any pledge that is used up holds the block back, with input to come.
PledgeUsedUp(rest) == Pledged # UnknownSize /\ sourceSize >= Pledged

\* The block that completes a pledged size is held back: finish() may be the
\* one to mark it as the last.
PledgedFinalBlock(rest) ==
  Pledged # UnknownSize /\ sourceSize = Pledged /\ rest = <<>>

Space == BlockSize - Len(buffer)

TakeInput ==
  LET count == IF Len(pending) < Space THEN Len(pending) ELSE Space
      rest  == SubSeq(pending, count + 1, Len(pending))
  IN  /\ call = "update" /\ ~emitting /\ pending # <<>>
      /\ buffer' = buffer \o SubSeq(pending, 1, count)
      /\ pending' = rest
      /\ emitting' = (count = Space /\ ~PledgedFinalBlock(rest))
      /\ UNCHANGED <<parameters, frameVars, saving, blockCount, status, wire, call, block, outcome,
                     submitted>>

----------------------------------------------------------------------------
(* emit_block.                                                             *)

\* What is still to be emitted: compress_frame never uses the buffer.
Waiting == IF call = "frame" THEN pending ELSE buffer

\* select_block_size: a full block of the largest size may be cut once earlier
\* blocks have saved something.
BlockSizes ==
  LET whole == IF Len(Waiting) < BlockSize THEN Len(Waiting) ELSE BlockSize
  IN  {whole} \cup (IF Splitting /\ saving /\ whole = BlockSize THEN 1..whole ELSE {})

\* Mutant: a block that was cut is marked as the last.
LastIfEnding(size) == call \in {"finish", "frame"}

\* Mutant: the block that completes a pledged size is marked whoever sends it.
LastIfPledged(size) ==
  /\ size = Len(Waiting)
  /\ call \in {"finish", "frame"} \/ sourceSize = Pledged

\* Only the block that takes all there is ends the frame.
IsLast(size) == call \in {"finish", "frame"} /\ size = Len(Waiting)

SelectBlock ==
  /\ emitting /\ block = NoBlock
  /\ \E size \in BlockSizes : block' = [left |-> size, last |-> IsLast(size)]
  /\ UNCHANGED <<parameters, buffer, frameVars, saving, blockCount, status, wire, call, pending,
                 emitting, outcome, submitted>>

\* The payloads a block of these bytes may be sent as: the first block of a
\* frame is never RLE, and a compressed one is shorter than its bytes.
Forms(bytes) ==
  {[type |-> "raw", length |-> Len(bytes)]}
  \cup {f \in {[type |-> "run_length", length |-> 1]} : blockCount > 0 /\ Len(bytes) > 1}
  \cup {f \in {[type |-> "compressed", length |-> 1]} : Len(bytes) > 1}

\* A block's header and payload have been sent.
Send(bytes, last, form) ==
  wire' = Extended(Extended(wire, BlockHeader(form.type, form.length, last)),
                   Payload(form.length, bytes))

Saved(form) == IF form.type = "raw" THEN {saving, FALSE} ELSE BOOLEAN

\* emit_partitions sends a block as several.
PartSizes == {block.left} \cup (IF Partitioning THEN 1..block.left ELSE {})

\* Mutant: all that waits is taken for emitted.
NothingLeft(size) == <<>>

Rest(size) == SubSeq(Waiting, size + 1, Len(Waiting))

\* Another block is due when finish() or compress_frame() has input left.
EmitPart ==
  /\ emitting /\ block # NoBlock
  /\ \E size \in PartSizes :
       LET bytes == SubSeq(Waiting, 1, size)
           done  == size = block.left
       IN  /\ \E form \in Forms(bytes) :
                /\ Send(bytes, block.last /\ done, form)
                /\ saving' \in Saved(form)
           /\ IF call = "frame" THEN pending' = Rest(size) /\ UNCHANGED buffer
                               ELSE buffer' = Rest(size) /\ UNCHANGED pending
           /\ block' = IF done THEN NoBlock ELSE [block EXCEPT !.left = @ - size]
           /\ emitting' = (~done \/ (call \in {"finish", "frame"} /\ Rest(size) # <<>>))
  /\ blockCount' = 1
  /\ UNCHANGED <<parameters, frameVars, status, call, outcome, submitted>>

----------------------------------------------------------------------------
(* How a call ends.                                                        *)

Returns ==
  /\ call \in {"update", "flush"} /\ ~emitting /\ pending = <<>>
  /\ call' = "none" /\ outcome' = "done"
  /\ UNCHANGED <<parameters, buffer, frameVars, saving, blockCount, status, wire, pending, emitting,
                 block, submitted>>

\* The checksum follows the last block.
EndFrame ==
  /\ call \in {"finish", "frame"} /\ ~emitting
  /\ wire' = IF Checked THEN Extended(wire, Checksum(Digest(hashed))) ELSE wire
  /\ status' = "finished"
  /\ call' = "none" /\ outcome' = "done"
  /\ UNCHANGED <<parameters, buffer, frameVars, saving, blockCount, pending, emitting, block,
                 submitted>>

\* The callback throws.  A block's header may already have been sent.
CallbackThrows ==
  /\ \/ call # "none" /\ block # NoBlock
           /\ \/ UNCHANGED wire
              \/ \E f \in Forms(SubSeq(Waiting, 1, block.left)) :
                   wire' = Extended(wire, BlockHeader(f.type, f.length, block.last))
           /\ UNCHANGED <<started, status>>
     \/ call \in {"finish", "frame"} /\ ~emitting /\ Checked
           /\ UNCHANGED <<started, status, wire>>
     \/ Writable /\ ~started
           /\ started' = TRUE /\ status' = "active" /\ UNCHANGED wire
  /\ call' = "none" /\ outcome' = "callback"
  /\ pending' = <<>> /\ emitting' = FALSE /\ block' = NoBlock
  /\ UNCHANGED <<parameters, buffer, sourceSize, hashed, saving, blockCount, submitted>>

----------------------------------------------------------------------------
Client ==
  \/ \E n \in 0..(MaxSource - Len(submitted)) :
       Update(NextBytes(n)) \/ CompressFrame(NextBytes(n))
  \/ Flush \/ Finish \/ Reset

Step == TakeInput \/ SelectBlock \/ EmitPart \/ Returns \/ EndFrame

Next == Client \/ Step \/ CallbackThrows

\* A call runs to its end: it is one thread's own progress.
Fairness == WF_vars(Step)

Spec == Init /\ [][Next]_vars /\ Fairness

----------------------------------------------------------------------------
Content == ContentOf(wire, 1, Len(wire))

\* Through every call, splitting and partition, no byte of the input is lost,
\* repeated or moved between the buffer and the blocks (history_, buffered_size_).
NothingLost ==
  outcome # "callback" /\ status # "failed" => Content \o buffer \o pending = submitted

\* However the input was cut, every byte of it is mixed into the checksum once
\* and in its place, and its length with it (checksum_, update, digest).
EveryByteCounts ==
  Checked => Mixed(Digest(hashed)) = submitted /\ Digest(hashed).size = Len(submitted)

\* A finished stream is one whole frame: a decoder accepts each of its parts,
\* checksum and content size included, and reads the input from it.
FrameIsSound ==
  status = "finished" =>
    /\ CompleteAt(wire, EncodedLength(wire))
    /\ \A k \in DOMAIN wire : Sound(wire, k) /\ (EndsFrame(wire, k) => k = Len(wire))
    /\ Content = submitted

\* Until finish() or compress_frame() has succeeded a decoder that was given all
\* there is reports truncated input: no other call, and no exception, leaves
\* what looks like a whole frame.
UnfinishedIsOpen ==
  call = "none" /\ status # "finished" => ~CompleteAt(wire, EncodedLength(wire))

\* flush() "emits currently buffered input as a non-final block": when it returns
\* in a frame of unknown size, where no full block is held back, the decoder can
\* have every byte of the input.
FlushedWhenUnpledged ==
  [][Pledged = UnknownSize /\ call = "flush" /\ outcome' = "done" /\ call' = "none"
       => Content' = submitted]_vars

\* Every call returns, its loops included.
CallsReturn == (call # "none") ~> (call = "none")
=============================================================================
