----------------------------- MODULE FrameReader -----------------------------
(***************************************************************************)
(* What zstd_decompress promises, without its buffers, its parser state or *)
(* its calls: the parts of the stream are read in order as soon as they    *)
(* are there, output is their content, and the verdict at the end says     *)
(* whether the stream was whole ("finish() verifies that the final frame   *)
(* was complete and reports truncated input explicitly").                  *)
(***************************************************************************)
EXTENDS FrameFormat

CONSTANT Wires   \* the streams a client may have

VARIABLES
  wire,      \* the stream
  given,     \* how many of its bytes the client has handed over
  read,      \* how many of those have been read
  out,       \* what the client has been given
  verdict    \* "open", "finished", "truncated", "rejected", "interrupted"

vars == <<wire, given, read, out, verdict>>

Init ==
  /\ wire \in Wires
  /\ given = 0 /\ read = 0 /\ out = <<>> /\ verdict = "open"

\* The client hands over more bytes.
Give ==
  /\ verdict = "open"
  /\ given' \in (given + 1)..EncodedLength(wire)
  /\ UNCHANGED <<wire, read, out, verdict>>

\* The part to be read next is there.
IsNext(k) ==
  /\ wire[k].at = read /\ EndOf(wire[k]) <= given
  /\ \A j \in 1..(k - 1) : wire[j].at = read => Sound(wire, j)

Take ==
  /\ verdict = "open"
  /\ \E k \in DOMAIN wire :
       /\ IsNext(k) /\ Sound(wire, k)
       /\ read' = EndOf(wire[k])
       /\ out' = out \o BytesOf(wire[k])
  /\ UNCHANGED <<wire, given, verdict>>

\* The stream is over.  Where reading stopped no longer matters.
End(v) == verdict = "open" /\ verdict' = v /\ read' = 0 /\ UNCHANGED <<wire, given>>

\* What is wrong with a frame may only show when its content has been output.
Reject ==
  /\ End("rejected")
  /\ \E k \in DOMAIN wire :
       IsNext(k) /\ ~Sound(wire, k) /\ out' = out \o BytesOf(wire[k])

Finish ==
  /\ End("finished") /\ UNCHANGED out
  /\ read = given /\ CompleteAt(wire, given)
  /\ \A k \in DOMAIN wire : IsNext(k) => Sound(wire, k)

Truncate ==
  /\ End("truncated") /\ UNCHANGED out
  /\ ~ \E k \in DOMAIN wire : IsNext(k) /\ wire[k].length > 0
  /\ ~CompleteAt(wire, given)

\* The client's callback threw, or its storage was not of the content's size.
Interrupt == End("interrupted") /\ UNCHANGED out

Restart ==
  /\ wire' \in Wires
  /\ given' = 0 /\ read' = 0 /\ out' = <<>> /\ verdict' = "open"

Next == Give \/ Take \/ Reject \/ Finish \/ Truncate \/ Interrupt \/ Restart

Spec == Init /\ [][Next]_vars
=============================================================================
