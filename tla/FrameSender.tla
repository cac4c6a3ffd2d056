---------------------------- MODULE FrameSender ----------------------------
(***************************************************************************)
(* What the transmitter of the device promises: the frames go out one      *)
(* after the other, each of them complete, unchanged and without a byte    *)
(* in between.                                                             *)
(***************************************************************************)
EXTENDS Naturals, Sequences

CONSTANT Frames

VARIABLES
  frame,   \* the frame on the line
  line     \* the bytes of it that are out

vars == <<frame, line>>

Init == frame = << >> /\ line = << >>

Begin == line = frame /\ frame' \in Frames /\ line' = << >>

SendByte ==
  /\ line # frame
  /\ line' = SubSeq(frame, 1, Len(line) + 1)
  /\ UNCHANGED frame

Next == Begin \/ SendByte

Spec == Init /\ [][Next]_vars
=============================================================================
