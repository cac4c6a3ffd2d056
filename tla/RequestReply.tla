---------------------------- MODULE RequestReply ----------------------------
(***************************************************************************)
(* What the request side of the device promises to a host that waits for   *)
(* its replies: it executes only what the host asked for, at most once for *)
(* each time the host asked, and answers only after it has executed.       *)
(***************************************************************************)
CONSTANTS Requests, Meaning(_)   \* Meaning: the command and its parameters

VARIABLES asked, executed        \* << >> when there is none

Init == asked = << >> /\ executed = << >>

Ask(r) == asked = << >> /\ asked' = r /\ executed' = << >>

Execute ==
  /\ asked # << >> /\ executed = << >>
  /\ executed' = Meaning(asked)
  /\ UNCHANGED asked

Answer == asked # << >> /\ executed # << >> /\ asked' = << >> /\ UNCHANGED executed

\* The request or its reply was lost; the host may ask again.
GiveUp == asked # << >> /\ asked' = << >> /\ UNCHANGED executed

Next == (\E r \in Requests : Ask(r)) \/ Execute \/ Answer \/ GiveUp

Spec == Init /\ [][Next]_<<asked, executed>>
=============================================================================
