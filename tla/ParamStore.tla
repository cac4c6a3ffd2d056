----------------------------- MODULE ParamStore -----------------------------
(***************************************************************************)
(* What the parameter memory of the device promises.  A set command        *)
(* replaces the fields it is about, keeps the others and takes effect at   *)
(* once.  When the power fails while it is under way, neither the voltage  *)
(* nor the measuring time comes back above both its old and its new value; *)
(* the calibration may come back damaged, whatever the command was.        *)
(***************************************************************************)
EXTENDS Naturals

CONSTANT MaxVoltage   \* the highest voltage the output can be set to, in mV

VARIABLES
  stored,    \* [voltage, mtime, cal]
  busy,      \* is a set command under way?
  pending    \* what it is going to store

vars == <<stored, busy, pending>>

Init == ~busy /\ stored.voltage <= MaxVoltage

SetVT ==
  /\ ~busy /\ busy'
  /\ pending'.cal = stored.cal /\ pending'.voltage <= MaxVoltage
  /\ UNCHANGED stored

SetCal ==
  /\ ~busy /\ busy'
  /\ pending'.voltage = stored.voltage /\ pending'.mtime = stored.mtime
  /\ UNCHANGED stored

Commit == busy /\ ~busy' /\ stored' = pending

NotAbove(new, old1, old2) == new <= old1 \/ new <= old2

PowerLoss ==
  /\ busy /\ ~busy'
  /\ NotAbove(stored'.voltage, stored.voltage, pending.voltage)
  /\ NotAbove(stored'.mtime, stored.mtime, pending.mtime)

Next == SetVT \/ SetCal \/ Commit \/ PowerLoss

Spec == Init /\ [][Next]_vars
=============================================================================
