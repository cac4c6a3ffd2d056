-------------------------- MODULE SettingsWindow --------------------------
(***************************************************************************)
(* The measurement while the host changes the settings.  VT_SET runs in    *)
(* the main loop, in the middle of a window: updateDAC changes the voltage *)
(* the converter compares with and setWKUP restarts the wake-up timer, but *)
(* nothing touches the pulses counted so far, a pulse that waits in Pulse, *)
(* or a wake-up that waits in RTC_Flag.  A setting is its number, and      *)
(* every pulse belongs to the setting it was sent under.                   *)
(***************************************************************************)
EXTENDS PulseCounter

CONSTANT MaxSets   \* bound on the set commands

ASSUME SetsAssumption == MaxSets \in Nat

VARIABLES
  setting,    \* the one in force
  pulseOf,    \* history: the setting of the pulse in Pulse
  windowOf,   \* history: the settings of the pulses in PulseCounter
  countOf,    \* history: the settings of the pulses in PulseCount
  closed      \* history: windows closed since the last VT_SET, at most 2

ownerVars    == <<pulseOf, windowOf, countOf>>
settingsVars == <<vars, setting, ownerVars, closed>>

SettingsInit ==
  /\ Init
  /\ setting = 0 /\ pulseOf = 0 /\ windowOf = {} /\ countOf = {} /\ closed = 2

-----------------------------------------------------------------------------

\* A round of the main loop in which VT_SET is executed.
VT_SET ==
  /\ Work
  /\ setting < MaxSets /\ setting' = setting + 1 /\ closed' = 0
  /\ UNCHANGED ownerVars

Pulsed ==
  /\ TIM3OVF_ISR
  /\ pulseOf' = IF sent' > sent THEN setting ELSE pulseOf
  /\ UNCHANGED <<setting, windowOf, countOf, closed>>

Counting ==
  /\ CountPulse
  /\ windowOf' = windowOf \cup {pulseOf}
  /\ UNCHANGED <<setting, pulseOf, countOf, closed>>

Closing ==
  /\ CloseWindow
  /\ countOf'  = IF pc = "copy" THEN windowOf ELSE countOf
  /\ windowOf' = IF PulseCounter' = 0 THEN {} ELSE windowOf
  /\ closed'   = IF pc = "zero" /\ closed < 2 THEN closed + 1 ELSE closed
  /\ UNCHANGED <<setting, pulseOf>>

SettingsNext ==
  \/ VT_SET \/ Pulsed \/ Counting \/ Closing
  \/ /\ RTC_irq \/ Work \/ TestPulse \/ ClearPulse \/ TestWakeup
     /\ UNCHANGED <<setting, ownerVars, closed>>

SettingsSpec == SettingsInit /\ [][SettingsNext]_settingsVars

-----------------------------------------------------------------------------

\* The first count after VT_SET may hold pulses of both settings.  From the second one
\* on what DATA_READ reports was measured under the settings VT_READ reports, wherever
\* in a window, before or after a wake-up, the command was executed.
SecondCountIsClean == closed = 2 => countOf \subseteq {setting}

-----------------------------------------------------------------------------
(* The inductive invariant: a pulse of an earlier setting is counted in    *)
(* the first round after VT_SET or not at all.                             *)

SettingsInv ==
  /\ closed \in 0 .. 2
  /\ pc \notin {"test", "count", "clear"} /\ Pulse = 1 => pulseOf = setting
  /\ closed > 0 =>
       /\ windowOf \subseteq {setting}
       /\ Pulse = 1 \/ pc = "count" => pulseOf = setting
       /\ pc = "zero" => countOf \subseteq {setting}
  /\ SecondCountIsClean
=============================================================================
