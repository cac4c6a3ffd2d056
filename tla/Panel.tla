------------------------------- MODULE Panel -------------------------------
(***************************************************************************)
(* The display beside the parameters: when main and the set commands       *)
(* rewrite its rows, and when the main loop shows the count of a window.   *)
(* The settings of module Eeprom are what VT_READ reports, PulseCount is   *)
(* what DATA_READ reports.                                                 *)
(***************************************************************************)
EXTENDS Eeprom, Lcd

CONSTANT Counts   \* the counts a window may end with

\* PulseCount is an unsigned long, of 32 bits.
ASSUME CountAssumption == \A n \in Counts : n \in Nat /\ n \div 65536 < 65536

VARIABLES
  lcd,            \* the four rows
  PulseCount

panelVars == <<vars, lcd, PulseCount>>

PanelInit == Init /\ lcd = [r \in 1 .. 4 |-> BlankRow] /\ PulseCount = 0

\* updateDAC shows the voltage it has set
ShownVoltage(v) == Limit(v)

\* The start of main: cls and the four rows.
PanelBoot ==
  /\ Boot
  /\ PulseCount' = 0
  /\ lcd' = <<updVolt(BlankRow, Voltage'), updTime(BlankRow, Mtime'),
              updCnt(BlankRow, 0), updCurr(BlankRow, 0)>>

\* Mutant: the period on the display is left to the next restart.
PanelApply_keepsTime ==
  /\ Apply
  /\ lcd' = IF cmd = "VT_SET" THEN [lcd EXCEPT ![1] = updVolt(@, ShownVoltage(Voltage'))]
            ELSE lcd
  /\ UNCHANGED PulseCount

\* VT_SET shows what it has stored, CAL_SET shows nothing.
PanelApply ==
  /\ Apply
  /\ lcd' = IF cmd = "VT_SET"
              THEN [lcd EXCEPT ![1] = updVolt(@, ShownVoltage(Voltage')),
                               ![2] = updTime(@, Mtime')]
              ELSE lcd
  /\ UNCHANGED PulseCount

\* The main loop at the end of a window.
ShowCount(n) ==
  /\ pc = "run"
  /\ PulseCount' = n /\ lcd' = [lcd EXCEPT ![3] = updCnt(@, n)]
  /\ UNCHANGED vars

\* What does not touch the display.  Its controller keeps its rows until main clears them.
Unseen ==
  \/ EraseByte \/ WriteByte \/ PowerFails
  \/ \E v \in Voltages, t \in Times : VT_SET(v, t)
  \/ \E c \in Cals : CAL_SET(c)

PanelNext ==
  \/ PanelBoot \/ PanelApply
  \/ \E n \in Counts : ShowCount(n)
  \/ Unseen /\ UNCHANGED <<lcd, PulseCount>>

PanelSpec == PanelInit /\ [][PanelNext]_panelVars

-----------------------------------------------------------------------------
(* Properties.                                                             *)

\* Whenever the device can answer VT_READ the display shows the same settings, with
\* nothing left of an earlier, longer text.  A period of 32768 s or more is not shown as
\* a number at all: it starts with a minus sign.
ShowsSettings ==
  pc = "run" =>
    /\ Shows(lcd[1], 6, Voltage, 2)
    /\ IF Mtime < 32768 THEN Shows(lcd[2], 4, Mtime, 2) ELSE lcd[2][5] = Minus

\* Whenever the device can answer DATA_READ the display shows the same count; of a
\* count with more than seven digits it shows the first seven, as if that were all.
ShowsCount ==
  pc = "run" =>
    \E cut \in {1, 10, 100, 1000} :
      /\ Shows(lcd[3], 5, PulseCount \div cut, 0)
      /\ cut > 1 => PulseCount \div cut >= 1000000

\* From the end of main's start until the power fails the rows show what is in RAM, as
\* if they had just been written on a clear display: what earlier texts, set commands
\* and windows left there makes no difference.
RowsCurrent ==
  pc # "boot" =>
    /\ lcd[1] = updVolt(BlankRow, Voltage) /\ lcd[2] = updTime(BlankRow, Mtime)
    /\ lcd[3] = updCnt(BlankRow, PulseCount)
=============================================================================
