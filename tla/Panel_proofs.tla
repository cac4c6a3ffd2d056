---------------------------- MODULE Panel_proofs ----------------------------
(***************************************************************************)
(* The display follows the parameters and the count, for every voltage,    *)
(* time, calibration and count and wherever the power fails.               *)
(***************************************************************************)
EXTENDS Panel, Eeprom_proofs, Data_proofs

\* The display adds nothing to what the parameters do and takes nothing away.
LEMMA PanelStep == [PanelNext]_panelVars => [Next]_vars
BY DEF PanelNext, panelVars, PanelBoot, PanelApply, ShowCount, Unseen, Next

\* Beside the display the parameters behave as module Eeprom specifies: what is proved of
\* ee_pgm, readparameters and updateDAC there holds here.
THEOREM PanelImplementsEeprom == PanelSpec => Spec
<1>1. PanelInit => Init
  BY DEF PanelInit
<1> QED BY <1>1, PanelStep, PTL DEF PanelSpec, Spec

\* A row that is written is blanked before, so it depends on the text alone.
LEMMA UpdateForgets ==
  ASSUME NEW row, NEW text
  PROVE  Update(row, text) = Update(BlankRow, text)
<1>1. BlankRow \in Seq({Blank}) /\ Len(BlankRow) = 12 /\ \A i \in 1 .. 12 : BlankRow[i] = Blank
  BY DEF BlankRow, Columns
<1>2. lcdprintstr(row, BlankRow) = lcdprintstr(BlankRow, BlankRow)
  BY <1>1 DEF lcdprintstr, Columns
<1> QED BY <1>2 DEF Update

LEMMA RowsForget ==
  ASSUME NEW row, NEW n
  PROVE  /\ updVolt(row, n) = updVolt(BlankRow, n)
         /\ updTime(row, n) = updTime(BlankRow, n)
         /\ updCnt(row, n) = updCnt(BlankRow, n)
BY UpdateForgets DEF updVolt, updTime, updCnt

CountInRange == PulseCount \in Nat /\ PulseCount \div 65536 < 65536
PanelInv == DOMAIN lcd = 1 .. 4 /\ RowsCurrent /\ CountInRange

\* What updateDAC shows is what VT_READ reports: the voltage it may cut never is.
LEMMA ShownIsStored ==
  ASSUME EepromInv
  PROVE  ShownVoltage(VoltOf(PARAMS)) = VoltOf(PARAMS)
<1>1. VoltOf(PARAMS) \in Nat /\ VoltOf(PARAMS) <= MaxVoltage
  BY FieldTypes, NaturalBytes DEF EepromInv, TypeOK, InRange
<1>2. Code(VoltOf(PARAMS)) <= 4095 /\ Code(VoltOf(PARAMS)) \in Nat
  BY <1>1, NoCut DEF Code, VREF
<1> QED BY <1>2 DEF ShownVoltage, Limit

\* CAL_SET, which does not write the display, reads back the voltage and the period it
\* found.
LEMMA CalSetKeepsVT ==
  ASSUME EepromInv, Apply, cmd = "CAL_SET"
  PROVE  Voltage' = Voltage /\ Mtime' = Mtime
<1>1. PARAMS = EEbuffer /\ \A i \in Cell \ Touched(cmd) : EEbuffer[i] = before[i]
  BY DEF Apply, EepromInv, Progress
<1>2. {0, 1, 2, 3} \subseteq Cell \ Touched(cmd)
  BY LowCells DEF Touched
<1>3. VoltOf(PARAMS) = VoltOf(before) /\ TimeOf(PARAMS) = TimeOf(before)
  BY <1>1, <1>2 DEF VoltOf, TimeOf
<1> QED BY <1>3 DEF Apply, readparameters, EepromInv, Applied, AppliedFrom

LEMMA PanelInvStep ==
  ASSUME EepromInv, PanelInv, [PanelNext]_panelVars
  PROVE  PanelInv'
<1> USE DEF PanelInv
<1>1. CASE PanelBoot
  BY <1>1 DEF PanelBoot, Boot, RowsCurrent, CountInRange
<1>2. CASE PanelApply
  <2>1. Voltage' = VoltOf(PARAMS) /\ Mtime' = TimeOf(PARAMS) /\ PulseCount' = PulseCount
        /\ cmd \in {"VT_SET", "CAL_SET"} /\ pc # "boot"
    BY <1>2 DEF PanelApply, Apply, readparameters
  <2>2. CASE cmd = "VT_SET"
    <3>1. lcd' = [lcd EXCEPT ![1] = updVolt(lcd[1], ShownVoltage(Voltage')),
                             ![2] = updTime(lcd[2], Mtime')]
      BY <1>2, <2>2 DEF PanelApply
    <3>2. /\ DOMAIN lcd' = 1 .. 4 /\ lcd'[3] = lcd[3]
          /\ lcd'[1] = updVolt(lcd[1], ShownVoltage(Voltage')) /\ lcd'[2] = updTime(lcd[2], Mtime')
      BY <3>1
    <3>3. ShownVoltage(Voltage') = Voltage'
      BY <2>1, ShownIsStored
    <3> QED BY <2>1, <3>2, <3>3, RowsForget DEF RowsCurrent, CountInRange
  <2>3. CASE cmd = "CAL_SET"
    <3>1. Voltage' = Voltage /\ Mtime' = Mtime /\ lcd' = lcd
      BY <1>2, <2>3, CalSetKeepsVT DEF PanelApply
    <3> QED BY <2>1, <3>1 DEF RowsCurrent, CountInRange
  <2> QED BY <2>1, <2>2, <2>3
<1>3. ASSUME NEW n \in Counts, ShowCount(n) PROVE PanelInv'
  <2>1. /\ DOMAIN lcd' = 1 .. 4 /\ lcd'[1] = lcd[1] /\ lcd'[2] = lcd[2]
        /\ lcd'[3] = updCnt(lcd[3], n) /\ PulseCount' = n
        /\ UNCHANGED <<pc, Voltage, Mtime>> /\ pc # "boot"
    BY <1>3 DEF ShowCount, vars, ram
  <2> QED BY <2>1, RowsForget, CountAssumption DEF RowsCurrent, CountInRange
<1>4. CASE Unseen /\ UNCHANGED <<lcd, PulseCount>>
  <2>1. pc' = "boot" \/ (UNCHANGED <<Voltage, Mtime>> /\ pc # "boot")
    BY <1>4 DEF Unseen, EraseByte, WriteByte, PowerFails, VT_SET, CAL_SET, BeginSet, ram
  <2> QED BY <1>4, <2>1 DEF RowsCurrent, CountInRange
<1>5. CASE UNCHANGED panelVars
  BY <1>5 DEF panelVars, vars, ram, RowsCurrent, CountInRange
<1> QED BY <1>1, <1>2, <1>3, <1>4, <1>5 DEF PanelNext

LEMMA PanelInvInit == PanelInit => PanelInv
BY DEF PanelInit, Init, PanelInv, RowsCurrent, CountInRange

\* The inductive invariants of the parameters and of the display hold of every behaviour:
\* no set command, window or power failure leaves a row over values of before.
THEOREM PanelInvariant == PanelSpec => [](EepromInv /\ PanelInv)
<1>1. PanelInit => PanelInv
  BY PanelInvInit
<1>2. EepromInv /\ PanelInv /\ [PanelNext]_panelVars => PanelInv'
  BY PanelInvStep
<1> QED BY <1>1, <1>2, PanelImplementsEeprom, EepromInvariant, PTL DEF PanelSpec

\* The display never shows settings or a count that are not the ones in RAM.
THEOREM RowsAlwaysCurrent == PanelSpec => []RowsCurrent
<1>1. PanelInv => RowsCurrent
  BY DEF PanelInv
<1> QED BY <1>1, PanelInvariant, PTL

-----------------------------------------------------------------------------
(* What a reader of the rows sees.                                         *)

LEMMA VoltShown ==
  ASSUME NEW row, NEW v \in Nat, Len(dwtoa[v]) <= 4, itoa(v) = dwtoa[v]
  PROVE  Shows(updVolt(row, v), 6, v, 2)
<1>1. Len(dwtoa[v]) \in Nat
  BY DwtoaShape
<1>2. PICK label \in Nat, unit \in Nat : label = 6 /\ unit = 2
  OBVIOUS
<1>3. label + Len(dwtoa[v]) + unit <= Columns
  BY <1>1, <1>2 DEF Columns
<1>4. Shows(Update(row, Text(label, dwtoa[v], unit)), label, v, unit)
  BY <1>3, NumberShown
<1> QED BY <1>2, <1>4 DEF updVolt

LEMMA TimeShown ==
  ASSUME NEW row, NEW t \in Nat, Len(dwtoa[t]) <= 5, itoa(t) = dwtoa[t]
  PROVE  Shows(updTime(row, t), 4, t, 2)
<1>1. Len(dwtoa[t]) \in Nat
  BY DwtoaShape
<1>2. PICK label \in Nat, unit \in Nat : label = 4 /\ unit = 2
  OBVIOUS
<1>3. label + Len(dwtoa[t]) + unit <= Columns
  BY <1>1, <1>2 DEF Columns
<1>4. Shows(Update(row, Text(label, dwtoa[t], unit)), label, t, unit)
  BY <1>3, NumberShown
<1> QED BY <1>2, <1>4 DEF updTime

LEMMA SignShown ==
  ASSUME NEW row, NEW t, itoa(t) \in Seq(Nat), Len(itoa(t)) >= 1, itoa(t)[1] = Minus
  PROVE  updTime(row, t)[5] = Minus
<1> DEFINE s == itoa(t)
<1>1. s \in Seq(Nat) /\ Len(s) >= 1 /\ s[1] = Minus
  OBVIOUS
<1> HIDE DEF s
<1>2. PICK label \in Nat, unit \in Nat : label = 4 /\ unit = 2
  OBVIOUS
<1> DEFINE x == Text(label, s, unit)
<1> HIDE DEF x
<1>3. /\ Len(x) = label + Len(s) + unit
      /\ \A i \in 1 .. label : x[i] = LABEL
      /\ \A i \in 1 .. Len(s) : x[label + i] = s[i]
      /\ \A i \in label + Len(s) + 1 .. label + Len(s) + unit : x[i] = UNIT
  BY ZenonT(40), <1>1, TextAt DEF x
<1>4. Len(x) \in Nat /\ Len(x) >= 5 /\ x[5] = Minus
  <2>1. Len(s) \in Nat /\ 1 \in 1 .. Len(s)
    BY <1>1, LenProperties
  <2>2. x[label + 1] = Minus
    BY <1>1, <1>3, <2>1
  <2> QED BY <1>2, <1>3, <2>1, <2>2
<1>5. Update(row, x)[5] = Minus
  <2>1. \A i \in 1 .. Columns : Update(row, x)[i] = IF i <= Len(x) THEN x[i] ELSE Blank
    BY <1>4, UpdateAt
  <2>2. 5 \in 1 .. Columns
    BY DEF Columns
  <2> QED BY <1>4, <2>1, <2>2
<1> QED BY <1>2, <1>5 DEF updTime, x, s

\* Whenever the device can answer VT_READ the display shows the same settings, with
\* nothing left of an earlier, longer text.
THEOREM SettingsShown == PanelSpec => []ShowsSettings
<1>1. EepromInv /\ PanelInv => ShowsSettings
  <2> SUFFICES ASSUME EepromInv, PanelInv, pc = "run"
               PROVE  /\ Shows(lcd[1], 6, Voltage, 2)
                      /\ IF Mtime < 32768 THEN Shows(lcd[2], 4, Mtime, 2) ELSE lcd[2][5] = Minus
    BY DEF ShowsSettings
  <2>1. lcd[1] = updVolt(BlankRow, Voltage) /\ lcd[2] = updTime(BlankRow, Mtime)
    BY DEF PanelInv, RowsCurrent
  <2>2. Voltage \in Nat /\ Voltage <= MaxVoltage
    BY NaturalBytes DEF EepromInv, TypeOK, InRange, Applied, AppliedFrom
  <2>3. Len(dwtoa[Voltage]) <= 4 /\ itoa(Voltage) = dwtoa[Voltage]
    <3>1. Voltage < 10000
      BY <2>2 DEF MaxVoltage, VREF
    <3> QED BY <2>2, <3>1, DwtoaLength DEF itoa
  <2>4. Mtime \in Nat /\ Mtime < 65536
    BY DEF EepromInv, TypeOK, WORD
  <2>5. Shows(lcd[1], 6, Voltage, 2)
    BY <2>1, <2>2, <2>3, VoltShown
  <2>6. ASSUME Mtime < 32768 PROVE Shows(lcd[2], 4, Mtime, 2)
    <3>1. Len(dwtoa[Mtime]) <= 5 /\ itoa(Mtime) = dwtoa[Mtime] /\ Mtime \in Nat
      BY <2>4, <2>6, DwtoaLength DEF itoa
    <3> QED BY <2>1, <3>1, TimeShown
  <2>7. ASSUME Mtime >= 32768 PROVE lcd[2][5] = Minus
    <3>1. itoa(Mtime) \in Seq(Nat) /\ Len(itoa(Mtime)) >= 1 /\ itoa(Mtime)[1] = Minus
      BY <2>4, <2>7, ItoaSign
    <3> QED BY <2>1, <3>1, SignShown
  <2> QED BY <2>4, <2>5, <2>6, <2>7
<1> QED BY <1>1, PanelInvariant, PTL

LEMMA CountShown ==
  ASSUME NEW row, NEW n \in Nat, Len(dwtoa[n]) <= 7
  PROVE  Shows(updCnt(row, n), 5, n, 0)
<1>1. Len(dwtoa[n]) \in Nat
  BY DwtoaShape
<1>2. PICK label \in Nat, unit \in Nat : label = 5 /\ unit = 0
  OBVIOUS
<1>3. label + Len(dwtoa[n]) + unit <= Columns
  BY <1>1, <1>2 DEF Columns
<1>4. Shows(Update(row, Text(label, dwtoa[n], unit)), label, n, unit)
  BY <1>3, NumberShown
<1> QED BY <1>2, <1>4 DEF updCnt

LEMMA CountStartShown ==
  ASSUME NEW row, NEW n \in Nat, NEW c \in Nat, Len(dwtoa[c]) = 7, Starts(c, n)
  PROVE  Shows(updCnt(row, n), 5, c, 0)
<1>1. PICK label \in Nat : label = 5
  OBVIOUS
<1>2. label + Len(dwtoa[c]) = Columns
  BY <1>1 DEF Columns
<1>3. /\ Len(dwtoa[c]) <= Len(dwtoa[n])
      /\ \A i \in 1 .. Len(dwtoa[c]) : dwtoa[n][i] = dwtoa[c][i]
  BY DEF Starts
<1>4. Shows(Update(row, Text(label, dwtoa[n], 0)), label, c, 0)
  BY <1>2, <1>3, StartShown
<1> QED BY <1>1, <1>4 DEF updCnt

\* A count between a million and ten million has seven digits.
LEMMA Squeezed ==
  ASSUME NEW k \in Nat, k <= 7, k >= 7
  PROVE  k = 7
OBVIOUS

LEMMA LengthSeven ==
  ASSUME NEW c \in Nat, c >= 1000000, c < 10000000
  PROVE  Len(dwtoa[c]) = 7
<1>1. Len(dwtoa[c]) <= 7 /\ Len(dwtoa[c]) >= 7
  BY DwtoaLength
<1>2. Len(dwtoa[c]) \in Nat
  BY DwtoaShape
<1>3. PICK k \in Nat : k = Len(dwtoa[c])
  BY <1>2
<1>4. k <= 7 /\ k >= 7
  BY <1>1, <1>3
<1>5. k = 7
  BY <1>4, Squeezed
<1> QED BY <1>3, <1>5

\* Whenever the device can answer DATA_READ the display shows the same count; of a count
\* with more than seven digits it shows the first seven.
THEOREM CountAlwaysShown == PanelSpec => []ShowsCount
<1>1. EepromInv /\ PanelInv => ShowsCount
  <2> SUFFICES ASSUME PanelInv, pc = "run"
               PROVE  \E cut \in {1, 10, 100, 1000} :
                        /\ Shows(lcd[3], 5, PulseCount \div cut, 0)
                        /\ cut > 1 => PulseCount \div cut >= 1000000
    BY DEF ShowsCount
  <2>1. lcd[3] = updCnt(BlankRow, PulseCount)
    BY DEF PanelInv, RowsCurrent
  <2>2. PulseCount \in Nat /\ PulseCount \div 65536 < 65536
    BY DEF PanelInv, CountInRange
  <2>3. CASE PulseCount < 10000000
    <3>1. Len(dwtoa[PulseCount]) <= 7
      BY <2>2, <2>3, DwtoaLength
    <3>2. Shows(lcd[3], 5, PulseCount, 0)
      BY <2>1, <2>2, <3>1, CountShown
    <3>3. PulseCount \div 1 = PulseCount
      BY <2>2
    <3> QED BY <3>2, <3>3
  <2>4. CASE PulseCount >= 10000000
    <3>1. PICK cut \in {10, 100, 1000} :
            /\ Starts(PulseCount \div cut, PulseCount) /\ PulseCount \div cut \in Nat
            /\ PulseCount \div cut >= 1000000 /\ PulseCount \div cut < 10000000
      BY <2>2, <2>4, SevenDigits
    <3>2. Len(dwtoa[PulseCount \div cut]) = 7
      BY <3>1, LengthSeven
    <3>3. Shows(lcd[3], 5, PulseCount \div cut, 0)
      BY <2>1, <2>2, <3>1, <3>2, CountStartShown
    <3> QED BY <3>1, <3>3
  <2> QED BY <2>2, <2>3, <2>4
<1> QED BY <1>1, PanelInvariant, PTL
=============================================================================
