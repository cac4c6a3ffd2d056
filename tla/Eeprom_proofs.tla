---------------------------- MODULE Eeprom_proofs ----------------------------
(***************************************************************************)
(* The parameter memory keeps its promises for every voltage, time and     *)
(* calibration, and wherever the power fails.                              *)
(***************************************************************************)
EXTENDS Eeprom, TLAPS

\* Words and bytes are the numbers in their ranges.
LEMMA WordIntro ==
  ASSUME NEW x \in Nat, x <= 65535
  PROVE  x \in WORD
BY DEF WORD

LEMMA NaturalBytes == \A x : (x \in WORD \/ x \in BYTE) => x \in Nat
BY DEF WORD, BYTE

\* The arithmetic of VT_SET and updateDAC: the voltage stored for a requested one
\* is within the range of the DAC, whose register gets 12 bits.
LEMMA LimitInRange ==
  ASSUME NEW v \in WORD
  PROVE  /\ Limit(v) \in Nat /\ Limit(v) <= MaxVoltage /\ Limit(v) \in WORD
         /\ DacCode(v) \in Nat /\ DacCode(v) < 4096
<1>1. v \in Nat /\ MaxVoltage = 3109
  BY DEF WORD, MaxVoltage, VREF
<1>2. Code(v) \in Nat /\ v * 4096 < 3110 * Code(v) + 3110
  BY <1>1 DEF Code, VREF
<1>3. Code(v) <= 4095 => v <= 3109
  BY <1>1, <1>2
<1>4. Limit(v) \in Nat /\ Limit(v) <= 3109
  <2>1. CASE Code(v) > 4095
    BY <1>1, <2>1 DEF Limit, MaxVoltage
  <2>2. CASE ~(Code(v) > 4095)
    <3>1. Limit(v) = v /\ Code(v) <= 4095
      BY <1>2, <2>2 DEF Limit
    <3> QED BY <1>1, <1>3, <3>1
  <2> QED BY <2>1, <2>2
<1>5. DacCode(v) \in Nat /\ DacCode(v) < 4096
  BY <1>2 DEF DacCode
<1>6. Limit(v) \in WORD
  BY <1>4, WordIntro
<1> QED BY <1>1, <1>4, <1>5, <1>6

\* Within the range of the DAC no code is cut.
LEMMA NoCut ==
  ASSUME NEW v \in Nat, v <= MaxVoltage
  PROVE  Code(v) <= 4095
BY DEF Code, MaxVoltage, VREF

\* Two bytes make a word, and the word gives the bytes back.
LEMMA Words ==
  /\ \A lo, hi \in BYTE : hi * 256 + lo \in WORD
  /\ \A w \in WORD : /\ w % 256 \in BYTE /\ w \div 256 \in BYTE
                     /\ (w \div 256) * 256 + (w % 256) = w
<1>1. ASSUME NEW lo \in BYTE, NEW hi \in BYTE PROVE hi * 256 + lo \in WORD
  BY DEF BYTE, WORD
<1>2. ASSUME NEW w \in WORD
      PROVE  /\ w % 256 \in BYTE /\ w \div 256 \in BYTE
             /\ (w \div 256) * 256 + (w % 256) = w
  <2>1. w \in Nat /\ w < 65536
    BY DEF WORD
  <2>2. w \div 256 \in Nat /\ w \div 256 < 256
    BY <2>1
  <2>3. w % 256 \in Nat /\ w % 256 < 256
    BY <2>1
  <2>4. (w \div 256) * 256 + (w % 256) = w
    BY <2>1
  <2>5. w \div 256 \in BYTE
    BY <2>2 DEF BYTE
  <2>6. w % 256 \in BYTE
    BY <2>3 DEF BYTE
  <2> QED BY <2>4, <2>5, <2>6
<1> QED BY <1>1, <1>2

\* The fields of an image have their types.
LEMMA FieldTypes ==
  ASSUME NEW p \in [Cell -> BYTE]
  PROVE  VoltOf(p) \in WORD /\ TimeOf(p) \in WORD /\ CalOf(p) \in [1 .. 8 -> BYTE]
<1>1. 0 .. 11 \subseteq Cell
  BY ParamAssumption DEF Cell
<1>2. p[0] \in BYTE /\ p[1] \in BYTE /\ p[2] \in BYTE /\ p[3] \in BYTE
  BY <1>1
<1>3. \A i \in 1 .. 8 : p[i + 3] \in BYTE
  BY <1>1
<1> QED BY ZenonT(40), <1>2, <1>3, Words DEF VoltOf, TimeOf, CalOf

\* The reload value fits in the timer.
LEMMA ReloadType ==
  ASSUME NEW t \in WORD
  PROVE  Reload(t) \in WORD
<1>1. CASE t = 0
  BY <1>1 DEF Reload, WORD
<1>2. CASE t # 0
  BY <1>2 DEF Reload, WORD
<1> QED BY <1>1, <1>2

LEMMA InitInv == Init => EepromInv
<1> SUFFICES ASSUME Init PROVE EepromInv
  OBVIOUS
<1>1. PARAMS \in [Cell -> BYTE] /\ before = PARAMS
  <2>1. \A i \in 0 .. 11 : FactoryBytes[i + 1] \in BYTE
    BY DEF FactoryBytes, BYTE
  <2>2. \A i \in Cell : (IF i < 12 THEN FactoryBytes[i + 1] ELSE 0) \in BYTE
    BY <2>1, ParamAssumption DEF Cell, BYTE
  <2> QED BY <2>2 DEF Init
<1>2. EEbuffer \in [Cell -> BYTE] /\ Cal \in [1 .. 8 -> BYTE]
  BY DEF Init, Zero, NoCal, BYTE
<1>3. 0 \in Cell /\ 1 \in Cell
  BY ParamAssumption DEF Cell
<1>4. TypeOK
  BY <1>1, <1>2, <1>3 DEF Init, TypeOK, WORD
<1>5. PARAMS[0] = 184 /\ PARAMS[1] = 11
  BY <1>3 DEF Init, FactoryBytes
<1>6. VoltOf(PARAMS) <= MaxVoltage
  BY <1>5 DEF VoltOf, MaxVoltage, VREF
<1> QED BY <1>4, <1>6 DEF Init, EepromInv, Applied, Progress, InRange

LEMMA LowCells == 0 .. 11 \subseteq Cell /\ 0 \in Cell /\ 1 \in Cell /\ 2 \in Cell /\ 3 \in Cell
BY ParamAssumption DEF Cell

\* A set command begins with a copy of the image that differs from it only in the
\* bytes the command is about.
LEMMA BeginInv ==
  ASSUME EepromInv, NEW c \in {"VT_SET", "CAL_SET"}, NEW image \in [Cell -> BYTE],
         BeginSet(c, image), VoltOf(image) <= MaxVoltage,
         \A i \in Cell \ Touched(c) : image[i] = PARAMS[i]
  PROVE  EepromInv'
<1> USE DEF EepromInv
<1>1. TypeOK'
  BY LowCells DEF BeginSet, TypeOK, ram
<1>2. Applied'
  BY DEF BeginSet, Applied, AppliedFrom, ram
<1>3. Progress'
  <2>1. \A i \in Cell : ~(i < 0)
    BY DEF Cell
  <2> QED BY <2>1 DEF BeginSet, Progress
<1>4. InRange'
  BY DEF BeginSet, InRange
<1> QED BY <1>1, <1>2, <1>3, <1>4

LEMMA NextInv == EepromInv /\ [Next]_vars => EepromInv'
<1> SUFFICES ASSUME EepromInv, [Next]_vars PROVE EepromInv'
  OBVIOUS
<1> USE DEF EepromInv
<1>1. CASE Boot
  <2>1. VoltOf(PARAMS) \in WORD /\ TimeOf(PARAMS) \in WORD /\ CalOf(PARAMS) \in [1 .. 8 -> BYTE]
    BY FieldTypes DEF TypeOK
  <2>2. DacCode(VoltOf(PARAMS)) \in Nat /\ DacCode(VoltOf(PARAMS)) < 4096
        /\ Reload(TimeOf(PARAMS)) \in WORD
    BY <2>1, LimitInRange, ReloadType
  <2>3. TypeOK'
    BY <1>1, <2>1, <2>2 DEF Boot, readparameters, TypeOK
  <2>4. Applied'
    BY <1>1 DEF Boot, readparameters, Applied, AppliedFrom
  <2> QED BY <1>1, <2>3, <2>4 DEF Boot, Progress, InRange
<1>2. ASSUME NEW v \in Voltages, NEW t \in Times, VT_SET(v, t) PROVE EepromInv'
  <2> DEFINE image == [PARAMS EXCEPT ![0] = Limit(v) % 256, ![1] = Limit(v) \div 256,
                                     ![2] = t % 256, ![3] = t \div 256]
  <2>1. v \in WORD /\ t \in WORD
    BY ParamAssumption
  <2>2. Limit(v) \in Nat /\ Limit(v) <= MaxVoltage /\ Limit(v) \in WORD
    BY <2>1, LimitInRange
  <2>3. /\ Limit(v) % 256 \in BYTE /\ Limit(v) \div 256 \in BYTE
        /\ t % 256 \in BYTE /\ t \div 256 \in BYTE
        /\ (Limit(v) \div 256) * 256 + (Limit(v) % 256) = Limit(v)
    BY <2>1, <2>2, Words
  <2>4. image \in [Cell -> BYTE]
    BY <2>3, LowCells DEF TypeOK
  <2>5. VoltOf(image) <= MaxVoltage
    <3>1. image[0] = Limit(v) % 256 /\ image[1] = Limit(v) \div 256
      BY LowCells DEF TypeOK
    <3> HIDE DEF image
    <3> QED BY <2>2, <2>3, <3>1 DEF VoltOf
  <2>6. \A i \in Cell \ Touched("VT_SET") : image[i] = PARAMS[i]
    BY DEF Touched, TypeOK
  <2>7. BeginSet("VT_SET", image)
    BY <1>2 DEF VT_SET
  <2> HIDE DEF image
  <2> QED BY <2>4, <2>5, <2>6, <2>7, BeginInv
<1>3. ASSUME NEW c \in Cals, CAL_SET(c) PROVE EepromInv'
  <2> DEFINE image == [i \in Cell |-> IF i \in 4 .. 11 THEN c[i - 3] ELSE PARAMS[i]]
  <2>1. c \in [1 .. 8 -> BYTE] /\ PARAMS \in [Cell -> BYTE]
    BY ParamAssumption DEF TypeOK
  <2>2. image \in [Cell -> BYTE]
    <3>1. \A i \in 4 .. 11 : c[i - 3] \in BYTE
      BY <2>1
    <3> QED BY <2>1, <3>1
  <2>3. VoltOf(image) <= MaxVoltage
    <3>1. image[0] = PARAMS[0] /\ image[1] = PARAMS[1]
      BY LowCells
    <3> HIDE DEF image
    <3> QED BY <3>1 DEF VoltOf, InRange
  <2>4. \A i \in Cell \ Touched("CAL_SET") : image[i] = PARAMS[i]
    BY DEF Touched
  <2>5. BeginSet("CAL_SET", image)
    BY <1>3 DEF CAL_SET
  <2> HIDE DEF image
  <2> QED BY <2>2, <2>3, <2>4, <2>5, BeginInv
<1>4. CASE EraseByte
  <2>1. PARAMS' \in [Cell -> BYTE]
    BY <1>4 DEF EraseByte, TypeOK, BYTE
  <2>2. j \in Cell /\ EEBUFFERSIZE \in Nat /\ (j + 1 < EEBUFFERSIZE => j + 1 \in Cell) /\ 0 \in Cell
    BY ParamAssumption DEF TypeOK, Cell
  <2>3. TypeOK'
    BY <1>4, <2>1, <2>2 DEF EraseByte, TypeOK, ram
  <2>4. Applied'
    BY <1>4 DEF EraseByte, Applied, AppliedFrom, ram
  <2>5. \A i \in Cell : PARAMS'[i] = IF i < j + 1 THEN 0 ELSE before[i]
    BY <1>4, <2>2 DEF EraseByte, Progress, TypeOK, Cell
  <2>6. Progress'
    <3>1. CASE j + 1 < EEBUFFERSIZE
      BY <1>4, <2>5, <3>1 DEF EraseByte, Progress
    <3>2. CASE ~(j + 1 < EEBUFFERSIZE)
      <4>1. \A i \in Cell : i < j + 1 /\ ~(i < 0)
        BY <2>2, <3>2 DEF Cell
      <4> QED BY <1>4, <2>5, <3>2, <4>1 DEF EraseByte, Progress
    <3> QED BY <3>1, <3>2
  <2>7. InRange'
    <3>1. PARAMS[0] \in Nat /\ PARAMS[1] \in Nat
      BY LowCells, NaturalBytes DEF TypeOK
    <3>2. PARAMS'[0] \in {0, PARAMS[0]} /\ PARAMS'[1] \in {0, PARAMS[1]}
      BY <1>4, LowCells DEF EraseByte, TypeOK
    <3>3. PARAMS'[1] * 256 + PARAMS'[0] <= PARAMS[1] * 256 + PARAMS[0]
      BY <3>1, <3>2
    <3>4. MaxVoltage \in Nat
      BY DEF MaxVoltage, VREF
    <3>5. VoltOf(PARAMS)' <= MaxVoltage
      BY <3>1, <3>2, <3>3, <3>4 DEF InRange, VoltOf
    <3> QED BY <1>4, <3>5 DEF EraseByte, InRange
  <2> QED BY <2>3, <2>4, <2>6, <2>7
<1>5. CASE WriteByte
  <2>1. PARAMS' \in [Cell -> BYTE]
    BY <1>5 DEF WriteByte, TypeOK
  <2>2. j \in Cell /\ EEBUFFERSIZE \in Nat /\ (j + 1 < EEBUFFERSIZE => j + 1 \in Cell) /\ 0 \in Cell
    BY ParamAssumption DEF TypeOK, Cell
  <2>3. TypeOK'
    BY <1>5, <2>1, <2>2 DEF WriteByte, TypeOK, ram
  <2>4. Applied'
    BY <1>5 DEF WriteByte, Applied, AppliedFrom, ram
  <2>5. \A i \in Cell : PARAMS'[i] = IF i < j + 1 THEN EEbuffer[i] ELSE 0
    BY <1>5, <2>2 DEF WriteByte, Progress, TypeOK, Cell
  <2>6. Progress'
    <3>1. CASE j + 1 < EEBUFFERSIZE
      BY <1>5, <2>5, <3>1 DEF WriteByte, Progress
    <3>2. CASE ~(j + 1 < EEBUFFERSIZE)
      <4>1. \A i \in Cell : i < j + 1
        BY <2>2, <3>2 DEF Cell
      <4>2. PARAMS' = EEbuffer
        BY <2>1, <2>5, <4>1 DEF TypeOK
      <4> QED BY <1>5, <3>2, <4>2 DEF WriteByte, Progress
    <3> QED BY <3>1, <3>2
  <2>7. InRange'
    <3>1. EEbuffer[0] \in Nat /\ EEbuffer[1] \in Nat
      BY LowCells, NaturalBytes DEF TypeOK
    <3>2. PARAMS'[0] \in {0, EEbuffer[0]} /\ PARAMS'[1] \in {0, EEbuffer[1]}
      BY <2>5, LowCells
    <3>3. PARAMS'[1] * 256 + PARAMS'[0] <= EEbuffer[1] * 256 + EEbuffer[0]
      BY <3>1, <3>2
    <3>4. MaxVoltage \in Nat
      BY DEF MaxVoltage, VREF
    <3>5. VoltOf(EEbuffer) <= MaxVoltage
      BY <1>5 DEF WriteByte, InRange
    <3>6. VoltOf(PARAMS)' <= MaxVoltage
      BY <3>1, <3>2, <3>3, <3>4, <3>5 DEF VoltOf
    <3> QED BY <1>5, <3>6 DEF WriteByte, InRange
  <2> QED BY <2>3, <2>4, <2>6, <2>7
<1>6. CASE Apply
  <2>1. VoltOf(PARAMS) \in WORD /\ TimeOf(PARAMS) \in WORD /\ CalOf(PARAMS) \in [1 .. 8 -> BYTE]
    BY FieldTypes DEF TypeOK
  <2>2. DacCode(VoltOf(PARAMS)) \in Nat /\ DacCode(VoltOf(PARAMS)) < 4096
        /\ Reload(TimeOf(PARAMS)) \in WORD
    BY <2>1, LimitInRange, ReloadType
  <2>3. TypeOK'
    <3>1. Voltage' \in WORD /\ Mtime' \in WORD /\ Cal' \in [1 .. 8 -> BYTE]
      BY <1>6, <2>1 DEF Apply, readparameters
    <3>2. dac' \in Nat /\ dac' < 4096 /\ wut' \in WORD
      BY <1>6, <2>2 DEF Apply, readparameters, TypeOK
    <3> QED BY <1>6, <3>1, <3>2 DEF Apply, TypeOK
  <2>4. cmd = "CAL_SET" => VoltOf(PARAMS) = VoltOf(before) /\ TimeOf(PARAMS) = TimeOf(before)
    <3>1. PARAMS = EEbuffer
      BY <1>6 DEF Apply, Progress
    <3>2. \A i \in Cell \ Touched(cmd) : EEbuffer[i] = before[i]
      BY <1>6 DEF Apply, Progress
    <3>3. cmd = "CAL_SET" => {0, 1, 2, 3} \subseteq Cell \ Touched(cmd)
      BY LowCells DEF Touched
    <3> QED BY <3>1, <3>2, <3>3 DEF VoltOf, TimeOf
  <2>5. Applied'
    BY <1>6, <2>4 DEF Apply, readparameters, Applied, AppliedFrom
  <2> QED BY <1>6, <2>3, <2>5 DEF Apply, Progress, InRange
<1>7. CASE PowerFails
  <2>1. TypeOK'
    <3>1. 0 \in BYTE /\ 0 \in WORD
      BY DEF BYTE, WORD
    <3>2. Zero \in [Cell -> BYTE] /\ NoCal \in [1 .. 8 -> BYTE]
      BY <3>1 DEF Zero, NoCal
    <3> QED BY <1>7, LowCells, <3>1, <3>2 DEF PowerFails, TypeOK
  <2> QED BY <1>7, <2>1 DEF PowerFails, Applied, Progress, InRange
<1>8. CASE UNCHANGED vars
  BY <1>8 DEF vars, ram, TypeOK, Applied, AppliedFrom, Progress, InRange
<1> QED BY <1>1, <1>2, <1>3, <1>4, <1>5, <1>6, <1>7, <1>8 DEF Next

\* The inductive invariant holds of every behaviour.
THEOREM EepromInvariant == Spec => []EepromInv
<1>1. Init => EepromInv
  BY InitInv
<1>2. EepromInv /\ [Next]_vars => EepromInv'
  BY NextInv
<1> QED BY <1>1, <1>2, PTL DEF Spec

\* Whenever the device can answer, RAM, EEPROM, DAC and wake-up timer agree.
THEOREM AlwaysCoherent == Spec => []Coherent
<1>1. EepromInv => Coherent
  BY DEF EepromInv, Applied, AppliedFrom, Coherent
<1> QED BY <1>1, EepromInvariant, PTL

\* No request and no power failure puts a voltage into the image that the DAC
\* cannot put out.
THEOREM ImageWithinDac == Spec => []NeverBeyondDac
<1>1. EepromInv => NeverBeyondDac
  <2> SUFFICES ASSUME EepromInv PROVE NeverBeyondDac
    OBVIOUS
  <2>1. VoltOf(PARAMS) \in Nat
    BY FieldTypes, NaturalBytes DEF EepromInv, TypeOK
  <2>2. VoltOf(PARAMS) <= MaxVoltage
    BY DEF EepromInv, InRange
  <2> QED BY <2>1, <2>2, NoCut DEF NeverBeyondDac
<1> QED BY <1>1, EepromInvariant, PTL

-----------------------------------------------------------------------------
(* The refinement of ParamStore.                                           *)

\* What the power failure finds in the middle of ee_pgm: no word is above both its
\* old and its new value, since a word is only ever the old or the new one with
\* some bytes 0.
LEMMA TornWords ==
  ASSUME EepromInv, Programming
  PROVE  /\ VoltOf(PARAMS) <= VoltOf(before) \/ VoltOf(PARAMS) <= VoltOf(EEbuffer)
         /\ TimeOf(PARAMS) <= TimeOf(before) \/ TimeOf(PARAMS) <= TimeOf(EEbuffer)
<1> DEFINE old == IF pc = "erase" THEN before ELSE EEbuffer
<1>1. old \in [Cell -> BYTE] /\ PARAMS \in [Cell -> BYTE]
  BY DEF EepromInv, TypeOK
<1>2. \A i \in Cell : PARAMS[i] \in {0, old[i]}
  BY DEF EepromInv, Progress, Programming
<1> HIDE DEF old
<1>3. \A i \in {0, 1, 2, 3} : old[i] \in Nat /\ PARAMS[i] \in Nat /\ PARAMS[i] <= old[i]
  BY <1>1, <1>2, LowCells, NaturalBytes
<1>4. VoltOf(PARAMS) <= VoltOf(old) /\ TimeOf(PARAMS) <= TimeOf(old)
  BY <1>3 DEF VoltOf, TimeOf
<1> QED BY <1>4 DEF old

\* A step of the device is a step of ParamStore or leaves it alone.
LEMMA StepImplements ==
  ASSUME EepromInv, EepromInv', [Next]_vars
  PROVE  [Store!Next]_(Store!vars)
<1> USE DEF EepromInv
<1>1. ASSUME NEW v \in Voltages, NEW t \in Times, VT_SET(v, t) PROVE Store!SetVT
  <2>1. ~Programming /\ Programming' /\ before' = PARAMS
    BY <1>1 DEF VT_SET, BeginSet, Programming
  <2>2. CalOf(EEbuffer)' = CalOf(PARAMS)
    <3>1. \A i \in 4 .. 11 : EEbuffer'[i] = PARAMS[i]
      BY <1>1, LowCells DEF VT_SET, BeginSet, TypeOK
    <3> QED BY <3>1 DEF CalOf
  <2>3. VoltOf(EEbuffer)' <= MaxVoltage
    BY <1>1 DEF VT_SET, BeginSet, InRange
  <2>4. VoltOf(before)' = VoltOf(PARAMS) /\ TimeOf(before)' = TimeOf(PARAMS)
        /\ CalOf(before)' = CalOf(PARAMS)
    BY <2>1 DEF VoltOf, TimeOf, CalOf
  <2> QED BY <2>1, <2>2, <2>3, <2>4 DEF Store!SetVT, SettingsOf
<1>2. ASSUME NEW c \in Cals, CAL_SET(c) PROVE Store!SetCal
  <2>1. ~Programming /\ Programming' /\ before' = PARAMS
    BY <1>2 DEF CAL_SET, BeginSet, Programming
  <2>2. \A i \in {0, 1, 2, 3} : EEbuffer'[i] = PARAMS[i]
    BY <1>2, LowCells DEF CAL_SET, BeginSet
  <2>3. VoltOf(EEbuffer)' = VoltOf(PARAMS) /\ TimeOf(EEbuffer)' = TimeOf(PARAMS)
    BY <2>2 DEF VoltOf, TimeOf
  <2> QED BY <2>1, <2>3 DEF Store!SetCal, SettingsOf
<1>3. CASE EraseByte
  <2>1. Programming /\ Programming' /\ UNCHANGED <<before, EEbuffer>>
    BY <1>3 DEF EraseByte, Programming
  <2> QED BY <2>1 DEF Store!vars, SettingsOf, VoltOf, TimeOf, CalOf
<1>4. CASE WriteByte
  <2>1. CASE pc' = "write"
    <3>1. Programming /\ Programming' /\ UNCHANGED <<before, EEbuffer>>
      BY <1>4, <2>1 DEF WriteByte, Programming
    <3> QED BY <3>1 DEF Store!vars, SettingsOf, VoltOf, TimeOf, CalOf
  <2>2. CASE pc' = "apply"
    <3>1. Programming /\ ~Programming' /\ PARAMS' = EEbuffer
      BY <1>4, <2>2 DEF WriteByte, Programming, Progress
    <3>2. SettingsOf(PARAMS)' = SettingsOf(EEbuffer)
      BY <3>1 DEF SettingsOf, VoltOf, TimeOf, CalOf
    <3> QED BY <3>1, <3>2 DEF Store!Next, Store!Commit
  <2> QED BY <1>4, <2>1, <2>2 DEF WriteByte
<1>5. CASE PowerFails /\ Programming
  <2>1. ~Programming' /\ PARAMS' = PARAMS
    BY <1>5 DEF PowerFails, Programming
  <2>2. SettingsOf(PARAMS)' = SettingsOf(PARAMS)
    BY <2>1 DEF SettingsOf, VoltOf, TimeOf, CalOf
  <2> QED BY <1>5, <2>1, <2>2, TornWords
          DEF Store!Next, Store!PowerLoss, Store!NotAbove, SettingsOf
<1>6. CASE Boot \/ Apply \/ (PowerFails /\ ~Programming)
  <2>1. ~Programming /\ ~Programming' /\ PARAMS' = PARAMS
    BY <1>6 DEF Boot, Apply, PowerFails, Programming
  <2>2. SettingsOf(PARAMS)' = SettingsOf(PARAMS)
    BY <2>1 DEF SettingsOf, VoltOf, TimeOf, CalOf
  <2>3. /\ SettingsOf(IF Programming THEN before ELSE PARAMS) = SettingsOf(PARAMS)
        /\ SettingsOf(IF Programming THEN before ELSE PARAMS)' = SettingsOf(PARAMS)'
        /\ SettingsOf(IF Programming THEN EEbuffer ELSE PARAMS) = SettingsOf(PARAMS)
        /\ SettingsOf(IF Programming THEN EEbuffer ELSE PARAMS)' = SettingsOf(PARAMS)'
    BY <2>1 DEF SettingsOf
  <2>4. Programming' = Programming
    BY <2>1 DEF Programming
  <2> QED BY <2>2, <2>3, <2>4 DEF Store!vars
<1>7. CASE UNCHANGED vars
  BY <1>7 DEF vars, Store!vars, SettingsOf, VoltOf, TimeOf, CalOf, Programming
<1> QED BY <1>1, <1>2, <1>3, <1>4, <1>5, <1>6, <1>7 DEF Next, Store!Next

\* Byte by byte and with power failures anywhere, the EEPROM keeps the promises of
\* ParamStore.
THEOREM EepromImplementsParamStore == Spec => ImplementsParamStore
<1>1. EepromInv /\ Init => Store!Init
  BY DEF EepromInv, InRange, Init, Store!Init, Programming, SettingsOf
<1>2. EepromInv /\ EepromInv' /\ [Next]_vars => [Store!Next]_(Store!vars)
  BY StepImplements
<1> QED BY <1>1, <1>2, EepromInvariant, PTL DEF Spec, ImplementsParamStore, Store!Spec
=============================================================================
