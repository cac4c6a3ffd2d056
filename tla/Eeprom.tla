------------------------------- MODULE Eeprom -------------------------------
(***************************************************************************)
(* The parameters of the device: their EEPROM image, the commands VT_SET   *)
(* and CAL_SET that rewrite it, and the hardware that is set from them.    *)
(* ee_pgm erases the whole area byte by byte and writes it byte by byte;   *)
(* the power may fail between any two bytes, and main then reads whatever  *)
(* is there.  Programming one byte is taken to be atomic.                  *)
(***************************************************************************)
EXTENDS Integers

CONSTANTS
  EEBUFFERSIZE,   \* bytes ee_read and ee_pgm go over, PARAMS and what follows it
  Voltages,       \* the voltages in mV the host may ask for
  Times,          \* the measuring times it may ask for
  Cals            \* the eight bytes of the calibration it may send

BYTE == {b \in Nat : b < 256}
WORD == {w \in Nat : w < 65536}
VREF == 3110      \* the full scale of the DAC in mV

ASSUME ParamAssumption ==
  /\ EEBUFFERSIZE \in Nat /\ EEBUFFERSIZE >= 12
  /\ Voltages \subseteq WORD /\ Times \subseteq WORD
  /\ Cals \subseteq [1 .. 8 -> BYTE]

VARIABLES
  PARAMS,               \* EEPROM
  EEbuffer,             \* its copy in RAM
  pc,                   \* "boot", "run", or where in a set command
  j,                    \* the byte ee_pgm is at
  cmd,                  \* the set command
  Voltage, Mtime, Cal,  \* RAM copies; Cal is PulseNL and PulseNH, byte by byte
  dac,                  \* DAC register
  wut,                  \* reload value of the wake-up timer
  before                \* history: PARAMS when the set command began

ram  == <<Voltage, Mtime, Cal>>
vars == <<PARAMS, EEbuffer, pc, j, cmd, ram, dac, wut, before>>

Cell == 0 .. EEBUFFERSIZE - 1
Zero == [i \in Cell |-> 0]
NoCal == [i \in 1 .. 8 |-> 0]

\* The fields of an image.
VoltOf(p) == p[1] * 256 + p[0]
TimeOf(p) == p[3] * 256 + p[2]
CalOf(p)  == [i \in 1 .. 8 |-> p[i + 3]]

\* what the compiler puts into PARAMS: 3000 mV, 5 s, calibration 16 and 2^24
FactoryBytes == <<184, 11, 5, 0, 16, 0, 0, 0, 0, 0, 0, 1>>

Init ==
  /\ PARAMS = [i \in Cell |-> IF i < 12 THEN FactoryBytes[i + 1] ELSE 0]
  /\ EEbuffer = Zero /\ pc = "boot" /\ j = 0 /\ cmd = "none"
  /\ Voltage = 0 /\ Mtime = 0 /\ Cal = NoCal /\ dac = 0 /\ wut = 0
  /\ before = PARAMS

-----------------------------------------------------------------------------

readparameters ==
  /\ Voltage' = VoltOf(PARAMS) /\ Mtime' = TimeOf(PARAMS) /\ Cal' = CalOf(PARAMS)

\* at least one second, and the timer counts one more than its reload value
Reload(t) == (IF t = 0 THEN 1 ELSE t) - 1

Code(v) == (v * 4096) \div VREF
DacCode(v) == IF Code(v) > 4095 THEN 4095 ELSE Code(v)

\* Mutant: the voltage is stored as it was asked for.
Limit_none(v) == v

\* what VT_SET stores for a requested voltage
Limit(v) == IF Code(v) > 4095 THEN (4095 * VREF) \div 4096 ELSE v
MaxVoltage == (4095 * VREF) \div 4096

\* The start of main: read the parameters and set the hardware from them.
Boot ==
  /\ pc = "boot" /\ pc' = "run"
  /\ readparameters
  /\ wut' = Reload(Mtime') /\ dac' = DacCode(Voltage')
  /\ UNCHANGED <<PARAMS, EEbuffer, j, cmd, before>>

\* The set commands copy the image with ee_read, change their bytes of the copy
\* and call ee_pgm.
BeginSet(c, image) ==
  /\ pc = "run" /\ pc' = "erase" /\ j' = 0
  /\ cmd' = c
  /\ EEbuffer' = image
  /\ before' = PARAMS
  /\ UNCHANGED <<PARAMS, ram, dac, wut>>

VT_SET(v, t) ==
  BeginSet("VT_SET", [PARAMS EXCEPT ![0] = Limit(v) % 256, ![1] = Limit(v) \div 256,
                                    ![2] = t % 256, ![3] = t \div 256])

\* Mutant: ee_read is not called, EEbuffer is that of the last set command.
CAL_SET_staleBuffer(c) ==
  BeginSet("CAL_SET", [i \in Cell |-> IF i \in 4 .. 11 THEN c[i - 3] ELSE EEbuffer[i]])

CAL_SET(c) ==
  BeginSet("CAL_SET", [i \in Cell |-> IF i \in 4 .. 11 THEN c[i - 3] ELSE PARAMS[i]])

\* Mutant: nothing is erased, the bytes are written over the old ones.
EraseByte_none ==
  /\ pc = "erase" /\ pc' = "write"
  /\ UNCHANGED <<PARAMS, EEbuffer, j, cmd, ram, dac, wut, before>>

\* The two loops of ee_pgm.
EraseByte ==
  /\ pc = "erase"
  /\ PARAMS' = [PARAMS EXCEPT ![j] = 0]
  /\ IF j + 1 < EEBUFFERSIZE
       THEN j' = j + 1 /\ UNCHANGED pc
       ELSE j' = 0 /\ pc' = "write"
  /\ UNCHANGED <<EEbuffer, cmd, ram, dac, wut, before>>

WriteByte ==
  /\ pc = "write"
  /\ PARAMS' = [PARAMS EXCEPT ![j] = EEbuffer[j]]
  /\ IF j + 1 < EEBUFFERSIZE
       THEN j' = j + 1 /\ UNCHANGED pc
       ELSE j' = 0 /\ pc' = "apply"
  /\ UNCHANGED <<EEbuffer, cmd, ram, dac, wut, before>>

\* Mutant: updateDAC is not called.
Apply_keepsDac ==
  /\ pc = "apply" /\ pc' = "run"
  /\ readparameters
  /\ \/ cmd = "VT_SET" /\ wut' = Reload(Mtime') /\ UNCHANGED dac
     \/ cmd = "CAL_SET" /\ UNCHANGED <<wut, dac>>
  /\ UNCHANGED <<PARAMS, EEbuffer, j, cmd, before>>

\* The rest of the handler: CAL_SET leaves timer and DAC alone.
Apply ==
  /\ pc = "apply" /\ pc' = "run"
  /\ readparameters
  /\ \/ cmd = "VT_SET" /\ wut' = Reload(Mtime') /\ dac' = DacCode(Voltage')
     \/ cmd = "CAL_SET" /\ UNCHANGED <<wut, dac>>
  /\ UNCHANGED <<PARAMS, EEbuffer, j, cmd, before>>

\* RAM and registers are lost, EEPROM is not.
PowerFails ==
  /\ pc # "boot" /\ pc' = "boot"
  /\ j' = 0 /\ cmd' = "none" /\ EEbuffer' = Zero
  /\ Voltage' = 0 /\ Mtime' = 0 /\ Cal' = NoCal /\ dac' = 0 /\ wut' = 0
  /\ UNCHANGED <<PARAMS, before>>

Next ==
  \/ Boot \/ EraseByte \/ WriteByte \/ Apply \/ PowerFails
  \/ \E v \in Voltages, t \in Times : VT_SET(v, t)
  \/ \E c \in Cals : CAL_SET(c)

Spec == Init /\ [][Next]_vars

-----------------------------------------------------------------------------

\* Every variable keeps its type; the DAC never gets more than its 12 bits.
TypeOK ==
  /\ PARAMS \in [Cell -> BYTE] /\ EEbuffer \in [Cell -> BYTE] /\ before \in [Cell -> BYTE]
  /\ pc \in {"boot", "run", "erase", "write", "apply"}
  /\ cmd \in {"none", "VT_SET", "CAL_SET"}
  /\ j \in Cell
  /\ Voltage \in WORD /\ Mtime \in WORD /\ Cal \in [1 .. 8 -> BYTE]
  /\ dac \in Nat /\ dac < 4096 /\ wut \in WORD

\* Whenever the device can answer a request, the values it reports, the EEPROM,
\* the DAC and the measuring period agree: what CAL_SET does not refresh is not
\* stale, and neither a set command nor a restart leaves a mixture behind.
Coherent ==
  pc = "run" =>
    /\ Voltage = VoltOf(PARAMS) /\ Mtime = TimeOf(PARAMS) /\ Cal = CalOf(PARAMS)
    /\ dac = DacCode(VoltOf(PARAMS))
    /\ wut = Reload(TimeOf(PARAMS))

\* Whatever was asked for and wherever the power failed, the image never holds a
\* voltage beyond the DAC's range: updateDAC never cuts a value that VT_READ
\* reports uncut.
NeverBeyondDac == VoltOf(PARAMS) <= MaxVoltage /\ Code(VoltOf(PARAMS)) <= 4095

Programming == pc \in {"erase", "write"}
SettingsOf(p) == [voltage |-> VoltOf(p), mtime |-> TimeOf(p), cal |-> CalOf(p)]

\* The image implements ParamStore: a set command keeps the fields of the other
\* one, and half-written words come back below the old or the new value because
\* everything is erased before anything is written.
Store == INSTANCE ParamStore WITH
           stored  <- SettingsOf(IF Programming THEN before ELSE PARAMS),
           busy    <- Programming,
           pending <- SettingsOf(IF Programming THEN EEbuffer ELSE PARAMS)
ImplementsParamStore == Store!Spec

-----------------------------------------------------------------------------
(* The inductive invariant: what each phase of a set command has done to   *)
(* the image, and that registers and RAM still are those of the image      *)
(* before.                                                                 *)

AppliedFrom(p) ==
  /\ Voltage = VoltOf(p) /\ Mtime = TimeOf(p) /\ Cal = CalOf(p)
  /\ dac = DacCode(VoltOf(p)) /\ wut = Reload(TimeOf(p))

Applied ==
  /\ pc = "run" => AppliedFrom(PARAMS)
  /\ pc \in {"erase", "write", "apply"} => AppliedFrom(before)

\* the bytes a set command is about
Touched(c) == IF c = "VT_SET" THEN 0 .. 3 ELSE 4 .. 11

Progress ==
  /\ pc = "erase" => \A i \in Cell : PARAMS[i] = IF i < j THEN 0 ELSE before[i]
  /\ pc = "write" => \A i \in Cell : PARAMS[i] = IF i < j THEN EEbuffer[i] ELSE 0
  /\ pc = "apply" => PARAMS = EEbuffer
  /\ pc \in {"erase", "write", "apply"} =>
       /\ cmd \in {"VT_SET", "CAL_SET"}
       /\ \A i \in Cell \ Touched(cmd) : EEbuffer[i] = before[i]

InRange ==
  /\ VoltOf(PARAMS) <= MaxVoltage
  /\ pc \in {"erase", "write", "apply"} =>
       VoltOf(EEbuffer) <= MaxVoltage /\ VoltOf(before) <= MaxVoltage

EepromInv == TypeOK /\ Applied /\ Progress /\ InRange
=============================================================================
