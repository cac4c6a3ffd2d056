------------------------- MODULE PulseCounter_proofs -------------------------
(***************************************************************************)
(* The accounting of PulseCounter for any number of pulses, alone and with *)
(* the set commands of SettingsWindow.                                     *)
(***************************************************************************)
EXTENDS SettingsWindow, TLAPS

LEMMA InitPulseInv == Init => PulseInv
BY PulseAssumption DEF Init, PulseInv, TypeOK, Bookkeeping, Polled, EveryPulseCounted,
   Counted, Waiting, InTime, OnePulseLater, WindowEndsAtWakeup

\* Every step of an interrupt or of the main loop keeps PulseInv.
LEMMA NextPulseInv == PulseInv /\ [Next]_vars => PulseInv'
<1> SUFFICES ASSUME PulseInv, [Next]_vars PROVE PulseInv'
  OBVIOUS
<1> USE PulseAssumption
    DEF PulseInv, TypeOK, Bookkeeping, Polled, EveryPulseCounted, Counted, Waiting, goto,
        InTime, OnePulseLater, WindowEndsAtWakeup
<1>1. CASE TIM3OVF_ISR
  BY <1>1 DEF TIM3OVF_ISR, mainVars
<1>2. CASE RTC_irq
  BY <1>2 DEF RTC_irq, mainVars
<1>3. CASE Work
  BY <1>3 DEF Work
<1>4. CASE TestPulse
  BY <1>4 DEF TestPulse
<1>5. CASE CountPulse
  BY <1>5 DEF CountPulse
<1>6. CASE ClearPulse
  BY <1>6 DEF ClearPulse
<1>7. CASE TestWakeup
  BY <1>7 DEF TestWakeup
<1>8. CASE CloseWindow
  BY <1>8 DEF CloseWindow
<1>9. CASE UNCHANGED vars
  BY <1>9 DEF vars, mainVars
<1>10. QED
  BY <1>1, <1>2, <1>3, <1>4, <1>5, <1>6, <1>7, <1>8, <1>9 DEF Next

\* PulseInv holds in every state the interrupts and the main loop reach.
THEOREM PulseInvariant == Spec => []PulseInv
<1>1. QED
  BY InitPulseInv, NextPulseInv, PTL DEF Spec

\* Whatever the loop misses, it never counts a pulse that was not sent, or twice.
THEOREM NeverOvercounts == Spec => []NeverMoreThanSent
<1>1. PulseInv => NeverMoreThanSent
  BY DEF PulseInv, TypeOK, Bookkeeping, NeverMoreThanSent, Counted, Waiting, InHand
<1>2. QED
  BY PulseInvariant, <1>1, PTL

\* One test of Pulse between any two overflows of TIM3 is enough to lose none.
THEOREM Lossless == Spec => []LosslessUntilLate
<1>1. PulseInv => LosslessUntilLate
  BY DEF PulseInv, LosslessUntilLate
<1>2. QED
  BY PulseInvariant, <1>1, PTL
\* Until the loop is late a window ends within one pulse of its wake-up.
THEOREM EndsAtWakeup == Spec => []WindowEndsAtWakeup
<1>1. PulseInv => WindowEndsAtWakeup
  BY DEF PulseInv
<1>2. QED
  BY PulseInvariant, <1>1, PTL

-----------------------------------------------------------------------------
(* Under changing settings, for any number of set commands.                *)

\* A step beside the set commands is a step of the measurement.
LEMMA MeasuringStep == [SettingsNext]_settingsVars => [Next]_vars
BY DEF SettingsNext, settingsVars, VT_SET, Pulsed, Counting, Closing, Next

\* Module PulseCounter describes the measurement whatever the settings do, so that its
\* theorems hold under them: pulses, windows and wake-ups do not notice a VT_SET.
THEOREM MeasuresThroughout == SettingsSpec => Spec
<1>1. SettingsInit => Init
  BY DEF SettingsInit
<1>2. QED
  BY <1>1, MeasuringStep, PTL DEF SettingsSpec, Spec

LEMMA InitSettingsInv == SettingsInit => SettingsInv
BY DEF SettingsInit, Init, SettingsInv, SecondCountIsClean

\* Every step of the interrupts, the main loop and VT_SET keeps SettingsInv.
LEMMA NextSettingsInv ==
  ASSUME PulseInv, SettingsInv, [SettingsNext]_settingsVars
  PROVE  SettingsInv'
<1> USE DEF SettingsInv, SecondCountIsClean, ownerVars, goto
<1>1. CASE VT_SET
  BY <1>1 DEF VT_SET, Work
<1>2. CASE Pulsed
  BY <1>2 DEF Pulsed, TIM3OVF_ISR, mainVars, PulseInv, TypeOK
<1>3. CASE Counting
  BY <1>3 DEF Counting, CountPulse
<1>4. CASE Closing
  BY <1>4 DEF Closing, CloseWindow
<1>5. CASE /\ RTC_irq \/ Work \/ TestPulse \/ ClearPulse \/ TestWakeup
           /\ UNCHANGED <<setting, ownerVars, closed>>
  BY <1>5 DEF RTC_irq, Work, TestPulse, ClearPulse, TestWakeup, mainVars
<1>6. CASE UNCHANGED settingsVars
  BY <1>6 DEF settingsVars, vars, mainVars
<1>7. QED
  BY <1>1, <1>2, <1>3, <1>4, <1>5, <1>6 DEF SettingsNext

\* From the second window after a VT_SET on, the count reported was measured under the
\* settings reported, for any number of pulses and commands and however late the loop.
THEOREM CleanFromTheSecond == SettingsSpec => []SecondCountIsClean
<1>1. SettingsSpec => []PulseInv
  BY MeasuresThroughout, PulseInvariant, PTL
<1>2. SettingsInv => SecondCountIsClean
  BY DEF SettingsInv
<1>3. QED
  BY <1>1, <1>2, InitSettingsInv, NextSettingsInv, PTL DEF SettingsSpec
=============================================================================
