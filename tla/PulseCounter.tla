---------------------------- MODULE PulseCounter ----------------------------
(***************************************************************************)
(* The measurement: the TIM3 interrupt sends a pulse into the converter    *)
(* whenever the comparator asks for one, the main loop counts the pulses,  *)
(* and the wake-up interrupt of the RTC closes a window of Mtime seconds.  *)
(* Interrupt and main loop share one bit, Pulse, without a lock; TIM3      *)
(* overflows every 21 microseconds (timers.h: PULSEFREQ 47500).            *)
(***************************************************************************)
EXTENDS Integers

CONSTANT MaxPulses   \* bound on the pulses of a behaviour

ASSUME PulseAssumption == MaxPulses \in Nat

VARIABLES
  Tim3Phase, Pulse, RTC_Flag,
  PulseCounter,   \* pulses of the current window
  PulseCount,     \* pulses of the last one, which DATA_READ reports
  pc,             \* the next statement of the main loop
  polled,         \* history: 1 if Pulse was tested since the last overflow
  late,           \* history: 1 once an interrupt came before the loop had polled
  sent,           \* history: pulses sent
  banked,         \* history: pulses of all closed windows
  wakeup          \* history: what was sent before the last wake-up

mainVars == <<PulseCounter, PulseCount, pc, banked>>
vars     == <<mainVars, Tim3Phase, Pulse, RTC_Flag, polled, late, sent, wakeup>>

Init ==
  /\ Tim3Phase = 0 /\ Pulse = 0 /\ RTC_Flag = 0
  /\ PulseCounter = 0 /\ PulseCount = 0
  /\ pc = "work"
  /\ polled = 1 /\ late = 0 /\ sent = 0 /\ banked = 0 /\ wakeup = 0

-----------------------------------------------------------------------------
(* The interrupts.                                                         *)

\* Mutant: Pulse outlives phase 1.
TIM3OVF_ISR_keepsPulse ==
  /\ polled' = 0
  /\ late' = IF polled = 0 THEN 1 ELSE late
  /\ \/ /\ Tim3Phase = 0 /\ Tim3Phase' = 1
        /\ \/ sent < MaxPulses /\ Pulse' = 1 /\ sent' = sent + 1
           \/ Pulse' = 0 /\ UNCHANGED sent
     \/ Tim3Phase = 1 /\ Tim3Phase' = 0 /\ UNCHANGED <<Pulse, sent>>
  /\ UNCHANGED <<mainVars, RTC_Flag, wakeup>>

\* A pulse starts in phase 0 and ends in phase 1, counted or not.
TIM3OVF_ISR ==
  /\ polled' = 0
  /\ late' = IF polled = 0 THEN 1 ELSE late
  /\ \/ /\ Tim3Phase = 0 /\ Tim3Phase' = 1
        /\ \/ sent < MaxPulses /\ Pulse' = 1 /\ sent' = sent + 1   \* comparator low
           \/ Pulse' = 0 /\ UNCHANGED sent                         \* comparator high
     \/ /\ Tim3Phase = 1 /\ Tim3Phase' = 0
        /\ Pulse' = 0 /\ UNCHANGED sent
  /\ UNCHANGED <<mainVars, RTC_Flag, wakeup>>

RTC_irq ==
  /\ RTC_Flag' = 1
  /\ late' = IF RTC_Flag = 1 \/ pc \in {"copy", "zero"} THEN 1 ELSE late
  /\ wakeup' = sent
  /\ UNCHANGED <<mainVars, Tim3Phase, Pulse, polled, sent>>

-----------------------------------------------------------------------------
(* The main loop.                                                          *)

goto(l) == pc' = l

\* Packets and commands; from here to the next test of Pulse any time may pass.
Work ==
  /\ pc = "work" /\ goto("test")
  /\ UNCHANGED <<PulseCounter, PulseCount, banked, Tim3Phase, Pulse, RTC_Flag,
                 polled, late, sent, wakeup>>

TestPulse ==
  /\ pc = "test"
  /\ IF Pulse = 1 THEN goto("count") ELSE goto("rtc")
  /\ polled' = 1
  /\ UNCHANGED <<PulseCounter, PulseCount, banked, Tim3Phase, Pulse, RTC_Flag, late, sent, wakeup>>

CountPulse ==
  /\ pc = "count" /\ goto("clear")
  /\ PulseCounter' = PulseCounter + 1
  /\ UNCHANGED <<PulseCount, banked, Tim3Phase, Pulse, RTC_Flag, polled, late, sent, wakeup>>

\* Mutant: Pulse is left to the interrupt.
ClearPulse_none ==
  /\ pc = "clear" /\ goto("rtc")
  /\ UNCHANGED <<PulseCounter, PulseCount, banked, Tim3Phase, Pulse, RTC_Flag,
                 polled, late, sent, wakeup>>

ClearPulse ==
  /\ pc = "clear" /\ goto("rtc")
  /\ Pulse' = 0
  /\ UNCHANGED <<PulseCounter, PulseCount, banked, Tim3Phase, RTC_Flag, polled, late, sent, wakeup>>

TestWakeup ==
  /\ pc = "rtc"
  /\ IF RTC_Flag = 1 THEN goto("copy") ELSE goto("work")
  /\ RTC_Flag' = 0
  /\ UNCHANGED <<PulseCounter, PulseCount, banked, Tim3Phase, Pulse, polled, late, sent, wakeup>>

\* Mutants: the counter is cleared before it is copied; it is not cleared.
CloseWindow_clearsFirst ==
  /\ \/ /\ pc = "copy" /\ goto("zero")
        /\ PulseCounter' = 0 /\ UNCHANGED <<PulseCount, banked>>
     \/ /\ pc = "zero" /\ goto("work")
        /\ PulseCount' = PulseCounter /\ banked' = banked + PulseCounter
        /\ UNCHANGED PulseCounter
  /\ UNCHANGED <<Tim3Phase, Pulse, RTC_Flag, polled, late, sent, wakeup>>
CloseWindow_keepsCounter ==
  /\ \/ /\ pc = "copy" /\ goto("zero")
        /\ PulseCount' = PulseCounter /\ UNCHANGED <<PulseCounter, banked>>
     \/ /\ pc = "zero" /\ goto("work")
        /\ banked' = banked + PulseCount /\ UNCHANGED <<PulseCounter, PulseCount>>
  /\ UNCHANGED <<Tim3Phase, Pulse, RTC_Flag, polled, late, sent, wakeup>>

CloseWindow ==
  /\ \/ /\ pc = "copy" /\ goto("zero")
        /\ PulseCount' = PulseCounter /\ UNCHANGED <<PulseCounter, banked>>
     \/ /\ pc = "zero" /\ goto("work")
        /\ PulseCounter' = 0 /\ banked' = banked + PulseCount /\ UNCHANGED PulseCount
  /\ UNCHANGED <<Tim3Phase, Pulse, RTC_Flag, polled, late, sent, wakeup>>

Next == TIM3OVF_ISR \/ RTC_irq
          \/ Work \/ TestPulse \/ CountPulse \/ ClearPulse \/ TestWakeup \/ CloseWindow

Spec == Init /\ [][Next]_vars

-----------------------------------------------------------------------------
(* Properties.                                                             *)

\* 1 when the main loop has seen a pulse and not counted it yet
InHand == IF pc = "count" THEN 1 ELSE 0

\* 1 when a pulse was sent and the main loop will count it
Waiting == IF pc = "count" \/ (Pulse = 1 /\ pc # "clear") THEN 1 ELSE 0

Counted == banked + PulseCounter

\* However late the loop tests Pulse and however interrupt and loop overwrite each
\* other's values of it, no pulse is counted twice or in two windows: the measured
\* charge is never too high.
NeverMoreThanSent == Counted + InHand <= sent

\* timers.c, TIM3OVF_ISR: "pulse sent, increment counter".  Every pulse that was
\* sent is in a closed window, in the current one, or about to be counted.
EveryPulseCounted == Counted + Waiting = sent

\* One test of Pulse between any two overflows is enough: until the loop is late
\* for the first time no pulse is lost.
LosslessUntilLate == late = 0 => EveryPulseCounted

\* Until then a window ends at its wake-up, give or take one pulse: one that waits is
\* left to the next window, or one that comes late is let in.
WindowEndsAtWakeup ==
  late = 0 /\ RTC_Flag = 0 /\ pc \notin {"copy", "zero"} =>
    banked \in wakeup - 1 .. wakeup + 1

-----------------------------------------------------------------------------
(* The inductive invariant.                                                *)

TypeOK ==
  /\ Tim3Phase \in {0, 1} /\ Pulse \in {0, 1} /\ RTC_Flag \in {0, 1}
  /\ polled \in {0, 1} /\ late \in {0, 1}
  /\ PulseCounter \in Nat /\ PulseCount \in Nat
  /\ sent \in Nat /\ banked \in Nat /\ wakeup \in Nat
  /\ pc \in {"work", "test", "count", "clear", "rtc", "copy", "zero"}

\* Pulses start in phase 0 only, and a window is closed with what was copied.
Bookkeeping ==
  /\ Tim3Phase = 0 => Pulse = 0
  /\ pc = "zero" => PulseCount = PulseCounter
  /\ Counted + Waiting <= sent

\* When Pulse was tested since the last overflow, the loop is at work on it just if
\* it is up, so that the next overflow destroys nothing.
Polled == polled = 1 => (Pulse = 1 <=> pc \in {"count", "clear"})

\* From a wake-up until its window is copied at most one pulse is sent: when one was,
\* the next overflow is of phase 1, or comes before the loop has polled again.
OnePulseLater ==
  /\ sent = wakeup + 1
  /\ IF pc \in {"work", "test"} THEN Tim3Phase = 1 /\ polled = 0
     ELSE Tim3Phase = 1 \/ polled = 0

\* What each phase of closing a window knows of the wake-up that closes it.
InTime ==
  /\ pc \in {"copy", "zero"} => RTC_Flag = 0
  /\ RTC_Flag = 1 \/ pc = "copy" => sent = wakeup \/ OnePulseLater
  /\ pc = "zero" => banked + PulseCount \in wakeup - 1 .. wakeup + 1

\* Types, what accounts for the pulses, and that none is missing and no window is
\* shifted while the loop is on time: together they are preserved by every step.
PulseInv ==
  /\ TypeOK /\ Bookkeeping
  /\ late = 0 => Polled /\ EveryPulseCounted /\ InTime
  /\ WindowEndsAtWakeup
=============================================================================
