---------------------------- MODULE CmdForm_proofs ----------------------------
(***************************************************************************)
(* Mailbox, timer and buttons keep their promises however often the user   *)
(* clicks, whatever the device answers, and also when the lock was leaked  *)
(* or the form is destroyed under the running thread.                      *)
(***************************************************************************)
EXTENDS CmdForm, TLAPS

LEMMA InitInv == FormInit => FormInv
BY DEF FormInit, Init, Idle, FormFree, InitialButtons, FormInv, MailInv, TypeOK, Places, Timed, Buttons,
       Fitting, Fits, Storing, Commands, Requests, SettingsFromDevice, Leaving,
       OwnInv, FittingOwn, FitsOwn

\* The steps of module CmdThread.
LEMMA MailStep ==
  ASSUME MailInv, [Next]_vars
  PROVE  MailInv'
<1> USE DEF MailInv, TypeOK, Places, Timed, Buttons, Fitting, Fits, Storing, Idle, FormFree,
            Commands, Requests, mailbox, form, thread
<1>1. ASSUME NEW p \in {"form", "thread"}, Lock(p) PROVE MailInv'
  BY <1>1 DEF Lock, Go
<1>2. ASSUME NEW p \in {"form", "thread"}, KillAndStore(p) PROVE MailInv'
  <2>1. TypeOK'
    BY <1>2 DEF KillAndStore, Go, InCallback
  <2>2. Places'
    BY <1>2 DEF KillAndStore, Go, InCallback
  <2>3. Timed'
    BY <1>2 DEF KillAndStore, Go, InCallback
  <2>4. Buttons'
    BY <1>2 DEF KillAndStore, Go, InCallback
  <2>5. Fitting'
    BY <1>2 DEF KillAndStore, Go, InCallback
  <2> QED BY <2>1, <2>2, <2>3, <2>4, <2>5
<1>3. ASSUME NEW p \in {"form", "thread"}, Signal(p) PROVE MailInv'
  BY <1>3 DEF Signal
<1>4. CASE Fire
  BY <1>4 DEF Fire
<1>5. CASE TimerProcStore
  BY <1>5 DEF TimerProcStore
<1>6. CASE TimerProcSignal
  BY <1>6 DEF TimerProcSignal
<1>7. CASE Click
  <2>1. TypeOK'
    BY <1>7 DEF Click, ClickPosts, Begin
  <2>2. Places'
    BY <1>7 DEF Click, ClickPosts, Begin
  <2>3. Timed'
    BY <1>7 DEF Click, ClickPosts, Begin
  <2>4. Buttons'
    BY <1>7 DEF Click, ClickPosts, Begin
  <2>5. Fitting'
    BY <1>7 DEF Click, ClickPosts, Begin
  <2> QED BY <2>1, <2>2, <2>3, <2>4, <2>5
<1>8. CASE btnEnterCalClick
  <2>1. TypeOK'
    BY <1>8 DEF btnEnterCalClick, Begin
  <2>2. Places'
    BY <1>8 DEF btnEnterCalClick, Begin
  <2>3. Timed'
    BY <1>8 DEF btnEnterCalClick, Begin
  <2>4. Buttons'
    BY <1>8 DEF btnEnterCalClick, Begin
  <2>5. Fitting'
    BY <1>8 DEF btnEnterCalClick, Begin
  <2> QED BY <2>1, <2>2, <2>3, <2>4, <2>5
<1>9. CASE WaitEvent
  BY <1>9 DEF WaitEvent
<1>10. CASE Take
  <2>1. TypeOK'
    BY <1>10 DEF Take
  <2>2. Places'
    BY <1>10 DEF Take
  <2>3. Timed'
    BY <1>10 DEF Take
  <2>4. Buttons'
    BY <1>10 DEF Take
  <2>5. Fitting'
    BY <1>10 DEF Take
  <2> QED BY <2>1, <2>2, <2>3, <2>4, <2>5
<1>11. CASE Run
  <2>1. TypeOK'
    BY <1>11 DEF Run, JobOpen, JobGetData, JobRequest, JobFail, Post, Begin
  <2>2. Places'
    BY <1>11 DEF Run, JobOpen, JobGetData, JobRequest, JobFail, Post, Begin
  <2>3. Timed'
    BY <1>11 DEF Run, JobOpen, JobGetData, JobRequest, JobFail, Post, Begin
  <2>4. Buttons'
    BY <1>11 DEF Run, JobOpen, JobGetData, JobRequest, JobFail, Post, Begin
  <2>5. Fitting'
    BY <1>11 DEF Run, JobOpen, JobGetData, JobRequest, JobFail, Post, Begin
  <2> QED BY <2>1, <2>2, <2>3, <2>4, <2>5
<1>12. CASE Synchronize
  <2>1. TypeOK'
    BY <1>12 DEF Synchronize, AfterUpdate, Post, Begin
  <2>2. Places'
    BY <1>12 DEF Synchronize, AfterUpdate, Post, Begin
  <2>3. Timed'
    BY <1>12 DEF Synchronize, AfterUpdate, Post, Begin
  <2>4. Buttons'
    BY <1>12 DEF Synchronize, AfterUpdate, Post, Begin,
       Update, ActivateMainPage, DeactivateMainPage, JobStartMeasUpdate, JobStopMeasUpdate
  <2>5. Fitting'
    BY <1>12 DEF Synchronize, AfterUpdate, Post, Begin,
       Update, ActivateMainPage, DeactivateMainPage, JobStartMeasUpdate, JobStopMeasUpdate
  <2> QED BY <2>1, <2>2, <2>3, <2>4, <2>5
<1>13. CASE SetThrTimer
  BY <1>13 DEF SetThrTimer
<1>14. CASE SetThrTimerArm
  BY <1>14 DEF SetThrTimerArm, InCallback
<1>15. CASE UNCHANGED vars
  BY <1>15 DEF vars
<1> QED BY <1>1, <1>2, <1>3, <1>4, <1>5, <1>6, <1>7, <1>8,
           <1>9, <1>10, <1>11, <1>12, <1>13, <1>14, <1>15
           DEF Next, Posting, TimerCallback, Execute

\* The form's other steps move only the form, or post like SetThrCmd does.
LEMMA FormStep ==
  ASSUME FormInv,
         ChooseCom \/ CmbComChange \/ PostInside \/ FormDestroy \/ CopyParameters \/ ThreadEnds
  PROVE  MailInv'
<1> USE DEF FormInv, MailInv, TypeOK, Places, Timed, Buttons, Fitting, Fits, Storing, Idle, FormFree,
            Commands, Requests, mailbox, form, thread, vars
<1>1. CASE ChooseCom
  BY <1>1 DEF ChooseCom
<1>2. CASE CmbComChange
  BY <1>2 DEF CmbComChange
<1>3. CASE PostInside
  <2>1. TypeOK'
    BY <1>3 DEF PostInside, Go
  <2>2. Places'
    BY <1>3 DEF PostInside, Go
  <2>3. Timed'
    BY <1>3 DEF PostInside, Go
  <2>4. Buttons'
    BY <1>3 DEF PostInside
  <2>5. Fitting'
    BY <1>3 DEF PostInside, Go
  <2> QED BY <2>1, <2>2, <2>3, <2>4, <2>5
<1>4. CASE FormDestroy
  BY <1>4 DEF FormDestroy, DestroyAt
<1>5. CASE CopyParameters
  BY <1>5 DEF CopyParameters
<1>6. CASE ThreadEnds
  BY <1>6 DEF ThreadEnds
<1> QED BY <1>1, <1>2, <1>3, <1>4, <1>5, <1>6

\* Every step is one of module CmdThread or one of the form's other steps.
LEMMA Steps ==
  ASSUME [FormNext]_formAllVars
  PROVE  \/ [Next]_vars
         \/ ChooseCom \/ CmbComChange \/ PostInside \/ FormDestroy \/ CopyParameters \/ ThreadEnds
BY DEF FormNext, formAllVars, Clicked, FormPosts, Works, RunJob, ShowJob, Ticks,
       Next, Posting, Execute

\* The lock that CmbComChange leaked is never free again.
LEMMA LeakStep ==
  ASSUME FormInv, [FormNext]_formAllVars
  PROVE  leaked' => lock' = "form"
<1> USE DEF FormInv
<1>1. CASE Clicked
  BY <1>1 DEF Clicked, Click, btnEnterCalClick
<1>2. CASE ChooseCom \/ PostInside \/ FormDestroy \/ ThreadEnds
  BY <1>2 DEF ChooseCom, PostInside, FormDestroy, ThreadEnds, formVars
<1>3. CASE CmbComChange
  BY <1>3 DEF CmbComChange
<1>4. CASE FormPosts
  BY <1>4 DEF FormPosts, Lock, KillAndStore, Signal, formVars
<1>5. CASE Works
  BY <1>5 DEF Works, CopyParameters, RunJob, Run, ShowJob, Synchronize, Lock, Posting,
       KillAndStore, Signal, WaitEvent, Take, SetThrTimer, SetThrTimerArm, formVars, vars,
       MailInv, Places
<1>6. CASE Ticks
  BY <1>6 DEF Ticks, TimerCallback, Fire, TimerProcStore, TimerProcSignal, formVars
<1>7. CASE UNCHANGED formAllVars
  BY <1>7 DEF formAllVars, formVars, vars
<1> QED BY <1>1, <1>2, <1>3, <1>4, <1>5, <1>6, <1>7 DEF FormNext

\* The settings shown change to something else than an answer only when the port is
\* opened, and a command to open is executed only while they cannot be set.
LEMMA SettingsStep ==
  ASSUME FormInv, [FormNext]_formAllVars
  PROVE  SettingsFromDevice'
<1> USE DEF FormInv, SettingsFromDevice
<1>1. CASE Clicked
  BY <1>1 DEF Clicked, Click, btnEnterCalClick, form
<1>2. CASE ChooseCom \/ CmbComChange \/ PostInside \/ FormPosts \/ FormDestroy \/ ThreadEnds
  BY <1>2 DEF ChooseCom, CmbComChange, PostInside, FormPosts, Lock, KillAndStore, Signal,
       FormDestroy, ThreadEnds, formVars, form
<1>3. CASE CopyParameters
  BY <1>3 DEF CopyParameters, vars, form
<1>4. CASE RunJob
  BY <1>4 DEF RunJob, Run, form, MailInv, Fitting, Fits
<1>5. CASE ShowJob
  BY <1>5 DEF ShowJob, Synchronize, Update, ActivateMainPage, DeactivateMainPage,
       JobStartMeasUpdate, JobStopMeasUpdate
<1>6. CASE UNCHANGED <<ui, edtVT>>
  BY <1>6
<1>7. CASE Works \/ Ticks
  BY <1>3, <1>4, <1>5, <1>6, <1>7 DEF Works, Lock, Posting, KillAndStore, Signal, WaitEvent,
       Take, SetThrTimer, SetThrTimerArm, Ticks, TimerCallback, Fire, TimerProcStore,
       TimerProcSignal, formVars, form
<1>8. CASE UNCHANGED formAllVars
  BY <1>6, <1>8 DEF formAllVars, formVars, vars, form
<1> QED BY <1>1, <1>2, <1>7, <1>8 DEF FormNext

\* The parameters a click leaves in comm_txbuff, and whether it crossed a start or a stop.
LEMMA ClickedStep ==
  ASSUME Clicked
  PROVE  /\ Click \/ btnEnterCalClick
         /\ UNCHANGED copied
         /\ ~crossed' => ~crossed /\ ~(caption = "Enter" /\ caption' = "Exit" /\ SwitchUnderWay)
         /\ comm_txbuff' = IF post'["form"].cmd \in Sets THEN ParamsOf(post'["form"].cmd)
                                                         ELSE comm_txbuff
<1>1. crossed' = (crossed \/ (caption = "Enter" /\ caption' = "Exit" /\ SwitchUnderWay))
  BY DEF Clicked
<1>2. ~crossed' => ~crossed /\ ~(caption = "Enter" /\ caption' = "Exit" /\ SwitchUnderWay)
  BY <1>1, Zenon
<1> QED BY <1>2 DEF Clicked

\* The parameters in comm_txbuff are those of the command that waits or is executed.
LEMMA OwnStep ==
  ASSUME FormInv, [FormNext]_formAllVars
  PROVE  OwnInv'
<1> USE DEF FormInv, MailInv, TypeOK, Places, Buttons, Fitting, Fits, OwnInv, FittingOwn,
            FitsOwn, Storing, Idle, FormFree, Commands, Requests, Sets, ParamsOf, mailbox, form, thread,
            formVars, vars
<1>1. CASE Clicked
  <2>1. CASE Click
    BY <1>1, <2>1, ClickedStep DEF Click, ClickPosts, Begin
  <2>2. CASE btnEnterCalClick
    BY <1>1, <2>2, ClickedStep DEF btnEnterCalClick, Begin, SwitchUnderWay
  <2> QED BY <1>1, <2>1, <2>2, ClickedStep
<1>2. CASE ChooseCom \/ CmbComChange
  BY <1>2 DEF ChooseCom, CmbComChange
<1>3. CASE PostInside
  BY <1>3 DEF PostInside, Go
<1>4. CASE FormPosts
  <2>1. CASE Lock("form")
    BY <1>4, <2>1 DEF FormPosts, Lock, Go
  <2>2. CASE KillAndStore("form")
    BY <1>4, <2>2 DEF FormPosts, KillAndStore, Go
  <2>3. CASE Signal("form")
    BY <1>4, <2>3 DEF FormPosts, Signal
  <2> QED BY <1>4, <2>1, <2>2, <2>3 DEF FormPosts
<1>5. CASE FormDestroy \/ ThreadEnds
  BY <1>5 DEF FormDestroy, DestroyAt, ThreadEnds
<1>6. CASE CopyParameters
  BY <1>6 DEF CopyParameters
<1>7. CASE RunJob
  BY <1>7 DEF RunJob, Run, JobOpen, JobGetData, JobRequest, JobFail, Post, Begin
<1>8. CASE ShowJob
  BY <1>8 DEF ShowJob, Synchronize, Update, AfterUpdate, Post, Begin,
       ActivateMainPage, DeactivateMainPage, JobStartMeasUpdate, JobStopMeasUpdate
<1>9. CASE /\ Lock("thread") \/ Posting("thread")
                \/ WaitEvent \/ Take \/ SetThrTimer \/ SetThrTimerArm
           /\ UNCHANGED formVars
  <2>1. CASE Lock("thread")
    BY <1>9, <2>1 DEF Lock, Go
  <2>2. CASE Posting("thread")
    BY <1>9, <2>2 DEF Posting, KillAndStore, Signal, Go
  <2>3. CASE Take
    BY <1>9, <2>3 DEF Take
  <2>4. CASE WaitEvent \/ SetThrTimer \/ SetThrTimerArm
    BY <1>9, <2>4 DEF WaitEvent, SetThrTimer, SetThrTimerArm
  <2> QED BY <1>9, <2>1, <2>2, <2>3, <2>4
<1>10. CASE Ticks
  BY <1>10 DEF Ticks, TimerCallback, Fire, TimerProcStore, TimerProcSignal
<1>11. CASE UNCHANGED formAllVars
  BY <1>11 DEF formAllVars
<1> QED BY <1>1, <1>2, <1>3, <1>4, <1>5, <1>6, <1>7, <1>8, <1>9, <1>10, <1>11
        DEF FormNext, Works

\* A thread that waits when the form is destroyed is never woken again.
AtRest == tpc \in {"wait", "ended"} /\ ~thr_cmd_event /\ timer = "off"

LEMMA RestStep ==
  ASSUME FormInv, [FormNext]_formAllVars, (Leaving /\ ~busy)'
  PROVE  AtRest'
<1> USE DEF AtRest, Leaving
<1>1. CASE FormFree /\ FormDestroy
  BY <1>1 DEF FormDestroy, DestroyAt, FormFree, FormInv, MailInv, TypeOK, mailbox, thread
<1>2. CASE Leaving /\ ~busy
  <2>1. AtRest /\ post["thread"].at = "idle" /\ ~FormFree /\ post["form"].at \notin {"com", "lock", "kill", "signal"}
    BY <1>2 DEF FormInv, MailInv, Places, Idle, FormFree
  <2>2. CASE ThreadEnds
    BY <2>1, <2>2 DEF ThreadEnds, mailbox
  <2>3. CASE FormDestroy
    BY <2>1, <2>3 DEF FormDestroy, mailbox, thread
  <2>4. CASE UNCHANGED formAllVars
    BY <2>1, <2>4 DEF formAllVars, vars, mailbox, thread
  <2> QED BY <2>1, <2>2, <2>3, <2>4
          DEF FormNext, Clicked, Click, btnEnterCalClick, ChooseCom, CmbComChange, PostInside,
              FormPosts, Lock, KillAndStore, Signal, Works, CopyParameters, RunJob, Run, ShowJob,
              Synchronize, Posting, WaitEvent, Take, SetThrTimer, SetThrTimerArm, Ticks,
              TimerCallback, Fire, TimerProcStore, TimerProcSignal
<1>3. \/ FormFree /\ FormDestroy
      \/ Leaving /\ ~busy
  <2>1. DOMAIN post = {"form", "thread"}
    BY DEF FormInv, MailInv, TypeOK
  <2> QED BY <2>1 DEF FormNext, Clicked, Click, btnEnterCalClick, Begin, ChooseCom, CmbComChange,
              PostInside, Go, FormPosts, Lock, KillAndStore, Signal, Idle, FormDestroy, DestroyAt,
              FormFree, Works, CopyParameters, RunJob, Run, JobOpen, JobGetData, JobRequest, Post,
              ShowJob, Synchronize, AfterUpdate, Posting, WaitEvent, Take, SetThrTimer,
              SetThrTimerArm, ThreadEnds, Ticks, TimerCallback, Fire, TimerProcStore,
              TimerProcSignal, formVars, formAllVars, vars
<1> QED BY <1>1, <1>2, <1>3

LEMMA FormInvStep == FormInv /\ [FormNext]_formAllVars => FormInv'
<1> SUFFICES ASSUME FormInv, [FormNext]_formAllVars PROVE FormInv'
  OBVIOUS
<1>1. MailInv'
  BY Steps, MailStep, FormStep DEF FormInv
<1>2. SettingsFromDevice' /\ OwnInv' /\ (leaked' => lock' = "form")
  BY SettingsStep, OwnStep, LeakStep
<1>3. (Leaving /\ ~busy)' => AtRest'
  BY RestStep
<1> QED BY <1>1, <1>2, <1>3 DEF FormInv, AtRest

\* The inductive invariant holds of every behaviour.
THEOREM FormInvariant == FormSpec => []FormInv
<1> QED BY InitInv, FormInvStep, PTL DEF FormSpec

\* However often the user clicks, TimerProc never overwrites a command.
THEOREM NeverOverwrites == FormSpec => []TimerNeverOverwrites
<1>1. FormInv => TimerNeverOverwrites
  BY DEF FormInv, MailInv, Timed, TimerNeverOverwrites
<1> QED BY <1>1, FormInvariant, PTL

\* However often the user clicks, neither the thread nor the end of a close waits for a
\* callback that waits for it.
THEOREM ThreadNeverDeadlocks == FormSpec => []OnlyClicksDeadlock
<1>1. FormInv => OnlyClicksDeadlock
  BY DEF FormInv, MailInv, Places, Timed, Idle, OnlyClicksDeadlock
<1> QED BY <1>1, FormInvariant, PTL

\* However often the user clicks, nothing polls behind a form that offers to start.
THEOREM StoppedMeansStopped == FormSpec => []PollingStopped
<1>1. FormInv => PollingStopped
  BY DEF FormInv, MailInv, Places, Fitting, Fits, Polling, PollingStopped
<1> QED BY <1>1, FormInvariant, PTL

\* Settings that the device did not report are never sent to it.
THEOREM OnlyReportedSettings == FormSpec => []SettingsFromDevice
<1>1. FormInv => SettingsFromDevice
  BY DEF FormInv
<1> QED BY <1>1, FormInvariant, PTL

\* Unless calibration was entered during a start or a stop, a set request carries its
\* own parameters.
THEOREM RequestsCarryOwnParameters == FormSpec => []OwnParameters
<1>1. FormInv => OwnParameters
  BY DEF FormInv, OwnInv, OwnParameters
<1> QED BY <1>1, FormInvariant, PTL

\* A form that is destroyed while nothing is under way leaves no use of its lock behind.
THEOREM DestroyedCleanly == FormSpec => []CleanExit
<1>1. FormInv => CleanExit
  BY DEF FormInv, MailInv, Places, Leaving, CleanExit
<1> QED BY <1>1, FormInvariant, PTL
=============================================================================
