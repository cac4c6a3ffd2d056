------------------------------ MODULE CmdForm ------------------------------
(***************************************************************************)
(* The rest of the form around module CmdThread: the parameters that the   *)
(* set buttons leave in comm_txbuff and the thread copies without a common *)
(* lock, the settings shown in edtVoltage and edtTime, the list of ports,  *)
(* and the destruction of the form under the running thread.               *)
(***************************************************************************)
EXTENDS CmdThread

VARIABLES
  comm_txbuff,   \* whose parameters its first bytes are: "vt", "cal"
  copied,        \* what the set request under way took out of it
  edtVT,         \* where the settings shown come from: "design", "device", "stale"
  leaked,        \* has CmbComChange returned with the lock?
  crossed,       \* history: was calibration entered during a start or a stop?
  busy           \* history: was the thread at work when the form was destroyed?

formVars    == <<comm_txbuff, copied, edtVT, leaked, crossed, busy>>
formAllVars == <<vars, formVars>>

FormInit ==
  /\ Init
  /\ comm_txbuff = "none" /\ copied = "none" /\ edtVT = "design"
  /\ leaked = FALSE /\ crossed = FALSE /\ busy = FALSE

Sets == {"SETVOLT", "SETCALIBR"}
ParamsOf(c) == IF c = "SETVOLT" THEN "vt" ELSE "cal"

-----------------------------------------------------------------------------
(* The form.                                                               *)

\* A measurement is about to be started or stopped.
SwitchUnderWay ==
  \E c \in {"STARTMEAS", "STOPMEAS"} :
    \/ thr_cmd_job = c \/ post["thread"].cmd = c
    \/ job = c /\ tpc \in {"run", "sync"}

\* The set buttons fill comm_txbuff before they post.
Clicked ==
  /\ Click \/ btnEnterCalClick
  /\ LET c == post'["form"].cmd IN
     comm_txbuff' = IF c \in Sets THEN ParamsOf(c) ELSE comm_txbuff
  /\ crossed' = (crossed \/ (caption = "Enter" /\ caption' = "Exit" /\ SwitchUnderWay))
  /\ UNCHANGED <<copied, edtVT, leaked, busy>>

ChooseCom ==
  /\ FormFree /\ clicks < MaxClicks /\ "CmbCom" \in ui
  /\ clicks' = clicks + 1
  /\ post' = [post EXCEPT !["form"] = [at |-> "com", cmd |-> "NOTHING"]]
  /\ UNCHANGED <<mailbox, timer, lock, thread, ui, caption, asked, formVars>>

\* The form may enter a lock it has.  With no port selected it never leaves it.
CmbComChange ==
  /\ post["form"].at = "com" /\ (lock = "free" \/ leaked)
  /\ post' = [post EXCEPT !["form"] = Idle]
  /\ \/ UNCHANGED <<lock, leaked>>
     \/ lock' = "form" /\ leaked' = TRUE
  /\ UNCHANGED <<mailbox, timer, thread, form, comm_txbuff, copied, edtVT, crossed, busy>>

\* set_thr_cmd with the lock that was never left
PostInside ==
  /\ leaked
  /\ \/ /\ post["form"].at = "lock"
        /\ Go("form", "kill")
        /\ UNCHANGED <<mailbox, timer>>
     \/ /\ post["form"].at = "kill" /\ ~InCallback
        /\ timer' = "off" /\ thr_cmd_job' = post["form"].cmd
        /\ Go("form", "signal")
        /\ UNCHANGED thr_cmd_event
  /\ UNCHANGED <<lock, thread, form, formVars>>

FormPosts ==
  /\ \/ Lock("form")
     \/ KillAndStore("form") /\ ~leaked
     \/ Signal("form")
  /\ UNCHANGED formVars

-----------------------------------------------------------------------------
(* FormDestroy: kill the timer, Terminate, close the event and delete the  *)
(* lock.  The form's thread handles nothing else any more.                 *)

Leaving == post["form"].at \in {"killed", "terminated", "gone"}

DestroyAt(a) == post' = [post EXCEPT !["form"] = [at |-> a, cmd |-> "NOTHING"]]

\* Mutant: the timer is left to its own.
FormDestroy_keepsTimer ==
  /\ \/ FormFree /\ DestroyAt("killed") /\ busy' = (tpc # "wait" \/ thr_cmd_event)
     \/ post["form"].at = "killed" /\ DestroyAt("terminated") /\ UNCHANGED busy
     \/ post["form"].at = "terminated" /\ DestroyAt("gone") /\ UNCHANGED busy
  /\ UNCHANGED <<mailbox, timer, lock, thread, form, comm_txbuff, copied, edtVT, leaked, crossed>>

FormDestroy ==
  /\ \/ /\ FormFree /\ ~InCallback /\ timer' = "off"
        /\ DestroyAt("killed") /\ busy' = (tpc # "wait" \/ thr_cmd_event)
     \/ post["form"].at = "killed" /\ DestroyAt("terminated") /\ UNCHANGED <<timer, busy>>
     \/ post["form"].at = "terminated" /\ DestroyAt("gone") /\ UNCHANGED <<timer, busy>>
  /\ UNCHANGED <<mailbox, lock, thread, form, comm_txbuff, copied, edtVT, leaked, crossed>>

-----------------------------------------------------------------------------
(* The thread.                                                             *)

\* processcommand copies the parameters when the request is made, whatever the form
\* is doing.
CopyParameters ==
  /\ tpc = "run" /\ job \in Sets /\ copied = "none" /\ port = "open"
  /\ copied' = comm_txbuff
  /\ UNCHANGED <<vars, comm_txbuff, edtVT, leaked, crossed, busy>>

\* JobOpen shows what is in comm_rxbuff, whether VT_READ was answered or not.
RunJob ==
  /\ Run
  /\ job \in Sets /\ port = "open" => copied # "none"
  /\ copied' = "none"
  /\ \/ job = "OPEN" /\ port' = "open" /\ edtVT' \in {"device", "stale"}
     \/ (job # "OPEN" \/ port' # "open") /\ UNCHANGED edtVT
  /\ UNCHANGED <<comm_txbuff, leaked, crossed, busy>>

\* JobStopMeasUpdate and JobGetVTUpdate come after an answer.
ShowJob ==
  /\ Synchronize
  /\ edtVT' = IF job \in {"STOPMEAS", "GETVT"} THEN "device" ELSE edtVT
  /\ UNCHANGED <<comm_txbuff, copied, leaked, crossed, busy>>

\* while (!Terminated); waiting for a closed event fails.  The timer is killed.
ThreadEnds ==
  /\ tpc = "wait" /\ post["form"].at \in {"terminated", "gone"} /\ ~InCallback
  /\ tpc' = "ended" /\ timer' = "off"
  /\ UNCHANGED <<mailbox, lock, post, job, reload_flag, port, served, form, formVars>>

Works ==
  /\ post["form"].at # "gone"
  /\ \/ CopyParameters \/ RunJob \/ ShowJob
     \/ /\ Lock("thread") \/ Posting("thread")
             \/ WaitEvent \/ Take \/ SetThrTimer \/ SetThrTimerArm
        /\ UNCHANGED formVars

Ticks == TimerCallback /\ UNCHANGED formVars

FormNext ==
  \/ Clicked \/ ChooseCom \/ CmbComChange \/ PostInside \/ FormPosts \/ FormDestroy
  \/ Works \/ ThreadEnds \/ Ticks

FormSpec == FormInit /\ [][FormNext]_formAllVars

\* As in module CmdThread.
FormFairness ==
  /\ WF_formAllVars(Ticks) /\ WF_formAllVars(Works \/ ThreadEnds)
  /\ WF_formAllVars(PostInside \/ (FormPosts /\ ~Lock("form")))
  /\ SF_formAllVars(CmbComChange) /\ SF_formAllVars(Lock("form") /\ UNCHANGED formVars)

LiveFormSpec == FormSpec /\ FormFairness

-----------------------------------------------------------------------------
(* Properties.                                                             *)

\* The two set buttons share comm_txbuff, and only their being enabled at different
\* times keeps them apart.  A set request carries the parameters of the other button
\* in one case only: after calibration was entered while a start or a stop was under
\* way, whose update of the form then enables both.
OwnParameters == copied # "none" /\ ~crossed => copied = ParamsOf(job)

\* JobOpen may show settings that are not the device's, but the Set button is enabled
\* only when the device has reported them: they are never sent back to it.
SettingsFromDevice == "SetVoltage" \in ui => edtVT = "device"

\* A port that was closed from the form can be opened again: the click on Open is taken
\* up, and no command the thread posts at the end of a job overwrites it, unless the
\* lock was leaked.  (Before the first opening the form's design leaves the Read button
\* enabled, and a click on Open during that request can be lost.)
OpenObeyed ==
  (asked = "OPEN" /\ FormFree /\ "ReadVoltage" \notin ui)
    ~> (asked # "OPEN" \/ "Open" \notin ui \/ leaked \/ Leaving)

\* When nothing was under way the form is destroyed cleanly: the thread does not use
\* the lock that was deleted.
CleanExit ==
  post["form"].at = "gone" /\ ~busy =>
    tpc \in {"wait", "ended"} /\ post["thread"] = Idle /\ timer = "off"

-----------------------------------------------------------------------------
(* The inductive invariant: that of module CmdThread, and what holds of    *)
(* the leaked lock and while the form is being destroyed.                  *)

\* The buttons and parameters behind which a command may be executed.
FitsOwn(c) ==
  /\ c = "SETVOLT" => "SetCal" \notin ui /\ "EnterCal" \notin ui /\ comm_txbuff = "vt"
  /\ c = "SETCALIBR" => "SetVoltage" \notin ui /\ comm_txbuff = "cal"
  /\ c \in {"STARTMEAS", "STOPMEAS"} => "SetCal" \notin ui

FittingOwn ==
  /\ FitsOwn(thr_cmd_job) \/ Storing("thread") \/ (tpc = "closing" /\ Storing("form"))
  /\ post["thread"].at # "idle" => FitsOwn(post["thread"].cmd)
  /\ Storing("form") => FitsOwn(post["form"].cmd)
  /\ tpc \in {"run", "sync"} => FitsOwn(job)

OwnInv ==
  /\ copied # "none" => tpc = "run" /\ job \in Sets
  /\ "EnterCal" \in ui => "SetVoltage" \notin ui
  /\ ~crossed =>
       /\ "SetCal" \in ui => "Start" \notin ui /\ "Stop" \notin ui /\ "SetVoltage" \notin ui
       /\ FittingOwn
       /\ copied # "none" => copied = ParamsOf(job)

FormInv ==
  /\ MailInv /\ SettingsFromDevice /\ OwnInv
  /\ leaked => lock = "form"
  /\ Leaving /\ ~busy =>
       tpc \in {"wait", "ended"} /\ ~thr_cmd_event /\ timer = "off"
=============================================================================
