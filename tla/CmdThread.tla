----------------------------- MODULE CmdThread -----------------------------
(***************************************************************************)
(* The command thread of the PC program (Unit_Cmd.cpp) with the form's     *)
(* buttons (Unit_main.cpp) and the multimedia timer.  All three write the  *)
(* one-command mailbox thr_cmd_job under a lock and then set the auto-     *)
(* reset event the thread waits for; the form and the thread first kill    *)
(* the timer.  The timer was armed with TIME_KILL_SYNCHRONOUS, so a kill   *)
(* waits for a callback in flight to return.                               *)
(*                                                                         *)
(* What the thread does to the form runs in the form's own thread          *)
(* (Synchronize), hence only between two handlers of clicks.               *)
(***************************************************************************)
EXTENDS Integers

CONSTANT MaxClicks      \* bound on the clicks of the user

ASSUME ClicksAssumption == MaxClicks \in Nat

VARIABLES
  thr_cmd_job,      \* the mailbox
  thr_cmd_event,
  timer,            \* "off", "armed", then the callback: "fired", "stored"
  lock,             \* who holds thr_cmd_critsect between two steps
  post,             \* for each poster, its place in SetThrCmd and the command
  tpc, job,         \* the thread's next step, and the command it executes
  reload_flag,
  port,             \* "closed" or "open"
  ui, caption,      \* the enabled controls, and the caption of btnEnterCal
  clicks,
  asked,            \* history: the command clicked last, until it is taken
  served            \* history: the last command taken that is not a poll

mailbox == <<thr_cmd_job, thr_cmd_event>>
form    == <<ui, caption, clicks, asked>>
thread  == <<tpc, job, reload_flag, port, served>>
vars    == <<mailbox, timer, lock, post, thread, form>>

\* The commands that are executed as one request to the device.
Requests == {"GETDATA", "GETCALIBR", "SETCALIBR", "GETVT", "SETVOLT", "STOPMEAS"}
Commands == Requests \cup {"OPEN", "CLOSE", "STARTMEAS"}

\* What the clicks on the buttons post, btnEnterCal's apart.
ClickPosts ==
  [Open |-> "OPEN", Close |-> "CLOSE", Start |-> "STARTMEAS", Stop |-> "STOPMEAS",
   ReadVoltage |-> "GETVT", SetVoltage |-> "SETVOLT", SetCal |-> "SETCALIBR"]

Idle == [at |-> "idle", cmd |-> "NOTHING"]

\* The buttons, and the list of ports, the form's design leaves enabled
InitialButtons == {"Open", "ReadVoltage", "CmbCom"}

Init ==
  /\ thr_cmd_job = "NOTHING" /\ thr_cmd_event = FALSE
  /\ timer = "off" /\ lock = "free"
  /\ post = [p \in {"form", "thread"} |-> Idle]
  /\ tpc = "wait" /\ job = "NOP" /\ reload_flag = 0 /\ port = "closed"
  /\ ui = InitialButtons /\ caption = "Enter" /\ clicks = 0
  /\ asked = "none" /\ served = "none"

FormFree == post["form"].at = "idle"

-----------------------------------------------------------------------------
(* SetThrCmd, in the thread and in the form.                               *)

\* the poster's next step
Go(p, step) == post' = [post EXCEPT ![p] = [at |-> step, cmd |-> post[p].cmd]]

Begin(p, c) == post' = [post EXCEPT ![p] = [at |-> "lock", cmd |-> c]]

Lock(p) ==
  /\ post[p].at = "lock" /\ lock = "free"
  /\ lock' = p /\ Go(p, "kill")
  /\ UNCHANGED <<mailbox, timer, thread, form>>

InCallback == timer \in {"fired", "stored"}

\* Mutant: without TIME_KILL_SYNCHRONOUS the kill does not wait.
KillAndStore_asynchronous(p) ==
  /\ post[p].at = "kill"
  /\ timer' = IF InCallback THEN timer ELSE "off"
  /\ thr_cmd_job' = post[p].cmd
  /\ lock' = "free" /\ Go(p, "signal")
  /\ UNCHANGED <<thr_cmd_event, thread, form>>

KillAndStore(p) ==
  /\ post[p].at = "kill" /\ ~InCallback
  /\ timer' = "off"
  /\ thr_cmd_job' = post[p].cmd
  /\ lock' = "free" /\ Go(p, "signal")
  /\ UNCHANGED <<thr_cmd_event, thread, form>>

\* The thread's own command ends its job; the one of DeactivateMainPage, in the form,
\* lets JobClose go on to close the port.
Signal(p) ==
  /\ post[p].at = "signal"
  /\ thr_cmd_event' = TRUE
  /\ post' = [post EXCEPT ![p] = Idle]
  /\ LET closes == p = "form" /\ tpc = "closing" IN
     /\ tpc'  = IF p = "thread" \/ closes THEN "wait" ELSE tpc
     /\ port' = IF closes THEN "closed" ELSE port
  /\ UNCHANGED <<thr_cmd_job, timer, lock, job, reload_flag, served, form>>

-----------------------------------------------------------------------------
(* The timer.                                                              *)

Fire ==
  /\ timer = "armed" /\ timer' = "fired"
  /\ UNCHANGED <<mailbox, lock, post, thread, form>>

TimerProcStore ==
  /\ timer = "fired" /\ lock = "free"
  /\ thr_cmd_job' = "GETDATA" /\ timer' = "stored"
  /\ UNCHANGED <<thr_cmd_event, lock, post, thread, form>>

TimerProcSignal ==
  /\ timer = "stored"
  /\ thr_cmd_event' = TRUE /\ timer' = "off"
  /\ UNCHANGED <<thr_cmd_job, lock, post, thread, form>>

-----------------------------------------------------------------------------
(* The user.                                                               *)

Click ==
  /\ FormFree /\ clicks < MaxClicks
  /\ clicks' = clicks + 1
  /\ \E b \in ui \cap DOMAIN ClickPosts :
       Begin("form", ClickPosts[b]) /\ asked' = ClickPosts[b]
  /\ UNCHANGED <<mailbox, timer, lock, thread, ui, caption>>

btnEnterCalClick ==
  /\ FormFree /\ clicks < MaxClicks /\ "EnterCal" \in ui
  /\ clicks' = clicks + 1
  /\ \/ /\ caption = "Enter" /\ caption' = "Exit"
        /\ ui' = (ui \ {"Close", "Stop"}) \cup {"SetCal"}
        /\ Begin("form", "GETCALIBR") /\ asked' = "GETCALIBR"
     \/ /\ caption = "Exit" /\ caption' = "Enter"
        /\ ui' = (ui \ {"SetCal"}) \cup {"Close", "Stop"}
        /\ UNCHANGED <<post, asked>>
  /\ UNCHANGED <<mailbox, timer, lock, thread>>

-----------------------------------------------------------------------------
(* The thread.                                                             *)

WaitEvent ==
  /\ tpc = "wait" /\ thr_cmd_event
  /\ tpc' = "take" /\ thr_cmd_event' = FALSE
  /\ UNCHANGED <<thr_cmd_job, timer, lock, post, job, reload_flag, port, served, form>>

\* "NOP" and "NOTHING" are no work
Take ==
  /\ tpc = "take" /\ lock = "free"
  /\ job' = thr_cmd_job /\ thr_cmd_job' = "NOP"
  /\ tpc' = IF job' \in {"CLOSE", "STARTMEAS"} THEN "sync"
            ELSE IF job' \in Commands THEN "run" ELSE "wait"
  /\ served' = IF job' \in Commands \ {"GETDATA"} THEN job' ELSE served
  /\ asked' = IF job' = asked THEN "none" ELSE asked
  /\ UNCHANGED <<thr_cmd_event, timer, lock, post, reload_flag, port, ui, caption, clicks>>

Post(c) == tpc' = "post" /\ Begin("thread", c)

\* serial_init may fail.  Once the port is open VT_READ's result makes no difference.
JobOpen ==
  /\ job = "OPEN"
  /\ \/ port' = "open" /\ tpc' = "sync"
     \/ port' = "closed" /\ tpc' = "wait"
  /\ UNCHANGED <<post, reload_flag>>

\* processcommand's result: answered, not answered, or another error
Results == IF port = "open" THEN {"OK", "NO_ANS", "ERR"} ELSE {"ERR"}

\* Mutant: the timer is not set again after an error.
JobGetData_stopsOnError(stat) ==
  /\ job = "GETDATA"
  /\ reload_flag' = IF stat = "NO_ANS" THEN 1 ELSE IF stat = "OK" THEN 0 ELSE reload_flag
  /\ \/ stat # "OK" /\ tpc' = "wait" /\ UNCHANGED post
     \/ stat = "OK" /\ reload_flag = 1 /\ Post("GETDATA")
     \/ stat = "OK" /\ reload_flag = 0 /\ tpc' = "sync" /\ UNCHANGED post

\* The first answer after a silence is not shown: the data is requested again.
JobGetData(stat) ==
  /\ job = "GETDATA"
  /\ reload_flag' = IF stat = "NO_ANS" THEN 1 ELSE IF stat = "OK" THEN 0 ELSE reload_flag
  /\ \/ stat # "OK" /\ tpc' = "timer" /\ UNCHANGED post
     \/ stat = "OK" /\ reload_flag = 1 /\ Post("GETDATA")
     \/ stat = "OK" /\ reload_flag = 0 /\ tpc' = "sync" /\ UNCHANGED post

\* JobFail, for the jobs that are not repeated
JobFail == IF job = "STOPMEAS" THEN "GETDATA" ELSE "NOTHING"

\* JobStopMeas, JobSetVoltage, JobGetVT, JobGetCalibr, JobSetCalibr
JobRequest(stat) ==
  /\ job \in Requests \ {"GETDATA"}
  /\ \/ stat # "OK" /\ Post(JobFail)
     \/ stat = "OK" /\ job = "SETVOLT" /\ Post("NOTHING")
     \/ stat = "OK" /\ job # "SETVOLT" /\ tpc' = "sync" /\ UNCHANGED post
  /\ UNCHANGED reload_flag

\* The request is over and the status bar, in the form, has been told.
Run ==
  /\ tpc = "run" /\ FormFree
  /\ \/ JobOpen
     \/ /\ \E stat \in Results : JobGetData(stat) \/ JobRequest(stat)
        /\ UNCHANGED port
  /\ UNCHANGED <<mailbox, timer, lock, job, served, form>>

\* Mutants: settings can be set as soon as the port is open; calibration can be entered
\* when the measurement is stopped.
ActivateMainPage_offersSet ==
  (ui \ {"Open", "CmbCom", "Start", "SetCal"}) \cup {"Close", "Stop", "EnterCal", "SetVoltage"}
JobStopMeasUpdate_keepsEnterCal ==
  (ui \ {"Stop"}) \cup {"EnterCal", "SetVoltage", "ReadVoltage", "Start"}

ActivateMainPage   == (ui \ {"Open", "CmbCom", "Start", "SetCal"}) \cup {"Close", "Stop", "EnterCal"}
DeactivateMainPage == {"Open", "CmbCom"}
JobStartMeasUpdate == (ui \ {"SetVoltage", "ReadVoltage", "Start"}) \cup {"Stop", "EnterCal"}
JobStopMeasUpdate  == (ui \ {"Stop", "EnterCal"}) \cup {"SetVoltage", "ReadVoltage", "Start"}

\* The form's buttons after the job
Update ==
  ui' = CASE job = "OPEN"      -> ActivateMainPage
          [] job = "CLOSE"     -> DeactivateMainPage
          [] job = "STARTMEAS" -> JobStartMeasUpdate
          [] job = "STOPMEAS"  -> JobStopMeasUpdate
          [] OTHER             -> ui

\* Mutant: a stopped measurement goes on polling.
AfterUpdate_stopPolls ==
  \/ job = "OPEN" /\ Post("STARTMEAS")
  \/ job \in {"STARTMEAS", "STOPMEAS"} /\ Post("GETDATA")
  \/ job = "GETVT" /\ Post("NOTHING")
  \/ job = "CLOSE" /\ tpc' = "closing" /\ Begin("form", "NOTHING")
  \/ job = "GETDATA" /\ tpc' = "timer" /\ UNCHANGED post
  \/ job \in {"GETCALIBR", "SETCALIBR"} /\ tpc' = "wait" /\ UNCHANGED post

\* Mutant: the thread posts "NOTHING" itself, after the form has been told.
AfterUpdate_closePosts ==
  \/ job = "OPEN" /\ Post("STARTMEAS")
  \/ job = "STARTMEAS" /\ Post("GETDATA")
  \/ job \in {"STOPMEAS", "GETVT", "CLOSE"} /\ Post("NOTHING")
  \/ job = "GETDATA" /\ tpc' = "timer" /\ UNCHANGED post
  \/ job \in {"GETCALIBR", "SETCALIBR"} /\ tpc' = "wait" /\ UNCHANGED post

\* What the job does next.  DeactivateMainPage itself posts "NOTHING".
AfterUpdate ==
  \/ job = "OPEN" /\ Post("STARTMEAS")
  \/ job = "STARTMEAS" /\ Post("GETDATA")
  \/ job \in {"STOPMEAS", "GETVT"} /\ Post("NOTHING")
  \/ job = "CLOSE" /\ tpc' = "closing" /\ Begin("form", "NOTHING")
  \/ job = "GETDATA" /\ tpc' = "timer" /\ UNCHANGED post
  \/ job \in {"GETCALIBR", "SETCALIBR"} /\ tpc' = "wait" /\ UNCHANGED post

Synchronize ==
  /\ tpc = "sync" /\ FormFree
  /\ Update /\ AfterUpdate
  /\ UNCHANGED <<mailbox, timer, lock, job, reload_flag, port, served, caption, clicks, asked>>

\* Mutant: the timer is set although a command waits.
SetThrTimer_always ==
  /\ tpc = "timer" /\ lock = "free"
  /\ lock' = "thread" /\ tpc' = "arm"
  /\ UNCHANGED <<mailbox, timer, post, job, reload_flag, port, served, form>>

\* Nothing is timed when a command waits.
SetThrTimer ==
  /\ tpc = "timer" /\ lock = "free"
  /\ \/ thr_cmd_job = "NOP" /\ lock' = "thread" /\ tpc' = "arm"
     \/ thr_cmd_job # "NOP" /\ tpc' = "wait" /\ UNCHANGED lock
  /\ UNCHANGED <<mailbox, timer, post, job, reload_flag, port, served, form>>

SetThrTimerArm ==
  /\ tpc = "arm" /\ ~InCallback
  /\ timer' = "armed" /\ lock' = "free" /\ tpc' = "wait"
  /\ UNCHANGED <<mailbox, post, job, reload_flag, port, served, form>>

-----------------------------------------------------------------------------
Posting(p) == KillAndStore(p) \/ Signal(p)

TimerCallback == Fire \/ TimerProcStore \/ TimerProcSignal

Execute ==
  \/ Lock("thread") \/ Posting("thread")
  \/ WaitEvent \/ Take \/ Run \/ Synchronize \/ SetThrTimer \/ SetThrTimerArm

Next ==
  \/ Click \/ btnEnterCalClick
  \/ Lock("form") \/ Posting("form")
  \/ TimerCallback \/ Execute

Spec == Init /\ [][Next]_vars

\* The threads and the timer run; a thread that waits for the lock gets it in the end.
\* Nothing makes the user click.
Fairness ==
  /\ WF_vars(TimerCallback) /\ WF_vars(Execute)
  /\ WF_vars(Posting("form")) /\ SF_vars(Lock("form"))

LiveSpec == Spec /\ Fairness

-----------------------------------------------------------------------------
(* Properties.                                                             *)

\* When the timer's callback can store its poll, no command waits in the mailbox:
\* TimerProc overwrites thr_cmd_job without looking, and nothing is lost by it.
TimerNeverOverwrites == timer = "fired" /\ lock = "free" => thr_cmd_job = "NOP"

\* A kill that waits for a callback which waits for the lock its caller holds never
\* returns.  Only a click can meet the timer so: never the thread, when it posts the
\* successor of a job or sets the timer again, nor DeactivateMainPage.
OnlyClicksDeadlock ==
  timer = "fired" =>
    /\ post["thread"].at # "kill" /\ tpc # "arm"
    /\ post["form"].at = "kill" => post["form"].cmd # "NOTHING"

\* Somebody is going to request data.
Polling ==
  \/ timer # "off" \/ thr_cmd_job = "GETDATA"
  \/ post["thread"].at # "idle" /\ post["thread"].cmd = "GETDATA"
  \/ job = "GETDATA" /\ tpc \in {"run", "sync", "timer", "arm"}

\* While the form offers to start measuring, or to open the port, no polling goes on
\* behind it, whatever was clicked in between.
PollingStopped == ui \cap {"Start", "Open"} # {} => ~Polling

\* A measurement that was started, and that no other command followed, goes on
\* requesting data, whatever the device answers, while the form is not stuck.
KeepsPolling ==
  <>[](served = "STARTMEAS" /\ FormFree) => []<>(job = "GETDATA" /\ tpc = "run")

\* Unit_Cmd.cpp, STOPMEAS: "stop sending periodical requests".  Once the click on Stop
\* has been handled the command is taken up, unless the user clicks something else.
StopObeyed == (asked = "STOPMEAS" /\ FormFree) ~> asked # "STOPMEAS"

\* Unit_Cmd.cpp, SETCALIBR: "set parameters, then get parameters then send periodical
\* requests".  After the calibration was set data is requested, or another command
\* is executed.
CalibrPolls == served = "SETCALIBR" ~> (job = "GETDATA" \/ served # "SETCALIBR")

-----------------------------------------------------------------------------
(* The inductive invariant: who holds the lock, when the timer may run, and *)
(* which command may wait or be executed behind which buttons.              *)

\* Every variable the invariant is about keeps its type.
TypeOK ==
  /\ thr_cmd_job \in Commands \cup {"NOP", "NOTHING"}
  /\ timer \in {"off", "armed", "fired", "stored"}
  /\ lock \in {"free", "form", "thread"}
  /\ DOMAIN post = {"form", "thread"}
  /\ post["thread"].cmd \in {"NOTHING", "GETDATA", "STARTMEAS"}
  /\ post["form"].cmd \in {"NOTHING"} \cup (Commands \ {"GETDATA"})

Places ==
  /\ post["form"].at = "kill" => lock = "form"
  /\ post["thread"].at = "kill" => lock = "thread"
  /\ post["thread"] = Idle \/ tpc = "post"
  /\ FormFree => post["form"] = Idle
  /\ tpc = "arm" => lock = "thread" /\ thr_cmd_job = "NOP"
  /\ tpc \in {"timer", "arm"} => job = "GETDATA"
  /\ tpc = "closing" =>
       post["form"].at \in {"lock", "kill", "signal"} /\ post["form"].cmd = "NOTHING"
  /\ post["form"].at \in {"lock", "kill"} /\ post["form"].cmd = "NOTHING" => tpc = "closing"

\* The timer runs only beside an empty mailbox and while the thread waits; not even its
\* callback's end overlaps another job than the poll.
Timed ==
  /\ timer \in {"armed", "fired"} => thr_cmd_job = "NOP" /\ tpc \in {"wait", "take"}
  /\ thr_cmd_job \notin {"NOP", "GETDATA"} => timer = "off"
  /\ tpc \in {"run", "sync"} /\ job # "GETDATA" => timer = "off" /\ thr_cmd_job # "GETDATA"

Buttons ==
  /\ "Stop" \in ui \/ "EnterCal" \in ui => "Start" \notin ui /\ "Open" \notin ui
  /\ "Open" \in ui => "Start" \notin ui /\ "SetVoltage" \notin ui

\* The buttons behind which a command may be executed.
Fits(c) ==
  /\ c \in {"GETDATA", "STOPMEAS"} => "Start" \notin ui /\ "Open" \notin ui
  /\ c = "STARTMEAS" => "Open" \notin ui
  /\ c = "OPEN" => "SetVoltage" \notin ui

Storing(p) == post[p].at \in {"lock", "kill"}

\* A command in the mailbox fits, or is about to be overwritten by the job that changed
\* the buttons.
Fitting ==
  /\ Fits(thr_cmd_job) \/ Storing("thread") \/ (tpc = "closing" /\ Storing("form"))
  /\ timer # "off" \/ thr_cmd_job = "GETDATA" => Fits("GETDATA")
  /\ post["thread"].at # "idle" => Fits(post["thread"].cmd)
  /\ Storing("form") => Fits(post["form"].cmd)
  /\ tpc \in {"run", "sync", "timer", "arm"} => Fits(job)

MailInv == TypeOK /\ Places /\ Timed /\ Buttons /\ Fitting
=============================================================================
