--------------------------- MODULE SerialSession ---------------------------
(***************************************************************************)
(* The serial layer from opening to closing of the port: serial_init and   *)
(* serial_uninit of Unit_Serial.cpp around the calls of SerialHost.  The   *)
(* thread that calls processcommand also opens and closes, between two     *)
(* calls.  The globals outlive a session: a request that was posted and    *)
(* not sent, an answer that was not fetched, and how the last reception    *)
(* ended.                                                                  *)
(***************************************************************************)
EXTENDS SerialHost

CONSTANT MaxSessions   \* bound on the times the port is opened

ASSUME SessionAssumption == MaxSessions \in Nat

VARIABLES
  port,       \* "closed", "starting" (no events yet), "open", "closing"
  thr_exit,
  alive,      \* does the serial thread run?
  sessions,   \* times the port was opened
  \* history, read by the properties only
  first,      \* the first call since the port was opened, or a call began, with
              \* nothing under way
  clean       \* is every call since that one in step?

portVars    == <<port, thr_exit, alive, sessions>>
sessionVars == <<portVars, first, clean>>
allVars     == <<vars, sessionVars>>

SessionInit ==
  /\ Init
  /\ port = "closed" /\ thr_exit = 0 /\ alive = FALSE /\ sessions = 0 
  /\ first = 1 /\ clean = FALSE

callState == <<callerVars, counts, thr_tx_cmd, thr_tx_delay, thr_rx_cmd, thr_rx_stat, txStats>>
lineState == <<early, faults, torn, records>>

-----------------------------------------------------------------------------
(* Opening and closing.                                                    *)

\* no request of an earlier session that may still be sent or answered
NothingUnderWay == thr_tx_cmd = << >> /\ pending = << >>

Quiet == pending = << >> /\ inbox = << >>

\* Nothing is posted, is being sent, can be answered, or is being received.
NothingSent == thr_tx_cmd = << >> /\ Quiet /\ spc \in {"tx", "rx"}

\* The port may not open.
OpenPort ==
  \/ /\ port' = "starting" /\ thr_exit' = 0 /\ alive' = TRUE
     /\ first' = id + 1 /\ clean' = NothingUnderWay
  \/ port' = "closed" /\ thr_exit' = 1 /\ UNCHANGED <<alive, first, clean>>

\* Mutant: PurgeComm is not called.
serial_init_keepsInput ==
  /\ port = "closed" /\ cpc = "idle" /\ sessions < MaxSessions
  /\ OpenPort /\ sessions' = sessions + 1
  /\ UNCHANGED vars

\* What the driver has received is purged; the globals are what they were.
serial_init ==
  /\ port = "closed" /\ cpc = "idle" /\ sessions < MaxSessions
  /\ OpenPort /\ sessions' = sessions + 1
  /\ inbox' = IF alive' THEN << >> ELSE inbox
  /\ UNCHANGED <<callState, tx_event, rx_event, spc, tmp, got, pending, lineState>>

\* The thread is running already: what it set before is lost with it.
serial_init_events ==
  /\ port = "starting" /\ port' = "open"
  /\ tx_event' = FALSE /\ rx_event' = FALSE
  /\ UNCHANGED <<callState, spc, tmp, got, lineVars, early, torn, records, thr_exit, alive,
                 sessions, first, clean>>

\* An open port is closed between two calls, and closing waits for the thread.
serial_uninit ==
  /\ port = "open" /\ cpc = "idle"
  /\ port' = "closing" /\ thr_exit' = 1
  /\ UNCHANGED <<vars, alive, sessions, first, clean>>

serial_uninit_handles ==
  /\ port = "closing" /\ ~alive /\ port' = "closed"
  /\ tx_event' = FALSE /\ rx_event' = FALSE
  /\ UNCHANGED <<callState, spc, tmp, got, lineVars, early, torn, records, thr_exit, alive,
                 sessions, first, clean>>

\* The top of the thread's loop.
ThreadExit ==
  /\ alive /\ spc = "tx" /\ thr_exit = 1
  /\ alive' = FALSE
  /\ UNCHANGED <<vars, port, thr_exit, sessions, first, clean>>

\* ERR_COMPORT: only txcount and rxcount are set
CallClosed(c) ==
  /\ port = "closed" /\ cpc = "idle" /\ id < MaxCalls
  /\ id' = id + 1 /\ cmd' = c /\ counts' = c
  /\ result' = <<"COMPORT", << >>, id'>>
  /\ UNCHANGED <<cpc, thr_tx_cmd, thr_tx_delay, rxShared, txStats, tx_event, spc, tmp, got,
                 lineVars, early, torn, records, sessionVars>>

\* what the device sends while the port is closed
AnswerUnheard ==
  /\ port = "closed" /\ pending # << >> /\ pending' = Tail(pending)
  /\ UNCHANGED <<callerVars, counts, thr_tx_cmd, thr_tx_delay, rxShared, txStats, tx_event,
                 spc, tmp, got, inbox, lineState, sessionVars>>

\* The thread checks thr_exit before it looks for a request.
RunningThread == alive /\ serial_thread /\ (spc = "tx" => thr_exit = 0)

Session ==
  \/ serial_init \/ serial_init_events \/ serial_uninit \/ serial_uninit_handles
  \/ ThreadExit \/ AnswerUnheard \/ \E c \in Commands : CallClosed(c)

Hosted ==
  \/ port = "open" /\ processcommand
  \/ RunningThread
  \/ port # "closed" /\ (Answer \/ LineFault)

\* What puts calls and answers out of step, see InStep.
OutOfStep == early' # early \/ (spc' = "event" /\ inbox # << >> /\ inbox' # Tail(inbox))

CallBegins == cpc = "idle" /\ cpc' = "reset"

\* What first and clean record of a step of the session.
History ==
  IF CallBegins /\ NothingSent
    THEN clean' = TRUE /\ first' = IF clean THEN first ELSE id'
    ELSE clean' = (clean /\ ~OutOfStep) /\ UNCHANGED first

SessionNext ==
  \/ Session
  \/ Hosted /\ UNCHANGED portVars /\ History

SessionSpec == SessionInit /\ [][SessionNext]_allVars

-----------------------------------------------------------------------------
(* Properties.                                                             *)

\* Nothing that went wrong lasts.  Calls and answers are back in step when the port is
\* opened after the device has answered and no request was left behind, and when a call
\* begins after a request that was left behind, and sent before the events of the next
\* session existed, has been answered: from there on, until the next timeout that is
\* too early, the answers are the right ones.
QuietResyncs == clean /\ result # << >> /\ result[3] >= first => CorrectAnswer

-----------------------------------------------------------------------------
(* The inductive invariant: in step, a call finds nothing under way, and   *)
(* what is under way later on is its own.                                  *)

Own == <<id, cmd>>

\* The request of the call is in the mailbox or in the thread's copy.
Posted ==
  /\ ~tx_event /\ ~rx_event /\ Quiet
  /\ \/ thr_tx_cmd = Own /\ spc \in {"tx", "rx"}
     \/ thr_tx_cmd = Own /\ spc = "clear" /\ tmp = Own
     \/ thr_tx_cmd = None /\ spc = "write" /\ tmp = Own

\* The line holds the request or its answer, or has lost one of them.
OnTheLine ==
  /\ spc \in {"sent", "tx", "rx"}
  /\ \/ Quiet
     \/ pending = <<Own>> /\ inbox = << >>
     \/ pending = << >> /\ \E a \in {[bad |-> FALSE, answer |-> Own], Rest} : inbox = <<a>>

\* What has been received with OK is the answer of the call.
Received ==
  /\ Quiet
  /\ \/ ~rx_event /\ spc = "store" /\ got = <<"OK", Own>>
     \/ ~rx_event /\ spc = "event" /\ (got[1] = "OK" => thr_rx_cmd = Own)
     \/ rx_event /\ spc \in {"tx", "rx"} /\ (thr_rx_stat = "OK" => thr_rx_cmd = Own)

\* Of a request that was not written nothing comes back.
UnderWay ==
  /\ thr_tx_cmd = None /\ (spc = "sent" => ~tx_event)
  /\ tx_event => thr_tx_stat = tmp_tx_stat
  /\ tmp_tx_stat # "OK" => OnTheLine /\ Quiet
  /\ (~rx_event /\ OnTheLine) \/ Received

InPhase ==
  /\ cpc \in {"idle", "reset"} => NothingSent
  /\ cpc = "post" => NothingSent /\ ~rx_event /\ ~tx_event
  /\ cpc = "waittx" => Posted \/ UnderWay
  /\ cpc = "waitrx" => UnderWay /\ tx_event

\* Calls are made while the port is open; the thread ends where it begins, and until
\* then neither its port nor its events are closed.
PortHeld ==
  /\ cpc \in {"idle", "reset", "post", "waittx", "waitrx"}
  /\ cpc # "idle" => port = "open"
  /\ alive => port # "closed"
  /\ ~alive => spc = "tx"

StepInv ==
  /\ PortHeld /\ counts = cmd /\ early \in Nat /\ torn \in {0, 1}
  /\ result # << >> => result[3] \in Nat /\ result[3] <= id
  /\ InStep \/ clean => InPhase
  /\ InStep => \A i \in DOMAIN log : log[i].whole
  /\ CorrectInStep /\ QuietResyncs
=============================================================================
