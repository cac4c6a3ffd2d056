----------------------------- MODULE SerialHost -----------------------------
(***************************************************************************)
(* The serial layer of the PC program, Unit_Serial.cpp: the thread that    *)
(* calls processcommand and the serial thread, which sends requests        *)
(* (tx_proc) and assembles answers (rx_proc).  They share the request, the *)
(* answer and two manual-reset events; txcount and rxcount they share      *)
(* without the lock.                                                       *)
(*                                                                         *)
(* The device is the environment: it answers a request some time later.    *)
(* What the PC's driver has received is a queue of answers, of answers the *)
(* line damaged, and of rests of them.                                     *)
(***************************************************************************)
EXTENDS Integers, Sequences

CONSTANTS
  Commands,
  TxBytes(_), RxBytes(_),   \* data bytes of a request and of its answer
  MaxCalls,                 \* bound on the calls of processcommand
  MaxEarly,                 \* bound on the timeouts that fire too early
  EarlyTimeouts,            \* which of the two may: "tx", "rx"
  MaxFaults                 \* bound on the answers the line damages or loses, and the
                            \* writes that fail

ASSUME HostAssumption ==
  /\ MaxCalls \in Nat /\ MaxEarly \in Nat /\ MaxFaults \in Nat
  /\ EarlyTimeouts \subseteq {"tx", "rx"}
  /\ \A c \in Commands : TxBytes(c) \in Nat /\ RxBytes(c) \in Nat

VARIABLES
  \* the caller
  cpc,           \* its next statement
  id, cmd,       \* the call it is in, and its command
  result,        \* what the last call returned
  \* shared
  counts,        \* the command whose txcount and rxcount are set
  thr_tx_cmd,    \* << >> or the request to send
  thr_tx_delay,  \* how the last reception ended
  thr_rx_cmd,    \* << >> or the answer received last
  thr_rx_stat,
  thr_tx_stat, tx_event, rx_event,
  \* the serial thread
  spc, tmp,      \* its next statement, its copy of the request
  tmp_tx_stat,   \* how the last write ended
  got,           \* the answer it has read, and its status
  \* the line and the device
  pending,       \* the requests the device has not answered yet, in their order
  inbox,         \* what has arrived and has not been read
  early, faults,
  torn,          \* history: 1 once an answer was read in two pieces
  log,           \* history: the requests that went out
  returned       \* history: the requests whose answers were returned with ERR_OK

callerVars == <<cpc, id, cmd, result>>
rxShared   == <<thr_rx_cmd, thr_rx_stat, rx_event>>
txStats    == <<tmp_tx_stat, thr_tx_stat>>
lineVars   == <<pending, inbox, faults>>
records    == <<log, returned>>
vars == <<callerVars, counts, thr_tx_cmd, thr_tx_delay, rxShared, txStats, tx_event,
          spc, tmp, got, lineVars, early, torn, records>>

Calls == 1 .. MaxCalls
Stats == {"OK", "CRC", "LEN", "WRONG", "NO_ANS", "TRANSMITT"}

Init ==
  /\ cpc = "idle" /\ id = 0 /\ cmd \in Commands /\ result = << >>
  /\ counts = cmd /\ thr_tx_cmd = << >> /\ thr_tx_delay = "OK"
  /\ thr_rx_cmd = << >> /\ thr_rx_stat = "OK" /\ tx_event = FALSE /\ rx_event = FALSE
  /\ spc = "tx" /\ tmp = << >> /\ got = << >> /\ tmp_tx_stat = "OK" /\ thr_tx_stat = "OK"
  /\ pending = << >> /\ inbox = << >> /\ early = 0 /\ faults = 0
  /\ torn = 0 /\ log = << >> /\ returned = << >>

-----------------------------------------------------------------------------
(* processcommand, called by the job thread.                               *)

\* txcount and rxcount are set without the lock
Call(c) ==
  /\ cpc = "idle" /\ id < MaxCalls
  /\ cpc' = "reset"
  /\ id' = id + 1 /\ cmd' = c /\ counts' = c
  /\ UNCHANGED <<result, thr_tx_cmd, thr_tx_delay, rxShared, txStats, tx_event, spc, tmp, got,
                 lineVars, early, torn, records>>

\* Mutant: thr_rx_event is left as it is.
serial_before_transmit_keepsRx ==
  /\ cpc = "reset" /\ cpc' = "post"
  /\ tx_event' = FALSE
  /\ UNCHANGED <<id, cmd, result, counts, thr_tx_cmd, thr_tx_delay, rxShared, txStats, spc, tmp,
                 got, lineVars, early, torn, records>>

serial_before_transmit ==
  /\ cpc = "reset" /\ cpc' = "post"
  /\ rx_event' = FALSE /\ tx_event' = FALSE
  /\ UNCHANGED <<id, cmd, result, counts, thr_tx_cmd, thr_tx_delay, thr_rx_cmd,
                 thr_rx_stat, txStats, spc, tmp, got, lineVars, early, torn, records>>

PostRequest ==
  /\ cpc = "post" /\ cpc' = "waittx"
  /\ thr_tx_cmd' = <<id, cmd>>
  /\ UNCHANGED <<id, cmd, result, counts, thr_tx_delay, rxShared, txStats, tx_event, spc, tmp,
                 got, lineVars, early, torn, records>>

Return(stat, answer) ==
  /\ cpc' = "idle"
  /\ result' = <<stat, answer, id>>
  /\ UNCHANGED <<id, cmd>>

\* An error of the write is returned at once.
WaitTx ==
  /\ cpc = "waittx" /\ tx_event
  /\ \/ thr_tx_stat = "OK" /\ cpc' = "waitrx" /\ UNCHANGED <<id, cmd, result>>
     \/ thr_tx_stat # "OK" /\ Return(thr_tx_stat, << >>)
  /\ UNCHANGED <<counts, thr_tx_cmd, thr_tx_delay, rxShared, txStats, tx_event, spc, tmp, got,
                 lineVars, early, torn, records>>

\* ERR_TRANSMITT leaves the request where it is
TxTimeout ==
  /\ cpc = "waittx" /\ ~tx_event
  /\ "tx" \in EarlyTimeouts
  /\ early < MaxEarly /\ early' = early + 1
  /\ Return("TRANSMITT", << >>)
  /\ UNCHANGED <<counts, thr_tx_cmd, thr_tx_delay, rxShared, txStats, tx_event, spc, tmp, got,
                 lineVars, torn, records>>

\* Something of an answer is still to come or to be read.
Due == pending # << >> \/ inbox # << >> \/ spc \in {"store", "event"}

RxTimeout ==
  /\ cpc = "waitrx" /\ ~rx_event
  /\ IF Due THEN "rx" \in EarlyTimeouts /\ early < MaxEarly /\ early' = early + 1
            ELSE UNCHANGED early
  /\ Return("NO_ANS", << >>)
  /\ UNCHANGED <<counts, thr_tx_cmd, thr_tx_delay, rxShared, txStats, tx_event, spc, tmp, got,
                 lineVars, torn, records>>

\* the answer counts if its command is that of the request
TakeAnswer ==
  /\ cpc = "waitrx" /\ rx_event
  /\ IF thr_rx_cmd # << >> /\ thr_rx_cmd[2] = cmd
       THEN Return(thr_rx_stat, thr_rx_cmd)
       ELSE Return("WRONG", << >>)
  /\ returned' = IF result'[1] = "OK" THEN Append(returned, result'[2][1]) ELSE returned
  /\ thr_rx_cmd' = << >>
  /\ UNCHANGED <<counts, thr_tx_cmd, thr_tx_delay, thr_rx_stat, rx_event, txStats, tx_event, spc,
                 tmp, got, lineVars, early, torn, log>>

-----------------------------------------------------------------------------
(* The serial thread: tx_proc and rx_proc in turn.                         *)

\* tx_proc waits for a silent line or a wrong answer
CopyRequest ==
  /\ spc = "tx"
  /\ tmp' = thr_tx_cmd
  /\ IF thr_tx_cmd # << >> /\ thr_tx_delay \in {"NO_ANS", "WRONG"}
       THEN spc' = "clear" ELSE spc' = "rx"
  /\ UNCHANGED <<callerVars, counts, thr_tx_cmd, thr_tx_delay, rxShared, txStats, tx_event, got,
                 lineVars, early, torn, records>>

\* Mutant: the request stays in place.
ClearRequest_none ==
  /\ spc = "clear" /\ spc' = "write"
  /\ UNCHANGED <<callerVars, counts, thr_tx_cmd, thr_tx_delay, rxShared, txStats, tx_event, tmp,
                 got, lineVars, early, torn, records>>

ClearRequest ==
  /\ spc = "clear" /\ spc' = "write"
  /\ thr_tx_cmd' = << >>
  /\ UNCHANGED <<callerVars, counts, thr_tx_delay, rxShared, txStats, tx_event, tmp, got,
                 lineVars, early, torn, records>>

\* What was received before is purged.  The frame has txcount data bytes, whatever
\* command it carries; the device does not answer a frame of the wrong length, nor
\* one that was not written to its end.
WriteRequest ==
  /\ spc = "write" /\ spc' = "sent"
  /\ inbox' = << >>
  /\ LET whole == TxBytes(counts) = TxBytes(tmp[2]) IN
     /\ log' = Append(log, [id |-> tmp[1], whole |-> whole])
     /\ \/ /\ tmp_tx_stat' = "OK"
           /\ pending' = IF whole THEN Append(pending, tmp) ELSE pending
           /\ UNCHANGED faults
        \/ /\ faults < MaxFaults /\ faults' = faults + 1
           /\ tmp_tx_stat' = "TRANSMITT"
           /\ UNCHANGED pending
  /\ UNCHANGED <<callerVars, counts, thr_tx_cmd, thr_tx_delay, rxShared, thr_tx_stat, tx_event,
                 tmp, got, early, torn, returned>>

tx_proc_set_event ==
  /\ spc = "sent" /\ spc' = "rx"
  /\ thr_tx_stat' = tmp_tx_stat /\ tx_event' = TRUE
  /\ UNCHANGED <<callerVars, counts, thr_tx_cmd, thr_tx_delay, rxShared, tmp_tx_stat, tmp, got,
                 lineVars, early, torn, records>>

\* nothing within the read timeout
Silence ==
  /\ spc = "rx" /\ inbox = << >> /\ spc' = "tx"
  /\ thr_tx_delay' = "NO_ANS"
  /\ UNCHANGED <<callerVars, counts, thr_tx_cmd, rxShared, txStats, tx_event, tmp, got, lineVars,
                 early, torn, records>>

Damaged == {"CRC", "LEN", "WRONG"}

Rest == [bad |-> TRUE, answer |-> << >>]

\* An answer of another length than rxcount is taken for damaged.  Of a longer one,
\* and of one with a wrong prefix, the rest stays behind.
ReadAnswer ==
  /\ spc = "rx" /\ inbox # << >>
  /\ LET a == Head(inbox)
         len == IF a.answer = << >> THEN 0 ELSE RxBytes(a.answer[2]) IN
     \/ /\ ~a.bad /\ len = RxBytes(counts)
        /\ spc' = "store" /\ got' = <<"OK", a.answer>> /\ inbox' = Tail(inbox)
     \/ /\ ~a.bad /\ len < RxBytes(counts)
        /\ spc' = "event" /\ got' = <<"LEN", << >> >> /\ inbox' = Tail(inbox)
     \/ /\ ~a.bad /\ len > RxBytes(counts)
        /\ spc' = "event" /\ got' = <<"CRC", << >> >>
        /\ inbox' = <<Rest>> \o Tail(inbox)
     \/ /\ a.bad
        /\ spc' = "event"
        /\ \E s \in Damaged :
             /\ got' = <<s, << >> >>
             /\ inbox' = Tail(inbox) \/ (s = "WRONG" /\ inbox' = <<Rest>> \o Tail(inbox))
  /\ torn' = IF inbox' = Tail(inbox) THEN torn ELSE 1
  /\ UNCHANGED <<callerVars, counts, thr_tx_cmd, thr_tx_delay, rxShared, txStats, tx_event, tmp,
                 pending, faults, early, records>>

StoreAnswer ==
  /\ spc = "store" /\ spc' = "event"
  /\ thr_rx_cmd' = got[2]
  /\ UNCHANGED <<callerVars, counts, thr_tx_cmd, thr_tx_delay, thr_rx_stat, rx_event,
                 txStats, tx_event, tmp, got, lineVars, early, torn, records>>

rx_proc_set_event ==
  /\ spc = "event" /\ spc' = "tx"
  /\ thr_rx_stat' = got[1] /\ thr_tx_delay' = got[1]
  /\ rx_event' = TRUE
  /\ UNCHANGED <<callerVars, counts, thr_tx_cmd, thr_rx_cmd, txStats, tx_event, tmp, got, lineVars,
                 early, torn, records>>

-----------------------------------------------------------------------------
(* The device and the line.                                                *)

Arrive(a) == inbox' = Append(inbox, a)

\* one request after the other
Answer ==
  /\ pending # << >> /\ pending' = Tail(pending)
  /\ Arrive([bad |-> FALSE, answer |-> Head(pending)])
  /\ UNCHANGED <<callerVars, counts, thr_tx_cmd, thr_tx_delay, rxShared, txStats, tx_event, spc,
                 tmp, got, faults, early, torn, records>>

\* The answer arrives damaged or not at all, or the request did not.
LineFault ==
  /\ faults < MaxFaults /\ faults' = faults + 1
  /\ pending # << >> /\ pending' = Tail(pending)
  /\ Arrive([bad |-> TRUE, answer |-> << >>]) \/ UNCHANGED inbox
  /\ UNCHANGED <<callerVars, counts, thr_tx_cmd, thr_tx_delay, rxShared, txStats, tx_event, spc,
                 tmp, got, early, torn, records>>

processcommand ==
  \/ \E c \in Commands : Call(c)
  \/ serial_before_transmit \/ PostRequest \/ WaitTx \/ TxTimeout \/ RxTimeout \/ TakeAnswer

serial_thread ==
  \/ CopyRequest \/ ClearRequest \/ WriteRequest \/ tx_proc_set_event
  \/ Silence \/ ReadAnswer \/ StoreAnswer \/ rx_proc_set_event

Next == processcommand \/ serial_thread \/ Answer \/ LineFault

Spec == Init /\ [][Next]_vars

-----------------------------------------------------------------------------
(* Properties.                                                             *)

\* Unit_Serial.cpp, processcommand: "check correct answer".  What a call returns
\* with ERR_OK is the answer to its own request.
CorrectAnswer == result # << >> /\ result[1] = "OK" => result[2][1] = result[3]

\* Calls and answers stay in step until a timeout fires while the answer is still to
\* come, or the two pieces of a damaged answer are taken for two answers.
InStep == early = 0 /\ torn = 0

\* While they are in step every answer is the right one.
CorrectInStep == InStep => CorrectAnswer

\* Whatever the timeouts do, a request goes out at most once and never after a later
\* one: a set command is not repeated behind its caller's back.
AtMostOnce == \A i, j \in DOMAIN log : i < j => log[i].id < log[j].id

\* Data never goes back in time: even when calls and answers are out of step no answer
\* is returned twice, nor after the answer to a later request.
ResultsAdvance == \A i, j \in DOMAIN returned : i < j => returned[i] < returned[j]

\* While they are in step the host waits: a request goes out only when the device has
\* answered the one before, and with the parameters of its own command.
OneAtATime ==
  InStep =>
    /\ spc \in {"clear", "write"} => pending = << >>
    /\ \A i \in DOMAIN log : log[i].whole

-----------------------------------------------------------------------------
(* The inductive invariant: requests and answers pass through mailbox,     *)
(* driver and buffers without ever overtaking one another.                 *)

Request == Nat \X Commands
None == << >>

\* Every variable that holds requests or answers keeps its type.
TypeOK ==
  /\ id \in Nat /\ cmd \in Commands
  /\ thr_tx_cmd \in {None} \cup Request /\ tmp \in {None} \cup Request
  /\ thr_rx_cmd \in {None} \cup Request
  /\ spc = "store" => got[2] \in {None} \cup Request
  /\ pending \in Seq(Request)
  /\ inbox \in Seq([bad : BOOLEAN, answer : {None} \cup Request])
  /\ log \in Seq([id : Nat, whole : BOOLEAN]) /\ returned \in Seq(Nat)

\* A call that has not posted its request yet is later than x.
NotPosted(x) == x <= id /\ (cpc \in {"reset", "post"} => x < id)

\* The requests that may still go out: the thread's copy and the mailbox.
ToSend ==
  /\ spc \in {"clear", "write"} => tmp # None /\ NotPosted(tmp[1])
  /\ thr_tx_cmd # None => NotPosted(thr_tx_cmd[1])
  /\ spc = "clear" /\ thr_tx_cmd # None => tmp[1] <= thr_tx_cmd[1]
  /\ spc = "write" /\ thr_tx_cmd # None => tmp[1] < thr_tx_cmd[1]

\* x was sent before all of them.
Sent(x) ==
  /\ NotPosted(x)
  /\ spc \in {"clear", "write"} => x < tmp[1]
  /\ thr_tx_cmd # None => x < thr_tx_cmd[1]

\* The requests that went out, those the device will answer, and those whose answers
\* have arrived, are being stored, can be fetched, and were returned.
LogIds      == {log[i].id : i \in DOMAIN log}
PendingIds  == {pending[i][1] : i \in DOMAIN pending}
Answered    == {i \in DOMAIN inbox : inbox[i].answer # None}
InboxIds    == {inbox[i].answer[1] : i \in Answered}
GotIds      == IF spc = "store" /\ got[2] # None THEN {got[2][1]} ELSE {}
RxIds       == IF thr_rx_cmd # None THEN {thr_rx_cmd[1]} ELSE {}
ReturnedIds == {returned[i] : i \in DOMAIN returned}

AllSent ==
  /\ \A x \in LogIds : Sent(x)
  /\ PendingIds \cup InboxIds \cup GotIds \cup RxIds \cup ReturnedIds \subseteq LogIds

\* The two queues are in the order of the calls.
QueuesOrdered ==
  /\ \A i, j \in DOMAIN pending : i < j => pending[i][1] < pending[j][1]
  /\ \A i, j \in Answered : i < j => inbox[i].answer[1] < inbox[j].answer[1]

Before(A, B) == \A x \in A, y \in B : x < y

\* Every station holds earlier requests than the stations before it.
StationsOrdered ==
  /\ Before(InboxIds, PendingIds)
  /\ Before(GotIds, InboxIds \cup PendingIds)
  /\ Before(RxIds, GotIds \cup InboxIds \cup PendingIds)
  /\ Before(ReturnedIds, RxIds \cup GotIds \cup InboxIds \cup PendingIds)

OrderInv ==
  /\ TypeOK /\ ToSend /\ AtMostOnce /\ ResultsAdvance
  /\ AllSent /\ QueuesOrdered /\ StationsOrdered
=============================================================================
