------------------------- MODULE SerialSession_proofs -------------------------
(***************************************************************************)
(* Requests and answers never overtake one another: for any number of      *)
(* calls, sessions, timeouts that fire too early and answers that are      *)
(* damaged, lost or late.  Calls and answers stay in step until a timeout  *)
(* fires too early or a damaged answer is read in two pieces, and again    *)
(* from an opening of the port, or a call, with nothing under way.         *)
(***************************************************************************)
EXTENDS SerialSession, TLAPS

-----------------------------------------------------------------------------
(* Sequences, as queues.                                                   *)

LEMMA TailOf ==
  ASSUME NEW S, NEW s \in Seq(S), s # << >>
  PROVE  /\ Head(s) = s[1] /\ s[1] \in S /\ 1 \in DOMAIN s /\ Tail(s) \in Seq(S)
         /\ \A i \in DOMAIN Tail(s) : i \in Nat /\ i > 0 /\ i + 1 \in DOMAIN s
                                      /\ Tail(s)[i] = s[i + 1]
OBVIOUS

LEMMA AppendTo ==
  ASSUME NEW S, NEW s \in Seq(S), NEW x \in S
  PROVE  /\ Append(s, x) \in Seq(S)
         /\ \A i \in DOMAIN Append(s, x) :
              \/ i \in DOMAIN s /\ Append(s, x)[i] = s[i]
              \/ i = Len(s) + 1 /\ Append(s, x)[i] = x
         /\ \A i \in DOMAIN s : i \in Nat /\ i < Len(s) + 1
OBVIOUS

LEMMA PutBack ==
  ASSUME NEW S, NEW s \in Seq(S), s # << >>, NEW x \in S
  PROVE  /\ <<x>> \o Tail(s) \in Seq(S)
         /\ \A i \in DOMAIN (<<x>> \o Tail(s)) :
              \/ i = 1 /\ (<<x>> \o Tail(s))[i] = x
              \/ i \in Nat /\ i > 1 /\ i \in DOMAIN s /\ (<<x>> \o Tail(s))[i] = s[i]
OBVIOUS

-----------------------------------------------------------------------------

LEMMA InitOrder == SessionInit => OrderInv
BY DEF SessionInit, Init, OrderInv, TypeOK, ToSend, AllSent, QueuesOrdered, StationsOrdered, Before,
       LogIds, PendingIds, Answered, InboxIds, GotIds, RxIds, ReturnedIds, AtMostOnce,
       ResultsAdvance, None

LEMMA Numbered ==
  ASSUME OrderInv
  PROVE  LogIds \subseteq Nat
<1>1. log \in Seq([id : Nat, whole : BOOLEAN])
  BY DEF OrderInv, TypeOK
<1>2. \A e \in [id : Nat, whole : BOOLEAN] : e.id \in Nat
  OBVIOUS
<1>3. ASSUME NEW i \in DOMAIN log
      PROVE  log[i].id \in Nat
  <2> DEFINE Logged == [id : Nat, whole : BOOLEAN]
  <2>1. log \in Seq(Logged) /\ \A e \in Logged : e.id \in Nat
    BY <1>1, <1>2
  <2> HIDE DEF Logged
  <2>2. log[i] \in Logged
    BY <2>1
  <2> QED BY <2>1, <2>2
<1> QED BY <1>3 DEF LogIds

\* Where no answer moves and nothing is sent, only what may still be sent matters.
LEMMA Kept ==
  ASSUME OrderInv, TypeOK', ToSend',
         \A x \in Nat : Sent(x) => Sent(x)',
         UNCHANGED <<pending, thr_rx_cmd, log, returned>>,
         inbox' \in {inbox, << >>},
         spc' = "store" => spc = "store" /\ got' = got
  PROVE  OrderInv'
<1>1. LogIds \subseteq Nat
  BY Numbered
<1>2. UNCHANGED <<LogIds, PendingIds, RxIds, ReturnedIds>>
  BY DEF LogIds, PendingIds, RxIds, ReturnedIds
<1>3. GotIds' \subseteq GotIds /\ InboxIds' \subseteq InboxIds
  BY DEF GotIds, InboxIds, Answered
<1>4. AtMostOnce' /\ ResultsAdvance' /\ QueuesOrdered'
  BY DEF OrderInv, AtMostOnce, ResultsAdvance, QueuesOrdered, Answered
<1>5. AllSent'
  BY <1>1, <1>2, <1>3 DEF OrderInv, AllSent
<1>6. StationsOrdered'
  BY <1>2, <1>3 DEF OrderInv, StationsOrdered, Before
<1> QED BY <1>4, <1>5, <1>6 DEF OrderInv

LEMMA CallerStep ==
  ASSUME OrderInv,
         \/ \E c \in Commands : Call(c) \/ CallClosed(c)
         \/ serial_before_transmit \/ PostRequest \/ WaitTx \/ TxTimeout \/ RxTimeout
  PROVE  OrderInv'
<1> USE DEF callerVars, rxShared, txStats, lineVars, records
<1>1. TypeOK'
  BY DEF Call, CallClosed, serial_before_transmit, PostRequest, WaitTx, TxTimeout, RxTimeout,
         Return, OrderInv, TypeOK, Request
<1>2. ToSend'
  BY DEF Call, CallClosed, serial_before_transmit, PostRequest, WaitTx, TxTimeout, RxTimeout,
         Return, OrderInv, ToSend, NotPosted, TypeOK, Request
<1>3. \A x \in Nat : Sent(x) => Sent(x)'
  BY DEF Call, CallClosed, serial_before_transmit, PostRequest, WaitTx, TxTimeout, RxTimeout,
         Return, OrderInv, TypeOK, Sent, NotPosted
<1>4. UNCHANGED <<pending, inbox, thr_rx_cmd, log, returned, spc, got>>
  BY DEF Call, CallClosed, serial_before_transmit, PostRequest, WaitTx, TxTimeout, RxTimeout
<1> QED BY <1>1, <1>2, <1>3, <1>4, Kept

LEMMA ThreadStep ==
  ASSUME OrderInv,
         CopyRequest \/ ClearRequest \/ tx_proc_set_event \/ Silence \/ rx_proc_set_event
  PROVE  OrderInv'
<1> USE DEF callerVars, rxShared, txStats, lineVars, records
<1>1. TypeOK'
  BY DEF CopyRequest, ClearRequest, tx_proc_set_event, Silence, rx_proc_set_event, OrderInv,
         TypeOK, None
<1>2. ToSend'
  BY DEF CopyRequest, ClearRequest, tx_proc_set_event, Silence, rx_proc_set_event, OrderInv,
         TypeOK, ToSend, NotPosted, Request, None
<1>3. \A x \in Nat : Sent(x) => Sent(x)'
  BY DEF CopyRequest, ClearRequest, tx_proc_set_event, Silence, rx_proc_set_event, OrderInv,
         TypeOK, ToSend, Sent, NotPosted, Request, None
<1>4. UNCHANGED <<pending, inbox, thr_rx_cmd, log, returned>> /\ spc' # "store"
  BY DEF CopyRequest, ClearRequest, tx_proc_set_event, Silence, rx_proc_set_event
<1> QED BY <1>1, <1>2, <1>3, <1>4, Kept

\* Opening the port purges what has arrived; closing it changes nothing here.
LEMMA PortStep ==
  ASSUME OrderInv,
         serial_init \/ serial_init_events \/ serial_uninit \/ serial_uninit_handles \/ ThreadExit
  PROVE  OrderInv'
<1> USE DEF vars, callState, callerVars, rxShared, lineVars, lineState, records
<1>1. /\ UNCHANGED <<cpc, id, cmd, thr_tx_cmd, thr_rx_cmd, spc, tmp, got, pending, log, returned>>
      /\ inbox' \in {inbox, << >>}
  BY DEF serial_init, serial_init_events, serial_uninit, serial_uninit_handles, ThreadExit
<1>2. TypeOK' /\ ToSend'
  <2>1. inbox' \in Seq([bad : BOOLEAN, answer : {None} \cup Request])
    <3>1. CASE inbox' = inbox
      BY <3>1 DEF OrderInv, TypeOK
    <3>2. CASE inbox' = << >>
      BY <3>2
    <3> QED BY <1>1, <3>1, <3>2
  <2> QED BY <1>1, <2>1 DEF OrderInv, TypeOK, ToSend, NotPosted
<1>3. \A x \in Nat : Sent(x) => Sent(x)'
  BY <1>1 DEF Sent, NotPosted
<1> QED BY <1>1, <1>2, <1>3, Kept

-----------------------------------------------------------------------------
(* The steps that hand something on.                                       *)

LEMMA TakeStep ==
  ASSUME OrderInv, TakeAnswer
  PROVE  OrderInv'
<1> USE DEF callerVars, rxShared, txStats, lineVars, records
<1>1. thr_rx_cmd' = None /\ cpc' = "idle" /\ cpc = "waitrx"
      /\ UNCHANGED <<id, cmd, thr_tx_cmd, spc, tmp, got, pending, inbox, log>>
  BY DEF TakeAnswer, Return, None
<1>2. \/ returned' = returned
      \/ thr_rx_cmd # None /\ returned' = Append(returned, thr_rx_cmd[1])
  BY DEF TakeAnswer, Return, None
<1>3. returned \in Seq(Nat) /\ (thr_rx_cmd # None => thr_rx_cmd[1] \in Nat)
  BY DEF OrderInv, TypeOK, Request
<1>4. \/ returned' = returned
      \/ /\ thr_rx_cmd # None /\ returned' \in Seq(Nat)
         /\ \A i \in DOMAIN returned' :
              \/ i \in DOMAIN returned /\ returned'[i] = returned[i]
              \/ i = Len(returned) + 1 /\ returned'[i] = thr_rx_cmd[1]
         /\ \A i \in DOMAIN returned : i \in Nat /\ i < Len(returned) + 1
  <2>1. CASE thr_rx_cmd # None /\ returned' = Append(returned, thr_rx_cmd[1])
    <3>1. thr_rx_cmd[1] \in Nat
      BY <1>3, <2>1
    <3>2. returned \in Seq(Nat)
      BY <1>3
    <3> QED BY <2>1, <3>1, <3>2, AppendTo
  <2> QED BY <1>2, <2>1
<1>5. TypeOK' /\ ToSend'
  <2>1. returned' \in Seq(Nat)
    BY <1>3, <1>4
  <2>2. TypeOK'
    BY <1>1, <2>1 DEF OrderInv, TypeOK, None
  <2> QED BY <1>1, <2>2 DEF OrderInv, ToSend, NotPosted
<1>6. UNCHANGED <<LogIds, PendingIds, InboxIds, GotIds>> /\ RxIds' = {}
  BY <1>1 DEF LogIds, PendingIds, InboxIds, Answered, GotIds, RxIds
<1>7. ReturnedIds' \subseteq ReturnedIds \cup RxIds
  BY <1>4 DEF ReturnedIds, RxIds
<1>8. AtMostOnce' /\ QueuesOrdered'
  BY <1>1 DEF OrderInv, AtMostOnce, QueuesOrdered, Answered
<1>9. \A x \in Nat : Sent(x) => Sent(x)'
  BY <1>1 DEF Sent, NotPosted
<1>10. AllSent'
  <2>1. LogIds \subseteq Nat
    BY Numbered
  <2> QED BY <1>6, <1>7, <1>9, <2>1 DEF OrderInv, AllSent
<1>11. StationsOrdered'
  BY <1>6, <1>7 DEF OrderInv, StationsOrdered, Before
<1>12. ResultsAdvance'
  <2>1. CASE returned' = returned
    BY <2>1 DEF OrderInv, ResultsAdvance
  <2>2. CASE returned' # returned
    <3>1. \A i \in DOMAIN returned : returned[i] < thr_rx_cmd[1]
      BY <1>4, <2>2 DEF OrderInv, StationsOrdered, Before, ReturnedIds, RxIds
    <3> QED BY <1>4, <2>2, <3>1 DEF OrderInv, ResultsAdvance
  <2> QED BY <2>1, <2>2
<1> QED BY <1>5, <1>8, <1>10, <1>11, <1>12 DEF OrderInv

\* What is sent is later than everything before it, and the old input is purged.
LEMMA WriteStep ==
  ASSUME OrderInv, WriteRequest
  PROVE  OrderInv'
<1> USE DEF callerVars, rxShared, txStats, lineVars, records
<1> DEFINE Logged == [id : Nat, whole : BOOLEAN]
<1>1. tmp \in Request /\ tmp[1] \in Nat
  BY DEF WriteRequest, OrderInv, TypeOK, ToSend, Request
<1> DEFINE e == [id |-> tmp[1], whole |-> TxBytes(counts) = TxBytes(tmp[2])]
<1>2. e \in Logged /\ e.id = tmp[1] /\ log' = Append(log, e)
  BY <1>1 DEF WriteRequest
<1>3. /\ inbox' = << >> /\ spc = "write" /\ spc' = "sent"
      /\ pending' = Append(pending, tmp) \/ pending' = pending
      /\ UNCHANGED <<cpc, id, cmd, thr_tx_cmd, thr_rx_cmd, tmp, returned>>
  BY DEF WriteRequest
<1>4. log \in Seq(Logged) /\ pending \in Seq(Request)
  BY DEF OrderInv, TypeOK
<1>5. /\ log' \in Seq(Logged)
      /\ \A i \in DOMAIN log' : \/ i \in DOMAIN log /\ log'[i] = log[i]
                                \/ i = Len(log) + 1 /\ log'[i] = e
      /\ \A i \in DOMAIN log : i \in Nat /\ i < Len(log) + 1
  <2> HIDE DEF Logged, e
  <2> QED BY <1>2, <1>4, AppendTo
<1>6. /\ pending' \in Seq(Request)
      /\ \/ pending' = pending
         \/ \A i \in DOMAIN pending' :
              \/ i \in DOMAIN pending /\ pending'[i] = pending[i]
              \/ i = Len(pending) + 1 /\ pending'[i] = tmp
      /\ \A i \in DOMAIN pending : i \in Nat /\ i < Len(pending) + 1
  <2>1. \A i \in DOMAIN pending : i \in Nat /\ i < Len(pending) + 1
    BY <1>4
  <2>2. CASE pending' = pending
    BY <1>4, <2>1, <2>2
  <2>3. CASE pending' = Append(pending, tmp)
    BY <1>1, <1>4, <2>3, AppendTo
  <2> QED BY <1>3, <2>2, <2>3
<1>7. TypeOK'
  <2>1. inbox' \in Seq([bad : BOOLEAN, answer : {None} \cup Request])
    BY <1>3
  <2> QED BY <1>3, <1>5, <1>6, <2>1 DEF OrderInv, TypeOK
<1>8. ToSend'
  BY <1>3 DEF OrderInv, ToSend, NotPosted
<1>9. \A x \in Nat : Sent(x) => Sent(x)' /\ x < tmp[1]
  BY <1>3 DEF Sent, NotPosted
<1>10. \A x \in Nat : x = tmp[1] => Sent(x)'
  BY <1>3 DEF OrderInv, ToSend, Sent, NotPosted
<1>11. LogIds' = LogIds \cup {tmp[1]} /\ LogIds \subseteq Nat
  <2>1. LogIds' \subseteq LogIds \cup {tmp[1]}
    BY <1>2, <1>5 DEF LogIds
  <2>2. \A i \in DOMAIN log : i \in DOMAIN log' /\ log'[i] = log[i]
    BY <1>2, <1>4
  <2>3. Len(log) + 1 \in DOMAIN log' /\ log'[Len(log) + 1] = e
    BY <1>2, <1>4
  <2> QED BY <1>2, <2>1, <2>2, <2>3, Numbered DEF LogIds
<1>12. PendingIds' \subseteq PendingIds \cup {tmp[1]}
  BY <1>6 DEF PendingIds
<1>13. InboxIds' = {} /\ GotIds' = {} /\ UNCHANGED <<RxIds, ReturnedIds>>
  BY <1>3 DEF InboxIds, Answered, GotIds, RxIds, ReturnedIds
<1>14. \A x \in LogIds : x < tmp[1]
  BY <1>9, <1>11 DEF OrderInv, AllSent
<1>15. AllSent'
  BY <1>1, <1>9, <1>10, <1>11, <1>12, <1>13 DEF OrderInv, AllSent
<1>16. StationsOrdered'
  BY <1>12, <1>13, <1>14 DEF OrderInv, AllSent, StationsOrdered, Before
<1>17. AtMostOnce'
  <2>1. \A i \in DOMAIN log : log[i].id < e.id
    BY <1>2, <1>14 DEF LogIds
  <2> QED BY SMTT(30), <1>5, <2>1 DEF OrderInv, AtMostOnce
<1>18. QueuesOrdered'
  <2>1. \A i \in DOMAIN pending : pending[i][1] < tmp[1]
    BY <1>14 DEF OrderInv, AllSent, PendingIds
  <2>2. \A i, j \in DOMAIN pending' : i < j => pending'[i][1] < pending'[j][1]
    BY <1>6, <2>1 DEF OrderInv, QueuesOrdered
  <2> QED BY <1>3, <2>2 DEF QueuesOrdered, Answered
<1>19. ResultsAdvance'
  BY <1>3 DEF OrderInv, ResultsAdvance
<1> QED BY <1>7, <1>8, <1>15, <1>16, <1>17, <1>18, <1>19 DEF OrderInv

\* What is read was the first to arrive; what is put back is no answer.
LEMMA ReadStep ==
  ASSUME OrderInv, ReadAnswer
  PROVE  OrderInv'
<1> USE DEF callerVars, rxShared, txStats, lineVars, records
<1> DEFINE Arrived == [bad : BOOLEAN, answer : {None} \cup Request]
<1>1. /\ inbox # << >> /\ spc = "rx" /\ spc' \in {"store", "event"}
      /\ spc' = "store" => got'[2] = Head(inbox).answer /\ inbox' = Tail(inbox)
      /\ inbox' = Tail(inbox) \/ inbox' = <<Rest>> \o Tail(inbox)
      /\ UNCHANGED <<cpc, id, cmd, thr_tx_cmd, thr_rx_cmd, tmp, pending, log, returned>>
  BY DEF ReadAnswer
<1>2. Rest \in Arrived /\ Rest.answer = None
  BY DEF Rest, None
<1>3. inbox \in Seq(Arrived)
  BY DEF OrderInv, TypeOK
<1>4. Head(inbox) = inbox[1] /\ inbox[1] \in Arrived /\ 1 \in DOMAIN inbox
  <2> HIDE DEF Arrived
  <2> QED BY <1>1, <1>3, TailOf
<1>5. inbox' \in Seq(Arrived)
  <2> HIDE DEF Arrived
  <2>1. CASE inbox' = Tail(inbox)
    BY <1>1, <1>3, <2>1, TailOf
  <2>2. CASE inbox' = <<Rest>> \o Tail(inbox)
    BY <1>1, <1>2, <1>3, <2>2, PutBack
  <2> QED BY <1>1, <2>1, <2>2
<1>6. PICK d \in {0, 1} :
        \A i \in Answered' : /\ i \in Nat /\ i + d \in Answered /\ 1 < i + d
                             /\ inbox'[i] = inbox[i + d]
  <2> HIDE DEF Arrived
  <2>1. CASE inbox' = Tail(inbox)
    <3>1. \A i \in DOMAIN inbox' : i \in Nat /\ i + 1 \in DOMAIN inbox
                                   /\ inbox'[i] = inbox[i + 1] /\ 1 < i + 1
      BY <1>1, <1>3, <2>1, TailOf
    <3> QED BY <3>1 DEF Answered
  <2>2. CASE inbox' = <<Rest>> \o Tail(inbox)
    <3>1. \A i \in DOMAIN inbox' :
            \/ i = 1 /\ inbox'[i] = Rest
            \/ i \in Nat /\ i > 1 /\ i \in DOMAIN inbox /\ inbox'[i] = inbox[i]
      BY <1>1, <1>2, <1>3, <2>2, PutBack
    <3>2. \A i \in Answered' : /\ i \in Nat /\ i + 0 \in Answered /\ 1 < i + 0
                               /\ inbox'[i] = inbox[i + 0]
      BY <1>2, <3>1 DEF Answered
    <3> QED BY <3>2
  <2> QED BY <1>1, <2>1, <2>2
<1>7. TypeOK'
  <2>1. spc' = "store" => got'[2] \in {None} \cup Request
    BY <1>1, <1>4
  <2> QED BY <1>1, <1>5, <2>1 DEF OrderInv, TypeOK
<1>8. ToSend' /\ AtMostOnce' /\ ResultsAdvance'
  BY <1>1 DEF OrderInv, ToSend, NotPosted, AtMostOnce, ResultsAdvance
<1>9. \A x \in Nat : Sent(x) => Sent(x)'
  BY <1>1 DEF Sent, NotPosted
<1>10. UNCHANGED <<LogIds, PendingIds, RxIds, ReturnedIds>> /\ GotIds = {}
  BY <1>1 DEF LogIds, PendingIds, RxIds, ReturnedIds, GotIds
<1>11. InboxIds' \subseteq InboxIds
  BY <1>6 DEF InboxIds
<1>12. GotIds' \subseteq InboxIds /\ \A x \in GotIds', y \in InboxIds' : x < y
  <2>1. 1 \in Nat /\ (inbox[1].answer # None => 1 \in Answered)
    BY <1>4 DEF Answered
  <2>2. GotIds' \subseteq {inbox[1].answer[1]} /\ (GotIds' # {} => 1 \in Answered)
    BY <1>1, <1>4, <2>1 DEF GotIds
  <2>3. 1 \in Answered => \A i \in Answered' : inbox[1].answer[1] < inbox'[i].answer[1]
    BY <1>6 DEF OrderInv, QueuesOrdered
  <2> QED BY <2>2, <2>3 DEF InboxIds
<1>13. QueuesOrdered'
  <2>1. \A i, j \in Answered' : i < j => inbox'[i].answer[1] < inbox'[j].answer[1]
    BY <1>6 DEF OrderInv, QueuesOrdered
  <2> QED BY <1>1, <2>1 DEF OrderInv, QueuesOrdered
<1>14. AllSent'
  <2>1. LogIds \subseteq Nat
    BY Numbered
  <2> QED BY <1>9, <1>10, <1>11, <1>12, <2>1 DEF OrderInv, AllSent
<1>15. StationsOrdered'
  BY <1>10, <1>11, <1>12 DEF OrderInv, StationsOrdered, Before
<1> QED BY <1>7, <1>8, <1>13, <1>14, <1>15 DEF OrderInv

LEMMA StoreStep ==
  ASSUME OrderInv, StoreAnswer
  PROVE  OrderInv'
<1> USE DEF callerVars, lineVars, records
<1>1. /\ spc = "store" /\ spc' = "event" /\ thr_rx_cmd' = got[2]
      /\ UNCHANGED <<cpc, id, cmd, thr_tx_cmd, tmp, got, pending, inbox, log, returned>>
  BY DEF StoreAnswer
<1>2. TypeOK' /\ ToSend' /\ AtMostOnce' /\ ResultsAdvance'
  BY <1>1 DEF OrderInv, TypeOK, ToSend, NotPosted, AtMostOnce, ResultsAdvance
<1>3. \A x \in Nat : Sent(x) => Sent(x)'
  BY <1>1 DEF Sent, NotPosted
<1>4. UNCHANGED <<LogIds, PendingIds, InboxIds, ReturnedIds>> /\ GotIds' = {} /\ RxIds' = GotIds
  BY <1>1 DEF LogIds, PendingIds, InboxIds, Answered, ReturnedIds, GotIds, RxIds
<1>5. AllSent'
  <2>1. LogIds \subseteq Nat
    BY Numbered
  <2> QED BY <1>3, <1>4, <2>1 DEF OrderInv, AllSent
<1>6. QueuesOrdered' /\ StationsOrdered'
  BY <1>1, <1>4 DEF OrderInv, QueuesOrdered, Answered, StationsOrdered, Before
<1> QED BY <1>2, <1>5, <1>6 DEF OrderInv

\* The first request leaves the device: as an answer, as a damaged one, or unheard.
LEMMA DeviceStep ==
  ASSUME OrderInv, Answer \/ LineFault \/ AnswerUnheard
  PROVE  OrderInv'
<1> USE DEF callerVars, rxShared, lineVars, lineState, records
<1> DEFINE Arrived == [bad : BOOLEAN, answer : {None} \cup Request]
<1>1. /\ pending # << >> /\ pending' = Tail(pending)
      /\ UNCHANGED <<cpc, id, cmd, thr_tx_cmd, thr_rx_cmd, spc, tmp, got, log, returned>>
  BY DEF Answer, LineFault, AnswerUnheard
<1>2. pending \in Seq(Request) /\ inbox \in Seq(Arrived)
  BY DEF OrderInv, TypeOK
<1>3. /\ pending[1] \in Request /\ 1 \in DOMAIN pending /\ pending' \in Seq(Request)
      /\ Head(pending) = pending[1]
      /\ \A i \in DOMAIN pending' : i \in Nat /\ i > 0 /\ i + 1 \in DOMAIN pending
                                    /\ pending'[i] = pending[i + 1]
  BY <1>1, <1>2, TailOf
<1>4. \/ inbox' = inbox
      \/ \E a \in Arrived : a.answer \in {None, pending[1]} /\ inbox' = Append(inbox, a)
  <2>1. CASE Answer
    <3>1. [bad |-> FALSE, answer |-> pending[1]] \in Arrived
      BY <1>3
    <3> QED BY <1>3, <2>1, <3>1 DEF Answer, Arrive
  <2>2. CASE LineFault
    <3>1. [bad |-> TRUE, answer |-> << >>] \in Arrived
      BY DEF None
    <3> QED BY <2>2, <3>1 DEF LineFault, Arrive, None
  <2>3. CASE AnswerUnheard
    BY <2>3 DEF AnswerUnheard
  <2> QED BY <2>1, <2>2, <2>3
<1>5. /\ inbox' \in Seq(Arrived)
      /\ \/ inbox' = inbox
         \/ \A i \in DOMAIN inbox' :
              \/ i \in DOMAIN inbox /\ inbox'[i] = inbox[i]
              \/ i = Len(inbox) + 1 /\ inbox'[i].answer \in {None, pending[1]}
      /\ \A i \in DOMAIN inbox : i \in Nat /\ i < Len(inbox) + 1
  <2> HIDE DEF Arrived
  <2>1. \A i \in DOMAIN inbox : i \in Nat /\ i < Len(inbox) + 1
    BY <1>2
  <2>2. CASE inbox' = inbox
    BY <1>2, <2>1, <2>2
  <2>3. CASE inbox' # inbox
    <3>1. PICK a \in Arrived : a.answer \in {None, pending[1]} /\ inbox' = Append(inbox, a)
      BY <1>4, <2>3
    <3> QED BY <1>2, <3>1, AppendTo
  <2> QED BY <2>2, <2>3
<1>6. TypeOK'
  BY <1>1, <1>3, <1>5 DEF OrderInv, TypeOK
<1>7. ToSend' /\ AtMostOnce' /\ ResultsAdvance'
  BY <1>1 DEF OrderInv, ToSend, NotPosted, AtMostOnce, ResultsAdvance
<1>8. \A x \in Nat : Sent(x) => Sent(x)'
  BY <1>1 DEF Sent, NotPosted
<1>9. UNCHANGED <<LogIds, GotIds, RxIds, ReturnedIds>>
  BY <1>1 DEF LogIds, GotIds, RxIds, ReturnedIds
<1>10. /\ PendingIds' \subseteq PendingIds /\ pending[1][1] \in PendingIds
       /\ \A x \in PendingIds' : pending[1][1] < x
  BY <1>3 DEF OrderInv, QueuesOrdered, PendingIds
<1>11. InboxIds' \subseteq InboxIds \cup {pending[1][1]}
  BY <1>5 DEF InboxIds, Answered
<1>12. QueuesOrdered'
  <2>1. \A i, j \in DOMAIN pending' : i < j => pending'[i][1] < pending'[j][1]
    BY <1>3 DEF OrderInv, QueuesOrdered
  <2>2. \A i \in Answered : inbox[i].answer[1] < pending[1][1]
    BY <1>10 DEF OrderInv, StationsOrdered, Before, InboxIds
  <2>3. \A i, j \in Answered' : i < j => inbox'[i].answer[1] < inbox'[j].answer[1]
    BY <1>5, <2>2 DEF OrderInv, QueuesOrdered, Answered
  <2> QED BY <2>1, <2>3 DEF QueuesOrdered
<1>13. AllSent'
  <2>1. LogIds \subseteq Nat
    BY Numbered
  <2> QED BY <1>8, <1>9, <1>10, <1>11, <2>1 DEF OrderInv, AllSent
<1>14. StationsOrdered'
  BY <1>9, <1>10, <1>11 DEF OrderInv, StationsOrdered, Before
<1> QED BY <1>6, <1>7, <1>12, <1>13, <1>14 DEF OrderInv

-----------------------------------------------------------------------------

LEMMA OrderStep == OrderInv /\ [SessionNext]_allVars => OrderInv'
<1> SUFFICES ASSUME OrderInv, [SessionNext]_allVars PROVE OrderInv'
  OBVIOUS
<1>1. CASE Session
  BY <1>1, PortStep, DeviceStep, CallerStep DEF Session
<1>2. CASE Hosted
  BY <1>2, CallerStep, TakeStep, ThreadStep, WriteStep, ReadStep, StoreStep, DeviceStep
     DEF Hosted, processcommand, RunningThread, serial_thread
<1>3. CASE UNCHANGED allVars
  <2> USE <1>3 DEF allVars, vars, callerVars, rxShared, txStats, lineVars, records
  <2>1. TypeOK' /\ ToSend'
    BY DEF OrderInv, TypeOK, ToSend, NotPosted
  <2>2. \A x \in Nat : Sent(x) => Sent(x)'
    BY DEF Sent, NotPosted
  <2>3. UNCHANGED <<pending, inbox, thr_rx_cmd, log, returned, spc, got>>
    OBVIOUS
  <2> QED BY <2>1, <2>2, <2>3, Kept
<1> QED BY <1>1, <1>2, <1>3 DEF SessionNext

\* The inductive invariant holds of every behaviour.
THEOREM OrderInvariant == SessionSpec => []OrderInv
<1> QED BY InitOrder, OrderStep, PTL DEF SessionSpec

\* No request goes out twice or after a later one, whatever the timeouts and sessions do.
THEOREM SentOnce == SessionSpec => []AtMostOnce
<1>1. OrderInv => AtMostOnce
  BY DEF OrderInv
<1> QED BY <1>1, OrderInvariant, PTL

\* No answer is returned twice or after the answer to a later request.
THEOREM NeverBack == SessionSpec => []ResultsAdvance
<1>1. OrderInv => ResultsAdvance
  BY DEF OrderInv
<1> QED BY <1>1, OrderInvariant, PTL

-----------------------------------------------------------------------------
(* Calls in step.                                                          *)

LEMMA InitStep == SessionInit => StepInv
<1> SUFFICES ASSUME SessionInit PROVE StepInv
  OBVIOUS
<1> USE DEF SessionInit, Init
<1>1. PortHeld /\ InPhase
  BY DEF PortHeld, InPhase, NothingSent, Quiet, None
<1>2. counts = cmd /\ early \in Nat /\ torn \in {0, 1} /\ result = << >> /\ DOMAIN log = {}
  OBVIOUS
<1>3. CorrectInStep /\ QuietResyncs
  BY DEF CorrectInStep, CorrectAnswer, QuietResyncs
<1> QED BY <1>1, <1>2, <1>3 DEF StepInv

LEMMA Single ==
  ASSUME NEW x
  PROVE  /\ Append(<< >>, x) = <<x>> /\ Head(<<x>>) = x /\ Tail(<<x>>) = << >> /\ <<x>> # << >>
         /\ <<x>>[1] = x
OBVIOUS

LEMMA TwoPieces ==
  ASSUME NEW x
  PROVE  <<x>> \o << >> # << >>
OBVIOUS

-----------------------------------------------------------------------------
(* What holds in step and out of step.                                     *)

Basics ==
  /\ PortHeld /\ counts = cmd /\ early \in Nat /\ torn \in {0, 1}
  /\ result # << >> => result[3] \in Nat /\ result[3] <= id

LEMMA BasicStep ==
  ASSUME TypeOK, Basics, [SessionNext]_allVars
  PROVE  Basics'
<1> USE DEF Basics, PortHeld, TypeOK, vars, callState, callerVars, rxShared, lineVars, lineState,
            records, portVars, sessionVars
<1>1. CASE serial_init \/ serial_init_events \/ serial_uninit \/ serial_uninit_handles \/ ThreadExit
  BY <1>1 DEF serial_init, OpenPort, serial_init_events, serial_uninit, serial_uninit_handles,
              ThreadExit
<1>2. CASE AnswerUnheard \/ \E c \in Commands : CallClosed(c)
  BY <1>2 DEF AnswerUnheard, CallClosed
<1>3. ASSUME Hosted, UNCHANGED <<port, thr_exit, alive>>
      PROVE  Basics'
  <2>1. CASE port = "open" /\ processcommand
    BY SMTT(30), <1>3, <2>1 DEF processcommand, Call, serial_before_transmit, PostRequest,
                               WaitTx, TxTimeout, RxTimeout, TakeAnswer, Return
  <2>2. CASE RunningThread
    BY <1>3, <2>2 DEF RunningThread, serial_thread, CopyRequest, ClearRequest, WriteRequest,
                      tx_proc_set_event, Silence, ReadAnswer, StoreAnswer, rx_proc_set_event
  <2>3. CASE Answer \/ LineFault
    BY <1>3, <2>3 DEF Answer, LineFault
  <2> QED BY <1>3, <2>1, <2>2, <2>3 DEF Hosted
<1>4. CASE UNCHANGED allVars
  BY <1>4 DEF allVars
<1> QED BY <1>1, <1>2, <1>3, <1>4 DEF SessionNext, Session

-----------------------------------------------------------------------------
(* One step of a call in its phases.                                       *)

Torn == torn' = 1 /\ OutOfStep

LEMMA CallerPhase ==
  ASSUME TypeOK, Basics, InPhase, processcommand
  PROVE  InPhase' \/ early' # early
<1> USE DEF InPhase, NothingSent, Posted, UnderWay, OnTheLine, Received, Quiet, Own, None,
            callerVars, rxShared, txStats, lineVars, records
<1>1. CASE (\E c \in Commands : Call(c)) \/ serial_before_transmit \/ PostRequest
  BY <1>1 DEF Call, serial_before_transmit, PostRequest
<1>2. CASE WaitTx
  BY <1>2 DEF WaitTx, Return
<1>3. CASE TxTimeout
  BY <1>3 DEF TxTimeout, Basics
<1>4. CASE RxTimeout
  BY <1>4 DEF RxTimeout, Return, Due, Basics
<1>5. CASE TakeAnswer
  BY <1>5 DEF TakeAnswer, Return
<1> QED BY <1>1, <1>2, <1>3, <1>4, <1>5 DEF processcommand

LEMMA ThreadPhase ==
  ASSUME TypeOK, Basics, InPhase, serial_thread
  PROVE  InPhase' \/ Torn
<1> USE DEF Basics, PortHeld, InPhase, NothingSent, Posted, UnderWay, OnTheLine, Received, Quiet,
            Own, None, callerVars, rxShared, txStats, lineVars, records
<1>1. CASE CopyRequest \/ ClearRequest
  BY <1>1 DEF CopyRequest, ClearRequest
<1>2. CASE WriteRequest
  <2>1. spc = "write" /\ tmp = Own /\ Posted /\ cpc = "waittx"
    BY <1>2 DEF WriteRequest
  <2>2. /\ spc' = "sent" /\ inbox' = << >>
        /\ UNCHANGED <<cpc, id, cmd, thr_tx_cmd, tx_event, rx_event>>
    BY <1>2, <2>1 DEF WriteRequest
  <2>3. \/ tmp_tx_stat' = "OK" /\ pending' = Append(<< >>, tmp)
        \/ pending' = << >>
    BY <1>2, <2>1 DEF WriteRequest
  <2>4. \/ tmp_tx_stat' = "OK" /\ pending' = <<tmp>>
        \/ pending' = << >>
    BY <2>3, Single
  <2> QED BY <2>1, <2>2, <2>4
<1>3. CASE tx_proc_set_event \/ Silence
  BY <1>3 DEF tx_proc_set_event, Silence
<1>4. CASE ReadAnswer
  <2>1. /\ spc = "rx" /\ ~rx_event /\ pending = << >> /\ thr_tx_cmd = None
        /\ cpc \in {"waittx", "waitrx"} /\ (cpc = "waitrx" => tx_event)
        /\ tmp_tx_stat = "OK" /\ (tx_event => thr_tx_stat = tmp_tx_stat)
    BY <1>4 DEF ReadAnswer
  <2>2. PICK a \in {[bad |-> FALSE, answer |-> Own], Rest} : inbox = <<a>>
    BY <1>4 DEF ReadAnswer
  <2>3. inbox # << >> /\ Head(inbox) = a /\ Tail(inbox) = << >>
    BY <2>2, Single
  <2>4. UNCHANGED <<cpc, id, cmd, thr_tx_cmd, tx_event, rx_event, pending, txStats>>
    BY <1>4 DEF ReadAnswer
  <2>5. CASE a = [bad |-> FALSE, answer |-> Own]
    <3>1. a.bad = FALSE /\ a.answer = Own /\ a.answer # << >> /\ a.answer[2] = counts
      BY <2>5, Single
    <3>2. RxBytes(counts) \in Nat
      BY HostAssumption DEF TypeOK
    <3>3. spc' = "store" /\ got' = <<"OK", Own>> /\ inbox' = << >>
      <4> HIDE DEF Own
      <4> QED BY SMTT(30), <1>4, <2>3, <3>1, <3>2 DEF ReadAnswer
    <3> QED BY <2>1, <2>4, <3>3
  <2>6. CASE a = Rest
    <3>1. a.bad = TRUE
      BY <2>6 DEF Rest
    <3>2. /\ spc' = "event" /\ got'[1] # "OK"
          /\ inbox' = << >> \/ (inbox' # << >> /\ torn' = 1)
      BY <1>4, <2>3, <3>1, TwoPieces DEF ReadAnswer, Damaged
    <3>3. CASE inbox' = << >>
      BY <2>1, <2>4, <3>2, <3>3
    <3>4. CASE inbox' # << >>
      BY <2>3, <3>2, <3>4 DEF Torn, OutOfStep
    <3> QED BY <3>3, <3>4
  <2> QED BY <2>2, <2>5, <2>6
<1>5. CASE StoreAnswer \/ rx_proc_set_event
  BY <1>5 DEF StoreAnswer, rx_proc_set_event
<1> QED BY <1>1, <1>2, <1>3, <1>4, <1>5 DEF serial_thread

LEMMA DevicePhase ==
  ASSUME TypeOK, Basics, InPhase, Answer \/ LineFault
  PROVE  InPhase'
<1> USE DEF Basics, PortHeld, InPhase, NothingSent, Posted, UnderWay, OnTheLine, Received, Quiet,
            Own, None, callerVars, rxShared, txStats, lineVars, records
<1>1. /\ pending = <<Own>> /\ inbox = << >> /\ ~rx_event /\ spc \in {"sent", "tx", "rx"}
      /\ thr_tx_cmd = None /\ cpc \in {"waittx", "waitrx"} /\ (cpc = "waitrx" => tx_event)
      /\ spc = "sent" => ~tx_event
      /\ tmp_tx_stat = "OK" /\ (tx_event => thr_tx_stat = tmp_tx_stat)
  BY DEF Answer, LineFault
<1>2. pending' = << >> /\ Head(pending) = Own
  BY <1>1, Single DEF Answer, LineFault
<1>3. \/ inbox' = << >>
      \/ \E a \in {[bad |-> FALSE, answer |-> Own], Rest} : inbox' = <<a>>
  <2>1. CASE Answer
    <3>1. inbox' = Append(<< >>, [bad |-> FALSE, answer |-> Own])
      BY <1>1, <1>2, <2>1 DEF Answer, Arrive
    <3> QED BY <3>1, Single
  <2>2. CASE LineFault
    <3>1. inbox' = << >> \/ inbox' = Append(<< >>, Rest)
      BY <1>1, <2>2 DEF LineFault, Arrive, Rest
    <3> QED BY <3>1, Single
  <2> QED BY <2>1, <2>2
<1>4. UNCHANGED <<cpc, id, cmd, thr_tx_cmd, tx_event, rx_event, spc, txStats>>
  BY DEF Answer, LineFault
<1> QED BY <1>1, <1>2, <1>3, <1>4 DEF Rest

-----------------------------------------------------------------------------

LEMMA PortPhase ==
  ASSUME TypeOK, Basics, InStep \/ clean => InPhase, Session
  PROVE  InStep' \/ clean' => InPhase'
<1> USE DEF Basics, PortHeld, InStep, vars, callState, callerVars, rxShared, txStats, lineVars,
            lineState, portVars, sessionVars, records
<1>1. CASE serial_init
  <2>1. spc = "tx" /\ cpc = "idle" /\ inbox' \in {inbox, << >>}
        /\ UNCHANGED <<cpc, spc, thr_tx_cmd, pending, early, torn>>
    BY <1>1 DEF serial_init
  <2>2. clean' => clean \/ (NothingUnderWay /\ inbox' = << >>)
    BY <1>1 DEF serial_init, OpenPort
  <2> QED BY <2>1, <2>2 DEF InPhase, NothingSent, NothingUnderWay, Quiet, None
<1>2. CASE serial_init_events \/ serial_uninit \/ serial_uninit_handles \/ ThreadExit
  <2>1. cpc = "idle" \/ ThreadExit
    BY <1>2 DEF serial_init_events, serial_uninit, serial_uninit_handles
  <2>2. UNCHANGED <<cpc, id, cmd, spc, thr_tx_cmd, thr_rx_cmd, thr_rx_stat, tmp, got, pending,
                    inbox, early, torn, clean, tmp_tx_stat, thr_tx_stat>>
    BY <1>2 DEF serial_init_events, serial_uninit, serial_uninit_handles, ThreadExit
  <2>3. ThreadExit => UNCHANGED <<tx_event, rx_event>>
    BY DEF ThreadExit
  <2> QED BY <2>1, <2>2, <2>3 DEF InPhase, NothingSent, Posted, UnderWay, OnTheLine, Received,
                                   Quiet, Own
<1>3. CASE AnswerUnheard \/ \E c \in Commands : CallClosed(c)
  <2>1. cpc = "idle"
    BY <1>3 DEF AnswerUnheard, CallClosed
  <2>2. CASE AnswerUnheard
    BY <2>1, <2>2 DEF AnswerUnheard, InPhase, NothingSent, Quiet
  <2>3. CASE \E c \in Commands : CallClosed(c)
    BY <2>1, <2>3 DEF CallClosed, InPhase, NothingSent, Quiet
  <2> QED BY <1>3, <2>2, <2>3
<1> QED BY <1>1, <1>2, <1>3 DEF Session

\* A call that begins with nothing under way is in step, whatever was before.
LEMMA Beginning ==
  ASSUME Basics, Hosted, CallBegins, NothingSent
  PROVE  InPhase' /\ id' = id + 1 /\ UNCHANGED <<result, early, torn, log>>
<1>1. PICK c \in Commands : Call(c)
  BY DEF CallBegins, Hosted, RunningThread, processcommand, serial_thread, serial_before_transmit,
         PostRequest, WaitTx, TxTimeout, RxTimeout, TakeAnswer, CopyRequest, ClearRequest,
         WriteRequest, tx_proc_set_event, Silence, ReadAnswer, StoreAnswer, rx_proc_set_event,
         Answer, LineFault, callerVars
<1>2. cpc' = "reset" /\ id' = id + 1 /\ UNCHANGED <<result, early, torn, log>>
  BY <1>1 DEF Call, records
<1>3. NothingSent'
  BY <1>1 DEF Call, lineVars, NothingSent, Quiet
<1> QED BY <1>2, <1>3 DEF InPhase

LEMMA HostedPhase ==
  ASSUME TypeOK, Basics, InStep \/ clean => InPhase, Hosted, History
  PROVE  /\ InStep' \/ clean' => InPhase'
         /\ InStep' => InStep
         /\ ~CallBegins /\ clean' => clean
<1>1. \/ early' = early
      \/ early' = early + 1 /\ early' # 0
  BY DEF Basics, Hosted, RunningThread, processcommand, serial_thread, Call, serial_before_transmit,
         PostRequest, WaitTx, TxTimeout, RxTimeout, TakeAnswer, CopyRequest, ClearRequest,
         WriteRequest, tx_proc_set_event, Silence, ReadAnswer, StoreAnswer, rx_proc_set_event,
         Answer, LineFault
<1>2. torn' = torn \/ torn' = 1
  BY DEF Hosted, RunningThread, processcommand, serial_thread, Call, serial_before_transmit,
         PostRequest, WaitTx, TxTimeout, RxTimeout, TakeAnswer, CopyRequest, ClearRequest,
         WriteRequest, tx_proc_set_event, Silence, ReadAnswer, StoreAnswer, rx_proc_set_event,
         Answer, LineFault
<1>3. InStep' => InStep
  BY <1>1, <1>2 DEF InStep, Basics
<1>4. CASE CallBegins /\ NothingSent
  BY <1>3, <1>4, Beginning
<1>5. CASE ~(CallBegins /\ NothingSent)
  <2>1. clean' = (clean /\ ~OutOfStep)
    BY <1>5 DEF History
  <2>2. early' # early \/ Torn => ~clean'
    BY <2>1 DEF Torn, OutOfStep
  <2>3. early' # early \/ Torn => ~InStep'
    BY <1>1 DEF InStep, Torn
  <2>4. InPhase => InPhase' \/ early' # early \/ Torn
    BY CallerPhase, ThreadPhase, DevicePhase DEF Hosted, RunningThread
  <2> QED BY <1>3, <2>1, <2>2, <2>3, <2>4
<1> QED BY <1>4, <1>5

-----------------------------------------------------------------------------
(* What the calls return and what goes out.                                *)

\* Every step but two leaves the result, or returns an error; and the log.
LEMMA Returned ==
  ASSUME Hosted, ~TakeAnswer
  PROVE  result' = result \/ CorrectAnswer'
<1>1. CASE TxTimeout \/ RxTimeout
  BY <1>1 DEF TxTimeout, RxTimeout, Return, CorrectAnswer
<1>2. CASE WaitTx
  <2>1. \/ result' = result
        \/ thr_tx_stat # "OK" /\ result' = <<thr_tx_stat, << >>, id>>
    BY <1>2 DEF WaitTx, Return
  <2> QED BY <2>1 DEF CorrectAnswer
<1>3. CASE ~TxTimeout /\ ~RxTimeout /\ ~WaitTx
  BY <1>3 DEF Hosted, RunningThread, processcommand, serial_thread, Call, serial_before_transmit,
         PostRequest, CopyRequest, ClearRequest, WriteRequest, tx_proc_set_event, Silence,
         ReadAnswer, StoreAnswer, rx_proc_set_event, Answer, LineFault, callerVars
<1> QED BY <1>1, <1>2, <1>3

LEMMA TakenIsOwn ==
  ASSUME Basics, InPhase, TakeAnswer
  PROVE  CorrectAnswer'
<1>1. thr_rx_stat = "OK" => thr_rx_cmd = Own
  BY DEF InPhase, TakeAnswer, UnderWay, Received
<1>2. id' = id /\ (result'[1] = "OK" => result' = <<thr_rx_stat, thr_rx_cmd, id>>)
  BY DEF TakeAnswer, Return
<1> QED BY <1>1, <1>2 DEF CorrectAnswer, Own, TakeAnswer, Return

LEMMA ResultStep ==
  ASSUME StepInv, TypeOK, [SessionNext]_allVars
  PROVE  CorrectInStep' /\ QuietResyncs'
<1>1. Basics /\ (InStep \/ clean => InPhase) /\ CorrectInStep /\ QuietResyncs
  BY DEF StepInv, Basics
<1>2. CASE Session
  <2> USE <1>1 DEF CorrectInStep, QuietResyncs, CorrectAnswer, InStep, vars, callState, callerVars,
                   lineState, portVars, sessionVars
  <2>1. CASE serial_init
    <3>1. UNCHANGED <<result, early, torn>>
      BY <2>1 DEF serial_init
    <3>2. \/ UNCHANGED <<first, clean>>
          \/ first' = id + 1
      BY <2>1 DEF serial_init, OpenPort
    <3>3. result # << >> /\ first' = id + 1 => ~(result[3] >= first')
      BY DEF Basics, StepInv, TypeOK
    <3> QED BY <3>1, <3>2, <3>3
  <2>2. CASE AnswerUnheard \/ serial_init_events \/ serial_uninit \/ serial_uninit_handles
             \/ ThreadExit
    BY <2>2 DEF AnswerUnheard, serial_init_events, serial_uninit, serial_uninit_handles, ThreadExit
  <2>3. CASE \E c \in Commands : CallClosed(c)
    BY <2>3 DEF CallClosed
  <2> QED BY <1>2, <2>1, <2>2, <2>3 DEF Session
<1>3. ASSUME Hosted, History
      PROVE  CorrectInStep' /\ QuietResyncs'
  <2>1. (InStep' => InStep) /\ (~CallBegins /\ clean' => clean)
    BY <1>1, <1>3, HostedPhase
  <2>2. CASE CallBegins /\ NothingSent
    <3>1. result' = result /\ id' = id + 1
      BY <1>1, <1>3, <2>2, Beginning
    <3>2. first' = IF clean THEN first ELSE id + 1
      BY <1>3, <2>2, <3>1 DEF History
    <3>3. result # << >> /\ ~clean => ~(result[3] >= first')
      BY <1>1, <3>2 DEF Basics, TypeOK
    <3> QED BY <1>1, <2>1, <3>1, <3>2, <3>3 DEF CorrectInStep, QuietResyncs, CorrectAnswer
  <2>3. CASE ~(CallBegins /\ NothingSent)
    <3>1. UNCHANGED first /\ (clean' => clean)
      BY <1>3, <2>3 DEF History
    <3>2. CASE TakeAnswer
      <4>1. InStep' \/ clean' => InPhase
        BY <1>1, <2>1, <3>1
      <4> QED BY <1>1, <3>2, <4>1, TakenIsOwn DEF CorrectInStep, QuietResyncs
    <3>3. CASE ~TakeAnswer
      <4>1. result' = result \/ CorrectAnswer'
        BY <1>3, <3>3, Returned
      <4> QED BY <1>1, <2>1, <3>1, <4>1 DEF CorrectInStep, QuietResyncs, CorrectAnswer
    <3> QED BY <3>2, <3>3
  <2> QED BY <2>2, <2>3
<1>4. CASE UNCHANGED allVars
  BY <1>1, <1>4 DEF allVars, vars, callerVars, sessionVars, CorrectInStep, QuietResyncs,
                    CorrectAnswer, InStep
<1> QED BY <1>2, <1>3, <1>4 DEF SessionNext

LEMMA LogStep ==
  ASSUME StepInv, TypeOK, [SessionNext]_allVars, InStep'
  PROVE  \A i \in DOMAIN log' : log'[i].whole
<1>1. Basics /\ (InStep \/ clean => InPhase) /\ (InStep => \A i \in DOMAIN log : log[i].whole)
  BY DEF StepInv, Basics
<1>2. CASE WriteRequest /\ Hosted /\ History
  <2>1. InPhase /\ InStep
    BY <1>1, <1>2, HostedPhase
  <2>2. tmp = Own /\ counts = cmd
    BY <1>1, <1>2, <2>1 DEF WriteRequest, Basics, PortHeld, InPhase, NothingSent, UnderWay, Posted,
                            OnTheLine, Received
  <2> DEFINE e == [id |-> tmp[1], whole |-> TRUE]
  <2>3. log' = Append(log, e)
    BY <1>2, <2>2 DEF WriteRequest, Own
  <2>4. e \in [id : Nat, whole : BOOLEAN] /\ e.whole
    BY <2>2 DEF TypeOK, Own
  <2>5. log \in Seq([id : Nat, whole : BOOLEAN])
    BY DEF TypeOK
  <2> HIDE DEF e
  <2>6. \A i \in DOMAIN log' : (i \in DOMAIN log /\ log'[i] = log[i]) \/ log'[i] = e
    BY <2>3, <2>4, <2>5, AppendTo
  <2> QED BY <1>1, <2>1, <2>4, <2>6
<1>3. CASE Hosted /\ History /\ ~WriteRequest
  <2>1. InStep
    BY <1>1, <1>3, HostedPhase
  <2>2. log' = log
    BY <1>3 DEF Hosted, RunningThread, processcommand, serial_thread, Call, serial_before_transmit,
         PostRequest, WaitTx, TxTimeout, RxTimeout, TakeAnswer, CopyRequest, ClearRequest,
         tx_proc_set_event, Silence, ReadAnswer, StoreAnswer, rx_proc_set_event, Answer,
         LineFault, records
  <2> QED BY <1>1, <2>1, <2>2
<1>4. CASE Session \/ UNCHANGED allVars
  <2>1. UNCHANGED <<log, early, torn>>
    BY <1>4 DEF Session, serial_init, serial_init_events, serial_uninit, serial_uninit_handles,
         ThreadExit, AnswerUnheard, CallClosed, lineState, allVars, vars, records
  <2> QED BY <1>1, <2>1 DEF InStep
<1> QED BY <1>2, <1>3, <1>4 DEF SessionNext

-----------------------------------------------------------------------------

LEMMA StepStep == OrderInv /\ StepInv /\ [SessionNext]_allVars => StepInv'
<1> SUFFICES ASSUME OrderInv, StepInv, [SessionNext]_allVars PROVE StepInv'
  OBVIOUS
<1>1. TypeOK /\ Basics /\ (InStep \/ clean => InPhase)
  BY DEF OrderInv, StepInv, Basics
<1>2. Basics'
  BY <1>1, BasicStep
<1>3. InStep' \/ clean' => InPhase'
  <2>1. CASE Session
    BY <1>1, <2>1, PortPhase
  <2>2. CASE Hosted /\ History
    BY <1>1, <2>2, HostedPhase
  <2>3. CASE UNCHANGED allVars
    BY <1>1, <2>3 DEF allVars, vars, callerVars, rxShared, txStats, lineVars, sessionVars, InStep,
                      InPhase, NothingSent, Posted, UnderWay, OnTheLine, Received, Quiet, Own
  <2> QED BY <2>1, <2>2, <2>3 DEF SessionNext
<1> QED BY <1>1, <1>2, <1>3, ResultStep, LogStep DEF StepInv, Basics

\* Both inductive invariants hold of every behaviour.
THEOREM StepInvariant == SessionSpec => [](OrderInv /\ StepInv)
<1>1. OrderInv /\ StepInv /\ [SessionNext]_allVars => (OrderInv /\ StepInv)'
  BY OrderStep, StepStep
<1> QED BY InitOrder, InitStep, <1>1, PTL DEF SessionSpec

\* In step, what a call returns with ERR_OK is the answer to its own request.
THEOREM AnswersInStep == SessionSpec => []CorrectInStep
<1>1. StepInv => CorrectInStep
  BY DEF StepInv
<1> QED BY <1>1, StepInvariant, PTL

\* In step, a request goes out when nothing is unanswered, and with its own parameters.
THEOREM WaitsForAnswer == SessionSpec => []OneAtATime
<1>1. StepInv => OneAtATime
  BY DEF StepInv, OneAtATime, InPhase, PortHeld, NothingSent, Posted, UnderWay, OnTheLine, Received,
         Quiet
<1> QED BY <1>1, StepInvariant, PTL

\* A call, or an opening of the port, with nothing under way brings calls and answers back
\* in step.
THEOREM ResyncsWhenQuiet == SessionSpec => []QuietResyncs
<1>1. StepInv => QuietResyncs
  BY DEF StepInv
<1> QED BY <1>1, StepInvariant, PTL
=============================================================================
