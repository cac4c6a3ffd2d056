---------------------------- MODULE UartRx_proofs ----------------------------
(***************************************************************************)
(* The receive buffer of uart.c never overruns, for every command table,   *)
(* every check byte, every stream of requests and faults, and hosts that   *)
(* wait as well as hosts that do not.  Towards a host that waits, and      *)
(* behind a line that keeps the framing of its requests, the device does   *)
(* what RequestReply promises.                                             *)
(***************************************************************************)
EXTENDS UartRx, SequenceTheorems, TLAPS

\* Every packet of the table fits in a third of the buffer.
LEMMA LongestFits ==
  /\ Longest \in Nat /\ Longest >= 4 /\ 3 * Longest <= RXBUFFERSIZE
  /\ RXBUFFERSIZE \in 1 .. 256
  /\ \A c \in Commands : COMMANDLIST[c] \in 4 .. Longest
<1>1. RXBUFFERSIZE \in 1 .. 256 /\ COMMANDLIST \in [Commands -> 4 .. RXBUFFERSIZE]
        /\ Commands # {}
  BY BufferAssumption
<1>2. \A c \in Commands : COMMANDLIST[c] \in 4 .. RXBUFFERSIZE
  BY <1>1
<1>3. PICK c \in Commands : TRUE
  BY <1>1
<1>4. 3 * COMMANDLIST[c] <= RXBUFFERSIZE
  BY RoomAssumption
<1>5. RXBUFFERSIZE >= 12
  BY <1>1, <1>2, <1>4
<1>6. Longest \in Nat /\ 3 * Longest <= RXBUFFERSIZE /\ RXBUFFERSIZE < 3 * Longest + 3
  BY <1>1 DEF Longest
<1>7. \A d \in Commands : COMMANDLIST[d] \in 4 .. Longest
  <2> SUFFICES ASSUME NEW d \in Commands PROVE COMMANDLIST[d] \in 4 .. Longest
    OBVIOUS
  <2>1. COMMANDLIST[d] \in 4 .. RXBUFFERSIZE /\ 3 * COMMANDLIST[d] <= RXBUFFERSIZE
    BY <1>2, RoomAssumption
  <2> QED BY <2>1, <1>1, <1>6
<1> QED BY <1>1, <1>5, <1>6, <1>7

\* The bytes a fault of the line leaves or puts on it are bytes.
LEMMA TailOfBytes ==
  ASSUME NEW s \in Seq(BYTE), s # << >>
  PROVE  Head(s) \in BYTE /\ Tail(s) \in Seq(BYTE)
  OBVIOUS

\* Storing a byte keeps the buffer a buffer.
LEMMA StoreType ==
  ASSUME NEW buf \in [Index -> BYTE], NEW i, NEW b \in BYTE
  PROVE  [buf EXCEPT ![i] = b] \in [Index -> BYTE]
  OBVIOUS

\* Whatever byte comes, the receive interrupt keeps the types and stays within
\* the room that Base leaves.
LEMMA ReceiveKeepsRoom ==
  ASSUME NEW b \in BYTE, RxTypeOK, pc \in pcs, PointerBounded, Shielded, Receive(b),
         pc' = pc, clr' = clr
  PROVE  RxTypeOK' /\ PointerBounded' /\ Shielded'
<1>1. Base' = Base /\ Base \in Nat /\ Base <= 2 * Longest /\ Longest \in Nat
  BY LongestFits DEF Base, pcs, Longest
<1>2. 3 * Longest < 256 /\ RXBUFFERSIZE \in 1 .. 256
  BY LongestFits
<1>3. ASSUME nocommand, RxStatus # 4
      PROVE  RxTypeOK' /\ PointerBounded' /\ Shielded'
  <2>1. RxBuffer' \in [Index -> BYTE]
    <3>1. RxBuffer' = [RxBuffer EXCEPT ![0] = 0]
      BY <1>3 DEF nocommand, clearRxBuff
    <3>2. 0 \in BYTE /\ RxBuffer \in [Index -> BYTE]
      BY DEF RxTypeOK, BYTE
    <3> QED BY <3>1, <3>2, StoreType
  <2>2. RxTypeOK'
    BY <1>2, <1>3, <2>1 DEF nocommand, clearRxBuff, RxTypeOK, BYTE
  <2> QED BY <1>1, <1>3, <2>2 DEF nocommand, clearRxBuff, PointerBounded, Shielded
<1>4. ASSUME NEW i \in 0 .. 254, Store(i, b)
      PROVE  RxBuffer' \in [Index -> BYTE] /\ RxPointer' = i + 1
  <2>1. RxBuffer' \in [Index -> BYTE]
    BY <1>4, StoreType DEF Store, RxTypeOK
  <2>2. RxPointer' = (i + 1) % 256
    BY <1>4 DEF Store
  <2> QED BY <2>1, <2>2
\* a byte of the header is stored and the status moves on to st
<1>5. ASSUME NEW st \in {1, 2}, NEW i \in 0 .. 254, i <= Base + st - 1, RxStatus # 4,
             Store(i, b), RxStatus' = st, UNCHANGED <<RxCount, plen, Comm_Len, F_Comm>>
      PROVE  RxTypeOK' /\ PointerBounded' /\ Shielded'
  <2>1. RxBuffer' \in [Index -> BYTE] /\ RxPointer' = i + 1
    BY <1>4, <1>5
  <2>2. RxTypeOK'
    BY <1>5, <2>1 DEF RxTypeOK, BYTE
  <2> QED BY <1>1, <1>5, <2>1, <2>2 DEF PointerBounded, Shielded
<1>6. RxStatus # 4 => RxPointer \in 0 .. 254
  BY <1>1, <1>2, LongestFits DEF PointerBounded, RxTypeOK, BYTE
<1>7. CASE RxStatus = 0
  <2>1. RxPointer <= Base
    BY <1>7 DEF PointerBounded
  <2> QED BY <1>1, <1>3, <1>5, <1>6, <1>7, <2>1 DEF Receive, rec_pref
<1>8. CASE RxStatus = 1
  <2>1. RxPointer <= Base + 1
    BY <1>8 DEF PointerBounded
  <2> QED BY <1>1, <1>3, <1>5, <1>6, <1>8, <2>1 DEF Receive, rec_addr
<1>9. CASE RxStatus = 2
  <2>1. CASE /\ b \in Commands
             /\ plen' = COMMANDLIST[b] /\ RxCount' = COMMANDLIST[b] - 3
             /\ Store(RxPointer, b) /\ RxStatus' = 3
             /\ UNCHANGED <<Comm_Len, F_Comm>>
    <3>1. RxPointer <= Base + 2 /\ COMMANDLIST[b] \in 4 .. Longest
      BY <1>9, <2>1, LongestFits DEF PointerBounded
    <3>2. RxBuffer' \in [Index -> BYTE] /\ RxPointer' = RxPointer + 1
      BY <1>4, <1>6, <1>9, <2>1
    <3>3. plen' \in 0 .. RXBUFFERSIZE /\ RxCount' \in 0 .. 255
      BY <1>1, <1>2, <2>1, <3>1, LongestFits
    <3>4. RxTypeOK'
      BY <1>6, <1>9, <2>1, <3>2, <3>3 DEF RxTypeOK, BYTE
    <3> QED BY <1>1, <1>6, <1>9, <2>1, <3>1, <3>2, <3>4 DEF PointerBounded, Shielded
  <2> QED BY <1>3, <1>9, <2>1 DEF Receive, rec_command
<1>10. CASE RxStatus = 3
  <2>1. /\ RxCount >= 1 /\ RxPointer + RxCount <= Base + Longest
        /\ RxCount <= plen /\ plen <= Longest
    BY <1>10 DEF PointerBounded
  <2>2. /\ Store(RxPointer, b) /\ RxCount' = (RxCount - 1) % 256
        /\ UNCHANGED <<plen, F_Comm>>
        /\ \/ RxCount' = 0 /\ RxStatus' = 4 /\ Comm_Len' = plen - 1
           \/ RxCount' # 0 /\ UNCHANGED <<RxStatus, Comm_Len>>
    BY <1>10 DEF Receive, rec_param
  <2>3. RxCount' = RxCount - 1 /\ RxCount' \in BYTE
    BY <2>1, <2>2 DEF RxTypeOK, BYTE
  <2>4. RxBuffer' \in [Index -> BYTE] /\ RxPointer' = RxPointer + 1
    BY <1>4, <1>6, <1>10, <2>2
  <2>5. Comm_Len' \in Index
    <3>1. Comm_Len \in Index /\ plen \in Nat /\ RxCount \in Nat
      BY DEF RxTypeOK, BYTE
    <3>2. plen \in 1 .. RXBUFFERSIZE
      BY <1>1, <1>2, <2>1, <3>1, LongestFits
    <3>3. plen - 1 \in Index
      BY <1>2, <3>2 DEF Index
    <3> QED BY <2>2, <3>1, <3>3
  <2>6. RxTypeOK'
    BY <1>6, <1>10, <2>2, <2>3, <2>4, <2>5 DEF RxTypeOK, BYTE
  <2>7. RxPointer \in Nat /\ RxCount \in Nat /\ plen \in Nat /\ plen' = plen /\ F_Comm' = F_Comm
    BY <2>2 DEF RxTypeOK, BYTE
  <2>8. /\ RxPointer' + RxCount' <= Base + Longest /\ RxPointer' <= Base + Longest
        /\ RxCount' # 0 => RxCount' >= 1
        /\ RxCount' <= plen
    BY <1>1, <2>1, <2>3, <2>4, <2>7
  <2>9. PointerBounded'
    <3>1. RxStatus' = 4 \/ (RxStatus' = 3 /\ RxCount' # 0)
      BY <1>10, <2>2
    <3> QED BY <1>1, <2>1, <2>7, <2>8, <3>1 DEF PointerBounded
  <2> QED BY <1>10, <2>2, <2>6, <2>7, <2>9 DEF Shielded
<1>11. CASE RxStatus = 4
  BY <1>1, <1>11 DEF Receive, rxVars, RxTypeOK, PointerBounded, Shielded
<1> QED BY <1>7, <1>8, <1>9, <1>10, <1>11 DEF RxTypeOK

LEMMA InitRxInv == Init => RxInv
<1> SUFFICES ASSUME Init PROVE RxInv
  OBVIOUS
<1>1. RxTypeOK
  BY LongestFits DEF Init, RxTypeOK, Index, BYTE
<1>2. MainTypeOK
  BY DEF Init, MainTypeOK, BYTE, pcs
<1>3. EnvTypeOK
  BY HostAssumption DEF Init, EnvTypeOK
<1>4. PointerBounded /\ Shielded
  BY LongestFits DEF Init, PointerBounded, Shielded, Base
<1> QED BY <1>1, <1>2, <1>3, <1>4 DEF RxInv, TypeOK

LEMMA NextRxInv == RxInv /\ [Next]_vars => RxInv'
<1> SUFFICES ASSUME RxInv, [Next]_vars PROVE RxInv'
  OBVIOUS
<1> USE DEF RxInv, TypeOK
<1>1. CASE USART1_RX_Interrupt
  <2>1. Head(wire) \in BYTE /\ Tail(wire) \in Seq(BYTE)
    BY <1>1, TailOfBytes DEF USART1_RX_Interrupt, EnvTypeOK
  <2>2. RxTypeOK' /\ PointerBounded' /\ Shielded'
    BY <1>1, <2>1, ReceiveKeepsRoom DEF USART1_RX_Interrupt, mainVars, MainTypeOK
  <2> QED BY <1>1, <2>1, <2>2
          DEF USART1_RX_Interrupt, mainVars, timVars, hostVars, MainTypeOK, EnvTypeOK
<1>2. CASE TIM2OVF_ISR
  <2>1. Tim2Counter' \in 1 .. RXTIMEOUT /\ Tim2Flag' \in {0, 1}
    BY <1>2, HostAssumption DEF TIM2OVF_ISR, EnvTypeOK
  <2> QED BY <1>2, <2>1
          DEF TIM2OVF_ISR, rxVars, mainVars, hostVars, RxTypeOK, MainTypeOK, EnvTypeOK,
              PointerBounded, Shielded, Base
<1>3. CASE Check
  <2>1. MainTypeOK'
    <3>1. 2 \in Index
      BY LongestFits DEF Index
    <3> QED BY <1>3, <3>1 DEF Check, checkpacket, goto, MainTypeOK, RxTypeOK, pcs
  <2>2. RxTypeOK'
    <3>1. 0 \in BYTE
      BY DEF BYTE
    <3> QED BY <1>3, <3>1, StoreType
            DEF Check, checkpacket, clearRxBuff, goto, RxTypeOK
  <2>3. EnvTypeOK'
    BY <1>3 DEF Check, timVars, hostVars, EnvTypeOK
  <2>4. PointerBounded'
    BY <1>3, LongestFits
    DEF Check, checkpacket, clearRxBuff, goto, PointerBounded, Base, RxTypeOK
  <2>5. Shielded'
    BY <1>3 DEF Check, checkpacket, clearRxBuff, goto, Shielded
  <2> QED BY <2>1, <2>2, <2>3, <2>4, <2>5
<1>4. CASE TakeCommand
  BY <1>4 DEF TakeCommand, goto, timVars, hostVars, RxTypeOK, MainTypeOK, EnvTypeOK, pcs,
              PointerBounded, Shielded, Base
<1>5. CASE Acknowledge
  BY <1>5, LongestFits
  DEF Acknowledge, goto, timVars, hostVars, RxTypeOK, MainTypeOK, EnvTypeOK, pcs,
      PointerBounded, Shielded, Base
<1>6. CASE ReadParameter
  <2>1. RxBuffer[ReadOrder(Command)[Len(args) + 1]] \in BYTE
    <3>1. ReadOrder(Command) \in Seq(Index)
      BY HostAssumption DEF MainTypeOK, Index
    <3>2. Len(args) + 1 \in 1 .. Len(ReadOrder(Command))
      BY <1>6, <3>1 DEF ReadParameter, Unread, MainTypeOK
    <3>3. ReadOrder(Command)[Len(args) + 1] \in Index
      BY <3>1, <3>2
    <3> QED BY <3>3 DEF RxTypeOK
  <2>2. MainTypeOK'
    BY <1>6, <2>1 DEF ReadParameter, MainTypeOK
  <2> QED BY <1>6, <2>2
          DEF ReadParameter, rxVars, timVars, hostVars, RxTypeOK, EnvTypeOK,
              PointerBounded, Shielded, Base
<1>7. CASE Execute
  <2>1. executed' \in Seq(BYTE)
    <3>1. Command \in BYTE /\ args \in Seq(BYTE) /\ executed \in Seq(BYTE)
      BY DEF MainTypeOK, EnvTypeOK
    <3>2. <<Command>> \o args \in Seq(BYTE)
      BY <3>1
    <3> QED BY <1>7, <3>1, <3>2 DEF Execute
  <2>2. MainTypeOK' /\ EnvTypeOK'
    BY <1>7, <2>1 DEF Execute, goto, MainTypeOK, EnvTypeOK, timVars, hostVars, pcs
  <2>3. RxTypeOK' /\ Shielded'
    BY <1>7 DEF Execute, goto, rxVars, RxTypeOK, Shielded
  <2>4. PointerBounded'
    BY <1>7, LongestFits DEF Execute, goto, rxVars, PointerBounded, Base
  <2> QED BY <2>2, <2>3, <2>4
<1>8. CASE sendpacket
  <2>1. TypeOK'
    BY <1>8 DEF sendpacket, goto, timVars, hostVars, RxTypeOK, MainTypeOK, EnvTypeOK, pcs, BYTE
  <2>2. PointerBounded'
    <3>1. Base' = 0
      BY <1>8 DEF sendpacket, goto, Base
    <3>2. RxStatus = 3 => RxCount <= Longest /\ RxCount >= 1
      BY LongestFits DEF PointerBounded, RxTypeOK, BYTE
    <3> QED BY <1>8, <3>1, <3>2, LongestFits DEF sendpacket, PointerBounded, RxTypeOK, BYTE
  <2>3. Shielded'
    BY <1>8 DEF sendpacket, goto, Shielded
  <2> QED BY <2>1, <2>2, <2>3
<1>9. CASE putpack
  BY <1>9
  DEF putpack, goto, rxVars, timVars, hostVars, RxTypeOK, MainTypeOK, EnvTypeOK, pcs,
      PointerBounded, Shielded, Base
<1>10. CASE ClearRxBuff
  <2>1. RxTypeOK'
    <3>1. RxBuffer' \in [Index -> BYTE]
      <4>1. 0 \in BYTE
        BY DEF BYTE
      <4> QED BY <1>10, <4>1, StoreType DEF ClearRxBuff, RxTypeOK
    <3> QED BY <1>10, <3>1 DEF ClearRxBuff, RxTypeOK, BYTE
  <2>2. MainTypeOK' /\ EnvTypeOK'
    BY <1>10 DEF ClearRxBuff, MainTypeOK, EnvTypeOK, timVars, hostVars, pcs
  <2>3. PointerBounded'
    <3>1. CASE pc = "clr1" /\ clr < 3
      BY <1>10, <3>1, LongestFits DEF ClearRxBuff, PointerBounded, Base, RxTypeOK, BYTE
    <3>2. CASE clr = 3
      <4>1. RxPointer' = RxPointer /\ RxStatus' = 0 /\ Base = 0
        BY <1>10, <3>2 DEF ClearRxBuff, Base
      <4>2. Base' \in Nat /\ Longest <= Base'
        BY <1>10, <3>2, LongestFits DEF ClearRxBuff, Base
      <4>3. RxPointer <= Longest
        BY <4>1, LongestFits DEF PointerBounded, RxTypeOK, BYTE
      <4> QED BY <4>1, <4>2, <4>3, LongestFits DEF PointerBounded, RxTypeOK, BYTE
    <3>3. CASE pc = "clr2" /\ clr = 0
      <4>1. Base' = 0 /\ RxPointer' = 0 /\ RxStatus' = RxStatus
            /\ RxCount' = RxCount /\ plen' = plen
        BY <1>10, <3>3 DEF ClearRxBuff, Base
      <4>2. RxStatus = 3 => RxCount <= plen /\ plen <= Longest /\ RxCount >= 1
        BY DEF PointerBounded
      <4> QED BY <4>1, <4>2, LongestFits DEF PointerBounded, RxTypeOK, BYTE
    <3>4. CASE pc = "clr2" /\ clr \in {1, 2}
      BY <1>10, <3>4, LongestFits DEF ClearRxBuff, PointerBounded, Base, RxTypeOK, BYTE
    <3> QED BY <1>10, <3>1, <3>2, <3>3, <3>4 DEF ClearRxBuff, MainTypeOK
  <2>4. Shielded'
    BY <1>10 DEF ClearRxBuff, Shielded
  <2> QED BY <2>1, <2>2, <2>3, <2>4
<1>11. CASE Timeout
  BY <1>11
  DEF Timeout, goto, rxVars, hostVars, RxTypeOK, MainTypeOK, EnvTypeOK, pcs,
      PointerBounded, Shielded, Base
<1>12. ASSUME NEW r \in Requests, Ask(r) PROVE RxInv'
  BY <1>12, HostAssumption
  DEF Ask, rxVars, mainVars, timVars, RxTypeOK, MainTypeOK, EnvTypeOK,
      PointerBounded, Shielded, Base
<1>13. CASE Reply \/ LoseReply \/ GiveUp
  <2>1. EnvTypeOK'
    <3>1. << >> \in Seq(BYTE)
      OBVIOUS
    <3>2. EnvTypeOK /\ MaxFaults \in Nat
      BY HostAssumption
    <3>3. CASE Reply
      BY <3>1, <3>2, <3>3 DEF Reply, timVars, EnvTypeOK
    <3>4. CASE LoseReply
      BY <3>2, <3>4 DEF LoseReply, timVars, EnvTypeOK
    <3>5. CASE GiveUp
      BY <3>1, <3>2, <3>5 DEF GiveUp, timVars, EnvTypeOK
    <3> QED BY <1>13, <3>3, <3>4, <3>5
  <2>2. UNCHANGED <<rxVars, mainVars>>
    BY <1>13 DEF Reply, LoseReply, GiveUp
  <2> QED BY <2>1, <2>2
          DEF rxVars, mainVars, RxTypeOK, MainTypeOK, PointerBounded, Shielded, Base
<1>14. CASE Fault
  <2>1. wire' \in Seq(BYTE)
    <3>1. wire \in Seq(BYTE) /\ wire # << >> /\ Noise \subseteq BYTE
      BY <1>14, HostAssumption DEF Fault, EnvTypeOK
    <3>2. Tail(wire) \in Seq(BYTE) /\ << >> \in Seq(BYTE)
      BY <3>1, TailOfBytes
    <3>3. ASSUME NEW n \in Noise PROVE <<n>> \o Tail(wire) \in Seq(BYTE)
      BY <3>1, <3>2
    <3> QED BY <1>14, <3>2, <3>3 DEF Fault
  <2>2. faults' \in 0 .. MaxFaults
    BY <1>14, HostAssumption DEF Fault, EnvTypeOK
  <2>3. UNCHANGED <<rxVars, mainVars, timVars, asked, TxBusy, executed>>
    BY <1>14 DEF Fault
  <2> QED BY <2>1, <2>2, <2>3
          DEF rxVars, mainVars, timVars, RxTypeOK, MainTypeOK, EnvTypeOK,
              PointerBounded, Shielded, Base
<1>15. CASE UNCHANGED vars
  BY <1>15
  DEF vars, rxVars, mainVars, timVars, hostVars, RxTypeOK, MainTypeOK, EnvTypeOK,
      PointerBounded, Shielded, Base
<1> QED BY <1>1, <1>2, <1>3, <1>4, <1>5, <1>6, <1>7, <1>8, <1>9, <1>10, <1>11, <1>12,
           <1>13, <1>14, <1>15 DEF Next, MainLoop, HostAsks

\* The inductive invariant holds of every behaviour.
THEOREM RxInvariant == Spec => []RxInv
<1>1. Init => RxInv
  BY InitRxInv
<1>2. RxInv /\ [Next]_vars => RxInv'
  BY NextRxInv
<1> QED BY <1>1, <1>2, PTL DEF Spec

\* Type correctness of receiver, main loop and line.
THEOREM TypeCorrect == Spec => []TypeOK
<1>1. RxInv => TypeOK
  BY DEF RxInv
<1> QED BY <1>1, RxInvariant, PTL

\* No byte is ever stored past the end of RxBuffer, provided three of the longest
\* packets fit in it.
THEOREM BufferNeverOverruns == Spec => []NoOverrun
<1>1. RxInv => NoOverrun
  <2> SUFFICES ASSUME RxInv PROVE NoOverrun
    OBVIOUS
  <2>1. Base \in Nat /\ Base <= 2 * Longest
    BY LongestFits DEF Base
  <2> QED BY <2>1, LongestFits DEF RxInv, TypeOK, RxTypeOK, PointerBounded, NoOverrun, BYTE
<1> QED BY <1>1, RxInvariant, PTL

-----------------------------------------------------------------------------
(* A host that waits, and a line that keeps the framing of its requests.   *)

\* What the command table says of a request.
LEMMA RequestShape ==
  ASSUME HostWaits, NEW r \in Requests
  PROVE  /\ r \in Seq(BYTE) /\ r # << >>
         /\ Len(r) \in 4 .. Longest /\ Len(r) <= RXBUFFERSIZE /\ DOMAIN r = 1 .. Len(r)
         /\ r[1] = RXPREFIX /\ r[2] \in {BROADCAST, NetAddr}
         /\ r[3] \in Commands /\ Len(r) = COMMANDLIST[r[3]]
         /\ \A i \in DOMAIN ReadOrder(r[3]) : ReadOrder(r[3])[i] < Len(r)
         /\ \A i \in 4 .. Len(r), b \in BYTE : Accepted([r EXCEPT ![i] = b]) <=> b = r[i]
<1>1. /\ r \in Seq(BYTE) /\ Len(r) >= 4
      /\ r[1] = RXPREFIX /\ r[2] \in {BROADCAST, NetAddr}
      /\ r[3] \in Commands /\ Len(r) = COMMANDLIST[r[3]]
      /\ \A i \in DOMAIN ReadOrder(r[3]) : ReadOrder(r[3])[i] < Len(r)
      /\ \A i \in 4 .. Len(r), b \in BYTE : Accepted([r EXCEPT ![i] = b]) <=> b = r[i]
  BY HostAssumption, PacketAssumption
<1>2. Len(r) \in 4 .. Longest
  BY <1>1, LongestFits
<1>3. DOMAIN r = 1 .. Len(r) /\ Len(r) \in Nat
  BY <1>1, LenProperties
<1>4. r # << >> /\ Len(r) <= RXBUFFERSIZE
  BY <1>1, <1>2, <1>3, LongestFits, EmptySeq
<1> QED BY <1>1, <1>2, <1>3, <1>4

\* A byte that is stored is the byte that was to arrive next.
LEMMA ArrivingKept ==
  ASSUME RxTypeOK, wire \in Seq(BYTE), wire # << >>, RxPointer + Len(wire) <= Longest,
         Store(RxPointer, Head(wire)), wire' = Tail(wire)
  PROVE  /\ RxPointer' = RxPointer + 1 /\ Len(wire') = Len(wire) - 1
         /\ wire' = << >> <=> Len(wire) = 1
         /\ Head(wire) = Arriving(RxPointer + 1)
         /\ \A i \in 1 .. RxPointer + Len(wire) : Arriving(i)' = Arriving(i)
<1>1. /\ Head(wire) \in BYTE /\ Tail(wire) \in Seq(BYTE) /\ Head(wire) = wire[1]
      /\ Len(wire) \in Nat /\ Len(wire) >= 1 /\ Len(Tail(wire)) = Len(wire) - 1
      /\ \A i \in 1 .. Len(wire) - 1 : Tail(wire)[i] = wire[i + 1]
  <2>1. Len(wire) \in Nat /\ Len(wire) # 0
    BY LenProperties, EmptySeq
  <2>2. /\ Head(wire) \in BYTE /\ Tail(wire) \in Seq(BYTE)
        /\ Len(Tail(wire)) = Len(wire) - 1
        /\ \A i \in 1 .. Len(Tail(wire)) : Tail(wire)[i] = wire[i + 1]
    BY HeadTailProperties
  <2>3. Head(wire) = wire[1]
    OBVIOUS
  <2> QED BY <2>1, <2>2, <2>3
<1>2. /\ RxPointer \in Nat /\ RxPointer + 1 < 256 /\ RxPointer < RXBUFFERSIZE
      /\ RXBUFFERSIZE \in Nat /\ RxBuffer \in [Index -> BYTE]
  BY <1>1, LongestFits DEF RxTypeOK, BYTE
<1>3. RxBuffer' = [RxBuffer EXCEPT ![RxPointer] = Head(wire)] /\ RxPointer' = RxPointer + 1
  BY <1>2 DEF Store
<1>4. ASSUME NEW i \in 1 .. RxPointer + Len(wire) PROVE Arriving(i)' = Arriving(i)
  <2>1. CASE i <= RxPointer
    <3>1. i - 1 \in Index /\ i - 1 # RxPointer
      BY <1>1, <1>2, <2>1 DEF Index
    <3> QED BY <1>1, <1>2, <1>3, <2>1, <3>1 DEF Arriving
  <2>2. CASE i = RxPointer + 1
    <3>1. RxPointer \in Index /\ i - 1 = RxPointer /\ i - RxPointer = 1
      BY <1>1, <1>2, <2>2 DEF Index
    <3>2. RxBuffer'[i - 1] = Head(wire)
      BY <1>2, <1>3, <3>1
    <3> QED BY <1>1, <1>2, <1>3, <2>2, <3>1, <3>2 DEF Arriving
  <2>3. CASE i > RxPointer + 1
    <3>1. i - RxPointer' \in 1 .. Len(wire) - 1 /\ (i - RxPointer') + 1 = i - RxPointer
      BY <1>1, <1>2, <1>3, <2>3
    <3>2. wire'[i - RxPointer'] = wire[i - RxPointer]
      BY <1>1, <3>1
    <3> QED BY <1>2, <1>3, <2>3, <3>2 DEF Arriving
  <2> QED BY <1>1, <1>2, <2>1, <2>2, <2>3
<1>5. wire' = << >> <=> Len(wire) = 1
  <2>1. Len(wire') = Len(wire) - 1 /\ wire' \in Seq(BYTE)
    BY <1>1
  <2>2. wire' = << >> <=> Len(wire') = 0
    BY <2>1, EmptySeq
  <2> QED BY <1>1, <2>1, <2>2
<1>6. Head(wire) = Arriving(RxPointer + 1)
  BY <1>1, <1>2 DEF Arriving
<1> QED BY <1>1, <1>3, <1>4, <1>5, <1>6

\* One more byte of the request is in the buffer.
LEMMA ByteStep ==
  ASSUME RxInv, HostWaits, Resting \/ Receiving \/ Working, USART1_RX_Interrupt
  PROVE  Receiving'
<1>1. /\ wire # << >> /\ Receive(Head(wire)) /\ wire' = Tail(wire)
      /\ UNCHANGED <<pc, TxBusy, asked, executed>>
  BY DEF USART1_RX_Interrupt, mainVars, hostVars
<1>2. Receiving
  BY <1>1 DEF Resting, Working
<1>3. /\ pc \in {"check", "cmd", "tim2"} /\ F_Comm = 0 /\ TxBusy = 0
      /\ asked \in Requests /\ executed = << >>
      /\ RxPointer + Len(wire) = Len(asked)
      /\ RxStatus = IF RxPointer < 3 THEN RxPointer ELSE 3
      /\ RxStatus = 3 => plen = Len(asked) /\ RxCount = Len(wire)
  BY <1>1, <1>2 DEF Receiving
<1>4. /\ asked \in Seq(BYTE) /\ Len(asked) \in 4 .. Longest /\ DOMAIN asked = 1 .. Len(asked)
      /\ asked[1] = RXPREFIX /\ asked[2] \in {BROADCAST, NetAddr}
      /\ asked[3] \in Commands /\ Len(asked) = COMMANDLIST[asked[3]]
  BY <1>3, RequestShape
<1>5. /\ RxTypeOK /\ wire \in Seq(BYTE) /\ Len(wire) \in Nat /\ Len(wire) >= 1
      /\ RxPointer \in Nat /\ Longest \in Nat /\ 3 * Longest <= 256
  <2>1. RxTypeOK /\ wire \in Seq(BYTE)
    BY DEF RxInv, TypeOK, EnvTypeOK
  <2>2. Len(wire) \in Nat /\ Len(wire) >= 1
    BY <1>1, <2>1, EmptySeq
  <2>3. RxPointer \in Nat
    BY <2>1 DEF RxTypeOK, BYTE
  <2> QED BY <2>1, <2>2, <2>3, LongestFits
<1> DEFINE b == Head(wire)
           n == Len(asked)
<1>6. ASSUME Store(RxPointer, b)
      PROVE  /\ RxPointer' = RxPointer + 1 /\ Len(wire') = Len(wire) - 1
             /\ wire' = << >> <=> Len(wire) = 1
             /\ \A i \in 1 .. n : Arriving(i)' = Arriving(i)
  BY SMTT(30), <1>1, <1>3, <1>4, <1>5, <1>6, ArrivingKept
<1>7. RxPointer \in {0, 1, 2} => b = asked[RxPointer + 1]
  <2>1. RxPointer + 1 > RxPointer /\ RxPointer + 1 - RxPointer = 1
    BY <1>5
  <2>2. Arriving(RxPointer + 1) = wire[1]
    BY <2>1, <1>5 DEF Arriving
  <2>3. Head(wire) = wire[1]
    BY <1>1, <1>5
  <2>4. ASSUME RxPointer \in {0, 1, 2} PROVE Arriving(RxPointer + 1) = asked[RxPointer + 1]
    <3>1. RxPointer + 1 \in 1 .. 3
      BY <2>4
    <3> QED BY <3>1, <1>2 DEF Receiving
  <2> QED BY <2>2, <2>3, <2>4
<1> HIDE DEF b, n
\* what every stored byte leaves as it was
<1>8. ASSUME Store(RxPointer, b)
      PROVE  /\ RxPointer' + Len(wire') = n
             /\ \A i \in 1 .. 3 : Arriving(i)' = asked'[i]
             /\ \A i, j \in DOMAIN asked' :
                  Arriving(i)' # asked'[i] /\ Arriving(j)' # asked'[j] => i = j
  <2>1. /\ \A i \in 1 .. 3 : Arriving(i) = asked[i]
        /\ \A i, j \in DOMAIN asked : Arriving(i) # asked[i] /\ Arriving(j) # asked[j] => i = j
    BY <1>2 DEF Receiving
  <2>2. 1 .. 3 \subseteq 1 .. n /\ DOMAIN asked' = 1 .. n /\ asked' = asked
    BY <1>1, <1>4 DEF n
  <2>3. \A i \in 1 .. n : Arriving(i)' = Arriving(i)
    BY <1>6, <1>8
  <2> QED BY <1>3, <1>5, <1>6, <1>8, <2>1, <2>2, <2>3 DEF n
<1>9. ASSUME Store(RxPointer, b), F_Comm' = 0,
             RxStatus' = IF RxPointer' < 3 THEN RxPointer' ELSE IF wire' = << >> THEN 4 ELSE 3,
             RxStatus' = 3 => plen' = n /\ RxCount' = Len(wire'),
             RxStatus' = 4 => Comm_Len' = n - 1
      PROVE  Receiving'
  BY <1>1, <1>3, <1>8, <1>9 DEF Receiving, n
<1>10. CASE RxPointer = 0
  <2>1. rec_pref(b) /\ b = RXPREFIX
    BY <1>1, <1>3, <1>4, <1>7, <1>10 DEF Receive, b
  <2>2. Store(RxPointer, b) /\ RxStatus' = 1 /\ F_Comm' = 0
    BY <1>3, <2>1 DEF rec_pref
  <2>3. RxPointer' = 1
    BY <1>6, <1>10, <2>2
  <2> QED BY <1>9, <2>2, <2>3
<1>11. CASE RxPointer = 1
  <2>1. rec_addr(b) /\ b \in {BROADCAST, NetAddr}
    BY <1>1, <1>3, <1>4, <1>7, <1>11 DEF Receive, b
  <2>2. Store(RxPointer, b) /\ RxStatus' = 2 /\ F_Comm' = 0
    BY <1>3, <2>1 DEF rec_addr
  <2>3. RxPointer' = 2
    BY <1>6, <1>11, <2>2
  <2> QED BY <1>9, <2>2, <2>3
<1>12. CASE RxPointer = 2
  <2>1. rec_command(b) /\ b = asked[3]
    BY <1>1, <1>3, <1>7, <1>12 DEF Receive, b
  <2>2. /\ Store(RxPointer, b) /\ RxStatus' = 3 /\ F_Comm' = 0
        /\ plen' = n /\ RxCount' = n - 3
    BY <1>3, <1>4, <2>1 DEF rec_command, n
  <2>3. RxPointer' = 3 /\ Len(wire') = n - 3 /\ wire' # << >>
    BY <1>3, <1>4, <1>6, <1>12, <2>2 DEF n
  <2> QED BY <1>9, <2>2, <2>3
<1>13. CASE RxPointer >= 3
  <2>1. rec_param(b) /\ RxStatus = 3 /\ plen = n /\ RxCount = Len(wire)
    BY <1>1, <1>3, <1>5, <1>13 DEF Receive, b, n
  <2>2. /\ Store(RxPointer, b) /\ RxCount' = (RxCount - 1) % 256
        /\ plen' = plen /\ F_Comm' = 0
        /\ IF RxCount' = 0 THEN RxStatus' = 4 /\ Comm_Len' = plen - 1
           ELSE UNCHANGED <<RxStatus, Comm_Len>>
    BY <1>3, <2>1 DEF rec_param
  <2>3. RxPointer' = RxPointer + 1 /\ Len(wire') = Len(wire) - 1 /\ (wire' = << >> <=> Len(wire) = 1)
    BY <1>6, <2>2
  <2>4. RxCount' = Len(wire')
    <3>1. RxCount \in 0 .. 255
      BY <1>5 DEF RxTypeOK, BYTE
    <3>2. RxCount \in 1 .. 255
      <4>1. RxCount >= 1
        BY <1>5, <2>1
      <4> QED BY <3>1, <4>1
    <3>3. RxCount' = RxCount - 1
      BY <3>2, <2>2
    <3> QED BY <2>1, <2>3, <3>3
  <2> QED BY <1>5, <1>9, <1>13, <2>1, <2>2, <2>3, <2>4
<1> QED BY <1>5, <1>10, <1>11, <1>12, <1>13

\* A packet is accepted when it arrived as it was sent, and only then.
LEMMA CheckDecides ==
  ASSUME RxInv, HostWaits, Receiving, RxStatus = 4
  PROVE  Crc([i \in 1 .. Comm_Len |-> RxBuffer[i - 1]]) = RxBuffer[Comm_Len] <=> Intact
<1> DEFINE n == Len(asked)
           packet == [i \in 1 .. Comm_Len |-> RxBuffer[i - 1]]
<1>1. /\ asked \in Requests /\ RxPointer + Len(wire) = n
      /\ RxStatus = IF RxPointer < 3 THEN RxPointer ELSE IF wire = << >> THEN 4 ELSE 3
      /\ \A i \in 1 .. 3 : Arriving(i) = asked[i]
      /\ \A i, j \in DOMAIN asked : Arriving(i) # asked[i] /\ Arriving(j) # asked[j] => i = j
      /\ Comm_Len = n - 1
  BY DEF Receiving
<1>2. /\ asked \in Seq(BYTE) /\ n \in 4 .. Longest /\ n <= RXBUFFERSIZE /\ DOMAIN asked = 1 .. n
      /\ \A i \in 4 .. n, b \in BYTE : Accepted([asked EXCEPT ![i] = b]) <=> b = asked[i]
  BY <1>1, RequestShape
<1>3. wire = << >> /\ RxPointer = n /\ RxPointer \in Nat /\ RxBuffer \in [Index -> BYTE]
  <2>1. RxPointer \in Nat /\ RxBuffer \in [Index -> BYTE]
    BY DEF RxInv, TypeOK, RxTypeOK, BYTE
  <2>2. wire = << >>
    BY <1>1, <2>1
  <2> QED BY <1>1, <1>2, <2>1, <2>2
<1> HIDE DEF n
<1>4. ASSUME NEW i \in 1 .. n PROVE Arriving(i) = RxBuffer[i - 1] /\ RxBuffer[i - 1] \in BYTE
  <2>1. i <= RxPointer /\ i - 1 \in Index
    BY <1>2, <1>3, LongestFits DEF Index
  <2> QED BY <1>3, <2>1 DEF Arriving
\* the packet as it arrived, q, differs from asked at most at k
<1>5. ASSUME NEW k \in 4 .. n, \A i \in 1 .. n : i # k => Arriving(i) = asked[i]
      PROVE  Crc(packet) = RxBuffer[Comm_Len] <=> Arriving(k) = asked[k]
  <2> DEFINE q == [asked EXCEPT ![k] = Arriving(k)]
  <2>1. k \in 1 .. n /\ Arriving(k) \in BYTE
    BY <1>2, <1>4
  <2>2. q \in Seq(BYTE) /\ Len(q) = n
    BY <1>2, <2>1 DEF n
  <2>3. \A i \in 1 .. n : q[i] = RxBuffer[i - 1]
    BY <1>2, <1>4, <1>5, <2>1
  <2> HIDE DEF q
  <2>4. packet = [i \in 1 .. Len(q) - 1 |-> q[i]]
    <3>1. \A i \in 1 .. n - 1 : q[i] = RxBuffer[i - 1]
      BY <1>2, <2>3
    <3> QED BY <1>1, <2>2, <3>1
  <2>5. q[Len(q)] = RxBuffer[Comm_Len]
    BY <1>1, <1>2, <2>2, <2>3
  <2>6. Accepted(q) <=> Crc(packet) = RxBuffer[Comm_Len]
    BY <2>4, <2>5 DEF Accepted
  <2>7. Accepted(q) <=> Arriving(k) = asked[k]
    BY <1>2, <2>1 DEF q
  <2> QED BY <2>6, <2>7
<1> HIDE DEF packet
<1>6. CASE Intact
  <2>1. n \in 4 .. n /\ \A i \in 1 .. n : Arriving(i) = asked[i]
    BY <1>2, <1>6 DEF Intact, n
  <2> QED BY <1>5, <1>6, <2>1 DEF packet
<1>7. CASE ~Intact
  <2>1. PICK k \in 1 .. n : Arriving(k) # asked[k]
    BY <1>2, <1>7 DEF Intact
  <2>2. k \in 4 .. n
    BY <1>1, <1>2, <2>1
  <2>3. \A i \in 1 .. n : i # k => Arriving(i) = asked[i]
    BY <1>1, <1>2, <2>1
  <2> QED BY <1>5, <1>7, <2>1, <2>2, <2>3 DEF packet
<1> QED BY <1>6, <1>7

\* A checked packet is taken up, a damaged one is dropped without a trace.
LEMMA CheckStep ==
  ASSUME RxInv, HostWaits, Resting \/ Receiving \/ Working, Check
  PROVE  Resting' \/ Receiving' \/ Working'
<1>1. /\ pc = "check" /\ pc' = "cmd"
      /\ UNCHANGED <<RxCount, plen, Comm_Len, TxBusy, wire, asked, executed>>
      /\ \/ RxStatus = 4 /\ checkpacket
         \/ RxStatus # 4 /\ UNCHANGED <<RxStatus, RxPointer, RxBuffer, F_Comm, Command>>
  BY DEF Check, goto, hostVars
<1>2. CASE RxStatus # 4
  <2>1. UNCHANGED <<RxStatus, RxPointer, RxBuffer, F_Comm, Command>>
    BY <1>1, <1>2
  <2>2. \A i : Arriving(i)' = Arriving(i)
    BY <1>1, <2>1 DEF Arriving
  <2>3. CASE Resting
    BY <1>1, <2>1, <2>3 DEF Resting
  <2>4. CASE Receiving
    BY <1>1, <2>1, <2>2, <2>4 DEF Receiving
  <2> QED BY <1>1, <2>3, <2>4 DEF Working
<1>3. CASE RxStatus = 4
  <2>1. Receiving /\ checkpacket
    BY <1>1, <1>3 DEF Resting, Working
  <2>2. asked \in Requests /\ executed = << >> /\ TxBusy = 0 /\ F_Comm = 0
        /\ RxPointer + Len(wire) = Len(asked)
        /\ RxStatus = IF RxPointer < 3 THEN RxPointer ELSE IF wire = << >> THEN 4 ELSE 3
    BY <2>1 DEF Receiving
  <2>3. wire = << >> /\ RxPointer = Len(asked) /\ Len(asked) \in Nat /\ Len(asked) >= 4
        /\ DOMAIN asked = 1 .. Len(asked)
    <3>1. RxPointer \in Nat
      BY DEF RxInv, TypeOK, RxTypeOK, BYTE
    <3>2. wire = << >>
      BY <1>3, <2>2, <3>1
    <3> QED BY <2>2, <3>1, <3>2, RequestShape
  <2>4. CASE Intact
    <3>1. F_Comm' = 1 /\ Command' = RxBuffer[2] /\ UNCHANGED <<RxStatus, RxPointer, RxBuffer>>
      BY <1>3, <2>1, <2>4, CheckDecides DEF checkpacket
    <3>2. RxBuffer[2] = asked[3]
      BY <2>3, <2>4 DEF Intact, Arriving
    <3>3. Intact'
      BY <1>1, <2>4, <3>1 DEF Intact, Arriving
    <3> QED BY <1>1, <1>3, <2>2, <2>3, <3>1, <3>2, <3>3 DEF Working
  <2>5. CASE ~Intact
    <3>1. clearRxBuff
      BY <1>3, <2>1, <2>5, CheckDecides DEF checkpacket
    <3> QED BY <1>1, <2>2, <2>3, <3>1 DEF clearRxBuff, Resting
  <2> QED BY <2>4, <2>5
<1> QED BY <1>2, <1>3

\* The handler reads the packet that was sent, and nothing arrives while it does.
LEMMA HandlerStep ==
  ASSUME RxInv, HostWaits, Resting \/ Receiving \/ Working,
         \/ TakeCommand \/ Acknowledge \/ ReadParameter \/ Execute
         \/ sendpacket \/ putpack \/ ClearRxBuff \/ Timeout
  PROVE  Resting' \/ Receiving' \/ Working'
<1>1. /\ UNCHANGED <<wire, asked, RxCount, plen, Comm_Len>>
      /\ pc # "check"
  BY DEF TakeCommand, Acknowledge, ReadParameter, Execute, sendpacket, putpack, ClearRxBuff,
         Timeout, rxVars, hostVars
<1>2. asked \in Requests => asked \in Seq(BYTE) /\ Len(asked) >= 4 /\ asked[3] \in Commands
  BY RequestShape
<1>3. CASE TakeCommand
  <2>1. /\ pc = "cmd" /\ F_Comm' = 0 /\ pc' = IF F_Comm = 1 THEN "ack" ELSE "tim2"
        /\ UNCHANGED <<RxStatus, RxPointer, RxBuffer, Command, TxBusy, executed>>
    BY <1>3 DEF TakeCommand, goto
  <2>2. \A i : Arriving(i)' = Arriving(i)
    BY <1>1, <2>1 DEF Arriving
  <2>3. Resting => Resting'
    BY <1>1, <2>1 DEF Resting
  <2>4. Receiving => Receiving'
    BY <1>1, <2>1, <2>2 DEF Receiving
  <2>5. ASSUME Working PROVE Working'
    <3>1. F_Comm = 1 /\ (Intact => Intact')
      BY <1>1, <2>1, <2>2, <2>5 DEF Working, Intact
    <3> QED BY <1>1, <2>1, <2>5, <3>1 DEF Working
  <2> QED BY <2>3, <2>4, <2>5
<1>4. CASE Timeout
  <2>1. /\ pc = "tim2" /\ pc' = "check" /\ UNCHANGED <<rxVars, Command, TxBusy, executed>>
    BY <1>4 DEF Timeout, goto
  <2>2. \A i : Arriving(i)' = Arriving(i)
    BY <1>1, <2>1 DEF Arriving, rxVars
  <2>3. Resting => Resting'
    BY <1>1, <2>1 DEF Resting, rxVars
  <2>4. Receiving => Receiving'
    BY <1>1, <2>1, <2>2 DEF Receiving, rxVars
  <2> QED BY <2>1, <2>3, <2>4 DEF Working
<1>5. CASE Acknowledge
  <2>1. /\ pc = "ack" /\ pc' = "exec" /\ RxStatus' = 0 /\ args' = << >>
        /\ UNCHANGED <<RxPointer, RxBuffer, F_Comm, Command, TxBusy, executed>>
    BY <1>5 DEF Acknowledge, goto
  <2>2. Working
    BY <2>1 DEF Resting, Receiving
  <2>3. Intact => Intact'
    BY <1>1, <2>1 DEF Arriving, Intact
  <2>4. Len(args') <= Len(ReadOrder(Command)) /\ DOMAIN args' = {}
    <3>1. ReadOrder(Command) \in Seq(0 .. RXBUFFERSIZE - 1)
      BY HostAssumption DEF RxInv, TypeOK, MainTypeOK
    <3>2. Len(ReadOrder(Command)) \in Nat
      BY <3>1, LenProperties
    <3> QED BY <2>1, <3>2
  <2> QED BY <1>1, <2>1, <2>2, <2>3, <2>4 DEF Working
<1>6. CASE ReadParameter
  <2> DEFINE order == ReadOrder(Command)
             k == Len(args) + 1
  <2>1. /\ pc = "exec" /\ Unread /\ args' = Append(args, RxBuffer[order[k]])
        /\ UNCHANGED <<rxVars, Command, pc, TxBusy, executed>>
    BY <1>6 DEF ReadParameter
  <2>2. Working
    BY <2>1 DEF Resting, Receiving
  <2>3. /\ asked \in Requests /\ Command = asked[3] /\ Intact /\ RxPointer = Len(asked)
        /\ Len(args) <= Len(order) /\ \A i \in DOMAIN args : args[i] = asked[order[i] + 1]
    BY <2>1, <2>2 DEF Working
  <2>4. args \in Seq(BYTE) /\ RxBuffer \in [Index -> BYTE] /\ order \in Seq(0 .. RXBUFFERSIZE - 1)
    BY HostAssumption DEF RxInv, TypeOK, MainTypeOK, RxTypeOK
  <2>5. Len(args) \in Nat /\ Len(order) \in Nat /\ DOMAIN args = 1 .. Len(args)
        /\ DOMAIN order = 1 .. Len(order) /\ k \in 1 .. Len(order)
    BY <2>1, <2>4, LenProperties DEF Unread
  <2>6. order[k] \in Nat /\ order[k] < Len(asked) /\ DOMAIN asked = 1 .. Len(asked)
        /\ Len(asked) \in Nat
    <3>1. order[k] \in 0 .. RXBUFFERSIZE - 1
      BY <2>4, <2>5, ElementOfSeq
    <3>2. order[k] < Len(asked)
      BY <2>3, <2>5, RequestShape
    <3> QED BY <2>3, <3>1, <3>2, RequestShape, BufferAssumption
  <2>7. RxBuffer[order[k]] = asked[order[k] + 1]
    <3>1. order[k] + 1 \in DOMAIN asked /\ order[k] + 1 <= RxPointer /\ order[k] + 1 - 1 = order[k]
      BY <2>3, <2>6
    <3>2. ASSUME NEW o \in Nat, o + 1 <= RxPointer PROVE Arriving(o + 1) = RxBuffer[o]
      BY <3>2 DEF Arriving
    <3>3. Arriving(order[k] + 1) = RxBuffer[order[k]]
      BY <2>6, <3>1, <3>2
    <3>4. Arriving(order[k] + 1) = asked[order[k] + 1]
      BY <2>3, <3>1 DEF Intact
    <3> QED BY <3>3, <3>4
  <2>8. RxBuffer[order[k]] \in BYTE
    <3>1. order[k] \in Index
      BY <2>4, <2>5, ElementOfSeq DEF Index
    <3> QED BY <2>4, <3>1
  <2> HIDE DEF order
  <2>9. /\ Len(args') = k /\ DOMAIN args' = 1 .. k
        /\ \A i \in 1 .. Len(args) : args'[i] = args[i]
        /\ args'[k] = asked[order[k] + 1]
    BY <2>1, <2>4, <2>5, <2>7, <2>8, AppendProperties
  <2>10. \A i \in DOMAIN args' : args'[i] = asked[order[i] + 1]
    BY <2>3, <2>5, <2>9
  <2>11. Intact'
    BY <1>1, <2>1, <2>3 DEF Arriving, Intact, rxVars
  <2> QED BY <1>1, <2>1, <2>2, <2>5, <2>9, <2>10, <2>11 DEF Working, rxVars, order
<1>7. CASE Execute
  <2>1. /\ pc = "exec" /\ UNCHANGED <<rxVars, Command, TxBusy>>
        /\ \/ Command \in Commands /\ pc' = "send" /\ executed' = <<Command>> \o args
           \/ Command \notin Commands
    BY <1>7 DEF Execute, goto
  <2>2. Working
    BY <2>1 DEF Resting, Receiving
  <2>3. Command \in Commands /\ pc' = "send"
    BY <1>2, <2>1, <2>2 DEF Working
  <2>4. executed' # << >>
    <3>1. <<Command>> \in Seq(BYTE) /\ Len(<<Command>>) = 1 /\ args \in Seq(BYTE)
      BY DEF RxInv, TypeOK, MainTypeOK
    <3>2. Len(<<Command>> \o args) = Len(<<Command>>) + Len(args) /\ Len(args) \in Nat
      BY <3>1, ConcatProperties, LenProperties
    <3> QED BY <2>1, <2>3, <3>1, <3>2, EmptySeq
  <2> QED BY <1>1, <2>1, <2>2, <2>3, <2>4 DEF Working, rxVars
<1>8. CASE sendpacket
  <2>1. /\ pc = "send" /\ pc' = "put" /\ RxPointer' = 0
        /\ UNCHANGED <<RxStatus, F_Comm, Command, TxBusy, executed>>
    BY <1>8 DEF sendpacket, goto
  <2>2. Working
    BY <2>1 DEF Resting, Receiving
  <2> QED BY <1>1, <2>1, <2>2 DEF Working
<1>9. CASE putpack
  <2>1. pc = "put" /\ pc' = "clr1" /\ TxBusy' = 1 /\ UNCHANGED <<rxVars, Command, executed>>
    BY <1>9 DEF putpack, goto
  <2>2. Working
    BY <2>1 DEF Resting, Receiving
  <2> QED BY <1>1, <2>1, <2>2 DEF Working, rxVars
<1>10. CASE ClearRxBuff
  <2>1. /\ pc \in {"clr1", "clr2"} /\ RxPointer' \in {0, RxPointer}
        /\ F_Comm' \in {0, F_Comm} /\ RxStatus' \in {0, RxStatus}
        /\ pc' \in {"clr1", "clr2", "tim2"} /\ UNCHANGED <<Command, TxBusy, executed>>
    BY <1>10 DEF ClearRxBuff
  <2>2. Working
    BY <2>1 DEF Resting, Receiving
  <2>3. RxPointer' = 0 /\ F_Comm' = 0 /\ RxStatus' = 0 /\ executed # << >> /\ TxBusy = 1
    BY <2>1, <2>2 DEF Working
  <2> QED BY <1>1, <2>1, <2>2, <2>3 DEF Working, Resting
<1> QED BY <1>3, <1>4, <1>5, <1>6, <1>7, <1>8, <1>9, <1>10

\* A request meets a device at rest.
LEMMA AskStep ==
  ASSUME RxInv, HostWaits, Resting \/ Receiving \/ Working, NEW r \in Requests, Ask(r)
  PROVE  Receiving'
<1>1. /\ wire = << >> /\ asked = << >> /\ wire' = r /\ asked' = r /\ executed' = << >>
      /\ UNCHANGED <<rxVars, pc, TxBusy>>
  BY DEF Ask, mainVars
<1>2. /\ r \in Seq(BYTE) /\ r # << >> /\ Len(r) \in 4 .. Longest /\ DOMAIN r = 1 .. Len(r)
  BY RequestShape
<1>3. << >> \notin Requests
  BY RequestShape
<1>4. Resting /\ TxBusy = 0
  BY <1>1, <1>3 DEF Receiving, Working, Resting, RxInv, TypeOK, EnvTypeOK
<1>5. /\ pc \in {"check", "cmd", "tim2"} /\ F_Comm = 0 /\ RxStatus = 0 /\ RxPointer = 0
      /\ UNCHANGED <<RxStatus, RxPointer, F_Comm>>
  BY <1>1, <1>4 DEF Resting, rxVars
<1>6. ASSUME NEW i \in 1 .. Len(r) PROVE Arriving(i)' = r[i]
  <2>1. ~(i <= 0) /\ i - 0 = i
    BY <1>2
  <2> QED BY <1>1, <1>5, <2>1 DEF Arriving
<1>7. \A i \in 1 .. 3 : i \in 1 .. Len(r)
  BY <1>2
<1> QED BY <1>1, <1>2, <1>4, <1>5, <1>6, <1>7 DEF Receiving

\* A fault that keeps the framing loses the request or damages one byte of it.
LEMMA FaultStep ==
  ASSUME RxInv, HostWaits, Resting \/ Receiving \/ Working, Fault, KeepsFraming
  PROVE  Resting' \/ Receiving'
<1>1. /\ wire # << >> /\ UNCHANGED <<rxVars, pc, asked, TxBusy, executed>>
      /\ wire' = << >> \/ wire' = Tail(wire) \/ \E b \in Noise : wire' = <<b>> \o Tail(wire)
  BY DEF Fault, mainVars
<1>2. Receiving
  BY <1>1 DEF Resting, Working
<1>3. /\ pc \in {"check", "cmd", "tim2"} /\ F_Comm = 0 /\ TxBusy = 0
      /\ asked \in Requests /\ executed = << >>
      /\ RxPointer + Len(wire) = Len(asked)
      /\ RxStatus = IF RxPointer < 3 THEN RxPointer ELSE 3
      /\ RxStatus = 3 => plen = Len(asked) /\ RxCount = Len(wire)
  BY <1>1, <1>2 DEF Receiving
<1>4. Len(asked) \in 4 .. Longest /\ DOMAIN asked = 1 .. Len(asked)
  BY <1>3, RequestShape
<1>5. /\ wire \in Seq(BYTE) /\ Len(wire) \in Nat /\ Len(wire) >= 1 /\ RxPointer \in Nat
      /\ Tail(wire) \in Seq(BYTE) /\ Len(Tail(wire)) = Len(wire) - 1
      /\ \A i \in 1 .. Len(wire) - 1 : Tail(wire)[i] = wire[i + 1]
  <2>1. wire \in Seq(BYTE)
    BY DEF RxInv, TypeOK, EnvTypeOK
  <2>2. Len(wire) \in Nat /\ Len(wire) >= 1
    BY <1>1, <2>1, EmptySeq
  <2>3. /\ Tail(wire) \in Seq(BYTE) /\ Len(Tail(wire)) = Len(wire) - 1
        /\ \A i \in 1 .. Len(Tail(wire)) : Tail(wire)[i] = wire[i + 1]
    BY <1>1, <2>1, HeadTailProperties
  <2>4. RxPointer \in Nat
    BY DEF RxInv, TypeOK, RxTypeOK, BYTE
  <2> QED BY <2>1, <2>2, <2>3, <2>4
<1>6. CASE wire = asked /\ wire' = << >>
  <2>1. RxPointer = 0 /\ RxStatus = 0
    BY <1>3, <1>5, <1>6
  <2> QED BY <1>1, <1>3, <1>6, <2>1 DEF Resting, rxVars
<1>7. CASE RxStatus = 3 /\ Intact /\ Len(wire') = Len(wire)
  <2>1. RxPointer >= 3
    BY <1>3, <1>5, <1>7
  <2>2. PICK b \in Noise : wire' = <<b>> \o Tail(wire)
    <3>1. wire' # << >>
      BY <1>5, <1>7
    <3>2. wire' # Tail(wire)
      BY <1>5, <1>7
    <3> QED BY <1>1, <3>1, <3>2
  <2>3. ASSUME NEW i \in 2 .. Len(wire) PROVE wire'[i] = wire[i]
    <3>1. <<b>> \in Seq(BYTE) /\ Len(<<b>>) = 1
      BY <2>2, HostAssumption
    <3>2. i > 1 /\ i <= 1 + Len(Tail(wire)) /\ i - 1 \in 1 .. Len(wire) - 1 /\ (i - 1) + 1 = i
      BY <1>5
    <3>3. i \in 1 .. Len(<<b>>) + Len(Tail(wire)) /\ ~(i <= Len(<<b>>)) /\ i - Len(<<b>>) = i - 1
      BY <1>5, <3>1, <3>2
    <3>4. wire'[i] = Tail(wire)[i - 1]
      <4> DEFINE s == <<b>>
                 t == Tail(wire)
      <4>1. s \in Seq(BYTE) /\ t \in Seq(BYTE)
        BY <1>5, <3>1
      <4>2. i \in 1 .. Len(s) + Len(t) /\ ~(i <= Len(s)) /\ i - Len(s) = i - 1 /\ wire' = s \o t
        BY <2>2, <3>3
      <4> HIDE DEF s, t
      <4>3. (s \o t)[i] = IF i <= Len(s) THEN s[i] ELSE t[i - Len(s)]
        BY <4>1, <4>2, ConcatProperties
      <4>4. wire'[i] = t[i - 1]
        BY <4>2, <4>3
      <4> QED BY <4>4 DEF t
    <3> QED BY <1>5, <3>2, <3>4
  <2>4. ASSUME NEW i \in 1 .. Len(asked), i # RxPointer + 1 PROVE Arriving(i)' = asked[i]
    <3>1. Arriving(i) = asked[i] /\ UNCHANGED <<RxPointer, RxBuffer>>
      BY <1>1, <1>4, <1>7 DEF Intact, rxVars
    <3>2. CASE i <= RxPointer
      BY <3>1, <3>2 DEF Arriving
    <3>3. CASE i > RxPointer
      <4>1. i - RxPointer \in 2 .. Len(wire) /\ ~(i <= RxPointer)
        BY <1>3, <1>4, <1>5, <2>4, <3>3
      <4>2. wire'[i - RxPointer] = wire[i - RxPointer]
        BY <2>3, <4>1
      <4> QED BY <3>1, <4>1, <4>2 DEF Arriving
    <3> QED BY <1>5, <3>2, <3>3
  <2>5. \A i \in 1 .. 3 : Arriving(i)' = asked[i]
    <3>1. \A i \in 1 .. 3 : i \in 1 .. Len(asked) /\ i # RxPointer + 1
      BY <1>4, <1>5, <2>1
    <3> QED BY <2>4, <3>1
  <2>6. wire' # << >>
    BY <1>5, <1>7
  <2> QED BY <1>1, <1>3, <1>4, <1>7, <2>4, <2>5, <2>6 DEF Receiving, rxVars
<1> QED BY <1>6, <1>7 DEF KeepsFraming

\* The host takes or loses a reply, or gives up, only when the device is at rest.
LEMMA HostStep ==
  ASSUME RxInv, HostWaits, Resting \/ Receiving \/ Working, Reply \/ LoseReply \/ GiveUp
  PROVE  Resting /\ Resting'
<1>1. UNCHANGED <<rxVars, pc, wire, executed>> /\ TxBusy' = 0
  BY DEF Reply, LoseReply, GiveUp, mainVars, RxInv, TypeOK, EnvTypeOK
<1>2. ASSUME TxBusy = 1, pc \notin {"clr1", "clr2"} PROVE Resting
  BY <1>2 DEF Receiving, Working
<1>3. ASSUME GiveUp PROVE Resting
  <2>1. /\ wire = << >> /\ pc \in {"check", "cmd", "tim2"} /\ RxStatus # 4 /\ F_Comm = 0
        /\ RxPointer \in Nat
    BY <1>3 DEF GiveUp, Settled, RxInv, TypeOK, RxTypeOK, BYTE
  <2>2. ~Working
    BY <2>1 DEF Working
  <2>3. ASSUME Receiving PROVE FALSE
    <3>1. /\ asked \in Requests /\ RxPointer + Len(wire) = Len(asked)
          /\ RxStatus = IF RxPointer < 3 THEN RxPointer ELSE IF wire = << >> THEN 4 ELSE 3
      BY <2>3 DEF Receiving
    <3>2. Len(asked) >= 4 /\ Len(wire) = 0
      BY <2>1, <3>1, RequestShape
    <3> QED BY <2>1, <3>1, <3>2
  <2> QED BY <2>2, <2>3
<1>4. Resting
  BY <1>2, <1>3 DEF Reply, LoseReply
<1>5. Resting'
  BY <1>1, <1>4 DEF Resting, rxVars
<1> QED BY <1>4, <1>5

\* Steps that touch nothing the three predicates speak of.
LEMMA WaitFrame ==
  ASSUME Resting \/ Receiving \/ Working,
         UNCHANGED <<rxVars, Command, pc, args, TxBusy, wire, asked, executed>>
  PROVE  Resting' \/ Receiving' \/ Working'
<1>1. UNCHANGED <<RxStatus, RxPointer, RxBuffer, RxCount, plen, Comm_Len, F_Comm>>
  BY DEF rxVars
<1>2. \A i : Arriving(i)' = Arriving(i)
  BY <1>1 DEF Arriving
<1>3. Resting => Resting'
  BY <1>1 DEF Resting
<1>4. Receiving => Receiving'
  BY <1>1, <1>2 DEF Receiving
<1>5. Intact => Intact'
  BY <1>2 DEF Intact
<1>6. Working => Working'
  BY <1>1, <1>5 DEF Working
<1> QED BY <1>3, <1>4, <1>6

\* Every step of device, host and line that keeps the framing keeps what a waiting
\* host knows of the device.
LEMMA WaitStep ==
  ASSUME RxInv, Waiting, [Next]_vars, Fault => KeepsFraming
  PROVE  Waiting'
<1> SUFFICES ASSUME HostWaits PROVE Resting' \/ Receiving' \/ Working'
  BY DEF Waiting
<1>1. Resting \/ Receiving \/ Working
  BY DEF Waiting
<1>2. CASE USART1_RX_Interrupt
  BY <1>1, <1>2, ByteStep
<1>3. CASE TIM2OVF_ISR
  BY <1>1, <1>3, WaitFrame DEF TIM2OVF_ISR, mainVars, hostVars
<1>4. CASE MainLoop
  BY <1>1, <1>4, CheckStep, HandlerStep DEF MainLoop
<1>5. CASE HostAsks
  BY <1>1, <1>5, AskStep DEF HostAsks
<1>6. CASE Reply \/ LoseReply \/ GiveUp
  BY <1>1, <1>6, HostStep
<1>7. CASE Fault
  BY <1>1, <1>7, FaultStep
<1>8. CASE UNCHANGED vars
  BY <1>1, <1>8, WaitFrame DEF vars, mainVars, hostVars
<1> QED BY <1>2, <1>3, <1>4, <1>5, <1>6, <1>7, <1>8 DEF Next

LEMMA InitWaiting == Init => Resting
  BY DEF Init, Resting

\* Until the line first fails: whenever a byte arrives the device is at rest or
\* receiving its request from the start of the buffer, and the handler reads the packet
\* that was sent.
THEOREM WaitingInvariant == Spec => []WaitInv
<1>1. Init => WaitInv
  BY InitWaiting DEF WaitInv, Waiting
<1>2. RxInv /\ WaitInv /\ [Next]_vars => WaitInv'
  <2> SUFFICES ASSUME RxInv, WaitInv, [Next]_vars, faults' = 0 PROVE Waiting'
    BY DEF WaitInv
  <2>1. faults \in Nat
    BY HostAssumption DEF RxInv, TypeOK, EnvTypeOK
  <2>2. ~Fault
    BY <2>1 DEF Fault
  <2>3. faults = 0
    BY <2>1, <2>2
    DEF Next, MainLoop, HostAsks, vars, hostVars, USART1_RX_Interrupt, TIM2OVF_ISR, Check,
        TakeCommand, Acknowledge, ReadParameter, Execute, sendpacket, putpack, ClearRxBuff,
        Timeout, Ask, Reply, LoseReply, GiveUp
  <2> QED BY <2>2, <2>3, WaitStep DEF WaitInv
<1> QED BY <1>1, <1>2, RxInvariant, PTL DEF Spec

\* The same for as long as the line keeps the framing of the requests, however many of
\* them it loses or damages, and however many replies.
THEOREM WaitingWhileFramed == Spec /\ LineKeepsFraming => []Waiting
<1>1. Init => Waiting
  BY InitWaiting DEF Waiting
<1>2. RxInv /\ Waiting /\ [Next]_vars /\ [Fault => KeepsFraming]_vars => Waiting'
  <2> SUFFICES ASSUME RxInv, Waiting, [Next]_vars, [Fault => KeepsFraming]_vars PROVE Waiting'
    OBVIOUS
  <2>1. CASE Fault => KeepsFraming
    BY <2>1, WaitStep
  <2>2. CASE UNCHANGED vars
    <3>1. ~Fault
      <4>1. faults \in Nat /\ faults' = faults
        BY <2>2, HostAssumption DEF vars, hostVars, RxInv, TypeOK, EnvTypeOK
      <4> QED BY <4>1 DEF Fault
    <3> QED BY <3>1, WaitStep
  <2> QED BY <2>1, <2>2
<1> QED BY <1>1, <1>2, RxInvariant, PTL DEF Spec, LineKeepsFraming

\* A host that has its answer, or has given up, finds the receiver as fresh as at
\* power-up, on every line that keeps the framing of the requests.
THEOREM FreshAfterReply == Spec /\ LineKeepsFraming => []CleanAfterReply
<1>1. Waiting => CleanAfterReply
  <2>1. HostWaits => << >> \notin Requests
    BY RequestShape
  <2> QED BY <2>1 DEF Waiting, CleanAfterReply, Resting, Receiving, Working
<1> QED BY <1>1, WaitingWhileFramed, PTL

\* Nothing is stored into RxBuffer from the early "RxStatus=0" of handlecommand to the last
\* parameter its handler reads, on every line that keeps the framing of the requests.
THEOREM NothingOverwritten == Spec /\ LineKeepsFraming => ParametersUntouched
<1>1. ASSUME Waiting, [Next]_vars, HostWaits, pc \in {"ack", "exec"}
      PROVE  RxBuffer' = RxBuffer
  <2>1. Working
    BY <1>1 DEF Waiting, Resting, Receiving
  <2>2. wire = << >>
    BY <2>1 DEF Working
  <2> QED BY <1>1, <2>2
      DEF Next, MainLoop, HostAsks, vars, rxVars, USART1_RX_Interrupt, TIM2OVF_ISR, Check,
          TakeCommand, Acknowledge, ReadParameter, Execute, sendpacket, putpack, ClearRxBuff,
          Timeout, Ask, Reply, LoseReply, GiveUp, Fault
<1>2. Waiting /\ [Next]_vars => [HostWaits /\ pc \in {"ack", "exec"} => UNCHANGED RxBuffer]_vars
  BY <1>1
<1> QED BY <1>2, WaitingWhileFramed, PTL DEF Spec, ParametersUntouched

\* The parameters a handler has read are those of the request.
LEMMA MeaningOfArgs ==
  ASSUME RxInv, HostWaits, Working, pc = "exec", ~Unread
  PROVE  <<Command>> \o args = Meaning(asked)
<1> DEFINE order == ReadOrder(Command)
<1>1. /\ Command = asked[3] /\ Len(args) <= Len(order)
      /\ \A i \in DOMAIN args : args[i] = asked[order[i] + 1]
  BY DEF Working
<1>2. /\ args \in Seq(BYTE) /\ Len(args) \in Nat /\ DOMAIN args = 1 .. Len(args)
      /\ order \in Seq(0 .. RXBUFFERSIZE - 1) /\ Len(order) \in Nat
  BY HostAssumption, LenProperties DEF RxInv, TypeOK, MainTypeOK
<1>3. Len(args) = Len(order)
  BY <1>1, <1>2 DEF Unread
<1>4. args = [i \in 1 .. Len(order) |-> asked[order[i] + 1]]
  <2> HIDE DEF order
  <2>1. args = [i \in 1 .. Len(args) |-> args[i]]
    BY <1>2
  <2> QED BY <1>1, <1>2, <1>3, <2>1
<1> QED BY <1>1, <1>4 DEF Meaning

\* Each step of the device that a waiting host can tell is a step of the abstract one.
LEMMA RefinementStep ==
  ASSUME RxInv, HostWaits, Waiting, [Next]_vars
  PROVE  [Abstract!Next]_<<asked, executed>>
<1>1. Resting \/ Receiving \/ Working
  BY DEF Waiting
<1>2. \A r \in Requests : r # << >>
  BY RequestShape
<1>3. ASSUME NEW r \in Requests, Ask(r) PROVE Abstract!Next
  BY <1>3 DEF Ask, Abstract!Next, Abstract!Ask
<1>4. CASE Execute
  <2>1. pc = "exec" /\ ~Unread /\ asked' = asked
    BY <1>4 DEF Execute, hostVars
  <2>2. Working
    BY <1>1, <2>1 DEF Resting, Receiving
  <2>3. asked \in Requests /\ executed = << >> /\ Command \in Commands
    <3>1. asked \in Requests /\ executed = << >> /\ Command = asked[3]
      BY <2>1, <2>2 DEF Working
    <3> QED BY <3>1, RequestShape
  <2>4. executed' = Meaning(asked)
    BY <1>4, <2>1, <2>2, <2>3, MeaningOfArgs DEF Execute
  <2> QED BY <1>2, <2>1, <2>3, <2>4 DEF Abstract!Next, Abstract!Execute
<1>5. CASE Reply
  <2>1. TxBusy = 1 /\ asked' = << >> /\ executed' = executed
    BY <1>5 DEF Reply
  <2>2. Resting
    BY <1>1, <1>5, HostStep
  <2> QED BY <1>2, <2>1, <2>2 DEF Resting, Abstract!Next, Abstract!Answer
<1>6. CASE GiveUp
  BY <1>6 DEF GiveUp, Abstract!Next, Abstract!GiveUp
<1>7. CASE \/ USART1_RX_Interrupt \/ TIM2OVF_ISR \/ LoseReply \/ Fault \/ UNCHANGED vars
           \/ Check \/ TakeCommand \/ Acknowledge \/ ReadParameter
           \/ sendpacket \/ putpack \/ ClearRxBuff \/ Timeout
  <2>1. asked' = asked /\ executed' = executed
    BY <1>7
    DEF vars, hostVars, USART1_RX_Interrupt, TIM2OVF_ISR, LoseReply, Fault, Check,
        TakeCommand, Acknowledge, ReadParameter, sendpacket, putpack, ClearRxBuff, Timeout
  <2> QED BY <2>1
<1> QED BY <1>3, <1>4, <1>5, <1>6, <1>7 DEF Next, MainLoop, HostAsks

\* Towards a host that waits, and behind a line that keeps the framing of its requests,
\* the device executes only what was asked, with the parameters that were sent, at most
\* once each time, and answers only then.
THEOREM DeviceImplementsRequestReply ==
  HostWaits => (Spec /\ LineKeepsFraming => ImplementsRequestReply)
<1> SUFFICES ASSUME HostWaits PROVE Spec /\ LineKeepsFraming => ImplementsRequestReply
  OBVIOUS
<1>1. Init => Abstract!Init
  BY DEF Init, Abstract!Init
<1>2. RxInv /\ Waiting /\ [Next]_vars => [Abstract!Next]_<<asked, executed>>
  BY RefinementStep
<1> QED BY <1>1, <1>2, RxInvariant, WaitingWhileFramed, PTL
        DEF Spec, ImplementsRequestReply, Abstract!Spec
=============================================================================
