---------------------------- MODULE UartTx_proofs ----------------------------
(***************************************************************************)
(* The reply side of the firmware, for every table of replies and every    *)
(* check byte.  What goes out is the frame as it was composed, because the *)
(* buffer is filled completely before it is started and a host that waits  *)
(* lets no handler begin before it is out.                                 *)
(***************************************************************************)
EXTENDS UartTx, SequenceTheorems, TLAPS

-----------------------------------------------------------------------------
(* Frames and the order in which they are filled.                          *)

Header == <<TXPREFIX, NetAddr>>

\* A frame: header, reply and check byte.
LEMMA FrameShape ==
  ASSUME NEW r \in Replies
  PROVE  /\ r \in Seq(BYTE) /\ Len(r) \in Nat /\ Len(r) >= 2 /\ Len(r) + 3 <= TXBUFFERSIZE
         /\ Header \o r \in Seq(BYTE) /\ Len(Header \o r) = Len(r) + 2
         /\ FrameOf(r) \in Seq(BYTE) /\ Len(FrameOf(r)) = Len(r) + 3
         /\ FrameOf(r)[1] = TXPREFIX /\ FrameOf(r)[2] = NetAddr
         /\ \A i \in 3 .. Len(r) + 2 : FrameOf(r)[i] = r[i - 2]
         /\ FrameOf(r)[Len(r) + 3] = Crc(Header \o r)
         /\ \A i \in 1 .. Len(r) + 2 : FrameOf(r)[i] = (Header \o r)[i]
<1>1. /\ r \in Seq(BYTE) /\ Len(r) \in Nat /\ Len(r) >= 2 /\ Len(r) + 3 <= TXBUFFERSIZE
      /\ Crc(Header \o r) \in BYTE
  BY TxAssumption, LenProperties DEF Header
<1>2. Header \in Seq(BYTE) /\ Len(Header) = 2 /\ Header[1] = TXPREFIX /\ Header[2] = NetAddr
  BY TxAssumption DEF Header
<1> DEFINE body == Header \o r
<1>3. /\ body \in Seq(BYTE) /\ Len(body) = Len(Header) + Len(r)
      /\ \A i \in 1 .. Len(Header) + Len(r) :
           body[i] = IF i <= Len(Header) THEN Header[i] ELSE r[i - Len(Header)]
  BY <1>1, <1>2, ConcatProperties
<1>4. /\ body[1] = TXPREFIX /\ body[2] = NetAddr
      /\ \A i \in 3 .. Len(r) + 2 : body[i] = r[i - 2]
  BY <1>1, <1>2, <1>3
<1>5. FrameOf(r) = Append(body, Crc(body))
  BY DEF FrameOf, Header
<1> HIDE DEF body
<1>6. /\ FrameOf(r) \in Seq(BYTE) /\ Len(FrameOf(r)) = Len(r) + 3
      /\ FrameOf(r)[Len(r) + 3] = Crc(body)
      /\ \A i \in 1 .. Len(r) + 2 : FrameOf(r)[i] = body[i]
  BY <1>1, <1>2, <1>3, <1>5 DEF body
<1>7. QED
  BY <1>1, <1>2, <1>3, <1>4, <1>6 DEF body

\* Every index of a frame is filled, that of the check byte last.
LEMMA OrderShape ==
  ASSUME NEW r \in Replies
  PROVE  /\ FillOrder(r) \in Seq(0 .. Len(r) + 2)
         /\ DOMAIN FillOrder(r) = 1 .. Len(r) + 3 /\ Len(FillOrder(r)) = Len(r) + 3
         /\ \A j \in 1 .. Len(r) + 3 : FillOrder(r)[j] = Len(r) + 2 <=> j = Len(r) + 3
         /\ \A i \in 0 .. Len(r) + 2 : \E j \in 1 .. Len(r) + 3 : FillOrder(r)[j] = i
<1> DEFINE n == Len(r)
           data == [i \in 1 .. n - 1 |-> i + 2]
           rest == <<0, 1, 2, n + 2>>
           order == FillOrder(r)
<1>1. n \in Nat /\ n >= 2
  BY FrameShape
<1>2. order = data \o rest
  BY DEF FillOrder
<1> HIDE DEF n
<1>3. data \in Seq(0 .. n + 2) /\ Len(data) = n - 1 /\ \A i \in 1 .. n - 1 : data[i] = i + 2
  <2>1. data \in [1 .. n - 1 -> 0 .. n + 2] /\ n - 1 \in Nat
    BY <1>1
  <2>2. data \in Seq(0 .. n + 2)
    BY ZenonT(40), <2>1, SeqDef
  <2>3. QED
    BY <2>1, <2>2, LenProperties
<1>4. /\ rest \in Seq(0 .. n + 2) /\ Len(rest) = 4
      /\ rest[1] = 0 /\ rest[2] = 1 /\ rest[3] = 2 /\ rest[4] = n + 2
  BY <1>1
<1> HIDE DEF data, rest, order
<1>5. /\ order \in Seq(0 .. n + 2) /\ Len(order) = Len(data) + Len(rest)
      /\ \A i \in 1 .. Len(data) + Len(rest) :
           order[i] = IF i <= Len(data) THEN data[i] ELSE rest[i - Len(data)]
  BY <1>2, <1>3, <1>4, ConcatProperties
<1>6. DOMAIN order = 1 .. n + 3 /\ Len(order) = n + 3
  BY <1>1, <1>3, <1>4, <1>5, LenProperties
<1>7. ASSUME NEW j \in 1 .. n - 1 PROVE order[j] = j + 2
  <2>1. j \in 1 .. Len(data) + Len(rest) /\ j <= Len(data)
    BY <1>1, <1>3, <1>4
  <2>2. QED
    BY <1>3, <1>5, <2>1
<1>8. ASSUME NEW k \in 1 .. 4 PROVE order[n - 1 + k] = rest[k]
  <2>1. n - 1 + k \in 1 .. n + 3 /\ ~(n - 1 + k <= n - 1) /\ n - 1 + k - (n - 1) = k
    BY <1>1
  <2>2. QED
    BY <1>1, <1>3, <1>4, <1>5, <2>1
<1>9. order[n] = 0 /\ order[n + 1] = 1 /\ order[n + 2] = 2 /\ order[n + 3] = n + 2
  <2>1. /\ order[n - 1 + 1] = 0 /\ order[n - 1 + 2] = 1 /\ order[n - 1 + 3] = 2
        /\ order[n - 1 + 4] = n + 2
    BY <1>4, <1>8
  <2>2. QED
    BY <1>1, <2>1
<1>10. \A j \in 1 .. n + 3 : order[j] = n + 2 <=> j = n + 3
  BY <1>1, <1>7, <1>9
<1>11. ASSUME NEW i \in 0 .. n + 2 PROVE \E j \in 1 .. n + 3 : order[j] = i
  <2>1. CASE i \in 3 .. n + 1
    <3>1. i - 2 \in 1 .. n - 1 /\ i - 2 \in 1 .. n + 3 /\ order[i - 2] = i
      BY <1>1, <1>7, <2>1
    <3>2. QED
      BY <3>1
  <2>2. CASE i \in {0, 1, 2, n + 2}
    BY <1>1, <1>9, <2>2
  <2>3. QED
    BY <1>1, <2>1, <2>2
<1>12. QED
  BY <1>5, <1>3, <1>4, <1>6, <1>10, <1>11 DEF n, order

-----------------------------------------------------------------------------
(* The invariant.                                                          *)

LEMMA ZeroBuffer == [i \in Index |-> 0] \in [Index -> BYTE]
BY DEF BYTE

LEMMA OneByte ==
  ASSUME NEW b \in BYTE
  PROVE  <<b>> \in Seq(BYTE) /\ Len(<<b>>) = 1 /\ <<b>> # << >>
OBVIOUS

LEMMA InitTxInv == Init => TxInv
<1> SUFFICES ASSUME Init PROVE TxInv
  OBVIOUS
<1>1. TypeOK
  BY ZeroBuffer, TxAssumption DEF Init, TypeOK, Index
<1>2. QED
  BY <1>1 DEF Init, TxInv, BusyMeansSending, Registers, Filling, SentUp

\* A handler begins: everything is still to be filled.
LEMMA HandlerStep ==
  ASSUME TxInv, NEW r \in Replies, handlecommand(r)
  PROVE  TxInv'
<1> USE DEF TxInv, handlecommand, uartVars
<1>1. r \in Seq(BYTE) /\ Len(r) \in Nat /\ Len(r) >= 2 /\ Len(r) + 3 <= TXBUFFERSIZE
  BY FrameShape
<1>2. /\ todo' \in Seq(0 .. Len(r) + 2) /\ DOMAIN todo' = 1 .. Len(r) + 3
      /\ Len(todo') = Len(r) + 3
      /\ \A j \in 1 .. Len(r) + 3 : todo'[j] = Len(r) + 2 <=> j = Len(r) + 3
      /\ \A i \in 0 .. Len(r) + 2 : \E j \in 1 .. Len(r) + 3 : todo'[j] = i
  <2>1. todo' = FillOrder(r)
    OBVIOUS
  <2>2. QED
    BY <2>1, OrderShape
<1>3. todo' \in Seq(Index)
  <2>1. 0 .. Len(r) + 2 \subseteq Index
    BY <1>1, TxAssumption DEF Index
  <2>2. QED
    BY <2>1, <1>2, SeqMonotonic
<1>4. TypeOK'
  BY <1>1, <1>3 DEF TypeOK
<1>5. Filling'
  <2>1. \A j \in DOMAIN todo' : todo'[j] \in 0 .. Len(r) + 2
    BY <1>2, ElementOfSeq
  <2>2. QED
    BY <1>2, <2>1 DEF Filling, txcount
<1>6. BusyMeansSending' /\ Registers'
  BY DEF BusyMeansSending, Registers
<1>7. hasty' = 0 => line' = frame' /\ SentUp'
  BY DEF SentUp, TypeOK
<1>8. QED
  BY <1>4, <1>5, <1>6, <1>7

\* The check byte is that of the frame, since everything before it is in place.
LEMMA CheckByte ==
  ASSUME TypeOK, reply \in Replies, \A i \in 0 .. txcount - 1 : InPlace(i)
  PROVE  TxCRC(txcount) = Crc(Header \o reply)
<1> DEFINE filled == [i \in 1 .. txcount |-> TxBuffer[i - 1]]
           body == Header \o reply
<1>1. /\ Len(reply) \in Nat /\ Len(reply) >= 2 /\ Len(reply) + 3 <= TXBUFFERSIZE
      /\ body \in Seq(BYTE) /\ Len(body) = Len(reply) + 2
      /\ \A i \in 1 .. Len(reply) + 2 : FrameOf(reply)[i] = body[i]
  BY FrameShape
<1>2. txcount \in Nat /\ txcount = Len(body) /\ txcount < TXBUFFERSIZE
  BY <1>1, TxAssumption DEF txcount
<1>3. \A i \in 1 .. txcount : i - 1 \in Index /\ TxBuffer[i - 1] = body[i]
  BY <1>1, <1>2, TxAssumption DEF InPlace, Index, txcount
<1>4. filled \in [1 .. txcount -> BYTE]
  BY <1>3, <1>2 DEF TypeOK
<1>5. filled \in Seq(BYTE) /\ Len(filled) = txcount
  <2>1. filled \in Seq(BYTE)
    BY <1>4, <1>2, SeqDef
  <2>2. QED
    BY <2>1, <1>2, LenProperties
<1>6. \A i \in 1 .. Len(filled) : filled[i] = body[i]
  BY <1>3, <1>5
<1> HIDE DEF body
<1>7. filled = body
  BY <1>1, <1>2, <1>5, <1>6, SeqEqual DEF body
<1>8. QED
  BY <1>7 DEF TxCRC, body

\* What sendpacket stores next is the byte of the frame.
LEMMA StoredByte ==
  ASSUME TypeOK, reply \in Replies, Filling, pc = "fill", todo # << >>
  PROVE  /\ Head(todo) \in 0 .. txcount
         /\ ByteAt(Head(todo)) = FrameOf(reply)[Head(todo) + 1]
<1> DEFINE h == Head(todo)
<1>1. /\ Len(todo) \in Nat \ {0} /\ DOMAIN todo = 1 .. Len(todo) /\ h = todo[1]
  BY EmptySeq, LenProperties DEF TypeOK
<1>2. h \in 0 .. txcount /\ (h = txcount <=> Len(todo) = 1)
  BY <1>1 DEF Filling
<1>3. /\ Len(reply) \in Nat /\ Len(reply) >= 2 /\ txcount = Len(reply) + 2
      /\ FrameOf(reply)[1] = TXPREFIX /\ FrameOf(reply)[2] = NetAddr
      /\ \A i \in 3 .. Len(reply) + 2 : FrameOf(reply)[i] = reply[i - 2]
      /\ FrameOf(reply)[Len(reply) + 3] = Crc(Header \o reply)
  BY FrameShape DEF txcount
<1> HIDE DEF h
<1>4. CASE h = txcount
  <2>1. ASSUME NEW i \in 0 .. txcount - 1 PROVE InPlace(i)
    <3>1. i \in 0 .. txcount /\ i # txcount
      BY <1>3
    <3>2. \A j \in DOMAIN todo : todo[j] = txcount
      BY <1>1, <1>2, <1>4 DEF h
    <3>3. QED
      BY <3>1, <3>2 DEF Filling
  <2>2. ByteAt(h) = Crc(Header \o reply)
    BY <2>1, <1>4, CheckByte DEF ByteAt
  <2>3. QED
    BY <2>2, <1>2, <1>3, <1>4 DEF h
<1>5. CASE h \in 0 .. txcount - 1
  <2>1. ByteAt(h) = FrameOf(reply)[h + 1]
    BY <1>3, <1>5 DEF ByteAt
  <2>2. QED
    BY <2>1, <1>2 DEF h
<1>6. QED
  BY <1>2, <1>3, <1>4, <1>5

LEMMA FrameByte ==
  ASSUME NEW r \in Replies, NEW i \in 0 .. Len(r) + 2
  PROVE  FrameOf(r)[i + 1] \in BYTE /\ i \in Index
<1>1. /\ Len(r) \in Nat /\ Len(r) + 3 <= TXBUFFERSIZE
      /\ FrameOf(r) \in Seq(BYTE) /\ Len(FrameOf(r)) = Len(r) + 3
  BY FrameShape
<1>2. i + 1 \in 1 .. Len(FrameOf(r)) /\ i \in Index
  BY <1>1, TxAssumption DEF Index
<1>3. QED
  BY <1>1, <1>2, ElementOfSeq

LEMMA FillStep ==
  ASSUME TxInv, sendpacket
  PROVE  TxInv'
<1> USE DEF TxInv
<1>1. pc = "fill" /\ reply \in Replies /\ UNCHANGED <<reply, hasty, frame, line>>
  BY DEF sendpacket, uartVars
<1>2. hasty = 0 => line = frame /\ SentUp
  BY <1>1 DEF OnTheWay
<1>3. hasty' = 0 => line' = frame' /\ SentUp'
  BY <1>1, <1>2 DEF SentUp, sendpacket, uartVars
<1>4. BusyMeansSending' /\ Registers'
  BY DEF BusyMeansSending, Registers, sendpacket, uartVars
<1>5. CASE todo = << >>
  <2>1. Composed
    BY <1>1, <1>5 DEF Filling, Composed
  <2>2. pc' = "wait" /\ UNCHANGED <<TxBuffer, todo>>
    BY <1>5 DEF sendpacket
  <2>3. TypeOK' /\ Composed'
    BY <2>1, <2>2 DEF TypeOK, Composed, InPlace, txcount, sendpacket, uartVars
  <2>4. QED
    BY <1>1, <1>3, <1>4, <2>2, <2>3 DEF Filling
<1>6. CASE todo # << >>
  <2> DEFINE h == Head(todo)
  <2>1. h \in 0 .. txcount /\ ByteAt(h) = FrameOf(reply)[h + 1]
    BY <1>1, <1>6, StoredByte
  <2>2. h \in Index /\ ByteAt(h) \in BYTE
    BY <1>1, <2>1, FrameByte DEF txcount
  <2>3. TxBuffer' = [TxBuffer EXCEPT ![h] = ByteAt(h)] /\ todo' = Tail(todo) /\ pc' = "fill"
    BY <1>1, <1>6 DEF sendpacket
  <2>4. /\ h = todo[1] /\ Len(todo) \in Nat \ {0} /\ DOMAIN todo = 1 .. Len(todo)
        /\ todo' \in Seq(Index) /\ Len(todo') = Len(todo) - 1
        /\ DOMAIN todo' = 1 .. Len(todo')
        /\ \A i \in 1 .. Len(todo') : todo'[i] = todo[i + 1]
    <3>1. todo \in Seq(Index)
      BY DEF TypeOK
    <3>2. todo' \in Seq(Index)
      BY <3>1, <2>3, <1>6, HeadTailProperties
    <3>3. QED
      BY <3>1, <3>2, <2>3, <1>6, HeadTailProperties, EmptySeq, LenProperties
  <2> HIDE DEF h
  <2>5. TypeOK'
    BY <2>2, <2>3, <2>4 DEF TypeOK, sendpacket, uartVars
  <2>6. txcount' = txcount /\ txcount \in Nat
    BY <1>1, FrameShape DEF txcount
  <2>7. ASSUME NEW j \in DOMAIN todo'
        PROVE  todo'[j] \in 0 .. txcount /\ (todo'[j] = txcount <=> j = Len(todo'))
    <3>1. j + 1 \in DOMAIN todo /\ todo'[j] = todo[j + 1] /\ (j + 1 = Len(todo) <=> j = Len(todo'))
      BY <2>4
    <3>2. QED
      BY <1>1, <3>1 DEF Filling
  <2>8. ASSUME NEW i \in 0 .. txcount
        PROVE  InPlace(i)' \/ \E j \in DOMAIN todo' : todo'[j] = i
    <3>1. i \in Index
      BY <1>1, FrameByte DEF txcount
    <3>2. CASE i = h
      BY <3>1, <3>2, <2>1, <2>2, <2>3, <1>1 DEF InPlace, TypeOK
    <3>3. CASE i # h /\ InPlace(i)
      BY <3>1, <3>3, <2>2, <2>3, <1>1 DEF InPlace, TypeOK
    <3>4. CASE i # h /\ \E j \in DOMAIN todo : todo[j] = i
      <4>1. PICK j \in DOMAIN todo : todo[j] = i
        BY <3>4
      <4>2. j - 1 \in DOMAIN todo' /\ todo'[j - 1] = i
        BY <4>1, <3>4, <2>4
      <4>3. QED
        BY <4>2
    <3>5. QED
      BY <3>2, <3>3, <3>4, <1>1 DEF Filling
  <2>9. Filling'
    BY <2>6, <2>7, <2>8 DEF Filling
  <2>10. QED
    BY <1>1, <1>3, <1>4, <2>3, <2>5, <2>9
<1>7. QED
  BY <1>5, <1>6

LEMMA WaitStep ==
  ASSUME TxInv, WaitForTransmitter
  PROVE  TxInv'
<1> USE DEF TxInv, WaitForTransmitter, bufVars, uartVars
<1>1. TypeOK' /\ BusyMeansSending' /\ Registers'
  BY DEF TypeOK, BusyMeansSending, Registers
<1>2. Composed' /\ Filling'
  BY DEF Composed, InPlace, txcount, Filling
<1>3. hasty' = 0 => line' = frame' /\ SentUp'
  BY DEF OnTheWay, SentUp
<1>4. QED
  BY <1>1, <1>2, <1>3

LEMMA PointerStep ==
  ASSUME TxInv, SetPointers
  PROVE  TxInv'
<1> USE DEF TxInv, SetPointers, bufVars, uartVars
<1>1. txcount \in Index /\ txcount' = txcount
  BY FrameShape, TxAssumption DEF Index, txcount
<1>2. TypeOK'
  BY <1>1 DEF TypeOK, Index
<1>3. BusyMeansSending' /\ Registers'
  BY <1>1 DEF BusyMeansSending, Registers
<1>4. Composed' /\ Filling'
  BY DEF Composed, InPlace, txcount, Filling
<1>5. hasty' = 0 => line' = frame' /\ SentUp'
  BY DEF OnTheWay, SentUp, Registers
<1>6. QED
  BY <1>2, <1>3, <1>4, <1>5

\* The frame is started: nothing of it is out, and all of it is in the buffer.
LEMMA StartStep ==
  ASSUME TxInv, StoreFirstByte
  PROVE  TxInv'
<1> USE DEF TxInv, StoreFirstByte, bufVars
<1>1. /\ reply \in Replies /\ FrameOf(reply) \in Seq(BYTE)
      /\ Len(FrameOf(reply)) = Len(reply) + 3 /\ Len(reply) \in Nat /\ Len(reply) >= 2
  BY FrameShape
<1>2. 0 \in 0 .. txcount /\ txcount > 0 /\ txcount' = txcount
  BY <1>1 DEF txcount
<1>3. TxBuffer[0] \in BYTE
  BY FrameByte, <1>1, <1>2 DEF TypeOK, txcount
<1>4. shift' = <<TxBuffer[0]>> /\ shift' \in Seq(BYTE) /\ Len(shift') = 1 /\ shift' # << >>
  BY <1>3
<1>0. TypeOK
  OBVIOUS
<1>5. TypeOK'
  <2>1. frame' \in Seq(BYTE) /\ line' \in Seq(BYTE)
    <3>1. << >> \in Seq(BYTE)
      OBVIOUS
    <3>2. CASE hasty = 0
      BY <1>1, <3>1, <3>2
    <3>3. CASE hasty # 0
      BY <3>3 DEF TypeOK
    <3>4. QED
      BY <3>2, <3>3
  <2>2. UNCHANGED <<TxBuffer, TxPointer, TxCount, TxBusy, TC, todo, reply, hasty>> /\ pc' = "busy"
    OBVIOUS
  <2> HIDE DEF StoreFirstByte, bufVars, TxInv
  <2>3. QED
    BY <1>4, <1>0, <2>1, <2>2 DEF TypeOK
<1>6. BusyMeansSending' /\ Registers'
  BY <1>2, <1>4 DEF BusyMeansSending, Registers
<1>7. Composed' /\ Filling'
  BY DEF Composed, InPlace, txcount, Filling
<1>8. ASSUME hasty' = 0 PROVE line' # frame' /\ OnTheWay'
  <2>1. line' = << >> /\ frame' = FrameOf(reply) /\ reply' = reply /\ pc' = "busy"
    BY <1>8
  <2>2. Len(line') = 0 /\ Len(frame') > 0 /\ DOMAIN line' = {}
    BY <2>1, <1>1
  <2>3. shift' = <<frame'[TxPointer' + 1]>> /\ TxPointer' = 0 /\ TxCount' = txcount'
    BY <1>2, <2>1 DEF Registers, Composed, InPlace
  <2>4. QED
    BY <1>1, <1>4, <1>7, <2>1, <2>2, <2>3 DEF OnTheWay
<1>9. QED
  BY <1>5, <1>6, <1>7, <1>8

LEMMA BusyStep ==
  ASSUME TxInv, SetBusy
  PROVE  TxInv'
<1> USE DEF TxInv, SetBusy, bufVars, uartVars
<1>1. TypeOK' /\ BusyMeansSending' /\ Registers'
  BY DEF TypeOK, BusyMeansSending, Registers
<1>2. Filling'
  BY DEF Filling
<1>3. line = frame => SentUp' = SentUp
  BY DEF SentUp
<1>4. Composed => Composed'
  BY DEF Composed, InPlace, txcount
<1>5. OnTheWay => OnTheWay'
  BY <1>4 DEF OnTheWay, txcount
<1>6. QED
  BY <1>1, <1>2, <1>3, <1>5

\* One more byte of the frame is out.
LEMMA ByteStep ==
  ASSUME TxInv, EndOfByte
  PROVE  /\ TxInv'
         /\ hasty = 0 => /\ line # frame /\ Len(line') = Len(line) + 1 /\ Len(line') <= Len(frame)
                         /\ \A i \in DOMAIN line' : line'[i] = frame[i]
<1> DEFINE longer == line \o shift
<1>0. /\ TypeOK /\ BusyMeansSending /\ Registers /\ Filling
      /\ pc # "main" => reply \in Replies
      /\ pc \in {"wait", "start", "dr"} => Composed
      /\ hasty = 0 => IF line = frame THEN SentUp ELSE OnTheWay
  BY DEF TxInv
<1>1. /\ line' = IF hasty = 0 THEN longer ELSE line
      /\ shift # << >> /\ pc # "busy" /\ shift' = << >> /\ TC' = 1
      /\ UNCHANGED <<TxBuffer, todo, reply, TxPointer, TxCount, TxBusy, pc, hasty, frame>>
  BY DEF EndOfByte, bufVars
<1>2. Len(shift) = 1 /\ shift \in Seq(BYTE) /\ line \in Seq(BYTE) /\ frame \in Seq(BYTE)
  <2>1. shift \in Seq(BYTE) /\ Len(shift) <= 1 /\ line \in Seq(BYTE) /\ frame \in Seq(BYTE)
    BY <1>0 DEF TypeOK
  <2>2. Len(shift) \in Nat /\ Len(shift) # 0
    <3>1. shift # << >>
      BY <1>1
    <3> HIDE DEF longer
    <3>2. QED
      BY <2>1, <3>1, EmptySeq, LenProperties
  <2>3. \A k \in Nat : k # 0 /\ k <= 1 => k = 1
    OBVIOUS
  <2> HIDE DEF longer
  <2>4. QED
    BY <2>1, <2>2, <2>3, Zenon
<1>3. longer \in Seq(BYTE) /\ Len(longer) = Len(line) + Len(shift)
      /\ \A i \in 1 .. Len(line) + Len(shift) :
           longer[i] = IF i <= Len(line) THEN line[i] ELSE shift[i - Len(line)]
  BY <1>2, ConcatProperties
<1> HIDE DEF longer
<1>4. Len(line) \in Nat /\ DOMAIN line = 1 .. Len(line) /\ Len(longer) = Len(line) + 1
      /\ DOMAIN longer = 1 .. Len(longer) /\ Len(frame) \in Nat
  BY <1>2, <1>3, LenProperties
<1>5. \A i \in 1 .. Len(line) + 1 : longer[i] = IF i <= Len(line) THEN line[i] ELSE shift[1]
  BY <1>2, <1>3, <1>4
<1>6. TypeOK'
  <2>1. line' \in Seq(BYTE) /\ shift' \in Seq(BYTE) /\ Len(shift') = 0
    BY <1>1, <1>2, <1>3
  <2>2. QED
    BY <1>0, <1>1, <2>1 DEF TypeOK
<1>7. BusyMeansSending' /\ Registers'
  BY <1>0, <1>1 DEF BusyMeansSending, Registers, TypeOK
<1>8. Filling' /\ (Composed => Composed') /\ txcount' = txcount
  BY <1>0, <1>1 DEF Filling, Composed, InPlace, txcount
<1>9. ASSUME hasty = 0
      PROVE  /\ line # frame /\ OnTheWay /\ line' = longer
             /\ Len(line') = Len(line) + 1 /\ Len(line') <= Len(frame)
             /\ \A i \in DOMAIN line' : line'[i] = frame[i]
  <2>1. line # frame /\ OnTheWay /\ line' = longer
    BY <1>0, <1>1, <1>9 DEF SentUp
  <2>2. /\ Len(line) < Len(frame) /\ \A i \in DOMAIN line : line[i] = frame[i]
        /\ shift = <<frame[TxPointer + 1]>> /\ Len(line) = TxPointer
    BY <1>1, <2>1 DEF OnTheWay
  <2>3. shift[1] = frame[Len(line) + 1]
    BY <2>2
  <2>4. \A i \in 1 .. Len(line) + 1 : longer[i] = frame[i]
    BY <1>4, <1>5, <2>2, <2>3
  <2>5. QED
    BY <1>4, <2>1, <2>2, <2>4
<1>10. ASSUME hasty' = 0, line' # frame' PROVE OnTheWay'
  <2>1. hasty = 0 /\ frame' = frame
    BY <1>1, <1>10
  <2>2. Len(line') < Len(frame')
    <3>1. CASE Len(line') = Len(frame)
      <4>1. \A i \in 1 .. Len(line') : line'[i] = frame[i]
        BY <1>4, <1>9, <2>1
      <4>2. line' = frame
        BY <1>2, <1>3, <1>9, <2>1, <3>1, <4>1, SeqEqual
      <4>3. QED
        BY <4>2, <1>10, <2>1
    <3>2. CASE Len(line') # Len(frame)
      BY <1>4, <1>9, <2>1, <3>2
    <3>3. QED
      BY <3>1, <3>2
  <2>3. shift' = << >> /\ TC' = 1 /\ Len(line') = TxPointer' + 1
    BY <1>1, <1>9, <2>1 DEF OnTheWay
  <2>4. QED
    BY <1>1, <1>8, <1>9, <2>1, <2>2, <2>3 DEF OnTheWay
<1>11. ASSUME hasty' = 0, line' = frame' PROVE SentUp'
  <2>1. hasty = 0 /\ OnTheWay
    BY <1>1, <1>9, <1>11
  <2>2. /\ Len(line) = TxPointer /\ TxCount = Len(reply) + 2 /\ frame = FrameOf(reply)
        /\ Len(frame) = Len(line) + 1
    BY <1>1, <1>9, <1>11, <2>1 DEF OnTheWay, txcount
  <2>3. Len(frame) = Len(reply) + 3 /\ Len(reply) \in Nat
    BY <2>1, FrameShape DEF OnTheWay
  <2>4. TxPointer >= TxCount
    BY <1>4, <2>2, <2>3
  <2>5. QED
    BY <1>1, <2>4 DEF SentUp
<1>12. QED
  BY <1>0, <1>1, <1>6, <1>7, <1>8, <1>9, <1>10, <1>11 DEF TxInv

\* The interrupt hands over the next byte of the frame, or finds nothing to send.
LEMMA InterruptStep ==
  ASSUME TxInv, USART1_TX_Interrupt
  PROVE  TxInv'
<1>1. /\ TypeOK /\ BusyMeansSending /\ Registers /\ Filling
      /\ pc # "main" => reply \in Replies
      /\ pc \in {"wait", "start", "dr"} => Composed
      /\ hasty = 0 => IF line = frame THEN SentUp ELSE OnTheWay
  BY DEF TxInv
<1>2. /\ TC = 1 /\ TC' = 0
      /\ UNCHANGED <<TxBuffer, todo, reply, line, pc, hasty, frame>>
  BY DEF USART1_TX_Interrupt, bufVars
<1>3. shift = << >> /\ pc \notin {"start", "dr", "busy"}
  BY <1>1, <1>2 DEF Registers
<1>4. Filling' /\ (Composed => Composed') /\ txcount' = txcount
  BY <1>1, <1>2 DEF Filling, Composed, InPlace, txcount
<1>5. CASE TxPointer < TxCount
  <2>1. TxPointer + 1 \in Index /\ TxPointer + 1 <= TxCount /\ TxPointer \in Nat /\ TxCount \in Nat
    BY <1>1, <1>5, TxAssumption DEF TypeOK, Index
  <2>2. TxBuffer[TxPointer + 1] \in BYTE
    BY <1>1, <2>1 DEF TypeOK
  <2>3. /\ TxPointer' = TxPointer + 1 /\ shift' = <<TxBuffer[TxPointer + 1]>>
        /\ TxCount' = TxCount /\ TxBusy' = TxBusy
    BY <1>5 DEF USART1_TX_Interrupt
  <2>4. shift' \in Seq(BYTE) /\ Len(shift') = 1 /\ shift' # << >>
    BY <2>2, <2>3, OneByte
  <2>5. TypeOK'
    BY <1>1, <1>2, <2>1, <2>3, <2>4 DEF TypeOK
  <2>6. BusyMeansSending' /\ Registers'
    BY <1>1, <1>2, <1>3, <1>5, <2>1, <2>3, <2>4 DEF BusyMeansSending, Registers
  <2>7. ASSUME hasty' = 0 PROVE line' # frame' /\ OnTheWay'
    <3>1. hasty = 0 /\ ~SentUp
      BY <1>2, <1>5, <2>1, <2>7 DEF SentUp
    <3>2. OnTheWay /\ line # frame
      BY <1>1, <3>1
    <3>3. TxPointer' \in 0 .. txcount
      BY <3>2, <2>1, <2>3 DEF OnTheWay
    <3>4. TxBuffer[TxPointer'] = frame[TxPointer' + 1]
      BY <3>2, <3>3 DEF OnTheWay, Composed, InPlace
    <3>5. shift' = <<frame'[TxPointer' + 1]>> /\ Len(line') = TxPointer'
      BY <1>2, <1>3, <2>3, <3>2, <3>4 DEF OnTheWay
    <3>6. QED
      BY <1>2, <1>4, <2>3, <2>4, <3>2, <3>5 DEF OnTheWay
  <2>8. QED
    BY <1>1, <1>2, <1>3, <1>4, <2>5, <2>6, <2>7 DEF TxInv
<1>6. CASE ~(TxPointer < TxCount)
  <2>1. TxPointer' = 0 /\ TxCount' = 0 /\ TxBusy' = 0 /\ shift' = << >>
    BY <1>3, <1>6 DEF USART1_TX_Interrupt
  <2>2. TypeOK'
    BY <1>1, <1>2, <1>3, <2>1, TxAssumption DEF TypeOK, Index
  <2>3. BusyMeansSending' /\ Registers'
    BY <1>2, <1>3, <2>1 DEF BusyMeansSending, Registers
  <2>4. ASSUME hasty' = 0 PROVE line' = frame' /\ SentUp'
    <3>1. ~OnTheWay
      <4>1. SUFFICES ASSUME OnTheWay PROVE FALSE
        OBVIOUS
      <4>2. Len(frame) = Len(reply) + 3 /\ Len(reply) \in Nat
        BY <4>1, FrameShape DEF OnTheWay
      <4>3. Len(line) = TxPointer + 1 /\ TxCount = Len(reply) + 2 /\ Len(line) < Len(frame)
        BY <1>3, <4>1 DEF OnTheWay, txcount
      <4>4. QED
        BY <1>1, <1>6, <4>2, <4>3 DEF TypeOK
    <3>2. line = frame
      BY <1>1, <1>2, <2>4, <3>1
    <3>3. QED
      BY <1>2, <2>1, <3>2 DEF SentUp
  <2>5. QED
    BY <1>1, <1>2, <1>3, <1>4, <2>2, <2>3, <2>4 DEF TxInv
<1>7. QED
  BY <1>5, <1>6

LEMMA TxInvStep == TxInv /\ [Next]_vars => TxInv'
<1> SUFFICES ASSUME TxInv, [Next]_vars PROVE TxInv'
  OBVIOUS
<1>1. CASE \E r \in Replies : handlecommand(r)
  BY <1>1, HandlerStep
<1>2. CASE sendpacket
  BY <1>2, FillStep
<1>3. CASE putpack
  BY <1>3, WaitStep, PointerStep, StartStep, BusyStep DEF putpack
<1>4. CASE EndOfByte
  BY <1>4, ByteStep
<1>5. CASE USART1_TX_Interrupt
  BY <1>5, InterruptStep
<1>6. CASE UNCHANGED vars
  BY <1>6 DEF vars, bufVars, uartVars, TxInv, TypeOK, BusyMeansSending, Registers, Filling,
              Composed, InPlace, OnTheWay, SentUp, txcount
<1>7. QED
  BY <1>1, <1>2, <1>3, <1>4, <1>5, <1>6 DEF Next

-----------------------------------------------------------------------------
(* Theorems.                                                               *)

\* The buffer holds what is composed and what goes out (putpack and
\* USART1_TX_Interrupt of UART1.c, sendpacket of commands.c).
THEOREM TxInvariant == Spec => []TxInv
<1>1. QED
  BY InitTxInv, TxInvStep, PTL DEF Spec

\* The pointers of UART1.c never leave TxBuffer, and TxPointer never passes
\* TxCount.
THEOREM TypeCorrect == Spec => []TypeOK
<1>1. TxInv => TypeOK
  BY DEF TxInv
<1>2. QED
  BY TxInvariant, <1>1, PTL

\* TxBusy is raised after the first byte is stored, yet while the main loop is
\* out of putpack it tells whether a frame is going out.
THEOREM BusyTruth == Spec => []BusyMeansSending
<1>1. TxInv => BusyMeansSending
  BY DEF TxInv
<1>2. QED
  BY TxInvariant, <1>1, PTL

\* Every frame goes out complete and unchanged before the next one begins, as
\* long as the host waits for its replies.
THEOREM SendsFrames == Spec => ImplementsFrameSender
<1>1. Init => Sender!Init
  BY DEF Init, Sender!Init
<1>2. ASSUME TxInv, [Next]_vars PROVE [Sender!Next]_(Sender!vars)
  <2>1. CASE UNCHANGED <<frame, line>>
    BY <2>1 DEF Sender!vars
  <2>2. CASE StoreFirstByte /\ hasty = 0
    <3>1. pc = "dr" /\ frame' = FrameOf(reply) /\ line' = << >>
      BY <2>2 DEF StoreFirstByte
    <3>2. reply \in Replies /\ line = frame
      BY <1>2, <2>2, <3>1 DEF TxInv, OnTheWay
    <3>3. Sender!Begin
      BY <3>1, <3>2 DEF Sender!Begin
    <3>4. QED
      BY <3>3 DEF Sender!Next
  <2>3. CASE EndOfByte /\ hasty = 0
    <3>1. /\ line # frame /\ Len(line') = Len(line) + 1 /\ Len(line') <= Len(frame)
          /\ \A i \in DOMAIN line' : line'[i] = frame[i]
      BY <1>2, <2>3, ByteStep
    <3>2. frame' = frame
      BY <2>3 DEF EndOfByte
    <3>3. /\ line \in Seq(BYTE) /\ frame \in Seq(BYTE) /\ line' \in Seq(BYTE)
      <4>1. TypeOK /\ TxInv'
        BY <1>2, <2>3, ByteStep DEF TxInv
      <4>2. QED
        BY <4>1 DEF TxInv, TypeOK
    <3>4. line' = SubSeq(frame, 1, Len(line) + 1)
      <4> DEFINE n == Len(line) + 1
                 part == SubSeq(frame, 1, n)
      <4>1. n \in Nat \ {0} /\ n <= Len(frame) /\ Len(line') = n /\ DOMAIN line' = 1 .. n
        BY <3>1, <3>3, LenProperties
      <4> HIDE DEF n
      <4>2. \A i \in 1 .. n : frame[i] \in BYTE
        BY <3>3, <4>1, ElementOfSeq
      <4>3. /\ part \in Seq(BYTE) /\ Len(part) = IF 1 <= n THEN n - 1 + 1 ELSE 0
            /\ \A i \in 1 .. n - 1 + 1 : part[i] = frame[1 + i - 1]
        BY <4>1, <4>2, SubSeqProperties
      <4> HIDE DEF part
      <4>4. Len(part) = n /\ \A i \in 1 .. n : part[i] = frame[i]
        BY <4>1, <4>3
      <4>5. \A i \in 1 .. Len(line') : line'[i] = part[i]
        BY <3>1, <4>1, <4>4
      <4>6. line' = part
        BY <3>3, <4>1, <4>3, <4>4, <4>5, SeqEqual
      <4>7. QED
        BY <4>6 DEF part, n
    <3>5. Sender!SendByte
      BY <3>1, <3>2, <3>4 DEF Sender!SendByte
    <3>6. QED
      BY <3>5 DEF Sender!Next
  <2>4. \/ UNCHANGED <<frame, line>>
        \/ StoreFirstByte /\ hasty = 0
        \/ EndOfByte /\ hasty = 0
    <3>1. CASE \/ \E r \in Replies : handlecommand(r)
               \/ sendpacket
               \/ WaitForTransmitter
               \/ SetPointers
      BY <3>1 DEF uartVars, handlecommand, sendpacket, WaitForTransmitter, SetPointers
    <3>2. CASE StoreFirstByte
      BY <3>2 DEF StoreFirstByte
    <3>3. CASE EndOfByte
      BY <3>3 DEF EndOfByte
    <3>4. CASE SetBusy \/ USART1_TX_Interrupt \/ UNCHANGED vars
      BY <3>4 DEF uartVars, SetBusy, USART1_TX_Interrupt, vars
    <3>5. QED
      BY <1>2, <3>1, <3>2, <3>3, <3>4 DEF Next, putpack
  <2>5. QED
    BY <2>1, <2>2, <2>3, <2>4
<1>3. QED
  BY TxInvariant, <1>1, <1>2, PTL DEF Spec, ImplementsFrameSender, Sender!Spec
=============================================================================
