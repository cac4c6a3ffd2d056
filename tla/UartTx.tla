------------------------------- MODULE UartTx -------------------------------
(***************************************************************************)
(* The reply side of the firmware: a command handler fills TxBuffer,       *)
(* sendpacket adds header and check byte, putpack waits for the            *)
(* transmitter and starts it, and the transmit interrupt feeds it byte by  *)
(* byte.  Handler and interrupt share TxBuffer, TxPointer, TxCount and     *)
(* TxBusy without a lock.                                                  *)
(*                                                                         *)
(* A pending interrupt is served before the next statement of the main     *)
(* loop, so the main loop moves only while TC is down.                     *)
(***************************************************************************)
EXTENDS Integers, Sequences

CONSTANTS
  TXBUFFERSIZE,
  TXPREFIX,     \* first byte of a reply
  NetAddr,
  Crc(_),       \* check byte of a sequence of bytes
  Replies       \* the replies of the handlers, command byte first

BYTE == {b \in Nat : b < 256}

ASSUME TxAssumption ==
  /\ TXBUFFERSIZE \in 1 .. 256
  /\ TXPREFIX \in BYTE /\ NetAddr \in BYTE
  /\ Replies \subseteq Seq(BYTE)
  /\ \A r \in Replies : /\ Len(r) >= 2 /\ Len(r) + 3 <= TXBUFFERSIZE
                        /\ Crc(<<TXPREFIX, NetAddr>> \o r) \in BYTE

VARIABLES
  TxBuffer,
  TxPointer,  \* index of the byte that was handed to the UART last
  TxCount,    \* index of the last byte of the frame
  TxBusy,
  TC,         \* the UART has sent its byte; the interrupt is pending
  shift,      \* << >> or the byte that is going out
  pc,         \* the next statement: "main", "fill", "wait", "start", "dr", "busy"
  todo,       \* the indices of TxBuffer the handler and sendpacket still fill
  reply,      \* the reply being composed
  hasty,      \* history: 1 once the host asked before a reply was over
  frame,      \* history: the frame that was started last, as it was composed, and
  line        \* the bytes that went out since; both end when the host is hasty

bufVars  == <<TxBuffer, todo, reply>>
uartVars == <<TC, shift, line>>
vars     == <<bufVars, uartVars, TxPointer, TxCount, TxBusy, pc, hasty, frame>>

Index == 0 .. TXBUFFERSIZE - 1

\* The bytes that shall go out for a reply.
FrameOf(r) == LET body == <<TXPREFIX, NetAddr>> \o r IN Append(body, Crc(body))

\* index of the check byte: the argument of sendpacket
txcount == Len(reply) + 2

\* TC is set after a reset and its interrupt is enabled by initUART.
Init ==
  /\ TxBuffer = [i \in Index |-> 0]
  /\ TxPointer = 0 /\ TxCount = 0 /\ TxBusy = 0
  /\ TC = 1 /\ shift = << >>
  /\ pc = "main" /\ todo = << >> /\ reply = << >>
  /\ hasty = 0 /\ frame = << >> /\ line = << >>

-----------------------------------------------------------------------------
(* The main loop.                                                          *)

\* The handler fills the data of the reply first, sendpacket then the header and
\* the check byte.
FillOrder(r) == [i \in 1 .. Len(r) - 1 |-> i + 2] \o <<0, 1, 2, Len(r) + 2>>

handlecommand(r) ==
  /\ TC = 0
  /\ pc = "main" /\ pc' = "fill"
  /\ hasty' = IF line = frame THEN hasty ELSE 1
  /\ reply' = r /\ todo' = FillOrder(r)
  /\ UNCHANGED <<TxBuffer, uartVars, TxPointer, TxCount, TxBusy, frame>>

TxCRC(c) == Crc([i \in 1 .. c |-> TxBuffer[i - 1]])

ByteAt(i) ==
  IF i = txcount THEN TxCRC(i)
  ELSE IF i = 0 THEN TXPREFIX
  ELSE IF i = 1 THEN NetAddr
  ELSE reply[i - 1]

\* Mutant: the check byte is computed before the header and the data are there.
sendpacket_crcFirst ==
  /\ TC = 0 /\ pc = "fill"
  /\ IF todo = << >>
       THEN pc' = "wait" /\ UNCHANGED <<TxBuffer, todo>>
       ELSE LET i == todo[Len(todo)] IN
            /\ TxBuffer' = [TxBuffer EXCEPT ![i] = ByteAt(i)]
            /\ todo' = SubSeq(todo, 1, Len(todo) - 1)
            /\ UNCHANGED pc
  /\ UNCHANGED <<uartVars, TxPointer, TxCount, TxBusy, reply, hasty, frame>>

\* One store into TxBuffer; nothing has looked at TxBusy yet.
sendpacket ==
  /\ TC = 0 /\ pc = "fill"
  /\ IF todo = << >>
       THEN pc' = "wait" /\ UNCHANGED <<TxBuffer, todo>>
       ELSE /\ TxBuffer' = [TxBuffer EXCEPT ![Head(todo)] = ByteAt(Head(todo))]
            /\ todo' = Tail(todo)
            /\ UNCHANGED pc
  /\ UNCHANGED <<uartVars, TxPointer, TxCount, TxBusy, reply, hasty, frame>>

\* The statements of putpack.
WaitForTransmitter ==
  /\ TC = 0
  /\ pc = "wait" /\ TxBusy = 0 /\ pc' = "start"
  /\ UNCHANGED <<bufVars, uartVars, TxPointer, TxCount, TxBusy, hasty, frame>>

SetPointers ==
  /\ TC = 0
  /\ pc = "start" /\ pc' = "dr"
  /\ TxPointer' = 0 /\ TxCount' = txcount
  /\ UNCHANGED <<bufVars, uartVars, TxBusy, hasty, frame>>

StoreFirstByte ==
  /\ TC = 0
  /\ pc = "dr" /\ pc' = "busy"
  /\ shift' = <<TxBuffer[0]>>
  /\ IF hasty = 0 THEN frame' = FrameOf(reply) /\ line' = << >> ELSE UNCHANGED <<frame, line>>
  /\ UNCHANGED <<bufVars, TC, TxPointer, TxCount, TxBusy, hasty>>

SetBusy ==
  /\ TC = 0
  /\ pc = "busy" /\ pc' = "main"
  /\ TxBusy' = 1
  /\ UNCHANGED <<bufVars, uartVars, TxPointer, TxCount, hasty, frame>>

putpack == WaitForTransmitter \/ SetPointers \/ StoreFirstByte \/ SetBusy

-----------------------------------------------------------------------------
(* The UART and its interrupt.                                             *)

\* A byte lasts 87 microseconds (115200 baud): "TxBusy = 1" is long over by then.
EndOfByte ==
  /\ shift # << >> /\ pc # "busy"
  /\ line' = IF hasty = 0 THEN line \o shift ELSE line
  /\ shift' = << >> /\ TC' = 1
  /\ UNCHANGED <<bufVars, TxPointer, TxCount, TxBusy, pc, hasty, frame>>

\* Mutants: one byte too few; TxBusy is never taken down; TxBusy is taken down when the
\* last byte is handed over.
USART1_TX_Interrupt_stopsShort ==
  /\ TC = 1 /\ TC' = 0
  /\ IF TxPointer + 1 < TxCount
       THEN /\ TxPointer' = TxPointer + 1
            /\ shift' = <<TxBuffer[TxPointer + 1]>>
            /\ UNCHANGED <<TxCount, TxBusy>>
       ELSE TxCount' = 0 /\ TxPointer' = 0 /\ TxBusy' = 0 /\ UNCHANGED shift
  /\ UNCHANGED <<bufVars, line, pc, hasty, frame>>

USART1_TX_Interrupt_staysBusy ==
  /\ TC = 1 /\ TC' = 0
  /\ IF TxPointer < TxCount
       THEN TxPointer' = TxPointer + 1 /\ shift' = <<TxBuffer[TxPointer + 1]>> /\ UNCHANGED TxCount
       ELSE TxCount' = 0 /\ TxPointer' = 0 /\ UNCHANGED shift
  /\ UNCHANGED <<bufVars, line, TxBusy, pc, hasty, frame>>

USART1_TX_Interrupt_freesEarly ==
  /\ TC = 1 /\ TC' = 0
  /\ IF TxPointer < TxCount
       THEN /\ TxPointer' = TxPointer + 1
            /\ shift' = <<TxBuffer[TxPointer + 1]>>
            /\ TxBusy' = IF TxPointer + 1 = TxCount THEN 0 ELSE TxBusy
            /\ UNCHANGED TxCount
       ELSE TxCount' = 0 /\ TxPointer' = 0 /\ TxBusy' = 0 /\ UNCHANGED shift
  /\ UNCHANGED <<bufVars, line, pc, hasty, frame>>

USART1_TX_Interrupt ==
  /\ TC = 1 /\ TC' = 0
  /\ IF TxPointer < TxCount
       THEN /\ TxPointer' = TxPointer + 1
            /\ shift' = <<TxBuffer[TxPointer + 1]>>
            /\ UNCHANGED <<TxCount, TxBusy>>
       ELSE TxCount' = 0 /\ TxPointer' = 0 /\ TxBusy' = 0 /\ UNCHANGED shift
  /\ UNCHANGED <<bufVars, line, pc, hasty, frame>>

Next == (\E r \in Replies : handlecommand(r)) \/ sendpacket \/ putpack
          \/ EndOfByte \/ USART1_TX_Interrupt

Spec == Init /\ [][Next]_vars

\* Interrupts are served, the UART shifts, and a handler runs to its end.
Fairness == WF_vars(sendpacket) /\ WF_vars(putpack)
              /\ WF_vars(EndOfByte) /\ WF_vars(USART1_TX_Interrupt)

LiveSpec == Spec /\ Fairness

-----------------------------------------------------------------------------
(* Properties.                                                             *)

\* Every variable keeps its type; the interrupt never reads beyond the frame,
\* and so not beyond TxBuffer.
TypeOK ==
  /\ TxBuffer \in [Index -> BYTE]
  /\ TxCount \in Index /\ TxPointer \in Nat /\ TxPointer <= TxCount
  /\ TxBusy \in {0, 1} /\ TC \in {0, 1}
  /\ shift \in Seq(BYTE) /\ Len(shift) <= 1
  /\ pc \in {"main", "fill", "wait", "start", "dr", "busy"}
  /\ todo \in Seq(Index) /\ reply \in Seq(BYTE)
  /\ hasty \in {0, 1} /\ frame \in Seq(BYTE) /\ line \in Seq(BYTE)

\* uart.c: "TxBusy=0;//transmitter free".  Whatever TxBusy says, it says the truth
\* to putpack: the UART has sent its byte and its interrupt has nothing left to
\* send, so no interrupt changes the pointers putpack is about to set.
BusyMeansSending ==
  pc # "busy" => (TxBusy = 0 <=> shift = << >> /\ (TC = 0 \/ TxCount = 0))

\* To a host that waits for the end of a reply, every reply goes out as it was
\* composed, although its buffer is filled without a look at TxBusy.
Sender == INSTANCE FrameSender WITH Frames <- {FrameOf(r) : r \in Replies}
ImplementsFrameSender == Sender!Spec

\* A reply that was begun is finished.
EveryReplyEnds == line # frame ~> (line = frame \/ hasty = 1)

\* "while (TxBusy);" ends: however the host asks, a handler that has reached
\* putpack returns to the main loop.
HandlerReturns == pc # "main" ~> pc = "main"

-----------------------------------------------------------------------------
(* The inductive invariant: what is in TxBuffer while a reply is composed  *)
(* and while it goes out, and who may set the pointers.                    *)

InPlace(i) == TxBuffer[i] = FrameOf(reply)[i + 1]

Composed == \A i \in 0 .. txcount : InPlace(i)

\* What is not in place is still to be filled; the check byte comes last.
Filling ==
  pc = "fill" =>
    /\ \A j \in DOMAIN todo : todo[j] \in 0 .. txcount /\ (todo[j] = txcount <=> j = Len(todo))
    /\ \A i \in 0 .. txcount : InPlace(i) \/ \E j \in DOMAIN todo : todo[j] = i

\* The interrupt waits only for a byte that has gone out, and putpack has the pointers
\* to itself.
Registers ==
  /\ TC = 1 => shift = << >>
  /\ shift # << >> => TxCount > 0
  /\ pc \in {"start", "dr"} => TxBusy = 0 /\ TC = 0 /\ shift = << >>
  /\ pc = "dr" => TxPointer = 0 /\ TxCount = txcount
  /\ pc = "busy" => TxBusy = 0 /\ TC = 0 /\ shift # << >>

\* Of the frame on the line so many bytes are out as TxPointer says, the buffer still
\* holds all of it, and no handler is at work.
OnTheWay ==
  /\ pc \in {"busy", "main"} /\ reply \in Replies /\ frame = FrameOf(reply)
  /\ Composed /\ TxCount = txcount
  /\ Len(line) < Len(frame) /\ \A i \in DOMAIN line : line[i] = frame[i]
  /\ IF shift = << >> THEN TC = 1 /\ Len(line) = TxPointer + 1
     ELSE shift = <<frame[TxPointer + 1]>> /\ Len(line) = TxPointer

\* A host that waits finds nothing left to send.
SentUp == shift = << >> /\ (TC = 0 \/ TxPointer >= TxCount)

TxInv ==
  /\ TypeOK /\ BusyMeansSending /\ Registers
  /\ pc # "main" => reply \in Replies
  /\ Filling /\ (pc \in {"wait", "start", "dr"} => Composed)
  /\ hasty = 0 => IF line = frame THEN SentUp ELSE OnTheWay
=============================================================================
