------------------------------- MODULE UartRx -------------------------------
(***************************************************************************)
(* The request side of the firmware: the receive interrupt of uart.c,      *)
(* which assembles a packet byte by byte, and the main loop of main.c,     *)
(* which checks the packet, executes the command and clears the buffer.    *)
(* Both work on the same globals without any lock.  An interrupt runs to   *)
(* completion between two statements of the main loop, so the receive      *)
(* interrupt is one action and the main loop is cut at every statement     *)
(* whose effect the interrupt can see.                                     *)
(*                                                                         *)
(* The host and the line are the environment.  The host puts one request   *)
(* at a time on the line; the line may truncate it, drop a byte of it,     *)
(* damage one or lose the reply, MaxFaults times in all.                   *)
(***************************************************************************)
EXTENDS Integers, Sequences

CONSTANTS
  RXBUFFERSIZE,  \* uart.h: size of RxBuffer
  RXPREFIX,      \* first byte of a request
  NetAddr,       \* address of this device
  COMMANDLIST,   \* command byte -> length of its packet, CRC included
  RXTIMEOUT,     \* ticks of TIM2 in a receive timeout
  Crc(_),        \* check byte of a sequence of bytes
  ReadOrder(_),  \* command -> the buffer indices its handler reads, in order
  Requests,      \* the packets the host may send
  Noise,         \* the bytes a damaged byte may turn into
  MaxFaults,     \* bound on the faults of the line
  HostWaits      \* does the host wait for the reply, or for its 500 ms?

BYTE == 0 .. 255
BROADCAST == 255
Commands == DOMAIN COMMANDLIST

ASSUME BufferAssumption ==
  /\ RXBUFFERSIZE \in 1 .. 256
  /\ COMMANDLIST \in [Commands -> 4 .. RXBUFFERSIZE]
  /\ Commands # {} /\ Commands \subseteq BYTE
  /\ RXPREFIX \in BYTE /\ NetAddr \in BYTE

\* Three of the longest packets fit in the buffer (3 * 12 <= 128).
ASSUME RoomAssumption == \A c \in Commands : 3 * COMMANDLIST[c] <= RXBUFFERSIZE

ASSUME HostAssumption ==
  /\ Requests \subseteq Seq(BYTE)
  /\ Noise \subseteq BYTE
  /\ MaxFaults \in Nat
  /\ HostWaits \in BOOLEAN
  /\ RXTIMEOUT \in Nat \ {0}
  /\ \A c \in BYTE : ReadOrder(c) \in Seq(0 .. RXBUFFERSIZE - 1)

\* What checkpacket finds right: the last byte is the check byte of those before it.
Accepted(p) == Crc([i \in 1 .. Len(p) - 1 |-> p[i]]) = p[Len(p)]

\* A host that waits builds its packets as the command table says, and the check byte
\* tells a packet from one with a single byte behind the command changed.
ASSUME PacketAssumption == HostWaits =>
  \A r \in Requests :
    /\ Len(r) >= 4 /\ r[1] = RXPREFIX /\ r[2] \in {BROADCAST, NetAddr}
    /\ r[3] \in Commands /\ Len(r) = COMMANDLIST[r[3]]
    /\ \A i \in DOMAIN ReadOrder(r[3]) : ReadOrder(r[3])[i] < Len(r)
    /\ \A i \in 4 .. Len(r), b \in BYTE : Accepted([r EXCEPT ![i] = b]) <=> b = r[i]

VARIABLES
  RxStatus,    \* 0 idle, 1 prefix, 2 address, 3 command received, 4 complete
  RxPointer,   \* where the next byte goes
  RxBuffer,
  RxCount,     \* bytes the packet still lacks, in status 3
  plen,        \* length of the packet being received
  Comm_Len,    \* index of the CRC of the complete packet
  F_Comm,      \* a checked packet waits for its handler
  Command,
  pc,          \* the next statement of the main loop
  clr,         \* the next statement of clearRxBuff, when pc is in it
  args,        \* the parameters the handler has read so far
  TxBusy,      \* a reply is being sent
  Tim2Counter, Tim2Flag,
  wire,        \* the bytes of the request that have not arrived yet
  asked,       \* the request the host waits on, << >> when none
  executed,    \* what the device executed since the host asked, << >> if nothing
  faults

rxVars   == <<RxStatus, RxPointer, RxBuffer, RxCount, plen, Comm_Len, F_Comm>>
mainVars == <<Command, pc, clr, args>>
timVars  == <<Tim2Counter, Tim2Flag>>
hostVars == <<asked, faults>>
vars     == <<rxVars, mainVars, timVars, hostVars, TxBusy, wire, executed>>

Index == 0 .. RXBUFFERSIZE - 1
pcs == {"check", "cmd", "ack", "exec", "send", "put", "clr1", "clr2", "tim2"}

Init ==
  /\ RxStatus = 0 /\ RxPointer = 0 /\ RxCount = 0 /\ plen = 0 /\ Comm_Len = 0
  /\ RxBuffer = [i \in Index |-> 0]
  /\ F_Comm = 0 /\ Command = 0
  /\ pc = "check" /\ clr = 0 /\ args = << >>
  /\ TxBusy = 0
  /\ Tim2Counter = RXTIMEOUT /\ Tim2Flag = 0
  /\ wire = << >> /\ asked = << >> /\ executed = << >> /\ faults = 0

-----------------------------------------------------------------------------
(* The receive interrupt.                                                  *)

Store(i, b) ==
  /\ RxBuffer' = [RxBuffer EXCEPT ![i] = b]
  /\ RxPointer' = (i + 1) % 256

\* clearRxBuff, when the main loop cannot interfere or is itself shielded
clearRxBuff ==
  /\ RxPointer' = 0
  /\ RxBuffer' = [RxBuffer EXCEPT ![0] = 0]
  /\ F_Comm' = 0
  /\ RxStatus' = 0

\* Mutant: the pointer is left where it is.
nocommand_keepsPointer ==
  /\ RxBuffer' = [RxBuffer EXCEPT ![0] = 0]
  /\ F_Comm' = 0 /\ RxStatus' = 0 /\ RxCount' = 0
  /\ UNCHANGED <<RxPointer, plen, Comm_Len>>

nocommand == clearRxBuff /\ RxCount' = 0 /\ UNCHANGED <<plen, Comm_Len>>

\* a prefix does not reset RxPointer: it is stored where the pointer stands
rec_pref(b) ==
  \/ /\ b = RXPREFIX
     /\ Store(RxPointer, b)
     /\ RxStatus' = 1
     /\ UNCHANGED <<RxCount, plen, Comm_Len, F_Comm>>
  \/ b # RXPREFIX /\ nocommand

rec_addr(b) ==
  \/ /\ b \in {BROADCAST, NetAddr}
     /\ Store(RxPointer, b)
     /\ RxStatus' = 2
     /\ UNCHANGED <<RxCount, plen, Comm_Len, F_Comm>>
  \/ /\ b \notin {BROADCAST, NetAddr} /\ b = RXPREFIX
     /\ Store(0, b)
     /\ RxStatus' = 1
     /\ UNCHANGED <<RxCount, plen, Comm_Len, F_Comm>>
  \/ b \notin {BROADCAST, NetAddr, RXPREFIX} /\ nocommand

\* Mutant: the command itself is counted among the bytes still to come.
rec_command_countsCommand(b) ==
  \/ /\ b \in Commands
     /\ plen' = COMMANDLIST[b]
     /\ RxCount' = COMMANDLIST[b] - 2
     /\ Store(RxPointer, b)
     /\ RxStatus' = 3
     /\ UNCHANGED <<Comm_Len, F_Comm>>
  \/ b \notin Commands /\ nocommand

rec_command(b) ==
  \/ /\ b \in Commands
     /\ plen' = COMMANDLIST[b]
     /\ RxCount' = COMMANDLIST[b] - 3
     /\ Store(RxPointer, b)
     /\ RxStatus' = 3
     /\ UNCHANGED <<Comm_Len, F_Comm>>
  \/ b \notin Commands /\ nocommand

rec_param(b) ==
  /\ Store(RxPointer, b)
  /\ RxCount' = (RxCount - 1) % 256
  /\ IF RxCount' = 0
       THEN RxStatus' = 4 /\ Comm_Len' = plen - 1
       ELSE UNCHANGED <<RxStatus, Comm_Len>>
  /\ UNCHANGED <<plen, F_Comm>>

\* a byte that arrives while a packet waits for the main loop is dropped
Receive(b) ==
  \/ RxStatus = 0 /\ rec_pref(b)
  \/ RxStatus = 1 /\ rec_addr(b)
  \/ RxStatus = 2 /\ rec_command(b)
  \/ RxStatus = 3 /\ rec_param(b)
  \/ RxStatus = 4 /\ UNCHANGED rxVars

USART1_RX_Interrupt ==
  /\ wire # << >>
  /\ Receive(Head(wire))
  /\ wire' = Tail(wire)
  /\ UNCHANGED <<mainVars, timVars, hostVars, TxBusy, executed>>

TIM2OVF_ISR ==
  /\ Tim2Counter' = IF Tim2Counter = 1 THEN RXTIMEOUT ELSE Tim2Counter - 1
  /\ Tim2Flag' = IF Tim2Counter = 1 THEN 1 ELSE Tim2Flag
  /\ UNCHANGED <<rxVars, mainVars, hostVars, TxBusy, wire, executed>>

-----------------------------------------------------------------------------
(* The main loop.                                                          *)

goto(l) == pc' = l

\* Mutants: a command is recognised without its check byte; a bad packet is
\* refused but not cleared.
checkpacket_withoutCrc ==
  F_Comm' = 1 /\ Command' = RxBuffer[2] /\ UNCHANGED <<RxStatus, RxPointer, RxBuffer>>
checkpacket_keepsBadPacket ==
  LET packet == [i \in 1 .. Comm_Len |-> RxBuffer[i - 1]] IN
  /\ IF Crc(packet) = RxBuffer[Comm_Len]
       THEN F_Comm' = 1 /\ Command' = RxBuffer[2]
       ELSE UNCHANGED <<F_Comm, Command>>
  /\ UNCHANGED <<RxStatus, RxPointer, RxBuffer>>

\* The whole check is one step: in status 4 the interrupt changes nothing.
checkpacket ==
  LET packet == [i \in 1 .. Comm_Len |-> RxBuffer[i - 1]] IN
  IF Crc(packet) = RxBuffer[Comm_Len]
    THEN /\ F_Comm' = 1
         /\ Command' = RxBuffer[2]
         /\ UNCHANGED <<RxStatus, RxPointer, RxBuffer>>
    ELSE clearRxBuff /\ UNCHANGED Command

Check ==
  /\ pc = "check" /\ goto("cmd")
  /\ \/ RxStatus = 4 /\ checkpacket
     \/ RxStatus # 4 /\ UNCHANGED <<RxStatus, RxPointer, RxBuffer, F_Comm, Command>>
  /\ UNCHANGED <<RxCount, plen, Comm_Len, clr, args, timVars, hostVars, TxBusy, wire, executed>>

TakeCommand ==
  /\ pc = "cmd"
  /\ F_Comm' = 0
  /\ IF F_Comm = 1 THEN goto("ack") ELSE goto("tim2")
  /\ UNCHANGED <<RxStatus, RxPointer, RxBuffer, RxCount, plen, Comm_Len,
                 Command, clr, args, timVars, hostVars, TxBusy, wire, executed>>

\* reception is opened again before the command is executed
Acknowledge ==
  /\ pc = "ack" /\ goto("exec")
  /\ RxStatus' = 0
  /\ args' = << >>
  /\ UNCHANGED <<RxPointer, RxBuffer, RxCount, plen, Comm_Len, F_Comm,
                 Command, clr, timVars, hostVars, TxBusy, wire, executed>>

Unread == Len(args) < Len(ReadOrder(Command))

ReadParameter ==
  /\ pc = "exec" /\ Unread
  /\ args' = Append(args, RxBuffer[ReadOrder(Command)[Len(args) + 1]])
  /\ UNCHANGED <<rxVars, Command, pc, clr, timVars, hostVars, TxBusy, wire, executed>>

\* a command without a handler gets no reply
Execute ==
  /\ pc = "exec" /\ ~Unread
  /\ \/ Command \in Commands /\ goto("send") /\ executed' = <<Command>> \o args
     \/ Command \notin Commands /\ goto("clr2") /\ UNCHANGED executed
  /\ clr' = 0
  /\ UNCHANGED <<rxVars, Command, args, timVars, hostVars, TxBusy, wire>>

sendpacket ==
  /\ pc = "send" /\ goto("put")
  /\ RxPointer' = 0
  /\ UNCHANGED <<RxStatus, RxBuffer, RxCount, plen, Comm_Len, F_Comm,
                 Command, clr, args, timVars, hostVars, TxBusy, wire, executed>>

\* waits until the previous reply has been sent
putpack ==
  /\ pc = "put" /\ goto("clr1")
  /\ TxBusy = 0 /\ TxBusy' = 1
  /\ UNCHANGED <<rxVars, Command, clr, args, timVars, hostVars, wire, executed>>

\* Mutant: RxBuffer[RxPointer++] = 0 instead of RxBuffer[0] = 0.
ClearRxBuff_movesPointer ==
  /\ pc \in {"clr1", "clr2"}
  /\ RxPointer' = IF clr = 0 THEN 0 ELSE IF clr = 1 THEN RxPointer + 1 ELSE RxPointer
  /\ RxBuffer' = IF clr = 1 THEN [RxBuffer EXCEPT ![RxPointer] = 0] ELSE RxBuffer
  /\ F_Comm' = IF clr = 2 THEN 0 ELSE F_Comm
  /\ RxStatus' = IF clr = 3 THEN 0 ELSE RxStatus
  /\ clr' = (clr + 1) % 4
  /\ pc' = IF clr < 3 THEN pc ELSE IF pc = "clr1" THEN "clr2" ELSE "tim2"
  /\ UNCHANGED <<RxCount, plen, Comm_Len, Command, args,
                 timVars, hostVars, TxBusy, wire, executed>>

\* The statements of clearRxBuff one by one: sendpacket calls it ("clr1"), and
\* handlecommand calls it again on its way out ("clr2").
ClearRxBuff ==
  /\ pc \in {"clr1", "clr2"}
  /\ RxPointer' = IF clr = 0 THEN 0 ELSE RxPointer
  /\ RxBuffer' = IF clr = 1 THEN [RxBuffer EXCEPT ![0] = 0] ELSE RxBuffer
  /\ F_Comm' = IF clr = 2 THEN 0 ELSE F_Comm
  /\ RxStatus' = IF clr = 3 THEN 0 ELSE RxStatus
  /\ clr' = (clr + 1) % 4
  /\ pc' = IF clr < 3 THEN pc ELSE IF pc = "clr1" THEN "clr2" ELSE "tim2"
  /\ UNCHANGED <<RxCount, plen, Comm_Len, Command, args,
                 timVars, hostVars, TxBusy, wire, executed>>

\* the flag of the receive timeout is taken down and nothing else is done
Timeout ==
  /\ pc = "tim2" /\ goto("check")
  /\ Tim2Flag' = 0
  /\ UNCHANGED <<rxVars, Command, clr, args, Tim2Counter, hostVars, TxBusy, wire, executed>>

MainLoop ==
  \/ Check \/ TakeCommand \/ Acknowledge \/ ReadParameter \/ Execute
  \/ sendpacket \/ putpack \/ ClearRxBuff \/ Timeout

-----------------------------------------------------------------------------
(* The line and the host.                                                  *)

\* The device has nothing left to do about the bytes it received.
Settled == pc \in {"check", "cmd", "tim2"} /\ RxStatus # 4 /\ F_Comm = 0

\* The host builds a request and writes it to the line.  A host that waits
\* does so only after the reply to the previous one, or after its timeout.
Ask(r) ==
  /\ wire = << >>
  /\ HostWaits => asked = << >>
  /\ wire' = r /\ asked' = r /\ executed' = << >>
  /\ UNCHANGED <<rxVars, mainVars, timVars, TxBusy, faults>>

\* The last byte of the reply is out.  A reply lasts longer than the few
\* assignments that follow putpack, so a waiting host sees it after them.
Reply ==
  /\ TxBusy = 1
  /\ HostWaits => pc \notin {"clr1", "clr2"}
  /\ TxBusy' = 0
  /\ asked' = << >>
  /\ UNCHANGED <<rxVars, mainVars, timVars, wire, executed, faults>>

\* no answer within the timeout, which is longer than any handler
GiveUp ==
  /\ asked # << >> /\ wire = << >>
  /\ HostWaits => Settled /\ TxBusy = 0
  /\ asked' = << >>
  /\ UNCHANGED <<rxVars, mainVars, timVars, TxBusy, wire, executed, faults>>

\* the reply is lost on its way to the host
LoseReply ==
  /\ TxBusy = 1 /\ faults < MaxFaults
  /\ HostWaits => pc \notin {"clr1", "clr2"}
  /\ TxBusy' = 0
  /\ faults' = faults + 1
  /\ UNCHANGED <<rxVars, mainVars, timVars, wire, asked, executed>>

Fault ==
  /\ wire # << >> /\ faults < MaxFaults
  /\ faults' = faults + 1
  /\ \/ wire' = << >>
     \/ wire' = Tail(wire)
     \/ \E n \in Noise : wire' = <<n>> \o Tail(wire)
  /\ UNCHANGED <<rxVars, mainVars, timVars, asked, TxBusy, executed>>

HostAsks == \E r \in Requests : Ask(r)

Next == USART1_RX_Interrupt \/ TIM2OVF_ISR \/ MainLoop
          \/ HostAsks \/ Reply \/ LoseReply \/ GiveUp \/ Fault

Spec == Init /\ [][Next]_vars

\* Interrupts are served and the main loop never stops, ...
DeviceFairness ==
  WF_vars(USART1_RX_Interrupt) /\ WF_vars(TIM2OVF_ISR) /\ WF_vars(MainLoop)

\* ... replies reach the host unless the line fails, and the host keeps asking.
HostFairness == WF_vars(HostAsks) /\ WF_vars(Reply) /\ WF_vars(GiveUp)

DeviceSpec == Spec /\ DeviceFairness
LiveSpec == DeviceSpec /\ HostFairness

-----------------------------------------------------------------------------
(* Properties.                                                             *)

RxTypeOK ==
  /\ RxStatus \in 0 .. 4
  /\ RxPointer \in BYTE /\ RxCount \in BYTE /\ plen \in 0 .. RXBUFFERSIZE
  /\ Comm_Len \in Index
  /\ RxBuffer \in [Index -> BYTE]
  /\ F_Comm \in {0, 1}

MainTypeOK ==
  /\ Command \in BYTE /\ pc \in pcs /\ clr \in 0 .. 3
  /\ args \in Seq(BYTE)

EnvTypeOK ==
  /\ TxBusy \in {0, 1}
  /\ Tim2Counter \in 1 .. RXTIMEOUT /\ Tim2Flag \in {0, 1}
  /\ wire \in Seq(BYTE) /\ asked \in Seq(BYTE) /\ executed \in Seq(BYTE)
  /\ faults \in 0 .. MaxFaults

\* Every variable keeps its type; the index of the check byte that checkpacket
\* reads stays inside the buffer.
TypeOK == RxTypeOK /\ MainTypeOK /\ EnvTypeOK

\* The receive interrupt stores every byte inside RxBuffer although nothing in
\* rec_pref .. rec_param compares RxPointer with RXBUFFERSIZE, and the whole of
\* a packet whose command has been recognised still fits.
NoOverrun ==
  /\ RxStatus # 4 => RxPointer < RXBUFFERSIZE
  /\ RxStatus = 3 => RxCount >= 1 /\ RxPointer + RxCount <= RXBUFFERSIZE

-----------------------------------------------------------------------------
(* Why the buffer does not overrun.  RxPointer is not 0 when a packet      *)
(* starts: handlecommand reopens reception without resetting it, and a     *)
(* clearRxBuff that bytes slip into leaves it behind.  Base bounds how far *)
(* the pointer can have been left behind at each statement: one packet     *)
(* when the loop idles, two once a second packet came in that way and was  *)
(* accepted, so that three packets always fit.                             *)

\* a longest packet is a third of the buffer at most
Longest == RXBUFFERSIZE \div 3

Base ==
  CASE pc \in {"exec", "send"} -> 2 * Longest
    [] pc = "put" -> 0
    [] pc = "clr1" -> 0
    [] pc = "clr2" -> IF clr = 0 THEN 2 * Longest ELSE 0
    [] OTHER -> Longest

\* The pointer stands at most the bytes of the packet received so far beyond
\* the base, and what the packet still lacks fits behind it.
PointerBounded ==
  /\ RxStatus = 0 => RxPointer <= Base
  /\ RxStatus \in {1, 2} => RxPointer <= Base + RxStatus
  /\ RxStatus = 3 => /\ RxCount >= 1 /\ RxPointer + RxCount <= Base + Longest
                     /\ RxCount <= plen /\ plen <= Longest
  /\ RxStatus = 4 => RxPointer <= Base + Longest

\* from the check to "RxStatus=0" the packet is shielded by status 4
Shielded ==
  /\ F_Comm = 1 => pc = "cmd" /\ RxStatus = 4
  /\ pc = "ack" => RxStatus = 4

RxInv == TypeOK /\ PointerBounded /\ Shielded

\* What a request asks for: its command and the parameters its handler reads.
Meaning(r) ==
  LET order == ReadOrder(r[3])
  IN  <<r[3]>> \o [i \in 1 .. Len(order) |-> r[order[i] + 1]]

\* Towards a host that waits, the device executes only what was asked, with the
\* parameters that were sent, at most once each time, and answers only then:
\* the early "RxStatus=0" of handlecommand, the two unlocked clearRxBuff and
\* whatever a faulty line left in the buffer never show.
Abstract == INSTANCE RequestReply
ImplementsRequestReply == Abstract!Spec

\* Once a waiting host has its reply, the receiver is as fresh as at power-up:
\* no request can find the pointer in the middle of the buffer.
CleanAfterReply ==
  HostWaits /\ asked = << >> /\ executed # << >> /\ wire = << >>
    => RxStatus = 0 /\ RxPointer = 0

-----------------------------------------------------------------------------
(* What a host that waits knows of the device while the line keeps the     *)
(* framing of its requests.                                                *)

\* The i-th byte of the request as it was received, or is about to be.
Arriving(i) == IF i <= RxPointer THEN RxBuffer[i - 1] ELSE wire[i - RxPointer]
Intact == \A i \in DOMAIN asked : Arriving(i) = asked[i]

\* The line loses a request before its first byte has arrived, or damages one byte behind
\* its command; how many replies it loses does not matter.
KeepsFraming ==
  \/ wire = asked /\ wire' = << >>
  \/ RxStatus = 3 /\ Intact /\ Len(wire') = Len(wire)
LineKeepsFraming == [][Fault => KeepsFraming]_vars

Resting ==
  /\ pc \in {"check", "cmd", "tim2"} /\ F_Comm = 0
  /\ RxStatus = 0 /\ RxPointer = 0 /\ wire = << >>
  /\ TxBusy = 1 => asked \in Requests /\ executed # << >>

\* Part of the request is in the buffer, in place, and the rest is still to come; at
\* most one of its bytes has been damaged, and none up to the command.
Receiving ==
  /\ pc \in {"check", "cmd", "tim2"} /\ F_Comm = 0 /\ TxBusy = 0
  /\ asked \in Requests /\ executed = << >>
  /\ RxPointer + Len(wire) = Len(asked)
  /\ \A i \in 1 .. 3 : Arriving(i) = asked[i]
  /\ \A i, j \in DOMAIN asked : Arriving(i) # asked[i] /\ Arriving(j) # asked[j] => i = j
  /\ RxStatus = IF RxPointer < 3 THEN RxPointer ELSE IF wire = << >> THEN 4 ELSE 3
  /\ RxStatus = 3 => plen = Len(asked) /\ RxCount = Len(wire)
  /\ RxStatus = 4 => Comm_Len = Len(asked) - 1

\* The request passed its check and is executed and answered; nothing arrives meanwhile.
Working ==
  /\ pc \notin {"check", "tim2"} /\ wire = << >>
  /\ asked \in Requests /\ Command = asked[3]
  /\ F_Comm = IF pc = "cmd" THEN 1 ELSE 0
  /\ RxStatus = IF pc \in {"cmd", "ack"} THEN 4 ELSE 0
  /\ TxBusy = IF pc \in {"clr1", "clr2"} THEN 1 ELSE 0
  /\ executed = << >> <=> pc \in {"cmd", "ack", "exec"}
  /\ pc \in {"cmd", "ack", "exec"} => Intact
  /\ RxPointer = IF pc \in {"cmd", "ack", "exec", "send"} THEN Len(asked) ELSE 0
  /\ pc = "exec" => /\ Len(args) <= Len(ReadOrder(Command))
                    /\ \A i \in DOMAIN args : args[i] = asked[ReadOrder(Command)[i] + 1]

Waiting == HostWaits => Resting \/ Receiving \/ Working

\* Until the line first fails the two clearRxBuff and the early "RxStatus=0" of
\* handlecommand find nothing to spoil: whenever a byte arrives the device is at rest or
\* receiving its request from the start of the buffer, and the handler reads the packet
\* that was sent.
WaitInv == faults = 0 => Waiting

\* From "RxStatus=0" on the receive interrupt would store what arrives over the packet
\* whose handler is still reading.  Towards a host that waits it never does: no step
\* changes RxBuffer between the check of a packet and the last of its parameters.
ParametersUntouched ==
  [][HostWaits /\ pc \in {"ack", "exec"} => UNCHANGED RxBuffer]_vars

\* A partly received packet swallows what follows it, but not for ever: when the
\* line has stopped failing, requests are executed and answered again and again.
Recovers == []<>(asked = << >> /\ executed # << >>)

\* timers.h: "RXTIMEOUT 2 //tick = 20 ms".  A packet whose sender has fallen
\* silent is abandoned after the receive timeout.
SilenceAbandons ==
  RxStatus \in {1, 2, 3} ~> (RxStatus \notin {1, 2, 3} \/ wire # << >>)
=============================================================================
