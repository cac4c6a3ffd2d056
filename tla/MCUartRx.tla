------------------------------ MODULE MCUartRx ------------------------------
(***************************************************************************)
(* The receiver with the command table, the addresses and the check byte   *)
(* of the device.                                                          *)
(***************************************************************************)
EXTENDS UartRx, TLC, Crc8

DATA_READ == 192   \* 0xC0
CAL_READ  == 194
CAL_SET   == 195
VT_READ   == 196
VT_SET    == 197

MCCOMMANDLIST == DATA_READ :> 4 @@ CAL_READ :> 4 @@ CAL_SET :> 12
                   @@ VT_READ :> 4 @@ VT_SET :> 8

MCReadOrder(c) ==
  IF c = VT_SET THEN <<4, 3, 5, 6>>
  ELSE IF c = CAL_SET THEN [i \in 1 .. 8 |-> i + 2] ELSE << >>

Packet(body) == LET p == <<RXPREFIX, NetAddr>> \o body IN Append(p, compCRC(p))

ReadRequest   == Packet(<<DATA_READ>>)
SetRequest    == Packet(<<VT_SET, 184, 11, 5, 0>>)           \* 3000 mV, 5 s
CalRequest    == Packet(<<CAL_SET, 16, 0, 0, 0, 0, 0, 0, 1>>)
\* a packet whose parameters look like the start of a packet
NestedRequest == Packet(<<VT_SET, 49, 1, VT_SET, 2>>)

AllRequests  == {ReadRequest, SetRequest, CalRequest}
TwoRequests  == {ReadRequest, SetRequest}

\* A device with the shortest packets there are, a buffer of just three of them,
\* and a check byte that lets misaligned packets through.
SmallTable        == 3 :> 4
SmallReadOrder(c) == << >>
NoCheck(p)        == 3
SmallRequests     == {<<1, 2, 3, 3>>, <<1, 2>>}   \* the second one breaks off

NoiseBytes   == {0, RXPREFIX, NetAddr, VT_SET}
=============================================================================
