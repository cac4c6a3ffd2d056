-------------------------------- MODULE Crc8 --------------------------------
(***************************************************************************)
(* The check byte of every packet: comp_crc of the firmware's commands.c,  *)
(* least significant bit first, polynomial 0x18 with the carry bit 0x80.   *)
(***************************************************************************)
EXTENDS Integers, Sequences

\* CRC ^ 0x18: bits 3 and 4 are inverted
XorPoly(c) == LET m == (c \div 8) % 4 IN c - 8 * m + 8 * (3 - m)

\* one pass of the loop of comp_crc, on the check byte and the data byte
ShiftBit == [s \in (0 .. 255) \X (0 .. 255) |->
  << IF (s[1] + s[2]) % 2 = 1 THEN XorPoly(s[1]) \div 2 + 128 ELSE s[1] \div 2,
     s[2] \div 2 >>]

\* what one data byte does to the check byte
comp_crc(crc, b) ==
  LET after[j \in 0 .. 8] == IF j = 0 THEN <<crc, b>> ELSE ShiftBit[after[j - 1]]
  IN  after[8][1]

\* compCRC and checkpacket both start from 0
compCRC(packet) ==
  LET crc[i \in 0 .. Len(packet)] ==
        IF i = 0 THEN 0 ELSE comp_crc(crc[i - 1], packet[i])
  IN  crc[Len(packet)]
=============================================================================
