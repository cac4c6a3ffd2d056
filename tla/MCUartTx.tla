------------------------------ MODULE MCUartTx ------------------------------
(***************************************************************************)
(* The transmitter with the check byte of the device and three replies:    *)
(* a long one, a short one and the OK response of a set command.           *)
(***************************************************************************)
EXTENDS UartTx, Crc8

DataReply == <<192, 1, 2, 3, 4, 62, 0, 0, 255>>
VTReply   == <<196, 184, 11, 5, 0>>
OKReply   == <<197, 0>>
MCReplies == {DataReply, VTReply, OKReply}
=============================================================================
