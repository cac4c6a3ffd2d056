---------------------------- MODULE MCSerialHost ----------------------------
(***************************************************************************)
(* A polled request, a set command and a second read whose answer is       *)
(* shorter.                                                                *)
(***************************************************************************)
EXTENDS SerialHost

MCCommands == {"DATA_READ", "VT_SET", "VT_READ"}
MCTxBytes(c) == IF c = "VT_SET" THEN 4 ELSE 0
MCRxBytes(c) == IF c = "DATA_READ" THEN 8 ELSE IF c = "VT_READ" THEN 4 ELSE 1
=============================================================================
