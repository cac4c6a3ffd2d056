-------------------------- MODULE MCSerialSession --------------------------
(***************************************************************************)
(* The commands of MCSerialHost over two attempts to open the port.        *)
(***************************************************************************)
EXTENDS MCSerialHost, SerialSession
=============================================================================
