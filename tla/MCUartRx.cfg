SPECIFICATION LiveSpec
CONSTANTS
  RXBUFFERSIZE = 128
  RXPREFIX = 49
  NetAddr = 1
  RXTIMEOUT = 1
  MaxFaults = 1
  HostWaits = TRUE
  COMMANDLIST <- MCCOMMANDLIST
  Crc <- compCRC
  ReadOrder <- MCReadOrder
  Requests <- AllRequests
  Noise <- NoiseBytes
INVARIANTS CleanAfterReply WaitInv
PROPERTIES ParametersUntouched ImplementsRequestReply Recovers
