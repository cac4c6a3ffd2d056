SPECIFICATION Spec
CONSTANTS
  RXBUFFERSIZE = 12
  RXPREFIX = 1
  NetAddr = 2
  RXTIMEOUT = 1
  MaxFaults = 0
  HostWaits = FALSE
  COMMANDLIST <- SmallTable
  Crc <- NoCheck
  ReadOrder <- SmallReadOrder
  Requests <- SmallRequests
  Noise = {0}
INVARIANTS NoOverrun RxInv
