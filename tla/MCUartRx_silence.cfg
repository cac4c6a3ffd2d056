SPECIFICATION DeviceSpec
CONSTANTS
  RXBUFFERSIZE = 128
  RXPREFIX = 49
  NetAddr = 1
  RXTIMEOUT = 2
  MaxFaults = 1
  HostWaits = TRUE
  COMMANDLIST <- MCCOMMANDLIST
  Crc <- compCRC
  ReadOrder <- MCReadOrder
  Requests <- TwoRequests
  Noise <- NoiseBytes
PROPERTY SilenceAbandons
