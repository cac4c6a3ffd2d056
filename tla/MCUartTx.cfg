SPECIFICATION LiveSpec
CONSTANTS
  TXBUFFERSIZE = 12
  TXPREFIX = 62
  NetAddr = 1
  Crc <- compCRC
  Replies <- MCReplies
INVARIANTS TxInv BusyMeansSending
PROPERTIES ImplementsFrameSender EveryReplyEnds HandlerReturns
