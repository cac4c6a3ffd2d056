SPECIFICATION Spec
CONSTANTS
  Commands <- MCCommands
  TxBytes <- MCTxBytes
  RxBytes <- MCRxBytes
  MaxCalls = 3
  MaxEarly = 1
  MaxFaults = 1
  EarlyTimeouts = {"rx"}
INVARIANT CorrectAnswer
