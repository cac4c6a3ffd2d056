SPECIFICATION SessionSpec
CONSTANTS
  Commands <- MCCommands
  TxBytes <- MCTxBytes
  RxBytes <- MCRxBytes
  MaxCalls = 3
  MaxEarly = 1
  MaxFaults = 1
  EarlyTimeouts = {"tx", "rx"}
  MaxSessions = 2
INVARIANTS OrderInv StepInv CorrectInStep AtMostOnce OneAtATime ResultsAdvance QuietResyncs
CHECK_DEADLOCK FALSE
