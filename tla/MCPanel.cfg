SPECIFICATION PanelSpec
CONSTANTS
  EEBUFFERSIZE = 13
  Voltages <- MCVoltages
  Times <- MCTimes
  Cals <- MCCals
  Counts <- MCCounts
INVARIANTS Coherent NeverBeyondDac EepromInv ShowsSettings ShowsCount RowsCurrent
PROPERTY ImplementsParamStore
