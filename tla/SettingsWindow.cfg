SPECIFICATION SettingsSpec
CONSTANTS
  MaxPulses = 6
  MaxSets = 2
INVARIANTS NeverMoreThanSent LosslessUntilLate WindowEndsAtWakeup PulseInv SecondCountIsClean
