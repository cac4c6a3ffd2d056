SPECIFICATION Spec
CONSTANT MaxPulses = 6
INVARIANT EveryPulseCounted
