SPECIFICATION Spec
CONSTANTS
  N = 1
  MaxSignals = 1
  MaxFaults = 0
  MaxChanges = 0
INVARIANTS
  SignalsAreCanonical
CHECK_DEADLOCK FALSE
