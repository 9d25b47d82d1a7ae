SPECIFICATION Spec
CONSTANTS
  N = 2
  MaxSignals = 2
  MaxFaults = 1
  MaxChanges = 1
INVARIANTS
  VerdictEarned
  ExitMatchesFiles
  CoveredSignals
PROPERTIES
  ImplementsRecord
CHECK_DEADLOCK FALSE
