SPECIFICATION SetupSpec
CONSTANTS
  Plan <- FullPlan
  MaxFaults = 2
  MaxInterrupts = 1
  Callers = {"run", "other"}
  Command = "run"
  Paths = {"spark", "cli"}
  Commits = {"new", "old", "v1"}
  Locks <- MCLocks
  Items = 2
  Infos = {1}
  MaxTroubles = 2
INVARIANTS
  TypeOK
  RankedIsEarned
  ExitMatchesArtifacts
  FailureKeepsEarlierStages
  OneFaultIsConsistent
  StageCheckoutsPinned
  StageDepsInPlace
  RefusalHasACause
PROPERTIES
  InterruptFreezesArtifacts
CHECK_DEADLOCK FALSE
