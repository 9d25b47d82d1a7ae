SPECIFICATION SetupSpec
CONSTANTS
  Plan <- ShortPlan
  MaxFaults = 0
  MaxInterrupts = 0
  Callers = {"run"}
  Command = "run"
  Paths = {"spark", "cli"}
  Commits = {"new", "v1"}
  Locks <- MCAlone
  Items = 1
  Infos = {1}
  MaxTroubles = 0
INVARIANTS
  ExitOneIsVerdict
CHECK_DEADLOCK FALSE
