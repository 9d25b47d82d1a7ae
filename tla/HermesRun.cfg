SPECIFICATION Spec
CONSTANTS
  Limits = {1, 3}
  DeclaredWall = 2
  DryTimeout = 1
  EvalTimeout = 2
  Slack = 1
  Overrun = 1
  Pair = TRUE
INVARIANTS
  PassIsEarned
  BrokenEvidenceIsNoVerdict
  BudgetFitsProfile
  PhasesAgreeWithFiles
CHECK_DEADLOCK FALSE
