SPECIFICATION Spec
CONSTANTS
  Configurations <- MCConfigurations
  Payloads <- MCPayloads
  Paths = {"openai", "native-chat"}
  Answers <- MCAnswers
  MaxRequests = 2
  MaxRejected = 1
  MaxBody = 6
  TailSize = 4
  Registry <- MCRegistry
  Current <- MCCurrent
  Worst = 1000
  Procs = {"run", "cli"}
  Files = {"results", "comparison.json", "leaderboard.json"}
  Data <- MCAnnounced
  MaxErrors = 1
  Archive <- MCArchive
  Live = 19
  LiveResult <- MCLiveResult
  Outputs <- MCOutputs
  MaxCompares = 2
  MaxCrashes = 1
INVARIANTS RowsAccepted OffIsAuthoritative CutsDontMatter DisconnectIsNoFault BoardIsEarned VerdictSurvives AloneIsConsistent
PROPERTY FilesAreRegisters
CHECK_DEADLOCK FALSE
