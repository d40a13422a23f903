SPECIFICATION Spec
CONSTANTS
  TimeZones <- MCZones  Days <- MCDays  DayLength = 6  Calendar <- MCCalendar
  Sun <- MCSun  Rules = {1, 2}  RuleOf <- MCRules  Instants <- MCInstants
  Programs = {1, 2, 3}  Initial <- MCInitial  Edits <- MCEdits  Block <- MCBlock
  Priority <- MCPriority  SkipLate = {2}
  Tolerance = 2  Retry = 1  Horizon = 8  Native = FALSE
  SkipWhenWet = TRUE  HonorDelay = TRUE  GuardEnabled = TRUE  SkipFreezing = TRUE
  BlockUnknown = TRUE
  Observations <- MCObservations
  UserOps = {"manual", "stop", "recalculate", "enable", "edit", "create", "delete", "crash"}
  NoRun = NoRun  ManualRun = ManualRun
  MaxTime = 10  MaxDisturbances = 1
INVARIANTS TypeOK FirstReading NothingIsForgotten SettledInTime NoPhantoms WindowIsComplete
PROPERTIES ClaimedOnce TimeGoesOn
CHECK_DEADLOCK FALSE
