\* Failing commands, users and other schedules, no restart.
SPECIFICATION Spec
CONSTANTS
  z1 = z1  z2 = z2  A = A  B = B  NoOcc = NoOcc
  Zones <- MCZones
  Occurrences = {A, B}
  Plans <- PlansTwoZones
  Gap = 1  StartTimeout = 1  Confirm = 1  EarlyTolerance = 0
  MissedTolerance = 2  Proximity = 1  MaxAttempts = 3
  RetryDelays <- Delays  StopDelays <- Delays
  SkipWhenWet = TRUE  HonorDelay = FALSE  GuardEnabled = TRUE  SkipFreezing = TRUE
  BlockUnknown = FALSE  RainCutPauses = FALSE  FreezeCutPauses = FALSE
  AbortOnExternal = FALSE
  UserOps = {"stop", "run"}
  Faults = {"start", "stop", "reject", "unresolved"}
  SourceStates = {"on", "off"}
  Weathers <- RainOrFrost
  MaxTime = 6  MaxDisturbances = 4  MaxInbox = 1
INVARIANTS TypeOK TimerMatchesState OnlyCurrentStepRuns StartsOnlyPendingSteps
           StopWins HistoryIsFinal OneRecordPerOccurrence
PROPERTIES CompletesOnTheClock OutcomesAreFinal
CHECK_DEADLOCK FALSE
