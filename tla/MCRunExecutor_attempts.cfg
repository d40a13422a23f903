\* A pause in between lets a step be commanded once more.
SPECIFICATION Spec
CONSTANTS
  z1 = z1  z2 = z2  A = A  B = B  NoOcc = NoOcc
  Zones <- MCZones
  Occurrences = {A, B}
  Plans <- PlansTwoZones
  Gap = 1  StartTimeout = 1  Confirm = 1  EarlyTolerance = 0
  MissedTolerance = 2  Proximity = 1  MaxAttempts = 3
  RetryDelays <- Delays  StopDelays <- Delays
  SkipWhenWet = TRUE  HonorDelay = TRUE  GuardEnabled = TRUE  SkipFreezing = TRUE
  BlockUnknown = FALSE  RainCutPauses = TRUE  FreezeCutPauses = TRUE
  AbortOnExternal = FALSE
  UserOps = {"pause", "resume"}
  Faults = {"start"}
  SourceStates = {"on", "off"}
  Weathers <- FairOnly
  MaxTime = 6  MaxDisturbances = 4  MaxInbox = 1
INVARIANT AttemptsBounded
CHECK_DEADLOCK FALSE
