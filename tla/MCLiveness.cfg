SPECIFICATION FairSpec
CONSTANTS
  s1 = s1
  s2 = s2
  s3 = s3
  Series = {s1, s2, s3}
  MaxBytes = 2
  MaxQuarantineBytes = 2
  MaxAge = 3
  Reasons = {400}
  Legacy <- NoLegacy
  FaultKinds = {"write", "remove", "response"}
  MaxBatches = 2
  MaxTime = 0
  MaxFaults = 1
  TooLarge = {s3}
  Statuses = {200, 401}
  MaxCrashes = 1
INVARIANT UsableWhenOpen
PROPERTIES QueueDrains  OversizedWindowKept
CHECK_DEADLOCK FALSE
