SPECIFICATION Spec
CONSTANTS
  s1 = s1
  s2 = s2
  s3 = s3
  Series = {s1, s2}
  MaxBytes = 2
  MaxQuarantineBytes = 2
  MaxAge = 3
  Reasons = {400}
  Legacy <- NoLegacy
  FaultKinds = {"write"}
  MaxBatches = 2
  MaxTime = 1
  MaxFaults = 1
  TooLarge = {}
  Statuses = {200, 400}
  MaxCrashes = 0
INVARIANT FinalFlushComplete
CHECK_DEADLOCK FALSE
