SPECIFICATION Spec
CONSTANTS
  s1 = s1
  s2 = s2
  s3 = s3
  Series = {s1, s2, s3}
  MaxBytes = 2
  MaxQuarantineBytes = 1
  MaxAge = 1
  Reasons = {400}
  Legacy <- OneLegacy
  FaultKinds = {"write", "rollback", "remove", "rmdir", "list", "recover", "read", "response"}
  MaxBatches = 2
  MaxTime = 2
  MaxFaults = 1
  TooLarge = {}
  Statuses = {200, 400, 401, 503}
  MaxCrashes = 1
INVARIANTS CommittedIntact AcceptedAccounted NoSilentLoss CapacityBound DuplicatesNeedFailure
PROPERTIES InOrder 
SYMMETRY Symmetry
CHECK_DEADLOCK FALSE
