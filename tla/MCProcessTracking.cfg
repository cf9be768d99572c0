SPECIFICATION TrackingSpec
CONSTANTS
  None = None
  Pids = {1, 2}
  RegPids = {1, 2}
  Members = {1}
  Runtimes = {}
  MaxForks = 3
  MaxOoms = 1
  MaxNow = 0
  Cgroups = {1, 2}
  ContainerIds = {"a", "b"}
  IdOf <- MCOwnIds
  Unpersisted = {}
  MaxBegin = 3
  MaxCount = 3
  Scenarios <- OrderedScenarios
  MaxConnects = 1
INVARIANTS
  
  ProcessesCurrent
  OomKillsReal
CHECK_DEADLOCK FALSE
