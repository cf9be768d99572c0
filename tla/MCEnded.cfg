SPECIFICATION LiveSpec
CONSTANTS
  None = None
  Pids = {1, 2}
  RegPids = {1, 2}
  Members = {1}
  Runtimes = {}
  MaxForks = 2
  MaxOoms = 0
  MaxNow = 0
  Cgroups = {1, 2}
  ContainerIds = {"a", "b"}
  IdOf <- MCSameIds
  Unpersisted = {}
  MaxBegin = 3
  MaxCount = 3
  Scenarios <- LossyScenarios
  MaxConnects = 1
INVARIANT RegistryConsistent
PROPERTY ContainersForgotten
CHECK_DEADLOCK FALSE
