SPECIFICATION Spec
CONSTANTS
  a = a
  b = b
  http = http
  known = known
  other = other
  unknown = unknown
  Sizes = {1, 2}
  MaxSpoolSize = 2
  MaxScrapes = 4
  MaxErrors = 1
  MaxKills = 1
  Containers = {a, b}
  Collectors <- MCCollectors
  Maps <- MCMaps
  ContainersOf <- MCContainersOf
  Profiling = TRUE
INVARIANTS
  SpooledAccounted
  StatsApplied
PROPERTIES
  SpoolDrains
  ScrapesReturn
