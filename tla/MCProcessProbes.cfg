SPECIFICATION ProbesSpec
CONSTANTS
  Pids = {1}
  Members = {1, 2}
  Runtimes = {"python", "nodejs"}
  MaxForks = 2
  MaxOoms = 1
  MaxNow = 3
INVARIANTS
  RuntimesOwn
  OomMarkOwn
CHECK_DEADLOCK FALSE
