SPECIFICATION TrackingSpec
CONSTANTS
  t1 = t1
  s1 = s1
  s2 = s2
  a1 = a1
  a2 = a2
  p1 = p1
  p2 = p2
  None = None
  Threads = {t1}
  Tgid <- MCTgid
  Sockets = {s1}
  Fds = {3}
  Protos = {"tcp"}
  Ports = {a1}
  Peers = {p1, p2}
  MaxTime = 2
  TableCids <- Cids
  Addresses <- Ports
  Remotes <- Peers
  Skipped = {}
  Stamps <- MCStamps
  MaxConns = 2
  MaxFailed = 1
  MaxSent = 1
  MaxCounted = 3
  Scenarios <- ShortScenarios
INVARIANTS
  OpenIsReachable
  
  TrafficCounted
  CloseIsOwn
  
CHECK_DEADLOCK FALSE
