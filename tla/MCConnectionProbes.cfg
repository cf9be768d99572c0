SPECIFICATION ProbesSpec
CONSTANTS
  t1 = t1
  t2 = t2
  s1 = s1
  s2 = s2
  a1 = a1
  a2 = a2
  p1 = p1
  None = None
  Threads <- MCThreads
  Tgid <- MCTgid
  Sockets <- MCSockets
  Fds = {3}
  Protos = {"tcp", "udp"}
  Ports <- MCPorts
  Peers = {p1}
  MaxTime = 2
SYMMETRY Symmetry
INVARIANTS
  ConnectArgsTransient
  
  OpenIsOwn
  EstablishedTracked
CHECK_DEADLOCK FALSE
