SPECIFICATION LiveSpec
CONSTANTS
  c1 = c1
  c2 = c2
  gg = gg
  ss = ss
  v1 = v1
  v2 = v2
  d1 = d1
  d2 = d2
  d3 = d3
  w1 = w1
  w2 = w2
  NoPacket = NoPacket
  Series = {c1, c2, gg, ss}
  Workers = {w1, w2}
  Packets = {d1, d2, d3}
  NameOf <- MCNameOf
  KindOf <- MCKindOf
  StateBytes <- MCStateBytes
  BaselineBytes <- MCBaselineBytes
  BytesOf <- MCBytesOf
  LinesOf <- MCLinesOf
  PerMetricCap = 1
  GlobalCap = 2
  TTL = 1
  PruneEvery = 1
  ValueBytes = 1
  MaxBytes = 4
  MaxSetValues = 1
  PacketQueueSize = 2
  PacketQueueMaxBytes = 3
  Scenarios <- MCScenarios
INVARIANT PacketsAccounted
INVARIANT LimiterExact
 
PROPERTY DrainCompletes
CHECK_DEADLOCK FALSE
