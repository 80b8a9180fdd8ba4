CONSTANTS
  k1 = k1
  s1 = s1
  s2 = s2
  c1 = c1
  t1 = t1
  o1 = o1
  None = None
  Key <- MCKey
  Id = {1, 2, 3}
  Sig <- MCSig
  Class <- MCClass
  Text <- MCText
  Option <- MCOption
  SignalSeverity <- MCSeverity
  MaxSignals = 2
  MaxInfer = 2
  MaxOptions = 1
  EscalateAt = 2
  LoadLimit = 1
  QueueCap = 2
  BatchMax = 2
  Acks = {TRUE, FALSE}
  MaxCalls = 4
  MaxBoots = 2
SPECIFICATION FairSpec
INVARIANTS
  TypeOK
  DbBehindMemory
  WriteBehindComplete
PROPERTIES
  ClosedStaysClosed
  ResolutionReachesTable
  RestartRestores
CHECK_DEADLOCK FALSE
