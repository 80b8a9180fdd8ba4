CONSTANTS
  k1 = k1
  s1 = s1
  s2 = s2
  s3 = s3
  s4 = s4
  c1 = c1
  t1 = t1
  o1 = o1
  f1 = f1
  f2 = f2
  None = None
  Api = Api
  Key <- MCKey
  Id = {1, 2, 3, 4}
  Sig <- MCSig
  Class <- MCClass
  Text <- MCText
  Option <- MCOption
  Feeder <- TwoFeeders
  Feeds <- MCFeeds
  MaxSignals = 2
  MaxInfer = 1
  MaxOptions = 1
  EscalateAt = 2
  LoadLimit = 2
  MaxFeeds = 2
  MaxCloses = 1
SPECIFICATION Spec
VIEW WithoutRows
SYMMETRY FeederSymmetry
INVARIANTS
  TypeOK
  SignalRecorded
  SignalsOvershoot
  NotifiedPerFeeder
  DuplicatesBounded
PROPERTIES
  EvidenceGrows
CHECK_DEADLOCK FALSE
