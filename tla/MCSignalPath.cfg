SPECIFICATION Spec
CONSTANTS
  Resource <- MCResource
  ClusterOf <- MCClusterOf
  Scene <- MCScene
  DedupeWindow = 1
  MaxWindow = 2
  TransientWindow = 2
  DampenWindow = 2
  DampenThreshold = 2
  MinThreshold = 1
  DeepSignals = 2
  MaxTime = 2
INVARIANTS TypeOK  KeptOnce SevereDroppedAsNoise 
CHECK_DEADLOCK FALSE
