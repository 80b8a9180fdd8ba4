SPECIFICATION Spec
CONSTANTS
  Loop <- MCLoop
  Key = {k1}
  QueueMax = 2
  BatchLimit = 2
  TaskMax = 1
  Enqueued = 2
  Stale = 1
  Cooldown = 1
  MaxSignals = 3
  MaxStuck = 1
INVARIANTS InFlightExact CountedOnce
PROPERTIES CooldownHonoured StaleLoopReplaced
