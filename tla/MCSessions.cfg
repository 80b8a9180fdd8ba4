SPECIFICATION Spec
CONSTANTS
  Session <- MCSession
  Request <- MCRequest
  BatchMax = 2
  Cap = 2
  Pool = 1
  Slots = 2
  MaxRaised = 2
INVARIANTS TypeOK LiveRefused Routed
PROPERTY CapClears
