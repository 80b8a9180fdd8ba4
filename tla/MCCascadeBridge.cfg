CONSTANTS
  a = a
  None = None
  Type <- MCType
  Discoverable <- MCDiscoverable
  Confirmations = 2
  Ttl = 1
  Page = 1
  MaxTime = 2
  MaxVerdicts = 2
  MaxBoots = 1
SPECIFICATION Spec
VIEW Relevant
INVARIANTS
  TypeOK
  Qualified
  AgreesUnlessClashed
  VerdictsApplied
CHECK_DEADLOCK FALSE
