CONSTANTS
  m1 = m1
  m2 = m2
  m3 = m3
  m4 = m4
  m5 = m5
  EvictionOrder <- MCOrder
  Memory <- MCMemory
  TotalMemory = 100
  BudgetGreen = 50
  BudgetYellow = 25
  AvailGreen = 80
  AvailYellow = 50
  MinShed = 1
  MinRestore = 4
  Reds = {0, 1}
  Yellows = {0, 1}
  Forcing = TRUE
SPECIFICATION FairSpec
INVARIANTS
  TypeOK
  NoModelLost
  SmallestLast
PROPERTIES
  Paced
  RestoresWhileGreen
  RedAvailabilityDrains
