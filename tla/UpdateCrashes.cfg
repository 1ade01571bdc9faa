SPECIFICATION FairSpec
CONSTANTS
  MaxWrites = 2
  MaxFaults = 3
INVARIANTS
  RunsWhole
  EndsWhole
PROPERTIES
  ImplementsUpgrade
  Recovers
CHECK_DEADLOCK FALSE
