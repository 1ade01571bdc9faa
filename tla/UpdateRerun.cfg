SPECIFICATION Spec
CONSTANTS
  MaxWrites = 1
  MaxFaults = 1
INVARIANTS
  Resumable
CHECK_DEADLOCK FALSE
