SPECIFICATION Spec
CONSTANTS MaxFaults = 3
          MaxWrites = 1
          NoFile = NoFile
INVARIANTS CommittedIsWhole TaskIsRemembered
PROPERTIES EnabledIsSafe Settles
CHECK_DEADLOCK FALSE
