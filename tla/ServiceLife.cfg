SPECIFICATION FairSpec
CONSTANTS
  Processes = {p1, p2}
  Stoppers = {s1}
  Requests = {q1}
  Nobody = Nobody
  MaxFaults = 2
INVARIANTS
  ServingOwnsPid
  StopIsTrue
PROPERTIES
  SetupOnce
  SignalsTakeEffect
CHECK_DEADLOCK FALSE
