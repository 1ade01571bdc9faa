SPECIFICATION Spec
CONSTANTS Users = {a, b}
          Tabs = {t1, t2}
          Idle = 1
          Absolute = 2
          MaxLogins = 2
          MaxTime = 3
          MaxRevocations = 1
          None = None
SYMMETRY SessionSymmetry
INVARIANT WritesAsShown
PROPERTY SessionEnds
CHECK_DEADLOCK FALSE
