SPECIFICATION StartSpec
CONSTANTS Starts = {p1, p2, p3}
          Addresses = {u1, u2}
          MaxFaults = 2
          Missing = Missing
          Damaged = Damaged
          Nothing = Nothing
SYMMETRY StartSymmetry
INVARIANTS FilesAreTrue NoticeKept
PROPERTIES OpensOwn
CHECK_DEADLOCK FALSE
