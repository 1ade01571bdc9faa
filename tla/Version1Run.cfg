SPECIFICATION Spec
CONSTANTS Users = {a, u}
          Admin = a
          Rooms = {r1}
          FirstRooms = {}
          Bookings = {b1, b2}
          Browsers = {w1, w2}
          LastSlot = 2
          MaxChanges = 1
          None = None
SYMMETRY Version1Symmetry
INVARIANTS SlotsAreBookings
PROPERTIES RevokedNeverWrites KeepsCalendar
CHECK_DEADLOCK FALSE
