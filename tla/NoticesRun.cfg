SPECIFICATION NoticesSpec
CONSTANTS
  Users = {admin, ann, bob}
  Founder = admin
  Rooms = {r1}
  NoRoom = NoRoom
  Reservations = {b1}
  Requests = {q1}
  LastSlot = 2
  MaxSlots = 1
  MaxRevision = 4
  MaxAge = 1
  Retention = 2
  MaxSwitches = 1
SYMMETRY NoticesSymmetry
INVARIANTS
  AckedStaysGone
  NoticesAreTrue
PROPERTIES
  NoticeStays
CHECK_DEADLOCK FALSE
