SPECIFICATION Spec
CONSTANTS
  Users = {admin}
  Founder = admin
  Rooms = {r1}
  NoRoom = NoRoom
  Reservations = {b1, b2}
  Requests = {}
  LastSlot = 3
  MaxSlots = 2
  MaxRevision = 2
SYMMETRY BookingSymmetry
INVARIANTS
  SlotLedger
  NoDoubleBooking
  BookedRoomsStay
PROPERTIES
  ImplementsCalendar
CHECK_DEADLOCK FALSE
