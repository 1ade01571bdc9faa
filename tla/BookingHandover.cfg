SPECIFICATION Spec
CONSTANTS
  Users = {admin, ann}
  Founder = admin
  Rooms = {r1}
  NoRoom = NoRoom
  Reservations = {b1}
  Requests = {q1, q2}
  LastSlot = 1
  MaxSlots = 1
  MaxRevision = 3
SYMMETRY BookingSymmetry
INVARIANTS
  AdminSurvives
  HistoryChain
  PendingIsOwners
PROPERTIES
  OwnerChangesByConsent
  ExpireOnlyDead
CHECK_DEADLOCK FALSE
