--------------------------- MODULE BookingProofs ---------------------------
(***************************************************************************)
(* Theorems about Booking and Notices, for every set of users, rooms,      *)
(* bookings and requests, for every bound, and for every two ages in the   *)
(* order of the code's.  The second part shows that what is acknowledged   *)
(* stays gone, that what is not stays in the list, and that it is true.    *)
(***************************************************************************)
EXTENDS Notices, WellFoundedInduction, TLAPS

\* A live booking is a row of the table, not an id still free.
LEMMA ActiveIsBooking ==
    ASSUME TypeOK, NEW r \in Reservations, IsActive(r)
    PROVE  reservations[r] \in Booking
BY DEF TypeOK, IsActive, None

LEMMA PendingIsRequest ==
    ASSUME TypeOK, NEW q \in Requests, IsPending(q)
    PROVE  handover_requests[q] \in RequestRow
BY DEF TypeOK, IsPending, None

LEMMA InsertEventType ==
    ASSUME TypeOK, NEW r \in Reservations, NEW u \in Users,
           NEW type \in {"created", "updated", "cancelled", "handover"},
           reservations'[r] \in Booking,
           insert_event(r, u, type)
    PROVE  reservation_events' \subseteq EventRow
<1>1. reservations[r] \in Booking \cup {None}
  BY DEF TypeOK
<1>2. reservations'[r].revision \in Nat \ {0}
  BY DEF Booking
<1>3. [resv |-> r, actor |-> u, revision |-> reservations'[r].revision, type |-> type,
       before |-> reservations[r], after |-> reservations'[r]] \in EventRow
  BY <1>1, <1>2 DEF EventRow
<1>. QED
  BY <1>3 DEF TypeOK, insert_event

LEMMA ApplyHandoverType ==
    ASSUME TypeOK, NEW r \in Reservations, NEW u \in Users, NEW to \in Users,
           reservations[r] \in Booking,
           apply_handover(u, r, to)
    PROVE  /\ reservations' \in [Reservations -> Booking \cup {None}]
           /\ reservations'[r] \in Booking
           /\ reservation_events' \subseteq EventRow
           /\ UNCHANGED reservation_slots
<1>1. /\ reservations' \in [Reservations -> Booking \cup {None}]
      /\ reservations'[r] \in Booking
  BY DEF TypeOK, apply_handover, Booking
<1>. QED
  BY <1>1, InsertEventType DEF apply_handover

LEMMA CloseType ==
    ASSUME TypeOK, NEW Q, \A q \in Q : q \in Requests /\ IsPending(q),
           NEW how \in Closed
    PROVE  Close(Q, how) \in [Requests -> RequestRow \cup {None}]
<1>1. ASSUME NEW q \in Requests
      PROVE  Close(Q, how)[q] \in RequestRow \cup {None}
  <2>1. CASE q \in Q
    <3>1. handover_requests[q] \in RequestRow
      BY <2>1, PendingIsRequest
    <3>. QED
      BY <2>1, <3>1 DEF Close, RequestRow, Closed
  <2>2. CASE q \notin Q
    BY <2>2 DEF Close, TypeOK
  <2>. QED
    BY <2>1, <2>2
<1>. QED
  BY <1>1 DEF Close

LEMMA InitType == Init => TypeOK
BY ConstantsAssumption DEF Init, TypeOK, Account

LEMMA StepType == TypeOK /\ [Next]_vars => TypeOK'
<1>. SUFFICES ASSUME TypeOK, [Next]_vars PROVE TypeOK'
  OBVIOUS
<1>. USE DEF TypeOK
<1>1. ASSUME NEW u \in Users, NEW r \in Reservations, NEW m \in Rooms,
             NEW s \in 1 .. LastSlot, NEW n \in 1 .. MaxSlots,
             create_reservation(u, r, m, s, n)
      PROVE  TypeOK'
  <2>1. [status |-> "active", room |-> m, start |-> s, len |-> n,
         owner |-> u, revision |-> 1] \in Booking
    BY ConstantsAssumption DEF Booking
  <2>2. reservations' \in [Reservations -> Booking \cup {None}] /\ reservations'[r] \in Booking
    BY <1>1, <2>1 DEF create_reservation
  <2>3. reservation_slots' \subseteq SlotRow
    BY <1>1, ConstantsAssumption DEF create_reservation, insert_slots, slot_times, SlotRow
  <2>4. reservation_events' \subseteq EventRow
    BY <1>1, <2>2, InsertEventType DEF create_reservation
  <2>. QED
    BY <1>1, <2>2, <2>3, <2>4 DEF create_reservation, accountVars, handoverVars
<1>2. ASSUME NEW u \in Users, NEW r \in Reservations, NEW m \in Rooms,
             NEW s \in 1 .. LastSlot, NEW n \in 1 .. MaxSlots, NEW e \in 1 .. MaxRevision,
             update_reservation(u, r, e, m, s, n)
      PROVE  TypeOK'
  <2>1. reservations[r] \in Booking
    BY <1>2, ActiveIsBooking DEF update_reservation, load_mutable_reservation
  <2>2. reservations' \in [Reservations -> Booking \cup {None}] /\ reservations'[r] \in Booking
    BY <1>2, <2>1, ConstantsAssumption DEF update_reservation, Booking
  <2>3. reservation_slots' \subseteq SlotRow
    BY <1>2, ConstantsAssumption
    DEF update_reservation, insert_slots, slot_times, delete_slots, SlotRow
  <2>4. reservation_events' \subseteq EventRow
    BY <1>2, <2>2, InsertEventType DEF update_reservation
  <2>. QED
    BY <1>2, <2>2, <2>3, <2>4 DEF update_reservation, accountVars, handoverVars
<1>3. ASSUME NEW u \in Users, NEW r \in Reservations, NEW e \in 1 .. MaxRevision,
             cancel_reservation(u, r, e)
      PROVE  TypeOK'
  <2>1. reservations[r] \in Booking
    BY <1>3, ActiveIsBooking DEF cancel_reservation, load_mutable_reservation
  <2>2. reservations' \in [Reservations -> Booking \cup {None}] /\ reservations'[r] \in Booking
    BY <1>3, <2>1, ConstantsAssumption DEF cancel_reservation, Booking
  <2>3. reservation_events' \subseteq EventRow
    BY <1>3, <2>2, InsertEventType DEF cancel_reservation
  <2>. QED
    BY <1>3, <2>2, <2>3 DEF cancel_reservation, delete_slots, accountVars, handoverVars
<1>4. ASSUME NEW u \in Users, NEW r \in Reservations, NEW to \in Users,
             assign_handover(u, r, to)
      PROVE  TypeOK'
  <2>1. HandoverAllowed(u, r, to) /\ apply_handover(u, r, to)
    BY <1>4 DEF assign_handover
  <2>2. reservations[r] \in Booking
    BY <2>1, ActiveIsBooking DEF HandoverAllowed, load_mutable_reservation
  <2>3. /\ reservations' \in [Reservations -> Booking \cup {None}]
        /\ reservation_events' \subseteq EventRow
        /\ UNCHANGED reservation_slots
    BY <2>1, <2>2, ApplyHandoverType
  <2>4. handover_requests' \in [Requests -> RequestRow \cup {None}]
    BY <1>4, CloseType DEF assign_handover, PendingOf, Closed
  <2>. QED
    BY <1>4, <2>3, <2>4 DEF assign_handover, accountVars
<1>5. ASSUME NEW u \in Users, NEW r \in Reservations, NEW to \in Users,
             NEW q \in Requests, request_handover(u, r, to, q)
      PROVE  TypeOK'
  <2>1. reservations[r] \in Booking
    BY <1>5, ActiveIsBooking
    DEF request_handover, HandoverAllowed, load_mutable_reservation
  <2>2. [status |-> "pending", resv |-> r, from |-> u, to |-> to,
         expected_revision |-> reservations[r].revision] \in RequestRow
    BY <2>1 DEF Booking, RequestRow
  <2>3. Close(StaleOf(r), "expired") \in [Requests -> RequestRow \cup {None}]
    BY CloseType DEF StaleOf, PendingOf, Closed
  <2>4. handover_requests' \in [Requests -> RequestRow \cup {None}]
    BY <1>5, <2>2, <2>3 DEF request_handover
  <2>. QED
    BY <1>5, <2>4 DEF request_handover, accountVars, bookingVars
<1>6. ASSUME NEW u \in Users, NEW q \in Requests, decline_handover(u, q)
      PROVE  TypeOK'
  <2>1. handover_requests' \in [Requests -> RequestRow \cup {None}]
    BY <1>6, CloseType DEF decline_handover, MayDecide, Closed
  <2>. QED
    BY <1>6, <2>1 DEF decline_handover, accountVars, bookingVars
<1>7. ASSUME NEW u \in Users, NEW q \in Requests, accept_handover(u, q)
      PROVE  TypeOK'
  <2>. DEFINE r == handover_requests[q].resv
  <2>1. handover_requests[q] \in RequestRow /\ r \in Reservations
    BY <1>7, PendingIsRequest DEF accept_handover, MayDecide, RequestRow
  <2>2. reservations[r] \in Booking
    BY <1>7, <2>1, ActiveIsBooking DEF accept_handover, Decidable
  <2>3. /\ reservations' \in [Reservations -> Booking \cup {None}]
        /\ reservation_events' \subseteq EventRow
        /\ UNCHANGED reservation_slots
    BY <1>7, <2>1, <2>2, ApplyHandoverType DEF accept_handover
  <2>4. Close(PendingOf(r), "withdrawn") \in [Requests -> RequestRow \cup {None}]
    BY CloseType DEF PendingOf, Closed
  <2>5. Close(PendingOf(r), "withdrawn")[q] \in RequestRow
    BY <1>7, <2>1 DEF Close, PendingOf, accept_handover, MayDecide, RequestRow, Closed
  <2>6. handover_requests' \in [Requests -> RequestRow \cup {None}]
    BY <1>7, <2>4, <2>5 DEF accept_handover, RequestRow, Closed
  <2>. QED
    BY <1>7, <2>3, <2>6 DEF accept_handover, accountVars
<1>8. ASSUME NEW u \in Users, NEW q \in Requests, find_undecidable(u, q)
      PROVE  TypeOK'
  BY <1>8 DEF find_undecidable, accountVars, bookingVars
<1>9. ASSUME NEW u \in Users, NEW q \in Requests, expire_request(u, q)
      PROVE  TypeOK'
  <2>1. handover_requests' \in [Requests -> RequestRow \cup {None}]
    BY <1>9, CloseType DEF expire_request, Closed
  <2>. QED
    BY <1>9, <2>1 DEF expire_request, accountVars, bookingVars
<1>10. ASSUME NEW u \in Users, NEW q \in Requests, withdraw_handover(u, q)
       PROVE  TypeOK'
  <2>1. handover_requests' \in [Requests -> RequestRow \cup {None}]
    BY <1>10, CloseType DEF withdraw_handover, Closed
  <2>. QED
    BY <1>10, <2>1 DEF withdraw_handover, accountVars, bookingVars
<1>11. ASSUME NEW u \in Users, NEW m \in Rooms, NEW b \in BOOLEAN,
              create_room(u, m, b) \/ update_room(u, m, b)
       PROVE  TypeOK'
  BY <1>11 DEF create_room, update_room, bookingVars, handoverVars
<1>12. ASSUME NEW u \in Users, NEW m \in Rooms, delete_room(u, m)
       PROVE  TypeOK'
  <2>1. ASSUME NEW r \in Reservations
        PROVE  reservations'[r] \in Booking \cup {None}
    BY <1>12 DEF delete_room, Booking
  <2>2. reservations' \in [Reservations -> Booking \cup {None}]
    BY <1>12, <2>1 DEF delete_room
  <2>. QED
    BY <1>12, <2>2 DEF delete_room, handoverVars
<1>13. ASSUME NEW u \in Users, NEW v \in Users, NEW role \in {"admin", "employee"},
              NEW b \in BOOLEAN, create_user(u, v, role, b)
       PROVE  TypeOK'
  BY <1>13 DEF create_user, Account, bookingVars, handoverVars
<1>14. ASSUME NEW u \in Users, NEW v \in Users, NEW role \in {"admin", "employee"},
              NEW b \in BOOLEAN, update_user(u, v, role, b)
       PROVE  TypeOK'
  <2>1. handover_requests' \in [Requests -> RequestRow \cup {None}]
    BY <1>14, CloseType DEF update_user, PendingWith, Closed
  <2>2. users' \in [Users -> Account]
    BY <1>14 DEF update_user, Account
  <2>3. expiring' \subseteq Users \X Requests
    BY <1>14 DEF update_user, Revoked
  <2>. QED
    BY <1>14, <2>1, <2>2, <2>3 DEF update_user, bookingVars
<1>15. ASSUME NEW u \in Users, NEW v \in Users, reset_password(u, v)
       PROVE  TypeOK'
  BY <1>15 DEF reset_password, Revoked, accountVars, bookingVars
<1>16. ASSUME NEW u \in Users, NEW from \in Instants, NEW to \in Instants,
              update_system_settings(u, from, to)
       PROVE  TypeOK'
  BY <1>16, ConstantsAssumption
  DEF update_system_settings, Instants, bookingVars, handoverVars
<1>17. CASE Tick
  BY <1>17 DEF Tick, accountVars, bookingVars, handoverVars
<1>18. CASE Crash
  BY <1>18 DEF Crash, accountVars, bookingVars
<1>19. CASE UNCHANGED vars
  BY <1>19 DEF vars
<1>. QED
  BY <1>1, <1>2, <1>3, <1>4, <1>5, <1>6, <1>7, <1>8, <1>9, <1>10, <1>11, <1>12,
     <1>13, <1>14, <1>15, <1>16, <1>17, <1>18, <1>19
  DEF Next, ReservationStep, RequestStep, AdminStep

\* Every table keeps its type: no sequence of handlers, failed ones and a
\* crash between the two transactions of decide_handover included, leaves a
\* row outside the columns' domains.
THEOREM TypeCorrect == Spec => []TypeOK
BY InitType, StepType, PTL DEF Spec
-----------------------------------------------------------------------------
(* What the steps of Next do to the booking tables, the rooms and the users *)

\* What assigning and accepting share.
HandoverStep(u, r, to) ==
    /\ IsActive(r) /\ ~started(r)
    /\ apply_handover(u, r, to)
    /\ \A q \in PendingOf(r) : ~IsPending(q)'
    /\ UNCHANGED <<now, rooms, users>>

LEMMA BookingSteps ==
    ASSUME TypeOK, [Next]_vars
    PROVE  \/ \E u \in Users, r \in Reservations, m \in Rooms,
                 s \in 1 .. LastSlot, n \in 1 .. MaxSlots :
                 create_reservation(u, r, m, s, n)
           \/ \E u \in Users, r \in Reservations, m \in Rooms, s \in 1 .. LastSlot,
                 n \in 1 .. MaxSlots, e \in 1 .. MaxRevision :
                 update_reservation(u, r, e, m, s, n)
           \/ \E u \in Users, r \in Reservations, e \in 1 .. MaxRevision :
                 cancel_reservation(u, r, e)
           \/ \E u \in Users, r \in Reservations, to \in Users : HandoverStep(u, r, to)
           \/ \E u \in Users, m \in Rooms : delete_room(u, m)
           \/ UNCHANGED bookingVars
<1>1. ASSUME NEW u \in Users, NEW r \in Reservations, NEW to \in Users,
             assign_handover(u, r, to)
      PROVE  HandoverStep(u, r, to)
  <2>1. \A q \in PendingOf(r) : ~IsPending(q)'
    BY <1>1, PendingIsRequest DEF assign_handover, Close, PendingOf, IsPending, RequestRow
  <2>. QED
    BY <1>1, <2>1 DEF assign_handover, HandoverAllowed, load_mutable_reservation,
                      HandoverStep, accountVars
<1>2. ASSUME NEW u \in Users, NEW q \in Requests, accept_handover(u, q)
      PROVE  \E r \in Reservations : HandoverStep(u, r, u)
  <2>1. handover_requests[q].resv \in Reservations
    BY <1>2, PendingIsRequest DEF accept_handover, MayDecide, RequestRow
  <2>2. \A p \in PendingOf(handover_requests[q].resv) : ~IsPending(p)'
    BY <1>2, PendingIsRequest DEF accept_handover, Close, PendingOf, IsPending, RequestRow
  <2>. QED
    BY <1>2, <2>1, <2>2 DEF accept_handover, Decidable, HandoverStep, accountVars
<1>3. ASSUME NEW u \in Users, AdminStep(u)
      PROVE  (\E m \in Rooms : delete_room(u, m)) \/ UNCHANGED bookingVars
  BY <1>3 DEF AdminStep, create_room, update_room, create_user, update_user,
              reset_password, update_system_settings
<1>4. ASSUME NEW u \in Users, NEW q \in Requests, RequestStep(u, q)
      PROVE  accept_handover(u, q) \/ UNCHANGED bookingVars
  BY <1>4 DEF RequestStep, decline_handover, find_undecidable, expire_request,
              withdraw_handover
<1>5. ASSUME NEW u \in Users, NEW r \in Reservations, NEW to \in Users,
             NEW q \in Requests, request_handover(u, r, to, q)
      PROVE  UNCHANGED bookingVars
  BY <1>5 DEF request_handover
<1>6. CASE Tick \/ Crash \/ UNCHANGED vars
  BY <1>6 DEF Tick, Crash, vars, bookingVars
<1>. QED
  BY <1>1, <1>2, <1>3, <1>4, <1>5, <1>6 DEF Next, ReservationStep

LEMMA ReservationStepAccounts ==
    ASSUME NEW u \in Users, NEW r \in Reservations, ReservationStep(u, r)
    PROVE  UNCHANGED accountVars
<1>1. ASSUME NEW m, NEW s, NEW n, create_reservation(u, r, m, s, n)
      PROVE  UNCHANGED accountVars
  BY <1>1 DEF create_reservation
<1>2. ASSUME NEW m, NEW s, NEW n, NEW e, update_reservation(u, r, e, m, s, n)
      PROVE  UNCHANGED accountVars
  BY <1>2 DEF update_reservation
<1>3. ASSUME NEW e, cancel_reservation(u, r, e)
      PROVE  UNCHANGED accountVars
  BY <1>3 DEF cancel_reservation
<1>4. ASSUME NEW to, assign_handover(u, r, to)
      PROVE  UNCHANGED accountVars
  BY <1>4 DEF assign_handover
<1>5. ASSUME NEW to, NEW q, request_handover(u, r, to, q)
      PROVE  UNCHANGED accountVars
  BY <1>5 DEF request_handover
<1>. QED
  BY <1>1, <1>2, <1>3, <1>4, <1>5 DEF ReservationStep

LEMMA RequestStepAccounts ==
    ASSUME NEW u \in Users, NEW q \in Requests, RequestStep(u, q)
    PROVE  UNCHANGED accountVars
BY DEF RequestStep, decline_handover, accept_handover, find_undecidable,
       expire_request, withdraw_handover

LEMMA RoomSteps ==
    ASSUME TypeOK, [Next]_vars
    PROVE  \/ UNCHANGED rooms
           \/ \E u \in Users, m \in Rooms, b \in BOOLEAN :
                 create_room(u, m, b) \/ update_room(u, m, b)
           \/ \E u \in Users, m \in Rooms : delete_room(u, m)
<1>1. ASSUME NEW u \in Users, NEW r \in Reservations, ReservationStep(u, r)
      PROVE  UNCHANGED rooms
  BY <1>1, ReservationStepAccounts DEF accountVars
<1>2. ASSUME NEW u \in Users, NEW q \in Requests, RequestStep(u, q)
      PROVE  UNCHANGED rooms
  BY <1>2, RequestStepAccounts DEF accountVars
<1>3. ASSUME NEW u \in Users, AdminStep(u)
      PROVE  \/ UNCHANGED rooms
             \/ \E m \in Rooms, b \in BOOLEAN :
                   create_room(u, m, b) \/ update_room(u, m, b)
             \/ \E m \in Rooms : delete_room(u, m)
  BY <1>3 DEF AdminStep, create_user, update_user, reset_password,
              update_system_settings, accountVars
<1>4. CASE Tick \/ Crash \/ UNCHANGED vars
  BY <1>4 DEF Tick, Crash, vars, accountVars
<1>. QED
  BY <1>1, <1>2, <1>3, <1>4 DEF Next

LEMMA UserSteps ==
    ASSUME TypeOK, [Next]_vars
    PROVE  \/ UNCHANGED users
           \/ \E u, v \in Users, role \in {"admin", "employee"}, b \in BOOLEAN :
                 create_user(u, v, role, b) \/ update_user(u, v, role, b)
<1>1. ASSUME NEW u \in Users, NEW r \in Reservations, ReservationStep(u, r)
      PROVE  UNCHANGED users
  BY <1>1, ReservationStepAccounts DEF accountVars
<1>2. ASSUME NEW u \in Users, NEW q \in Requests, RequestStep(u, q)
      PROVE  UNCHANGED users
  BY <1>2, RequestStepAccounts DEF accountVars
<1>3. ASSUME NEW u \in Users, AdminStep(u)
      PROVE  \/ UNCHANGED users
             \/ \E v \in Users, role \in {"admin", "employee"}, b \in BOOLEAN :
                   create_user(u, v, role, b) \/ update_user(u, v, role, b)
  BY <1>3 DEF AdminStep, create_room, update_room, delete_room, reset_password,
              update_system_settings, accountVars
<1>4. CASE Tick \/ Crash \/ UNCHANGED vars
  BY <1>4 DEF Tick, Crash, vars, accountVars
<1>. QED
  BY <1>1, <1>2, <1>3, <1>4 DEF Next
-----------------------------------------------------------------------------
(* Administrators *)

LEMMA InitAdmin == Init => AdminSurvives
BY ConstantsAssumption DEF Init, AdminSurvives, ActiveAdmins

LEMMA StepAdmin == TypeOK /\ AdminSurvives /\ [Next]_vars => AdminSurvives'
<1>. SUFFICES ASSUME TypeOK, AdminSurvives, [Next]_vars PROVE AdminSurvives'
  OBVIOUS
<1>1. ASSUME NEW u \in Users, NEW v \in Users, NEW role \in {"admin", "employee"},
             NEW b \in BOOLEAN, create_user(u, v, role, b)
      PROVE  AdminSurvives'
  <2>1. u # v /\ u \in ActiveAdmins
    BY <1>1 DEF create_user, locked_admin, locked_actor, ActiveAdmins
  <2>2. users'[u] = users[u]
    BY <1>1, <2>1 DEF create_user, TypeOK
  <2>. QED
    BY <2>1, <2>2 DEF AdminSurvives, ActiveAdmins
<1>2. ASSUME NEW u \in Users, NEW v \in Users, NEW role \in {"admin", "employee"},
             NEW b \in BOOLEAN, update_user(u, v, role, b)
      PROVE  AdminSurvives'
  <2>1. users' = [users EXCEPT ![v] = [role |-> role, is_active |-> b]]
    BY <1>2 DEF update_user
  <2>2. CASE role = "admin" /\ b
    BY <2>1, <2>2 DEF AdminSurvives, ActiveAdmins, TypeOK
  <2>3. CASE ~(role = "admin" /\ b)
    <3>1. PICK w \in ActiveAdmins : w # v
      BY <1>2, <2>3 DEF update_user, assert_admin_survives, locked_admin, locked_actor,
                        ActiveAdmins
    <3>. QED
      BY <2>1, <3>1 DEF AdminSurvives, ActiveAdmins, TypeOK
  <2>. QED
    BY <2>2, <2>3
<1>3. CASE UNCHANGED users
  BY <1>3 DEF AdminSurvives, ActiveAdmins
<1>. QED
  BY <1>1, <1>2, <1>3, UserSteps

\* An enabled administrator is left after every sequence of demotions and
\* disablings, whoever issues them.
THEOREM AdminAlways == Spec => []AdminSurvives
<1>1. TypeOK /\ AdminSurvives /\ [Next]_vars => (TypeOK /\ AdminSurvives)'
  BY StepType, StepAdmin
<1>. QED
  BY <1>1, InitType, InitAdmin, PTL DEF Spec
-----------------------------------------------------------------------------
(* Slots *)

\* What placing r on s .. s+n-1 in room m leaves in the two tables.
LEMMA PlacedKeepsLedger ==
    ASSUME TypeOK, SlotLedger,
           NEW r \in Reservations, NEW m \in Rooms, NEW s \in Nat, NEW n \in Nat,
           NEW b, b.status = "active", b.room = m, b.start = s, b.len = n,
           reservations' = [reservations EXCEPT ![r] = b],
           insert_slots(delete_slots(r), r, m, s, n)
    PROVE  SlotLedger'
<1>. DEFINE kept == delete_slots(r)
            new == {[resv |-> r, room |-> m, slot |-> k] : k \in slot_times(s, n)}
<1>1. /\ reservation_slots' = kept \cup new
      /\ \A x \in kept : ~(x.room = m /\ x.slot \in slot_times(s, n))
  BY DEF insert_slots
<1>2. \A x \in kept : x \in reservation_slots /\ x.resv # r /\ x \in SlotRow
  BY DEF delete_slots, TypeOK
<1>3. reservations'[r] = b /\ \A t \in Reservations \ {r} : reservations'[t] = reservations[t]
  BY DEF TypeOK
<1>4. \A x \in new : x.resv = r /\ x.room = m /\ x.slot \in slot_times(s, n)
  OBVIOUS
<1>5. RowsAreBooked'
  BY <1>1, <1>2, <1>3, <1>4
  DEF SlotLedger, RowsAreBooked, IsActive, SlotsOf, slot_times, SlotRow
<1>6. BookingsHaveRows'
  <2>1. ASSUME NEW t \in Reservations, IsActive(t)', reservations'[t].room # NoRoom,
               NEW k \in SlotsOf(t)'
        PROVE  [resv |-> t, room |-> reservations'[t].room, slot |-> k] \in reservation_slots'
    <3>1. CASE t = r
      BY <1>1, <1>3, <2>1, <3>1 DEF SlotsOf, slot_times
    <3>2. CASE t # r
      BY <1>1, <1>3, <2>1, <3>2
      DEF SlotLedger, BookingsHaveRows, IsActive, SlotsOf, slot_times, delete_slots
    <3>. QED
      BY <3>1, <3>2
  <2>. QED
    BY <2>1 DEF BookingsHaveRows
<1>7. SlotsAreSingle'
  <2>1. ASSUME NEW x \in kept, NEW y \in kept, x.room = y.room, x.slot = y.slot
        PROVE  x = y
    BY <1>2, <2>1 DEF SlotLedger, SlotsAreSingle
  <2>2. ASSUME NEW x \in new, NEW y \in new, x.slot = y.slot
        PROVE  x = y
    BY <2>2
  <2>3. ASSUME NEW x \in kept, NEW y \in new
        PROVE  ~(x.room = y.room /\ x.slot = y.slot)
    BY <1>1, <1>4, <2>3
  <2>. QED
    BY <1>1, <2>1, <2>2, <2>3 DEF SlotsAreSingle
<1>. QED
  BY <1>5, <1>6, <1>7 DEF SlotLedger

LEMMA InitLedger == Init => SlotLedger
BY DEF Init, SlotLedger, RowsAreBooked, BookingsHaveRows, SlotsAreSingle, IsActive, None

LEMMA StepLedger == TypeOK /\ SlotLedger /\ [Next]_vars => SlotLedger'
<1>. SUFFICES ASSUME TypeOK, SlotLedger, [Next]_vars PROVE SlotLedger'
  OBVIOUS
<1>1. ASSUME NEW u \in Users, NEW r \in Reservations, NEW m \in Rooms,
             NEW s \in 1 .. LastSlot, NEW n \in 1 .. MaxSlots,
             create_reservation(u, r, m, s, n)
      PROVE  SlotLedger'
  <2>1. delete_slots(r) = reservation_slots
    BY <1>1 DEF create_reservation, SlotLedger, RowsAreBooked, IsActive, None, delete_slots
  <2>. DEFINE b == [status |-> "active", room |-> m, start |-> s, len |-> n,
                    owner |-> u, revision |-> 1]
  <2>2. b.status = "active" /\ b.room = m /\ b.start = s /\ b.len = n
    OBVIOUS
  <2>3. reservations' = [reservations EXCEPT ![r] = b]
    BY <1>1 DEF create_reservation
  <2>4. insert_slots(delete_slots(r), r, m, s, n)
    BY <1>1, <2>1 DEF create_reservation, insert_slots
  <2>5. s \in Nat /\ n \in Nat
    BY ConstantsAssumption
  <2>. HIDE DEF b
  <2>. QED
    BY <2>2, <2>3, <2>4, <2>5, PlacedKeepsLedger
<1>2. ASSUME NEW u \in Users, NEW r \in Reservations, NEW m \in Rooms,
             NEW s \in 1 .. LastSlot, NEW n \in 1 .. MaxSlots, NEW e \in 1 .. MaxRevision,
             update_reservation(u, r, e, m, s, n)
      PROVE  SlotLedger'
  <2>. DEFINE b == [reservations[r] EXCEPT !.room = m, !.start = s, !.len = n,
                                           !.revision = e + 1]
  <2>1. reservations[r] \in Booking /\ reservations[r].status = "active"
    BY <1>2, ActiveIsBooking DEF update_reservation, load_mutable_reservation, IsActive
  <2>2. b.status = "active" /\ b.room = m /\ b.start = s /\ b.len = n
    BY <2>1 DEF Booking
  <2>3. reservations' = [reservations EXCEPT ![r] = b]
    BY <1>2, <2>1 DEF update_reservation, TypeOK
  <2>4. insert_slots(delete_slots(r), r, m, s, n)
    BY <1>2 DEF update_reservation
  <2>5. s \in Nat /\ n \in Nat
    BY ConstantsAssumption
  <2>. HIDE DEF b
  <2>. QED
    BY <2>2, <2>3, <2>4, <2>5, PlacedKeepsLedger
<1>3. ASSUME NEW u \in Users, NEW r \in Reservations, NEW e \in 1 .. MaxRevision,
             cancel_reservation(u, r, e)
      PROVE  SlotLedger'
  <2>1. reservations[r] \in Booking
    BY <1>3, ActiveIsBooking DEF cancel_reservation, load_mutable_reservation
  <2>2. /\ ~IsActive(r)'
        /\ \A t \in Reservations \ {r} : reservations'[t] = reservations[t]
    BY <1>3, <2>1 DEF cancel_reservation, TypeOK, IsActive, Booking
  <2>3. reservation_slots' = {x \in reservation_slots : x.resv # r}
    BY <1>3 DEF cancel_reservation, delete_slots
  <2>4. RowsAreBooked' /\ SlotsAreSingle'
    BY <2>2, <2>3 DEF TypeOK, SlotLedger, RowsAreBooked, SlotsAreSingle, IsActive,
                      SlotsOf, slot_times, SlotRow
  <2>5. BookingsHaveRows'
    BY <2>2, <2>3 DEF SlotLedger, BookingsHaveRows, IsActive, SlotsOf, slot_times
  <2>. QED
    BY <2>4, <2>5 DEF SlotLedger
<1>4. ASSUME NEW u \in Users, NEW r \in Reservations, NEW to \in Users,
             HandoverStep(u, r, to)
      PROVE  SlotLedger'
  <2>1. reservations[r] \in Booking
    BY <1>4, ActiveIsBooking DEF HandoverStep
  <2>2. \A t \in Reservations :
           /\ reservations'[t].status = reservations[t].status
           /\ reservations'[t].room = reservations[t].room
           /\ reservations'[t].start = reservations[t].start
           /\ reservations'[t].len = reservations[t].len
    BY <1>4, <2>1 DEF HandoverStep, apply_handover, TypeOK, Booking
  <2>3. UNCHANGED reservation_slots
    BY <1>4 DEF HandoverStep, apply_handover
  <2>. QED
    BY <2>2, <2>3 DEF TypeOK, SlotLedger, RowsAreBooked, BookingsHaveRows, SlotsAreSingle,
                      IsActive, SlotsOf, slot_times, SlotRow
<1>5. ASSUME NEW u \in Users, NEW m \in Rooms, delete_room(u, m)
      PROVE  SlotLedger'
  <2>1. ASSUME NEW t \in Reservations, IsActive(t)
        PROVE  /\ reservations[t].room = m => reservations'[t].room = NoRoom
               /\ reservations[t].room # m => reservations'[t] = reservations[t]
    BY <1>5, <2>1, ActiveIsBooking DEF delete_room, Booking, None
  <2>2. ASSUME NEW t \in Reservations
        PROVE  IsActive(t)' <=> IsActive(t)
    BY <1>5 DEF delete_room, IsActive, TypeOK, Booking
  <2>3. reservation_slots' = {x \in reservation_slots : x.room # m}
    BY <1>5 DEF delete_room
  <2>4. RowsAreBooked' /\ SlotsAreSingle'
    BY <2>1, <2>2, <2>3 DEF TypeOK, SlotLedger, RowsAreBooked, SlotsAreSingle,
                            SlotsOf, slot_times, SlotRow
  <2>5. BookingsHaveRows'
    BY <2>1, <2>2, <2>3 DEF SlotLedger, BookingsHaveRows, SlotsOf, slot_times
  <2>. QED
    BY <2>4, <2>5 DEF SlotLedger
<1>6. CASE UNCHANGED bookingVars
  BY <1>6 DEF bookingVars, SlotLedger, RowsAreBooked, BookingsHaveRows, SlotsAreSingle,
              IsActive, SlotsOf, slot_times
<1>. QED
  BY <1>1, <1>2, <1>3, <1>4, <1>5, <1>6, BookingSteps

\* The slot rows are those of the active bookings after every sequence of
\* creations, moves, handovers, cancellations and room deletions.
THEOREM LedgerAlways == Spec => []SlotLedger
<1>1. TypeOK /\ SlotLedger /\ [Next]_vars => (TypeOK /\ SlotLedger)'
  BY StepType, StepLedger
<1>. QED
  BY <1>1, InitType, InitLedger, PTL DEF Spec

LEMMA LedgerSeparates == TypeOK /\ SlotLedger => NoDoubleBooking
<1>. SUFFICES ASSUME TypeOK, SlotLedger,
                     NEW r \in Reservations, NEW s \in Reservations, r # s,
                     IsActive(r), IsActive(s),
                     reservations[r].room = reservations[s].room,
                     reservations[r].room # NoRoom,
                     ~(End(reservations[r]) <= reservations[s].start),
                     ~(End(reservations[s]) <= reservations[r].start)
              PROVE  FALSE
  BY DEF NoDoubleBooking
<1>1. reservations[r] \in Booking /\ reservations[s] \in Booking
  BY ActiveIsBooking
<1>2. \E k \in Nat : k \in SlotsOf(r) /\ k \in SlotsOf(s)
  <2>1. CASE reservations[r].start <= reservations[s].start
    BY <1>1, <2>1 DEF Booking, End, SlotsOf, slot_times
  <2>2. CASE reservations[s].start <= reservations[r].start
    BY <1>1, <2>2 DEF Booking, End, SlotsOf, slot_times
  <2>. QED
    BY <1>1, <2>1, <2>2 DEF Booking
<1>3. PICK k \in Nat : k \in SlotsOf(r) /\ k \in SlotsOf(s)
  BY <1>2
<1>. DEFINE x == [resv |-> r, room |-> reservations[r].room, slot |-> k]
            y == [resv |-> s, room |-> reservations[r].room, slot |-> k]
<1>4. x \in reservation_slots /\ y \in reservation_slots
  BY <1>3 DEF SlotLedger, BookingsHaveRows
<1>5. x = y
  BY <1>4 DEF SlotLedger, SlotsAreSingle
<1>. QED
  BY <1>5

\* Two active bookings of one room never overlap.
THEOREM NeverDoubleBooked == Spec => []NoDoubleBooking
BY LedgerAlways, TypeCorrect, LedgerSeparates, PTL
-----------------------------------------------------------------------------
(* Rooms *)

LEMMA ClockSteps ==
    ASSUME TypeOK, [Next]_vars
    PROVE  /\ now' \in {now, now + 1}
           /\ UNCHANGED bookingVars \/ UNCHANGED now
<1>1. ASSUME NEW u \in Users, NEW r \in Reservations, ReservationStep(u, r)
      PROVE  UNCHANGED now
  <2>1. ASSUME NEW m, NEW s, NEW n, create_reservation(u, r, m, s, n)
        PROVE  UNCHANGED now
    BY <2>1 DEF create_reservation
  <2>2. ASSUME NEW m, NEW s, NEW n, NEW e, update_reservation(u, r, e, m, s, n)
        PROVE  UNCHANGED now
    BY <2>2 DEF update_reservation
  <2>3. ASSUME NEW e, cancel_reservation(u, r, e)
        PROVE  UNCHANGED now
    BY <2>3 DEF cancel_reservation
  <2>4. ASSUME NEW to, assign_handover(u, r, to)
        PROVE  UNCHANGED now
    BY <2>4 DEF assign_handover
  <2>5. ASSUME NEW to, NEW q, request_handover(u, r, to, q)
        PROVE  UNCHANGED now
    BY <2>5 DEF request_handover
  <2>. QED
    BY <1>1, <2>1, <2>2, <2>3, <2>4, <2>5 DEF ReservationStep
<1>2. ASSUME NEW u \in Users, NEW q \in Requests, RequestStep(u, q)
      PROVE  UNCHANGED now
  BY <1>2 DEF RequestStep, decline_handover, accept_handover, find_undecidable,
              expire_request, withdraw_handover
<1>3. ASSUME NEW u \in Users, AdminStep(u)
      PROVE  UNCHANGED now
  BY <1>3 DEF AdminStep, create_room, update_room, delete_room, create_user, update_user,
              reset_password, update_system_settings
<1>4. CASE Tick
  BY <1>4 DEF Tick
<1>5. CASE Crash \/ UNCHANGED vars
  BY <1>5 DEF Crash, vars
<1>. QED
  BY <1>1, <1>2, <1>3, <1>4, <1>5 DEF Next

LEMMA InitRooms == Init => BookedRoomsStay
BY DEF Init, BookedRoomsStay, IsActive, None

LEMMA StepRooms == TypeOK /\ BookedRoomsStay /\ [Next]_vars => BookedRoomsStay'
<1>. SUFFICES ASSUME TypeOK, BookedRoomsStay, [Next]_vars,
                     NEW t \in Reservations, IsActive(t)', now' < End(reservations'[t])
              PROVE  /\ reservations'[t].room # NoRoom
                     /\ rooms'[reservations'[t].room] \in {"active", "inactive"}
  BY DEF BookedRoomsStay
<1>1. ASSUME NEW u \in Users, NEW m \in Rooms, delete_room(u, m)
      PROVE  /\ reservations'[t].room # NoRoom
             /\ rooms'[reservations'[t].room] \in {"active", "inactive"}
  <2>1. /\ reservations[t] \in Booking /\ IsActive(t)
        /\ End(reservations[t]) = End(reservations'[t])
    BY <1>1, ActiveIsBooking DEF delete_room, IsActive, None, Booking, End, TypeOK
  <2>2. now < End(reservations[t])
    BY <1>1, <2>1 DEF delete_room
  <2>3. reservations[t].room # m
    BY <1>1, <2>1, <2>2 DEF delete_room, ended, End, Booking, TypeOK
  <2>4. reservations'[t] = reservations[t] /\ rooms' = [rooms EXCEPT ![m] = "deleted"]
    BY <1>1, <2>3 DEF delete_room
  <2>. QED
    BY <2>1, <2>2, <2>3, <2>4 DEF BookedRoomsStay, Booking, TypeOK
<1>2. ASSUME NEW u \in Users, NEW m \in Rooms, NEW b \in BOOLEAN,
             create_room(u, m, b) \/ update_room(u, m, b)
      PROVE  /\ reservations'[t].room # NoRoom
             /\ rooms'[reservations'[t].room] \in {"active", "inactive"}
  <2>1. /\ UNCHANGED <<now, reservations>>
        /\ \A k \in Rooms : rooms'[k] \in {"active", "inactive"} \/ rooms'[k] = rooms[k]
    BY <1>2 DEF create_room, update_room, bookingVars, TypeOK
  <2>2. reservations[t] \in Booking /\ reservations[t].room \in Rooms \cup {NoRoom}
    BY <2>1, ActiveIsBooking DEF IsActive, Booking
  <2>. QED
    BY <2>1, <2>2 DEF BookedRoomsStay, IsActive
<1>3. ASSUME UNCHANGED rooms, UNCHANGED reservations \/ UNCHANGED now,
             IsActive(t), reservations'[t].room = reservations[t].room,
             End(reservations'[t]) = End(reservations[t])
      PROVE  /\ reservations'[t].room # NoRoom
             /\ rooms'[reservations'[t].room] \in {"active", "inactive"}
  <2>1. now < End(reservations[t])
    <3>1. now \in Nat /\ now' \in {now, now + 1} /\ End(reservations[t]) \in Nat
      BY <1>3, ActiveIsBooking, ClockSteps DEF TypeOK, Booking, End
    <3>. QED
      BY <1>3, <3>1
  <2>. QED
    BY <1>3, <2>1 DEF BookedRoomsStay
<1>4. ASSUME NEW u \in Users, NEW r \in Reservations, NEW m \in Rooms,
             NEW s \in 1 .. LastSlot, NEW n \in 1 .. MaxSlots,
             \/ create_reservation(u, r, m, s, n)
             \/ \E e \in 1 .. MaxRevision : update_reservation(u, r, e, m, s, n)
      PROVE  /\ reservations'[t].room # NoRoom
             /\ rooms'[reservations'[t].room] \in {"active", "inactive"}
  <2>1. /\ rooms[m] = "active" /\ UNCHANGED rooms /\ UNCHANGED now
        /\ \A k \in Reservations \ {r} : reservations'[k] = reservations[k]
    BY <1>4 DEF create_reservation, update_reservation, validate_booking_payload,
                accountVars, TypeOK
  <2>2. reservations'[r].room = m
    <3>1. ASSUME create_reservation(u, r, m, s, n)
          PROVE  reservations'[r].room = m
      BY <3>1 DEF create_reservation, TypeOK
    <3>2. ASSUME NEW e \in 1 .. MaxRevision, update_reservation(u, r, e, m, s, n)
          PROVE  reservations'[r].room = m
      <4>1. reservations[r] \in Booking
        BY <3>2, ActiveIsBooking DEF update_reservation, load_mutable_reservation
      <4>. QED
        BY <3>2, <4>1 DEF update_reservation, TypeOK, Booking
    <3>. QED
      BY <1>4, <3>1, <3>2
  <2>3. CASE t = r
    BY <2>1, <2>2, <2>3, ConstantsAssumption
  <2>4. CASE t # r
    BY <1>3, <2>1, <2>4 DEF IsActive, End
  <2>. QED
    BY <2>3, <2>4
<1>5. ASSUME NEW u \in Users, NEW r \in Reservations, NEW e \in 1 .. MaxRevision,
             cancel_reservation(u, r, e)
      PROVE  /\ reservations'[t].room # NoRoom
             /\ rooms'[reservations'[t].room] \in {"active", "inactive"}
  <2>1. reservations[r] \in Booking
    BY <1>5, ActiveIsBooking DEF cancel_reservation, load_mutable_reservation
  <2>2. t # r
    BY <1>5, <2>1 DEF cancel_reservation, IsActive, TypeOK, Booking
  <2>. QED
    BY <1>3, <1>5, <2>2 DEF cancel_reservation, IsActive, End, TypeOK, accountVars
<1>6. ASSUME NEW u \in Users, NEW r \in Reservations, NEW to \in Users,
             HandoverStep(u, r, to)
      PROVE  /\ reservations'[t].room # NoRoom
             /\ rooms'[reservations'[t].room] \in {"active", "inactive"}
  <2>1. reservations[r] \in Booking
    BY <1>6, ActiveIsBooking DEF HandoverStep
  <2>2. /\ reservations'[t].status = reservations[t].status
        /\ reservations'[t].room = reservations[t].room
        /\ End(reservations'[t]) = End(reservations[t])
    BY <1>6, <2>1 DEF HandoverStep, apply_handover, TypeOK, Booking, End
  <2>. QED
    BY <1>3, <1>6, <2>2 DEF HandoverStep, IsActive
<1>7. CASE UNCHANGED bookingVars /\ UNCHANGED rooms
  BY <1>3, <1>7 DEF bookingVars, IsActive, End
<1>8. CASE UNCHANGED rooms
  BY <1>1, <1>4, <1>5, <1>6, <1>7, <1>8, BookingSteps
<1>. QED
  BY <1>1, <1>2, <1>8, RoomSteps

\* No booking that is not over loses its room, whatever administrators delete
\* while others book.
THEOREM RoomsStay == Spec => []BookedRoomsStay
<1>1. TypeOK /\ BookedRoomsStay /\ [Next]_vars => (TypeOK /\ BookedRoomsStay)'
  BY StepType, StepRooms
<1>. QED
  BY <1>1, InitType, InitRooms, PTL DEF Spec

-----------------------------------------------------------------------------
(***************************************************************************)
(* Booking implements Calendar: every step of the handlers is a step of    *)
(* the calendar or leaves it alone.                                        *)
(***************************************************************************)

LEMMA PlaceIsNotVacant ==
    ASSUME NEW r
    PROVE  PlaceOf(r) # None
BY DEF PlaceOf, None

Holds(r) == IsActive(r) /\ reservations[r].room # NoRoom

\* Only the place of r may differ after the step.
LEMMA PlacedElsewhere ==
    ASSUME TypeOK, NEW r \in Reservations,
           \A t \in Reservations \ {r} : reservations'[t] = reservations[t]
    PROVE  Placed' = [Placed EXCEPT ![r] = Placed'[r]]
BY DEF Placed, IsActive, PlaceOf

LEMMA BookStep ==
    ASSUME TypeOK, NoDoubleBooking', TypeOK',
           NEW r \in Reservations, NEW m \in Rooms, NEW s \in 1 .. LastSlot,
           NEW n \in 1 .. MaxSlots, NEW u \in Users, s > now, UNCHANGED now,
           \A t \in Reservations \ {r} : reservations'[t] = reservations[t],
           reservations'[r] \in Booking, reservations'[r].status = "active",
           reservations'[r].room = m, reservations'[r].start = s,
           reservations'[r].len = n, reservations'[r].owner = u
    PROVE  LET p == [room |-> m, start |-> s, len |-> n, owner |-> u] IN
           /\ p \in Abstract!Place
           /\ Abstract!Ahead(p) /\ Abstract!IsFree(p, r)
           /\ Placed' = [Placed EXCEPT ![r] = p]
<1>. DEFINE p == [room |-> m, start |-> s, len |-> n, owner |-> u]
<1>1. p \in Abstract!Place /\ Abstract!Ahead(p)
  BY DEF Abstract!Place, Abstract!Ahead
<1>2. Placed' = [Placed EXCEPT ![r] = p]
  <2>1. Placed'[r] = p
    BY ConstantsAssumption DEF Placed, IsActive, PlaceOf
  <2>. QED
    BY <2>1, PlacedElsewhere
<1>3. ASSUME NEW t \in Reservations \ {r}, Placed[t] # None
      PROVE  ~Abstract!Overlap(Placed[t], p)
  <2>1. Holds(t) /\ Placed[t] = PlaceOf(t)
    BY <1>3 DEF Placed, Holds
  <2>2. CASE reservations[t].room # m
    BY <2>1, <2>2 DEF PlaceOf, Abstract!Overlap
  <2>3. CASE reservations[t].room = m
    <3>1. \/ End(reservations'[t]) <= reservations'[r].start
          \/ End(reservations'[r]) <= reservations'[t].start
      BY <1>3, <2>1, <2>3 DEF NoDoubleBooking, Holds, IsActive
    <3>2. \/ reservations[t].start + reservations[t].len <= s
          \/ s + n <= reservations[t].start
      BY <1>3, <3>1 DEF End
    <3>3. reservations[t].start \in Nat /\ reservations[t].len \in Nat /\ s \in Int /\ n \in Int
      BY <2>1, ActiveIsBooking, ConstantsAssumption DEF Holds, Booking
    <3>. QED
      BY <2>1, <3>2, <3>3 DEF PlaceOf, Abstract!Overlap
  <2>. QED
    BY <2>2, <2>3
<1>. QED
  BY <1>1, <1>2, <1>3 DEF Abstract!IsFree

LEMMA InitCalendar == Init => Abstract!Init
BY DEF Init, Abstract!Init, Placed, IsActive, None

LEMMA StepCalendar ==
    TypeOK /\ TypeOK' /\ BookedRoomsStay /\ NoDoubleBooking' /\ [Next]_vars
        => [Abstract!Next]_<<now, Placed>>
<1>. SUFFICES ASSUME TypeOK, TypeOK', BookedRoomsStay, NoDoubleBooking', [Next]_vars
              PROVE  Abstract!Next \/ UNCHANGED <<now, Placed>>
  OBVIOUS
<1>1. ASSUME NEW r \in Reservations, IsActive(r), ~ended(r)
      PROVE  /\ reservations[r] \in Booking /\ reservations[r].room # NoRoom
             /\ Placed[r] = PlaceOf(r) /\ Placed[r] # None
             /\ ~Abstract!Over(Placed[r])
  <2>1. reservations[r] \in Booking
    BY <1>1, ActiveIsBooking
  <2>2. now < End(reservations[r]) /\ ~(End(reservations[r]) <= now)
    BY <1>1, <2>1 DEF ended, End, Booking, TypeOK
  <2>3. reservations[r].room # NoRoom
    BY <1>1, <2>2 DEF BookedRoomsStay
  <2>4. Placed[r] = PlaceOf(r)
    BY <1>1, <2>3 DEF Placed
  <2>. QED
    BY <2>1, <2>2, <2>3, <2>4, PlaceIsNotVacant DEF PlaceOf, Abstract!Over, End
<1>2. ASSUME NEW r \in Reservations, IsActive(r), ~started(r)
      PROVE  ~ended(r) /\ Abstract!Ahead(PlaceOf(r))
  BY <1>2, ActiveIsBooking
  DEF started, ended, End, Booking, TypeOK, PlaceOf, Abstract!Ahead
<1>3. ASSUME NEW u \in Users, NEW r \in Reservations, NEW m \in Rooms,
             NEW s \in 1 .. LastSlot, NEW n \in 1 .. MaxSlots,
             create_reservation(u, r, m, s, n)
      PROVE  Abstract!Next
  <2>. DEFINE p == [room |-> m, start |-> s, len |-> n, owner |-> u]
  <2>1. /\ \A t \in Reservations \ {r} : reservations'[t] = reservations[t]
        /\ reservations'[r] \in Booking /\ reservations'[r].status = "active"
        /\ reservations'[r].room = m /\ reservations'[r].start = s
        /\ reservations'[r].len = n /\ reservations'[r].owner = u
    BY <1>3, ConstantsAssumption DEF create_reservation, TypeOK, Booking
  <2>2. s > now /\ UNCHANGED now /\ Placed[r] = None
    BY <1>3 DEF create_reservation, validate_booking_payload, Placed, IsActive, None
  <2>3. /\ p \in Abstract!Place /\ Abstract!Ahead(p) /\ Abstract!IsFree(p, r)
        /\ Placed' = [Placed EXCEPT ![r] = p]
    BY <2>1, <2>2, BookStep
  <2>. HIDE DEF p
  <2>. QED
    BY <2>2, <2>3 DEF Abstract!Next, Abstract!Book
<1>4. ASSUME NEW u \in Users, NEW r \in Reservations, NEW m \in Rooms,
             NEW s \in 1 .. LastSlot, NEW n \in 1 .. MaxSlots, NEW e \in 1 .. MaxRevision,
             update_reservation(u, r, e, m, s, n)
      PROVE  Abstract!Next
  <2>. DEFINE w == reservations[r].owner
              p == [room |-> m, start |-> s, len |-> n, owner |-> w]
  <2>1. IsActive(r) /\ ~started(r) /\ reservations[r] \in Booking /\ w \in Users
    BY <1>4, ActiveIsBooking DEF update_reservation, load_mutable_reservation, Booking
  <2>2. /\ \A t \in Reservations \ {r} : reservations'[t] = reservations[t]
        /\ reservations'[r] \in Booking /\ reservations'[r].status = "active"
        /\ reservations'[r].room = m /\ reservations'[r].start = s
        /\ reservations'[r].len = n /\ reservations'[r].owner = w
    BY <1>4, <2>1, ConstantsAssumption DEF update_reservation, IsActive, TypeOK, Booking
  <2>3. s > now /\ UNCHANGED now
    BY <1>4 DEF update_reservation, validate_booking_payload
  <2>4. /\ p \in Abstract!Place /\ Abstract!Ahead(p) /\ Abstract!IsFree(p, r)
        /\ Placed' = [Placed EXCEPT ![r] = p]
    BY <2>1, <2>2, <2>3, BookStep
  <2>5. /\ Placed[r] # None /\ Abstract!Ahead(Placed[r])
        /\ p.owner = Placed[r].owner
    <3>1. Placed[r] = PlaceOf(r) /\ Placed[r] # None /\ Abstract!Ahead(PlaceOf(r))
      BY <1>1, <1>2, <2>1
    <3>2. p.owner = PlaceOf(r).owner
      BY DEF PlaceOf
    <3>. QED
      BY <3>1, <3>2
  <2>. HIDE DEF p
  <2>. QED
    BY <2>3, <2>4, <2>5 DEF Abstract!Next, Abstract!Move
<1>5. ASSUME NEW u \in Users, NEW r \in Reservations, NEW e \in 1 .. MaxRevision,
             cancel_reservation(u, r, e)
      PROVE  Abstract!Next
  <2>1. IsActive(r) /\ ~ended(r)
    BY <1>5 DEF cancel_reservation, load_mutable_reservation
  <2>2. /\ \A t \in Reservations \ {r} : reservations'[t] = reservations[t]
        /\ reservations'[r].status = "cancelled" /\ UNCHANGED now
    BY <1>1, <1>5, <2>1 DEF cancel_reservation, TypeOK, Booking
  <2>3. Placed'[r] = None
    BY <2>2 DEF Placed, IsActive
  <2>4. Placed' = [Placed EXCEPT ![r] = None]
    BY <2>2, <2>3, PlacedElsewhere
  <2>. QED
    BY <1>1, <2>1, <2>2, <2>4 DEF Abstract!Next, Abstract!Release
<1>6. ASSUME NEW u \in Users, NEW r \in Reservations, NEW to \in Users,
             HandoverStep(u, r, to)
      PROVE  Abstract!Next
  <2>1. IsActive(r) /\ ~started(r) /\ ~ended(r)
    BY <1>2, <1>6 DEF HandoverStep
  <2>2. /\ \A t \in Reservations \ {r} : reservations'[t] = reservations[t]
        /\ reservations'[r].status = "active"
        /\ reservations'[r].room = reservations[r].room
        /\ reservations'[r].start = reservations[r].start
        /\ reservations'[r].len = reservations[r].len
        /\ reservations'[r].owner = to /\ UNCHANGED now
    BY <1>1, <1>6, <2>1 DEF HandoverStep, apply_handover, IsActive, TypeOK, Booking
  <2>3. Placed'[r] = [Placed[r] EXCEPT !.owner = to]
    BY <1>1, <2>1, <2>2 DEF Placed, IsActive, PlaceOf
  <2>4. Placed' = [Placed EXCEPT ![r].owner = to]
    BY <2>2, <2>3, PlacedElsewhere DEF Placed
  <2>. QED
    BY <1>1, <1>2, <2>1, <2>2, <2>4 DEF Abstract!Next, Abstract!Transfer
<1>7. ASSUME NEW u \in Users, NEW m \in Rooms, delete_room(u, m)
      PROVE  Abstract!Next
  <2>1. ASSUME NEW t \in Reservations, Placed[t] # None
        PROVE  Placed[t] = PlaceOf(t) /\ Holds(t) /\ reservations[t] \in Booking
    BY <2>1, ActiveIsBooking DEF Placed, Holds
  <2>2. ASSUME NEW t \in Reservations, Placed[t] # None, Placed[t].room = m
        PROVE  Abstract!Over(Placed[t])
    <3>1. Holds(t) /\ reservations[t].room = m /\ Placed[t] = PlaceOf(t)
      BY <2>1, <2>2 DEF PlaceOf
    <3>2. ended(t)
      BY <1>7, <3>1 DEF delete_room, Holds
    <3>. QED
      BY <3>1, <3>2 DEF PlaceOf, ended, End, Abstract!Over
  <2>3. ASSUME NEW t \in Reservations
        PROVE  Placed'[t] = IF Placed[t] # None /\ Placed[t].room = m THEN None ELSE Placed[t]
    <3>1. CASE Holds(t) /\ reservations[t].room = m
      <4>1. reservations'[t].room = NoRoom
        BY <1>7, <3>1, ActiveIsBooking DEF delete_room, Holds, Booking, None
      <4>2. Placed'[t] = None /\ Placed[t] = PlaceOf(t) /\ Placed[t].room = m
        BY <3>1, <4>1 DEF Placed, Holds, PlaceOf
      <4>. QED
        BY <4>2, PlaceIsNotVacant
    <3>2. CASE Holds(t) /\ reservations[t].room # m
      <4>1. reservations'[t] = reservations[t]
        BY <1>7, <3>2 DEF delete_room
      <4>. QED
        BY <3>2, <4>1 DEF Placed, Holds, IsActive, PlaceOf
    <3>3. CASE ~Holds(t)
      <4>1. IsActive(t)' => IsActive(t) /\ reservations'[t].room = NoRoom
        BY <1>7, <3>3, ActiveIsBooking DEF delete_room, Holds, IsActive, Booking, TypeOK, None
      <4>. QED
        BY <3>3, <4>1 DEF Placed, Holds
    <3>. QED
      BY <3>1, <3>2, <3>3
  <2>4. UNCHANGED now
    BY <1>7 DEF delete_room
  <2>5. Placed' = [t \in Reservations |->
                     IF Placed[t] # None /\ Placed[t].room = m THEN None ELSE Placed[t]]
    BY <2>3 DEF Placed
  <2>. QED
    BY <2>2, <2>4, <2>5 DEF Abstract!Next, Abstract!Retire
<1>8. CASE UNCHANGED bookingVars
  <2>1. UNCHANGED Placed
    BY <1>8 DEF bookingVars, Placed, IsActive, PlaceOf
  <2>. QED
    BY <2>1, ClockSteps DEF Abstract!Next, Abstract!Tick
<1>. QED
  BY <1>3, <1>4, <1>5, <1>6, <1>7, <1>8, BookingSteps

\* The reservation tables implement the calendar: for every number of users,
\* rooms and bookings, what the handlers do is placing, moving, handing over,
\* releasing and retiring, without overlaps and only as long as it may be done.
THEOREM BookingImplementsCalendar == Spec => ImplementsCalendar
<1>1. TypeOK /\ TypeOK' /\ BookedRoomsStay /\ NoDoubleBooking' /\ [Next]_vars
        => [Abstract!Next]_<<now, Placed>>
  BY StepCalendar
<1>. QED
  BY <1>1, InitCalendar, TypeCorrect, RoomsStay, NeverDoubleBooked, PTL
  DEF Spec, ImplementsCalendar, Abstract!Spec, Abstract!calendarVars

-----------------------------------------------------------------------------
(***************************************************************************)
(* The history of bookings and handovers: what a request promises, when it *)
(* may end, and that ownership follows consent.                            *)
(***************************************************************************)

(* The history of a booking *)

\* A change of r that goes through the handlers: one revision up from a row
\* whose room was not deleted, or the first revision of a new row.
LEMMA ChangeKeepsHistory ==
    ASSUME TypeOK, HistoryChain, UNCHANGED rooms,
           NEW r \in Reservations, NEW u \in Users,
           NEW type \in {"created", "updated", "cancelled", "handover"},
           NEW b \in Booking,
           reservations' = [reservations EXCEPT ![r] = b],
           insert_event(r, u, type),
           \/ reservations[r] = None /\ b.revision = 1
           \/ /\ reservations[r] \in Booking /\ reservations[r].room # NoRoom
              /\ b.revision = reservations[r].revision + 1
    PROVE  HistoryChain'
<1>. PICK new : new = [resv |-> r, actor |-> u, revision |-> b.revision, type |-> type,
                       before |-> reservations[r], after |-> b]
  OBVIOUS
<1>1. /\ reservations'[r] = b
      /\ \A t \in Reservations \ {r} : reservations'[t] = reservations[t]
  BY DEF TypeOK
<1>2. reservation_events' = reservation_events \cup {new}
  BY <1>1 DEF insert_event
<1>3. /\ new.resv = r /\ new.revision = b.revision /\ new.before = reservations[r]
      /\ new.after = b
  OBVIOUS
<1>4. \A e \in reservation_events :
         /\ e.resv \in Reservations /\ e.revision \in Nat \ {0} /\ e.after \in Booking
         /\ e.resv = r => /\ reservations[r] \in Booking
                          /\ e.revision < b.revision
  BY DEF TypeOK, EventRow, HistoryChain, EventsTell, Booking
<1>5. b.revision \in Nat \ {0} /\ b # None
  BY DEF Booking, None
<1>6. EventsTell'
  <2>1. ASSUME NEW e \in reservation_events
        PROVE  /\ reservations'[e.resv] # None
               /\ e.revision <= reservations'[e.resv].revision
               /\ e.after.revision = e.revision
               /\ e.revision = reservations'[e.resv].revision => Recorded(e.resv, e.after)'
               /\ e.revision = 1 <=> e.before = None
    <3>1. CASE e.resv = r
      BY <1>1, <1>4, <1>5, <3>1 DEF HistoryChain, EventsTell
    <3>2. CASE e.resv # r
      BY <1>1, <1>4, <3>2 DEF HistoryChain, EventsTell, Recorded
    <3>. QED
      BY <3>1, <3>2
  <2>2. /\ reservations'[new.resv] # None
        /\ new.revision <= reservations'[new.resv].revision
        /\ new.after.revision = new.revision
        /\ Recorded(new.resv, new.after)'
    BY <1>1, <1>3, <1>5 DEF Recorded
  <2>3. new.revision = 1 <=> new.before = None
    BY <1>3, <1>5 DEF Booking, None
  <2>. QED
    BY <1>2, <2>1, <2>2, <2>3 DEF EventsTell
<1>7. EventsLink'
  <2>1. ASSUME NEW e \in reservation_events, e.resv = r
        PROVE  /\ new.revision # e.revision /\ e.revision # new.revision + 1
               /\ new.revision = e.revision + 1 => new.before = e.after
    <3>1. reservations[r] \in Booking /\ e.revision < b.revision
      BY <1>4, <2>1
    <3>2. b.revision = reservations[r].revision + 1 /\ reservations[r].room # NoRoom
      BY <3>1 DEF Booking, None
    <3>3. ASSUME new.revision = e.revision + 1
          PROVE  new.before = e.after
      <4>1. e.revision = reservations[r].revision
        BY <1>3, <1>4, <3>1, <3>2, <3>3 DEF Booking
      <4>2. Recorded(r, e.after) /\ e.after \in Booking
        BY <1>4, <2>1, <4>1 DEF HistoryChain, EventsTell
      <4>. QED
        BY <1>3, <3>2, <4>2 DEF Recorded, Booking
    <3>. QED
      BY <1>3, <1>4, <1>5, <3>1, <3>3
  <2>2. ASSUME NEW e \in reservation_events, NEW f \in reservation_events, f.resv = e.resv
        PROVE  /\ f.revision = e.revision => f = e
               /\ f.revision = e.revision + 1 => f.before = e.after
    BY <2>2 DEF HistoryChain, EventsLink
  <2>. QED
    BY <1>2, <1>3, <1>5, <2>1, <2>2 DEF EventsLink
<1>8. EventsComplete'
  <2>1. ASSUME NEW t \in Reservations, reservations'[t] # None,
               NEW k \in 1 .. reservations'[t].revision
        PROVE  \E e \in reservation_events' : e.resv = t /\ e.revision = k
    <3>1. CASE t # r
      BY <1>1, <1>2, <2>1, <3>1 DEF HistoryChain, EventsComplete
    <3>2. CASE t = r /\ k = b.revision
      BY <1>2, <1>3, <3>2
    <3>3. CASE t = r /\ k # b.revision
      <4>1. k \in 1 .. (b.revision - 1)
        BY <1>1, <1>5, <3>3
      <4>2. reservations[r] # None /\ k \in 1 .. reservations[r].revision
        BY <1>5, <4>1 DEF Booking, None
      <4>. QED
        BY <1>2, <3>3, <4>2 DEF HistoryChain, EventsComplete
    <3>. QED
      BY <3>1, <3>2, <3>3
  <2>. QED
    BY <2>1 DEF EventsComplete
<1>. QED
  BY <1>6, <1>7, <1>8 DEF HistoryChain

LEMMA InitHistory == Init => HistoryChain
BY DEF Init, HistoryChain, EventsTell, EventsLink, EventsComplete

LEMMA StepHistory ==
    TypeOK /\ BookedRoomsStay /\ HistoryChain /\ [Next]_vars => HistoryChain'
<1>. SUFFICES ASSUME TypeOK, BookedRoomsStay, HistoryChain, [Next]_vars
              PROVE  HistoryChain'
  OBVIOUS
<1>1. ASSUME NEW r \in Reservations, IsActive(r), ~ended(r)
      PROVE  reservations[r] \in Booking /\ reservations[r].room # NoRoom
  <2>1. reservations[r] \in Booking
    BY <1>1, ActiveIsBooking
  <2>2. now < End(reservations[r])
    BY <1>1, <2>1 DEF ended, End, Booking, TypeOK
  <2>. QED
    BY <1>1, <2>1, <2>2 DEF BookedRoomsStay
<1>2. ASSUME NEW r \in Reservations, IsActive(r), ~started(r)
      PROVE  ~ended(r)
  BY <1>2, ActiveIsBooking DEF started, ended, End, Booking, TypeOK
<1>3. ASSUME NEW u \in Users, NEW r \in Reservations, NEW m \in Rooms,
             NEW s \in 1 .. LastSlot, NEW n \in 1 .. MaxSlots,
             create_reservation(u, r, m, s, n)
      PROVE  HistoryChain'
  <2>1. PICK b \in Booking : /\ b.revision = 1
                             /\ reservations' = [reservations EXCEPT ![r] = b]
    <3>1. [status |-> "active", room |-> m, start |-> s, len |-> n,
           owner |-> u, revision |-> 1] \in Booking
      BY ConstantsAssumption DEF Booking
    <3>. QED
      BY <1>3, <3>1 DEF create_reservation
  <2>2. /\ UNCHANGED rooms /\ reservations[r] = None
        /\ insert_event(r, u, "created")
    BY <1>3 DEF create_reservation, accountVars
  <2>. QED
    BY <2>1, <2>2, ChangeKeepsHistory
<1>4. ASSUME NEW u \in Users, NEW r \in Reservations, NEW m \in Rooms,
             NEW s \in 1 .. LastSlot, NEW n \in 1 .. MaxSlots, NEW e \in 1 .. MaxRevision,
             update_reservation(u, r, e, m, s, n)
      PROVE  HistoryChain'
  <2>1. reservations[r] \in Booking /\ reservations[r].room # NoRoom
    BY <1>1, <1>2, <1>4 DEF update_reservation, load_mutable_reservation
  <2>2. PICK b \in Booking : /\ b.revision = reservations[r].revision + 1
                             /\ reservations' = [reservations EXCEPT ![r] = b]
    <3>1. reservations'[r] \in Booking /\ reservations'[r].revision = reservations[r].revision + 1
      BY <1>4, <2>1, ConstantsAssumption DEF update_reservation, TypeOK, Booking
    <3>2. reservations' = [reservations EXCEPT ![r] = reservations'[r]]
      BY <1>4, <2>1 DEF update_reservation, TypeOK
    <3>. QED
      BY <3>1, <3>2
  <2>3. UNCHANGED rooms /\ insert_event(r, u, "updated")
    BY <1>4 DEF update_reservation, accountVars
  <2>. QED
    BY <2>1, <2>2, <2>3, ChangeKeepsHistory
<1>5. ASSUME NEW u \in Users, NEW r \in Reservations, NEW e \in 1 .. MaxRevision,
             cancel_reservation(u, r, e)
      PROVE  HistoryChain'
  <2>1. reservations[r] \in Booking /\ reservations[r].room # NoRoom
    BY <1>1, <1>5 DEF cancel_reservation, load_mutable_reservation
  <2>2. PICK b \in Booking : /\ b.revision = reservations[r].revision + 1
                             /\ reservations' = [reservations EXCEPT ![r] = b]
    <3>1. reservations'[r] \in Booking /\ reservations'[r].revision = reservations[r].revision + 1
      BY <1>5, <2>1, ConstantsAssumption DEF cancel_reservation, TypeOK, Booking
    <3>2. reservations' = [reservations EXCEPT ![r] = reservations'[r]]
      BY <1>5, <2>1 DEF cancel_reservation, TypeOK
    <3>. QED
      BY <3>1, <3>2
  <2>3. UNCHANGED rooms /\ insert_event(r, u, "cancelled")
    BY <1>5 DEF cancel_reservation, accountVars
  <2>. QED
    BY <2>1, <2>2, <2>3, ChangeKeepsHistory
<1>6. ASSUME NEW u \in Users, NEW r \in Reservations, NEW to \in Users,
             HandoverStep(u, r, to)
      PROVE  HistoryChain'
  <2>1. reservations[r] \in Booking /\ reservations[r].room # NoRoom
    BY <1>1, <1>2, <1>6 DEF HandoverStep
  <2>2. PICK b \in Booking : /\ b.revision = reservations[r].revision + 1
                             /\ reservations' = [reservations EXCEPT ![r] = b]
    <3>1. reservations'[r] \in Booking /\ reservations'[r].revision = reservations[r].revision + 1
      BY <1>6, <2>1, ConstantsAssumption DEF HandoverStep, apply_handover, TypeOK, Booking
    <3>2. reservations' = [reservations EXCEPT ![r] = reservations'[r]]
      BY <1>6, <2>1 DEF HandoverStep, apply_handover, TypeOK
    <3>. QED
      BY <3>1, <3>2
  <2>3. UNCHANGED rooms /\ insert_event(r, u, "handover")
    BY <1>6 DEF HandoverStep, apply_handover
  <2>. QED
    BY <2>1, <2>2, <2>3, ChangeKeepsHistory
<1>7. ASSUME NEW u \in Users, NEW m \in Rooms, delete_room(u, m)
      PROVE  HistoryChain'
  <2>1. ASSUME NEW t \in Reservations, reservations[t] # None
        PROVE  /\ reservations'[t] # None
               /\ reservations'[t].revision = reservations[t].revision
               /\ \A row \in Booking : Recorded(t, row) => Recorded(t, row)'
    <3>1. reservations[t] \in Booking
      BY <2>1 DEF TypeOK
    <3>2. rooms' = [rooms EXCEPT ![m] = "deleted"]
      BY <1>7 DEF delete_room
    <3>3. CASE reservations[t].room = m
      BY <1>7, <3>1, <3>2, <3>3, ConstantsAssumption
      DEF delete_room, Recorded, Booking, None, TypeOK
    <3>4. CASE reservations[t].room # m
      <4>1. reservations'[t] = reservations[t]
        BY <1>7, <3>4 DEF delete_room
      <4>. QED
        BY <2>1, <3>2, <4>1 DEF Recorded, TypeOK
    <3>. QED
      BY <3>3, <3>4
  <2>2. UNCHANGED reservation_events
    BY <1>7 DEF delete_room
  <2>3. \A t \in Reservations : reservations'[t] # None => reservations[t] # None
    BY <1>7 DEF delete_room
  <2>. QED
    BY <2>1, <2>2, <2>3
    DEF HistoryChain, EventsTell, EventsLink, EventsComplete, TypeOK, EventRow
<1>8. ASSUME NEW u \in Users, NEW m \in Rooms, NEW b \in BOOLEAN,
             create_room(u, m, b) \/ update_room(u, m, b)
      PROVE  HistoryChain'
  <2>1. /\ UNCHANGED bookingVars
        /\ \A k \in Rooms : rooms[k] = "deleted" => rooms'[k] = "deleted"
    BY <1>8 DEF create_room, update_room, TypeOK
  <2>. QED
    BY <2>1 DEF bookingVars, HistoryChain, EventsTell, EventsLink, EventsComplete, Recorded
<1>9. CASE UNCHANGED bookingVars /\ UNCHANGED rooms
  BY <1>9 DEF bookingVars, HistoryChain, EventsTell, EventsLink, EventsComplete, Recorded
<1>. QED
  BY <1>3, <1>4, <1>5, <1>6, <1>7, <1>8, <1>9, BookingSteps, RoomSteps

\* The chain of revisions has no gap, no fork and no event that tells another
\* story than the booking it led to.
THEOREM HistoryAlways == Spec => []HistoryChain
<1>. DEFINE Inv == TypeOK /\ BookedRoomsStay /\ HistoryChain
<1>1. Inv /\ [Next]_vars => Inv'
  BY StepType, StepRooms, StepHistory
<1>2. Init => Inv
  BY InitType, InitRooms, InitHistory
<1>. QED
  BY <1>1, <1>2, PTL DEF Spec
-----------------------------------------------------------------------------
(* Requests *)

LEMMA CloseEnds ==
    ASSUME NEW Q, \A q \in Q : IsPending(q), NEW how \in Closed,
           handover_requests' = Close(Q, how)
    PROVE  \A q \in Requests : StaysOrEnds(q)
BY DEF Close, StaysOrEnds

LEMMA HandoverRequestSteps ==
    ASSUME TypeOK, [Next]_vars
    PROVE  \/ \E u, to \in Users, r \in Reservations, q \in Requests :
                 request_handover(u, r, to, q)
           \/ \A q \in Requests : StaysOrEnds(q)
<1>1. ASSUME NEW u \in Users, NEW r \in Reservations, ReservationStep(u, r)
      PROVE  \/ \E to \in Users, q \in Requests : request_handover(u, r, to, q)
             \/ \A q \in Requests : StaysOrEnds(q)
  <2>1. ASSUME NEW m, NEW s, NEW n, create_reservation(u, r, m, s, n)
        PROVE  UNCHANGED handover_requests
    BY <2>1 DEF create_reservation, handoverVars
  <2>2. ASSUME NEW m, NEW s, NEW n, NEW e, update_reservation(u, r, e, m, s, n)
        PROVE  UNCHANGED handover_requests
    BY <2>2 DEF update_reservation, handoverVars
  <2>3. ASSUME NEW e, cancel_reservation(u, r, e)
        PROVE  UNCHANGED handover_requests
    BY <2>3 DEF cancel_reservation, handoverVars
  <2>4. ASSUME NEW to, assign_handover(u, r, to)
        PROVE  \A q \in Requests : StaysOrEnds(q)
    BY <2>4, CloseEnds DEF assign_handover, PendingOf, Closed
  <2>. QED
    BY <1>1, <2>1, <2>2, <2>3, <2>4 DEF ReservationStep, StaysOrEnds
<1>2. ASSUME NEW u \in Users, NEW p \in Requests, RequestStep(u, p)
      PROVE  \A q \in Requests : StaysOrEnds(q)
  <2>1. ASSUME decline_handover(u, p)
        PROVE  \A q \in Requests : StaysOrEnds(q)
    BY <2>1, CloseEnds DEF decline_handover, MayDecide, Closed
  <2>2. ASSUME accept_handover(u, p)
        PROVE  \A q \in Requests : StaysOrEnds(q)
    <3>1. handover_requests[p] \in RequestRow /\ IsPending(p)
      BY <2>2, PendingIsRequest DEF accept_handover, MayDecide
    <3>2. p \in PendingOf(handover_requests[p].resv)
      BY <3>1 DEF PendingOf
    <3>3. ASSUME NEW q \in Requests \ {p}
          PROVE  StaysOrEnds(q)
      BY <2>2, <3>3 DEF accept_handover, Close, PendingOf, Closed, StaysOrEnds
    <3>4. handover_requests'[p] = [handover_requests[p] EXCEPT !.status = "accepted"]
      BY <2>2, <3>1, <3>2 DEF accept_handover, Close, RequestRow
    <3>. QED
      BY <3>1, <3>3, <3>4 DEF StaysOrEnds, Closed
  <2>3. ASSUME find_undecidable(u, p)
        PROVE  \A q \in Requests : StaysOrEnds(q)
    BY <2>3 DEF find_undecidable, StaysOrEnds
  <2>4. ASSUME expire_request(u, p)
        PROVE  \A q \in Requests : StaysOrEnds(q)
    BY <2>4, CloseEnds DEF expire_request, Closed, StaysOrEnds
  <2>5. ASSUME withdraw_handover(u, p)
        PROVE  \A q \in Requests : StaysOrEnds(q)
    BY <2>5, CloseEnds DEF withdraw_handover, Closed
  <2>. QED
    BY <1>2, <2>1, <2>2, <2>3, <2>4, <2>5 DEF RequestStep
<1>3. ASSUME NEW u \in Users, AdminStep(u)
      PROVE  \A q \in Requests : StaysOrEnds(q)
  <2>1. ASSUME NEW v \in Users, NEW role, NEW b, update_user(u, v, role, b)
        PROVE  \A q \in Requests : StaysOrEnds(q)
    BY <2>1, CloseEnds DEF update_user, PendingWith, Closed, StaysOrEnds
  <2>. QED
    BY <1>3, <2>1 DEF AdminStep, create_room, update_room, delete_room, create_user,
                      reset_password, update_system_settings, handoverVars, StaysOrEnds
<1>4. CASE Tick \/ Crash \/ UNCHANGED vars
  BY <1>4 DEF Tick, Crash, vars, handoverVars, StaysOrEnds
<1>. QED
  BY <1>1, <1>2, <1>3, <1>4 DEF Next

LEMMA RequestsStayOrEnd ==
    ASSUME TypeOK, [Next]_vars
    PROVE  \A q \in Requests : handover_requests[q] # None => StaysOrEnds(q)
<1>1. ASSUME NEW u \in Users, NEW to \in Users, NEW r \in Reservations,
             NEW p \in Requests, request_handover(u, r, to, p)
      PROVE  \A q \in Requests : handover_requests[q] # None => StaysOrEnds(q)
  BY <1>1 DEF request_handover, Close, StaleOf, PendingOf, Closed, StaysOrEnds
<1>. QED
  BY <1>1, HandoverRequestSteps

LEMMA PendingStays ==
    ASSUME TypeOK, NEW q \in Requests, StaysOrEnds(q), IsPending(q)'
    PROVE  IsPending(q) /\ handover_requests'[q] = handover_requests[q]
BY PendingIsRequest DEF StaysOrEnds, IsPending, RequestRow, Closed

\* No handler, however late its second transaction comes, rewrites the terms
\* of a request or an outcome it already has.
THEOREM OutcomesAreFinal == Spec => RequestsFinal
<1>1. TypeOK /\ [Next]_vars =>
        [\A q \in Requests : handover_requests[q] # None => StaysOrEnds(q)]_vars
  BY RequestsStayOrEnd
<1>. QED
  BY <1>1, TypeCorrect, PTL DEF Spec, RequestsFinal

\* An account that was never created is not enabled.
AbsentDisabled == \A u \in Users : users[u].is_active => users[u].role # "none"

LEMMA StepAbsent == TypeOK /\ AbsentDisabled /\ [Next]_vars => AbsentDisabled'
<1>. SUFFICES ASSUME TypeOK, AbsentDisabled, [Next]_vars PROVE AbsentDisabled'
  OBVIOUS
<1>1. ASSUME NEW u \in Users, NEW v \in Users, NEW role \in {"admin", "employee"},
             NEW b \in BOOLEAN, create_user(u, v, role, b) \/ update_user(u, v, role, b)
      PROVE  AbsentDisabled'
  <2>1. users' = [users EXCEPT ![v] = [role |-> role, is_active |-> b]]
    BY <1>1 DEF create_user, update_user
  <2>. QED
    BY <2>1 DEF AbsentDisabled, TypeOK
<1>2. CASE UNCHANGED users
  BY <1>2 DEF AbsentDisabled
<1>. QED
  BY <1>1, <1>2, UserSteps

\* An account that stays a party of a pending request stays enabled.
LEMMA PartyStaysEnabled ==
    ASSUME TypeOK, AbsentDisabled, [Next]_vars,
           NEW q \in Requests, IsPending(q), IsPending(q)',
           NEW v \in {handover_requests[q].from, handover_requests[q].to},
           v \in Users, users[v].is_active
    PROVE  users'[v].is_active
<1>1. ASSUME NEW u \in Users, NEW w \in Users, NEW role \in {"admin", "employee"},
             NEW b \in BOOLEAN, create_user(u, w, role, b)
      PROVE  users'[v].is_active
  BY <1>1 DEF create_user, AbsentDisabled, TypeOK
<1>2. ASSUME NEW u \in Users, NEW w \in Users, NEW role \in {"admin", "employee"},
             NEW b \in BOOLEAN, update_user(u, w, role, b)
      PROVE  users'[v].is_active
  <2>1. CASE w # v \/ b
    BY <1>2, <2>1 DEF update_user, TypeOK
  <2>2. CASE w = v /\ ~b
    <3>1. q \in PendingWith(w)
      BY <2>2 DEF PendingWith
    <3>2. handover_requests'[q] = [handover_requests[q] EXCEPT !.status = "expired"]
      BY <1>2, <2>2, <3>1 DEF update_user, Close
    <3>. QED
      BY <3>2, PendingIsRequest DEF IsPending, RequestRow
  <2>. QED
    BY <2>1, <2>2
<1>3. CASE UNCHANGED users
  BY <1>3
<1>. QED
  BY <1>1, <1>2, <1>3, UserSteps

\* A step that leaves the request pending leaves its booking with its owner.
LEMMA OwnerStaysWhilePending ==
    ASSUME TypeOK, [Next]_vars, NEW q \in Requests, IsPending(q), IsPending(q)',
           NEW t \in Reservations, t = handover_requests[q].resv, reservations[t] \in Booking
    PROVE  /\ reservations'[t] # None
           /\ reservations'[t].owner = reservations[t].owner
           /\ reservations[t].revision <= reservations'[t].revision
<1>1. ASSUME NEW u \in Users, NEW r \in Reservations, NEW m \in Rooms,
             NEW s \in 1 .. LastSlot, NEW n \in 1 .. MaxSlots,
             create_reservation(u, r, m, s, n)
      PROVE  reservations'[t] = reservations[t]
  BY <1>1 DEF create_reservation, None, Booking
<1>2. ASSUME NEW u \in Users, NEW r \in Reservations, NEW m \in Rooms,
             NEW s \in 1 .. LastSlot, NEW n \in 1 .. MaxSlots, NEW e \in 1 .. MaxRevision,
             update_reservation(u, r, e, m, s, n)
      PROVE  /\ reservations'[t].status # "none"
             /\ reservations'[t].owner = reservations[t].owner
             /\ reservations[t].revision <= reservations'[t].revision
  BY <1>2 DEF update_reservation, Booking, TypeOK
<1>3. ASSUME NEW u \in Users, NEW r \in Reservations, NEW e \in 1 .. MaxRevision,
             cancel_reservation(u, r, e)
      PROVE  /\ reservations'[t].status # "none"
             /\ reservations'[t].owner = reservations[t].owner
             /\ reservations[t].revision <= reservations'[t].revision
  BY <1>3 DEF cancel_reservation, Booking, TypeOK
<1>4. ASSUME NEW u \in Users, NEW r \in Reservations, NEW to \in Users,
             HandoverStep(u, r, to)
      PROVE  reservations'[t] = reservations[t]
  <2>1. t # r
    BY <1>4 DEF HandoverStep, PendingOf
  <2>. QED
    BY <1>4, <2>1 DEF HandoverStep, apply_handover, TypeOK
<1>5. ASSUME NEW u \in Users, NEW m \in Rooms, delete_room(u, m)
      PROVE  /\ reservations'[t].status # "none"
             /\ reservations'[t].owner = reservations[t].owner
             /\ reservations[t].revision <= reservations'[t].revision
  BY <1>5 DEF delete_room, Booking
<1>6. ASSUME UNCHANGED bookingVars
      PROVE  reservations'[t] = reservations[t]
  BY <1>6 DEF bookingVars
<1>7. reservations[t] # None /\ reservations[t].revision <= reservations[t].revision
  BY DEF Booking, None
<1>8. reservations'[t].status # "none" => reservations'[t] # None
  BY DEF None
<1>9. CASE reservations'[t] = reservations[t]
  BY <1>7, <1>9
<1>. QED
  BY <1>1, <1>2, <1>3, <1>4, <1>5, <1>6, <1>8, <1>9, BookingSteps

LEMMA InitRequests == Init => AbsentDisabled /\ PendingIsOwners
BY DEF Init, AbsentDisabled, PendingIsOwners, IsPending, None

LEMMA StepRequests ==
    TypeOK /\ AbsentDisabled /\ PendingIsOwners /\ [Next]_vars => PendingIsOwners'
<1>. SUFFICES ASSUME TypeOK, AbsentDisabled, PendingIsOwners, [Next]_vars,
                     NEW q \in Requests, IsPending(q)'
              PROVE  IsOwners(q)'
  BY DEF PendingIsOwners
<1>1. ASSUME \A p \in Requests : StaysOrEnds(p)
      PROVE  IsOwners(q)'
  <2>. DEFINE row == handover_requests[q]
  <2>1. /\ IsPending(q) /\ handover_requests'[q] = row
        /\ row \in RequestRow
    BY <1>1, PendingStays, PendingIsRequest
  <2>2. IsOwners(q)
    BY <2>1 DEF PendingIsOwners
  <2>3. reservations[row.resv] \in Booking /\ row.resv \in Reservations
    BY <2>1, <2>2 DEF IsOwners, TypeOK, RequestRow
  <2>4. /\ reservations'[row.resv] # None
        /\ reservations'[row.resv].owner = reservations[row.resv].owner
        /\ reservations[row.resv].revision <= reservations'[row.resv].revision
    BY <2>1, <2>3, OwnerStaysWhilePending
  <2>5. users'[row.from].is_active /\ users'[row.to].is_active
    BY <2>1, <2>2, PartyStaysEnabled DEF IsOwners, RequestRow
  <2>6. row.expected_revision <= reservations'[row.resv].revision
    <3>1. reservations'[row.resv].revision \in Nat
      BY <2>3, <2>4, StepType DEF TypeOK, Booking
    <3>. QED
      BY <2>1, <2>2, <2>3, <2>4, <3>1 DEF IsOwners, RequestRow, Booking
  <2>7. PendingOf(row.resv)' = {q}
    <3>1. \A p \in Requests : IsPending(p)' =>
             IsPending(p) /\ handover_requests'[p] = handover_requests[p]
      BY <1>1, PendingStays
    <3>. QED
      BY <2>1, <2>2, <3>1 DEF IsOwners, PendingOf
  <2>. QED
    BY <2>1, <2>2, <2>4, <2>5, <2>6, <2>7 DEF IsOwners, PendingOf
<1>2. ASSUME NEW u \in Users, NEW to \in Users, NEW r \in Reservations,
             NEW p \in Requests, request_handover(u, r, to, p)
      PROVE  IsOwners(q)'
  <2>. DEFINE new == [status |-> "pending", resv |-> r, from |-> u, to |-> to,
                      expected_revision |-> reservations[r].revision]
  <2>1. /\ UNCHANGED <<reservations, users>>
        /\ handover_requests' = [Close(StaleOf(r), "expired") EXCEPT ![p] = new]
        /\ PendingOf(r) \subseteq StaleOf(r)
    BY <1>2 DEF request_handover, bookingVars, accountVars
  <2>2. handover_requests'[p] = new
    BY <2>1 DEF Close
  <2>3. ASSUME NEW x \in Requests \ {p}, IsPending(x)'
        PROVE  /\ IsPending(x) /\ handover_requests'[x] = handover_requests[x]
               /\ handover_requests[x].resv # r
    <3>1. handover_requests'[x] = Close(StaleOf(r), "expired")[x]
      BY <2>1 DEF Close
    <3>2. x \notin StaleOf(r)
      BY <2>3, <3>1, PendingIsRequest
      DEF Close, StaleOf, PendingOf, IsPending, RequestRow
    <3>. QED
      BY <2>1, <2>3, <3>1, <3>2 DEF Close, PendingOf, IsPending
  <2>4. reservations[r] \in Booking
    BY <1>2, ActiveIsBooking DEF request_handover, HandoverAllowed, load_mutable_reservation
  <2>5. CASE q = p
    <3>1. PendingOf(r)' = {p}
      BY <2>2, <2>3 DEF PendingOf, IsPending
    <3>2. /\ reservations[r].owner = u /\ to # u
          /\ users[u].is_active /\ users[to].is_active
      BY <1>2 DEF request_handover, HandoverAllowed, locked_actor
    <3>. QED
      BY <2>1, <2>2, <2>4, <2>5, <3>1, <3>2 DEF IsOwners, Booking, None
  <2>6. CASE q # p
    <3>. DEFINE row == handover_requests[q]
    <3>1. IsPending(q) /\ handover_requests'[q] = row /\ row.resv # r /\ IsOwners(q)
      BY <2>3, <2>6 DEF PendingIsOwners
    <3>2. PendingOf(row.resv)' = {q}
      BY <2>2, <2>3, <3>1 DEF PendingOf, IsOwners
    <3>. QED
      BY <2>1, <3>1, <3>2 DEF IsOwners, PendingOf
  <2>. QED
    BY <2>5, <2>6
<1>. QED
  BY <1>1, <1>2, HandoverRequestSteps

\* A pending request is always the only one of the current owner, between two
\* enabled accounts.
THEOREM PendingAlwaysOwners == Spec => []PendingIsOwners
<1>. DEFINE Inv == TypeOK /\ AbsentDisabled /\ PendingIsOwners
<1>1. Inv /\ [Next]_vars => Inv'
  BY StepType, StepAbsent, StepRequests
<1>2. Init => Inv
  BY InitType, InitRequests
<1>. QED
  BY <1>1, <1>2, PTL DEF Spec
-----------------------------------------------------------------------------
(* Consent *)

LEMMA InitAccepted == Init => AcceptedAsOffered
BY DEF Init, AcceptedAsOffered, None

LEMMA EventsGrow ==
    ASSUME TypeOK, [Next]_vars
    PROVE  reservation_events \subseteq reservation_events'
<1>1. ASSUME NEW u \in Users, NEW r \in Reservations, NEW type, insert_event(r, u, type)
      PROVE  reservation_events \subseteq reservation_events'
  BY <1>1 DEF insert_event
<1>2. ASSUME NEW u \in Users, NEW r \in Reservations, NEW m, NEW s, NEW n,
             \/ create_reservation(u, r, m, s, n)
             \/ \E e \in 1 .. MaxRevision : update_reservation(u, r, e, m, s, n)
      PROVE  reservation_events \subseteq reservation_events'
  BY <1>1, <1>2 DEF create_reservation, update_reservation
<1>3. ASSUME NEW u \in Users, NEW r \in Reservations, NEW e, cancel_reservation(u, r, e)
      PROVE  reservation_events \subseteq reservation_events'
  BY <1>1, <1>3 DEF cancel_reservation
<1>4. ASSUME NEW u \in Users, NEW r \in Reservations, NEW to, HandoverStep(u, r, to)
      PROVE  reservation_events \subseteq reservation_events'
  BY <1>1, <1>4 DEF HandoverStep, apply_handover
<1>5. ASSUME NEW u, NEW m, delete_room(u, m)
      PROVE  reservation_events \subseteq reservation_events'
  BY <1>5 DEF delete_room
<1>6. CASE UNCHANGED bookingVars
  BY <1>6 DEF bookingVars
<1>. QED
  BY <1>2, <1>3, <1>4, <1>5, <1>6, BookingSteps

\* A request becomes accepted by accept_handover and by nothing else.
LEMMA OnlyAcceptAccepts ==
    ASSUME TypeOK, [Next]_vars, NEW q \in Requests,
           handover_requests[q].status # "accepted",
           handover_requests'[q].status = "accepted"
    PROVE  \E u \in Users : accept_handover(u, q)
<1>1. ASSUME NEW Q, \A p \in Q : p \in Requests /\ IsPending(p),
             NEW how \in Closed \ {"accepted"},
             handover_requests' = Close(Q, how)
      PROVE  FALSE
  BY <1>1, PendingIsRequest DEF Close, RequestRow
<1>2. ASSUME UNCHANGED handover_requests
      PROVE  FALSE
  BY <1>2
<1>3. ASSUME NEW u \in Users, NEW r \in Reservations, ReservationStep(u, r)
      PROVE  FALSE
  <2>1. ASSUME NEW m, NEW s, NEW n, create_reservation(u, r, m, s, n)
        PROVE  FALSE
    BY <1>2, <2>1 DEF create_reservation, handoverVars
  <2>2. ASSUME NEW m, NEW s, NEW n, NEW e, update_reservation(u, r, e, m, s, n)
        PROVE  FALSE
    BY <1>2, <2>2 DEF update_reservation, handoverVars
  <2>3. ASSUME NEW e, cancel_reservation(u, r, e)
        PROVE  FALSE
    BY <1>2, <2>3 DEF cancel_reservation, handoverVars
  <2>4. ASSUME NEW to, assign_handover(u, r, to)
        PROVE  FALSE
    BY <1>1, <2>4 DEF assign_handover, PendingOf, Closed
  <2>5. ASSUME NEW to, NEW p \in Requests, request_handover(u, r, to, p)
        PROVE  FALSE
    BY <2>5, PendingIsRequest DEF request_handover, Close, StaleOf, PendingOf, RequestRow
  <2>. QED
    BY <1>3, <2>1, <2>2, <2>3, <2>4, <2>5 DEF ReservationStep
<1>4. ASSUME NEW u \in Users, NEW p \in Requests, RequestStep(u, p)
      PROVE  accept_handover(u, q)
  <2>1. ASSUME decline_handover(u, p)
        PROVE  FALSE
    BY <1>1, <2>1 DEF decline_handover, MayDecide, Closed
  <2>2. ASSUME accept_handover(u, p), p # q
        PROVE  FALSE
    BY <2>2, PendingIsRequest DEF accept_handover, Close, PendingOf, RequestRow
  <2>3. ASSUME find_undecidable(u, p)
        PROVE  FALSE
    BY <1>2, <2>3 DEF find_undecidable
  <2>4. ASSUME expire_request(u, p)
        PROVE  FALSE
    BY <1>1, <1>2, <2>4 DEF expire_request, Closed
  <2>5. ASSUME withdraw_handover(u, p)
        PROVE  FALSE
    BY <1>1, <2>5 DEF withdraw_handover, Closed
  <2>. QED
    BY <1>4, <2>1, <2>2, <2>3, <2>4, <2>5 DEF RequestStep
<1>5. ASSUME NEW u \in Users, AdminStep(u)
      PROVE  FALSE
  <2>1. ASSUME NEW v \in Users, NEW role, NEW b, update_user(u, v, role, b)
        PROVE  FALSE
    BY <1>1, <1>2, <2>1 DEF update_user, PendingWith, Closed
  <2>2. ASSUME UNCHANGED handoverVars \/ UNCHANGED handover_requests
        PROVE  FALSE
    BY <1>2, <2>2 DEF handoverVars
  <2>. QED
    BY <1>5, <2>1, <2>2 DEF AdminStep, create_room, update_room, delete_room, create_user,
                            reset_password, update_system_settings
<1>6. CASE Tick \/ Crash \/ UNCHANGED vars
  BY <1>2, <1>6 DEF Tick, Crash, vars, handoverVars
<1>. QED
  BY <1>3, <1>4, <1>5, <1>6 DEF Next

LEMMA StepAccepted ==
    TypeOK /\ PendingIsOwners /\ AcceptedAsOffered /\ [Next]_vars => AcceptedAsOffered'
<1>. SUFFICES ASSUME TypeOK, PendingIsOwners, AcceptedAsOffered, [Next]_vars,
                     NEW q \in Requests, handover_requests'[q].status = "accepted"
              PROVE  LET row == handover_requests'[q] IN
                     \E e \in reservation_events' :
                         /\ e.resv = row.resv /\ e.type = "handover"
                         /\ e.revision = row.expected_revision + 1
                         /\ e.actor = row.to
                         /\ e.before.owner = row.from /\ e.after.owner = row.to
  BY DEF AcceptedAsOffered
<1>1. CASE handover_requests[q].status = "accepted"
  <2>1. handover_requests'[q] = handover_requests[q]
    BY <1>1, RequestsStayOrEnd DEF StaysOrEnds, IsPending, None
  <2>. QED
    BY <1>1, <2>1, EventsGrow DEF AcceptedAsOffered
<1>2. CASE handover_requests[q].status # "accepted"
  <2>. DEFINE row == handover_requests[q]
              r == row.resv
  <2>1. PICK u \in Users : accept_handover(u, q)
    BY <1>2, OnlyAcceptAccepts
  <2>2. /\ row \in RequestRow /\ IsPending(q) /\ row.to = u /\ IsOwners(q)
        /\ reservations[r].revision = row.expected_revision
    BY <2>1, PendingIsRequest
    DEF accept_handover, MayDecide, Decidable, PendingIsOwners
  <2>3. /\ reservations[r] \in Booking /\ r \in Reservations
        /\ reservations[r].owner = row.from
    BY <2>2 DEF IsOwners, TypeOK, RequestRow
  <2>4. /\ reservations'[r].owner = u
        /\ reservations'[r].revision = row.expected_revision + 1
    BY <2>1, <2>2, <2>3 DEF accept_handover, apply_handover, Booking, TypeOK
  <2>5. [resv |-> r, actor |-> u, revision |-> reservations'[r].revision,
         type |-> "handover", before |-> reservations[r], after |-> reservations'[r]]
           \in reservation_events'
    BY <2>1 DEF accept_handover, apply_handover, insert_event
  <2>6. /\ handover_requests'[q].resv = row.resv
        /\ handover_requests'[q].to = row.to /\ handover_requests'[q].from = row.from
        /\ handover_requests'[q].expected_revision = row.expected_revision
    <3>1. StaysOrEnds(q)
      BY <2>2, RequestsStayOrEnd DEF RequestRow, None
    <3>. QED
      BY <2>2, <3>1 DEF StaysOrEnds, RequestRow
  <2>. QED
    BY <2>2, <2>3, <2>4, <2>5, <2>6
<1>. QED
  BY <1>1, <1>2

\* Every accepted request is matched by the one change of owner it offered.
THEOREM AcceptedAlwaysAsOffered == Spec => []AcceptedAsOffered
<1>. DEFINE Inv == TypeOK /\ AbsentDisabled /\ PendingIsOwners /\ AcceptedAsOffered
<1>1. Inv /\ [Next]_vars => Inv'
  BY StepType, StepAbsent, StepRequests, StepAccepted
<1>2. Init => Inv
  BY InitType, InitRequests, InitAccepted
<1>. QED
  BY <1>1, <1>2, PTL DEF Spec

\* Only the two handovers change an owner.
LEMMA OwnerChanges ==
    ASSUME TypeOK, [Next]_vars, NEW r \in Reservations, reservations[r] # None,
           reservations'[r].owner # reservations[r].owner
    PROVE  \/ \E u, to \in Users : assign_handover(u, r, to)
           \/ \E u \in Users, q \in Requests :
                 accept_handover(u, q) /\ handover_requests[q].resv = r
<1>. USE DEF TypeOK
<1>1. ASSUME NEW u \in Users, NEW t \in Reservations, ReservationStep(u, t)
      PROVE  \E to \in Users : assign_handover(u, r, to)
  <2>1. ASSUME NEW m, NEW s, NEW n, create_reservation(u, t, m, s, n)
        PROVE  FALSE
    BY <2>1 DEF create_reservation
  <2>2. ASSUME NEW m, NEW s, NEW n, NEW e, update_reservation(u, t, e, m, s, n)
        PROVE  FALSE
    BY <2>2 DEF update_reservation
  <2>3. ASSUME NEW e, cancel_reservation(u, t, e)
        PROVE  FALSE
    BY <2>3 DEF cancel_reservation
  <2>4. ASSUME NEW to \in Users, assign_handover(u, t, to), t # r
        PROVE  FALSE
    BY <2>4 DEF assign_handover, apply_handover
  <2>5. ASSUME NEW to, NEW p, request_handover(u, t, to, p)
        PROVE  FALSE
    BY <2>5 DEF request_handover, bookingVars
  <2>. QED
    BY <1>1, <2>1, <2>2, <2>3, <2>4, <2>5 DEF ReservationStep
<1>2. ASSUME NEW u \in Users, NEW q \in Requests, RequestStep(u, q)
      PROVE  accept_handover(u, q) /\ handover_requests[q].resv = r
  <2>1. ASSUME accept_handover(u, q), handover_requests[q].resv # r
        PROVE  FALSE
    <3>1. handover_requests[q].resv \in Reservations
      BY <2>1, PendingIsRequest DEF accept_handover, MayDecide, RequestRow
    <3>. QED
      BY <2>1, <3>1 DEF accept_handover, apply_handover
  <2>2. ~UNCHANGED bookingVars
    BY DEF bookingVars
  <2>. QED
    BY <1>2, <2>1, <2>2 DEF RequestStep, decline_handover, find_undecidable,
                            expire_request, withdraw_handover
<1>3. ASSUME NEW u \in Users, AdminStep(u)
      PROVE  FALSE
  <2>1. ASSUME NEW m \in Rooms, delete_room(u, m)
        PROVE  FALSE
    BY <2>1 DEF delete_room, Booking
  <2>2. ~UNCHANGED bookingVars
    BY DEF bookingVars
  <2>. QED
    BY <1>3, <2>1, <2>2 DEF AdminStep, create_room, update_room, create_user, update_user,
                            reset_password, update_system_settings
<1>4. CASE Tick \/ Crash \/ UNCHANGED vars
  BY <1>4 DEF Tick, Crash, vars, bookingVars
<1>. QED
  BY <1>1, <1>2, <1>3, <1>4 DEF Next

LEMMA ConsentStep ==
    ASSUME TypeOK, PendingIsOwners, [Next]_vars, NEW r \in Reservations,
           reservations[r] # None, reservations'[r].owner # reservations[r].owner
    PROVE  ByConsent(r)
<1>1. reservations[r] \in Booking
  BY DEF TypeOK
<1>2. ASSUME NEW u \in Users, NEW to \in Users, apply_handover(u, r, to)
      PROVE  /\ reservations'[r] = [reservations[r] EXCEPT !.owner = to, !.revision = @ + 1]
             /\ reservations'[r].owner = to
             /\ [resv |-> r, actor |-> u, revision |-> reservations'[r].revision,
                 type |-> "handover", before |-> reservations[r],
                 after |-> reservations'[r]] \in reservation_events'
  BY <1>1, <1>2 DEF apply_handover, insert_event, TypeOK, Booking
<1>3. ASSUME NEW u \in Users, NEW to \in Users, assign_handover(u, r, to)
      PROVE  u \in ActiveAdmins /\ u # reservations[r].owner /\ apply_handover(u, r, to)
  BY <1>3 DEF assign_handover, HandoverAllowed, load_mutable_reservation, locked_actor,
              ActiveAdmins
<1>4. ASSUME NEW u \in Users, NEW q \in Requests, accept_handover(u, q),
             handover_requests[q].resv = r
      PROVE  /\ apply_handover(u, r, u) /\ q \in PendingOf(r)
             /\ handover_requests[q].from = reservations[r].owner
             /\ handover_requests[q].to = u
             /\ handover_requests'[q].status = "accepted"
  <2>1. IsPending(q) /\ handover_requests[q] \in RequestRow /\ IsOwners(q)
    BY <1>4, PendingIsRequest DEF accept_handover, MayDecide, PendingIsOwners
  <2>2. handover_requests'[q].status = "accepted"
    BY <1>4, <2>1 DEF accept_handover, Close, PendingOf, RequestRow
  <2>. QED
    BY <1>4, <2>1, <2>2 DEF accept_handover, MayDecide, PendingOf, IsOwners
<1>5. ASSUME NEW u \in Users, NEW to \in Users, assign_handover(u, r, to)
      PROVE  ByConsent(r)
  <2>1. apply_handover(u, r, to) /\ u \in ActiveAdmins /\ u # reservations[r].owner
    BY <1>3, <1>5
  <2>. QED
    BY <1>2, <2>1 DEF ByConsent
<1>6. ASSUME NEW u \in Users, NEW q \in Requests, accept_handover(u, q),
             handover_requests[q].resv = r
      PROVE  ByConsent(r)
  <2>1. /\ apply_handover(u, r, u) /\ q \in PendingOf(r)
        /\ handover_requests[q].from = reservations[r].owner
        /\ handover_requests[q].to = u
        /\ handover_requests'[q].status = "accepted"
    BY <1>4, <1>6
  <2>. QED
    BY <1>2, <2>1 DEF ByConsent
<1>. QED
  BY <1>5, <1>6, OwnerChanges

\* A booking never changes hands behind its owner's back: either the owner
\* asked for it, or an administrator did it and the history names them.
THEOREM OwnershipByConsent == Spec => OwnerChangesByConsent
<1>. DEFINE Inv == TypeOK /\ AbsentDisabled /\ PendingIsOwners
<1>1. Inv /\ [Next]_vars => Inv'
  BY StepType, StepAbsent, StepRequests
<1>2. Init => Inv
  BY InitType, InitRequests
<1>3. Inv /\ [Next]_vars =>
        [\A r \in Reservations :
           reservations[r] # None /\ reservations'[r].owner # reservations[r].owner =>
           ByConsent(r)]_vars
  BY ConsentStep
<1>. QED
  BY <1>1, <1>2, <1>3, PTL DEF Spec, OwnerChangesByConsent
-----------------------------------------------------------------------------
(* Expiry *)

\* A request that cannot be decided will not become decidable again.
LEMMA DeadStaysDead ==
    ASSUME TypeOK, [Next]_vars, NEW q \in Requests, IsPending(q), IsPending(q)',
           handover_requests'[q] = handover_requests[q], IsOwners(q), ~Decidable(q)
    PROVE  ~Decidable(q)'
<1>. DEFINE row == handover_requests[q]
            t == row.resv
<1>1. /\ row \in RequestRow /\ t \in Reservations
      /\ reservations[t] \in Booking
      /\ row.expected_revision <= reservations[t].revision
  BY PendingIsRequest DEF RequestRow, IsOwners, TypeOK
<1>2. reservations[t].revision <= reservations'[t].revision /\ reservations'[t] \in Booking
  BY <1>1, OwnerStaysWhilePending, StepType DEF TypeOK
<1>3. CASE reservations[t].revision # row.expected_revision
  BY <1>1, <1>2, <1>3 DEF Decidable, Booking, RequestRow
<1>4. CASE ~IsActive(t)
  <2>1. ~IsActive(t)'
    <3>1. ASSUME NEW u \in Users, NEW r \in Reservations, NEW m, NEW s, NEW n,
                 create_reservation(u, r, m, s, n)
          PROVE  ~IsActive(t)'
      BY <1>1, <1>4, <3>1 DEF create_reservation, IsActive, None, Booking, TypeOK
    <3>2. ASSUME NEW u \in Users, NEW r \in Reservations, NEW m, NEW s, NEW n, NEW e,
                 update_reservation(u, r, e, m, s, n)
          PROVE  ~IsActive(t)'
      BY <1>1, <1>4, <3>2
      DEF update_reservation, load_mutable_reservation, IsActive, TypeOK
    <3>3. ASSUME NEW u \in Users, NEW r \in Reservations, NEW e, cancel_reservation(u, r, e)
          PROVE  ~IsActive(t)'
      BY <1>1, <1>4, <3>3
      DEF cancel_reservation, load_mutable_reservation, IsActive, TypeOK
    <3>4. ASSUME NEW u \in Users, NEW r \in Reservations, NEW to, HandoverStep(u, r, to)
          PROVE  ~IsActive(t)'
      BY <1>1, <1>4, <3>4 DEF HandoverStep, apply_handover, IsActive, TypeOK
    <3>5. ASSUME NEW u, NEW m, delete_room(u, m)
          PROVE  ~IsActive(t)'
      BY <1>1, <1>4, <3>5 DEF delete_room, IsActive, Booking
    <3>6. CASE UNCHANGED bookingVars
      BY <1>4, <3>6 DEF bookingVars, IsActive
    <3>. QED
      BY <3>1, <3>2, <3>3, <3>4, <3>5, <3>6, BookingSteps
  <2>. QED
    BY <2>1 DEF Decidable
<1>5. CASE started(t) /\ IsActive(t)
  <2>1. reservations'[t].start = reservations[t].start
    <3>1. ASSUME NEW u \in Users, NEW r \in Reservations, NEW m, NEW s, NEW n,
                 create_reservation(u, r, m, s, n)
          PROVE  reservations'[t].start = reservations[t].start
      BY <1>1, <3>1 DEF create_reservation, None, Booking, TypeOK
    <3>2. ASSUME NEW u \in Users, NEW r \in Reservations, NEW m, NEW s, NEW n, NEW e,
                 update_reservation(u, r, e, m, s, n)
          PROVE  reservations'[t].start = reservations[t].start
      BY <1>1, <1>5, <3>2 DEF update_reservation, TypeOK
    <3>3. ASSUME NEW u \in Users, NEW r \in Reservations, NEW e, cancel_reservation(u, r, e)
          PROVE  reservations'[t].start = reservations[t].start
      BY <1>1, <3>3 DEF cancel_reservation, TypeOK, Booking
    <3>4. ASSUME NEW u \in Users, NEW r \in Reservations, NEW to, HandoverStep(u, r, to)
          PROVE  reservations'[t].start = reservations[t].start
      BY <1>1, <3>4 DEF HandoverStep, apply_handover, TypeOK, Booking
    <3>5. ASSUME NEW u, NEW m, delete_room(u, m)
          PROVE  reservations'[t].start = reservations[t].start
      BY <1>1, <3>5 DEF delete_room, Booking
    <3>6. CASE UNCHANGED bookingVars
      BY <3>6 DEF bookingVars
    <3>. QED
      BY <3>1, <3>2, <3>3, <3>4, <3>5, <3>6, BookingSteps
  <2>2. now' \in {now, now + 1} /\ now \in Nat /\ reservations[t].start \in Nat
    BY <1>1, ClockSteps DEF TypeOK, Booking
  <2>3. started(t)'
    BY <1>5, <2>1, <2>2 DEF started
  <2>. QED
    BY <2>3 DEF Decidable
<1>. QED
  BY <1>3, <1>4, <1>5 DEF Decidable

\* A decide_handover between its transactions found its request dead.
ExpiringDead ==
    \A x \in expiring : /\ handover_requests[x[2]] # None
                        /\ IsPending(x[2]) => ~Decidable(x[2])

LEMMA ExpiringSteps ==
    ASSUME TypeOK, [Next]_vars
    PROVE  \/ expiring' \subseteq expiring
           \/ \E u \in Users, q \in Requests : find_undecidable(u, q)
<1>1. ASSUME NEW u \in Users, NEW r \in Reservations, ReservationStep(u, r)
      PROVE  expiring' \subseteq expiring
  <2>1. ASSUME NEW m, NEW s, NEW n, create_reservation(u, r, m, s, n)
        PROVE  expiring' \subseteq expiring
    BY <2>1 DEF create_reservation, handoverVars
  <2>2. ASSUME NEW m, NEW s, NEW n, NEW e, update_reservation(u, r, e, m, s, n)
        PROVE  expiring' \subseteq expiring
    BY <2>2 DEF update_reservation, handoverVars
  <2>3. ASSUME NEW e, cancel_reservation(u, r, e)
        PROVE  expiring' \subseteq expiring
    BY <2>3 DEF cancel_reservation, handoverVars
  <2>4. ASSUME NEW to, assign_handover(u, r, to)
        PROVE  expiring' \subseteq expiring
    BY <2>4 DEF assign_handover
  <2>5. ASSUME NEW to, NEW q, request_handover(u, r, to, q)
        PROVE  expiring' \subseteq expiring
    BY <2>5 DEF request_handover
  <2>. QED
    BY <1>1, <2>1, <2>2, <2>3, <2>4, <2>5 DEF ReservationStep
<1>2. ASSUME NEW u \in Users, NEW q \in Requests, RequestStep(u, q)
      PROVE  expiring' \subseteq expiring \/ find_undecidable(u, q)
  BY <1>2 DEF RequestStep, decline_handover, accept_handover, expire_request,
              withdraw_handover
<1>3. ASSUME NEW u \in Users, AdminStep(u)
      PROVE  expiring' \subseteq expiring
  <2>1. ASSUME NEW v, NEW role, NEW b, update_user(u, v, role, b)
        PROVE  expiring' \subseteq expiring
    BY <2>1 DEF update_user, Revoked
  <2>2. ASSUME NEW v, reset_password(u, v)
        PROVE  expiring' \subseteq expiring
    BY <2>2 DEF reset_password, Revoked
  <2>. QED
    BY <1>3, <2>1, <2>2 DEF AdminStep, create_room, update_room, delete_room, create_user,
                            update_system_settings, handoverVars
<1>4. CASE Tick \/ Crash \/ UNCHANGED vars
  BY <1>4 DEF Tick, Crash, vars, handoverVars
<1>. QED
  BY <1>1, <1>2, <1>3, <1>4 DEF Next

LEMMA StepExpiring ==
    TypeOK /\ PendingIsOwners /\ ExpiringDead /\ [Next]_vars => ExpiringDead'
<1>. SUFFICES ASSUME TypeOK, PendingIsOwners, ExpiringDead, [Next]_vars
              PROVE  ExpiringDead'
  OBVIOUS
<1>1. ASSUME NEW q \in Requests, handover_requests[q] # None,
             IsPending(q) => ~Decidable(q)
      PROVE  /\ handover_requests'[q] # None
             /\ IsPending(q)' => ~Decidable(q)'
  <2>1. StaysOrEnds(q)
    BY <1>1, RequestsStayOrEnd
  <2>2. handover_requests'[q] # None
    BY <1>1, <2>1, PendingIsRequest DEF StaysOrEnds, RequestRow, Closed, None
  <2>3. ASSUME IsPending(q)'
        PROVE  ~Decidable(q)'
    <3>1. IsPending(q) /\ handover_requests'[q] = handover_requests[q] /\ IsOwners(q)
      BY <2>1, <2>3, PendingStays DEF PendingIsOwners
    <3>. QED
      BY <1>1, <2>3, <3>1, DeadStaysDead
  <2>. QED
    BY <2>2, <2>3
<1>2. CASE expiring' \subseteq expiring
  BY <1>1, <1>2 DEF ExpiringDead, TypeOK
<1>3. ASSUME NEW u \in Users, NEW q \in Requests, find_undecidable(u, q)
      PROVE  ExpiringDead'
  <2>1. /\ expiring' = expiring \cup {<<u, q>>}
        /\ handover_requests[q] # None /\ ~Decidable(q)
    BY <1>3, PendingIsRequest DEF find_undecidable, MayDecide, RequestRow, None, IsPending
  <2>2. ASSUME NEW x \in expiring'
        PROVE  /\ x[2] \in Requests /\ handover_requests[x[2]] # None
               /\ IsPending(x[2]) => ~Decidable(x[2])
    BY <2>1, <2>2 DEF ExpiringDead, TypeOK
  <2>. QED
    BY <1>1, <2>2 DEF ExpiringDead
<1>. QED
  BY <1>2, <1>3, ExpiringSteps

LEMMA ExpireStep ==
    ASSUME TypeOK, ExpiringDead, [Next]_vars, NEW q \in Requests, IsPending(q),
           handover_requests'[q].status = "expired"
    PROVE  \/ ~Decidable(q)
           \/ ~users'[handover_requests[q].from].is_active
           \/ ~users'[handover_requests[q].to].is_active
<1>1. handover_requests[q] \in RequestRow /\ handover_requests[q].status = "pending"
  BY PendingIsRequest DEF IsPending
<1>2. ASSUME NEW Q, NEW how, how # "expired", handover_requests' = Close(Q, how)
      PROVE  FALSE
  BY <1>1, <1>2 DEF Close, RequestRow
<1>3. ASSUME UNCHANGED handover_requests
      PROVE  FALSE
  BY <1>1, <1>3
<1>4. ASSUME NEW u \in Users, NEW r \in Reservations, ReservationStep(u, r)
      PROVE  ~Decidable(q)
  <2>1. ASSUME NEW m, NEW s, NEW n, create_reservation(u, r, m, s, n)
        PROVE  FALSE
    BY <1>3, <2>1 DEF create_reservation, handoverVars
  <2>2. ASSUME NEW m, NEW s, NEW n, NEW e, update_reservation(u, r, e, m, s, n)
        PROVE  FALSE
    BY <1>3, <2>2 DEF update_reservation, handoverVars
  <2>3. ASSUME NEW e, cancel_reservation(u, r, e)
        PROVE  FALSE
    BY <1>3, <2>3 DEF cancel_reservation, handoverVars
  <2>4. ASSUME NEW to, assign_handover(u, r, to)
        PROVE  FALSE
    BY <1>2, <2>4 DEF assign_handover
  <2>5. ASSUME NEW to, NEW p \in Requests, request_handover(u, r, to, p)
        PROVE  ~Decidable(q)
    BY <1>1, <2>5 DEF request_handover, Close, StaleOf, PendingOf, RequestRow, Decidable
  <2>. QED
    BY <1>4, <2>1, <2>2, <2>3, <2>4, <2>5 DEF ReservationStep
<1>5. ASSUME NEW u \in Users, NEW p \in Requests, RequestStep(u, p)
      PROVE  ~Decidable(q)
  <2>1. ASSUME decline_handover(u, p) \/ withdraw_handover(u, p) \/ find_undecidable(u, p)
        PROVE  FALSE
    BY <1>2, <1>3, <2>1 DEF decline_handover, withdraw_handover, find_undecidable
  <2>2. ASSUME accept_handover(u, p)
        PROVE  FALSE
    BY <1>1, <2>2 DEF accept_handover, Close, RequestRow
  <2>3. ASSUME expire_request(u, p)
        PROVE  ~Decidable(q)
    <3>1. p = q
      BY <1>1, <2>3 DEF expire_request, Close
    <3>. QED
      BY <2>3, <3>1 DEF expire_request, ExpiringDead
  <2>. QED
    BY <1>5, <2>1, <2>2, <2>3 DEF RequestStep
<1>6. ASSUME NEW u \in Users, AdminStep(u)
      PROVE  \/ ~users'[handover_requests[q].from].is_active
             \/ ~users'[handover_requests[q].to].is_active
  <2>1. ASSUME NEW v \in Users, NEW role, NEW b, update_user(u, v, role, b)
        PROVE  \/ ~users'[handover_requests[q].from].is_active
               \/ ~users'[handover_requests[q].to].is_active
    <3>1. q \in PendingWith(v) /\ ~b
      BY <1>1, <2>1 DEF update_user, Close
    <3>2. ~users'[v].is_active
      BY <2>1, <3>1 DEF update_user, TypeOK
    <3>. QED
      BY <3>1, <3>2 DEF PendingWith
  <2>2. ASSUME UNCHANGED handoverVars \/ UNCHANGED handover_requests
        PROVE  FALSE
    BY <1>3, <2>2 DEF handoverVars
  <2>. QED
    BY <1>6, <2>1, <2>2 DEF AdminStep, create_room, update_room, delete_room, create_user,
                            reset_password, update_system_settings
<1>7. CASE Tick \/ Crash \/ UNCHANGED vars
  BY <1>3, <1>7 DEF Tick, Crash, vars, handoverVars
<1>. QED
  BY <1>4, <1>5, <1>6, <1>7 DEF Next

\* The late second transaction of decide_handover, which checks neither the
\* booking nor the clock, still expires nothing that could be decided.
THEOREM OnlyDeadExpire == Spec => ExpireOnlyDead
<1>. DEFINE Inv == TypeOK /\ AbsentDisabled /\ PendingIsOwners /\ ExpiringDead
<1>1. Inv /\ [Next]_vars => Inv'
  BY StepType, StepAbsent, StepRequests, StepExpiring
<1>2. Init => Inv
  BY InitType, InitRequests DEF Init, ExpiringDead
<1>3. Inv /\ [Next]_vars =>
        [\A q \in Requests :
           IsPending(q) /\ handover_requests'[q].status = "expired" =>
           \/ ~Decidable(q)
           \/ ~users'[handover_requests[q].from].is_active
           \/ ~users'[handover_requests[q].to].is_active]_vars
  BY ExpireStep
<1>. QED
  BY <1>1, <1>2, <1>3, PTL DEF Spec, ExpireOnlyDead

(***************************************************************************)
(* NOTICES                                                                 *)
(***************************************************************************)

-----------------------------------------------------------------------------
(* Revisions and the keys of events *)

RevisionsBounded ==
    \A r \in Reservations : reservations[r] # None => reservations[r].revision <= MaxRevision

LEMMA StepRevisions == TypeOK /\ RevisionsBounded /\ [Next]_vars => RevisionsBounded'
<1>. SUFFICES ASSUME TypeOK, RevisionsBounded, [Next]_vars PROVE RevisionsBounded'
  OBVIOUS
<1>1. ASSUME NEW u \in Users, NEW r \in Reservations, NEW m \in Rooms,
             NEW s \in 1 .. LastSlot, NEW n \in 1 .. MaxSlots,
             create_reservation(u, r, m, s, n)
      PROVE  RevisionsBounded'
  <2>1. 1 <= MaxRevision
    BY AgesAssumption, ConstantsAssumption
  <2>. QED
    BY <1>1, <2>1 DEF create_reservation, RevisionsBounded, TypeOK
<1>2. ASSUME NEW u \in Users, NEW r \in Reservations, NEW m \in Rooms,
             NEW s \in 1 .. LastSlot, NEW n \in 1 .. MaxSlots, NEW e \in 1 .. MaxRevision,
             update_reservation(u, r, e, m, s, n)
      PROVE  RevisionsBounded'
  <2>1. reservations[r] \in Booking
    BY <1>2, ActiveIsBooking DEF update_reservation, load_mutable_reservation
  <2>. QED
    BY <1>2, <2>1, ConstantsAssumption DEF update_reservation, RevisionsBounded, TypeOK, Booking
<1>3. ASSUME NEW u \in Users, NEW r \in Reservations, NEW e \in 1 .. MaxRevision,
             cancel_reservation(u, r, e)
      PROVE  RevisionsBounded'
  <2>1. reservations[r] \in Booking
    BY <1>3, ActiveIsBooking DEF cancel_reservation, load_mutable_reservation
  <2>. QED
    BY <1>3, <2>1, ConstantsAssumption DEF cancel_reservation, RevisionsBounded, TypeOK, Booking
<1>4. ASSUME NEW u \in Users, NEW r \in Reservations, NEW to \in Users, HandoverStep(u, r, to)
      PROVE  RevisionsBounded'
  <2>1. reservations[r] \in Booking
    BY <1>4, ActiveIsBooking DEF HandoverStep
  <2>. QED
    BY <1>4, <2>1, ConstantsAssumption
    DEF HandoverStep, apply_handover, RevisionsBounded, TypeOK, Booking
<1>5. ASSUME NEW u \in Users, NEW m \in Rooms, delete_room(u, m)
      PROVE  RevisionsBounded'
  <2>1. ASSUME NEW t \in Reservations, reservations'[t] # None
        PROVE  reservations[t] # None /\ reservations'[t].revision = reservations[t].revision
    <3>1. reservations[t] \in Booking \cup {None}
      BY DEF TypeOK
    <3>. QED
      BY <1>5, <2>1, <3>1 DEF delete_room, Booking, None
  <2>. QED
    BY <2>1 DEF RevisionsBounded
<1>6. CASE UNCHANGED bookingVars
  BY <1>6 DEF bookingVars, RevisionsBounded
<1>. QED
  BY <1>1, <1>2, <1>3, <1>4, <1>5, <1>6, BookingSteps

\* What holds of the booking part while notices are read.
BookingInv == TypeOK /\ BookedRoomsStay /\ HistoryChain /\ RevisionsBounded

LEMMA StepBooking == BookingInv /\ [Next]_vars => BookingInv'
BY StepType, StepRooms, StepHistory, StepRevisions DEF BookingInv

LEMMA InitBooking == NoticesInit => BookingInv
<1>. SUFFICES ASSUME NoticesInit PROVE BookingInv
  OBVIOUS
<1>1. TypeOK
  BY ConstantsAssumption DEF NoticesInit, TypeOK, Account
<1>2. BookedRoomsStay /\ RevisionsBounded
  BY DEF NoticesInit, BookedRoomsStay, RevisionsBounded, IsActive, None
<1>3. HistoryChain
  BY DEF NoticesInit, HistoryChain, EventsTell, EventsLink, EventsComplete
<1>. QED
  BY <1>1, <1>2, <1>3 DEF BookingInv

LEMMA KeyOfEvent == ASSUME BookingInv, NEW e \in reservation_events PROVE Key(e) \in Keys
<1>1. e.resv \in Reservations /\ e.revision \in Nat \ {0}
  BY DEF BookingInv, TypeOK, EventRow
<1>2. reservations[e.resv] # None /\ e.revision <= reservations[e.resv].revision
  BY DEF BookingInv, HistoryChain, EventsTell
<1>3. reservations[e.resv].revision \in Nat /\ reservations[e.resv].revision <= MaxRevision
  BY <1>1, <1>2 DEF BookingInv, TypeOK, Booking, RevisionsBounded
<1>. QED
  BY <1>1, <1>2, <1>3, ConstantsAssumption DEF Key, Keys

\* Resv and revision identify an event.
LEMMA KeyIdentifies ==
    ASSUME BookingInv, NEW e \in reservation_events, NEW f \in reservation_events, Key(e) = Key(f)
    PROVE  e = f
BY DEF BookingInv, HistoryChain, EventsLink, Key

\* An event keeps its stamp; a new one is stamped now.
LEMMA StampsStay ==
    ASSUME BookingInv, BookingInv', [Next]_vars, Stamped
    PROVE  /\ reservation_events \subseteq reservation_events'
           /\ \A e \in reservation_events : occurred_at'[Key(e)] = occurred_at[Key(e)]
           /\ \A e \in reservation_events' \ reservation_events : occurred_at'[Key(e)] = now
<1>1. reservation_events \subseteq reservation_events'
  BY EventsGrow DEF BookingInv
<1>2. ASSUME NEW e \in reservation_events', NEW f \in reservation_events', Key(e) = Key(f)
      PROVE  e = f
  BY <1>2 DEF BookingInv, HistoryChain, EventsLink, Key
<1>3. ASSUME NEW e \in reservation_events
      PROVE  occurred_at'[Key(e)] = occurred_at[Key(e)]
  BY <1>1, <1>2, KeyOfEvent DEF Stamped
<1>4. ASSUME NEW e \in reservation_events' \ reservation_events
      PROVE  occurred_at'[Key(e)] = now
  <2>1. e.resv \in Reservations /\ e.revision \in Nat \ {0}
    BY DEF BookingInv, TypeOK, EventRow
  <2>2. reservations'[e.resv] # None /\ e.revision <= reservations'[e.resv].revision
    BY DEF BookingInv, HistoryChain, EventsTell
  <2>3. reservations'[e.resv].revision \in Nat /\ reservations'[e.resv].revision <= MaxRevision
    BY <2>1, <2>2 DEF BookingInv, TypeOK, Booking, RevisionsBounded
  <2>4. Key(e) \in Keys
    BY <2>1, <2>2, <2>3, ConstantsAssumption DEF Key, Keys
  <2>. QED
    BY <2>4 DEF Stamped
<1>. QED
  BY <1>1, <1>3, <1>4

-----------------------------------------------------------------------------
(* Receipts *)

(***************************************************************************)
(* AckedStaysGone is not inductive: it must be known that a receipt is not *)
(* older than its event, so that whoever removes a receipt by its age      *)
(* removes one whose event is too old to be shown.                         *)
(***************************************************************************)
AckInv ==
    /\ BookingInv
    /\ occurred_at \in [Keys -> Nat]
    /\ \A e \in reservation_events : occurred_at[Key(e)] <= now
    /\ \A k \in Keys, u \in Users :
           <<k, u>> \in acked => \E e \in reservation_events : k = Key(e)
    /\ \A n \in notice_receipts :
           /\ n.at \in Nat
           /\ \E e \in reservation_events : n.event = Key(e) /\ occurred_at[Key(e)] <= n.at
    /\ \A e \in reservation_events, u \in Users :
           <<Key(e), u>> \in acked => HasReceipt(e, u) \/ ~Recent(e)

LEMMA HistoryStepsAreNext == HistorySteps => [Next]_vars
BY DEF HistorySteps, Next, RequestStep

LEMMA InitAck == NoticesInit => AckInv
<1>. SUFFICES ASSUME NoticesInit PROVE AckInv
  OBVIOUS
<1>. QED
  BY InitBooking DEF NoticesInit, AckInv

LEMMA HistoryKeepsAck ==
    ASSUME AckInv, HistorySteps, Stamped, UNCHANGED noticeVars
    PROVE  AckInv'
<1>1. BookingInv /\ BookingInv' /\ [Next]_vars
  BY HistoryStepsAreNext, StepBooking DEF AckInv
<1>2. now \in Nat /\ now' \in Nat /\ now <= now'
  BY <1>1, ClockSteps DEF BookingInv, TypeOK
<1>3. /\ reservation_events \subseteq reservation_events'
      /\ \A e \in reservation_events : occurred_at'[Key(e)] = occurred_at[Key(e)]
      /\ \A e \in reservation_events' \ reservation_events : occurred_at'[Key(e)] = now
  BY <1>1, StampsStay
<1>4. \A e \in reservation_events : Key(e) \in Keys /\ occurred_at[Key(e)] \in Nat
  BY <1>1, KeyOfEvent DEF AckInv
<1>5. occurred_at' \in [Keys -> Nat]
  BY <1>2 DEF Stamped, AckInv
<1>6. \A e \in reservation_events' : occurred_at'[Key(e)] <= now'
  <2>. TAKE e \in reservation_events'
  <2>1. CASE e \in reservation_events
    BY <1>2, <1>3, <1>4, <2>1 DEF AckInv
  <2>2. CASE e \notin reservation_events
    BY <1>2, <1>3, <2>2
  <2>. QED
    BY <2>1, <2>2
<1>7. UNCHANGED <<acked, notice_receipts>>
  BY DEF noticeVars
<1>8. ASSUME NEW e \in reservation_events', NEW u \in Users, <<Key(e), u>> \in acked'
      PROVE  HasReceipt(e, u)' \/ ~Recent(e)'
  <2>1. e \in reservation_events
    <3>1. e.resv \in Reservations /\ Key(e) \in Keys
      <4>1. BookingInv' /\ e \in reservation_events'
        BY <1>1
      <4>2. e.resv \in Reservations /\ e.revision \in Nat \ {0}
        BY <4>1 DEF BookingInv, TypeOK, EventRow
      <4>3. reservations'[e.resv] # None /\ e.revision <= reservations'[e.resv].revision
        BY <4>1 DEF BookingInv, HistoryChain, EventsTell
      <4>4. reservations'[e.resv].revision \in Nat /\ reservations'[e.resv].revision <= MaxRevision
        BY <4>1, <4>2, <4>3 DEF BookingInv, TypeOK, Booking, RevisionsBounded
      <4>. QED
        BY <4>2, <4>3, <4>4, ConstantsAssumption DEF Key, Keys
    <3>2. PICK f \in reservation_events : Key(e) = Key(f)
      BY <1>7, <1>8, <3>1 DEF AckInv
    <3>. QED
      BY <1>1, <1>3, <3>2 DEF BookingInv, HistoryChain, EventsLink, Key
  <2>2. HasReceipt(e, u) \/ ~Recent(e)
    BY <1>7, <1>8, <2>1 DEF AckInv
  <2>3. HasReceipt(e, u) => HasReceipt(e, u)'
    BY <1>7 DEF HasReceipt, Key
  <2>4. ~Recent(e) => ~Recent(e)'
    BY <1>2, <1>3, <1>4, <2>1, AgesAssumption DEF Recent, Key
  <2>. QED
    BY <2>2, <2>3, <2>4
<1>9. \A n \in notice_receipts' :
         /\ n.at \in Nat
         /\ \E e \in reservation_events' : n.event = Key(e) /\ occurred_at'[Key(e)] <= n.at
  BY <1>3, <1>7 DEF AckInv
<1>10. \A k \in Keys, u \in Users :
         <<k, u>> \in acked' => \E e \in reservation_events' : k = Key(e)
  BY <1>3, <1>7 DEF AckInv
<1>. QED
  BY <1>1, <1>5, <1>6, <1>8, <1>9, <1>10 DEF AckInv, Key

\* Receipts that acknowledge removes are of events that are too old by then.
LEMMA AcknowledgeKeepsAck ==
    ASSUME AckInv, NEW u \in Users, NEW e \in reservation_events, acknowledge_notice(u, e)
    PROVE  AckInv'
<1>1. UNCHANGED <<vars, occurred_at>> /\ acked' = acked \cup {<<Key(e), u>>}
  BY DEF acknowledge_notice
<1>2. BookingInv' /\ now \in Nat
  BY <1>1, StepBooking DEF AckInv, BookingInv, TypeOK
<1>3. UNCHANGED <<now, reservation_events>>
  BY <1>1 DEF vars
<1>4. \A f \in reservation_events : Key(f) \in Keys /\ occurred_at[Key(f)] \in Nat
  BY KeyOfEvent DEF AckInv
<1>. DEFINE new == [event |-> Key(e), user |-> u, at |-> now]
<1>5. /\ notice_receipts' \subseteq notice_receipts \cup {new}
      /\ new \in notice_receipts'
      /\ \A n \in notice_receipts :
            \/ n \in notice_receipts'
            \/ n.event = Key(e) /\ n.user = u
            \/ n.at < now - Retention
  <2>1. \A n \in notice_receipts : n.at \in Nat
    BY DEF AckInv
  <2>2. new.at >= now - Retention
    BY <1>2, AgesAssumption
  <2>. QED
    BY <1>2, <2>1, <2>2, AgesAssumption DEF acknowledge_notice, Kept
<1>6. \A n \in notice_receipts' :
         /\ n.at \in Nat
         /\ \E f \in reservation_events : n.event = Key(f) /\ occurred_at[Key(f)] <= n.at
  <2>1. new.at \in Nat /\ new.event = Key(e) /\ occurred_at[Key(e)] <= new.at
    BY <1>2 DEF AckInv
  <2>. QED
    BY <1>5, <2>1 DEF AckInv
<1>7. ASSUME NEW f \in reservation_events, NEW v \in Users, <<Key(f), v>> \in acked'
      PROVE  HasReceipt(f, v)' \/ ~Recent(f)
  <2>1. CASE Key(f) = Key(e) /\ v = u
    BY <1>5, <2>1 DEF HasReceipt, Key
  <2>2. CASE ~(Key(f) = Key(e) /\ v = u)
    <3>1. HasReceipt(f, v) \/ ~Recent(f)
      <4>1. <<Key(f), v>> \in acked
        BY <1>1, <1>7, <2>2
      <4>. QED
        BY <4>1 DEF AckInv
    <3>2. ASSUME NEW n \in notice_receipts, n.event = Key(f), n.user = v
          PROVE  n \in notice_receipts' \/ ~Recent(f)
      <4>1. n \in notice_receipts' \/ n.at < now - Retention
        BY <1>5, <2>2, <3>2
      <4>2. n.at \in Nat /\ occurred_at[Key(f)] <= n.at
        BY <3>2 DEF AckInv
      <4>. QED
        BY <1>2, <1>4, <4>1, <4>2, AgesAssumption DEF Recent
    <3>. QED
      BY <3>1, <3>2 DEF HasReceipt, Key
  <2>. QED
    BY <2>1, <2>2
<1>8. \A k \in Keys, v \in Users :
         <<k, v>> \in acked' => \E f \in reservation_events : k = Key(f)
  BY <1>1 DEF AckInv
<1>9. \A f \in reservation_events : Recent(f)' <=> Recent(f)
  BY <1>1, <1>3 DEF Recent, Key
<1>. QED
  BY <1>1, <1>2, <1>3, <1>6, <1>7, <1>8, <1>9 DEF AckInv, Key

LEMMA StepAck == AckInv /\ [NoticesNext]_allVars => AckInv'
<1>. SUFFICES ASSUME AckInv, [NoticesNext]_allVars PROVE AckInv'
  OBVIOUS
<1>1. CASE HistorySteps /\ Stamped /\ UNCHANGED noticeVars
  BY <1>1, HistoryKeepsAck
<1>2. CASE \E u \in Users, e \in reservation_events : acknowledge_notice(u, e)
  BY <1>2, AcknowledgeKeepsAck
<1>3. CASE (\E u \in Users : update_preferences(u)) \/ UNCHANGED allVars
  <2>1. UNCHANGED <<vars, occurred_at, notice_receipts, acked>>
    BY <1>3 DEF update_preferences, allVars, noticeVars
  <2>2. BookingInv' /\ UNCHANGED <<now, reservation_events>>
    BY <2>1, StepBooking DEF AckInv, vars
  <2>3. \A e \in reservation_events, u \in Users :
           (HasReceipt(e, u)' <=> HasReceipt(e, u)) /\ (Recent(e)' <=> Recent(e))
    BY <2>1, <2>2 DEF HasReceipt, Recent, Key
  <2>. QED
    BY <2>1, <2>2, <2>3 DEF AckInv, Key
<1>. QED
  BY <1>1, <1>2, <1>3 DEF NoticesNext

\* What a user has acknowledged is never due again (acknowledge_notice and its
\* removal of old receipts): the order of the two ages is enough.
THEOREM AckedAlwaysGone == NoticesSpec => []AckedStaysGone
<1>1. AckInv => AckedStaysGone
  <2>. SUFFICES ASSUME AckInv, NEW u \in Users, NEW e \in due_reminders(u)
                PROVE  <<Key(e), u>> \notin acked
    BY DEF AckedStaysGone
  <2>1. e \in reservation_events /\ Recent(e) /\ ~HasReceipt(e, u)
    BY DEF due_reminders, change_notices, assignment_notices
  <2>. QED
    BY <2>1 DEF AckInv
<1>. QED
  BY <1>1, InitAck, StepAck, PTL DEF NoticesSpec

-----------------------------------------------------------------------------
(* Notices stay *)

LEMMA NoticeStep ==
    ASSUME AckInv, [NoticesNext]_allVars, NEW u \in Users, NEW e \in change_notices(u)
    PROVE  \/ e \in change_notices(u)'
           \/ <<Key(e), u>> \in acked' \/ ~Recent(e)' \/ ~notifications'[u]
<1>1. /\ e \in reservation_events /\ ~HasReceipt(e, u)
      /\ ToldOf(e) = u /\ e.actor # u /\ e.type \in {"updated", "cancelled"}
  BY DEF change_notices
<1>2. e \in reservation_events'
  <2>1. [Next]_vars
    BY HistoryStepsAreNext
    DEF NoticesNext, acknowledge_notice, update_preferences, allVars
  <2>. QED
    BY <1>1, <2>1, EventsGrow DEF AckInv, BookingInv
<1>3. HasReceipt(e, u)' => <<Key(e), u>> \in acked'
  <2>1. ASSUME NEW v \in Users, NEW f \in reservation_events, acknowledge_notice(v, f),
               NEW n \in notice_receipts', n.event = Key(e), n.user = u
        PROVE  <<Key(e), u>> \in acked'
    <3>1. n \in notice_receipts \/ n = [event |-> Key(f), user |-> v, at |-> now]
      BY <2>1 DEF acknowledge_notice, Kept
    <3>2. n \notin notice_receipts
      BY <1>1, <2>1 DEF HasReceipt
    <3>. QED
      BY <2>1, <3>1, <3>2 DEF acknowledge_notice
  <2>2. ASSUME UNCHANGED notice_receipts PROVE ~HasReceipt(e, u)'
    BY <1>1, <2>2 DEF HasReceipt, Key
  <2>. QED
    BY <2>1, <2>2 DEF NoticesNext, update_preferences, allVars, noticeVars, HasReceipt, Key
<1>. QED
  BY <1>1, <1>2, <1>3 DEF change_notices, ToldOf, Recent, HasReceipt, Key

\* A notice of a change leaves the list of its reader by his receipt, by its age
\* or by his switch only (due_reminders, api/reminders.py).
THEOREM NoticesAlwaysStay == NoticesSpec => NoticeStays
<1>1. AckInv /\ [NoticesNext]_allVars =>
         [\A u \in Users : \A e \in change_notices(u) :
             \/ e \in change_notices(u)'
             \/ <<Key(e), u>> \in acked' \/ ~Recent(e)' \/ ~notifications'[u]]_allVars
  BY NoticeStep
<1>. QED
  BY <1>1, InitAck, StepAck, PTL DEF NoticesSpec, NoticeStays

-----------------------------------------------------------------------------
(* Notices tell the truth *)

\* What the kind of an event says of the owner before and after it.
KindTells(e) ==
    /\ e.type = "created" <=> e.before = None
    /\ e.type \in {"updated", "cancelled"} => e.after.owner = e.before.owner
    /\ e.type = "handover" => e.after.owner # e.before.owner

StampsInOrder ==
    \A e, f \in reservation_events :
        e.resv = f.resv /\ e.revision < f.revision => occurred_at[Key(e)] <= occurred_at[Key(f)]

(***************************************************************************)
(* NoticesAreTrue is not inductive: it speaks of the owner of today, and   *)
(* the list is read from the history.  It must be known that only a        *)
(* handover changes the owner in the history, that every handover does,    *)
(* for which a request has to be its owner's (PendingIsOwners), and that   *)
(* the stamps are in the order of the revisions.                           *)
(***************************************************************************)
TruthInv ==
    /\ AckInv /\ AbsentDisabled /\ PendingIsOwners
    /\ \A e \in reservation_events : KindTells(e)
    /\ StampsInOrder
    /\ \A n \in notice_receipts : <<n.event, n.user>> \in acked

LEMMA NewEventTells ==
    ASSUME TypeOK, PendingIsOwners, HistorySteps, NEW e \in reservation_events' \ reservation_events
    PROVE  /\ e.resv \in Reservations /\ KindTells(e)
           /\ reservations[e.resv] # None => e.revision = reservations[e.resv].revision + 1
<1>. DEFINE Is(u, r, type) ==
       e = [resv |-> r, actor |-> u, revision |-> reservations'[r].revision,
            type |-> type, before |-> reservations[r], after |-> reservations'[r]]
<1>1. ASSUME NEW u, NEW r \in Reservations, NEW type, insert_event(r, u, type)
      PROVE  Is(u, r, type)
  BY <1>1 DEF insert_event
<1>2. ASSUME NEW u \in Users, NEW r \in Reservations, NEW m \in Rooms, NEW s, NEW n,
             create_reservation(u, r, m, s, n)
      PROVE  Is(u, r, "created") /\ reservations[r] = None
  BY <1>1, <1>2 DEF create_reservation
<1>3. ASSUME NEW u \in Users, NEW r \in Reservations, NEW type \in {"updated", "cancelled"},
             IsActive(r), NEW b,
             reservations' = [reservations EXCEPT ![r] = b], b.owner = reservations[r].owner,
             b.revision = reservations[r].revision + 1, insert_event(r, u, type)
      PROVE  /\ e.resv \in Reservations /\ KindTells(e)
             /\ reservations[e.resv] # None => e.revision = reservations[e.resv].revision + 1
  <2>1. Is(u, r, type) /\ reservations'[r] = b
    BY <1>1, <1>3 DEF TypeOK
  <2>2. reservations[r] # None
    BY <1>3, ActiveIsBooking DEF Booking, None
  <2>. QED
    BY <1>3, <2>1, <2>2 DEF KindTells
<1>4. ASSUME NEW u \in Users, NEW r \in Reservations, NEW to \in Users,
             IsActive(r), apply_handover(u, r, to), to # reservations[r].owner
      PROVE  /\ e.resv \in Reservations /\ KindTells(e)
             /\ reservations[e.resv] # None => e.revision = reservations[e.resv].revision + 1
  <2>1. Is(u, r, "handover")
    BY <1>1, <1>4 DEF apply_handover
  <2>2. reservations[r] \in Booking /\ reservations[r] # None
    BY <1>4, ActiveIsBooking DEF Booking, None
  <2>3. reservations'[r].owner = to /\ reservations'[r].revision = reservations[r].revision + 1
    BY <1>4, <2>2 DEF apply_handover, TypeOK, Booking
  <2>. QED
    BY <1>4, <2>1, <2>2, <2>3 DEF KindTells
<1>5. CASE Tick
  BY <1>5 DEF Tick, bookingVars
<1>6. ASSUME NEW u \in Users, NEW r \in Reservations, ReservationStep(u, r)
      PROVE  /\ e.resv \in Reservations /\ KindTells(e)
             /\ reservations[e.resv] # None => e.revision = reservations[e.resv].revision + 1
  <2>1. CASE \E m \in Rooms, s \in 1 .. LastSlot, n \in 1 .. MaxSlots :
               create_reservation(u, r, m, s, n)
    <3>1. Is(u, r, "created") /\ reservations[r] = None
      BY <1>2, <2>1
    <3>. QED
      BY <3>1 DEF KindTells
  <2>2. ASSUME NEW m \in Rooms, NEW s \in 1 .. LastSlot, NEW n \in 1 .. MaxSlots,
               NEW x \in 1 .. MaxRevision, update_reservation(u, r, x, m, s, n)
        PROVE  /\ e.resv \in Reservations /\ KindTells(e)
               /\ reservations[e.resv] # None => e.revision = reservations[e.resv].revision + 1
    <3>1. IsActive(r) /\ reservations[r].revision = x /\ insert_event(r, u, "updated")
      BY <2>2 DEF update_reservation, load_mutable_reservation
    <3>2. reservations[r] \in Booking
      BY <3>1, ActiveIsBooking
    <3>. DEFINE b == [reservations[r] EXCEPT !.room = m, !.start = s, !.len = n,
                                             !.revision = x + 1]
    <3>3. reservations' = [reservations EXCEPT ![r] = b]
      BY <2>2 DEF update_reservation
    <3>4. b.owner = reservations[r].owner /\ b.revision = reservations[r].revision + 1
      BY <3>1, <3>2 DEF Booking
    <3>. HIDE DEF b
    <3>. QED
      BY <1>3, <3>1, <3>3, <3>4
  <2>3. ASSUME NEW x \in 1 .. MaxRevision, cancel_reservation(u, r, x)
        PROVE  /\ e.resv \in Reservations /\ KindTells(e)
               /\ reservations[e.resv] # None => e.revision = reservations[e.resv].revision + 1
    <3>1. IsActive(r) /\ reservations[r].revision = x /\ insert_event(r, u, "cancelled")
      BY <2>3 DEF cancel_reservation, load_mutable_reservation
    <3>2. reservations[r] \in Booking
      BY <3>1, ActiveIsBooking
    <3>. DEFINE b == [reservations[r] EXCEPT !.status = "cancelled", !.revision = x + 1]
    <3>3. reservations' = [reservations EXCEPT ![r] = b]
      BY <2>3 DEF cancel_reservation
    <3>4. b.owner = reservations[r].owner /\ b.revision = reservations[r].revision + 1
      BY <3>1, <3>2 DEF Booking
    <3>. HIDE DEF b
    <3>. QED
      BY <1>3, <3>1, <3>3, <3>4
  <2>4. CASE \E to \in Users : assign_handover(u, r, to)
    BY <1>4, <2>4 DEF assign_handover, HandoverAllowed, load_mutable_reservation
  <2>5. CASE \E to \in Users, q \in Requests : request_handover(u, r, to, q)
    BY <2>5 DEF request_handover, bookingVars
  <2>. QED
    BY <1>6, <2>1, <2>2, <2>3, <2>4, <2>5 DEF ReservationStep
<1>7. ASSUME NEW u \in Users, NEW q \in Requests, accept_handover(u, q)
      PROVE  /\ e.resv \in Reservations /\ KindTells(e)
             /\ reservations[e.resv] # None => e.revision = reservations[e.resv].revision + 1
  <2>1. /\ IsPending(q) /\ handover_requests[q].to = u /\ IsActive(handover_requests[q].resv)
        /\ apply_handover(u, handover_requests[q].resv, u)
    BY <1>7 DEF accept_handover, MayDecide, Decidable
  <2>2. handover_requests[q].resv \in Reservations
    BY <2>1, PendingIsRequest DEF RequestRow
  <2>3. u # reservations[handover_requests[q].resv].owner
    BY <2>1 DEF PendingIsOwners, IsOwners
  <2>. QED
    BY <1>4, <2>1, <2>2, <2>3
<1>. QED
  BY <1>5, <1>6, <1>7 DEF HistorySteps

LEMMA InitTruth == NoticesInit => TruthInv
<1>. SUFFICES ASSUME NoticesInit PROVE TruthInv
  OBVIOUS
<1>1. AckInv
  BY InitAck
<1>. QED
  BY <1>1 DEF NoticesInit, TruthInv, AbsentDisabled, PendingIsOwners, IsPending, None,
       StampsInOrder

LEMMA StepTruth == TruthInv /\ [NoticesNext]_allVars => TruthInv'
<1>. SUFFICES ASSUME TruthInv, [NoticesNext]_allVars PROVE TruthInv'
  OBVIOUS
<1>1. AckInv'
  BY StepAck DEF TruthInv
<1>2. [Next]_vars
  BY HistoryStepsAreNext DEF NoticesNext, acknowledge_notice, update_preferences, allVars
<1>3. TypeOK /\ BookingInv /\ BookingInv'
  BY <1>1 DEF TruthInv, AckInv, BookingInv
<1>4. AbsentDisabled' /\ PendingIsOwners'
  BY <1>2, <1>3, StepAbsent, StepRequests DEF TruthInv
<1>5. CASE HistorySteps /\ Stamped /\ UNCHANGED noticeVars
  <2>1. /\ reservation_events \subseteq reservation_events'
        /\ \A e \in reservation_events : occurred_at'[Key(e)] = occurred_at[Key(e)]
        /\ \A e \in reservation_events' \ reservation_events : occurred_at'[Key(e)] = now
    BY <1>2, <1>3, <1>5, StampsStay
  <2>2. \A e \in reservation_events' \ reservation_events :
           /\ e.resv \in Reservations /\ KindTells(e)
           /\ reservations[e.resv] # None => e.revision = reservations[e.resv].revision + 1
    BY <1>3, <1>5, NewEventTells DEF TruthInv
  <2>3. \A e \in reservation_events' : KindTells(e)'
    BY <2>2 DEF TruthInv, KindTells
  <2>4. ASSUME NEW e \in reservation_events', NEW f \in reservation_events',
               e.resv = f.resv, e.revision < f.revision
        PROVE  occurred_at'[Key(e)] <= occurred_at'[Key(f)]
    <3>1. now \in Nat
      BY <1>3 DEF TypeOK
    <3>2. \A g \in reservation_events : occurred_at[Key(g)] <= now
      BY DEF TruthInv, AckInv
    <3>3. CASE e \in reservation_events /\ f \in reservation_events
      BY <2>1, <2>4, <3>3 DEF TruthInv, StampsInOrder
    <3>4. CASE f \notin reservation_events
      BY <2>1, <3>1, <3>2, <3>4
    <3>5. CASE e \notin reservation_events /\ f \in reservation_events
      <4>1. /\ reservations[f.resv] # None /\ f.revision <= reservations[f.resv].revision
            /\ f.resv \in Reservations /\ f.revision \in Nat
        BY <1>3, <3>5 DEF BookingInv, HistoryChain, EventsTell, TypeOK, EventRow
      <4>2. reservations[f.resv].revision \in Nat
        BY <1>3, <4>1 DEF TypeOK, Booking
      <4>. QED
        BY <2>2, <2>4, <3>5, <4>1, <4>2
    <3>. QED
      BY <3>3, <3>4, <3>5
  <2>5. StampsInOrder'
    BY <2>4 DEF StampsInOrder, Key
  <2>. QED
    BY <1>1, <1>4, <1>5, <2>3, <2>5 DEF TruthInv, noticeVars
<1>6. CASE \/ \E u \in Users, e \in reservation_events : acknowledge_notice(u, e)
           \/ \E u \in Users : update_preferences(u)
           \/ UNCHANGED allVars
  <2>1. UNCHANGED <<reservation_events, occurred_at>>
    BY <1>6 DEF acknowledge_notice, update_preferences, allVars, vars
  <2>2. (\A e \in reservation_events : KindTells(e))' /\ StampsInOrder'
    BY <2>1 DEF TruthInv, KindTells, StampsInOrder, Key
  <2>3. \A n \in notice_receipts' : <<n.event, n.user>> \in acked'
    <3>1. ASSUME NEW u \in Users, NEW e \in reservation_events, acknowledge_notice(u, e),
                 NEW n \in notice_receipts'
          PROVE  <<n.event, n.user>> \in acked'
      <4>1. n \in notice_receipts \/ n = [event |-> Key(e), user |-> u, at |-> now]
        BY <3>1 DEF acknowledge_notice, Kept
      <4>. QED
        BY <3>1, <4>1 DEF acknowledge_notice, TruthInv
    <3>. QED
      BY <1>6, <3>1 DEF TruthInv, update_preferences, allVars, noticeVars
  <2>. QED
    BY <1>1, <1>4, <2>2, <2>3 DEF TruthInv
<1>. QED
  BY <1>5, <1>6 DEF NoticesNext

\* A nonempty set of bounded numbers has a greatest one.
LEMMA GreatestIs ==
    ASSUME NEW N \in Nat, NEW S \in SUBSET (0 .. N), S # {}
    PROVE  \E x \in S : \A y \in S : y <= x
<1>. DEFINE T == {N - x : x \in S}
<1>1. T \in SUBSET Nat /\ T # {}
  <2>1. \A x \in S : N - x \in Nat
    OBVIOUS
  <2>. QED
    BY <2>1
<1>. HIDE DEF T
<1>2. PICK k \in T : \A y \in T : ~(<<y, k>> \in OpToRel(<, Nat))
  BY <1>1, WFMin, NatLessThanWellFounded
<1>3. \A y \in T : k <= y
  <2>. TAKE y \in T
  <2>1. ~(y < k)
    BY <1>1, <1>2, Zenon DEF OpToRel
  <2>. QED
    BY <1>1, <2>1
<1>4. PICK x \in S : k = N - x
  BY DEF T
<1>5. \A y \in S : N - y \in T
  BY DEF T
<1>. QED
  BY <1>3, <1>4, <1>5

\* After the last handover the owner in the history is the owner of today.
LEMMA OwnerSinceHandover ==
    ASSUME TruthInv, NEW e \in reservation_events,
           \A f \in Handovers(e.resv) : f.revision <= e.revision,
           NEW f \in reservation_events, f.resv = e.resv, f.revision >= e.revision
    PROVE  f.after.owner = reservations[e.resv].owner
<1>. DEFINE r == e.resv
            R == reservations[r].revision
            Wrong(k) == \E g \in reservation_events :
                           /\ g.resv = r /\ g.revision = k
                           /\ g.after.owner # reservations[r].owner
            S == {k \in e.revision .. R : Wrong(k)}
<1>1. TypeOK /\ HistoryChain /\ r \in Reservations
  BY DEF TruthInv, AckInv, BookingInv, TypeOK, EventRow
<1>2. reservations[r] # None /\ R \in Nat
  <2>1. reservations[r] # None
    BY <1>1 DEF HistoryChain, EventsTell
  <2>. QED
    BY <1>1, <2>1 DEF TypeOK, Booking
<1>3. \A g \in reservation_events :
         /\ g.revision \in Nat \ {0} /\ g.after \in Booking /\ g.after # None
         /\ g.type \in {"created", "updated", "cancelled", "handover"} /\ KindTells(g)
         /\ g.resv = r => g.revision <= R
  BY <1>1 DEF TruthInv, TypeOK, EventRow, HistoryChain, EventsTell, Booking, None
<1>4. ASSUME S # {} PROVE FALSE
  <2>1. S \in SUBSET (0 .. R)
    BY <1>2, <1>3
  <2>2. PICK k \in S : \A y \in S : y <= k
    BY <1>2, <1>4, <2>1, GreatestIs
  <2>3. PICK g \in reservation_events :
          g.resv = r /\ g.revision = k /\ g.after.owner # reservations[r].owner
    OBVIOUS
  <2>4. k \in Nat /\ e.revision <= k /\ k <= R
    BY <1>2, <1>3
  <2>5. CASE k = R
    <3>1. Recorded(r, g.after)
      BY <1>1, <2>3, <2>5 DEF HistoryChain, EventsTell
    <3>. QED
      BY <1>3, <2>3, <3>1 DEF Recorded, Booking
  <2>6. CASE k < R
    <3>1. PICK h \in reservation_events : h.resv = r /\ h.revision = k + 1
      <4>1. k + 1 \in 1 .. R
        BY <1>2, <2>4, <2>6
      <4>. QED
        BY <1>1, <1>2, <4>1 DEF HistoryChain, EventsComplete
    <3>2. h.before = g.after
      BY <1>1, <2>3, <3>1 DEF HistoryChain, EventsLink
    <3>3. h.type # "handover"
      BY <1>3, <2>4, <3>1 DEF Handovers
    <3>4. h.after.owner = g.after.owner
      BY <1>3, <3>2, <3>3 DEF KindTells
    <3>5. k + 1 \in S
      BY <1>2, <1>3, <2>3, <2>4, <2>6, <3>1, <3>4
    <3>. QED
      BY <2>2, <2>4, <3>5
  <2>. QED
    BY <1>2, <2>4, <2>5, <2>6
<1>5. f.revision \in e.revision .. R
  BY <1>2, <1>3
<1>. QED
  BY <1>4, <1>5

LEMMA AssignmentsAreTrue == TruthInv => AssignmentIsTrue
<1>. SUFFICES ASSUME TruthInv, NEW u \in Users, NEW r \in Reservations
              PROVE  {e \in assignment_notices(u) : e.resv = r} =
                     {e \in Handovers(r) :
                        /\ reservations[r].owner = u /\ e.after.owner = u /\ e.actor # u
                        /\ \A f \in reservation_events : f.resv = r /\ f.revision > e.revision =>
                              f.before.owner = u /\ f.after.owner = u
                        /\ Recent(e) /\ <<Key(e), u>> \notin acked}
  BY DEF AssignmentIsTrue
<1>. DEFINE Since(e) == \A f \in reservation_events : f.resv = r /\ f.revision > e.revision =>
                           f.before.owner = u /\ f.after.owner = u
<1>1. \A e \in reservation_events :
         /\ e.revision \in Nat \ {0} /\ KindTells(e) /\ Key(e) \in Keys
         /\ e.type \in {"created", "updated", "cancelled", "handover"}
         /\ e.revision = 1 <=> e.before = None
         /\ occurred_at[Key(e)] \in Nat
  <2>1. BookingInv /\ occurred_at \in [Keys -> Nat]
    BY DEF TruthInv, AckInv
  <2>. QED
    BY <2>1, KeyOfEvent DEF TruthInv, BookingInv, TypeOK, EventRow, HistoryChain, EventsTell
<1>2. ASSUME NEW e \in Handovers(r)
      PROVE  Latest(e) <=> \A f \in Handovers(r) : f.revision <= e.revision
  <2>1. e \in reservation_events /\ e.resv = r
    BY DEF Handovers
  <2>2. ASSUME NEW f \in Handovers(r), f.revision > e.revision
        PROVE  \/ occurred_at[Key(f)] > occurred_at[Key(e)]
               \/ occurred_at[Key(f)] = occurred_at[Key(e)] /\ f.revision > e.revision
    BY <1>1, <2>1, <2>2 DEF TruthInv, StampsInOrder, Handovers
  <2>3. ASSUME NEW f \in Handovers(r), f.revision <= e.revision
        PROVE  ~(\/ occurred_at[Key(f)] > occurred_at[Key(e)]
                 \/ occurred_at[Key(f)] = occurred_at[Key(e)] /\ f.revision > e.revision)
    <3>1. f \in reservation_events /\ f.resv = r
      BY DEF Handovers
    <3>2. CASE f.revision < e.revision
      BY <1>1, <2>1, <3>1, <3>2 DEF TruthInv, StampsInOrder
    <3>3. CASE f.revision = e.revision
      BY <1>1, <2>1, <3>1, <3>3 DEF Key
    <3>. QED
      BY <1>1, <2>1, <2>3, <3>1, <3>2, <3>3
  <2>4. \A f \in Handovers(r) : f.revision \in Nat /\ e.revision \in Nat
    BY <1>1, <2>1 DEF Handovers
  <2>. QED
    BY <2>1, <2>2, <2>3, <2>4 DEF Latest
<1>3. ASSUME NEW e \in Handovers(r), reservations[r].owner = u
      PROVE  (\A f \in Handovers(r) : f.revision <= e.revision) <=> Since(e)
  <2>1. e \in reservation_events /\ e.resv = r /\ e.revision \in Nat
    BY <1>1 DEF Handovers
  <2>2. ASSUME \A f \in Handovers(r) : f.revision <= e.revision,
               NEW f \in reservation_events, f.resv = r, f.revision > e.revision
        PROVE  f.before.owner = u /\ f.after.owner = u
    <3>1. f.after.owner = u
      BY <1>1, <1>3, <2>1, <2>2, OwnerSinceHandover
    <3>2. f.type # "handover" /\ f.before # None
      BY <1>1, <2>1, <2>2 DEF Handovers
    <3>. QED
      BY <1>1, <3>1, <3>2 DEF KindTells
  <2>3. ASSUME Since(e), NEW f \in Handovers(r), ~(f.revision <= e.revision)
        PROVE  FALSE
    <3>1. f \in reservation_events /\ f.resv = r /\ f.type = "handover"
      BY DEF Handovers
    <3>2. f.revision > e.revision
      BY <1>1, <2>1, <2>3, <3>1
    <3>. QED
      BY <1>1, <2>3, <3>1, <3>2 DEF KindTells
  <2>. QED
    BY <2>2, <2>3
<1>4. ASSUME NEW e \in reservation_events, Recent(e)
      PROVE  HasReceipt(e, u) <=> <<Key(e), u>> \in acked
  BY <1>4 DEF TruthInv, AckInv, HasReceipt
<1>. HIDE DEF Since
<1>5. ASSUME NEW e \in reservation_events, e.resv = r
      PROVE  e \in assignment_notices(u) <=>
             /\ e \in Handovers(r) /\ reservations[r].owner = u /\ e.after.owner = u
             /\ e.actor # u /\ Since(e) /\ Recent(e) /\ <<Key(e), u>> \notin acked
  <2>1. e \in assignment_notices(u) <=>
        /\ e \in Handovers(r) /\ reservations[r].owner = u /\ e.actor # u
        /\ Recent(e) /\ ~HasReceipt(e, u) /\ Latest(e) /\ e.after.owner = u
    BY <1>5 DEF assignment_notices, Handovers
  <2>. QED
    BY <1>2, <1>3, <1>4, <2>1
<1>6. assignment_notices(u) \subseteq reservation_events /\ Handovers(r) \subseteq reservation_events
  BY DEF assignment_notices, Handovers
<1>7. \A e \in Handovers(r) : e.resv = r
  BY DEF Handovers
<1>. QED
  BY <1>5, <1>6, <1>7 DEF Since

LEMMA CancelledArePrivate == TruthInv => CancelledIsPrivate
<1>. SUFFICES ASSUME TruthInv, NEW u \in Users, NEW e \in change_notices(u),
                     Shown(u, e).status = "cancelled", users[u].role # "admin"
              PROVE  Shown(u, e).owner = u
  BY DEF CancelledIsPrivate
<1>1. CASE reservation_details_allowed(u, e.resv)
  BY <1>1 DEF reservation_details_allowed, Shown
<1>2. CASE ~reservation_details_allowed(u, e.resv)
  <2>1. /\ e \in reservation_events /\ e.type \in {"updated", "cancelled"}
        /\ ToldOf(e) = u /\ KindTells(e)
    BY DEF change_notices, TruthInv
  <2>2. e.after.owner = u
    BY <2>1 DEF ToldOf, KindTells
  <2>. QED
    BY <1>2, <2>2 DEF Shown
<1>. QED
  BY <1>1, <1>2

\* What due_reminders tells is true: the one assignment in the list is that which
\* made the reader the owner of today, and a cancelled booking is shown to a
\* former owner as it was when it was his.
THEOREM NoticesAlwaysTrue == NoticesSpec => []NoticesAreTrue
<1>1. TruthInv => NoticesAreTrue
  BY AssignmentsAreTrue, CancelledArePrivate DEF NoticesAreTrue
<1>. QED
  BY <1>1, InitTruth, StepTruth, PTL DEF NoticesSpec
=============================================================================
