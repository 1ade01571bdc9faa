------------------------------ MODULE Booking ------------------------------
(***************************************************************************)
(* The write path of the reservation backend: services/reservations.py,    *)
(* services/handovers.py and the room, user and settings handlers of       *)
(* api/admin.py.  A variable is a table of the SQLite schema in db.py, a   *)
(* row a record.  Every handler runs in transaction(), which takes the     *)
(* write lock before it reads (BEGIN IMMEDIATE) and rolls everything back  *)
(* on an error, so a handler is one action, except for decide_handover,    *)
(* which closes a dead request in a second transaction of its own.         *)
(*                                                                         *)
(* Time is counted in slots of 30 minutes: slot k begins at instant k and  *)
(* ends at k + 1.  Every comparison of the code is with a slot boundary,   *)
(* so the boundary last passed is all that matters of the wall clock.      *)
(***************************************************************************)
EXTENDS Integers, FiniteSets

CONSTANTS Users,         \* accounts that may exist
          Founder,       \* the administrator created by the first-run setup
          Rooms,         \* rooms that may exist
          NoRoom,        \* the NULL that replaces the id of a deleted room
          Reservations,  \* reservation ids that may be drawn
          Requests,      \* handover request ids that may be drawn
          LastSlot,      \* bound: slots 1 .. LastSlot can be booked
          MaxSlots,      \* max_duration_minutes / slot_minutes
          MaxRevision    \* bound: no booking is changed beyond this revision

ASSUME ConstantsAssumption ==
    /\ Founder \in Users
    /\ NoRoom \notin Rooms
    /\ LastSlot \in Nat /\ MaxSlots \in Nat /\ MaxRevision \in Nat

VARIABLES now,                 \* the slot boundary the wall clock has reached
          system_settings,     \* the working hours new bookings must lie in
          rooms,               \* rooms: absent, active, inactive or deleted
          users,               \* users: role and is_active
          reservations,        \* reservations
          reservation_slots,   \* reservation_slots: one row per occupied slot
          reservation_events,  \* reservation_events: the history of changes
          handover_requests,   \* handover_requests
          expiring             \* decide_handover calls between their two
                               \* transactions: <<actor, request>>

accountVars == <<system_settings, rooms, users>>
bookingVars == <<reservations, reservation_slots, reservation_events>>
handoverVars == <<handover_requests, expiring>>
vars == <<now, system_settings, rooms, users, reservations, reservation_slots,
          reservation_events, handover_requests, expiring>>

None == [status |-> "none"]    \* an id not drawn yet

Booking == [status: {"active", "cancelled"}, room: Rooms \cup {NoRoom},
            start: Nat, len: Nat \ {0}, owner: Users, revision: Nat \ {0}]

SlotRow == [resv: Reservations, room: Rooms, slot: Nat]

EventRow == [resv: Reservations, actor: Users, revision: Nat \ {0},
             type: {"created", "updated", "cancelled", "handover"},
             before: Booking \cup {None}, after: Booking]

Closed == {"accepted", "declined", "withdrawn", "expired"}

RequestRow == [status: {"pending"} \cup Closed, resv: Reservations,
               from: Users, to: Users, expected_revision: Nat \ {0}]

Account == [role: {"none", "admin", "employee"}, is_active: BOOLEAN]

TypeOK ==
    /\ now \in Nat
    /\ system_settings \in [work_start: Nat, work_end: Nat]
    /\ rooms \in [Rooms -> {"absent", "active", "inactive", "deleted"}]
    /\ users \in [Users -> Account]
    /\ reservations \in [Reservations -> Booking \cup {None}]
    /\ reservation_slots \subseteq SlotRow
    /\ reservation_events \subseteq EventRow
    /\ handover_requests \in [Requests -> RequestRow \cup {None}]
    /\ expiring \subseteq Users \X Requests

Init ==
    /\ now = 0
    /\ system_settings = [work_start |-> 1, work_end |-> LastSlot + 1]
    /\ rooms = [m \in Rooms |-> "absent"]
    /\ users = [u \in Users |->
                  IF u = Founder THEN [role |-> "admin", is_active |-> TRUE]
                                 ELSE [role |-> "none", is_active |-> FALSE]]
    /\ reservations = [r \in Reservations |-> None]
    /\ reservation_slots = {}
    /\ reservation_events = {}
    /\ handover_requests = [q \in Requests |-> None]
    /\ expiring = {}

-----------------------------------------------------------------------------
(* Actors, bookings and slots *)

IsActive(r) == reservations[r].status = "active"

\* BEGIN IMMEDIATE is taken, then the account is read again: the actor of a
\* transaction is enabled and an administrator now, not when it was let in.
locked_actor(u) == users[u].is_active

locked_admin(u) == locked_actor(u) /\ users[u].role = "admin"

\* A new session_version ends the handlers of u that wait for their second
\* transaction: its locked_actor raises SESSION_EXPIRED.
Revoked(u) == {x \in expiring : x[1] # u}

End(b) == b.start + b.len

slot_times_short(s, n) == s .. (s + n - 2)

slot_times(s, n) == s .. (s + n - 1)

load_mutable_anybodys(u, r) == IsActive(r)

load_mutable_reservation(u, r) ==
    /\ IsActive(r)
    /\ users[u].role = "admin" \/ reservations[r].owner = u

started_when_over(r) == End(reservations[r]) <= now

\* _started of handovers.py and the check of load_mutable_reservation.
started(r) == reservations[r].start <= now

ended_at_start(r) == reservations[r].start <= now

ended(r) == End(reservations[r]) <= now

validate_booking_payload(m, s, n) ==
    /\ n \in 1 .. MaxSlots
    /\ s >= system_settings.work_start
    /\ s + n <= system_settings.work_end
    /\ s > now
    /\ rooms[m] = "active"

\* The active bookings other than r that occupy a slot of s .. s+n-1 in m.
conflicts(m, s, n, r) ==
    {x \in reservation_slots :
        /\ x.room = m /\ x.slot \in slot_times(s, n)
        /\ x.resv # r /\ IsActive(x.resv)}

\* PRIMARY KEY (room_id, booking_date, slot_start) refuses a second row.
insert_slots(kept, r, m, s, n) ==
    /\ \A x \in kept : ~(x.room = m /\ x.slot \in slot_times(s, n))
    /\ reservation_slots' =
          kept \cup {[resv |-> r, room |-> m, slot |-> k] : k \in slot_times(s, n)}

delete_no_slots(r) == reservation_slots

delete_slots(r) == {x \in reservation_slots : x.resv # r}

insert_event(r, u, type) ==
    reservation_events' = reservation_events \cup
        {[resv |-> r, actor |-> u, revision |-> reservations'[r].revision,
          type |-> type, before |-> reservations[r], after |-> reservations'[r]]}

-----------------------------------------------------------------------------
(* Reservations *)

create_reservation(u, r, m, s, n) ==
    /\ locked_actor(u)
    /\ reservations[r] = None
    /\ validate_booking_payload(m, s, n)
    /\ conflicts(m, s, n, r) = {}
    /\ reservations' = [reservations EXCEPT ![r] =
          [status |-> "active", room |-> m, start |-> s, len |-> n,
           owner |-> u, revision |-> 1]]
    /\ insert_slots(reservation_slots, r, m, s, n)
    /\ insert_event(r, u, "created")
    /\ UNCHANGED <<now, accountVars, handoverVars>>

update_reservation(u, r, expected, m, s, n) ==
    /\ locked_actor(u)
    /\ load_mutable_reservation(u, r) /\ ~started(r)
    /\ reservations[r].revision = expected
    /\ expected < MaxRevision
    /\ validate_booking_payload(m, s, n)
    /\ conflicts(m, s, n, r) = {}
    /\ reservations' = [reservations EXCEPT ![r].room = m, ![r].start = s,
                                            ![r].len = n,
                                            ![r].revision = expected + 1]
    /\ insert_slots(delete_slots(r), r, m, s, n)
    /\ insert_event(r, u, "updated")
    /\ UNCHANGED <<now, accountVars, handoverVars>>

\* A booking that has begun may still be cancelled, one that is over may not.
cancel_reservation(u, r, expected) ==
    /\ locked_actor(u)
    /\ load_mutable_reservation(u, r) /\ ~ended(r)
    /\ reservations[r].revision = expected
    /\ expected < MaxRevision
    /\ reservations' = [reservations EXCEPT ![r].status = "cancelled",
                                            ![r].revision = expected + 1]
    /\ reservation_slots' = delete_slots(r)
    /\ insert_event(r, u, "cancelled")
    /\ UNCHANGED <<now, accountVars, handoverVars>>

-----------------------------------------------------------------------------
(* Handovers *)

IsPending(q) == handover_requests[q].status = "pending"

PendingOf(r) == {q \in Requests : IsPending(q) /\ handover_requests[q].resv = r}

Close(Q, how) == [q \in Requests |->
                    IF q \in Q THEN [handover_requests[q] EXCEPT !.status = how]
                               ELSE handover_requests[q]]

apply_handover_same_revision(u, r, to) ==
    /\ reservations[r].revision < MaxRevision
    /\ reservations' = [reservations EXCEPT ![r].owner = to]
    /\ insert_event(r, u, "handover")
    /\ UNCHANGED reservation_slots

apply_handover(u, r, to) ==
    /\ reservations[r].revision < MaxRevision
    /\ reservations' = [reservations EXCEPT ![r].owner = to,
                                            ![r].revision = @ + 1]
    /\ insert_event(r, u, "handover")
    /\ UNCHANGED reservation_slots

HandoverAllowed(u, r, to) ==
    /\ locked_actor(u)
    /\ load_mutable_reservation(u, r) /\ ~started(r)
    /\ users[to].is_active
    /\ to # reservations[r].owner

\* An administrator reassigns somebody else's booking at once.
assign_handover(u, r, to) ==
    /\ HandoverAllowed(u, r, to)
    /\ reservations[r].owner # u
    /\ apply_handover(u, r, to)
    /\ handover_requests' = Close(PendingOf(r), "withdrawn")
    /\ UNCHANGED <<now, accountVars, expiring>>

StaleOf_any(r) == PendingOf(r)

StaleOf(r) == {q \in PendingOf(r) : handover_requests[q].expected_revision
                                       # reservations[r].revision}

\* An owner asks a colleague.  A pending request for an older revision is
\* expired on the way; one for this revision refuses the new one.
request_handover(u, r, to, q) ==
    /\ HandoverAllowed(u, r, to)
    /\ reservations[r].owner = u
    /\ PendingOf(r) \subseteq StaleOf(r)
    /\ handover_requests[q] = None
    /\ handover_requests' = [Close(StaleOf(r), "expired") EXCEPT ![q] =
          [status |-> "pending", resv |-> r, from |-> u, to |-> to,
           expected_revision |-> reservations[r].revision]]
    /\ UNCHANGED <<now, accountVars, bookingVars, expiring>>

\* What accept and decline demand of the booking behind a pending request.
Decidable(q) ==
    LET row == handover_requests[q] IN
    /\ IsActive(row.resv) /\ ~started(row.resv)
    /\ reservations[row.resv].revision = row.expected_revision

MayDecide(u, q) ==
    /\ locked_actor(u)
    /\ IsPending(q)
    /\ handover_requests[q].to = u

decline_handover(u, q) ==
    /\ MayDecide(u, q) /\ Decidable(q)
    /\ handover_requests' = Close({q}, "declined")
    /\ UNCHANGED <<now, accountVars, bookingVars, expiring>>

accept_handover(u, q) ==
    /\ MayDecide(u, q) /\ Decidable(q)
    /\ apply_handover(u, handover_requests[q].resv, u)
    /\ handover_requests' =
          [Close(PendingOf(handover_requests[q].resv), "withdrawn")
             EXCEPT ![q].status = "accepted"]
    /\ UNCHANGED <<now, accountVars, expiring>>

\* The first transaction finds the request dead and commits without a change
\* to any of these tables.
find_undecidable(u, q) ==
    /\ MayDecide(u, q) /\ ~Decidable(q)
    /\ expiring' = expiring \cup {<<u, q>>}
    /\ UNCHANGED <<now, accountVars, bookingVars, handover_requests>>

\* The second one looks at nothing but the status of the request.
expire_request(u, q) ==
    /\ <<u, q>> \in expiring
    /\ expiring' = expiring \ {<<u, q>>}
    /\ handover_requests' = IF IsPending(q) THEN Close({q}, "expired")
                                            ELSE handover_requests
    /\ UNCHANGED <<now, accountVars, bookingVars>>

withdraw_handover(u, q) ==
    /\ locked_actor(u)
    /\ IsPending(q)
    /\ handover_requests[q].from = u \/ users[u].role = "admin"
    /\ handover_requests' = Close({q}, "withdrawn")
    /\ UNCHANGED <<now, accountVars, bookingVars, expiring>>

-----------------------------------------------------------------------------
(* Rooms, accounts and settings *)

create_room(u, m, enabled) ==
    /\ locked_admin(u)
    /\ rooms[m] = "absent"
    /\ rooms' = [rooms EXCEPT ![m] = IF enabled THEN "active" ELSE "inactive"]
    /\ UNCHANGED <<now, system_settings, users, bookingVars, handoverVars>>

update_room(u, m, enabled) ==
    /\ locked_admin(u)
    /\ rooms[m] \in {"active", "inactive"}
    /\ rooms' = [rooms EXCEPT ![m] = IF enabled THEN "active" ELSE "inactive"]
    /\ UNCHANGED <<now, system_settings, users, bookingVars, handoverVars>>

\* The foreign keys set room_id to NULL and cascade to the slots.
delete_room(u, m) ==
    /\ locked_admin(u)
    /\ rooms[m] \in {"active", "inactive"}
    /\ \A r \in Reservations :
          IsActive(r) /\ reservations[r].room = m => ended(r)
    /\ rooms' = [rooms EXCEPT ![m] = "deleted"]
    /\ reservations' = [r \in Reservations |->
          IF reservations[r] # None /\ reservations[r].room = m
          THEN [reservations[r] EXCEPT !.room = NoRoom] ELSE reservations[r]]
    /\ reservation_slots' = {x \in reservation_slots : x.room # m}
    /\ UNCHANGED <<now, system_settings, users, reservation_events, handoverVars>>

ActiveAdmins == {u \in Users : users[u].is_active /\ users[u].role = "admin"}

create_user(u, v, role, enabled) ==
    /\ locked_admin(u)
    /\ users[v].role = "none"
    /\ users' = [users EXCEPT ![v] = [role |-> role, is_active |-> enabled]]
    /\ UNCHANGED <<now, system_settings, rooms, bookingVars, handoverVars>>

assert_admin_is_there(v, role, enabled) == ActiveAdmins # {}

assert_admin_survives(v, role, enabled) ==
    v \in ActiveAdmins /\ ~(role = "admin" /\ enabled) =>
        \E w \in ActiveAdmins : w # v

PendingWith_receiver(v) ==
    {q \in Requests : IsPending(q) /\ v = handover_requests[q].to}

PendingWith(v) ==
    {q \in Requests :
        /\ IsPending(q)
        /\ v \in {handover_requests[q].from, handover_requests[q].to}}

\* Disabling an account closes every pending request it is a party of.
update_user(u, v, role, enabled) ==
    /\ locked_admin(u)
    /\ users[v].role # "none"
    /\ u = v => enabled
    /\ assert_admin_survives(v, role, enabled)
    /\ users' = [users EXCEPT ![v] = [role |-> role, is_active |-> enabled]]
    /\ expiring' = IF users'[v] # users[v] THEN Revoked(v) ELSE expiring
    /\ handover_requests' =
          IF users[v].is_active /\ ~enabled
          THEN Close(PendingWith(v), "expired") ELSE handover_requests
    /\ UNCHANGED <<now, system_settings, rooms, bookingVars>>

reset_password(u, v) ==
    /\ locked_admin(u)
    /\ users[v].role # "none"
    /\ expiring' = Revoked(v)
    /\ UNCHANGED <<now, accountVars, bookingVars, handover_requests>>

update_system_settings(u, from, to) ==
    /\ locked_admin(u)
    /\ from < to
    /\ system_settings' = [work_start |-> from, work_end |-> to]
    /\ UNCHANGED <<now, rooms, users, bookingVars, handoverVars>>

-----------------------------------------------------------------------------
(* Environment *)

Tick ==
    /\ now <= LastSlot
    /\ now' = now + 1
    /\ UNCHANGED <<accountVars, bookingVars, handoverVars>>

\* The server process ends: a committed transaction stays, a handler between
\* its two transactions is gone.
Crash ==
    /\ expiring # {}
    /\ expiring' = {}
    /\ UNCHANGED <<now, accountVars, bookingVars, handover_requests>>

Instants == 1 .. (LastSlot + 1)

ReservationStep(u, r) ==
    \/ \E m \in Rooms, s \in 1 .. LastSlot, n \in 1 .. MaxSlots :
          \/ create_reservation(u, r, m, s, n)
          \/ \E e \in 1 .. MaxRevision : update_reservation(u, r, e, m, s, n)
    \/ \E e \in 1 .. MaxRevision : cancel_reservation(u, r, e)
    \/ \E to \in Users :
          \/ assign_handover(u, r, to)
          \/ \E q \in Requests : request_handover(u, r, to, q)

RequestStep(u, q) ==
    \/ decline_handover(u, q)
    \/ accept_handover(u, q)
    \/ find_undecidable(u, q)
    \/ expire_request(u, q)
    \/ withdraw_handover(u, q)

AdminStep(u) ==
    \/ \E m \in Rooms : \/ delete_room(u, m)
                        \/ \E b \in BOOLEAN : create_room(u, m, b) \/ update_room(u, m, b)
    \/ \E v \in Users : \/ reset_password(u, v)
                        \/ \E role \in {"admin", "employee"}, b \in BOOLEAN :
                              create_user(u, v, role, b) \/ update_user(u, v, role, b)
    \/ \E from, to \in Instants : update_system_settings(u, from, to)

Next ==
    \/ Tick
    \/ Crash
    \/ \E u \in Users :
          \/ AdminStep(u)
          \/ \E r \in Reservations : ReservationStep(u, r)
          \/ \E q \in Requests : RequestStep(u, q)

Spec == Init /\ [][Next]_vars
-----------------------------------------------------------------------------
(* Properties *)

SlotsOf(r) == slot_times(reservations[r].start, reservations[r].len)

RowsAreBooked ==
    \A x \in reservation_slots :
        /\ IsActive(x.resv)
        /\ reservations[x.resv].room = x.room
        /\ x.slot \in SlotsOf(x.resv)

BookingsHaveRows ==
    \A r \in Reservations : IsActive(r) /\ reservations[r].room # NoRoom =>
        \A k \in SlotsOf(r) :
           [resv |-> r, room |-> reservations[r].room, slot |-> k] \in reservation_slots

SlotsAreSingle ==
    \A x, y \in reservation_slots : x.room = y.room /\ x.slot = y.slot => x = y

\* The table of occupied slots and the table of bookings say the same: a row
\* for every slot of every active booking whose room exists, no other row, and
\* no slot of a room twice.  create, update, cancel and delete_room write the
\* two tables separately.
SlotLedger == RowsAreBooked /\ BookingsHaveRows /\ SlotsAreSingle

\* No room is booked twice for the same time, whatever bookings were moved,
\* handed over, cancelled or left behind by a deleted room.
NoDoubleBooking ==
    \A r, s \in Reservations :
        /\ r # s
        /\ IsActive(r) /\ IsActive(s)
        /\ reservations[r].room = reservations[s].room
        /\ reservations[r].room # NoRoom
        => \/ End(reservations[r]) <= reservations[s].start
           \/ End(reservations[s]) <= reservations[r].start

\* A booking that is not over has a room that was not deleted: neither
\* delete_room racing the booking handlers nor time passing can orphan it.
BookedRoomsStay ==
    \A r \in Reservations : IsActive(r) /\ now < End(reservations[r]) =>
        /\ reservations[r].room # NoRoom
        /\ rooms[reservations[r].room] \in {"active", "inactive"}

\* The row as the history last recorded it; only the NULL of a deleted room,
\* which bumps no revision and records no event, may have come since.
Recorded(r, row) ==
    \/ reservations[r] = row
    \/ /\ reservations[r] = [row EXCEPT !.room = NoRoom]
       /\ row.room \in Rooms => rooms[row.room] = "deleted"

EventsTell ==
    \A e \in reservation_events :
        /\ reservations[e.resv] # None
        /\ e.revision <= reservations[e.resv].revision
        /\ e.after.revision = e.revision
        /\ e.revision = reservations[e.resv].revision => Recorded(e.resv, e.after)
        /\ e.revision = 1 <=> e.before = None

EventsLink ==
    \A e, f \in reservation_events : f.resv = e.resv =>
        /\ f.revision = e.revision => f = e
        /\ f.revision = e.revision + 1 => f.before = e.after

EventsComplete ==
    \A r \in Reservations : reservations[r] # None =>
        \A k \in 1 .. reservations[r].revision :
           \E e \in reservation_events : e.resv = r /\ e.revision = k

\* The history of a booking has exactly one event per revision, each starts
\* from what the one before it left, and the last one tells what the booking
\* is now: a revision number stands for one content, so an edit that names
\* the current revision overwrites nothing its author had not seen.
HistoryChain == EventsTell /\ EventsLink /\ EventsComplete

\* Somebody can always administer the system: no sequence of demotions and
\* disablings, by any administrators, removes the last one.
AdminSurvives == ActiveAdmins # {}

IsOwners(q) ==
    LET row == handover_requests[q] IN
    /\ reservations[row.resv] # None
    /\ row.from = reservations[row.resv].owner
    /\ row.to # row.from
    /\ users[row.from].is_active /\ users[row.to].is_active
    /\ row.expected_revision <= reservations[row.resv].revision
    /\ PendingOf(row.resv) = {q}

\* A pending request was made by the current owner to somebody else, both can
\* still sign in, and it is the only one for its booking: assignments,
\* acceptances and disabled accounts leave no request behind that could give
\* away what its sender no longer owns.
PendingIsOwners == \A q \in Requests : IsPending(q) => IsOwners(q)

\* An accepted request changed the owner exactly once, in the revision right
\* after the one its sender offered: what was accepted is what was offered.
AcceptedAsOffered ==
    \A q \in Requests : handover_requests[q].status = "accepted" =>
        LET row == handover_requests[q] IN
        \E e \in reservation_events :
            /\ e.resv = row.resv /\ e.type = "handover"
            /\ e.revision = row.expected_revision + 1
            /\ e.actor = row.to
            /\ e.before.owner = row.from /\ e.after.owner = row.to

ByConsent(r) ==
    /\ reservations'[r] = [reservations[r] EXCEPT !.owner = reservations'[r].owner,
                                                 !.revision = @ + 1]
    /\ \/ \E u \in ActiveAdmins : u # reservations[r].owner
          /\ [resv |-> r, actor |-> u, revision |-> reservations'[r].revision,
              type |-> "handover", before |-> reservations[r],
              after |-> reservations'[r]] \in reservation_events'
       \/ \E q \in PendingOf(r) :
          /\ handover_requests[q].from = reservations[r].owner
          /\ handover_requests[q].to = reservations'[r].owner
          /\ handover_requests'[q].status = "accepted"

\* A booking changes hands only when its new owner accepts a request of the
\* old one, or when an administrator who does not own it reassigns it; the
\* place it holds does not change with it.
OwnerChangesByConsent ==
    [][\A r \in Reservations :
         reservations[r] # None /\ reservations'[r].owner # reservations[r].owner =>
         ByConsent(r)]_vars

StaysOrEnds(q) ==
    \/ handover_requests'[q] = handover_requests[q]
    \/ /\ IsPending(q)
       /\ \E how \in Closed :
             handover_requests'[q] = [handover_requests[q] EXCEPT !.status = how]

\* The terms of a request never change and its outcome is final, also for a
\* decide_handover that is late with its second transaction.
RequestsFinal ==
    [][\A q \in Requests : handover_requests[q] # None => StaysOrEnds(q)]_vars

\* A request expires only when it could not have been decided any more or a
\* party to it is being disabled: the second transaction of decide_handover,
\* which checks neither booking nor clock again, never kills a live request.
ExpireOnlyDead ==
    [][\A q \in Requests :
         IsPending(q) /\ handover_requests'[q].status = "expired" =>
         \/ ~Decidable(q)
         \/ ~users'[handover_requests[q].from].is_active
         \/ ~users'[handover_requests[q].to].is_active]_vars

-----------------------------------------------------------------------------
(* The calendar the tables implement *)

PlaceOf(r) == [room |-> reservations[r].room, start |-> reservations[r].start,
               len |-> reservations[r].len, owner |-> reservations[r].owner]

Placed == [r \in Reservations |->
             IF IsActive(r) /\ reservations[r].room # NoRoom THEN PlaceOf(r) ELSE None]

Abstract == INSTANCE Calendar
    WITH Starts <- 1 .. LastSlot, Lengths <- 1 .. MaxSlots, Vacant <- None,
         booked <- Placed

\* Whatever the handlers do to their tables, a user sees a calendar without
\* overlaps in which only what lies ahead is placed, moved or given away.
ImplementsCalendar == Abstract!Spec
=============================================================================
