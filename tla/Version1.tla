------------------------------ MODULE Version1 ------------------------------
(***************************************************************************)
(* The first generation of the system, from 源代码工作区/app.py: server-   *)
(* rendered pages over one SQLite database.  A request reads its session   *)
(* and checks its form first; a writing one then takes the database's      *)
(* write lock and checks again what may have changed.                      *)
(*                                                                         *)
(* Dates and times are slots: slot k lasts from k to k + 1.                *)
(***************************************************************************)
EXTENDS Integers, FiniteSets

CONSTANTS Users, Admin,         \* accounts; the one init_db creates
          Rooms, FirstRooms,    \* room ids, never used twice; those of the first three that are left
          Bookings,             \* reservation ids
          Browsers,             \* cookies, each with one request at a time
          LastSlot,             \* bound: the day's last slot
          MaxChanges,           \* bound: changes of accounts that end their sessions
          None                  \* no cookie, no request, no row, no room

ASSUME Version1Assumption ==
    Admin \in Users /\ FirstRooms \subseteq Rooms /\ LastSlot \in Nat /\ MaxChanges \in Nat

VARIABLES user,     \* table users
          room,     \* table rooms: none, active, closed, or deleted
          booking,  \* table reservations
          slots,    \* table reservation_slots
          cookie,   \* the signed session of each browser
          request,  \* what a request has read before it takes the lock
          now

tables == <<user, room, booking, slots>>
vars == <<user, room, booking, slots, cookie, request, now>>

Account == [user : Users, version : 1 .. MaxChanges + 1]
Place == {p \in [room : Rooms, start : 0 .. LastSlot, end : 1 .. LastSlot + 1] : p.start < p.end}

Row == [room : Rooms \cup {None}, start : 0 .. LastSlot, end : 1 .. LastSlot + 1,
        user : Users, status : {"pending", "cancelled"}]

\* No cell, no row and no place of the calendar is None.
ASSUME NoneAssumption ==
    /\ None \notin Rooms /\ None \notin Row
    /\ None \notin [room : Rooms, start : 0 .. LastSlot, len : 1 .. LastSlot + 1, owner : Users]

TypeOK ==
    /\ user \in [Users -> {None} \cup
                 [admin : BOOLEAN, active : BOOLEAN, version : 1 .. MaxChanges + 1]]
    /\ room \in [Rooms -> {"none", "active", "closed", "deleted"}]
    /\ booking \in [Bookings -> {None} \cup Row]
    /\ slots \subseteq Bookings \X Rooms \X (0 .. LastSlot)
    /\ cookie \in [Browsers -> {None} \cup Account]

\* init_db: one administrator, and of the first rooms those not deleted since.
Init ==
    /\ user = [u \in Users |-> IF u = Admin THEN [admin |-> TRUE, active |-> TRUE, version |-> 1]
                               ELSE None]
    /\ room = [m \in Rooms |-> IF m \in FirstRooms THEN "active" ELSE "none"]
    /\ booking = [b \in Bookings |-> None] /\ slots = {}
    /\ cookie = [w \in Browsers |-> None] /\ request = [w \in Browsers |-> None]
    /\ now = 0

-----------------------------------------------------------------------------
(* Sessions *)

\* The account of a session: the row is active and no change has revoked it.
Live(a) == user[a.user].active /\ user[a.user].version = a.version

\* A mutant: only the activity of the account is looked at under the lock.
Locked_active(a) == user[a.user].active

\* The same, read again once the lock is held.
Locked(a) == Live(a)

_current_user(w) == cookie[w] # None /\ Live(cookie[w])

login(w, u) ==
    /\ request[w] = None /\ user[u] # None /\ user[u].active
    /\ cookie' = [cookie EXCEPT ![w] = [user |-> u, version |-> user[u].version]]
    /\ UNCHANGED <<tables, request, now>>

logout(w) ==
    /\ request[w] = None /\ cookie[w] # None
    /\ cookie' = [cookie EXCEPT ![w] = None]
    /\ UNCHANGED <<tables, request, now>>

\* Any page of a session that was revoked: session.clear.
login_required(w) ==
    /\ request[w] = None /\ cookie[w] # None /\ ~_current_user(w)
    /\ cookie' = [cookie EXCEPT ![w] = None]
    /\ UNCHANGED <<tables, request, now>>

\* What is read before BEGIN IMMEDIATE.
Arrive(w, kind, place) ==
    /\ request[w] = None /\ _current_user(w)
    /\ request' = [request EXCEPT ![w] = [kind |-> kind, account |-> cookie[w], place |-> place]]
    /\ UNCHANGED <<tables, cookie, now>>

start_reserve(w, p) ==
    room[p.room] = "active" /\ p.start > now /\ Arrive(w, "reserve", p)
start_cancel(w) == Arrive(w, "cancel", None)
admin_required(w) == _current_user(w) /\ user[cookie[w].user].admin /\ Arrive(w, "admin", None)

\* The end of a request, with the write lock released.
Done(w) == request' = [request EXCEPT ![w] = None] /\ UNCHANGED now
Handles(w, kind) == request[w] # None /\ request[w].kind = kind
Refused(w) == Done(w) /\ UNCHANGED <<tables, cookie>>

\* Under the lock the account has changed: nothing is written, the session ends.
expelled(w) ==
    /\ request[w] # None
    /\ ~Locked(request[w].account)
         \/ (request[w].kind = "admin" /\ ~user[request[w].account.user].admin)
    /\ Done(w) /\ cookie' = [cookie EXCEPT ![w] = None]
    /\ UNCHANGED tables

-----------------------------------------------------------------------------
(* Reservations *)

_reservation_slot_times(p) == p.start .. (p.end - 1)
Taken(p) == \E s \in slots : s[2] = p.room /\ s[3] \in _reservation_slot_times(p)

\* What the calendar page shows of a room.
_room_reservations(m) ==
    {b \in Bookings : booking[b] # None /\ booking[b].room = m /\ booking[b].status = "pending"}
_build_slot_map(m) ==
    UNION {{b} \X {m} \X _reservation_slot_times(booking[b]) : b \in _room_reservations(m)}

reserve(w, b) ==
    /\ Handles(w, "reserve") /\ Locked(request[w].account)
    /\ LET p == request[w].place
       IN IF room[p.room] = "active" /\ p.start > now /\ ~Taken(p)
          THEN /\ booking[b] = None
               /\ booking' = [booking EXCEPT ![b] =
                    [room |-> p.room, start |-> p.start, end |-> p.end,
                     user |-> request[w].account.user, status |-> "pending"]]
               /\ slots' = slots \cup ({b} \X {p.room} \X _reservation_slot_times(p))
               /\ Done(w) /\ UNCHANGED <<user, room, cookie>>
          ELSE Refused(w)

\* A mutant: the slots are left behind.
Cancel_status(b) ==
    /\ booking' = [booking EXCEPT ![b].status = "cancelled"]
    /\ UNCHANGED <<user, room, slots>>

\* UPDATE status and DELETE of the slots.
Cancel(b) ==
    /\ booking' = [booking EXCEPT ![b].status = "cancelled"]
    /\ slots' = {s \in slots : s[1] # b}
    /\ UNCHANGED <<user, room>>

\* The owner before the end, an administrator at any time.
May_cancel(a, b) ==
    /\ booking[b] # None
    /\ user[a].admin \/ (booking[b].user = a /\ booking[b].end > now)

cancel_reservation(w, b) ==
    /\ Handles(w, "cancel") /\ Locked(request[w].account)
    /\ IF May_cancel(request[w].account.user, b)
       THEN Cancel(b) /\ Done(w) /\ UNCHANGED cookie
       ELSE Refused(w)

-----------------------------------------------------------------------------
(* Administration: admin_write_required and the views it guards *)

admin_write_required(w) ==
    Handles(w, "admin") /\ Locked(request[w].account) /\ user[request[w].account.user].admin

admin_cancel_reservation(w, b) ==
    /\ admin_write_required(w)
    /\ booking[b] # None /\ booking[b].status = "pending" /\ booking[b].end > now
    /\ Cancel(b) /\ Done(w) /\ UNCHANGED cookie

May_revoke ==
    Cardinality({c \in Users \X (2 .. MaxChanges + 1) :
                   user[c[1]] # None /\ c[2] <= user[c[1]].version}) < MaxChanges

ActiveAdmins == {u \in Users : user[u] # None /\ user[u].admin /\ user[u].active}

\* The last active administrator is kept.
Keeps_admin(u, admin, active) == u \notin ActiveAdmins \/ (admin /\ active) \/ Cardinality(ActiveAdmins) > 1

SetUser(u, row) == user' = [user EXCEPT ![u] = row] /\ UNCHANGED <<room, booking, slots>>

admin_add_user(w, u, admin) ==
    /\ admin_write_required(w) /\ user[u] = None
    /\ SetUser(u, [admin |-> admin, active |-> TRUE, version |-> 1])
    /\ Done(w) /\ UNCHANGED cookie

\* A new password, or a change of the role or of the activity, ends the sessions.
admin_edit_user(w, u, admin, active, password) ==
    /\ admin_write_required(w) /\ user[u] # None
    /\ LET actor == request[w].account.user
           revoke == password \/ user[u].admin # admin \/ user[u].active # active
       IN /\ u = actor => active
          /\ Keeps_admin(u, admin, active)
          /\ revoke => May_revoke
          /\ SetUser(u, [admin |-> admin, active |-> active,
                         version |-> user[u].version + (IF revoke THEN 1 ELSE 0)])
          /\ Done(w)
          /\ cookie' = IF u = actor /\ revoke THEN [cookie EXCEPT ![w] = None] ELSE cookie

admin_delete_user(w, u) ==
    /\ admin_write_required(w) /\ user[u] # None /\ u # request[w].account.user
    /\ Keeps_admin(u, user[u].admin, FALSE) /\ May_revoke
    /\ SetUser(u, [user[u] EXCEPT !.active = FALSE, !.version = @ + 1])
    /\ Done(w) /\ UNCHANGED cookie

admin_add_room(w, m) ==
    /\ admin_write_required(w) /\ room[m] = "none"
    /\ room' = [room EXCEPT ![m] = "active"]
    /\ Done(w) /\ UNCHANGED <<user, booking, slots, cookie>>

\* A room that is closed keeps its reservations.
admin_edit_room(w, m, state) ==
    /\ admin_write_required(w) /\ room[m] \in {"active", "closed"} /\ state \in {"active", "closed"}
    /\ room' = [room EXCEPT ![m] = state]
    /\ Done(w) /\ UNCHANGED <<user, booking, slots, cookie>>

\* A mutant: reservations that have begun do not count.
Upcoming_begun(m) == {b \in _room_reservations(m) : booking[b].start > now}

Upcoming(m) == {b \in _room_reservations(m) : booking[b].end > now}

\* The foreign keys: reservations lose the room, its slots are deleted.
admin_delete_room(w, m) ==
    /\ admin_write_required(w) /\ room[m] \in {"active", "closed"} /\ Upcoming(m) = {}
    /\ room' = [room EXCEPT ![m] = "deleted"]
    /\ booking' = [b \in Bookings |-> IF booking[b] # None /\ booking[b].room = m
                                      THEN [booking[b] EXCEPT !.room = None] ELSE booking[b]]
    /\ slots' = {s \in slots : s[2] # m}
    /\ Done(w) /\ UNCHANGED <<user, cookie>>

\* A form that is refused, or a request the server gave up: ROLLBACK.
rollback(w) == request[w] # None /\ Refused(w)

tick ==
    /\ now < LastSlot /\ now' = now + 1
    /\ UNCHANGED <<tables, cookie, request>>

Sessions(w) ==
    \/ \E u \in Users : login(w, u)
    \/ logout(w) \/ login_required(w) \/ expelled(w) \/ rollback(w)
    \/ start_cancel(w) \/ admin_required(w)
    \/ \E p \in Place : start_reserve(w, p)
Writes(w) ==
    \/ \E b \in Bookings : \/ reserve(w, b) \/ cancel_reservation(w, b)
                           \/ admin_cancel_reservation(w, b)
    \/ \E u \in Users : \/ admin_delete_user(w, u)
                        \/ \E admin \in BOOLEAN :
                             \/ admin_add_user(w, u, admin)
                             \/ \E active, password \in BOOLEAN :
                                  admin_edit_user(w, u, admin, active, password)
    \/ \E m \in Rooms : \/ admin_delete_room(w, m) \/ admin_add_room(w, m)
                        \/ \E state \in {"active", "closed"} : admin_edit_room(w, m, state)

Next == tick \/ \E w \in Browsers : Sessions(w) \/ Writes(w)
Spec == Init /\ [][Next]_vars

-----------------------------------------------------------------------------
(* Properties *)

\* The table of slots, which alone keeps reservations apart, holds exactly what
\* the pages show as taken in the rooms that are left.
SlotsAreBookings == slots = UNION {_build_slot_map(m) : m \in Rooms}

\* A write that was held up while the account was disabled, demoted or given a
\* new password changes nothing.
RevokedNeverWrites ==
    [][\A w \in Browsers :
         request[w] # None /\ request'[w] = None /\ ~Live(request[w].account) => UNCHANGED tables]_vars

Placed(b) == booking[b] # None /\ booking[b].status = "pending" /\ booking[b].room # None

\* The calendar a user may rely on: what is pending in a room that exists.
Shown ==
    [b \in Bookings |->
       IF Placed(b) THEN [room |-> booking[b].room, start |-> booking[b].start,
                          len |-> booking[b].end - booking[b].start, owner |-> booking[b].user]
       ELSE None]
Abstract == INSTANCE Calendar WITH
    Reservations <- Bookings, Starts <- 0 .. LastSlot, Lengths <- 1 .. LastSlot + 1, Vacant <- None,
    booked <- Shown

\* What an administrator of this generation may do besides: cancel what is over.
ForgetPast ==
    \E b \in Bookings : /\ Placed(b) /\ booking[b].end <= now
                        /\ Shown' = [Shown EXCEPT ![b] = None] /\ UNCHANGED <<room, now>>

\* The pages of version 1 keep the promise of the calendar: nothing overlaps,
\* nothing is placed in the past or moved, and a room goes only when nothing is
\* ahead in it.
KeepsCalendar ==
    /\ Abstract!Init
    /\ [][\/ Abstract!Tick \/ ForgetPast
          \/ \E b \in Bookings : \/ (Abstract!Release(b) /\ UNCHANGED room)
                                \/ (Placed(b)' /\ Abstract!Book(b, Shown'[b]))
          \/ \E m \in Rooms : Abstract!Retire(m)]_<<now, Shown>>
=============================================================================
