--------------------------- MODULE Version1Proofs ---------------------------
(***************************************************************************)
(* The pages of version 1 keep the slot table, refuse what was revoked and *)
(* implement the calendar, for any number of browsers, accounts, rooms and *)
(* reservations; and its starts agree on the files of their folder, keep   *)
(* the notice of a new address and open the browser on their own data, for *)
(* any number of starts, addresses and faults.                             *)
(***************************************************************************)
EXTENDS Version1, Version1Start, WellFoundedInduction, TLAPS

-----------------------------------------------------------------------------
(* The invariant *)

Types ==
    /\ booking \in [Bookings -> {None} \cup Row]
    /\ room \in [Rooms -> {"none", "active", "closed", "deleted"}]
    /\ DOMAIN cookie = Browsers /\ DOMAIN request = Browsers
    /\ \A w \in Browsers :
         /\ cookie[w] # None => cookie[w].user \in Users
         /\ request[w] # None => request[w].account.user \in Users
         /\ Handles(w, "reserve") => request[w].place \in Place
    /\ now \in 0 .. LastSlot

\* No reservation is empty: the calendar would not see it.
Lengthy == \A b \in Bookings : booking[b] # None => booking[b].start < booking[b].end

TableInv == Types /\ Lengthy /\ SlotsAreBookings

\* The cells of the slot table that belong to b.
Cells(b) == {b} \X {booking[b].room} \X _reservation_slot_times(booking[b])

\* The slot table, cell by cell.
SlotMeans == \A s : s \in slots <=> \E b \in Bookings : Placed(b) /\ s \in Cells(b)

LEMMA SlotMeaning == Types => (SlotsAreBookings <=> SlotMeans)
  <1> SUFFICES ASSUME Types PROVE SlotsAreBookings <=> SlotMeans
    OBVIOUS
  <1>1. ASSUME NEW s
        PROVE  s \in UNION {_build_slot_map(m) : m \in Rooms}
                 <=> \E b \in Bookings : Placed(b) /\ s \in Cells(b)
    <2>1. \A b \in Bookings : Placed(b) => booking[b].room \in Rooms
      BY DEF Types, Row, Placed
    <2>2. \A m \in Rooms : \A b \in Bookings :
            b \in _room_reservations(m) <=> Placed(b) /\ booking[b].room = m
      BY NoneAssumption DEF _room_reservations, Placed
    <2>3. s \in UNION {_build_slot_map(m) : m \in Rooms}
            <=> \E m \in Rooms : \E b \in _room_reservations(m) :
                   s \in {b} \X {m} \X _reservation_slot_times(booking[b])
      BY DEF _build_slot_map
    <2> QED
      BY <2>1, <2>2, <2>3 DEF Cells, _room_reservations
  <1> QED
    BY <1>1 DEF SlotsAreBookings, SlotMeans

\* A step that leaves the places alone, and the cells.
LEMMA SlotsStay ==
  ASSUME Types, Types', SlotsAreBookings, UNCHANGED <<booking, slots>>
  PROVE  SlotsAreBookings'
  BY DEF SlotsAreBookings, _build_slot_map, _room_reservations, _reservation_slot_times

LEMMA CancelKeepsSlots ==
  ASSUME Types, Types', SlotsAreBookings, NEW b \in Bookings, booking[b] # None, Cancel(b)
  PROVE  SlotsAreBookings'
  <1>1. /\ \A c \in Bookings \ {b} : booking'[c] = booking[c]
        /\ booking'[b].status = "cancelled"
    BY DEF Cancel, Types, Row
  <1>2. /\ ~Placed(b)'
        /\ \A c \in Bookings \ {b} : (Placed(c)' <=> Placed(c)) /\ Cells(c)' = Cells(c)
    BY <1>1 DEF Placed, Cells, _reservation_slot_times
  <1>3. \A c \in Bookings : \A s \in Cells(c) : s[1] = c
    BY DEF Cells
  <1>4. \A s : s \in slots' <=> s \in slots /\ s[1] # b
    BY DEF Cancel
  <1>5. SlotMeans'
    BY <1>2, <1>3, <1>4, SlotMeaning DEF SlotMeans
  <1>6. Types' => (SlotsAreBookings' <=> SlotMeans')
    BY SlotMeaning, PTL
  <1> QED
    BY <1>5, <1>6

LEMMA ReserveKeepsSlots ==
  ASSUME Types, Types', SlotsAreBookings, NEW w \in Browsers, NEW b \in Bookings, reserve(w, b)
  PROVE  SlotsAreBookings'
  <1> DEFINE p == request[w].place
             made == room[p.room] = "active" /\ p.start > now /\ ~Taken(p)
  <1>1. p \in Place
    BY DEF reserve, Types
  <1>2. CASE ~made
    BY <1>2, SlotsStay DEF reserve, Refused, tables
  <1>3. CASE made
    <2>1. /\ booking[b] = None
          /\ booking' = [booking EXCEPT ![b] =
               [room |-> p.room, start |-> p.start, end |-> p.end,
                user |-> request[w].account.user, status |-> "pending"]]
          /\ slots' = slots \cup ({b} \X {p.room} \X _reservation_slot_times(p))
      BY <1>3 DEF reserve
    <2>2. /\ ~Placed(b) /\ Placed(b)'
          /\ Cells(b)' = {b} \X {p.room} \X _reservation_slot_times(p)
      <3>1. /\ booking'[b].room = p.room /\ booking'[b].start = p.start
            /\ booking'[b].end = p.end /\ booking'[b].status = "pending"
        BY <2>1 DEF Types
      <3>2. booking'[b] \in Row
        BY <1>1, <2>1, Version1Assumption DEF Types, Row, Place, Handles, reserve
      <3> QED
        BY <1>1, <2>1, <3>1, <3>2, NoneAssumption
        DEF Placed, Cells, Place, _reservation_slot_times
    <2>3. \A c \in Bookings \ {b} : (Placed(c)' <=> Placed(c)) /\ Cells(c)' = Cells(c)
      BY <2>1 DEF Placed, Cells, _reservation_slot_times
    <2>4. SlotMeans
      BY SlotMeaning
    <2> HIDE DEF p
    <2>5. SlotMeans'
      BY <2>1, <2>2, <2>3, <2>4 DEF SlotMeans
    <2>6. Types' => (SlotsAreBookings' <=> SlotMeans')
      BY SlotMeaning, PTL
    <2> QED
      BY <2>5, <2>6
  <1> QED
    BY <1>2, <1>3

LEMMA DeleteRoomKeepsSlots ==
  ASSUME Types, Types', SlotsAreBookings, NEW w \in Browsers, NEW m \in Rooms,
         admin_delete_room(w, m)
  PROVE  SlotsAreBookings'
  <1>1. /\ booking' = [b \in Bookings |-> IF booking[b] # None /\ booking[b].room = m
                                          THEN [booking[b] EXCEPT !.room = None] ELSE booking[b]]
        /\ slots' = {s \in slots : s[2] # m}
    BY DEF admin_delete_room
  <1>2. ASSUME NEW b \in Bookings
        PROVE  /\ Placed(b)' <=> Placed(b) /\ booking[b].room # m
               /\ Placed(b)' => Cells(b)' = Cells(b)
               /\ \A s \in Cells(b) : s[2] = booking[b].room
    <2>1. CASE booking[b] # None /\ booking[b].room = m
      BY <1>1, <2>1, NoneAssumption DEF Types, Row, Placed, Cells
    <2>2. CASE ~(booking[b] # None /\ booking[b].room = m)
      BY <1>1, <2>2 DEF Placed, Cells, _reservation_slot_times
    <2> QED
      BY <2>1, <2>2
  <1>3. SlotMeans
    BY SlotMeaning
  <1>4. SlotMeans'
    BY <1>1, <1>2, <1>3 DEF SlotMeans
  <1>5. Types' => (SlotsAreBookings' <=> SlotMeans')
    BY SlotMeaning, PTL
  <1> QED
    BY <1>4, <1>5

-----------------------------------------------------------------------------
(* The steps *)

\* Logging in and out, and requests that arrive or end without a write.
LEMMA SessionSteps ==
  ASSUME Types, NEW w \in Browsers, Sessions(w)
  PROVE  Types' /\ UNCHANGED <<tables, now>>
  <1> USE DEF tables, Types, Row, Handles
  <1>1. ASSUME NEW u \in Users, login(w, u) PROVE Types' /\ UNCHANGED <<tables, now>>
    BY <1>1 DEF login
  <1>2. CASE logout(w) \/ login_required(w)
    BY <1>2 DEF logout, login_required
  <1>3. CASE expelled(w) \/ rollback(w)
    BY <1>3 DEF expelled, rollback, Refused, Done
  <1>4. CASE start_cancel(w) \/ admin_required(w)
    BY <1>4 DEF start_cancel, admin_required, Arrive, _current_user
  <1>5. ASSUME NEW p \in Place, start_reserve(w, p) PROVE Types' /\ UNCHANGED <<tables, now>>
    BY <1>5 DEF start_reserve, Arrive, _current_user
  <1> HIDE DEF Types
  <1> QED
    BY <1>1, <1>2, <1>3, <1>4, <1>5 DEF Sessions

\* Writes to the accounts and to the list of rooms.
Administrates(w) ==
    \/ \E u \in Users : \/ admin_delete_user(w, u)
                        \/ \E admin \in BOOLEAN :
                             \/ admin_add_user(w, u, admin)
                             \/ \E active, password \in BOOLEAN :
                                  admin_edit_user(w, u, admin, active, password)
    \/ \E m \in Rooms : \/ admin_add_room(w, m)
                        \/ \E state \in {"active", "closed"} : admin_edit_room(w, m, state)

LEMMA AdministrationSteps ==
  ASSUME Types, NEW w \in Browsers, Administrates(w)
  PROVE  Types' /\ UNCHANGED <<booking, slots, now>>
  <1> USE DEF Types, Row, Handles, Done, SetUser
  <1> DEFINE G == Types' /\ UNCHANGED <<booking, slots, now>>
  <1>1. ASSUME NEW u \in Users, admin_delete_user(w, u) PROVE G
    BY <1>1 DEF admin_delete_user
  <1>2. ASSUME NEW u \in Users, NEW admin \in BOOLEAN, admin_add_user(w, u, admin) PROVE G
    BY <1>2 DEF admin_add_user
  <1>3. ASSUME NEW u \in Users, NEW admin \in BOOLEAN, NEW active \in BOOLEAN,
               NEW password \in BOOLEAN, admin_edit_user(w, u, admin, active, password)
        PROVE  G
    BY <1>3 DEF admin_edit_user
  <1>4. ASSUME NEW m \in Rooms, admin_add_room(w, m) PROVE G
    BY <1>4 DEF admin_add_room
  <1>5. ASSUME NEW m \in Rooms, NEW state \in {"active", "closed"}, admin_edit_room(w, m, state)
        PROVE  G
    BY <1>5 DEF admin_edit_room
  <1> HIDE DEF G
  <1>6. G
    BY <1>1, <1>2, <1>3, <1>4, <1>5 DEF Administrates
  <1> QED
    BY <1>6 DEF G

LEMMA WriteKeepsTypes ==
  ASSUME Types, NEW w \in Browsers, Writes(w)
  PROVE  Types'
  <1>1. CASE Administrates(w)
    BY <1>1, AdministrationSteps
  <1> USE DEF Types, Row, Handles, Done, Refused, tables
  <1>2. ASSUME NEW b \in Bookings, reserve(w, b) PROVE Types'
    BY <1>2, Version1Assumption DEF reserve, Place
  <1>3. ASSUME NEW b \in Bookings, cancel_reservation(w, b) PROVE Types'
    BY <1>3 DEF cancel_reservation, May_cancel, Cancel
  <1>4. ASSUME NEW b \in Bookings, admin_cancel_reservation(w, b) PROVE Types'
    BY <1>4 DEF admin_cancel_reservation, Cancel
  <1>5. ASSUME NEW m \in Rooms, admin_delete_room(w, m) PROVE Types'
    BY <1>5 DEF admin_delete_room
  <1> HIDE DEF Types
  <1> QED
    BY <1>1, <1>2, <1>3, <1>4, <1>5 DEF Writes, Administrates

LEMMA LengthyStays ==
  ASSUME Types, Lengthy, Types', UNCHANGED booking
  PROVE  Lengthy'
  BY DEF Lengthy

LEMMA WriteKeepsLengthy ==
  ASSUME Types, Lengthy, NEW w \in Browsers, Writes(w)
  PROVE  Lengthy'
  <1>1. CASE Administrates(w)
    BY <1>1, AdministrationSteps, LengthyStays
  <1> USE DEF Types, Lengthy, Refused, tables
  <1>2. ASSUME NEW b \in Bookings, reserve(w, b) PROVE Lengthy'
    <2>1. request[w].place.start < request[w].place.end
      BY <1>2 DEF reserve, Place
    <2> QED
      BY <1>2, <2>1 DEF reserve
  <1>3. ASSUME NEW b \in Bookings, cancel_reservation(w, b) \/ admin_cancel_reservation(w, b)
        PROVE  Lengthy'
    BY <1>3, NoneAssumption DEF cancel_reservation, admin_cancel_reservation, May_cancel, Cancel, Row
  <1>4. ASSUME NEW m \in Rooms, admin_delete_room(w, m) PROVE Lengthy'
    BY <1>4, NoneAssumption DEF admin_delete_room, Row
  <1> HIDE DEF Types, Lengthy
  <1> QED
    BY <1>1, <1>2, <1>3, <1>4 DEF Writes, Administrates

LEMMA WriteKeepsSlots ==
  ASSUME TableInv, NEW w \in Browsers, Writes(w)
  PROVE  TableInv'
  <1>1. Types /\ Types' /\ SlotsAreBookings /\ Lengthy'
    BY WriteKeepsTypes, WriteKeepsLengthy DEF TableInv
  <1>2. CASE Administrates(w)
    BY <1>1, <1>2, AdministrationSteps, SlotsStay DEF TableInv
  <1>3. ASSUME NEW b \in Bookings, reserve(w, b) PROVE TableInv'
    BY <1>1, <1>3, ReserveKeepsSlots DEF TableInv
  <1>4. ASSUME NEW b \in Bookings, cancel_reservation(w, b) \/ admin_cancel_reservation(w, b)
        PROVE  TableInv'
    <2>1. CASE booking[b] # None /\ Cancel(b)
      BY <1>1, <2>1, CancelKeepsSlots DEF TableInv
    <2>2. CASE UNCHANGED <<booking, slots>>
      BY <1>1, <2>2, SlotsStay DEF TableInv
    <2> QED
      BY <1>4, <2>1, <2>2
      DEF cancel_reservation, admin_cancel_reservation, May_cancel, Refused, tables
  <1>5. ASSUME NEW m \in Rooms, admin_delete_room(w, m) PROVE TableInv'
    BY <1>1, <1>5, DeleteRoomKeepsSlots DEF TableInv
  <1> QED
    BY <1>2, <1>3, <1>4, <1>5 DEF Writes, Administrates

LEMMA InitTables == Init => TableInv
  <1> SUFFICES ASSUME Init PROVE TableInv
    OBVIOUS
  <1>1. Types
    BY Version1Assumption DEF Init, Types, Handles
  <1>2. SlotMeans
    BY DEF Init, SlotMeans, Placed
  <1> QED
    BY <1>1, <1>2, SlotMeaning DEF TableInv, Lengthy, Init

LEMMA NextKeepsTables == TableInv /\ [Next]_vars => TableInv'
  <1> SUFFICES ASSUME TableInv, [Next]_vars PROVE TableInv'
    OBVIOUS
  <1>1. Types /\ SlotsAreBookings /\ Lengthy
    BY DEF TableInv
  <1>2. ASSUME NEW w \in Browsers, Sessions(w) PROVE TableInv'
    BY <1>1, <1>2, SessionSteps, SlotsStay, LengthyStays DEF TableInv, tables
  <1>3. CASE tick
    <2>1. Types' /\ UNCHANGED <<booking, slots>>
      BY <1>1, <1>3, Version1Assumption DEF tick, tables, Types, Handles
    <2> QED
      BY <1>1, <2>1, SlotsStay, LengthyStays DEF TableInv
  <1>4. CASE UNCHANGED vars
    <2>1. Types' /\ UNCHANGED <<booking, slots>>
      BY <1>1, <1>4 DEF vars, tables, Types, Handles
    <2> QED
      BY <1>1, <2>1, SlotsStay, LengthyStays DEF TableInv
  <1> QED
    BY <1>2, <1>3, <1>4, WriteKeepsSlots DEF Next

LEMMA TablesAlways == Spec => []TableInv
  BY InitTables, NextKeepsTables, PTL DEF Spec

\* The slot table, whose key is the only thing that keeps two reservations apart,
\* is what the pages show (reserve, app.py:1439-1538; cancel_reservation, 1560-1612;
\* the deletion of a room and its foreign keys).
THEOREM SlotsAlwaysBookings == Spec => []SlotsAreBookings
  <1>1. TableInv => SlotsAreBookings
    BY DEF TableInv
  <1> QED
    BY <1>1, TablesAlways, PTL

-----------------------------------------------------------------------------
(* Revocation *)

LEMMA RevokedStep ==
  ASSUME Types, [Next]_vars, NEW w \in Browsers,
         request[w] # None, request'[w] = None, ~Live(request[w].account)
  PROVE  UNCHANGED tables
  <1>1. ASSUME NEW v \in Browsers, Sessions(v) PROVE UNCHANGED tables
    BY <1>1, SessionSteps
  <1>2. ASSUME NEW v \in Browsers, Writes(v) PROVE UNCHANGED tables
    <2>1. Locked(request[v].account) /\ Done(v)
      BY <1>2
      DEF Writes, reserve, cancel_reservation, admin_cancel_reservation, admin_delete_user,
          admin_add_user, admin_edit_user, admin_delete_room, admin_add_room,
          admin_edit_room, admin_write_required, Refused
    <2>2. v # w
      BY <2>1 DEF Locked
    <2> QED
      BY <2>1, <2>2 DEF Done, Types
  <1> QED
    BY <1>1, <1>2 DEF Next, tick, vars, tables

\* Between the reading of its session and the write lock of a request the account
\* may be disabled, demoted or given a new password: then the request writes
\* nothing (admin_write_required, app.py:1000-1017; reserve, 1439-1457).
THEOREM RevokedAlwaysRefused == Spec => RevokedNeverWrites
  <1>1. TableInv /\ [Next]_vars =>
          \A w \in Browsers :
            request[w] # None /\ request'[w] = None /\ ~Live(request[w].account)
              => UNCHANGED tables
    BY RevokedStep DEF TableInv
  <1> QED
    BY <1>1, TablesAlways, PTL DEF Spec, RevokedNeverWrites

-----------------------------------------------------------------------------
(* The calendar *)

\* What a placed reservation holds in the calendar.
PlaceOf(b) == [room |-> booking[b].room, start |-> booking[b].start,
               len |-> booking[b].end - booking[b].start, owner |-> booking[b].user]

LEMMA ShownIsPlace ==
  ASSUME Types, Lengthy, NEW b \in Bookings, Placed(b)
  PROVE  /\ Shown[b] = PlaceOf(b) /\ Shown[b] # None /\ booking[b] \in Row
         /\ Shown[b].room = booking[b].room /\ Shown[b].start = booking[b].start
         /\ Shown[b].start + Shown[b].len = booking[b].end
  <1>1. booking[b] \in Row
    BY DEF Types, Placed
  <1>2. booking[b].room \in Rooms
    BY <1>1 DEF Row, Placed
  <1>3. PlaceOf(b) \in [room : Rooms, start : 0 .. LastSlot, len : 1 .. LastSlot + 1,
                        owner : Users]
    BY <1>1, <1>2, Version1Assumption DEF PlaceOf, Row, Lengthy, Placed
  <1>4. Shown[b] = PlaceOf(b)
    BY DEF Shown, PlaceOf
  <1> QED
    BY <1>1, <1>3, <1>4, NoneAssumption, Version1Assumption DEF PlaceOf, Row

\* Nothing is written over: what the slots keep apart does not overlap.
LEMMA ReserveIsBook ==
  ASSUME TableInv, NEW w \in Browsers, NEW b \in Bookings, reserve(w, b),
         ~UNCHANGED <<now, Shown>>
  PROVE  Abstract!Book(b, Shown'[b]) /\ Placed(b)'
  <1> DEFINE p == request[w].place
             q == [room |-> p.room, start |-> p.start, len |-> p.end - p.start,
                   owner |-> request[w].account.user]
  <1>1. p \in Place /\ Types /\ SlotMeans /\ Lengthy
    BY SlotMeaning DEF reserve, Types, TableInv
  <1>2. /\ room[p.room] = "active" /\ p.start > now /\ ~Taken(p) /\ UNCHANGED now
        /\ booking[b] = None
        /\ booking' = [booking EXCEPT ![b] =
             [room |-> p.room, start |-> p.start, end |-> p.end,
              user |-> request[w].account.user, status |-> "pending"]]
    <2>1. CASE Refused(w)
      BY <2>1 DEF Refused, Done, tables, Shown, Placed
    <2> QED
      BY <2>1 DEF reserve, Done
  <1>3. /\ booking'[b].room = p.room /\ booking'[b].start = p.start
        /\ booking'[b].end = p.end /\ booking'[b].status = "pending"
        /\ booking'[b].user = request[w].account.user
        /\ booking'[b] # None
    <2>1. booking'[b] \in Row
      BY <1>1, <1>2, Version1Assumption DEF Types, Row, Place, Handles, reserve
    <2> QED
      BY <1>1, <1>2, <2>1, NoneAssumption DEF Types
  <1>4. Placed(b)' /\ Shown'[b] = q
    BY <1>1, <1>3, NoneAssumption DEF Placed, Shown, Place
  <1>5. Shown[b] = None /\ Shown' = [Shown EXCEPT ![b] = q]
    BY <1>1, <1>2, <1>4 DEF Shown, Placed, Types
  <1>6. ASSUME NEW c \in Bookings \ {b}, Shown[c] # None
        PROVE  ~Abstract!Overlap(Shown[c], q)
    <2>1. Placed(c)
      BY <1>6 DEF Shown
    <2>2. /\ booking[c] \in Row /\ Shown[c].room = booking[c].room
          /\ Shown[c].start = booking[c].start
          /\ Shown[c].start + Shown[c].len = booking[c].end
      BY <1>1, <2>1, ShownIsPlace
    <2>3. q.room = p.room /\ q.start = p.start /\ q.start + q.len = p.end
      BY <1>1, Version1Assumption DEF Place
    <2>4. ASSUME booking[c].room = p.room, booking[c].start < p.end, p.start < booking[c].end
          PROVE  FALSE
      <3> DEFINE k == IF booking[c].start < p.start THEN p.start ELSE booking[c].start
      <3>1. k \in _reservation_slot_times(booking[c]) /\ k \in _reservation_slot_times(p)
        BY <1>1, <2>1, <2>2, <2>4, Version1Assumption
        DEF _reservation_slot_times, Row, Place, Lengthy, Placed
      <3> HIDE DEF k
      <3>2. <<c, p.room, k>> \in Cells(c)
        BY <2>4, <3>1 DEF Cells
      <3>3. <<c, p.room, k>> \in slots
        BY <1>1, <2>1, <3>2 DEF SlotMeans
      <3> QED
        BY <1>2, <3>1, <3>3 DEF Taken
    <2> HIDE DEF q
    <2> QED
      BY <2>2, <2>3, <2>4 DEF Abstract!Overlap
  <1>7. Abstract!Ahead(q)
    BY <1>2 DEF Abstract!Ahead
  <1> HIDE DEF q
  <1> QED
    BY <1>2, <1>4, <1>5, <1>6, <1>7 DEF Abstract!Book, Abstract!IsFree

\* What KeepsCalendar allows a step to be.
CalendarStep ==
    \/ Abstract!Tick \/ ForgetPast
    \/ \E b \in Bookings : \/ (Abstract!Release(b) /\ UNCHANGED room)
                          \/ (Placed(b)' /\ Abstract!Book(b, Shown'[b]))
    \/ \E m \in Rooms : Abstract!Retire(m)

LEMMA CancelIsRelease ==
  ASSUME TableInv, NEW b \in Bookings, booking[b] # None, Cancel(b), UNCHANGED now
  PROVE  CalendarStep \/ UNCHANGED <<now, Shown>>
  <1>1. Types /\ Lengthy
    BY DEF TableInv
  <1>2. /\ \A c \in Bookings \ {b} : booking'[c] = booking[c]
        /\ booking'[b].status = "cancelled" /\ UNCHANGED room
    BY <1>1 DEF Cancel, Types, Row
  <1>3. Shown' = [Shown EXCEPT ![b] = None]
    BY <1>2 DEF Shown, Placed
  <1>4. CASE ~Placed(b)
    <2>1. Shown[b] = None
      BY <1>4 DEF Shown, Placed
    <2>2. Shown' = Shown
      BY <1>3, <2>1 DEF Shown, Placed
    <2> QED
      BY <2>2
  <1>5. CASE Placed(b) /\ booking[b].end <= now
    BY <1>2, <1>3, <1>5 DEF ForgetPast, CalendarStep
  <1>6. CASE Placed(b) /\ ~(booking[b].end <= now)
    <2>1. Shown[b] # None /\ ~Abstract!Over(Shown[b])
      BY <1>1, <1>6, ShownIsPlace DEF Abstract!Over
    <2>2. Abstract!Release(b)
      BY <1>3, <2>1 DEF Abstract!Release
    <2> QED
      BY <1>2, <2>2 DEF CalendarStep
  <1> QED
    BY <1>4, <1>5, <1>6

LEMMA DeleteRoomIsRetire ==
  ASSUME TableInv, NEW w \in Browsers, NEW m \in Rooms, admin_delete_room(w, m)
  PROVE  Abstract!Retire(m)
  <1>1. Types /\ Lengthy
    BY DEF TableInv
  <1>2. /\ booking' = [b \in Bookings |-> IF booking[b] # None /\ booking[b].room = m
                                          THEN [booking[b] EXCEPT !.room = None] ELSE booking[b]]
        /\ Upcoming(m) = {} /\ UNCHANGED now
    BY DEF admin_delete_room, Done
  <1>3. ASSUME NEW b \in Bookings, Shown[b] # None, Shown[b].room = m
        PROVE  Abstract!Over(Shown[b])
    <2>1. Placed(b)
      BY <1>3 DEF Shown, Placed
    <2>2. booking[b].room = m /\ booking[b] \in Row
          /\ Shown[b].start + Shown[b].len = booking[b].end
      BY <1>1, <1>3, <2>1, ShownIsPlace
    <2>3. ~(booking[b].end > now)
      BY <1>2, <2>1, <2>2 DEF Upcoming, _room_reservations, Placed
    <2> QED
      BY <1>1, <2>2, <2>3, Version1Assumption DEF Abstract!Over, Types, Row
  <1>4. ASSUME NEW b \in Bookings
        PROVE  Shown'[b] = IF Shown[b] # None /\ Shown[b].room = m THEN None ELSE Shown[b]
    <2>1. CASE ~Placed(b)
      <3>1. ~Placed(b)'
        BY <1>1, <1>2, <2>1, NoneAssumption DEF Placed, Types, Row
      <3> QED
        BY <2>1, <3>1 DEF Shown, Placed
    <2>2. CASE Placed(b) /\ booking[b].room = m
      <3>1. booking'[b].room = None
        BY <1>1, <1>2, <2>2 DEF Placed, Types, Row
      <3>2. Shown'[b] = None
        BY <3>1 DEF Shown, Placed
      <3> QED
        BY <1>1, <2>2, <3>2, ShownIsPlace
    <2>3. CASE Placed(b) /\ booking[b].room # m
      <3>1. booking'[b] = booking[b]
        BY <1>2, <2>3
      <3>2. Shown'[b] = Shown[b]
        BY <3>1 DEF Shown, Placed
      <3> QED
        BY <1>1, <2>3, <3>2, ShownIsPlace
    <2> QED
      BY <2>1, <2>2, <2>3
  <1>5. Shown' = [b \in Bookings |->
                    IF Shown[b] # None /\ Shown[b].room = m THEN None ELSE Shown[b]]
    BY <1>4 DEF Shown, Placed
  <1> QED
    BY <1>2, <1>3, <1>5 DEF Abstract!Retire

LEMMA StepOfCalendar ==
  ASSUME TableInv, [Next]_vars
  PROVE  CalendarStep \/ UNCHANGED <<now, Shown>>
  <1>1. Types
    BY DEF TableInv
  <1>2. CASE UNCHANGED <<booking, now>>
    BY <1>2 DEF Shown, Placed
  <1>3. CASE tick
    <2>1. now' = now + 1 /\ UNCHANGED Shown
      BY <1>3 DEF tick, tables, Shown, Placed
    <2> QED
      BY <2>1 DEF CalendarStep, Abstract!Tick
  <1>4. ASSUME NEW w \in Browsers, Writes(w)
        PROVE  CalendarStep \/ UNCHANGED <<now, Shown>>
    <2>1. CASE Administrates(w)
      BY <1>1, <1>2, <2>1, AdministrationSteps
    <2>2. ASSUME NEW b \in Bookings, reserve(w, b)
          PROVE  CalendarStep \/ UNCHANGED <<now, Shown>>
      BY <2>2, ReserveIsBook DEF CalendarStep
    <2>3. ASSUME NEW b \in Bookings, cancel_reservation(w, b) \/ admin_cancel_reservation(w, b)
          PROVE  CalendarStep \/ UNCHANGED <<now, Shown>>
      <3>1. UNCHANGED <<booking, now>> \/ (booking[b] # None /\ Cancel(b) /\ UNCHANGED now)
        BY <2>3
        DEF cancel_reservation, admin_cancel_reservation, May_cancel, Refused, Done, tables
      <3> QED
        BY <1>2, <3>1, CancelIsRelease
    <2>4. ASSUME NEW m \in Rooms, admin_delete_room(w, m)
          PROVE  CalendarStep
      BY <2>4, DeleteRoomIsRetire DEF CalendarStep
    <2> QED
      BY <1>4, <2>1, <2>2, <2>3, <2>4 DEF Writes, Administrates
  <1> QED
    BY <1>1, <1>2, <1>3, <1>4, SessionSteps DEF Next, vars, tables

LEMMA InitOfCalendar == Init => Abstract!Init
  BY DEF Init, Abstract!Init, Shown, Placed

\* Version 1 keeps the promise of the abstract calendar, the same that version 2
\* implements: its pages place, release and retire, without overlaps, and only
\* what lies ahead or is not over; an administrator may also cancel what is over.
THEOREM Version1KeepsCalendar == Spec => KeepsCalendar
  <1>1. TableInv /\ [Next]_vars => [CalendarStep]_<<now, Shown>>
    BY StepOfCalendar
  <1>2. Spec => [][CalendarStep]_<<now, Shown>>
    BY <1>1, TablesAlways, PTL DEF Spec
  <1> QED
    BY <1>2, InitOfCalendar DEF Spec, KeepsCalendar, CalendarStep

-----------------------------------------------------------------------------
(* The start, which shares no state with the pages *)

Memory == [file : Files, secret : Starts \cup {Nothing}, id : Starts \cup {Nothing},
           lan : Addresses \cup {Nothing}, fallback : Notices \cup {Nothing}]

\* A key that was written stays, and with it what has been loaded.
OwnFiles(p) ==
    /\ memory[p].file = "id" => file["secret"] \in Starts /\ memory[p].secret = file["secret"]
    /\ at[p] \in Bound \cup {"bind"} =>
         memory[p].file = "id" /\ file["id"] \in Starts /\ memory[p].id = file["id"]
    /\ at[p] = "write" => file[memory[p].file] = "empty"
    /\ at[p] \in Bound => port = p
    /\ at[p] = "commit" => db = "none" /\ credential = p

IdentityInv ==
    /\ \A p \in Starts : OwnFiles(p)
    /\ \A p, q \in Starts : at[p] = "write" /\ at[q] = "write" /\ memory[p].file = memory[q].file
                            => p = q
    /\ CredentialIsTrue

\* What is noted in the file, and what is told, go together.
NoticeInv ==
    /\ network \in {Missing, Damaged} => told = Nothing
    /\ network \in Records =>
         /\ told \in {Nothing, network.acknowledged}
         /\ network.pending = Nothing => network.observed = network.acknowledged
         /\ network.pending # Nothing =>
              /\ network.pending.new = network.observed
              /\ network.pending.kind = "changed" <=> network.acknowledged # network.observed
              /\ network.pending.kind = "verify" => told = Nothing
    /\ \A p \in Starts : memory[p].fallback # Nothing => memory[p].fallback.new = memory[p].lan

(***************************************************************************)
(* FilesAreTrue speaks of who serves; how he got there is told by where    *)
(* each start is.  NoticeKept speaks of what is shown: what is noted and   *)
(* not told is pending, except that it is not known what was told; and     *)
(* what _write_network_state is given is what _validate_network_state      *)
(* accepts, so that no write is refused.                                   *)
(***************************************************************************)
StartInv == StartTypeOK /\ IdentityInv /\ NoticeInv

LEMMA Apart ==
        /\ \A p \in Starts :
             p \notin {Nothing, "absent", "empty", "none", "changed"} \cup Strangers
        /\ Nothing \notin Addresses /\ Nothing \notin Strangers /\ Nothing \notin Notices
        /\ Missing # Damaged /\ Missing \notin Records /\ Damaged \notin Records
  BY Version1StartAssumption DEF NamesApart

LEMMA InitStart == StartInit => StartInv
  <1> SUFFICES ASSUME StartInit PROVE StartInv
    OBVIOUS
  <1> USE Apart DEF StartInit
  <1>1. StartTypeOK
    BY DEF StartTypeOK, Files
  <1>2. IdentityInv
    BY DEF IdentityInv, OwnFiles, Bound, CredentialIsTrue
  <1>3. NoticeInv
    BY DEF NoticeInv
  <1> QED BY <1>1, <1>2, <1>3 DEF StartInv

-----------------------------------------------------------------------------
(* The files, the port and the database *)

\* Nothing changes but where one start is.
LEMMA MoveKeepsInv ==
  ASSUME StartInv, NEW p \in Starts,
         NEW to \in Running \cup {"new", "opened", "refused", "ended"}, Goto(p, to),
         to \in Bound => at[p] \in Bound, to \notin {"bind", "write", "commit"},
         UNCHANGED <<file, db, credential, network, port, memory, page, told>>,
         mode' \in [Starts -> {"normal", "check"}], logged' \in Seq(Addresses)
  PROVE  StartInv'
  <1>1. \A q \in Starts : at'[q] = (IF q = p THEN to ELSE at[q])
    BY DEF StartInv, StartTypeOK, Goto
  <1>2. StartTypeOK'
    BY DEF StartInv, StartTypeOK, Goto
  <1>3. (\A q \in Starts : OwnFiles(q))'
    BY <1>1 DEF StartInv, IdentityInv, OwnFiles
  <1>4. IdentityInv'
    BY <1>1, <1>3 DEF StartInv, IdentityInv, CredentialIsTrue
  <1>5. NoticeInv'
    BY DEF StartInv, NoticeInv
  <1> QED BY <1>2, <1>4, <1>5 DEF StartInv

LEMMA ProbeKeepsInv ==
  ASSUME StartInv, NEW p \in Starts,
         (\E m \in {"normal", "check"} : start(p, m)) \/ probe(p) \/ retry(p)
  PROVE  StartInv'
  <1>1. UNCHANGED <<file, db, credential, network, logged, port, memory, page, told>>
    BY DEF start, probe, retry, Answered, disk, mind
  <1>2. PICK to \in {"probe", "opened", "refused", "read"} : Goto(p, to)
    BY DEF start, probe, retry, Answered
  <1>3. mode' \in [Starts -> {"normal", "check"}]
    BY DEF StartInv, StartTypeOK, start, probe, retry, Answered
  <1>4. logged' \in Seq(Addresses)
    BY <1>1 DEF StartInv, StartTypeOK
  <1> QED BY <1>1, <1>2, <1>3, <1>4, MoveKeepsInv DEF Running, Bound

\* A start has its key, or its identity too.
LEMMA LoadedKeepsInv ==
  ASSUME StartInv,
         NEW p \in Starts, NEW value \in Starts, Loaded(p, value),
         at[p] \notin Bound, memory[p].file \in Files,
         file' = [file EXCEPT ![memory[p].file] = value],
         file[memory[p].file] = value \/ (at[p] = "write" /\ value = p),
         UNCHANGED <<db, credential, network, logged, port, mode, page, told>>
  PROVE  StartInv'
  <1> DEFINE f == memory[p].file
             new == IF f = "secret" THEN [memory[p] EXCEPT !.secret = value, !.file = "id"]
                    ELSE [memory[p] EXCEPT !.id = value]
             to == IF f = "secret" THEN "read" ELSE "bind"
  <1>1. memory[p] \in Memory /\ StartTypeOK
    BY DEF StartInv, StartTypeOK, Memory
  <1>2. /\ new \in Memory /\ new.file = "id" /\ new.lan = memory[p].lan
        /\ new.fallback = memory[p].fallback
        /\ new.secret = (IF f = "secret" THEN value ELSE memory[p].secret)
        /\ new.id = (IF f = "secret" THEN memory[p].id ELSE value)
        /\ f # "secret" => f = "id"
    BY <1>1 DEF Memory, Files
  <1>3. memory' = [memory EXCEPT ![p] = new] /\ at' = [at EXCEPT ![p] = to]
    BY DEF Loaded, Goto
  <1> HIDE DEF new
  <1>4. /\ \A q \in Starts : memory'[q] = (IF q = p THEN new ELSE memory[q])
                             /\ at'[q] = (IF q = p THEN to ELSE at[q])
        /\ \A g \in Files : file'[g] = (IF g = f THEN value ELSE file[g])
        /\ memory' \in [Starts -> Memory]
    BY <1>1, <1>2, <1>3 DEF StartTypeOK, Memory
  <1>5. StartTypeOK'
    BY <1>1, <1>3, <1>4 DEF StartTypeOK, Memory, Running
  <1>6. file[f] \in Starts => file' = file
    BY <1>1, Apart DEF StartInv, IdentityInv, OwnFiles, StartTypeOK
  <1>7. \A g \in Files : file[g] \in Starts => file'[g] = file[g]
    BY <1>4, <1>6
  <1>8. \A q \in Starts : q # p /\ at[q] = "write" => memory[q].file # f \/ file'[f] = file[f]
    BY <1>4 DEF StartInv, IdentityInv
  <1>9. ASSUME NEW q \in Starts  PROVE OwnFiles(q)'
    <2>1. OwnFiles(q) /\ memory[q].file \in Files
      BY <1>1 DEF StartInv, IdentityInv, StartTypeOK
    <2>2. CASE q = p
      BY <1>2, <1>4, <1>7, <2>1, <2>2 DEF OwnFiles, Files, Bound
    <2>3. CASE q # p
      BY <1>4, <1>7, <1>8, <2>1, <2>3 DEF OwnFiles, Files
    <2> QED BY <2>2, <2>3
  <1>10. IdentityInv'
    BY <1>4, <1>9 DEF StartInv, IdentityInv, CredentialIsTrue
  <1>11. NoticeInv'
    BY <1>2, <1>4 DEF StartInv, NoticeInv
  <1> QED BY <1>5, <1>10, <1>11 DEF StartInv

LEMMA CreateAppKeepsInv ==
  ASSUME StartInv, NEW p \in Starts, create_app(p)
  PROVE  StartInv'
  <1> DEFINE f == memory[p].file
  <1>1. StartTypeOK /\ f \in Files /\ OwnFiles(p)
    BY DEF StartInv, StartTypeOK, IdentityInv
  <1>2. UNCHANGED <<db, credential, network, logged, port, mode, page, told>>
    BY DEF create_app, load_or_create, _write_text_exclusive, write_text, wait_for_writer,
       disk, mind
  <1>3. CASE file' = file /\ Loaded(p, file[f]) /\ file[f] \in Starts
             /\ at[p] \in {"read", "wait"}
    <2>1. file' = [file EXCEPT ![f] = file[f]]
      BY <1>1, <1>3 DEF StartTypeOK
    <2> QED BY <1>1, <1>2, <1>3, <2>1, LoadedKeepsInv DEF Bound
  <1>4. CASE write_text(p)
    BY <1>1, <1>2, <1>4, LoadedKeepsInv DEF write_text, Bound
  <1>5. CASE _write_text_exclusive(p) /\ MayCreate(p)
    <2>1. /\ file' = [file EXCEPT ![f] = "empty"] /\ file[f] = "absent" /\ at[p] = "create"
          /\ memory' = memory /\ at' = [at EXCEPT ![p] = "write"]
      BY <1>5 DEF _write_text_exclusive, MayCreate, Mine, Goto
    <2>2. StartTypeOK'
      BY <1>1, <1>2, <2>1 DEF StartTypeOK, Running
    <2>3. \A q \in Starts : at[q] = "write" => memory[q].file # f
      BY <2>1 DEF StartInv, IdentityInv, OwnFiles
    <2>4. /\ \A q \in Starts : at'[q] = (IF q = p THEN "write" ELSE at[q])
          /\ \A g \in Files : file'[g] = (IF g = f THEN "empty" ELSE file[g])
          /\ \A g \in Files : file[g] \in Starts => g # f
      BY <1>1, <2>1, Apart DEF StartTypeOK
    <2>5. ASSUME NEW q \in Starts  PROVE OwnFiles(q)'
      <3>1. OwnFiles(q) /\ memory[q].file \in Files
        BY <1>1 DEF StartInv, IdentityInv, StartTypeOK
      <3> QED BY <1>2, <2>1, <2>3, <2>4, <3>1 DEF OwnFiles, Files, Bound
    <2>6. IdentityInv'
      BY <1>2, <2>1, <2>3, <2>4, <2>5 DEF StartInv, IdentityInv, CredentialIsTrue
    <2>7. NoticeInv'
      BY <1>2, <2>1 DEF StartInv, NoticeInv
    <2> QED BY <2>2, <2>6, <2>7 DEF StartInv
  <1>6. CASE /\ file' = file /\ memory' = memory
             /\ \E to \in {"create", "retry", "wait"} : Goto(p, to)
    <2>1. PICK to \in {"create", "retry", "wait"} : Goto(p, to)
      BY <1>6
    <2> QED BY <1>1, <1>2, <1>6, <2>1, MoveKeepsInv DEF Running, Bound, StartTypeOK
  <1>7. \/ /\ file' = file /\ Loaded(p, file[f])
           /\ file[f] \in Starts /\ at[p] \in {"read", "wait"}
        \/ write_text(p)
        \/ _write_text_exclusive(p) /\ MayCreate(p)
        \/ /\ file' = file /\ memory' = memory
           /\ \E to \in {"create", "retry", "wait"} : Goto(p, to)
    <2>1. file[f] \in {"absent", "empty"} \cup Starts /\ Mine(p) = file[f]
      BY <1>1 DEF StartTypeOK, Mine
    <2>2. CASE load_or_create(p)
      <3>1. file' = file /\ at[p] = "read"
        BY <2>2 DEF load_or_create, disk
      <3>2. CASE file[f] = "absent"
        <4>1. Goto(p, "create") /\ memory' = memory
          BY <2>1, <2>2, <3>2 DEF load_or_create
        <4> QED BY <3>1, <4>1
      <3>3. CASE file[f] = "empty"
        <4>1. Goto(p, "retry") /\ memory' = memory
          BY <2>1, <2>2, <3>3 DEF load_or_create
        <4> QED BY <3>1, <4>1
      <3>4. CASE file[f] \notin {"absent", "empty"}
        <4>1. Loaded(p, file[f]) /\ file[f] \in Starts
          BY <2>1, <2>2, <3>4 DEF load_or_create
        <4> QED BY <3>1, <4>1
      <3> QED BY <3>2, <3>3, <3>4
    <2>3. CASE wait_for_writer(p)
      <3>1. file' = file /\ at[p] = "wait"
        BY <2>3 DEF wait_for_writer, disk
      <3>2. \/ Loaded(p, file[f]) /\ file[f] \in Starts
            \/ Goto(p, "retry") /\ memory' = memory
        BY <2>1, <2>3 DEF wait_for_writer
      <3> QED BY <3>1, <3>2
    <2>4. CASE _write_text_exclusive(p)
      <3>1. MayCreate(p) \/ (file' = file /\ memory' = memory /\ Goto(p, "wait"))
        BY <2>4 DEF _write_text_exclusive
      <3> QED BY <2>4, <3>1
    <2> QED BY <2>2, <2>3, <2>4 DEF create_app
  <1> QED BY <1>3, <1>4, <1>5, <1>6, <1>7

\* Who takes the port has both files, and is the only one.
LEMMA BindKeepsInv ==
  ASSUME StartInv, NEW p \in Starts, create_server(p)
  PROVE  StartInv'
  <1>1. CASE port # Nothing
    BY <1>1, MoveKeepsInv
       DEF create_server, disk, mind, Running, Bound, StartInv, StartTypeOK
  <1>2. CASE port = Nothing
    <2>1. /\ port' = p /\ at' = [at EXCEPT ![p] = "seed"] /\ at[p] = "bind"
          /\ UNCHANGED <<file, db, credential, network, logged, mode, memory, page, told>>
      BY <1>2 DEF create_server, disk, mind, Goto
    <2>2. /\ StartTypeOK /\ StartTypeOK'
          /\ \A q \in Starts : at'[q] = (IF q = p THEN "seed" ELSE at[q])
      BY <2>1 DEF StartInv, StartTypeOK, Running, Bound
    <2>3. \A q \in Starts : at[q] \notin Bound
      BY <1>2, Apart DEF StartInv, IdentityInv, OwnFiles
    <2>4. ASSUME NEW q \in Starts  PROVE OwnFiles(q)'
      BY <2>1, <2>2, <2>3 DEF StartInv, IdentityInv, OwnFiles, Bound
    <2>5. IdentityInv'
      BY <2>1, <2>2, <2>4 DEF StartInv, IdentityInv, CredentialIsTrue
    <2>6. NoticeInv'
      BY <2>1 DEF StartInv, NoticeInv
    <2> QED BY <2>2, <2>5, <2>6 DEF StartInv
  <1> QED BY <1>1, <1>2

\* The database is seeded, or its administrator gets a password of his own.
LEMMA SeedKeepsInv ==
  ASSUME StartInv, NEW p \in Starts,
         init_db(p) \/ init_db_commit(p) \/ admin_edit_user_password(p)
  PROVE  StartInv'
  <1>1. /\ UNCHANGED <<file, network, logged, port, mode, memory, page, told>>
        /\ at[p] \in Bound
    BY DEF init_db, init_db_commit, admin_edit_user_password, mind, Bound
  <1>2. PICK to \in Bound : /\ at' = [at EXCEPT ![p] = to]
                            /\ to = "commit" => init_db(p) /\ db = "none"
    BY <1>1
       DEF init_db, init_db_commit, admin_edit_user_password, Goto, AfterInit, Bound,
       StartInv, StartTypeOK
  <1>3. StartTypeOK /\ \A q \in Starts : at'[q] = (IF q = p THEN to ELSE at[q])
    BY <1>2 DEF StartInv, StartTypeOK
  <1>4. \A q \in Starts : q # p => at[q] \notin Bound
    BY <1>1 DEF StartInv, IdentityInv, OwnFiles
  <1>5. db' \in {"none", "changed"} \cup Starts /\ credential' \in {"none"} \cup Starts
    BY <1>3 DEF init_db, init_db_commit, admin_edit_user_password, Seed, StartTypeOK
  <1>6. StartTypeOK'
    BY <1>1, <1>2, <1>3, <1>5 DEF StartTypeOK, Running
  <1>7. ASSUME NEW q \in Starts  PROVE OwnFiles(q)'
    <2>1. OwnFiles(q) /\ OwnFiles(p)
      BY DEF StartInv, IdentityInv
    <2>2. CASE q # p
      BY <1>1, <1>3, <1>4, <2>1, <2>2 DEF OwnFiles, Bound
    <2>3. CASE q = p /\ to # "commit"
      BY <1>1, <1>3, <2>1, <2>3 DEF OwnFiles, Bound
    <2>4. CASE q = p /\ to = "commit"
      <3>1. db' = "none" /\ credential' = p
        BY <1>2, <2>4 DEF init_db, Seed
      <3> QED BY <1>1, <1>3, <2>1, <2>4, <3>1 DEF OwnFiles, Bound
    <2> QED BY <2>2, <2>3, <2>4
  <1>8. CredentialIsTrue'
    BY Apart
       DEF init_db, init_db_commit, admin_edit_user_password, Seed, StartInv, IdentityInv,
       OwnFiles, CredentialIsTrue
  <1>9. IdentityInv'
    BY <1>1, <1>3, <1>7, <1>8 DEF StartInv, IdentityInv, Bound
  <1>10. NoticeInv'
    BY <1>1 DEF StartInv, NoticeInv
  <1> QED BY <1>6, <1>9, <1>10 DEF StartInv

\* A start ends, and leaves the port.
LEMMA EndKeepsInv ==
  ASSUME StartInv, NEW p \in Starts, shutdown(p) \/ kill(p)
  PROVE  StartInv'
  <1>1. /\ at' = [at EXCEPT ![p] = "ended"] /\ port' = (IF port = p THEN Nothing ELSE port)
        /\ UNCHANGED <<file, db, credential, network, logged, mode, memory, page, told>>
    BY DEF shutdown, kill, Goto, Leaves, disk, mind
  <1>2. StartTypeOK' /\ \A q \in Starts : at'[q] = (IF q = p THEN "ended" ELSE at[q])
    BY <1>1 DEF StartInv, StartTypeOK
  <1>3. ASSUME NEW q \in Starts  PROVE OwnFiles(q)'
    BY <1>1, <1>2 DEF StartInv, IdentityInv, OwnFiles, Bound
  <1>4. IdentityInv'
    BY <1>1, <1>2, <1>3 DEF StartInv, IdentityInv, CredentialIsTrue
  <1>5. NoticeInv'
    BY <1>1 DEF StartInv, NoticeInv
  <1> QED BY <1>2, <1>4, <1>5 DEF StartInv

-----------------------------------------------------------------------------
(* The notice *)

\* The greatest of some numbers is one of them.
LEMMA MaxIs ==
  ASSUME NEW N \in Nat, NEW S \in SUBSET (0 .. N), S # {}
  PROVE  Max(S) \in S /\ \A y \in S : y <= Max(S)
  <1> DEFINE T == {N - x : x \in S}
  <1>1. T \in SUBSET Nat /\ T # {}
    <2>1. \A x \in S : N - x \in Nat
      OBVIOUS
    <2> QED BY <2>1
  <1> HIDE DEF T
  <1>2. PICK n \in T : \A m \in T : n <= m
    <2>1. PICK x \in T : \A y \in T : ~(<<y, x>> \in OpToRel(<, Nat))
      BY <1>1, WFMin, NatLessThanWellFounded, Zenon
    <2>2. ASSUME NEW m \in T PROVE x <= m
      <3>1. m \in Nat /\ x \in Nat
        BY <1>1
      <3>2. ~(m < x)
        BY <2>1, <3>1, Zenon DEF OpToRel
      <3> QED BY <3>1, <3>2
    <2> QED BY <2>2
  <1>3. PICK x \in S : n = N - x
    BY <1>2 DEF T
  <1>4. ASSUME NEW y \in S PROVE x >= y
    <2>1. N - y \in T
      BY DEF T
    <2> QED BY <1>2, <1>3, <2>1
  <1>5. Max(S) \in S /\ \A y \in S : Max(S) >= y
    BY <1>4 DEF Max
  <1> QED BY <1>5

\* The last address in the log that is another one.
LEMMA LastLogged ==
  ASSUME StartTypeOK, NEW not
  PROVE  LatestLogged(not) \in Addresses \cup {Nothing}
  <1> DEFINE others == {i \in DOMAIN logged : logged[i] # not}
  <1>1. /\ others \in SUBSET (0 .. Len(logged)) /\ Len(logged) \in Nat
        /\ \A i \in others : logged[i] \in Addresses
    BY DEF StartTypeOK
  <1>2. LatestLogged(not) = IF others = {} THEN Nothing ELSE logged[Max(others)]
    BY DEF LatestLogged
  <1> HIDE DEF others
  <1>3. others # {} => Max(others) \in others
    BY <1>1, MaxIs
  <1> QED BY <1>1, <1>2, <1>3

\* What is noted at a start, whatever was noted before.
LEMMA Observed ==
  ASSUME StartInv, NEW lan \in Addresses
  PROVE  LET new == _observe_network_url_unlocked(lan)
         IN /\ new \in Records /\ new.observed = lan
            /\ new.pending = Nothing => new.acknowledged = lan
            /\ new.pending # Nothing => new.pending.new = lan
            /\ new.pending # Nothing =>
                 (new.pending.kind = "changed" <=> new.acknowledged # lan)
            /\ network # Missing => told \in {Nothing, new.acknowledged}
            /\ new.pending # Nothing /\ new.pending.kind = "verify" =>
                 told = Nothing /\ network # Missing
  <1> DEFINE new == _observe_network_url_unlocked(lan)
  <1>1. StartTypeOK /\ NoticeInv
    BY DEF StartInv
  <1>2. \A k \in Changes :
          /\ Notice(k, lan) \in Notices /\ Notice(k, lan) # Nothing
          /\ Notice(k, lan).kind = k /\ Notice(k, lan).new = lan
    BY Apart DEF Notice, Notices, Changes
  <1>3. ASSUME NEW old \in Addresses
        PROVE  /\ Changed(old, lan) \in Records
               /\ Changed(old, lan).observed = lan
               /\ Changed(old, lan).acknowledged = old
               /\ Changed(old, lan).pending =
                    IF old = lan THEN Nothing ELSE Notice("changed", lan)
    BY <1>2 DEF Changed, State, Records, Changes
  <1>4. CASE network = Missing
    <2> DEFINE old == IF LatestLogged(Nothing) = Nothing THEN lan ELSE LatestLogged(Nothing)
    <2>1. new = Changed(old, lan)
      BY <1>4, Apart DEF _observe_network_url_unlocked
    <2>2. old \in Addresses
      BY <1>1, LastLogged
    <2> HIDE DEF old
    <2> QED BY <1>1, <1>2, <1>3, <1>4, <2>1, <2>2 DEF NoticeInv, Changes
  <1>5. CASE network = Damaged
    <2>1. CASE LatestLogged(lan) = Nothing
      <3>1. new = State(lan, lan, Notice("verify", lan))
        BY <1>5, <2>1, Apart DEF _observe_network_url_unlocked
      <3> QED BY <1>1, <1>2, <1>5, <3>1, Apart DEF State, Records, NoticeInv, Changes
    <2>2. CASE LatestLogged(lan) # Nothing
      <3>1. new = Changed(LatestLogged(lan), lan)
        BY <1>5, <2>2, Apart DEF _observe_network_url_unlocked
      <3>2. LatestLogged(lan) \in Addresses
        BY <1>1, <2>2, LastLogged
      <3> QED BY <1>1, <1>2, <1>3, <1>5, <3>1, <3>2 DEF NoticeInv, Changes
    <2> QED BY <2>1, <2>2
  <1>6. CASE network \in Records
    <2>1. /\ network.acknowledged \in Addresses /\ network.observed \in Addresses
          /\ network # Missing /\ network # Damaged
      BY <1>6, Apart DEF Records
    <2>2. CASE network.pending # Nothing /\ network.pending.kind = "verify"
      <3>1. new = IF lan = network.observed THEN network
                  ELSE Changed(network.observed, lan)
        BY <2>1, <2>2 DEF _observe_network_url_unlocked
      <3> QED BY <1>1, <1>2, <1>3, <1>6, <2>1, <2>2, <3>1 DEF NoticeInv, Changes
    <2>3. CASE ~(network.pending # Nothing /\ network.pending.kind = "verify")
      <3>1. new = Changed(network.acknowledged, lan)
        BY <2>1, <2>3 DEF _observe_network_url_unlocked, Baseline
      <3> QED BY <1>1, <1>2, <1>3, <1>6, <2>1, <3>1 DEF NoticeInv, Changes
    <2> QED BY <2>2, <2>3
  <1> QED BY <1>1, <1>4, <1>5, <1>6 DEF StartTypeOK

\* A start remembers an address, and what could not be written down.
LEMMA RememberIs ==
  ASSUME StartInv, NEW p \in Starts, NEW lan \in Addresses \cup {Nothing},
         NEW fallback \in Notices \cup {Nothing}, Remember(p, lan, fallback)
  PROVE  /\ memory' \in [Starts -> Memory]
         /\ \A q \in Starts \ {p} : memory'[q] = memory[q]
         /\ memory'[p].lan = lan /\ memory'[p].fallback = fallback
         /\ memory'[p].file = memory[p].file /\ memory'[p].secret = memory[p].secret
         /\ memory'[p].id = memory[p].id
  <1> DEFINE new == [memory[p] EXCEPT !.lan = lan, !.fallback = fallback]
  <1>1. memory[p] \in Memory /\ memory \in [Starts -> Memory]
    BY DEF StartInv, StartTypeOK, Memory
  <1>2. /\ new \in Memory /\ new.lan = lan /\ new.fallback = fallback
        /\ new.file = memory[p].file /\ new.secret = memory[p].secret /\ new.id = memory[p].id
    BY <1>1 DEF Memory
  <1>3. memory' = [memory EXCEPT ![p] = new]
    BY DEF Remember
  <1> HIDE DEF new
  <1> QED BY <1>1, <1>2, <1>3

\* The files are not touched by a notice.
LEMMA NoticeKeepsIdentity ==
  ASSUME StartInv, NEW p \in Starts, NEW to \in {"announce", "serve"},
         at' = [at EXCEPT ![p] = to], at[p] \in Bound,
         \A q \in Starts : /\ memory'[q].file = memory[q].file
                           /\ memory'[q].secret = memory[q].secret
                           /\ memory'[q].id = memory[q].id,
         UNCHANGED <<file, db, credential, port>>
  PROVE  IdentityInv'
  <1>1. \A q \in Starts : at'[q] = (IF q = p THEN to ELSE at[q])
    BY DEF StartInv, StartTypeOK
  <1>2. ASSUME NEW q \in Starts  PROVE OwnFiles(q)'
    BY <1>1 DEF StartInv, IdentityInv, OwnFiles, Bound
  <1> QED BY <1>1, <1>2 DEF StartInv, IdentityInv, CredentialIsTrue

LEMMA ObserveKeepsInv ==
  ASSUME StartInv, NEW p \in Starts, NEW lan \in Addresses \cup {Nothing},
         observe_network_url(p, lan)
  PROVE  StartInv'
  <1> DEFINE new == _observe_network_url_unlocked(lan)
  <1>1. /\ at[p] = "observe" /\ at' = [at EXCEPT ![p] = "announce"]
        /\ UNCHANGED <<file, db, credential, logged, port, mode, page>>
    BY DEF observe_network_url, Goto
  <1>2. StartTypeOK /\ NoticeInv
    BY DEF StartInv
  <1>3. lan # Nothing => lan \in Addresses
    OBVIOUS
  <1> HIDE DEF new
  <1>4. lan # Nothing => /\ new \in Records /\ new.observed = lan
                         /\ new.pending \in Notices \cup {Nothing}
                         /\ new.pending # Nothing => new.pending.new = lan
    BY <1>3, Observed DEF new, Records
  <1>5. PICK fallback \in Notices \cup {Nothing} :
          Remember(p, lan, fallback) /\ (fallback # Nothing => fallback.new = lan)
    BY <1>4, Apart DEF observe_network_url, new
  <1>6. /\ memory' \in [Starts -> Memory]
        /\ \A q \in Starts \ {p} : memory'[q] = memory[q]
        /\ memory'[p].lan = lan /\ memory'[p].fallback = fallback
        /\ memory'[p].file = memory[p].file /\ memory'[p].secret = memory[p].secret
        /\ memory'[p].id = memory[p].id
    BY <1>5, RememberIs
  <1>7. \/ network' = network /\ told' = told
        \/ /\ lan # Nothing /\ network' = new
           /\ told' = IF network = Missing THEN new.acknowledged ELSE told
    BY DEF observe_network_url, new
  <1>8. StartTypeOK'
    <2>1. network' \in {Missing, Damaged} \cup Records /\ told' \in Addresses \cup {Nothing}
      BY <1>2, <1>4, <1>7 DEF StartTypeOK, Records
    <2> QED BY <1>1, <1>2, <1>6, <2>1 DEF StartTypeOK, Memory, Running, Bound
  <1>9. IdentityInv'
    BY <1>1, <1>6, NoticeKeepsIdentity DEF Bound
  <1>10. NoticeInv'
    <2>1. (\A q \in Starts :
             memory[q].fallback # Nothing => memory[q].fallback.new = memory[q].lan)'
      BY <1>2, <1>5, <1>6 DEF NoticeInv
    <2>2. CASE network' = network /\ told' = told
      BY <1>2, <2>1, <2>2 DEF NoticeInv
    <2>3. CASE lan # Nothing /\ network' = new
               /\ told' = IF network = Missing THEN new.acknowledged ELSE told
      <3>1. /\ new \in Records /\ new.observed = lan
            /\ new.pending = Nothing => new.acknowledged = lan
            /\ new.pending # Nothing => new.pending.new = lan
            /\ new.pending # Nothing =>
                 (new.pending.kind = "changed" <=> new.acknowledged # lan)
            /\ network # Missing => told \in {Nothing, new.acknowledged}
            /\ new.pending # Nothing /\ new.pending.kind = "verify" =>
                 told = Nothing /\ network # Missing
        BY <1>3, <2>3, Observed DEF new
      <3> QED BY <2>1, <2>3, <3>1, Apart DEF NoticeInv
    <2> QED BY <1>7, <2>2, <2>3
  <1> QED BY <1>8, <1>9, <1>10 DEF StartInv

LEMMA AnnounceKeepsInv ==
  ASSUME StartInv, NEW p \in Starts, announce(p)
  PROVE  StartInv'
  <1>1. logged' \in Seq(Addresses)
    BY DEF announce, StartInv, StartTypeOK
  <1> QED BY <1>1, MoveKeepsInv DEF announce, mind, Running, Bound, StartInv, StartTypeOK

LEMMA PagesKeepNotice ==
  ASSUME StartInv, NEW p \in Starts,
         inject_globals(p) \/ acknowledge_network_address(p)
  PROVE  StartInv'
  <1>1. /\ at[p] = "serve" /\ UNCHANGED <<file, db, credential, logged, port, at, mode>>
    BY DEF inject_globals, acknowledge_network_address, ServesAdmin, disk
  <1>2. StartTypeOK /\ NoticeInv /\ at' = [at EXCEPT ![p] = "serve"]
    BY <1>1 DEF StartInv, StartTypeOK
  <1>3. CASE network' = network /\ told' = told /\ memory' = memory
             /\ page' \in Addresses \cup {Nothing}
    <2>1. StartTypeOK' /\ NoticeInv'
      BY <1>1, <1>2, <1>3 DEF StartTypeOK, NoticeInv
    <2>2. IdentityInv'
      BY <1>1, <1>2, <1>3, NoticeKeepsIdentity DEF Bound
    <2> QED BY <2>1, <2>2 DEF StartInv
  <1>4. CASE /\ network' = State(page, page, Nothing) /\ told' = page
             /\ page # Nothing /\ page' = Nothing
             /\ Remember(p, memory[p].lan, Nothing)
    <2>1. page \in Addresses /\ memory[p].lan \in Addresses \cup {Nothing}
      BY <1>2, <1>4 DEF StartTypeOK
    <2>2. /\ memory' \in [Starts -> Memory]
          /\ \A q \in Starts \ {p} : memory'[q] = memory[q]
          /\ memory'[p].fallback = Nothing
          /\ memory'[p].file = memory[p].file /\ memory'[p].secret = memory[p].secret
          /\ memory'[p].id = memory[p].id
      BY <1>4, <2>1, RememberIs
    <2>3. /\ network' \in Records /\ network'.pending = Nothing
          /\ network'.observed = page /\ network'.acknowledged = page
      BY <1>4, <2>1 DEF State, Records
    <2>4. StartTypeOK'
      BY <1>1, <1>2, <1>4, <2>1, <2>2, <2>3 DEF StartTypeOK, Memory
    <2>5. NoticeInv'
      BY <1>2, <1>4, <2>2, <2>3, Apart DEF NoticeInv
    <2>6. IdentityInv'
      BY <1>1, <1>2, <2>2, NoticeKeepsIdentity DEF Bound
    <2> QED BY <2>4, <2>5, <2>6 DEF StartInv
  <1>5. Pending(p) = Nothing \/ Pending(p).new \in Addresses
    <2>1. memory[p].fallback \in Notices \cup {Nothing}
      BY <1>2 DEF StartTypeOK
    <2>2. network \in Records => network.pending \in Notices \cup {Nothing}
      BY DEF Records
    <2>3. \A n \in Notices : n.new \in Addresses
      BY DEF Notices
    <2> QED BY <1>2, <2>1, <2>2, <2>3 DEF Pending, StartTypeOK
  <1>6. \/ /\ network' = network /\ told' = told /\ memory' = memory
           /\ page' \in Addresses \cup {Nothing}
        \/ /\ network' = State(page, page, Nothing) /\ told' = page
           /\ page # Nothing /\ page' = Nothing
           /\ Remember(p, memory[p].lan, Nothing)
    BY <1>5 DEF inject_globals, acknowledge_network_address, disk
  <1> QED BY <1>3, <1>4, <1>6

\* A stranger takes or leaves the port, the file is damaged.
LEMMA WorldKeepsInv ==
  ASSUME StartInv,
         \/ damage
         \/ \E s \in Strangers : stranger(s)
         \/ UNCHANGED startVars
  PROVE  StartInv'
  <1>1. UNCHANGED <<file, db, credential, logged, at, mode, memory, page>>
    BY DEF damage, stranger, startVars, disk, mind
  <1>2. /\ port' = port \/ (port \notin Starts /\ port' \in Strangers \cup {Nothing})
        /\ \/ network' = network /\ told' = told
           \/ network' = Damaged /\ told' = Nothing
    BY Apart DEF damage, stranger, startVars, disk, mind
  <1>3. StartTypeOK'
    BY <1>1, <1>2 DEF StartInv, StartTypeOK
  <1>4. ASSUME NEW q \in Starts  PROVE OwnFiles(q)'
    BY <1>1, <1>2 DEF StartInv, IdentityInv, OwnFiles
  <1>5. IdentityInv'
    BY <1>1, <1>4 DEF StartInv, IdentityInv, CredentialIsTrue
  <1>6. NoticeInv'
    BY <1>1, <1>2, Apart DEF StartInv, NoticeInv
  <1> QED BY <1>3, <1>5, <1>6 DEF StartInv

LEMMA NextKeepsStart ==
  StartInv /\ [StartNext]_startVars => StartInv'
  <1> SUFFICES ASSUME StartInv, [StartNext]_startVars PROVE StartInv'
    OBVIOUS
  <1>1. ASSUME NEW found \in Found, NEW route \in Addresses \cup {Nothing}
        PROVE  _select_local_ip(found, route) \subseteq Addresses \cup {Nothing}
    BY <1>1 DEF _select_local_ip, Best
  <1>2. ASSUME NEW p \in Starts, main(p) \/ Pages(p) \/ kill(p)  PROVE StartInv'
    <2>1. CASE \E found \in Found, route \in Addresses \cup {Nothing} :
                 \E lan \in _select_local_ip(found, route) :
                    observe_network_url(p, lan)
      BY <1>1, <2>1, ObserveKeepsInv
    <2> QED BY <1>2, <2>1, ProbeKeepsInv, CreateAppKeepsInv, BindKeepsInv, SeedKeepsInv,
               EndKeepsInv, AnnounceKeepsInv, PagesKeepNotice DEF main, Pages
  <1> QED BY <1>2, WorldKeepsInv DEF StartNext

LEMMA StartInvHolds == StartSpec => []StartInv
  BY InitStart, NextKeepsStart, PTL DEF StartSpec

-----------------------------------------------------------------------------

\* However the starts of one folder race and wherever they are killed, whoever
\* holds the port runs with the key and the identity that create_app finds on
\* disk, and the password init_db wrote for the administrator is that of the
\* database until it is changed.
THEOREM FilesAlwaysTrue == StartSpec => []FilesAreTrue
  <1>1. StartInv => FilesAreTrue
    BY DEF StartInv, IdentityInv, OwnFiles, FilesAreTrue, OneIdentity
  <1> QED BY <1>1, StartInvHolds, PTL

\* observe_network_url and its fallback in memory never lose the notice of an
\* address that colleagues were not told, over restarts and failed writes.
THEOREM NoticeAlwaysKept == StartSpec => []NoticeKept
  <1>1. StartInv => NoticeKept
    <2> SUFFICES ASSUME StartInv, NEW p \in Starts, memory[p].lan # Nothing,
                        told \notin {Nothing, memory[p].lan},
                        memory[p].fallback # Nothing \/ network.observed = memory[p].lan
                 PROVE  Pending(p) # Nothing /\ Pending(p).new = memory[p].lan
      BY DEF NoticeKept
    <2>1. NoticeInv /\ network \in {Missing, Damaged} \cup Records
      BY DEF StartInv, StartTypeOK
    <2>2. CASE memory[p].fallback # Nothing
      BY <2>1, <2>2 DEF NoticeInv, Pending
    <2>3. CASE memory[p].fallback = Nothing
      <3>1. network \in Records /\ network \notin {Missing, Damaged}
        BY <2>1 DEF NoticeInv
      <3> QED BY <2>1, <2>3, <3>1 DEF NoticeInv, Pending
    <2> QED BY <2>2, <2>3
  <1> QED BY <1>1, StartInvHolds, PTL

\* Only the answer of a service of this folder opens the browser.
LEMMA AnsweredOpens ==
  ASSUME StartInv, NEW q \in Starts, probe(q) \/ retry(q),
         NEW p \in Starts, at[p] # "opened", at'[p] = "opened"
  PROVE  port \in Starts /\ at[port] = "serve" /\ mode[port] = "normal"
  <1>1. at \in [Starts -> Running \cup {"new", "opened", "refused", "ended"}]
        /\ mode \in [Starts -> {"normal", "check"}]
        /\ port \in {Nothing} \cup Strangers \cup Starts
    BY DEF StartInv, StartTypeOK
  <1>2. _probe_app = "same-installation"
    BY <1>1 DEF probe, retry, Answered, Goto
  <1>3. Verified(Known, FALSE) # "same-installation"
    BY DEF Verified
  <1>4. port \in Starts
    BY <1>1, <1>2, <1>3, Apart DEF _probe_app, Strangers
  <1>5. port # Nothing /\ port \notin Strangers
    BY <1>4, Apart
  <1>6. at[port] = "serve" /\ mode[port] # "check"
    BY <1>2, <1>4, <1>5 DEF _probe_app, Strangers
  <1> QED BY <1>1, <1>4, <1>6

\* No other step ends a start with the browser opened.
LEMMA OnlyAnsweredOpens ==
  ASSUME StartInv, NEW p \in Starts, at[p] # "opened", at'[p] = "opened", StartNext
  PROVE  \E q \in Starts : probe(q) \/ retry(q)
  <1>1. at \in [Starts -> Running \cup {"new", "opened", "refused", "ended"}]
        /\ at' # at
    BY DEF StartInv, StartTypeOK
  <1>2. PICK q \in Starts : main(q) \/ Pages(q) \/ kill(q)
    BY <1>1 DEF StartNext, damage, stranger
  <1>3. ~Pages(q)
    BY <1>1 DEF Pages, admin_edit_user_password, inject_globals, acknowledge_network_address
  <1>4. ~kill(q)
    BY <1>1 DEF kill, Goto
  <1>5. ~\E m \in {"normal", "check"} : start(q, m)
    BY <1>1 DEF start, Goto
  <1>6. ~create_app(q)
    BY <1>1
       DEF create_app, load_or_create, _write_text_exclusive, write_text, wait_for_writer,
       Loaded, Goto
  <1>7. ~create_server(q) /\ ~announce(q) /\ ~shutdown(q)
    BY <1>1 DEF create_server, announce, shutdown, Goto
  <1>8. ~init_db(q) /\ ~init_db_commit(q)
    BY <1>1 DEF init_db, init_db_commit, AfterInit, Goto
  <1>9. \A lan : ~observe_network_url(q, lan)
    BY <1>1 DEF observe_network_url, Goto
  <1> QED BY <1>2, <1>3, <1>4, <1>5, <1>6, <1>7, <1>8, <1>9 DEF main

\* main opens the browser only when a service of this folder serves on the port
\* in normal mode, whoever else takes the port.
THEOREM AlwaysOpensOwn == StartSpec => OpensOwn
  <1> DEFINE Own == \A p \in Starts : at[p] # "opened" /\ at'[p] = "opened" =>
                      port \in Starts /\ at[port] = "serve" /\ mode[port] = "normal"
  <1>1. ASSUME StartInv, [StartNext]_startVars  PROVE [Own]_startVars
    BY <1>1, AnsweredOpens, OnlyAnsweredOpens
  <1> QED BY <1>1, StartInvHolds, PTL DEF StartSpec, OpensOwn
=============================================================================
