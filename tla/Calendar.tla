------------------------------ MODULE Calendar ------------------------------
(***************************************************************************)
(* What the reservation service promises its users, without tables,       *)
(* revisions or requests: a calendar in which every booking holds one room *)
(* for one interval, no two bookings overlap, and only a booking that lies *)
(* ahead can be placed, moved or given away.  Booking implements it.       *)
(***************************************************************************)
EXTENDS Integers

CONSTANTS Reservations,  \* identities a booking may have
          Rooms,         \* rooms that may exist
          Users,         \* people who may own a booking
          Starts,        \* slots at which a booking may begin
          Lengths,       \* numbers of slots a booking may take
          Vacant         \* an identity that holds no place in the calendar

VARIABLES now,     \* the slot boundary the wall clock has reached
          booked   \* the place each identity holds, or Vacant

calendarVars == <<now, booked>>

Place == [room: Rooms, start: Starts, len: Lengths, owner: Users]

Overlap(p, q) ==
    /\ p.room = q.room
    /\ p.start < q.start + q.len
    /\ q.start < p.start + p.len

\* No booking other than r itself stands in the way of p.
IsFree(p, r) ==
    \A s \in Reservations \ {r} : booked[s] # Vacant => ~Overlap(booked[s], p)

Ahead(p) == p.start > now
Over(p) == p.start + p.len <= now

Init ==
    /\ now = 0
    /\ booked = [r \in Reservations |-> Vacant]

Book(r, p) ==
    /\ booked[r] = Vacant
    /\ Ahead(p) /\ IsFree(p, r)
    /\ booked' = [booked EXCEPT ![r] = p]
    /\ UNCHANGED now

Move(r, p) ==
    /\ booked[r] # Vacant /\ Ahead(booked[r])
    /\ Ahead(p) /\ IsFree(p, r)
    /\ p.owner = booked[r].owner
    /\ booked' = [booked EXCEPT ![r] = p]
    /\ UNCHANGED now

Transfer(r, u) ==
    /\ booked[r] # Vacant /\ Ahead(booked[r])
    /\ booked' = [booked EXCEPT ![r].owner = u]
    /\ UNCHANGED now

Release(r) ==
    /\ booked[r] # Vacant /\ ~Over(booked[r])
    /\ booked' = [booked EXCEPT ![r] = Vacant]
    /\ UNCHANGED now

\* A room leaves the calendar once everything booked in it is over.
Retire(m) ==
    /\ \A r \in Reservations :
          booked[r] # Vacant /\ booked[r].room = m => Over(booked[r])
    /\ booked' = [r \in Reservations |->
                    IF booked[r] # Vacant /\ booked[r].room = m
                    THEN Vacant ELSE booked[r]]
    /\ UNCHANGED now

Tick ==
    /\ now' = now + 1
    /\ UNCHANGED booked

Next ==
    \/ Tick
    \/ \E m \in Rooms : Retire(m)
    \/ \E r \in Reservations :
          \/ Release(r)
          \/ \E u \in Users : Transfer(r, u)
          \/ \E p \in Place : Book(r, p) \/ Move(r, p)

Spec == Init /\ [][Next]_calendarVars
=============================================================================
