----------------------------- MODULE MCBooking -----------------------------
(* Instances of Booking for TLC. *)
EXTENDS Booking, TLC

\* Ids are drawn at random: no two of a kind differ in what can happen to them.
BookingSymmetry ==
    Permutations(Reservations) \cup Permutations(Requests) \cup
    Permutations(Rooms) \cup Permutations(Users \ {Founder})
=============================================================================
