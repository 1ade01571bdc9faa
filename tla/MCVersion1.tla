----------------------------- MODULE MCVersion1 -----------------------------
(* The first generation with two browsers for TLC. *)
EXTENDS Version1, TLC
Version1Symmetry == Permutations(Browsers) \cup Permutations(Bookings)
=============================================================================
