-------------------------- MODULE MCVersion1Start --------------------------
(* Three starts of one folder, on a machine with two addresses, for TLC. *)
EXTENDS Version1Start, TLC
StartSymmetry == Permutations(Starts) \cup Permutations(Addresses)
=============================================================================
