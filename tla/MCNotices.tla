----------------------------- MODULE MCNotices -----------------------------
(* Instances of Notices for TLC. *)
EXTENDS Notices, TLC
NoticesSymmetry == Permutations(Users \ {Founder}) \cup Permutations(Requests)
=============================================================================
