----------------------------- MODULE MCSessions -----------------------------
(* Two tabs of one browser for TLC. *)
EXTENDS Sessions, TLC
SessionSymmetry == Permutations(Tabs) \cup Permutations(Users)
=============================================================================
