----------------------------- MODULE MCService -----------------------------
(* Instances of Service for TLC. *)
EXTENDS Service, TLC

\* Tokens and process numbers are drawn: processes differ in nothing else.
ProcessSymmetry == Permutations(Processes)
=============================================================================
