------------------------------ MODULE MCUpdate ------------------------------
(* Instances of UpdateTransaction for TLC. *)
EXTENDS UpdateTransaction

\* "simply double-click the same package again: the updater first recovers":
\* an interrupted installation passes the checks of update.py's main.
Resumable == pc = "idle" /\ txn # Absent => load_v2_identity
=============================================================================
