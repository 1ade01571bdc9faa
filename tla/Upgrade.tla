------------------------------ MODULE Upgrade ------------------------------
(***************************************************************************)
(* What an update promises those who use the installation, without files,  *)
(* journal or snapshots: there is one version at any time, it changes once *)
(* and for good, the new one may be tried before, and the only bookings    *)
(* that can be lost are those made during a trial that is given up.  The   *)
(* one way out of the promise is a trial whose end tears the installation. *)
(* UpdateTransaction implements it.                                        *)
(***************************************************************************)
EXTENDS Integers

VARIABLES version,   \* "source", "target", or "torn": nothing is promised
          trial,     \* the target is prepared and can be given up
          serves,    \* the version that answers, "none", or "overlooked":
                     \* a service nobody knows of
          bookings,  \* number of bookings in the data
          kept       \* number of them that are left if the trial is given up

upgradeVars == <<version, trial, serves, bookings, kept>>

Init ==
    /\ version = "source" /\ trial = FALSE
    /\ serves \in {"none", "source"}
    /\ bookings = 0 /\ kept = 0

Begin ==
    /\ ~trial /\ version = "source" /\ serves \in {"none", "overlooked"}
    /\ trial' = TRUE
    /\ UNCHANGED <<version, serves, bookings, kept>>

\* Only a trial may serve a version that is not the installation's.
Serve(v) ==
    /\ v = version \/ (trial /\ v = "target")
    /\ serves = "none"
    /\ serves' = v
    /\ UNCHANGED <<version, trial, bookings, kept>>

Stop ==
    /\ serves' = "none"
    /\ UNCHANGED <<version, trial, bookings, kept>>

Overlook ==
    /\ serves # "target"
    /\ serves' = "overlooked"
    /\ UNCHANGED <<version, trial, bookings, kept>>

Book ==
    /\ serves # "none"
    /\ bookings' = bookings + 1
    /\ kept' = IF trial THEN kept ELSE bookings'
    /\ UNCHANGED <<version, trial, serves>>

Commit ==
    /\ trial /\ serves = "none" /\ version = "source"
    /\ version' = "target" /\ trial' = FALSE
    /\ kept' = bookings
    /\ UNCHANGED <<serves, bookings>>

GiveUp ==
    /\ trial /\ serves \in {"none", "overlooked"}
    /\ bookings' = kept
    /\ UNCHANGED <<version, trial, serves, kept>>

\* The end of a trial that was given up: the old version may answer already.
Return ==
    /\ trial /\ serves # "target"
    /\ trial' = FALSE
    /\ serves' \in {serves, "none"}
    /\ kept' = bookings
    /\ UNCHANGED <<version, bookings>>

Tear == trial /\ version = "source" /\ version' = "torn"

Torn == version = "torn" /\ version' = "torn"

Next ==
    \/ Begin \/ Stop \/ Overlook \/ Book \/ Commit \/ GiveUp \/ Return
    \/ \E v \in {"source", "target"} : Serve(v)
    \/ Tear \/ Torn

Spec == Init /\ [][Next]_upgradeVars
=============================================================================
