------------------------- MODULE UpdateTransaction -------------------------
(***************************************************************************)
(* The offline update of an installation: V2UpdateTransaction and the      *)
(* identity checks of installer/update_core.py behind the entry point of   *)
(* installer/update.py.  One updater process replaces app and runtime and  *)
(* rewrites the identity files step by step, keeps a journal               *)
(* (update-transaction.json) and snapshots (backups/updates/<txid>), and   *)
(* is interrupted at any step by an exception or by a power failure.  The  *)
(* operator then runs the same package again.                              *)
(*                                                                         *)
(* A file or a directory is the version it belongs to, or the half-done    *)
(* state a copy or a removal leaves behind.                                *)
(***************************************************************************)
EXTENDS Integers

CONSTANTS MaxWrites,  \* bound: bookings made
          MaxFaults   \* bound: exceptions and power failures

ASSUME UpdateAssumption == MaxWrites \in Nat /\ MaxFaults \in Nat

VARIABLES files,      \* version file, installed manifest and entry points
          program,    \* the directories app and runtime
          displaced,  \* .update-displaced-app and -runtime
          data,       \* the data directory, install.json included
          txn,        \* update-transaction.json
          rollback,   \* backups/updates/<txid>
          service,    \* "up": the service runs, or would after a restart
          overlooked, \* the updater goes on although the service runs
          torn,       \* a roll-back the journal does not announce was cut short
          pc,         \* the next step of the updater process
          run_state,  \* the updater's memory: what capture_and_stop returned
          faults      \* exceptions and power failures so far

vars == <<files, program, displaced, data, txn, rollback, service, overlooked,
          torn, pc, run_state, faults>>

Absent == [kind |-> "absent"]
Partial == [kind |-> "partial"]
Version == {"source", "target"}
Part == {"app", "runtime"}

Program == [Part -> Version \cup {"absent", "partial"}]

Files == [version : Version, manifest : Version, root : Version \cup {"mixed"}]

Data == [kind : {"tree"}, info : Version, schema : Version, writes : 0 .. MaxWrites]

Stages == {"service_stopped_pre_snapshot", "prepared", "staging_verified",
           "program_replaced", "security_verified",
           "healthcheck_passed_and_stopped", "version_committed",
           "run_state_restored"}

Txn == [kind : {"journal"}, stage : Stages, run_state : {"up", "down"}]

\* The snapshots of program and data, and the two directories in which a
\* restore of data prepares the old tree and puts the present one aside.
Rollback == [kind : {"dir"}, files : Files, program : Program,
             data : Data \cup {Absent},
             candidate : Data \cup {Absent, Partial},
             before : Data \cup {Absent}]

Steps == {"idle", "capture", "stage_stopped", "snapshot", "stage_prepared", "extract",
          "replace", "write_root", "stage_replaced", "stage_secured", "health_start",
          "health_probe", "health_stop", "stage_healthy", "commit_info",
          "commit_manifest", "commit_version", "commit_state", "settle",
          "settle_state", "stage_settled", "finish_stop", "finish_restore",
          "finish_state", "finish_cleanup", "undo_stop", "undo_restore",
          "undo_state", "back_stop", "app", "app_copy", "runtime",
          "runtime_copy", "cleanup", "root", "version", "manifest", "candidate",
          "data", "secure", "back_restore", "back_state", "unlink", "clean"}

TypeOK ==
    /\ files \in Files
    /\ program \in Program
    /\ displaced \in Program
    /\ data \in Data \cup {Absent}
    /\ txn \in Txn \cup {Absent}
    /\ rollback \in Rollback \cup {Absent}
    /\ service \in {"up", "down"}
    /\ overlooked \in BOOLEAN /\ torn \in BOOLEAN
    /\ pc \in Steps
    /\ run_state \in {"up", "down"}
    /\ faults \in 0 .. MaxFaults

Init ==
    /\ files = [version |-> "source", manifest |-> "source", root |-> "source"]
    /\ program = [n \in Part |-> "source"]
    /\ displaced = [n \in Part |-> "absent"]
    /\ data = [kind |-> "tree", info |-> "source", schema |-> "source", writes |-> 0]
    /\ txn = Absent /\ rollback = Absent
    /\ service \in {"up", "down"} /\ overlooked = FALSE /\ torn = FALSE
    /\ pc = "idle" /\ run_state = "down" /\ faults = 0

-----------------------------------------------------------------------------
(* Identity and run state *)

\* What load_v2_identity demands: the three records of the version agree.
load_v2_identity ==
    /\ data # Absent
    /\ data.info = files.version /\ files.manifest = files.version

recovered_version_of_info ==
    IF data # Absent /\ data.info = "target" THEN "target" ELSE "source"

\* The version with which recovery goes on: a commit that is not complete, or
\* a data directory caught between two renames, counts as the old version.
recovered_version ==
    IF /\ data # Absent /\ data.info = "target"
       /\ files.manifest = "target" /\ files.version = "target"
    THEN "target" ELSE "source"

\* A data directory that is missing must be waiting in the rollback directory.
load_identity_for_recovery ==
    /\ rollback # Absent
    /\ data = Absent => /\ txn.stage # "service_stopped_pre_snapshot"
                        /\ rollback.before # Absent
                        /\ rollback.candidate = rollback.data

\* A service that starts migrates the database to the schema of its program.
Migrated ==
    IF data # Absent /\ program["app"] = "target"
    THEN [data EXCEPT !.schema = "target"] ELSE data

\* A start is in vain while the service runs.
Start ==
    /\ service' = "up" /\ UNCHANGED overlooked
    /\ data' = Migrated \/ (service = "up" /\ data' = data)

Goto(from, to) == pc = from /\ pc' = to

running == <<service, overlooked>>
memory == <<torn, run_state, faults>>
disk == <<files, program, displaced, data, txn, rollback>>

\* _stage: the journal is replaced in one rename.
write_stage(from, stage, to) ==
    /\ Goto(from, to)
    /\ txn' = [txn EXCEPT !.stage = stage]
    /\ UNCHANGED <<files, program, displaced, data, rollback, running, memory>>

-----------------------------------------------------------------------------
(* run: a new update *)

\* An update is started by the entry point of the package, which asks for the
\* identity before it calls run, or by a direct call of run.
Entries == {"update.py", "run"}

main(entry) == entry = "update.py" => load_v2_identity

start_update(entry) ==
    /\ Goto("idle", "capture")
    /\ txn = Absent
    /\ main(entry) /\ load_v2_identity /\ files.version = "source"
    /\ UNCHANGED <<disk, running, memory>>

\* rollback.mkdir, then capture_and_stop: what it finds is in memory only, and
\* a stop that fails is not noticed.
capture_and_stop ==
    /\ Goto("capture", "stage_stopped")
    /\ rollback' = [kind |-> "dir", files |-> files, program |-> program,
                    data |-> Absent, candidate |-> Absent, before |-> Absent]
    /\ run_state' = service
    /\ service' \in {service, "down"} /\ overlooked' = (service' = "up")
    /\ UNCHANGED <<files, program, displaced, data, txn, torn, faults>>

stage_stopped ==
    /\ Goto("stage_stopped", "snapshot")
    /\ txn' = [kind |-> "journal", stage |-> "service_stopped_pre_snapshot",
               run_state |-> run_state]
    /\ UNCHANGED <<files, program, displaced, data, rollback, running, memory>>

snapshot ==
    /\ Goto("snapshot", "stage_prepared")
    /\ rollback' = [rollback EXCEPT !.data = data, !.program = program,
                                    !.files = files]
    /\ UNCHANGED <<files, program, displaced, data, txn, running, memory>>

\* os.replace(current, displaced)
displace(n) ==
    /\ pc = "replace" /\ UNCHANGED pc
    /\ n = "runtime" => program["app"] = "target"
    /\ program[n] \notin {"target", "absent"} /\ displaced[n] = "absent"
    /\ displaced' = [displaced EXCEPT ![n] = program[n]]
    /\ program' = [program EXCEPT ![n] = "absent"]
    /\ UNCHANGED <<files, data, txn, rollback, running, memory>>

\* os.replace(staged, current)
install(n) ==
    /\ pc = "replace" /\ UNCHANGED pc
    /\ program[n] = "absent"
    /\ program' = [program EXCEPT ![n] = "target"]
    /\ UNCHANGED <<files, displaced, data, txn, rollback, running, memory>>

Installed == \A n \in Part : program[n] = "target"

remove_displaced(n) ==
    /\ pc = "replace" /\ UNCHANGED pc
    /\ Installed /\ displaced[n] # "absent"
    /\ displaced' = [displaced EXCEPT ![n] = "absent"]
    /\ UNCHANGED <<files, program, data, txn, rollback, running, memory>>

replaced ==
    /\ Goto("replace", "write_root")
    /\ Installed /\ \A n \in Part : displaced[n] = "absent"
    /\ files' = [files EXCEPT !.root = "mixed"]
    /\ UNCHANGED <<program, displaced, data, txn, rollback, running, memory>>

write_root ==
    /\ Goto("write_root", "stage_replaced")
    /\ files' = [files EXCEPT !.root = "target"]
    /\ UNCHANGED <<program, displaced, data, txn, rollback, running, memory>>

start_for_health ==
    /\ Goto("health_start", "health_probe")
    /\ Start
    /\ UNCHANGED <<files, program, displaced, txn, rollback, memory>>

health_probe ==
    /\ Goto("health_probe", "health_stop")
    /\ UNCHANGED <<disk, running, memory>>

stop_in_vain(from, to) == Goto(from, to) /\ UNCHANGED <<disk, running, memory>>

\* capture_and_stop_fail_closed
stop(from, to) ==
    /\ Goto(from, to)
    /\ service' = "down" /\ overlooked' = FALSE
    /\ UNCHANGED <<disk, memory>>

\* The capture_and_stop of a recovery that replaces nothing.
stop_open(from, to) ==
    /\ Goto(from, to)
    /\ service' \in {service, "down"}
    /\ overlooked' = (overlooked /\ service' = "up")
    /\ UNCHANGED <<disk, memory>>

\* _commit_identity: install.json, the manifest and the version file, each in
\* one rename, then the journal.
commit_info ==
    /\ Goto("commit_info", "commit_manifest")
    /\ data' = [data EXCEPT !.info = "target"]
    /\ UNCHANGED <<files, program, displaced, txn, rollback, running, memory>>

commit_manifest ==
    /\ Goto("commit_manifest", "commit_version")
    /\ files' = [files EXCEPT !.manifest = "target"]
    /\ UNCHANGED <<program, displaced, data, txn, rollback, running, memory>>

commit_version ==
    /\ Goto("commit_version", "commit_state")
    /\ files' = [files EXCEPT !.version = "target"]
    /\ UNCHANGED <<program, displaced, data, txn, rollback, running, memory>>

\* controller.restore starts the service in any case, and stops it again, if it
\* can, when it did not run before the update.
activate(from, to) ==
    /\ Goto(from, to)
    /\ Start
    /\ UNCHANGED <<files, program, displaced, txn, rollback, memory>>

apply_run_state(from, to) ==
    /\ Goto(from, to)
    /\ service' = service \/ (run_state = "down" /\ service' = "down")
    /\ overlooked' = (overlooked /\ service' = "up")
    /\ UNCHANGED <<disk, memory>>

\* The journal goes before the snapshots it names.
unlink_state ==
    /\ Goto("unlink", "clean")
    /\ txn' = Absent
    /\ UNCHANGED <<files, program, displaced, data, rollback, running, memory>>

\* A run that has recovered goes on with a new update: a new start.
clean ==
    /\ Goto("clean", "idle")
    /\ rollback' = Absent
    /\ UNCHANGED <<files, program, displaced, data, txn, running, memory>>

-----------------------------------------------------------------------------
(* _restore: program, entry points, identity files and data of the snapshot *)

remove_tree(n, to) ==
    /\ Goto(n, to)
    /\ program' = [program EXCEPT ![n] = "partial"]
    /\ UNCHANGED <<files, displaced, data, txn, rollback, running, memory>>

copy_tree(n, from, to) ==
    /\ Goto(from, to)
    /\ program' = [program EXCEPT ![n] = rollback.program[n]]
    /\ UNCHANGED <<files, displaced, data, txn, rollback, running, memory>>

\* Both directories are there again, so that the displaced ones are rubbish.
cleanup_displaced_dirs(from, to) ==
    /\ Goto(from, to)
    /\ displaced' = [n \in Part |-> "absent"]
    /\ program' = [n \in Part |-> IF program[n] = "absent" /\ displaced[n] # "absent"
                                  THEN displaced[n] ELSE program[n]]
    /\ UNCHANGED <<files, data, txn, rollback, running, memory>>

restore_root ==
    /\ pc = "root"
    /\ \/ files.root # "mixed" /\ files' = [files EXCEPT !.root = "mixed"] /\ UNCHANGED pc
       \/ files' = [files EXCEPT !.root = rollback.files.root] /\ pc' = "version"
    /\ UNCHANGED <<program, displaced, data, txn, rollback, running, memory>>

restore_version ==
    /\ Goto("version", "manifest")
    /\ files' = [files EXCEPT !.version = rollback.files.version]
    /\ UNCHANGED <<program, displaced, data, txn, rollback, running, memory>>

restore_manifest ==
    /\ Goto("manifest", "candidate")
    /\ files' = [files EXCEPT !.manifest = rollback.files.manifest]
    /\ UNCHANGED <<program, displaced, data, txn, rollback, running, memory>>

refuse_candidate ==
    /\ Goto("candidate", IF rollback.candidate = Partial THEN "idle" ELSE "data")
    /\ UNCHANGED <<disk, running, memory>>

\* What an interrupted copy left is removed.
clear_candidate ==
    /\ Goto("candidate", "data")
    /\ rollback' = IF rollback.candidate = Partial
                   THEN [rollback EXCEPT !.candidate = Absent] ELSE rollback
    /\ UNCHANGED <<files, program, displaced, data, txn, running, memory>>

restoring ==
    /\ pc = "data" /\ UNCHANGED pc
    /\ UNCHANGED <<files, program, displaced, txn, running, memory>>

copy_candidate ==
    /\ restoring /\ UNCHANGED data
    /\ rollback.before = Absent /\ data \notin {rollback.data, Absent}
    /\ \/ /\ rollback.candidate = Absent
          /\ rollback' = [rollback EXCEPT !.candidate = Partial]
       \/ /\ rollback.candidate = Partial
          /\ rollback' = [rollback EXCEPT !.candidate = rollback.data]

move_data_out ==
    /\ restoring
    /\ rollback.before = Absent /\ data \notin {rollback.data, Absent}
    /\ rollback.candidate = rollback.data
    /\ data' = Absent
    /\ rollback' = [rollback EXCEPT !.before = data]

move_candidate_in ==
    /\ restoring
    /\ rollback.before # Absent /\ data = Absent
    /\ rollback.candidate = rollback.data
    /\ data' = rollback.candidate
    /\ rollback' = [rollback EXCEPT !.candidate = Absent]

\* The restored data is in its place: the old tree and the candidate go.
restored_data ==
    /\ Goto("data", "secure")
    /\ data = rollback.data
    /\ rollback' = [rollback EXCEPT !.before = Absent, !.candidate = Absent]
    /\ UNCHANGED <<files, program, displaced, data, txn, running, memory>>

\* The data in its place is not the snapshot's, and an old tree waits as well:
\* _restore raises, now and in every recovery.
Conflict ==
    /\ rollback # Absent /\ rollback.before # Absent
    /\ data \notin {rollback.data, Absent}

restore_refused ==
    /\ Goto("data", "idle")
    /\ Conflict
    /\ UNCHANGED <<disk, running, memory>>

\* apply_security, verify and a last load_v2_identity.
secure ==
    /\ Goto("secure", "back_restore")
    /\ load_v2_identity
    /\ UNCHANGED <<disk, running, memory>>

-----------------------------------------------------------------------------
(* Interruptions and recovery *)

Unprepared == {"stage_stopped", "snapshot"}

Healthchecking == {"health_probe", "health_stop"}

Committing == {"commit_info", "commit_manifest", "commit_version", "commit_state"}

Prepared == {"stage_prepared", "extract", "replace", "write_root",
             "stage_replaced", "stage_secured", "health_start",
             "stage_healthy"} \cup Committing

\* The handler of _replace_program moves the displaced directories back.
PutBack ==
    IF pc = "replace"
    THEN /\ program' = [n \in Part |-> IF displaced[n] # "absent" THEN displaced[n]
                                       ELSE IF Installed THEN "absent" ELSE program[n]]
         /\ displaced' = [n \in Part |-> "absent"]
    ELSE UNCHANGED <<program, displaced>>

\* What the failing step leaves of the service: a stop may have stopped it, and
\* a start that fails half-way may have started it behind the handler's back.
HalfDone ==
    \/ /\ pc = "capture" /\ service' \in {service, "down"}
       /\ overlooked' = (overlooked /\ service' = "up") /\ UNCHANGED data
    \/ /\ pc = "health_start" /\ service' \in {service, "up"}
       /\ overlooked' = (service' = "up") /\ data' \in {data, Migrated}
    \/ pc \notin {"capture", "health_start"} /\ UNCHANGED <<running, data>>

RollbackStep ==
    CASE pc = "capture" -> "clean"
      [] pc \in Unprepared -> "undo_restore"
      [] pc \in Healthchecking -> "back_stop"
      [] pc \in Prepared -> "app"

\* A step raises, and run's handler begins to roll back.
Raise ==
    /\ pc \in {"capture"} \cup Unprepared \cup Healthchecking \cup Prepared
    /\ faults < MaxFaults
    /\ faults' = faults + 1
    /\ pc' = RollbackStep
    /\ PutBack /\ HalfDone
    /\ UNCHANGED <<files, txn, rollback, torn, run_state>>

recovery_step_back ==
    IF txn.stage = "service_stopped_pre_snapshot" THEN "undo_stop" ELSE "back_stop"

\* The three ways out of an interrupted update.
recovery_step ==
    IF recovered_version = "target" THEN "finish_stop"
    ELSE IF txn.stage = "service_stopped_pre_snapshot" THEN "undo_stop"
    ELSE "back_stop"

\* Steps of _restore behind the first that changes anything.
Midway == {"app_copy", "runtime", "runtime_copy", "cleanup", "root", "version",
           "manifest", "candidate", "data"}

\* The process ends: power fails, the window is closed, or a step of a
\* rollback or of a recovery raises.  Tasks that are enabled run again; a
\* service whose stop or start failed may be found either way.
Interrupt ==
    /\ pc # "idle"
    /\ faults < MaxFaults
    /\ faults' = faults + 1
    /\ pc' = "idle" /\ run_state' = "down"
    /\ torn' = (torn \/ (pc \in Midway /\ recovery_step # "back_stop"))
    /\ \/ UNCHANGED <<running, data>>
       \/ /\ overlooked /\ service' \in {"up", "down"} /\ overlooked' = (service' = "up")
          /\ data' \in {data, Migrated}
    /\ UNCHANGED <<files, program, displaced, txn, rollback>>

recover_existing_transaction(entry) ==
    /\ pc = "idle"
    /\ txn # Absent
    /\ main(entry)
    /\ load_identity_for_recovery
    /\ pc' = recovery_step
    /\ run_state' = txn.run_state
    /\ UNCHANGED <<disk, running, torn, faults>>

-----------------------------------------------------------------------------
(* The people who book, and the specification *)

book ==
    /\ service = "up" /\ data # Absent
    /\ data.writes < MaxWrites
    /\ data' = [data EXCEPT !.writes = @ + 1]
    /\ UNCHANGED <<files, program, displaced, txn, rollback, running, pc, memory>>

Update ==
    \/ capture_and_stop \/ stage_stopped \/ snapshot
    \/ write_stage("stage_prepared", "prepared", "extract")
    \/ write_stage("extract", "staging_verified", "replace")
    \/ \E n \in Part : displace(n) \/ install(n) \/ remove_displaced(n)
    \/ replaced \/ write_root
    \/ write_stage("stage_replaced", "program_replaced", "stage_secured")
    \/ write_stage("stage_secured", "security_verified", "health_start")
    \/ start_for_health \/ health_probe \/ stop("health_stop", "stage_healthy")
    \/ write_stage("stage_healthy", "healthcheck_passed_and_stopped", "commit_info")
    \/ commit_info \/ commit_manifest \/ commit_version
    \/ write_stage("commit_state", "version_committed", "settle")
    \/ activate("settle", "settle_state")
    \/ apply_run_state("settle_state", "stage_settled")
    \/ write_stage("stage_settled", "run_state_restored", "unlink")
    \/ unlink_state \/ clean

Restore ==
    \/ stop("back_stop", "app")
    \/ remove_tree("app", "app_copy") \/ copy_tree("app", "app_copy", "runtime")
    \/ remove_tree("runtime", "runtime_copy")
    \/ copy_tree("runtime", "runtime_copy", "cleanup")
    \/ cleanup_displaced_dirs("cleanup", "root")
    \/ restore_root \/ restore_version \/ restore_manifest
    \/ clear_candidate \/ copy_candidate \/ move_data_out \/ move_candidate_in
    \/ restored_data \/ restore_refused
    \/ secure \/ activate("back_restore", "back_state")
    \/ apply_run_state("back_state", "unlink")

Finish ==
    \/ stop_open("undo_stop", "undo_restore")
    \/ activate("undo_restore", "undo_state") \/ apply_run_state("undo_state", "unlink")
    \/ stop_open("finish_stop", "finish_restore")
    \/ activate("finish_restore", "finish_state")
    \/ apply_run_state("finish_state", "finish_cleanup")
    \/ cleanup_displaced_dirs("finish_cleanup", "unlink")

Work == Update \/ Restore \/ Finish

Next ==
    \/ \E entry \in Entries : start_update(entry) \/ recover_existing_transaction(entry)
    \/ Work
    \/ Raise \/ Interrupt
    \/ book

\* The process runs as long as it is not interrupted, and the operator runs the
\* package again after an interruption, as its instructions say: update.py.
Fairness == WF_vars(Work) /\ WF_vars(recover_existing_transaction("update.py"))

Spec == Init /\ [][Next]_vars

FairSpec == Spec /\ Fairness
-----------------------------------------------------------------------------
(* Properties *)

Whole(v) ==
    /\ program = [n \in Part |-> v]
    /\ files.root = v
    /\ data # Absent /\ (data.schema = "target" => v = "target")

\* The service only ever runs a program that is all of one version, on a
\* database that program can read: also after a power failure, and also while
\* the new version is on trial.  Not covered: a service whose stop failed unseen,
\* and what is left of a roll-back the journal knew nothing of.
RunsWhole == service = "up" /\ ~overlooked /\ ~torn => \E v \in Version : Whole(v)

WholeAtEnd ==
    txn = Absent => /\ \E v \in Version : Whole(v) /\ files.version = v
                    /\ load_v2_identity
                    /\ \A n \in Part : displaced[n] = "absent"

\* An installation without a journal is entirely the old or the new version:
\* program, entry points, manifest, version file, install.json and schema,
\* unless a roll-back was cut short that the journal knew nothing of.
EndsWhole == ~torn => WholeAtEnd

Committed == txn # Absent /\ txn.stage \in {"version_committed", "run_state_restored"}

\* Once the commit is in the journal nothing is rolled back: neither the
\* version nor a booking made since, however often the package is run again.
CommitIsFinal ==
    [][Committed => /\ files' = files /\ program' = program
                    /\ data' # Absent /\ data'.writes >= data.writes]_vars

\* An interrupted update does not stay interrupted: running update.py again
\* ends it, or update.py refuses the installation for its identity, or bookings
\* made between the two renames of the data have made the roll-back impossible.
Recovers ==
    txn # Absent ~> txn = Absent \/ (pc = "idle" /\ (~load_v2_identity \/ Conflict))
-----------------------------------------------------------------------------
(* The update that users are promised *)

\* The handler is about to roll back, or does, whatever the journal says.
InRollback == pc \in {"stage_prepared", "commit_state", "app", "secure", "back_restore",
                      "back_state"} \cup Midway

CurrentVersion ==
    IF torn THEN "torn" ELSE IF InRollback THEN "source" ELSE recovered_version

\* The new version is prepared, and what follows would bring the old one back.
OnProbation ==
    \/ InRollback
    \/ /\ txn # Absent /\ txn.stage # "service_stopped_pre_snapshot"
       /\ recovered_version = "source"

\* Data that waits between two renames is the data of the snapshot.
Bookings == IF data = Absent THEN rollback.data.writes ELSE data.writes

Serving ==
    IF service = "down" THEN "none" ELSE IF overlooked THEN "overlooked" ELSE program["app"]

\* A roll-back brings the bookings of the snapshot back.
Kept == IF OnProbation THEN rollback.data.writes ELSE Bookings

Abstract == INSTANCE Upgrade
    WITH version <- CurrentVersion, trial <- OnProbation, serves <- Serving,
         bookings <- Bookings, kept <- Kept

\* Wherever the update, its roll-back and its recovery are interrupted, users see
\* one version that changes once, at the commit, and lose no booking but those
\* that were made while the old version was to be brought back; except behind
\* a roll-back that the journal knew nothing of.
ImplementsUpgrade == Abstract!Spec
=============================================================================
