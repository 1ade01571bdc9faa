---------------------------- MODULE UpdateProofs ----------------------------
(***************************************************************************)
(* An update ends whole, however often its steps, its roll-back and its    *)
(* recovery are interrupted, and however many bookings are made meanwhile. *)
(***************************************************************************)
EXTENDS UpdateTransaction, TLAPS

(* The invariant *)

NoneDisplaced == \A n \in Part : displaced[n] = "absent"

\* The installation is entirely of version v, its records included.
Is(v) == Whole(v) /\ files.version = v /\ load_v2_identity /\ NoneDisplaced

\* What the journal can say while the new version is on trial.
Trial == {"prepared", "staging_verified", "program_replaced", "security_verified",
          "healthcheck_passed_and_stopped"}

\* Steps of run before the version file is replaced, and those at which the
\* new program is in place.
Trying == {"extract", "replace", "write_root", "stage_replaced", "stage_secured",
           "health_start", "health_probe", "health_stop", "stage_healthy",
           "commit_info", "commit_manifest", "commit_version"}
Replaced == Trying \ {"extract", "replace"}

\* Steps of run behind the stop that does not fail unseen.
Quiet == {"stage_healthy", "commit_info", "commit_manifest", "commit_version", "commit_state"}

\* The steps of _restore, in their order.
Secured == {"secure", "back_restore", "back_state"}
Renamed == {"candidate", "data"} \cup Secured
Rooted == {"version", "manifest"} \cup Renamed
Restoring == {"app", "app_copy", "runtime", "runtime_copy", "cleanup", "root"} \cup Rooted

\* Steps at which nobody expects the service to run.
Stopped == {"stage_stopped", "snapshot", "stage_prepared"}
           \cup (Trying \ {"health_probe", "health_stop"}) \cup {"commit_state"}
           \cup (Restoring \ {"back_state"})

Finishing == {"finish_stop", "finish_restore", "finish_state", "finish_cleanup"}
Undoing == {"undo_stop", "undo_restore", "undo_state"}

\* All three records name the new version.
TargetNamed == recovered_version = "target"

\* The commit is only reached when it is true, and it stays true.
CommitReady ==
    /\ pc \in Replaced \cup {"commit_state"} => \A n \in Part : program[n] = "target"
    /\ pc \in {"commit_manifest", "commit_version"} => data.info = "target"
    /\ pc = "commit_version" => files.manifest = "target"
    /\ pc = "commit_state" => TargetNamed
    /\ pc \in {"settle", "settle_state", "stage_settled"} => Committed
    /\ Committed => /\ TargetNamed /\ \A n \in Part : program[n] = "target"
                    /\ pc \in Finishing \cup {"idle", "settle", "settle_state",
                                             "stage_settled", "unlink"}

\* Where the updater is tells which files there are, torn or not.
Shape ==
    /\ txn # Absent => rollback # Absent
    /\ pc \in {"stage_stopped", "snapshot", "stage_prepared"} \cup Trying \cup Restoring =>
         rollback # Absent
    /\ pc \notin {"idle", "capture", "stage_stopped", "unlink", "clean"} \cup Undoing =>
         txn # Absent
    /\ pc \in {"capture", "stage_stopped", "clean"} => txn = Absent
    /\ \/ pc \in {"stage_prepared", "back_stop", "commit_state", "settle", "settle_state",
                 "stage_settled"} \cup Trying \cup Restoring
       \/ txn # Absent /\ txn.stage # "service_stopped_pre_snapshot"
       => rollback.data \in Data
    /\ data = Absent => /\ txn # Absent
                        /\ pc \in {"idle", "back_stop"} \cup (Restoring \ Secured)
    /\ overlooked => service = "up"
    /\ CommitReady

\* The snapshot is that of a whole old version.
SnapshotIsSource ==
    /\ rollback.program = [n \in Part |-> "source"]
    /\ rollback.files = [version |-> "source", manifest |-> "source", root |-> "source"]
    /\ rollback.data.info = "source" /\ rollback.data.schema = "source"

\* The data directory is there, or waits beside the place it is moved to.
DataWaits ==
    data = Absent => rollback.before # Absent /\ rollback.candidate = rollback.data

\* What each step of _restore has left behind.
RestoredSoFar ==
    /\ pc \in {"runtime", "runtime_copy", "cleanup", "root"} \cup Rooted =>
         program["app"] = "source"
    /\ pc \in {"cleanup", "root"} \cup Rooted => program["runtime"] = "source"
    /\ pc \in {"root"} \cup Rooted => NoneDisplaced
    /\ pc \in Rooted => files.root = "source"
    /\ pc \in Rooted \ {"version"} => files.version = "source"
    /\ pc \in Renamed => files.manifest = "source"
    /\ pc \in Secured => data.info = "source" /\ data.schema = "source"

\* What each step of run has made of the new version.
TriedSoFar ==
    /\ pc \in Trying => files.version = "source"
    /\ pc \in Replaced => NoneDisplaced
    /\ pc \in Replaced \ {"write_root"} => files.root = "target"

\* Before the journal: nothing has been touched, or everything is over.
WithoutJournal ==
    /\ pc \in {"idle", "capture", "stage_stopped", "undo_restore", "undo_state", "unlink",
              "clean"}
    /\ \E v \in Version : Is(v)
    /\ pc \in {"capture", "stage_stopped", "undo_restore", "undo_state"} => Is("source")

\* Before the journal tells of the snapshot: nothing has been touched, or the
\* handler of a failed journal write restores what is there.
BeforeSnapshot ==
    /\ pc \in {"idle", "snapshot", "stage_prepared", "unlink"} \cup Undoing \cup Restoring
    /\ pc \notin Restoring \ {"app"} => Is("source")
    /\ program["app"] # "target"
    /\ data # Absent => data.info = "source" /\ data.schema = "source"
    /\ pc \in {"stage_prepared"} \cup Restoring => SnapshotIsSource
    /\ RestoredSoFar

\* On trial: the new version is complete and named by all three records, or it
\* is not named by them and the snapshot can bring the old one back; or the
\* handler of a failed commit entry brings it back.
OnTrial ==
    /\ pc \in Trying \cup Restoring \cup Finishing
              \cup {"idle", "back_stop", "commit_state", "unlink"}
    /\ SnapshotIsSource /\ DataWaits /\ RestoredSoFar /\ TriedSoFar
    /\ TargetNamed => pc \in Finishing \cup {"idle", "commit_state", "unlink"}
                             \cup (Restoring \ (Renamed \cup {"manifest"}))
    /\ TargetNamed /\ pc \notin Restoring \ {"app"} => Is("target")
    /\ TargetNamed /\ pc = "app" => service = "down"
    /\ pc \in Finishing \cup {"commit_state"} => TargetNamed
    /\ pc = "unlink" => Is("source") \/ Is("target")

\* After the commit: the new version is complete, and nobody turns back.
AfterCommit ==
    /\ pc \in Finishing \cup {"idle", "settle", "settle_state", "stage_settled", "unlink"}
    /\ Is("target")

JournalInv ==
    /\ txn = Absent => WithoutJournal
    /\ txn # Absent /\ txn.stage = "service_stopped_pre_snapshot" => BeforeSnapshot
    /\ txn # Absent /\ txn.stage \in Trial => OnTrial
    /\ Committed => AfterCommit

Sound ==
    /\ RunsWhole
    /\ pc \in Stopped => service = "down" \/ overlooked
    /\ pc \in Quiet => service = "down"
    /\ JournalInv

(***************************************************************************)
(* RunsWhole and EndsWhole are about two moments; what leads from one to   *)
(* the other is where the journal is, where the updater is and what it has *)
(* done so far.  A torn installation keeps its shape only.                 *)
(***************************************************************************)
UpdateInv == TypeOK /\ Shape /\ (~torn => Sound)

-----------------------------------------------------------------------------
\* The steps of run: types and shape stay, torn or not.
LEMMA UpdateKeepsShape ==
  ASSUME TypeOK, Shape,
         Update
  PROVE  TypeOK' /\ Shape'
  <1> USE UpdateAssumption
    DEF TypeOK, Shape, CommitReady, Committed, TargetNamed, Replaced, Secured, Renamed,
        Rooted, Restoring, Trying, Finishing, Undoing, Absent, Partial, Version, Part,
        Program, Files, Data, Stages, Txn, Rollback, Steps, Goto, Migrated, Start, disk,
        memory, running, restoring, recovered_version, load_v2_identity
  <1>1. ASSUME capture_and_stop PROVE TypeOK' /\ Shape'
    <2>1. overlooked' \in BOOLEAN /\ (overlooked' => service' = "up")
      BY <1>1, Zenon DEF capture_and_stop
    <2> QED
      BY <1>1, <2>1 DEF capture_and_stop
  <1>2. ASSUME stage_stopped PROVE TypeOK' /\ Shape'
    BY <1>2 DEF stage_stopped
  <1>3. ASSUME snapshot PROVE TypeOK' /\ Shape'
    <2>1. /\ rollback \in Rollback /\ data \in Data
          /\ rollback' = [rollback EXCEPT !.data = data, !.program = program, !.files = files]
      BY <1>3 DEF snapshot
    <2>2. rollback' \in Rollback /\ rollback'.data = data
      BY ONLY <2>1, program \in Program, files \in Files DEF Rollback, Absent, Partial
    <2> QED
      BY <1>3, <2>2 DEF snapshot
  <1>4. ASSUME write_stage("stage_prepared", "prepared", "extract") PROVE TypeOK' /\ Shape'
    BY <1>4 DEF write_stage
  <1>5. ASSUME write_stage("extract", "staging_verified", "replace") PROVE TypeOK' /\ Shape'
    BY <1>5 DEF write_stage
  <1>6. ASSUME NEW n \in Part, displace(n) PROVE TypeOK' /\ Shape'
    BY <1>6 DEF displace
  <1>7. ASSUME NEW n \in Part, install(n) PROVE TypeOK' /\ Shape'
    BY <1>7 DEF install
  <1>8. ASSUME NEW n \in Part, remove_displaced(n) PROVE TypeOK' /\ Shape'
    BY <1>8 DEF remove_displaced, Installed
  <1>9. ASSUME replaced PROVE TypeOK' /\ Shape'
    BY <1>9 DEF replaced, Installed
  <1>10. ASSUME write_root PROVE TypeOK' /\ Shape'
    BY <1>10 DEF write_root
  <1>11. ASSUME write_stage("stage_replaced", "program_replaced", "stage_secured")
        PROVE TypeOK' /\ Shape'
    BY <1>11 DEF write_stage
  <1>12. ASSUME write_stage("stage_secured", "security_verified", "health_start")
        PROVE TypeOK' /\ Shape'
    BY <1>12 DEF write_stage
  <1>13. ASSUME start_for_health PROVE TypeOK' /\ Shape'
    BY <1>13 DEF start_for_health
  <1>14. ASSUME health_probe PROVE TypeOK' /\ Shape'
    BY <1>14 DEF health_probe
  <1>15. ASSUME stop("health_stop", "stage_healthy") PROVE TypeOK' /\ Shape'
    <2>1. overlooked' \in BOOLEAN /\ (overlooked' => service' = "up")
      BY <1>15, Zenon DEF stop
    <2> QED
      BY <1>15, <2>1 DEF stop
  <1>16. ASSUME write_stage("stage_healthy", "healthcheck_passed_and_stopped", "commit_info")
        PROVE TypeOK' /\ Shape'
    BY <1>16 DEF write_stage
  <1>17. ASSUME commit_info PROVE TypeOK' /\ Shape'
    BY <1>17 DEF commit_info
  <1>18. ASSUME commit_manifest PROVE TypeOK' /\ Shape'
    BY <1>18 DEF commit_manifest
  <1>19. ASSUME commit_version PROVE TypeOK' /\ Shape'
    BY <1>19 DEF commit_version
  <1>20. ASSUME write_stage("commit_state", "version_committed", "settle")
        PROVE TypeOK' /\ Shape'
    BY <1>20 DEF write_stage
  <1>21. ASSUME activate("settle", "settle_state") PROVE TypeOK' /\ Shape'
    BY <1>21 DEF activate
  <1>22. ASSUME apply_run_state("settle_state", "stage_settled") PROVE TypeOK' /\ Shape'
    <2>1. overlooked' \in BOOLEAN /\ (overlooked' => service' = "up")
      BY <1>22, Zenon DEF apply_run_state
    <2> QED
      BY <1>22, <2>1 DEF apply_run_state
  <1>23. ASSUME write_stage("stage_settled", "run_state_restored", "unlink")
        PROVE TypeOK' /\ Shape'
    <2>1. /\ txn \in Txn /\ pc = "stage_settled" /\ pc' = "unlink"
          /\ txn' = [txn EXCEPT !.stage = "run_state_restored"]
      BY <1>23 DEF write_stage
    <2>2. txn' \in Txn /\ txn'.stage = "run_state_restored"
      BY ONLY <2>1 DEF Txn, Stages
    <2> QED
      BY <1>23, <2>1, <2>2 DEF write_stage
  <1>24. ASSUME unlink_state PROVE TypeOK' /\ Shape'
    BY <1>24 DEF unlink_state
  <1>25. ASSUME clean PROVE TypeOK' /\ Shape'
    BY <1>25 DEF clean
  <1> HIDE DEF TypeOK, Shape, Goto
  <1> QED
    BY <1>1, <1>2, <1>3, <1>4, <1>5, <1>6, <1>7, <1>8, <1>9, <1>10, <1>11, <1>12, <1>13,
       <1>14, <1>15, <1>16, <1>17, <1>18, <1>19, <1>20, <1>21, <1>22, <1>23, <1>24, <1>25 DEF Update

\* The steps of _restore: types and shape stay, torn or not.
LEMMA RestoreKeepsShape ==
  ASSUME TypeOK, Shape,
         Restore
  PROVE  TypeOK' /\ Shape'
  <1> USE UpdateAssumption
    DEF TypeOK, Shape, CommitReady, Committed, TargetNamed, Replaced, Secured, Renamed,
        Rooted, Restoring, Trying, Finishing, Undoing, Absent, Partial, Version, Part,
        Program, Files, Data, Stages, Txn, Rollback, Steps, Goto, Migrated, Start, disk,
        memory, running, restoring, recovered_version, load_v2_identity
  <1>1. ASSUME stop("back_stop", "app") PROVE TypeOK' /\ Shape'
    <2>1. overlooked' \in BOOLEAN /\ (overlooked' => service' = "up")
      BY <1>1, Zenon DEF stop
    <2> QED
      BY <1>1, <2>1 DEF stop
  <1>2. ASSUME remove_tree("app", "app_copy") PROVE TypeOK' /\ Shape'
    BY <1>2 DEF remove_tree
  <1>3. ASSUME copy_tree("app", "app_copy", "runtime") PROVE TypeOK' /\ Shape'
    BY <1>3 DEF copy_tree
  <1>4. ASSUME remove_tree("runtime", "runtime_copy") PROVE TypeOK' /\ Shape'
    BY <1>4 DEF remove_tree
  <1>5. ASSUME copy_tree("runtime", "runtime_copy", "cleanup") PROVE TypeOK' /\ Shape'
    BY <1>5 DEF copy_tree
  <1>6. ASSUME cleanup_displaced_dirs("cleanup", "root") PROVE TypeOK' /\ Shape'
    BY <1>6 DEF cleanup_displaced_dirs
  <1>7. ASSUME restore_root PROVE TypeOK' /\ Shape'
    BY <1>7 DEF restore_root
  <1>8. ASSUME restore_version PROVE TypeOK' /\ Shape'
    BY <1>8 DEF restore_version
  <1>9. ASSUME restore_manifest PROVE TypeOK' /\ Shape'
    BY <1>9 DEF restore_manifest
  <1>10. ASSUME clear_candidate PROVE TypeOK' /\ Shape'
    BY <1>10 DEF clear_candidate
  <1>11. ASSUME copy_candidate PROVE TypeOK' /\ Shape'
    BY <1>11 DEF copy_candidate
  <1>12. ASSUME move_data_out PROVE TypeOK' /\ Shape'
    BY <1>12 DEF move_data_out
  <1>13. ASSUME move_candidate_in PROVE TypeOK' /\ Shape'
    BY <1>13 DEF move_candidate_in
  <1>14. ASSUME restored_data PROVE TypeOK' /\ Shape'
    <2>1. /\ rollback \in Rollback
          /\ rollback' = [rollback EXCEPT !.before = Absent, !.candidate = Absent]
      BY <1>14 DEF restored_data
    <2>2. rollback' \in Rollback /\ rollback'.data = rollback.data
      BY ONLY <2>1 DEF Rollback, Absent, Partial
    <2> QED
      BY <1>14, <2>2 DEF restored_data
  <1>15. ASSUME restore_refused PROVE TypeOK' /\ Shape'
    BY <1>15 DEF restore_refused, Conflict
  <1>16. ASSUME secure PROVE TypeOK' /\ Shape'
    BY <1>16 DEF secure
  <1>17. ASSUME activate("back_restore", "back_state") PROVE TypeOK' /\ Shape'
    BY <1>17 DEF activate
  <1>18. ASSUME apply_run_state("back_state", "unlink") PROVE TypeOK' /\ Shape'
    <2>1. overlooked' \in BOOLEAN /\ (overlooked' => service' = "up")
      BY <1>18, Zenon DEF apply_run_state
    <2> QED
      BY <1>18, <2>1 DEF apply_run_state
  <1> HIDE DEF TypeOK, Shape, Goto
  <1> QED
    BY <1>1, <1>2, <1>3, <1>4, <1>5, <1>6, <1>7, <1>8, <1>9, <1>10, <1>11, <1>12, <1>13,
       <1>14, <1>15, <1>16, <1>17, <1>18 DEF Restore

\* The recoveries that restore nothing: types and shape stay, torn or not.
LEMMA FinishKeepsShape ==
  ASSUME TypeOK, Shape,
         Finish
  PROVE  TypeOK' /\ Shape'
  <1> USE UpdateAssumption
    DEF TypeOK, Shape, CommitReady, Committed, TargetNamed, Replaced, Secured, Renamed,
        Rooted, Restoring, Trying, Finishing, Undoing, Absent, Partial, Version, Part,
        Program, Files, Data, Stages, Txn, Rollback, Steps, Goto, Migrated, Start, disk,
        memory, running, restoring, recovered_version, load_v2_identity
  <1>1. ASSUME stop_open("undo_stop", "undo_restore") PROVE TypeOK' /\ Shape'
    <2>1. overlooked' \in BOOLEAN /\ (overlooked' => service' = "up")
      BY <1>1, Zenon DEF stop_open
    <2> QED
      BY <1>1, <2>1 DEF stop_open
  <1>2. ASSUME activate("undo_restore", "undo_state") PROVE TypeOK' /\ Shape'
    BY <1>2 DEF activate
  <1>3. ASSUME apply_run_state("undo_state", "unlink") PROVE TypeOK' /\ Shape'
    <2>1. overlooked' \in BOOLEAN /\ (overlooked' => service' = "up")
      BY <1>3, Zenon DEF apply_run_state
    <2> QED
      BY <1>3, <2>1 DEF apply_run_state
  <1>4. ASSUME stop_open("finish_stop", "finish_restore") PROVE TypeOK' /\ Shape'
    <2>1. overlooked' \in BOOLEAN /\ (overlooked' => service' = "up")
      BY <1>4, Zenon DEF stop_open
    <2> QED
      BY <1>4, <2>1 DEF stop_open
  <1>5. ASSUME activate("finish_restore", "finish_state") PROVE TypeOK' /\ Shape'
    BY <1>5 DEF activate
  <1>6. ASSUME apply_run_state("finish_state", "finish_cleanup") PROVE TypeOK' /\ Shape'
    <2>1. overlooked' \in BOOLEAN /\ (overlooked' => service' = "up")
      BY <1>6, Zenon DEF apply_run_state
    <2> QED
      BY <1>6, <2>1 DEF apply_run_state
  <1>7. ASSUME cleanup_displaced_dirs("finish_cleanup", "unlink") PROVE TypeOK' /\ Shape'
    BY <1>7 DEF cleanup_displaced_dirs
  <1> HIDE DEF TypeOK, Shape, Goto
  <1> QED
    BY <1>1, <1>2, <1>3, <1>4, <1>5, <1>6, <1>7 DEF Finish

\* A start, a failed step, an interruption, a recovery that begins, a booking: types and shape stay, torn or not.
LEMMA OtherKeepsShape ==
  ASSUME TypeOK, Shape,
         (\E entry \in Entries : start_update(entry) \/ recover_existing_transaction(entry))
                 \/ Raise \/ Interrupt \/ book
  PROVE  TypeOK' /\ Shape'
  <1> USE UpdateAssumption
    DEF TypeOK, Shape, CommitReady, Committed, TargetNamed, Replaced, Secured, Renamed,
        Rooted, Restoring, Trying, Finishing, Undoing, Absent, Partial, Version, Part,
        Program, Files, Data, Stages, Txn, Rollback, Steps, Goto, Migrated, Start, disk,
        memory, running, restoring, recovered_version, load_v2_identity
  <1>1. ASSUME NEW entry \in Entries, start_update(entry) PROVE TypeOK' /\ Shape'
    BY <1>1 DEF start_update, main
  <1>2. ASSUME Raise PROVE TypeOK' /\ Shape'
    <2>1. /\ overlooked' \in BOOLEAN /\ (overlooked' => service' = "up")
          /\ service' \in {"up", "down"}
      <3>1. CASE pc = "capture"
        BY <1>2, <3>1, Zenon DEF Raise, HalfDone
      <3>2. CASE pc = "health_start"
        BY <1>2, <3>2, Zenon DEF Raise, HalfDone
      <3>3. CASE pc \notin {"capture", "health_start"}
        BY <1>2, <3>3 DEF Raise, HalfDone
      <3> QED
        BY <3>1, <3>2, <3>3
    <2>2. program' \in Program /\ displaced' \in Program
      BY <1>2 DEF Raise, PutBack
    <2>3. data' \in Data \cup {Absent} /\ (data' = Absent => data = Absent)
      BY <1>2 DEF Raise, HalfDone
    <2>4. /\ pc' \in {"clean", "undo_restore", "back_stop", "app"}
          /\ pc' = "clean" => pc = "capture"
          /\ pc' = "undo_restore" => pc \in Unprepared
          /\ pc' \in {"back_stop", "app"} => pc \in Healthchecking \cup Prepared
      BY <1>2, Zenon DEF Raise, RollbackStep
    <2>5. UNCHANGED <<files, txn, rollback, torn, run_state>> /\ faults' \in 0 .. MaxFaults
      BY <1>2 DEF Raise
    <2> QED
      BY <1>2, <2>1, <2>2, <2>3, <2>4, <2>5
      DEF Raise, Prepared, Committing, Healthchecking, Unprepared
  <1>3. ASSUME Interrupt PROVE TypeOK' /\ Shape'
    <2>1. torn' \in BOOLEAN /\ pc' = "idle" /\ run_state' = "down"
      BY <1>3, Zenon DEF Interrupt
    <2>2. /\ overlooked' \in BOOLEAN /\ (overlooked' => service' = "up")
          /\ service' \in {"up", "down"}
      <3>1. CASE UNCHANGED <<running, data>>
        BY <3>1
      <3>2. CASE /\ overlooked /\ service' \in {"up", "down"}
                 /\ overlooked' = (service' = "up")
        BY <3>2, Zenon
      <3> QED
        BY <1>3, <3>1, <3>2, Zenon DEF Interrupt
    <2>3. data' \in Data \cup {Absent} /\ (data' = Absent => data = Absent)
      BY <1>3 DEF Interrupt
    <2>4. UNCHANGED <<files, program, displaced, txn, rollback>> /\ faults' \in 0 .. MaxFaults
      BY <1>3 DEF Interrupt
    <2> QED
      BY <1>3, <2>1, <2>2, <2>3, <2>4 DEF Interrupt
  <1>4. ASSUME NEW entry \in Entries, recover_existing_transaction(entry)
        PROVE TypeOK' /\ Shape'
    BY <1>4 DEF recover_existing_transaction, recovery_step, load_identity_for_recovery
  <1>5. ASSUME book PROVE TypeOK' /\ Shape'
    BY <1>5 DEF book
  <1> HIDE DEF TypeOK, Shape, Goto
  <1> QED
    BY <1>1, <1>2, <1>3, <1>4, <1>5

\* The steps of run: every journal entry says what is done.
LEMMA UpdateKeepsSound ==
  ASSUME UpdateInv, ~torn, TypeOK', Shape',
         Update
  PROVE  Sound'
  <1> USE UpdateAssumption
    DEF TypeOK, Shape, CommitReady, Committed, TargetNamed, Replaced, Secured, Renamed,
        Rooted, Restoring, Trying, Finishing, Undoing, Absent, Partial, Version, Part,
        Program, Files, Data, Stages, Txn, Rollback, Steps, Goto, Migrated, Start, disk,
        memory, running, restoring, recovered_version, load_v2_identity, UpdateInv,
        Sound, JournalInv, AfterCommit, OnTrial, BeforeSnapshot, WithoutJournal,
        TriedSoFar, RestoredSoFar, DataWaits, SnapshotIsSource, Quiet, Stopped, Trial,
        Is, NoneDisplaced, Whole, RunsWhole
  <1>1. ASSUME capture_and_stop PROVE Sound'
    <2>1. service' = "down" \/ overlooked'
      BY <1>1, Zenon DEF capture_and_stop
    <2> QED
      BY <1>1, <2>1 DEF capture_and_stop
  <1>2. ASSUME stage_stopped PROVE Sound'
    BY <1>2 DEF stage_stopped
  <1>3. ASSUME snapshot PROVE Sound'
    BY <1>3 DEF snapshot
  <1>4. ASSUME write_stage("stage_prepared", "prepared", "extract") PROVE Sound'
    BY <1>4 DEF write_stage
  <1>5. ASSUME write_stage("extract", "staging_verified", "replace") PROVE Sound'
    BY <1>5 DEF write_stage
  <1>6. ASSUME NEW n \in Part, displace(n) PROVE Sound'
    BY <1>6 DEF displace
  <1>7. ASSUME NEW n \in Part, install(n) PROVE Sound'
    BY <1>7 DEF install
  <1>8. ASSUME NEW n \in Part, remove_displaced(n) PROVE Sound'
    BY <1>8 DEF remove_displaced, Installed
  <1>9. ASSUME replaced PROVE Sound'
    BY <1>9 DEF replaced, Installed
  <1>10. ASSUME write_root PROVE Sound'
    BY <1>10 DEF write_root
  <1>11. ASSUME write_stage("stage_replaced", "program_replaced", "stage_secured")
        PROVE Sound'
    BY <1>11 DEF write_stage
  <1>12. ASSUME write_stage("stage_secured", "security_verified", "health_start")
        PROVE Sound'
    BY <1>12 DEF write_stage
  <1>13. ASSUME start_for_health PROVE Sound'
    BY <1>13 DEF start_for_health
  <1>14. ASSUME health_probe PROVE Sound'
    BY <1>14 DEF health_probe
  <1>15. ASSUME stop("health_stop", "stage_healthy") PROVE Sound'
    BY <1>15 DEF stop
  <1>16. ASSUME write_stage("stage_healthy", "healthcheck_passed_and_stopped", "commit_info")
        PROVE Sound'
    BY <1>16 DEF write_stage
  <1>17. ASSUME commit_info PROVE Sound'
    BY <1>17 DEF commit_info
  <1>18. ASSUME commit_manifest PROVE Sound'
    BY <1>18 DEF commit_manifest
  <1>19. ASSUME commit_version PROVE Sound'
    BY <1>19 DEF commit_version
  <1>20. ASSUME write_stage("commit_state", "version_committed", "settle") PROVE Sound'
    BY <1>20 DEF write_stage
  <1>21. ASSUME activate("settle", "settle_state") PROVE Sound'
    BY <1>21 DEF activate
  <1>22. ASSUME apply_run_state("settle_state", "stage_settled") PROVE Sound'
    BY <1>22 DEF apply_run_state
  <1>23. ASSUME write_stage("stage_settled", "run_state_restored", "unlink") PROVE Sound'
    BY <1>23 DEF write_stage
  <1>24. ASSUME unlink_state PROVE Sound'
    BY <1>24 DEF unlink_state
  <1>25. ASSUME clean PROVE Sound'
    BY <1>25 DEF clean
  <1> HIDE DEF UpdateInv, Sound, Goto
  <1> QED
    BY <1>1, <1>2, <1>3, <1>4, <1>5, <1>6, <1>7, <1>8, <1>9, <1>10, <1>11, <1>12, <1>13,
       <1>14, <1>15, <1>16, <1>17, <1>18, <1>19, <1>20, <1>21, <1>22, <1>23, <1>24, <1>25 DEF Update

\* The steps of _restore: every journal entry says what is done.
LEMMA RestoreKeepsSound ==
  ASSUME UpdateInv, ~torn, TypeOK', Shape',
         Restore
  PROVE  Sound'
  <1> USE UpdateAssumption
    DEF TypeOK, Shape, CommitReady, Committed, TargetNamed, Replaced, Secured, Renamed,
        Rooted, Restoring, Trying, Finishing, Undoing, Absent, Partial, Version, Part,
        Program, Files, Data, Stages, Txn, Rollback, Steps, Goto, Migrated, Start, disk,
        memory, running, restoring, recovered_version, load_v2_identity, UpdateInv,
        Sound, JournalInv, AfterCommit, OnTrial, BeforeSnapshot, WithoutJournal,
        TriedSoFar, RestoredSoFar, DataWaits, SnapshotIsSource, Quiet, Stopped, Trial,
        Is, NoneDisplaced, Whole, RunsWhole
  <1>1. ASSUME stop("back_stop", "app") PROVE Sound'
    BY <1>1 DEF stop
  <1>2. ASSUME remove_tree("app", "app_copy") PROVE Sound'
    BY <1>2 DEF remove_tree
  <1>3. ASSUME copy_tree("app", "app_copy", "runtime") PROVE Sound'
    BY <1>3 DEF copy_tree
  <1>4. ASSUME remove_tree("runtime", "runtime_copy") PROVE Sound'
    BY <1>4 DEF remove_tree
  <1>5. ASSUME copy_tree("runtime", "runtime_copy", "cleanup") PROVE Sound'
    BY <1>5 DEF copy_tree
  <1>6. ASSUME cleanup_displaced_dirs("cleanup", "root") PROVE Sound'
    BY <1>6 DEF cleanup_displaced_dirs
  <1>7. ASSUME restore_root PROVE Sound'
    BY <1>7 DEF restore_root
  <1>8. ASSUME restore_version PROVE Sound'
    BY <1>8 DEF restore_version
  <1>9. ASSUME restore_manifest PROVE Sound'
    BY <1>9 DEF restore_manifest
  <1>10. ASSUME clear_candidate PROVE Sound'
    BY <1>10 DEF clear_candidate
  <1>11. ASSUME copy_candidate PROVE Sound'
    BY <1>11 DEF copy_candidate
  <1>12. ASSUME move_data_out PROVE Sound'
    BY <1>12 DEF move_data_out
  <1>13. ASSUME move_candidate_in PROVE Sound'
    BY <1>13 DEF move_candidate_in
  <1>14. ASSUME restored_data PROVE Sound'
    BY <1>14 DEF restored_data
  <1>15. ASSUME restore_refused PROVE Sound'
    BY <1>15 DEF restore_refused, Conflict
  <1>16. ASSUME secure PROVE Sound'
    BY <1>16 DEF secure
  <1>17. ASSUME activate("back_restore", "back_state") PROVE Sound'
    BY <1>17 DEF activate
  <1>18. ASSUME apply_run_state("back_state", "unlink") PROVE Sound'
    BY <1>18 DEF apply_run_state
  <1> HIDE DEF UpdateInv, Sound, Goto
  <1> QED
    BY <1>1, <1>2, <1>3, <1>4, <1>5, <1>6, <1>7, <1>8, <1>9, <1>10, <1>11, <1>12, <1>13,
       <1>14, <1>15, <1>16, <1>17, <1>18 DEF Restore

\* The recoveries that restore nothing: every journal entry says what is done.
LEMMA FinishKeepsSound ==
  ASSUME UpdateInv, ~torn, TypeOK', Shape',
         Finish
  PROVE  Sound'
  <1> USE UpdateAssumption
    DEF TypeOK, Shape, CommitReady, Committed, TargetNamed, Replaced, Secured, Renamed,
        Rooted, Restoring, Trying, Finishing, Undoing, Absent, Partial, Version, Part,
        Program, Files, Data, Stages, Txn, Rollback, Steps, Goto, Migrated, Start, disk,
        memory, running, restoring, recovered_version, load_v2_identity, UpdateInv,
        Sound, JournalInv, AfterCommit, OnTrial, BeforeSnapshot, WithoutJournal,
        TriedSoFar, RestoredSoFar, DataWaits, SnapshotIsSource, Quiet, Stopped, Trial,
        Is, NoneDisplaced, Whole, RunsWhole
  <1>1. ASSUME stop_open("undo_stop", "undo_restore") PROVE Sound'
    BY <1>1 DEF stop_open
  <1>2. ASSUME activate("undo_restore", "undo_state") PROVE Sound'
    BY <1>2 DEF activate
  <1>3. ASSUME apply_run_state("undo_state", "unlink") PROVE Sound'
    BY <1>3 DEF apply_run_state
  <1>4. ASSUME stop_open("finish_stop", "finish_restore") PROVE Sound'
    BY <1>4 DEF stop_open
  <1>5. ASSUME activate("finish_restore", "finish_state") PROVE Sound'
    BY <1>5 DEF activate
  <1>6. ASSUME apply_run_state("finish_state", "finish_cleanup") PROVE Sound'
    BY <1>6 DEF apply_run_state
  <1>7. ASSUME cleanup_displaced_dirs("finish_cleanup", "unlink") PROVE Sound'
    BY <1>7 DEF cleanup_displaced_dirs
  <1> HIDE DEF UpdateInv, Sound, Goto
  <1> QED
    BY <1>1, <1>2, <1>3, <1>4, <1>5, <1>6, <1>7 DEF Finish

\* A start, a failed step, an interruption, a recovery that begins, a booking: every journal entry says what is done.
LEMMA OtherKeepsSound ==
  ASSUME UpdateInv, ~torn, TypeOK', Shape',
         (\E entry \in Entries : start_update(entry) \/ recover_existing_transaction(entry))
                 \/ Raise \/ Interrupt \/ book
  PROVE  ~torn' => Sound'
  <1> USE UpdateAssumption
    DEF TypeOK, Shape, CommitReady, Committed, TargetNamed, Replaced, Secured, Renamed,
        Rooted, Restoring, Trying, Finishing, Undoing, Absent, Partial, Version, Part,
        Program, Files, Data, Stages, Txn, Rollback, Steps, Goto, Migrated, Start, disk,
        memory, running, restoring, recovered_version, load_v2_identity, UpdateInv,
        Sound, JournalInv, AfterCommit, OnTrial, BeforeSnapshot, WithoutJournal,
        TriedSoFar, RestoredSoFar, DataWaits, SnapshotIsSource, Quiet, Stopped, Trial,
        Is, NoneDisplaced, Whole, RunsWhole
  <1>1. ASSUME NEW entry \in Entries, start_update(entry) PROVE ~torn' => Sound'
    BY <1>1 DEF start_update, main
  <1>2. ASSUME Raise PROVE ~torn' => Sound'
    BY <1>2
    DEF Raise, PutBack, HalfDone, RollbackStep, Prepared, Committing, Healthchecking,
        Unprepared, Installed
  <1>3. ASSUME Interrupt PROVE ~torn' => Sound'
    <2> HAVE ~torn'
    <2>1. pc \in Midway => recovery_step = "back_stop"
      BY <1>3, Zenon DEF Interrupt
    <2>2. overlooked' \/ (service' = service /\ overlooked' = overlooked) \/ service' = "down"
      <3>1. CASE UNCHANGED <<running, data>>
        BY <3>1
      <3>2. CASE service' \in {"up", "down"} /\ overlooked' = (service' = "up")
        BY <3>2, Zenon
      <3> QED
        BY <1>3, <3>1, <3>2, Zenon DEF Interrupt
    <2>3. \/ data' = data
          \/ data' = Migrated /\ overlooked
      BY <1>3 DEF Interrupt
    <2>4. pc' = "idle" /\ UNCHANGED <<files, program, displaced, txn, rollback>>
      BY <1>3 DEF Interrupt
    <2>5. RunsWhole'
      BY <2>2, <2>3, <2>4
    <2>6. JournalInv'
      <3>1. CASE txn = Absent
        BY <2>3, <2>4, <3>1
      <3>2. CASE txn # Absent /\ txn.stage = "service_stopped_pre_snapshot"
        BY <2>1, <2>3, <2>4, <3>2 DEF Midway, recovery_step
      <3>3. CASE txn # Absent /\ txn.stage \in Trial
        BY <2>1, <2>3, <2>4, <3>3 DEF Midway, recovery_step
      <3>4. CASE Committed
        BY <2>1, <2>3, <2>4, <3>4
      <3> QED
        BY <3>1, <3>2, <3>3, <3>4
    <2> QED
      BY <2>4, <2>5, <2>6
  <1>4. ASSUME NEW entry \in Entries, recover_existing_transaction(entry)
        PROVE ~torn' => Sound'
    BY <1>4 DEF recover_existing_transaction, recovery_step, load_identity_for_recovery
  <1>5. ASSUME book PROVE ~torn' => Sound'
    BY <1>5 DEF book
  <1> HIDE DEF UpdateInv, Sound, Goto
  <1> QED
    BY <1>1, <1>2, <1>3, <1>4, <1>5

-----------------------------------------------------------------------------
(* The theorems *)

LEMMA InitUpdate == Init => UpdateInv
  <1> SUFFICES ASSUME Init PROVE UpdateInv
    OBVIOUS
  <1>1. TypeOK
    <2>1. overlooked \in BOOLEAN /\ torn \in BOOLEAN
      BY Zenon DEF Init
    <2>2. faults \in 0 .. MaxFaults /\ data \in Data
      BY UpdateAssumption DEF Init, Data, Version
    <2> QED
      BY <2>1, <2>2 DEF Init, TypeOK, Version, Part, Program, Files, Steps
  <1>2. Shape
    BY
    DEF Init, Shape, CommitReady, Committed, Undoing, Restoring, Rooted, Renamed,
        Secured,
           Trying, Replaced, Absent
  <1>3. Is("source")
    BY DEF Init, Is, Whole, NoneDisplaced, load_v2_identity, Part, Absent
  <1>4. Sound
    BY <1>1, <1>3
    DEF Init, Sound, RunsWhole, Is, JournalInv, WithoutJournal, Committed, Stopped, Quiet,
        Restoring, Rooted, Renamed, Secured, Trying, Version
  <1> QED
    BY <1>1, <1>2, <1>4 DEF UpdateInv

\* The knowledge that an installation is torn is never lost.
LEMMA TornStays == ASSUME torn, TypeOK, [Next]_vars PROVE torn'
  <1> USE DEF memory, restoring
  <1>1. CASE Work
    BY <1>1
    DEF Work, Update, Restore, Finish, capture_and_stop, stage_stopped, snapshot, write_stage,
        displace, install, remove_displaced, replaced, write_root, start_for_health,
        health_probe, stop, stop_open, commit_info, commit_manifest, commit_version, activate,
        apply_run_state, unlink_state, clean, remove_tree, copy_tree, cleanup_displaced_dirs,
        restore_root, restore_version, restore_manifest, clear_candidate, copy_candidate,
        move_data_out, move_candidate_in, restored_data, restore_refused, secure
  <1>2. CASE Raise \/ book \/ UNCHANGED vars
    BY <1>2 DEF Raise, book, vars
  <1>3. CASE Interrupt
    BY <1>3, Zenon DEF Interrupt
  <1>4. CASE \E entry \in Entries : start_update(entry) \/ recover_existing_transaction(entry)
    BY <1>4 DEF start_update, recover_existing_transaction
  <1> QED
    BY <1>1, <1>2, <1>3, <1>4 DEF Next

LEMMA NextKeepsUpdate == ASSUME UpdateInv, [Next]_vars PROVE UpdateInv'
  <1>1. CASE UNCHANGED vars
    BY <1>1
    DEF vars, UpdateInv, Shape, CommitReady, Sound, JournalInv, WithoutJournal, BeforeSnapshot,
        OnTrial, AfterCommit, TriedSoFar, RestoredSoFar, TargetNamed, DataWaits,
        SnapshotIsSource, Is, NoneDisplaced, Committed, Whole, RunsWhole, recovered_version,
        load_v2_identity, TypeOK
  <1>2. CASE Next
    <2>1. TypeOK' /\ Shape'
      BY <1>2, UpdateKeepsShape, RestoreKeepsShape, FinishKeepsShape, OtherKeepsShape
      DEF Next, Work, UpdateInv
    <2>2. ASSUME ~torn' PROVE Sound'
      <3>1. ~torn
        BY <2>2, TornStays DEF UpdateInv
      <3> QED
        BY <1>2, <2>1, <2>2, <3>1, UpdateKeepsSound, RestoreKeepsSound, FinishKeepsSound,
           OtherKeepsSound DEF Next, Work
    <2> QED
      BY <2>1, <2>2 DEF UpdateInv
  <1> QED
    BY <1>1, <1>2

LEMMA UpdateInvAlways == Spec => []UpdateInv
  <1>1. UpdateInv /\ [Next]_vars => UpdateInv'
    BY NextKeepsUpdate
  <1> QED
    BY <1>1, InitUpdate, PTL DEF Spec

\* Neither a step of run nor one of _restore is possible after the commit, and
\* those that are possible leave files and program alone.
LEMMA CommittedStep ==
  ASSUME UpdateInv, Committed, [Next]_vars
  PROVE  /\ files' = files /\ program' = program
         /\ data' # Absent /\ data'.writes >= data.writes
  <1>1. /\ pc \in Finishing \cup {"idle", "settle", "settle_state", "stage_settled", "unlink"}
        /\ data \in Data /\ program \in Program
        /\ \A n \in Part : program[n] = "target"
        /\ txn.stage # "service_stopped_pre_snapshot" /\ txn # Absent
    BY DEF UpdateInv, Shape, CommitReady, TypeOK, Committed, TargetNamed, recovered_version
  <1>2. Migrated # Absent /\ Migrated.writes = data.writes
    BY <1>1 DEF Migrated, Data, Absent
  <1> USE DEF Finishing, Goto, disk, memory, restoring
  <1>3. CASE Update
    BY <1>1, <1>2, <1>3
    DEF Update, capture_and_stop, stage_stopped, snapshot, write_stage, displace, install,
        remove_displaced, replaced, write_root, start_for_health, health_probe, stop,
        commit_info, commit_manifest, commit_version, activate, apply_run_state, Start,
        unlink_state, clean, Data, Absent
  <1>4. CASE Restore
    BY <1>1, <1>4
    DEF Restore, stop, remove_tree, copy_tree, cleanup_displaced_dirs, restore_root,
        restore_version, restore_manifest, clear_candidate, copy_candidate, move_data_out,
        move_candidate_in, restored_data, restore_refused, secure, activate, apply_run_state
  <1>5. CASE Finish
    <2>1. CASE cleanup_displaced_dirs("finish_cleanup", "unlink")
      BY <1>1, <2>1 DEF cleanup_displaced_dirs, Program, Data, Absent, Part
    <2>2. CASE \/ stop_open("undo_stop", "undo_restore")
               \/ stop_open("finish_stop", "finish_restore")
      BY <1>1, <2>2 DEF stop_open, Data, Absent
    <2>3. CASE \/ activate("undo_restore", "undo_state")
               \/ activate("finish_restore", "finish_state")
      BY <1>1, <1>2, <2>3 DEF activate, Start, Data, Absent
    <2>4. CASE \/ apply_run_state("undo_state", "unlink")
               \/ apply_run_state("finish_state", "finish_cleanup")
      BY <1>1, <2>4 DEF apply_run_state, Data, Absent
    <2> QED
      BY <1>5, <2>1, <2>2, <2>3, <2>4 DEF Finish
  <1>6. CASE Raise \/ \E entry \in Entries : start_update(entry)
                                            \/ recover_existing_transaction(entry)
    BY <1>1, <1>6
    DEF start_update, Raise, recover_existing_transaction, Unprepared, Healthchecking,
        Prepared, Committing, Data, Absent
  <1>7. CASE Interrupt
    BY <1>1, <1>2, <1>7 DEF Interrupt, Data, Absent
  <1>8. CASE book
    BY <1>1, <1>8 DEF book, Data, Absent
  <1>9. CASE UNCHANGED vars
    BY <1>1, <1>9 DEF vars, Data, Absent
  <1> QED
    BY <1>3, <1>4, <1>5, <1>6, <1>7, <1>8, <1>9 DEF Next, Work

\* A service that runs, runs a program of one version on a database that program
\* can read: in the update, on trial, in a roll-back and after any interruption of
\* them (V2UpdateTransaction.run, update_core.py:1548-1697), unless its stop failed
\* unseen or a roll-back was cut short that the journal knew nothing of.
THEOREM RunsAlwaysWhole == Spec => []RunsWhole
  <1>1. UpdateInv => RunsWhole
    BY DEF UpdateInv, Sound, RunsWhole
  <1> QED
    BY <1>1, UpdateInvAlways, PTL

\* When the journal is gone, the installation is of one version in all its parts
\* and records (_finalize_receipt, update_core.py:1293), under the one exception of
\* a roll-back that the journal knew nothing of.
THEOREM AlwaysEndsWhole == Spec => []EndsWhole
  <1>1. UpdateInv => EndsWhole
    BY
    DEF UpdateInv, Sound, JournalInv, WithoutJournal, Is, NoneDisplaced, EndsWhole,
        WholeAtEnd
  <1> QED
    BY <1>1, UpdateInvAlways, PTL

\* From the entry version_committed on, no step of an update, of its recovery or
\* of its handler takes back a file or a booking (update_core.py:1505-1517), torn
\* installations included.
THEOREM CommitAlwaysFinal == Spec => CommitIsFinal
  <1>1. UpdateInv /\ [Next]_vars =>
          (Committed => /\ files' = files /\ program' = program
                        /\ data' # Absent /\ data'.writes >= data.writes)
    BY CommittedStep
  <1> QED
    BY <1>1, UpdateInvAlways, PTL DEF Spec, CommitIsFinal

-----------------------------------------------------------------------------
(* The abstract update *)

view == <<CurrentVersion, OnProbation, Serving, Bookings, Kept>>

\* The steps of run: the trial begins with the snapshot, the commit is the journal's.
LEMMA UpdateUpgrades ==
  ASSUME UpdateInv, ~torn, ~torn',
         Update
  PROVE  [Abstract!Next]_view
  <1> USE UpdateAssumption
    DEF TypeOK, Shape, CommitReady, Committed, TargetNamed, Replaced, Secured, Renamed,
        Rooted, Restoring, Trying, Finishing, Undoing, Absent, Partial, Version, Part,
        Program, Files, Data, Stages, Txn, Rollback, Steps, Goto, Migrated, Start, disk,
        memory, running, restoring, recovered_version, load_v2_identity, UpdateInv,
        Sound, JournalInv, AfterCommit, OnTrial, BeforeSnapshot, WithoutJournal,
        TriedSoFar, RestoredSoFar, DataWaits, SnapshotIsSource, Quiet, Stopped, Trial,
        Is, NoneDisplaced, Whole, RunsWhole, view, CurrentVersion, InRollback, Midway,
        OnProbation, Serving, Bookings, Kept
  <1>1. ASSUME capture_and_stop PROVE Abstract!Stop \/ Abstract!Overlook \/ UNCHANGED view
    BY <1>1 DEF capture_and_stop, Abstract!Stop, Abstract!Overlook
  <1>2. ASSUME stage_stopped PROVE UNCHANGED view
    BY <1>2 DEF stage_stopped
  <1>3. ASSUME snapshot PROVE Abstract!Begin
    BY <1>3 DEF snapshot, Abstract!Begin
  <1>4. ASSUME write_stage("stage_prepared", "prepared", "extract") PROVE UNCHANGED view
    BY <1>4 DEF write_stage
  <1>5. ASSUME \/ write_stage("extract", "staging_verified", "replace")
               \/ write_stage("stage_replaced", "program_replaced", "stage_secured")
               \/ write_stage("stage_secured", "security_verified", "health_start")
               \/ write_stage("stage_healthy", "healthcheck_passed_and_stopped", "commit_info")
         PROVE UNCHANGED view
    BY <1>5 DEF write_stage
  <1>6. ASSUME NEW n \in Part, displace(n) \/ install(n) \/ remove_displaced(n)
         PROVE UNCHANGED view
    BY <1>6 DEF displace, install, remove_displaced
  <1>7. ASSUME replaced \/ write_root \/ health_probe PROVE UNCHANGED view
    BY <1>7 DEF replaced, write_root, health_probe
  <1>8. ASSUME commit_info \/ commit_manifest \/ commit_version PROVE UNCHANGED view
    BY <1>8 DEF commit_info, commit_manifest, commit_version
  <1>9. ASSUME start_for_health PROVE Abstract!Serve("target") \/ UNCHANGED view
    BY <1>9 DEF start_for_health, Abstract!Serve
  <1>10. ASSUME stop("health_stop", "stage_healthy") PROVE Abstract!Stop
    BY <1>10 DEF stop, Abstract!Stop
  <1>11. ASSUME write_stage("commit_state", "version_committed", "settle")
         PROVE Abstract!Commit
    BY <1>11 DEF write_stage, Abstract!Commit
  <1>12. ASSUME activate("settle", "settle_state")
         PROVE Abstract!Serve("target") \/ UNCHANGED view
    BY <1>12 DEF activate, Abstract!Serve
  <1>13. ASSUME apply_run_state("settle_state", "stage_settled")
         PROVE Abstract!Stop \/ UNCHANGED view
    <2>1. service' = "down" \/ (service' = service /\ overlooked' = overlooked)
      <3>1. /\ service' = service \/ service' = "down"
            /\ overlooked' = (overlooked /\ service' = "up")
        BY <1>13, Zenon DEF apply_run_state
      <3>2. CASE service' = "up"
        BY <3>1, <3>2, overlooked \in BOOLEAN, Zenon
      <3> QED
        BY <3>1, <3>2
    <2> QED
      BY <1>13, <2>1 DEF apply_run_state, Abstract!Stop
  <1>14. ASSUME write_stage("stage_settled", "run_state_restored", "unlink")
         PROVE UNCHANGED view
    BY <1>14 DEF write_stage
  <1>15. ASSUME unlink_state PROVE Abstract!Return \/ UNCHANGED view
    BY <1>15 DEF unlink_state, Abstract!Return
  <1>16. ASSUME clean PROVE UNCHANGED view
    BY <1>16 DEF clean
  <1> HIDE DEF UpdateInv, view, Goto
  <1> QED
    BY <1>1, <1>2, <1>3, <1>4, <1>5, <1>6, <1>7, <1>8, <1>9, <1>10, <1>11, <1>12, <1>13,
       <1>14, <1>15, <1>16 DEF Update, Abstract!Next

\* A restore of data belongs to a trial, and its snapshot stays as it is.
LEMMA RestoresTrial ==
  ASSUME UpdateInv, ~torn, pc \in {"candidate", "data"}
  PROVE  /\ rollback \in Rollback /\ rollback.data \in Data /\ data \in Data \cup {Absent}
         /\ service = "down" \/ overlooked
  <1>1. txn # Absent /\ (txn.stage \in Trial \/ txn.stage = "service_stopped_pre_snapshot")
    BY
    DEF UpdateInv, Shape, Undoing, CommitReady, Committed, Finishing, TypeOK, Txn,
        Stages,
           Trial
  <1>2. rollback \in Rollback /\ rollback.data \in Data /\ data \in Data \cup {Absent}
    BY DEF UpdateInv, Shape, TypeOK, Restoring, Rooted, Renamed
  <1>3. service = "down" \/ overlooked
    BY DEF UpdateInv, Sound, Stopped, Restoring, Rooted, Renamed
  <1> QED
    BY <1>1, <1>2, <1>3

LEMMA SnapshotStays ==
  ASSUME UpdateInv, ~torn, \/ clear_candidate \/ copy_candidate \/ move_data_out
                           \/ move_candidate_in \/ restored_data
  PROVE  rollback'.data = rollback.data
  <1>1. rollback \in Rollback
    BY RestoresTrial DEF clear_candidate, copy_candidate, move_data_out, move_candidate_in,
                         restored_data, restoring, Goto
  <1> QED
    BY <1>1
    DEF clear_candidate, copy_candidate, move_data_out, move_candidate_in, restored_data,
        restoring, Rollback

\* A roll-back loses the bookings of the trial in one step, when the present data
\* is put aside; whatever is copied before or after that is invisible.
LEMMA RestoreUpgrades ==
  ASSUME UpdateInv, ~torn, ~torn',
         Restore
  PROVE  [Abstract!Next]_view
  <1> USE UpdateAssumption
    DEF TypeOK, Shape, CommitReady, Committed, TargetNamed, Replaced, Secured, Renamed,
        Rooted, Restoring, Trying, Finishing, Undoing, Absent, Partial, Version, Part,
        Program, Files, Data, Stages, Txn, Rollback, Steps, Goto, Migrated, Start, disk,
        memory, running, restoring, recovered_version, load_v2_identity, UpdateInv,
        Sound, JournalInv, AfterCommit, OnTrial, BeforeSnapshot, WithoutJournal,
        TriedSoFar, RestoredSoFar, DataWaits, SnapshotIsSource, Quiet, Stopped, Trial,
        Is, NoneDisplaced, Whole, RunsWhole, view, CurrentVersion, InRollback, Midway,
        OnProbation, Serving, Bookings, Kept
  <1>1. ASSUME stop("back_stop", "app") PROVE Abstract!Stop
    BY <1>1 DEF stop, Abstract!Stop
  <1>2. ASSUME \/ remove_tree("app", "app_copy") \/ copy_tree("app", "app_copy", "runtime")
               \/ remove_tree("runtime", "runtime_copy")
               \/ copy_tree("runtime", "runtime_copy", "cleanup")
               \/ cleanup_displaced_dirs("cleanup", "root")
         PROVE UNCHANGED view
    BY <1>2 DEF remove_tree, copy_tree, cleanup_displaced_dirs
  <1>3. ASSUME restore_root \/ restore_version \/ restore_manifest PROVE UNCHANGED view
    BY <1>3 DEF restore_root, restore_version, restore_manifest
  <1>4. ASSUME clear_candidate \/ copy_candidate \/ move_candidate_in \/ restored_data
         PROVE UNCHANGED view
    BY ONLY UpdateInv, ~torn, ~torn', <1>4, RestoresTrial, SnapshotStays
    DEF clear_candidate, copy_candidate, move_candidate_in, restored_data, restoring, Goto, running, memory, view, CurrentVersion, InRollback,
        Midway, OnProbation, Bookings, Kept, Serving, recovered_version, Absent, Data
  <1>5. ASSUME move_data_out PROVE Abstract!GiveUp
    BY ONLY UpdateInv, ~torn, ~torn', <1>5, RestoresTrial, SnapshotStays
    DEF move_data_out, Abstract!GiveUp, restoring, Goto, running, memory, view, CurrentVersion, InRollback,
        Midway, OnProbation, Bookings, Kept, Serving, recovered_version, Absent, Data
  <1>6. ASSUME restore_refused PROVE Abstract!Return \/ UNCHANGED view
    BY <1>6 DEF restore_refused, Conflict, Abstract!Return
  <1>7. ASSUME secure PROVE UNCHANGED view
    BY <1>7 DEF secure
  <1>8. ASSUME activate("back_restore", "back_state")
         PROVE Abstract!Serve("source") \/ UNCHANGED view
    BY <1>8 DEF activate, Abstract!Serve
  <1>9. ASSUME apply_run_state("back_state", "unlink")
         PROVE Abstract!Return \/ Abstract!Stop \/ UNCHANGED view
    <2>1. service' = "down" \/ (service' = service /\ overlooked' = overlooked)
      <3>1. /\ service' = service \/ service' = "down"
            /\ overlooked' = (overlooked /\ service' = "up")
        BY <1>9, Zenon DEF apply_run_state
      <3>2. CASE service' = "up"
        BY <3>1, <3>2, overlooked \in BOOLEAN, Zenon
      <3> QED
        BY <3>1, <3>2
    <2> QED
      BY <1>9, <2>1 DEF apply_run_state, Abstract!Return, Abstract!Stop
  <1> HIDE DEF UpdateInv, view, Goto
  <1> QED
    BY <1>1, <1>2, <1>3, <1>4, <1>5, <1>6, <1>7, <1>8, <1>9 DEF Restore, Abstract!Next

\* The recoveries that restore nothing start and stop the version there is.
LEMMA FinishUpgrades ==
  ASSUME UpdateInv, ~torn, ~torn',
         Finish
  PROVE  [Abstract!Next]_view
  <1> USE UpdateAssumption
    DEF TypeOK, Shape, CommitReady, Committed, TargetNamed, Replaced, Secured, Renamed,
        Rooted, Restoring, Trying, Finishing, Undoing, Absent, Partial, Version, Part,
        Program, Files, Data, Stages, Txn, Rollback, Steps, Goto, Migrated, Start, disk,
        memory, running, restoring, recovered_version, load_v2_identity, UpdateInv,
        Sound, JournalInv, AfterCommit, OnTrial, BeforeSnapshot, WithoutJournal,
        TriedSoFar, RestoredSoFar, DataWaits, SnapshotIsSource, Quiet, Stopped, Trial,
        Is, NoneDisplaced, Whole, RunsWhole, view, CurrentVersion, InRollback, Midway,
        OnProbation, Serving, Bookings, Kept
  <1>1. ASSUME \/ stop_open("undo_stop", "undo_restore")
               \/ stop_open("finish_stop", "finish_restore")
         PROVE Abstract!Stop \/ UNCHANGED view
    BY <1>1 DEF stop_open, Abstract!Stop
  <1>2. ASSUME activate("undo_restore", "undo_state")
         PROVE Abstract!Serve("source") \/ UNCHANGED view
    BY <1>2 DEF activate, Abstract!Serve
  <1>3. ASSUME activate("finish_restore", "finish_state")
         PROVE Abstract!Serve("target") \/ UNCHANGED view
    BY <1>3 DEF activate, Abstract!Serve
  <1>4. ASSUME \/ apply_run_state("undo_state", "unlink")
               \/ apply_run_state("finish_state", "finish_cleanup")
         PROVE Abstract!Stop \/ UNCHANGED view
    <2>1. service' = "down" \/ (service' = service /\ overlooked' = overlooked)
      <3>1. /\ service' = service \/ service' = "down"
            /\ overlooked' = (overlooked /\ service' = "up")
        <4>1. CASE apply_run_state("undo_state", "unlink")
          BY <4>1, Zenon DEF apply_run_state
        <4>2. CASE apply_run_state("finish_state", "finish_cleanup")
          BY <4>2, Zenon DEF apply_run_state
        <4> QED
          BY <1>4, <4>1, <4>2
      <3>2. CASE service' = "up"
        BY <3>1, <3>2, overlooked \in BOOLEAN, Zenon
      <3> QED
        BY <3>1, <3>2
    <2> QED
      BY <1>4, <2>1 DEF apply_run_state, Abstract!Stop
  <1>5. ASSUME cleanup_displaced_dirs("finish_cleanup", "unlink") PROVE UNCHANGED view
    BY <1>5 DEF cleanup_displaced_dirs
  <1> HIDE DEF UpdateInv, view, Goto
  <1> QED
    BY <1>1, <1>2, <1>3, <1>4, <1>5 DEF Finish, Abstract!Next

\* A failure, an interruption or the begin of a recovery: the service may stop, a
\* trial end or, with the three records in place, be the new version after all.
LEMMA OtherUpgrades ==
  ASSUME UpdateInv, ~torn, ~torn',
         (\E entry \in Entries : start_update(entry) \/ recover_existing_transaction(entry))
                 \/ Raise \/ Interrupt \/ book
  PROVE  [Abstract!Next]_view
  <1> USE UpdateAssumption
    DEF TypeOK, Shape, CommitReady, Committed, TargetNamed, Replaced, Secured, Renamed,
        Rooted, Restoring, Trying, Finishing, Undoing, Absent, Partial, Version, Part,
        Program, Files, Data, Stages, Txn, Rollback, Steps, Goto, Migrated, Start, disk,
        memory, running, restoring, recovered_version, load_v2_identity, UpdateInv,
        Sound, JournalInv, AfterCommit, OnTrial, BeforeSnapshot, WithoutJournal,
        TriedSoFar, RestoredSoFar, DataWaits, SnapshotIsSource, Quiet, Stopped, Trial,
        Is, NoneDisplaced, Whole, RunsWhole, view, CurrentVersion, InRollback, Midway,
        OnProbation, Serving, Bookings, Kept
  <1>1. ASSUME NEW entry \in Entries, start_update(entry) PROVE UNCHANGED view
    BY <1>1 DEF start_update
  <1>2. ASSUME NEW entry \in Entries, recover_existing_transaction(entry)
        PROVE UNCHANGED view
    BY <1>2 DEF recover_existing_transaction, recovery_step, load_identity_for_recovery
  <1>3. ASSUME Raise PROVE Abstract!Overlook \/ Abstract!Stop \/ UNCHANGED view
    <2>1. /\ pc' \in {"clean", "undo_restore", "back_stop", "app"}
          /\ pc' = "clean" => pc = "capture"
          /\ pc' = "undo_restore" => pc \in Unprepared
          /\ pc' = "back_stop" => pc \in Healthchecking
          /\ pc' = "app" => pc \in Prepared
      BY <1>3
      DEF Raise, RollbackStep, Prepared, Committing, Healthchecking, Unprepared
    <2>2. UNCHANGED <<files, txn, rollback, torn>>
      BY <1>3 DEF Raise
    <2>3. CASE pc = "capture"
      <3>1. service' \in {service, "down"} /\ overlooked' = (overlooked /\ service' = "up")
        BY <1>3, <2>3, Zenon DEF Raise, HalfDone
      <3>2. service' = "down" \/ (service' = service /\ overlooked' = overlooked)
        <4>1. CASE service' = "up"
          BY <3>1, <4>1, overlooked \in BOOLEAN, service \in {"up", "down"}, Zenon
        <4> QED
          BY <3>1, <4>1
      <3>3. data' = data /\ program' = program
        BY <1>3, <2>3 DEF Raise, HalfDone, PutBack
      <3> QED
        BY <1>3, <2>1, <2>2, <2>3, <3>2, <3>3
        DEF Raise, Abstract!Stop, Unprepared, Healthchecking, Prepared, Committing
    <2>4. CASE pc = "health_start"
      <3>1. /\ overlooked' \/ (service' = "down" /\ service = "down")
            /\ overlooked' => service' = "up"
        <4>1. service' \in {service, "up"} /\ overlooked' = (service' = "up")
          BY <1>3, <2>4, Zenon DEF Raise, HalfDone
        <4>2. CASE service' = "up"
          BY <4>1, <4>2, Zenon
        <4>3. CASE service' # "up"
          <5>1. service' = "down" /\ service = "down"
            BY <4>1, <4>3
          <5> QED
            BY ONLY <4>1, <5>1, Zenon
        <4> QED
          BY <4>2, <4>3
      <3>2. data' = data \/ data' = Migrated
        BY <1>3, <2>4 DEF Raise, HalfDone
      <3>3. program' = program
        BY <1>3, <2>4 DEF Raise, PutBack
      <3>4. service' \in {"up", "down"}
        BY <1>3, <2>4 DEF Raise, HalfDone
      <3> QED
        BY <1>3, <2>1, <2>2, <2>4, <3>1, <3>2, <3>3, <3>4
        DEF Raise, Abstract!Overlook, Unprepared, Healthchecking, Prepared, Committing
    <2>5. CASE pc \notin {"capture", "health_start"}
      <3>1. UNCHANGED <<service, overlooked, data>>
        BY <1>3, <2>5 DEF Raise, HalfDone
      <3>2. CASE pc = "replace"
        BY <1>3, <2>1, <2>2, <3>1, <3>2
        DEF Raise, Unprepared, Healthchecking, Prepared, Committing
      <3>3. CASE pc # "replace"
        BY <1>3, <2>1, <2>2, <2>5, <3>1, <3>3
        DEF Raise, PutBack, Unprepared, Healthchecking, Prepared, Committing
      <3> QED
        BY <3>2, <3>3
    <2> QED
      BY <2>3, <2>4, <2>5
  <1>4. ASSUME Interrupt
         PROVE \/ Abstract!Return \/ Abstract!Commit \/ Abstract!Stop
                               \/ UNCHANGED view
    BY <1>4 DEF Interrupt, recovery_step, Abstract!Return, Abstract!Commit,
       Abstract!Stop
  <1>5. ASSUME book PROVE Abstract!Book
    BY <1>5 DEF book, Abstract!Book
  <1> HIDE DEF UpdateInv, view
  <1> QED
    BY <1>1, <1>2, <1>3, <1>4, <1>5 DEF Abstract!Next

\* The two things that tear the promise: the interruption, and every step behind it.
LEMMA TearUpgrades ==
  ASSUME UpdateInv, [Next]_vars, torn \/ torn'
  PROVE  Abstract!Next
  <1>1. CASE torn
    BY <1>1, TornStays DEF UpdateInv, CurrentVersion, Abstract!Next, Abstract!Torn
  <1>2. CASE ~torn /\ torn'
    <2>1. Interrupt
      <3> USE <1>2 DEF memory, restoring
      <3>1. CASE Work
        BY <3>1
        DEF Work, Update, Restore, Finish, capture_and_stop, stage_stopped, snapshot,
            write_stage, displace, install, remove_displaced, replaced, write_root,
            start_for_health, health_probe, stop, stop_open, commit_info, commit_manifest,
            commit_version, activate, apply_run_state, unlink_state, clean, remove_tree,
            copy_tree, cleanup_displaced_dirs, restore_root, restore_version,
            restore_manifest, clear_candidate, copy_candidate, move_data_out,
            move_candidate_in, restored_data, restore_refused, secure
      <3>2. CASE Raise \/ book \/ UNCHANGED vars
        BY <3>2 DEF Raise, book, vars
      <3>3. CASE \E entry \in Entries : start_update(entry) \/ recover_existing_transaction(entry)
        BY <3>3 DEF start_update, recover_existing_transaction
      <3> QED
        BY <3>1, <3>2, <3>3 DEF Next
    <2>2. pc \in Midway
      BY <1>2, <2>1, Zenon DEF Interrupt
    <2> QED
      BY <1>2, <2>2
      DEF CurrentVersion, OnProbation, InRollback, Abstract!Next, Abstract!Tear
  <1> QED
    BY <1>1, <1>2

\* For every number of bookings and of faults, the steps of run, of its handler,
\* of _restore and of _recover_existing_transaction (update_core.py:1119-1232 and
\* 1446-1697) are steps of the abstract update or invisible to its users.
THEOREM UpdateIsUpgrade == Spec => ImplementsUpgrade
  <1>1. Init => Abstract!Init
    BY DEF Init, Abstract!Init, CurrentVersion, InRollback, Midway, recovered_version,
           OnProbation, Serving, Bookings, Kept, Absent, Part
  <1>2. UpdateInv /\ [Next]_vars => [Abstract!Next]_view
    <2> SUFFICES ASSUME UpdateInv, [Next]_vars PROVE [Abstract!Next]_view
      OBVIOUS
    <2>1. CASE UNCHANGED vars
      BY <2>1
      DEF vars, view, CurrentVersion, InRollback, recovered_version, OnProbation, Serving,
          Bookings, Kept
    <2>2. CASE torn \/ torn'
      BY <2>2, TearUpgrades
    <2>3. CASE Next /\ ~torn /\ ~torn'
      BY <2>3, UpdateUpgrades, RestoreUpgrades, FinishUpgrades, OtherUpgrades DEF Next, Work
    <2> QED
      BY <2>1, <2>2, <2>3
  <1> QED
    BY <1>1, <1>2, UpdateInvAlways, PTL
    DEF Spec, ImplementsUpgrade, Abstract!Spec, Abstract!upgradeVars, view
=============================================================================
