--------------------------- MODULE OverlayUpdate ---------------------------
(***************************************************************************)
(* The repair update to version 1.0.2, from 覆盖更新.py.  Whatever program *)
(* it finds is first brought to the frozen version 1.0.1 and then to       *)
(* 1.0.2; the version file is written last.  The customer's data is only   *)
(* read.  The scheduled task that starts the service at boot is switched   *)
(* off meanwhile, and switched on again only when the program is sound.    *)
(*                                                                         *)
(* The state file keeps the stage of the transaction and the setting of    *)
(* the task.  A run that fails undoes what it did; one that is killed is   *)
(* followed by a run that starts from the state file.                      *)
(***************************************************************************)
EXTENDS Naturals, Sequences

CONSTANTS MaxFaults,  \* bound: failed calls, kills, starts by hand, changes of the package
          MaxWrites,  \* bound: reservations made while the service runs
          NoFile      \* no state file, no snapshot

ASSUME OverlayAssumption == MaxFaults \in Nat /\ MaxWrites \in Nat

VARIABLES disk,      \* the managed files, by the release they come from
          runtime,   \* the Python of the installation
          package,   \* the Python of the package is what its manifest says
          data,      \* number of changes to the customer's data
          service,   \* the service runs
          enabled,   \* the scheduled task starts the service at boot
          legacy,    \* what the older updater has left
          record,    \* the state file
          stage,     \* state["stage"] in memory
          snapshot,  \* the transaction's copy of program and data
          left,      \* units still to write
          pc, faults,
          wanted,    \* the setting of the task before any update (history)
          before     \* program and runtime when the run began (history)

installation == <<disk, runtime>>
vars == <<disk, runtime, package, data, service, enabled, legacy, record, stage,
          snapshot, left, pc, faults, wanted, before>>

Baseline == "1.0.1"
Target == "1.0.2"
None == "none"

\* The order in which _write_managed_payload writes; a unit is replaced whole.
Units == <<"launchers", "program", "version", "trees">>
UnitSet == {"launchers", "program", "version", "trees"}
All(release) == [u \in UnitSet |-> release]
Releases == {Baseline, Target, "damaged", None}

\* Stages at which the managed files have been the baseline, or later.
BaselineVerified == {"baseline_verified", "target_applying", "target_verified",
                     "healthcheck_passed", "baseline_rollback_complete"}
Committed == {"target_committed", "complete"}
NEW_STAGES == {"preflight", "stopped", "snapshot_ready", "baseline_applying"}
              \cup BaselineVerified \cup Committed

Running == {"stop", "port", "snapshot", "runtime", "runtime_in", "baseline", "archive",
            "target", "validate", "commit", "committing", "recheck", "finish", "complete",
            "cleanup"}
Recovering == {"recover_baseline", "recover_original", "recover_runtime"}

Disk == [UnitSet -> Releases]
Runtime == {"frozen", "damaged", None}
StateFile == [stage : NEW_STAGES, task : BOOLEAN]
Snapshot == [program : Disk, data : 0 .. MaxWrites, runtime : Runtime]

ASSUME NoFileAssumption == NoFile \notin StateFile /\ NoFile \notin Snapshot

TypeOK ==
    /\ disk \in Disk /\ runtime \in Runtime
    /\ before \in [disk : Disk, runtime : Runtime]
    /\ record \in StateFile \cup {NoFile} /\ snapshot \in Snapshot \cup {NoFile}
    /\ stage \in NEW_STAGES \cup {None} /\ left \in Seq(UnitSet)
    /\ legacy \in {None, "unrecorded", "interrupted", "committed"}
    /\ pc \in {"idle", "recover", "task"} \cup Running \cup Recovering
    /\ data \in 0 .. MaxWrites /\ faults \in 0 .. MaxFaults
    /\ package \in BOOLEAN /\ service \in BOOLEAN
    /\ enabled \in BOOLEAN /\ wanted \in BOOLEAN

\* What was the setting of the task is in the state file of the older updater to
\* 1.0.2, which switches the task off; the one to 1.0.1 leaves it as it is.
Recorded == legacy \in {"interrupted", "committed"}

\* A sound installation, a damaged one, and the mixture an older updater left.
Init ==
    /\ disk \in {All(Baseline), [All(Baseline) EXCEPT !["program"] = "damaged"], All(Target),
                 [All(Baseline) EXCEPT !["version"] = Target],
                 [All(Baseline) EXCEPT !["version"] = "damaged"]}
    /\ runtime \in {"frozen", "damaged"} /\ package = TRUE
    /\ legacy \in {None, "unrecorded", "interrupted", "committed"}
    /\ legacy = "committed" => disk = All(Target)
    /\ legacy = "unrecorded" => disk["version"] # Target
    /\ wanted \in BOOLEAN /\ enabled = (wanted /\ ~Recorded)
    /\ data = 0 /\ service \in BOOLEAN
    /\ record = NoFile /\ stage = None /\ snapshot = NoFile /\ left = <<>>
    /\ pc = "idle" /\ faults = 0
    /\ before = [disk |-> disk, runtime |-> runtime]

-----------------------------------------------------------------------------
(* Helpers *)

Goto(to) == pc' = to
Fault == faults < MaxFaults /\ faults' = faults + 1

\* _read_current_version: no file means 1.0.0, an unreadable one is an error.
Readable == disk["version"] # "damaged"

_assert_installed_payload(release, units) == \A u \in units : disk[u] = release
_assert_installed_runtime == runtime = "frozen"
_assert_real_data_unchanged == data = snapshot.data

\* The target is installed, program and runtime.
TargetInstalled == _assert_installed_payload(Target, UnitSet) /\ _assert_installed_runtime

\* The end of a run, whatever its exit code.
End == Goto("idle") /\ stage' = None /\ left' = <<>>

\* The stage is set in memory before the state file is written: when the
\* writing fails, the recovery takes the new stage for reached.
_set_stage(s, to) ==
    /\ stage' = IF stage = None THEN None ELSE s
    /\ \/ record' = [record EXCEPT !.stage = s] /\ Goto(to) /\ UNCHANGED faults
       \/ Fault /\ Goto("recover") /\ UNCHANGED record

Raise == Goto("recover") /\ UNCHANGED <<stage, record, faults>>

-----------------------------------------------------------------------------
(* How a run begins: main, and the decisions of run *)

\* Bundle.load and _validate_install_root.
_load_payload == package

\* No state file: nothing is open, but the older updater may have left a state.
NothingToDo == record = NoFile /\ legacy = None /\ disk["version"] = Target /\ TargetInstalled
LegacyCommitted == record = NoFile /\ legacy = "committed"

\* A mutant: version file and stage are trusted.
AlreadyCommitted_trusting ==
    /\ record # NoFile
    /\ \/ record.stage \in Committed
       \/ disk["version"] = Target /\ record.stage = "healthcheck_passed"

\* The state file says, or the version file and the stage before it say, that
\* the target was committed.
AlreadyCommitted ==
    /\ record # NoFile
    /\ \/ record.stage \in Committed
       \/ disk["version"] = Target /\ record.stage = "healthcheck_passed"
    /\ TargetInstalled

\* A mutant: only a transaction that has not reached the baseline is.
Resumable_early ==
    /\ record # NoFile /\ record.stage \notin Committed \cup BaselineVerified
    /\ disk["version"] # Target

\* A transaction that is not committed is begun anew, unless the version file
\* leaves it open whether it was.
Resumable ==
    /\ record # NoFile /\ record.stage \notin Committed
    /\ disk["version"] # Target
    /\ record.stage \in BaselineVerified => disk["version"] = Baseline

\* A first run needs a version file it can read, or the older updater's state.
Fresh ==
    /\ record = NoFile /\ ~NothingToDo /\ legacy # "committed"
    /\ Readable \/ legacy # None

\* A mutant: a run that follows a killed one looks at the task again.
TaskState_observed == IF record = NoFile /\ Recorded THEN wanted ELSE enabled

\* The setting of the task: that of the interrupted transaction, of the older
\* updater, or what is found.
TaskState ==
    IF record # NoFile THEN record.task ELSE IF Recorded THEN wanted ELSE enabled

begin ==
    /\ pc = "idle" /\ _load_payload /\ (Fresh \/ Resumable)
    /\ record' = [stage |-> "preflight", task |-> TaskState]
    /\ stage' = "preflight" /\ snapshot' = NoFile /\ before' = [disk |-> disk, runtime |-> runtime]
    /\ Goto("stop")
    /\ UNCHANGED <<installation, package, data, service, enabled, legacy, left, faults, wanted>>

\* Nothing is written any more; the state is held by the file alone.
begin_committed ==
    /\ pc = "idle" /\ _load_payload
    /\ AlreadyCommitted \/ (LegacyCommitted /\ TargetInstalled)
    /\ record' = [stage |-> "target_committed", task |-> TaskState]
    /\ legacy' = None /\ before' = [disk |-> disk, runtime |-> runtime]
    /\ Goto("finish")
    /\ UNCHANGED <<installation, package, data, service, enabled, stage, snapshot, left, faults,
                   wanted>>

-----------------------------------------------------------------------------
(* The steps of a run *)

\* The task is disabled first, then the processes are ended.
stop_and_disable ==
    /\ pc = "stop"
    /\ \/ enabled' = FALSE /\ service' = FALSE /\ Goto("port") /\ UNCHANGED faults
       \/ enabled' = FALSE /\ UNCHANGED service /\ Fault /\ Goto("recover")
    /\ UNCHANGED <<installation, package, data, legacy, record, stage, snapshot, left, wanted,
                   before>>

_port_in_use ==
    /\ pc = "port"
    /\ IF service THEN Raise ELSE _set_stage("stopped", "snapshot")
    /\ UNCHANGED <<installation, package, data, service, enabled, legacy, snapshot, left, wanted,
                   before>>

_snapshot_data ==
    /\ pc = "snapshot"
    /\ snapshot' = [program |-> disk, data |-> data, runtime |-> None]
    /\ _set_stage("snapshot_ready", "runtime")
    /\ UNCHANGED <<installation, package, data, service, enabled, legacy, left, wanted, before>>

\* The package's Python is compared with the manifest again, the installed one
\* is recorded and moved to the snapshot.
_ensure_installed_runtime ==
    /\ pc = "runtime"
    /\ IF runtime = "frozen"
         THEN /\ _set_stage("baseline_applying", "baseline") /\ left' = Units
              /\ UNCHANGED <<runtime, snapshot>>
       ELSE IF ~package THEN Raise /\ UNCHANGED <<runtime, snapshot, left>>
       ELSE /\ snapshot' = [snapshot EXCEPT !.runtime = runtime] /\ runtime' = None
            /\ Goto("runtime_in") /\ UNCHANGED <<stage, record, faults, left>>
    /\ UNCHANGED <<disk, package, data, service, enabled, legacy, wanted, before>>

\* Its failure puts the old one back, and that may fail too.
install_runtime ==
    /\ pc = "runtime_in"
    /\ \/ runtime' = "frozen" /\ _set_stage("baseline_applying", "baseline") /\ left' = Units
       \/ /\ runtime' \in {None, snapshot.runtime} /\ Fault /\ Goto("recover")
          /\ UNCHANGED <<stage, record, left>>
    /\ UNCHANGED <<disk, package, data, service, enabled, legacy, snapshot, wanted, before>>

\* One unit of the payload, by a run that installs or by its recovery.
_write_managed_payload(at, release) ==
    /\ pc = at /\ left # <<>>
    /\ disk' = [disk EXCEPT ![Head(left)] = release] /\ left' = Tail(left)
    /\ UNCHANGED <<runtime, package, data, service, enabled, legacy, record, stage, snapshot, pc,
                   faults, wanted, before>>

_prepare_runtime_and_baseline ==
    /\ pc = "baseline" /\ left = <<>>
    /\ IF _assert_installed_payload(Baseline, UnitSet) /\ _assert_real_data_unchanged
       THEN _set_stage("baseline_verified", "archive") ELSE Raise
    /\ UNCHANGED <<installation, package, data, service, enabled, legacy, snapshot, left, wanted,
                   before>>

\* The version file is kept for the commit.
TargetUnits == <<"launchers", "program", "trees">>

_archive_legacy_residue ==
    /\ pc = "archive"
    /\ legacy' = None
    /\ left' = TargetUnits /\ _set_stage("target_applying", "target")
    /\ UNCHANGED <<installation, package, data, service, enabled, snapshot, wanted, before>>

_apply_and_validate_target ==
    /\ pc = "target" /\ left = <<>>
    /\ IF /\ _assert_installed_payload(Target, UnitSet \ {"version"})
          /\ disk["version"] = Baseline /\ _assert_real_data_unchanged
       THEN _set_stage("target_verified", "validate") ELSE Raise
    /\ UNCHANGED <<installation, package, data, service, enabled, legacy, snapshot, left, wanted,
                   before>>

\* A copy of the data is migrated and served by the target; the real data is compared again.
_validate_target_with_clone ==
    /\ pc = "validate"
    /\ IF _assert_real_data_unchanged
       THEN _set_stage("healthcheck_passed", "commit") ELSE Raise
    /\ UNCHANGED <<installation, package, data, service, enabled, legacy, snapshot, left, wanted,
                   before>>

_commit_target ==
    /\ pc = "commit"
    /\ disk' = [disk EXCEPT !["version"] = Target]
    /\ Goto("committing")
    /\ UNCHANGED <<runtime, package, data, service, enabled, legacy, record, stage, snapshot, left,
                   faults, wanted, before>>

record_commit ==
    /\ pc = "committing"
    /\ _set_stage("target_committed", "recheck")
    /\ UNCHANGED <<installation, package, data, service, enabled, legacy, snapshot, left, wanted,
                   before>>

recheck ==
    /\ pc = "recheck"
    /\ IF _assert_installed_payload(Target, UnitSet) /\ _assert_real_data_unchanged
       THEN Goto("finish") /\ UNCHANGED <<stage, record, faults>> ELSE Raise
    /\ UNCHANGED <<installation, package, data, service, enabled, legacy, snapshot, left, wanted,
                   before>>

\* _retire_old_v102_bats and restore_task_state: the service stays stopped.
_finish_success ==
    /\ pc = "finish"
    /\ enabled' = record.task /\ Goto("complete")
    /\ UNCHANGED <<installation, package, data, service, legacy, record, stage, snapshot, left,
                   faults, wanted, before>>

set_complete ==
    /\ pc = "complete"
    /\ _set_stage("complete", "cleanup")
    /\ UNCHANGED <<installation, package, data, service, enabled, legacy, snapshot, left, wanted,
                   before>>

\* The snapshots are removed, then the state file.
cleanup ==
    /\ pc = "cleanup"
    /\ record' = NoFile /\ snapshot' = NoFile /\ End
    /\ UNCHANGED <<installation, package, data, service, enabled, legacy, faults, wanted, before>>

-----------------------------------------------------------------------------
(* Failure *)

\* Any call of a run raises, or the user presses Ctrl-C.
fail ==
    /\ pc \in Running \ {"runtime_in"} /\ Fault /\ Goto("recover")
    /\ UNCHANGED <<installation, package, data, service, enabled, legacy, record, stage, snapshot,
                   left, wanted, before>>

\* Stages at which nothing was written when there is no snapshot.
Untouched == {"preflight", "stopped"}

\* What the recovery does is decided by the stage in memory: a run that only
\* finishes an earlier one has none, and leaves the task alone.
_recover_after_failure ==
    /\ pc = "recover"
    /\ \/ stage = None /\ End /\ UNCHANGED disk
       \/ /\ stage \in Committed \/ (stage # None /\ snapshot = NoFile)
          /\ IF IF stage \in Committed THEN TargetInstalled ELSE stage \in Untouched
             THEN Goto("task") /\ UNCHANGED <<stage, left>> ELSE End
          /\ UNCHANGED disk
       \/ /\ snapshot # NoFile /\ stage \in BaselineVerified
          /\ Goto("recover_baseline") /\ left' = Units /\ UNCHANGED <<stage, disk>>
       \/ /\ snapshot # NoFile /\ stage \notin BaselineVerified \cup Committed \cup {None}
          /\ disk' = All(None) /\ left' = Units
          /\ Goto("recover_original") /\ UNCHANGED stage
    /\ UNCHANGED <<runtime, package, data, service, enabled, legacy, record, snapshot, faults,
                   wanted, before>>

verify_baseline ==
    /\ pc = "recover_baseline" /\ left = <<>>
    /\ IF _assert_installed_payload(Baseline, UnitSet) /\ _assert_real_data_unchanged
       THEN /\ record' = [record EXCEPT !.stage = "baseline_rollback_complete"]
            /\ Goto("recover_runtime") /\ UNCHANGED <<stage, left>>
       ELSE End /\ UNCHANGED record
    /\ UNCHANGED <<installation, package, data, service, enabled, legacy, snapshot, faults,
                   wanted, before>>

\* The copies of the snapshot, one after the other, and the comparison.
_restore_original_program ==
    /\ pc = "recover_original"
    /\ IF left # <<>>
       THEN /\ disk' = [disk EXCEPT ![Head(left)] = snapshot.program[Head(left)]]
            /\ left' = Tail(left) /\ UNCHANGED <<stage, pc>>
       ELSE /\ UNCHANGED disk
            /\ IF disk = snapshot.program /\ _assert_real_data_unchanged
               THEN Goto("recover_runtime") /\ UNCHANGED <<stage, left>> ELSE End
    /\ UNCHANGED <<runtime, package, data, service, enabled, legacy, record, snapshot, faults,
                   wanted, before>>

\* A mutant: the runtime is not looked at.
RuntimeSafe_always == TRUE

\* The frozen runtime, or the original one that a manifest describes.
RuntimeSafe == runtime = "frozen" \/ (snapshot.runtime # None /\ runtime = snapshot.runtime)

_assert_runtime_recovery_safe ==
    /\ pc = "recover_runtime"
    /\ IF RuntimeSafe THEN Goto("task") /\ UNCHANGED <<stage, left>> ELSE End
    /\ UNCHANGED <<installation, package, data, service, enabled, legacy, record, snapshot, faults,
                   wanted, before>>

\* Only what can be confirmed is recovered; otherwise the task stays disabled.
recovery_fails ==
    /\ pc \in Recovering /\ Fault /\ End
    /\ UNCHANGED <<installation, package, data, service, enabled, legacy, record, snapshot,
                   wanted, before>>

restore_task_state ==
    /\ pc = "task" /\ End
    /\ \/ enabled' = record.task /\ UNCHANGED faults
       \/ Fault /\ UNCHANGED enabled
    /\ UNCHANGED <<installation, package, data, service, legacy, record, snapshot, wanted, before>>

-----------------------------------------------------------------------------
(* The surroundings *)

kill ==
    /\ pc # "idle" /\ Fault /\ End
    /\ UNCHANGED <<installation, package, data, service, enabled, legacy, record, snapshot,
                   wanted, before>>

boot ==
    /\ pc = "idle" /\ enabled /\ service' = TRUE
    /\ UNCHANGED <<installation, package, data, enabled, legacy, record, stage, snapshot, left, pc,
                   faults, wanted, before>>

\* Somebody double-clicks the launcher, also while an update runs.
start_by_hand ==
    /\ Fault /\ service' = TRUE
    /\ UNCHANGED <<installation, package, data, enabled, legacy, record, stage, snapshot, left, pc,
                   wanted, before>>

reserve ==
    /\ service /\ data < MaxWrites /\ data' = data + 1
    /\ UNCHANGED <<installation, package, service, enabled, legacy, record, stage, snapshot, left,
                   pc, faults, wanted, before>>

\* The unpacked package is changed after it was checked, and unpacked again.
damage_package ==
    /\ package /\ Fault /\ package' = FALSE
    /\ UNCHANGED <<installation, data, service, enabled, legacy, record, stage, snapshot, left, pc,
                   wanted, before>>
unpack ==
    /\ ~package /\ package' = TRUE
    /\ UNCHANGED <<installation, data, service, enabled, legacy, record, stage, snapshot, left, pc,
                   faults, wanted, before>>

Install ==
    \/ stop_and_disable \/ _port_in_use \/ _snapshot_data \/ _ensure_installed_runtime
    \/ install_runtime \/ _write_managed_payload("baseline", Baseline)
    \/ _prepare_runtime_and_baseline \/ _archive_legacy_residue
    \/ _write_managed_payload("target", Target) \/ _apply_and_validate_target
    \/ _validate_target_with_clone \/ _commit_target \/ record_commit \/ recheck
    \/ _finish_success \/ set_complete \/ cleanup
Recover ==
    \/ _recover_after_failure \/ _write_managed_payload("recover_baseline", Baseline)
    \/ verify_baseline \/ _restore_original_program \/ _assert_runtime_recovery_safe
    \/ restore_task_state
run == begin \/ begin_committed \/ Install \/ Recover
Surroundings == kill \/ boot \/ start_by_hand \/ reserve \/ damage_package \/ unpack

Next == run \/ fail \/ recovery_fails \/ Surroundings

\* A run goes on until it ends; the customer unpacks and starts the tool again.
Spec == Init /\ [][Next]_vars /\ WF_vars(run) /\ WF_vars(unpack)

-----------------------------------------------------------------------------
(* Properties *)

Whole == \E release \in {Baseline, Target} : disk = All(release)

\* A state file that says committed is believed by every later run: it then
\* describes a complete target, or nothing would ever repair it.
CommittedIsWhole ==
    record # NoFile /\ record.stage \in Committed => TargetInstalled

\* The customer's setting of the task is never forgotten: while the task differs
\* from it, the state file or the older updater's says what it was.
TaskIsRemembered ==
    enabled # wanted => Recorded \/ (record # NoFile /\ record.task = wanted)

\* A run switches the task on only for a complete program or for the very files
\* it has found, with the frozen runtime or the very one it has found.
EnabledIsSafe ==
    [][~enabled /\ enabled' =>
         /\ Whole' \/ disk' = before.disk
         /\ runtime' \in {"frozen", before.runtime}]_vars

\* However often it is killed, the update ends with the task as it was and no
\* transaction open, or at a version file it refuses to judge.
Settles ==
    \/ <>[](record = NoFile /\ (~Recorded => enabled = wanted))
    \/ <>[](record # NoFile /\ record.stage \notin Committed /\ disk["version"] = Target)
=============================================================================
