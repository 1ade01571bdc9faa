--------------------------- MODULE OverlayProofs ---------------------------
(***************************************************************************)
(* A repair update never calls a torn program committed, never forgets the *)
(* setting of the boot task, and switches the task on for a sound program  *)
(* or the one it has found: for any number of faults and of reservations.  *)
(***************************************************************************)
EXTENDS OverlayUpdate, TLAPS

-----------------------------------------------------------------------------
(* The invariant *)

Types ==
    /\ disk \in Disk /\ runtime \in Runtime /\ before \in [disk : Disk, runtime : Runtime]
    /\ record \in StateFile \cup {NoFile} /\ snapshot \in Snapshot \cup {NoFile}
    /\ stage \in NEW_STAGES \cup {None} /\ left \in Seq(UnitSet)
    /\ data \in 0 .. MaxWrites /\ enabled \in BOOLEAN /\ wanted \in BOOLEAN

\* Steps of a run before the stage that commits, and behind it.
Changing == {"stop", "port", "snapshot", "runtime", "runtime_in", "baseline", "archive",
             "target", "validate", "commit", "committing"}
Ending == {"recheck", "finish", "complete", "cleanup"}
Finished == record # NoFile /\ record.stage \in Committed

\* What a run that may still be undone goes back to.
AsFound == disk = before.disk /\ runtime = before.runtime

\* A recovery has the files of a release in place, or those that were found.
Recovered == Whole \/ disk = before.disk

\* What each step of a run has made of the program.
ProgramSoFar ==
    /\ pc \in {"stop", "port", "snapshot", "runtime"} => AsFound
    /\ pc = "runtime_in" => disk = before.disk
    /\ pc \in {"baseline", "archive", "target", "validate", "commit", "committing"} =>
         runtime = "frozen"
    /\ pc \in {"validate", "commit"} => disk = [All(Target) EXCEPT !["version"] = Baseline]
    /\ pc = "committing" => disk = All(Target)

\* The state file is there while a run is on its way; the stage in memory is
\* lost with the process, and a run that only ends an earlier one has none.
StageInv ==
    /\ pc # "idle" => record # NoFile
    /\ pc = "idle" => stage = None
    /\ pc \in Changing \cup Recovering \cup {"task"} => stage # None
    /\ pc \in Changing \cup Recovering => ~Finished
    /\ pc \in Ending => Finished
    /\ Finished => TargetInstalled /\ (stage # None => stage \in Committed)

\* A run that has a stage has the snapshot of what it found, or has not changed it.
SnapshotInv ==
    /\ stage # None /\ snapshot = NoFile => AsFound
    /\ stage # None /\ snapshot # NoFile =>
         snapshot.program = before.disk /\ snapshot.runtime \in {None, before.runtime}
    /\ pc \in {"stop", "port", "snapshot"} => snapshot = NoFile
    /\ pc \in (Changing \ {"stop", "port", "snapshot"}) \cup Recovering => snapshot # NoFile
    /\ pc = "recover_runtime" => Recovered
    /\ pc = "task" => Recovered /\ runtime \in {"frozen", before.runtime}

\* The setting of the task is in the state file, the older updater's, or the task.
TaskInv ==
    /\ record # NoFile => record.task = wanted
    /\ record = NoFile /\ ~Recorded => enabled = wanted
    /\ pc \in {"complete", "cleanup"} => enabled = wanted

(***************************************************************************)
(* A later run believes the state file, a recovery the stage in memory:    *)
(* how the two and the program go together is what CommittedIsWhole needs. *)
(***************************************************************************)
OverlayInv == Types /\ ProgramSoFar /\ StageInv /\ SnapshotInv /\ TaskInv

-----------------------------------------------------------------------------
(* What the helpers do *)

\* A stage that is set is in memory, and in the state file unless it cannot be
\* written.
LEMMA StageIsSet ==
  ASSUME Types, NEW s \in NEW_STAGES, NEW to, record # NoFile, _set_stage(s, to)
  PROVE  /\ record' \in StateFile /\ record' # NoFile /\ record'.task = record.task
         /\ stage' = (IF stage = None THEN None ELSE s) /\ stage' \in NEW_STAGES \cup {None}
         /\ \/ record'.stage = s /\ pc' = to
            \/ record' = record /\ pc' = "recover"
  <1>1. record \in StateFile /\ record' \in StateFile
    BY DEF Types, _set_stage, StateFile
  <1> QED
    BY <1>1, NoFileAssumption DEF Types, _set_stage, StateFile, Goto

LEMMA UnitsTyped == Units \in Seq(UnitSet) /\ TargetUnits \in Seq(UnitSet)
  BY DEF Units, TargetUnits, UnitSet

\* The payload in place, whole or but for the version file.
LEMMA Installed ==
  ASSUME disk \in Disk
  PROVE  /\ _assert_installed_payload(Target, UnitSet) <=> disk = All(Target)
         /\ _assert_installed_payload(Baseline, UnitSet) <=> disk = All(Baseline)
         /\ _assert_installed_payload(Target, UnitSet \ {"version"}) /\ disk["version"] = Baseline
              => disk = [All(Target) EXCEPT !["version"] = Baseline]
         /\ TargetInstalled <=> disk = All(Target) /\ runtime = "frozen"
  BY DEF Disk, _assert_installed_payload, All, UnitSet, TargetInstalled, _assert_installed_runtime

-----------------------------------------------------------------------------
(* What several steps have in common *)

\* A step that sets the stage s, or raises, or only goes on.
Reaches(s, to) ==
    /\ record' \in StateFile /\ record' # NoFile /\ record'.task = record.task
    /\ record'.stage \in {record.stage, s}
    /\ stage' \in {stage, s} /\ (stage = None <=> stage' = None)
    /\ pc' \in {to, "recover"}

LEMMA SetReaches ==
  ASSUME Types, NEW s \in NEW_STAGES, NEW to, record # NoFile, _set_stage(s, to)
  PROVE  Reaches(s, to)
  <1>1. s # None
    BY DEF NEW_STAGES, BaselineVerified, Committed, None
  <1> QED
    BY <1>1, StageIsSet DEF Reaches, Types

LEMMA StaysReaches ==
  ASSUME Types, NEW s, NEW to, record # NoFile, UNCHANGED <<record, stage>>,
         pc' \in {to, "recover"}
  PROVE  Reaches(s, to)
  BY DEF Reaches, Types

\* A step of a run that may still be undone.
LEMMA Onward ==
  ASSUME OverlayInv, pc \in Changing, NEW s \in NEW_STAGES \ Committed,
         NEW to \in Changing \ {"stop"}, Reaches(s, to),
         UNCHANGED <<snapshot, before, wanted>>,
         snapshot = NoFile <=> to \in {"port", "snapshot"},
         snapshot = NoFile => UNCHANGED installation
  PROVE  StageInv' /\ SnapshotInv' /\ TaskInv'
  <1>1. /\ record # NoFile /\ stage # None /\ ~Finished
        /\ pc' \in {to, "recover"} /\ to \notin Ending \cup Recovering \cup {"idle", "task"}
    BY DEF OverlayInv, StageInv, Reaches, Changing, Ending, Recovering
  <1>2. record' # NoFile /\ stage' # None /\ ~Finished' /\ record'.task = record.task
    BY <1>1 DEF Reaches, Finished
  <1>3. StageInv'
    BY <1>1, <1>2 DEF StageInv, Ending, Recovering, Changing
  <1>4. SnapshotInv'
    BY <1>1, <1>2 DEF OverlayInv, SnapshotInv, AsFound, installation, Changing, Recovering
  <1>5. TaskInv'
    BY <1>1, <1>2 DEF OverlayInv, TaskInv, Recorded, Changing
  <1> QED BY <1>3, <1>4, <1>5

\* The end of a run: the state file alone is left.
LEMMA Ended ==
  ASSUME OverlayInv, pc # "idle", End, UNCHANGED <<record, wanted>>,
         Finished => UNCHANGED installation
  PROVE  ProgramSoFar' /\ StageInv' /\ SnapshotInv' /\ TaskInv'
  <1>1. pc' = "idle" /\ stage' = None /\ record' # NoFile /\ (Finished' <=> Finished)
    BY DEF OverlayInv, StageInv, End, Goto, Finished
  <1>2. ProgramSoFar'
    BY <1>1 DEF ProgramSoFar
  <1>3. StageInv'
    BY <1>1
    DEF OverlayInv, StageInv, Changing, Ending, Recovering, TargetInstalled, installation,
        _assert_installed_payload, _assert_installed_runtime
  <1>4. SnapshotInv'
    BY <1>1 DEF SnapshotInv, Changing, Recovering
  <1>5. TaskInv'
    BY <1>1 DEF OverlayInv, TaskInv, Recorded
  <1> QED BY <1>2, <1>3, <1>4, <1>5

-----------------------------------------------------------------------------
(* A run *)

LEMMA PreparingKeeps ==
  ASSUME OverlayInv, stop_and_disable \/ _port_in_use \/ _snapshot_data \/ _ensure_installed_runtime
                     \/ install_runtime
  PROVE  OverlayInv'
  <1> USE DEF Goto, Raise, installation
  <1>1. CASE stop_and_disable
    <2>1. /\ pc = "stop" /\ UNCHANGED <<record, stage>> /\ pc' \in {"port", "recover"}
          /\ enabled' = FALSE
          /\ UNCHANGED <<installation, data, snapshot, left, before, wanted>>
      BY <1>1 DEF stop_and_disable
    <2>2. Types'
      BY <2>1 DEF OverlayInv, Types
    <2>3. Reaches("preflight", "port") /\ snapshot = NoFile
      BY <2>1, StaysReaches DEF OverlayInv, StageInv, SnapshotInv
    <2>4. ProgramSoFar'
      BY <2>1 DEF OverlayInv, ProgramSoFar, AsFound
    <2>5. StageInv' /\ SnapshotInv' /\ TaskInv'
      BY <2>1, <2>3, Onward DEF NEW_STAGES, Committed, Changing
    <2> QED BY <2>2, <2>4, <2>5 DEF OverlayInv
  <1>2. CASE _port_in_use
    <2>1. /\ pc = "port" /\ record # NoFile /\ snapshot = NoFile
          /\ UNCHANGED <<installation, data, enabled, snapshot, left, before, wanted>>
      BY <1>2 DEF _port_in_use, OverlayInv, StageInv, SnapshotInv
    <2>2. Reaches("stopped", "snapshot")
      BY <1>2, <2>1, SetReaches, StaysReaches DEF _port_in_use, OverlayInv, NEW_STAGES
    <2>3. Types'
      BY <2>1, <2>2 DEF OverlayInv, Types, Reaches, NEW_STAGES
    <2>4. ProgramSoFar'
      BY <2>1, <2>2 DEF OverlayInv, ProgramSoFar, AsFound, Reaches
    <2>5. StageInv' /\ SnapshotInv' /\ TaskInv'
      BY <2>1, <2>2, Onward DEF NEW_STAGES, Committed, Changing
    <2> QED BY <2>3, <2>4, <2>5 DEF OverlayInv
  <1>3. CASE _snapshot_data
    <2>1. /\ pc = "snapshot" /\ record # NoFile /\ snapshot = NoFile /\ AsFound
          /\ snapshot' = [program |-> disk, data |-> data, runtime |-> None]
          /\ UNCHANGED <<installation, data, enabled, legacy, left, before, wanted>>
      BY <1>3 DEF _snapshot_data, OverlayInv, StageInv, SnapshotInv, ProgramSoFar
    <2>2. Reaches("snapshot_ready", "runtime")
      BY <1>3, <2>1, SetReaches DEF _snapshot_data, OverlayInv, NEW_STAGES
    <2>3. snapshot' \in Snapshot /\ snapshot' # NoFile
      BY <2>1, NoFileAssumption DEF OverlayInv, Types, Snapshot, Runtime
    <2>4. Types'
      BY <2>1, <2>2, <2>3 DEF OverlayInv, Types, Reaches, NEW_STAGES
    <2>5. ProgramSoFar'
      BY <2>1, <2>2 DEF ProgramSoFar, AsFound, Reaches
    <2>6. /\ pc' \in {"runtime", "recover"} /\ record' # NoFile /\ record'.task = record.task
          /\ stage # None /\ stage' # None /\ ~Finished /\ ~Finished'
      BY <2>1, <2>2 DEF Reaches, OverlayInv, StageInv, Changing, Finished, Committed
    <2>7. StageInv'
      BY <2>6 DEF StageInv, Ending, Recovering
    <2>8. SnapshotInv'
      BY <2>1, <2>3, <2>6 DEF SnapshotInv, AsFound, Recovering
    <2>9. TaskInv'
      BY <2>1, <2>6 DEF OverlayInv, TaskInv, Recorded
    <2> QED BY <2>4, <2>5, <2>7, <2>8, <2>9 DEF OverlayInv
  <1>4. CASE _ensure_installed_runtime
    <2>1. /\ pc = "runtime" /\ record # NoFile /\ snapshot # NoFile /\ AsFound
          /\ UNCHANGED <<disk, data, enabled, before, wanted>>
          /\ left' \in Seq(UnitSet)
      BY <1>4, UnitsTyped
      DEF _ensure_installed_runtime, OverlayInv, StageInv, SnapshotInv, ProgramSoFar, Types,
          Changing
    <2>2. CASE runtime = "frozen" \/ ~package
      <3>1. /\ UNCHANGED <<runtime, snapshot>> /\ Reaches("baseline_applying", "baseline")
            /\ runtime = "frozen" \/ pc' = "recover"
        BY <1>4, <2>1, <2>2, SetReaches, StaysReaches
        DEF _ensure_installed_runtime, OverlayInv, NEW_STAGES
      <3>2. Types'
        BY <2>1, <3>1 DEF OverlayInv, Types, Reaches, NEW_STAGES
      <3>3. ProgramSoFar'
        BY <2>1, <3>1 DEF ProgramSoFar, AsFound, Reaches
      <3>4. StageInv' /\ SnapshotInv' /\ TaskInv'
        BY <2>1, <3>1, Onward DEF NEW_STAGES, Committed, Changing
      <3> QED BY <3>2, <3>3, <3>4 DEF OverlayInv
    <2>3. CASE runtime # "frozen" /\ package
      <3>1. /\ snapshot' = [snapshot EXCEPT !.runtime = runtime] /\ runtime' = None
            /\ pc' = "runtime_in" /\ UNCHANGED <<stage, record, left, legacy>>
        BY <1>4, <2>3 DEF _ensure_installed_runtime
      <3>2. /\ snapshot' \in Snapshot /\ snapshot' # NoFile
            /\ snapshot'.program = snapshot.program /\ snapshot'.runtime = runtime
        BY <2>1, <3>1, NoFileAssumption DEF OverlayInv, Types, Snapshot
      <3>3. Types'
        BY <2>1, <3>1, <3>2 DEF OverlayInv, Types, Runtime
      <3>4. ProgramSoFar'
        BY <2>1, <3>1 DEF ProgramSoFar, AsFound
      <3>5. stage # None /\ ~Finished
        BY <2>1 DEF OverlayInv, StageInv, Changing
      <3>6. StageInv'
        BY <2>1, <3>1, <3>5 DEF StageInv, Finished, Ending, Recovering, Changing
      <3>7. SnapshotInv'
        BY <2>1, <3>1, <3>2, <3>5 DEF OverlayInv, SnapshotInv, AsFound, Recovering, Changing
      <3>8. TaskInv'
        BY <2>1, <3>1 DEF OverlayInv, TaskInv, Recorded
      <3> QED BY <3>3, <3>4, <3>6, <3>7, <3>8 DEF OverlayInv
    <2> QED BY <2>2, <2>3
  <1>5. CASE install_runtime
    <2>1. /\ pc = "runtime_in" /\ record # NoFile /\ snapshot # NoFile
          /\ UNCHANGED <<disk, data, enabled, snapshot, before, wanted>>
          /\ left' \in Seq(UnitSet)
      BY <1>5, UnitsTyped
      DEF install_runtime, OverlayInv, StageInv, SnapshotInv, Types, Changing
    <2>2. /\ Reaches("baseline_applying", "baseline")
          /\ runtime' = "frozen" \/ (runtime' \in {None, snapshot.runtime} /\ pc' = "recover")
      BY <1>5, <2>1, SetReaches, StaysReaches DEF install_runtime, OverlayInv, NEW_STAGES
    <2>3. runtime' \in Runtime
      BY <2>1, <2>2 DEF OverlayInv, Types, Snapshot, Runtime
    <2>4. Types'
      BY <2>1, <2>2, <2>3 DEF OverlayInv, Types, Reaches, NEW_STAGES
    <2>5. ProgramSoFar'
      BY <2>1, <2>2 DEF ProgramSoFar, Reaches
    <2>6. StageInv' /\ SnapshotInv' /\ TaskInv'
      BY <2>1, <2>2, Onward DEF NEW_STAGES, Committed, Changing
    <2> QED BY <2>4, <2>5, <2>6 DEF OverlayInv
  <1> QED BY <1>1, <1>2, <1>3, <1>4, <1>5

\* One unit after the other: what is in place is looked at only when all are.
LEMMA WritingKeeps ==
  ASSUME OverlayInv, NEW at \in {"baseline", "target", "recover_baseline"},
         NEW release \in {Baseline, Target}, _write_managed_payload(at, release)
  PROVE  OverlayInv'
  <1>1. /\ pc = at /\ snapshot # NoFile /\ record # NoFile /\ stage # None /\ ~Finished
        /\ UNCHANGED <<runtime, data, enabled, legacy, record, stage, snapshot, pc, wanted, before>>
        /\ at \in {"baseline", "target"} => runtime = "frozen"
    BY DEF _write_managed_payload, OverlayInv, StageInv, SnapshotInv, ProgramSoFar, Changing,
           Recovering
  <1>2. disk' \in Disk /\ left' \in Seq(UnitSet)
    BY DEF _write_managed_payload, OverlayInv, Types, Disk, Releases
  <1>3. Types'
    BY <1>1, <1>2 DEF OverlayInv, Types
  <1>4. ProgramSoFar'
    BY <1>1 DEF ProgramSoFar
  <1>5. StageInv'
    BY <1>1 DEF StageInv, Finished, Ending
  <1>6. SnapshotInv'
    BY <1>1 DEF OverlayInv, SnapshotInv
  <1>7. TaskInv'
    BY <1>1 DEF OverlayInv, TaskInv, Recorded
  <1> QED BY <1>3, <1>4, <1>5, <1>6, <1>7 DEF OverlayInv

LEMMA InstallingKeeps ==
  ASSUME OverlayInv, _prepare_runtime_and_baseline \/ _archive_legacy_residue
                     \/ _apply_and_validate_target \/ _validate_target_with_clone \/ _commit_target
  PROVE  OverlayInv'
  <1> USE DEF Goto, Raise, installation
  <1> DEFINE Kept == UNCHANGED <<data, enabled, snapshot, before, wanted>>
  <1>1. ASSUME pc \in {"baseline", "archive", "target", "validate", "commit"}, Kept,
               NEW s \in NEW_STAGES \ Committed, NEW to \in {"archive", "target", "validate",
               "commit", "committing"}, Reaches(s, to), left' \in Seq(UnitSet),
               runtime' = runtime, disk' \in Disk, ProgramSoFar'
        PROVE  OverlayInv'
    <2>1. Types'
      BY <1>1 DEF OverlayInv, Types, Reaches
    <2>2. snapshot # NoFile
      BY <1>1 DEF OverlayInv, SnapshotInv, Changing
    <2>3. StageInv' /\ SnapshotInv' /\ TaskInv'
      BY <1>1, <2>2, Onward DEF Changing
    <2> QED BY <1>1, <2>1, <2>3 DEF OverlayInv
  <1>2. /\ disk \in Disk /\ left \in Seq(UnitSet)
        /\ {"baseline_verified", "target_applying", "target_verified", "healthcheck_passed"}
             \subseteq NEW_STAGES \ Committed
    BY DEF OverlayInv, Types, NEW_STAGES, BaselineVerified, Committed
  <1>3. pc \in {"baseline", "archive", "target", "validate", "commit"} =>
          record # NoFile /\ runtime = "frozen" /\ Types
    BY DEF OverlayInv, StageInv, ProgramSoFar
  <1>4. CASE _prepare_runtime_and_baseline
    <2>1. pc = "baseline" /\ Kept /\ UNCHANGED <<left, disk, runtime>>
      BY <1>4 DEF _prepare_runtime_and_baseline
    <2>2. Reaches("baseline_verified", "archive")
      BY <1>2, <1>3, <1>4, <2>1, SetReaches, StaysReaches DEF _prepare_runtime_and_baseline
    <2>3. ProgramSoFar'
      BY <1>3, <2>1, <2>2 DEF ProgramSoFar, Reaches
    <2> QED BY <1>1, <1>2, <2>1, <2>2, <2>3
  <1>5. CASE _archive_legacy_residue
    <2>1. pc = "archive" /\ Kept /\ UNCHANGED <<disk, runtime>> /\ left' \in Seq(UnitSet)
      BY <1>5, UnitsTyped DEF _archive_legacy_residue
    <2>2. Reaches("target_applying", "target")
      BY <1>2, <1>3, <1>5, <2>1, SetReaches DEF _archive_legacy_residue
    <2>3. ProgramSoFar'
      BY <1>3, <2>1, <2>2 DEF ProgramSoFar, Reaches
    <2> QED BY <1>1, <1>2, <2>1, <2>2, <2>3
  <1>6. CASE _apply_and_validate_target
    <2>1. pc = "target" /\ Kept /\ UNCHANGED <<left, disk, runtime>>
      BY <1>6 DEF _apply_and_validate_target
    <2>2. /\ Reaches("target_verified", "validate")
          /\ pc' = "recover" \/ disk = [All(Target) EXCEPT !["version"] = Baseline]
      BY <1>2, <1>3, <1>6, <2>1, SetReaches, StaysReaches, Installed
      DEF _apply_and_validate_target
    <2>3. ProgramSoFar'
      BY <1>3, <2>1, <2>2 DEF ProgramSoFar, Reaches
    <2> QED BY <1>1, <1>2, <2>1, <2>2, <2>3
  <1>7. CASE _validate_target_with_clone
    <2>1. pc = "validate" /\ Kept /\ UNCHANGED <<left, disk, runtime>>
      BY <1>7 DEF _validate_target_with_clone
    <2>2. Reaches("healthcheck_passed", "commit")
      BY <1>2, <1>3, <1>7, <2>1, SetReaches, StaysReaches DEF _validate_target_with_clone
    <2>3. ProgramSoFar'
      BY <1>3, <2>1, <2>2 DEF OverlayInv, ProgramSoFar, Reaches
    <2> QED BY <1>1, <1>2, <2>1, <2>2, <2>3
  <1>8. CASE _commit_target
    <2>1. /\ pc = "commit" /\ Kept /\ UNCHANGED <<left, runtime, record, stage>>
          /\ disk' = [disk EXCEPT !["version"] = Target] /\ pc' = "committing"
      BY <1>8 DEF _commit_target
    <2>2. Reaches("healthcheck_passed", "committing")
      BY <1>2, <1>3, <2>1, StaysReaches
    <2>3. disk' = All(Target) /\ disk' \in Disk
      BY <1>2, <2>1 DEF OverlayInv, ProgramSoFar, All, UnitSet, Disk, Releases
    <2>4. ProgramSoFar'
      BY <1>3, <2>1, <2>3 DEF ProgramSoFar
    <2> QED BY <1>1, <1>2, <2>1, <2>2, <2>3, <2>4
  <1> QED BY <1>4, <1>5, <1>6, <1>7, <1>8

\* The stage that commits, and the end behind it.
LEMMA CommittingKeeps ==
  ASSUME OverlayInv, record_commit \/ recheck \/ _finish_success \/ set_complete \/ cleanup
  PROVE  OverlayInv'
  <1> USE DEF Goto, Raise, installation
  <1>1. /\ pc \in {"committing"} \cup Ending /\ record # NoFile /\ record.task = wanted /\ Types
        /\ TargetInstalled /\ (stage = None => pc \in Ending)
        /\ UNCHANGED <<disk, runtime, data, legacy, before, wanted>>
        /\ left' \in Seq(UnitSet)
    <2>1. pc \in {"committing"} \cup Ending /\ UNCHANGED <<disk, runtime, data, legacy, before, wanted>>
      BY DEF record_commit, recheck, _finish_success, set_complete, cleanup, Ending
    <2>2. Types /\ left' \in Seq(UnitSet)
      <3>1. Types /\ left' \in {left, <<>>}
        BY DEF record_commit, recheck, _finish_success, set_complete, cleanup, End, OverlayInv
      <3>2. left \in Seq(UnitSet) /\ <<>> \in Seq(UnitSet)
        BY <3>1 DEF Types
      <3> QED BY <3>1, <3>2
    <2>3. record # NoFile /\ record.task = wanted /\ (stage = None => pc \in Ending)
      BY <2>1 DEF OverlayInv, StageInv, TaskInv, Recorded, Ending, Changing
    <2>4. TargetInstalled
      BY <2>1, <2>2, Installed DEF OverlayInv, StageInv, ProgramSoFar, Types
    <2> QED BY <2>1, <2>2, <2>3, <2>4
  <1>2. TargetInstalled'
    BY <1>1 DEF TargetInstalled, _assert_installed_payload, _assert_installed_runtime
  <1>3. ASSUME record_commit \/ set_complete PROVE OverlayInv'
    <2>1. PICK s \in Committed :
            /\ record' \in StateFile /\ record' # NoFile /\ record'.task = record.task
            /\ stage' = (IF stage = None THEN None ELSE s)
            /\ \/ record'.stage = s /\ pc' \in {"recheck", "cleanup"}
               \/ record' = record /\ pc' = "recover"
            /\ UNCHANGED <<enabled, snapshot>>
            /\ pc' = "cleanup" => pc = "complete"
      <3>1. {"target_committed", "complete"} \subseteq NEW_STAGES
        BY DEF NEW_STAGES, Committed
      <3> QED BY <1>1, <1>3, <3>1, StageIsSet DEF record_commit, set_complete, Committed
    <2>2. Types'
      BY <1>1, <2>1 DEF Types, NEW_STAGES
    <2>3. ProgramSoFar'
      BY <2>1 DEF ProgramSoFar
    <2>4. StageInv'
      BY <1>2, <2>1 DEF StageInv, Finished, Ending, Changing, Recovering
    <2>5. SnapshotInv'
      <3>1. None \notin Committed
        BY DEF None, Committed
      <3> QED BY <1>1, <2>1, <3>1 DEF OverlayInv, SnapshotInv, AsFound, Changing, Recovering
    <2>6. TaskInv'
      BY <1>1, <2>1 DEF OverlayInv, TaskInv, Recorded
    <2> QED BY <2>2, <2>3, <2>4, <2>5, <2>6 DEF OverlayInv
  <1>4. ASSUME recheck \/ _finish_success PROVE OverlayInv'
    <2>1. /\ pc \in Ending /\ UNCHANGED <<record, stage, snapshot>>
          /\ pc' \in {"finish", "complete", "recover"}
          /\ IF pc' = "complete" THEN enabled' = record.task ELSE enabled' = enabled
      BY <1>4 DEF recheck, _finish_success, Ending
    <2>2. Types'
      BY <1>1, <2>1 DEF Types, StateFile
    <2>3. ProgramSoFar'
      BY <2>1 DEF ProgramSoFar
    <2>4. StageInv'
      BY <1>1, <1>2, <2>1 DEF OverlayInv, StageInv, Finished, Ending, Changing, Recovering
    <2>5. SnapshotInv'
      BY <1>1, <2>1 DEF OverlayInv, SnapshotInv, AsFound, Changing, Recovering
    <2>6. TaskInv'
      BY <1>1, <2>1 DEF TaskInv, Recorded
    <2> QED BY <2>2, <2>3, <2>4, <2>5, <2>6 DEF OverlayInv
  <1>5. ASSUME cleanup PROVE OverlayInv'
    <2>1. /\ enabled = wanted /\ pc' = "idle" /\ stage' = None /\ record' = NoFile
          /\ snapshot' = NoFile /\ enabled' = enabled
      BY <1>5 DEF cleanup, End, OverlayInv, TaskInv, Recorded
    <2>2. Types'
      BY <1>1, <2>1 DEF Types
    <2>3. ProgramSoFar' /\ SnapshotInv'
      BY <2>1 DEF ProgramSoFar, SnapshotInv, Changing, Recovering
    <2>4. StageInv'
      BY <2>1 DEF StageInv, Finished, Ending, Changing, Recovering
    <2>5. TaskInv'
      BY <1>1, <2>1 DEF TaskInv, Recorded
    <2> QED BY <2>2, <2>3, <2>4, <2>5 DEF OverlayInv
  <1> QED BY <1>3, <1>4, <1>5

-----------------------------------------------------------------------------
(* Its failure *)

LEMMA RecoverKeeps ==
  ASSUME OverlayInv,
         _recover_after_failure \/ verify_baseline \/ _restore_original_program
           \/ _assert_runtime_recovery_safe \/ restore_task_state
  PROVE  OverlayInv'
  <1> USE DEF Goto, installation
  <1>1. /\ record # NoFile /\ Types /\ pc \in {"recover", "task"} \cup Recovering
        /\ UNCHANGED <<runtime, data, legacy, snapshot, before, wanted>>
    BY DEF _recover_after_failure, verify_baseline, _restore_original_program,
           _assert_runtime_recovery_safe, restore_task_state, OverlayInv, StageInv, Recovering
  <1>2. ASSUME End, UNCHANGED <<record, disk>>, enabled' \in BOOLEAN PROVE OverlayInv'
    <2>1. Types'
      BY <1>1, <1>2 DEF End, Types
    <2> QED BY <1>1, <1>2, <2>1, Ended DEF OverlayInv, Recovering
  <1>3. enabled \in BOOLEAN /\ disk \in Disk
    BY <1>1 DEF Types
  <1>4. CASE _recover_after_failure
    <2>1. pc = "recover" /\ UNCHANGED <<record, enabled>>
      BY <1>4 DEF _recover_after_failure
    <2>2. CASE End /\ UNCHANGED disk
      BY <1>2, <1>3, <2>1, <2>2
    <2>3. CASE /\ pc' = "task" /\ UNCHANGED <<disk, stage, left>> /\ stage # None
               /\ TargetInstalled \/ (stage \in Untouched /\ snapshot = NoFile)
      <3>1. Types'
        BY <1>1, <2>1, <2>3 DEF Types
      <3>2. Recovered /\ runtime \in {"frozen", before.runtime}
        BY <1>3, <2>3, Installed DEF Recovered, Whole, OverlayInv, SnapshotInv, AsFound
      <3>3. ProgramSoFar'
        BY <2>3 DEF ProgramSoFar
      <3>4. StageInv'
        BY <1>1, <2>1, <2>3
        DEF OverlayInv, StageInv, Finished, TargetInstalled, _assert_installed_payload,
            _assert_installed_runtime, Changing, Ending, Recovering
      <3>5. SnapshotInv'
        BY <1>1, <2>3, <3>2
        DEF OverlayInv, SnapshotInv, AsFound, Recovered, Whole, Changing, Recovering
      <3>6. TaskInv'
        BY <1>1, <2>1, <2>3 DEF OverlayInv, TaskInv, Recorded
      <3> QED BY <3>1, <3>3, <3>4, <3>5, <3>6 DEF OverlayInv
    <2>4. CASE /\ snapshot # NoFile /\ stage \notin Committed \cup {None} /\ UNCHANGED stage
               /\ pc' \in {"recover_baseline", "recover_original"}
               /\ disk' \in {disk, All(None)} /\ left' = Units
      <3>1. Types'
        BY <1>1, <2>1, <2>4, UnitsTyped DEF Types, Disk, All, Releases
      <3>2. ~Finished
        BY <2>4 DEF OverlayInv, StageInv
      <3>3. ProgramSoFar'
        BY <2>4 DEF ProgramSoFar
      <3>4. StageInv'
        BY <1>1, <2>1, <2>4, <3>2 DEF StageInv, Finished, Ending
      <3>5. SnapshotInv'
        BY <1>1, <2>4 DEF OverlayInv, SnapshotInv
      <3>6. TaskInv'
        BY <1>1, <2>1, <2>4 DEF OverlayInv, TaskInv, Recorded
      <3> QED BY <3>1, <3>3, <3>4, <3>5, <3>6 DEF OverlayInv
    <2>5. None \notin Committed \cup BaselineVerified
      BY DEF None, Committed, BaselineVerified
    <2>6. CASE stage = None
      BY <1>4, <2>2, <2>5, <2>6 DEF _recover_after_failure
    <2>7. CASE stage # None /\ (stage \in Committed \/ snapshot = NoFile)
      <3>1. \/ End /\ UNCHANGED disk
            \/ /\ pc' = "task" /\ UNCHANGED <<disk, stage, left>>
               /\ TargetInstalled \/ (stage \in Untouched /\ snapshot = NoFile)
        BY <1>4, <2>7, SMT DEF _recover_after_failure, BaselineVerified, Committed
      <3> QED BY <2>2, <2>3, <2>7, <3>1
    <2>8. CASE stage \notin Committed \cup {None} /\ snapshot # NoFile
      BY <1>4, <2>4, <2>8 DEF _recover_after_failure
    <2> QED BY <2>6, <2>7, <2>8
  <1>5. ASSUME verify_baseline \/ _restore_original_program \/ _assert_runtime_recovery_safe
        PROVE  OverlayInv'
    <2>1. pc \in Recovering /\ snapshot # NoFile /\ stage # None /\ ~Finished /\ UNCHANGED enabled
      BY <1>5
      DEF verify_baseline, _restore_original_program, _assert_runtime_recovery_safe, OverlayInv,
          StageInv, SnapshotInv, Recovering
    <2>2. CASE End /\ UNCHANGED <<record, disk>>
      BY <1>2, <1>3, <2>1, <2>2
    <2>3. ASSUME UNCHANGED stage, disk' \in Disk, left' \in Seq(UnitSet),
                 record' \in StateFile, record'.task = record.task,
                 record'.stage \in {record.stage, "baseline_rollback_complete"},
                 \/ pc' = "recover_original"
                 \/ pc' = "recover_runtime" /\ Recovered'
                 \/ pc' = "task" /\ Recovered' /\ runtime \in {"frozen", before.runtime}
          PROVE  OverlayInv'
      <3>1. record' # NoFile /\ ~Finished'
        BY <1>1, <2>1, <2>3, NoFileAssumption DEF Finished, Committed
      <3>2. Types'
        BY <1>1, <2>1, <2>3 DEF Types
      <3>3. ProgramSoFar'
        BY <2>3 DEF ProgramSoFar
      <3>4. StageInv'
        BY <2>1, <2>3, <3>1 DEF StageInv, Ending
      <3>5. SnapshotInv'
        BY <1>1, <2>1, <2>3 DEF OverlayInv, SnapshotInv, Changing
      <3>6. TaskInv'
        BY <1>1, <2>3, <3>1 DEF OverlayInv, TaskInv, Recorded
      <3> QED BY <3>2, <3>3, <3>4, <3>5, <3>6 DEF OverlayInv
    <2>4. record \in StateFile /\ left \in Seq(UnitSet) /\ snapshot \in Snapshot
      BY <1>1, <2>1 DEF Types
    <2>5. CASE verify_baseline
      <3>1. SUFFICES ASSUME disk = All(Baseline), pc' = "recover_runtime", UNCHANGED <<disk, stage, left>>,
                            record' = [record EXCEPT !.stage = "baseline_rollback_complete"]
                     PROVE  OverlayInv'
        BY <1>3, <2>2, <2>5, Installed DEF verify_baseline
      <3>2. /\ record' \in StateFile /\ record'.task = record.task
            /\ record'.stage = "baseline_rollback_complete"
        BY <2>4, <3>1 DEF StateFile, NEW_STAGES, BaselineVerified
      <3> QED BY <1>3, <2>3, <2>4, <3>1, <3>2 DEF Recovered, Whole
    <2>6. CASE _restore_original_program
      <3>1. CASE left # <<>>
        <4>1. /\ disk' = [disk EXCEPT ![Head(left)] = snapshot.program[Head(left)]]
              /\ left' = Tail(left) /\ UNCHANGED <<stage, record>> /\ pc' = "recover_original"
          BY <2>6, <3>1 DEF _restore_original_program
        <4>2. disk' \in Disk /\ left' \in Seq(UnitSet)
          BY <1>3, <2>4, <3>1, <4>1 DEF Disk, Snapshot
        <4> QED BY <2>3, <2>4, <4>1, <4>2
      <3>2. CASE left = <<>>
        <4>1. SUFFICES ASSUME disk = snapshot.program, pc' = "recover_runtime",
                              UNCHANGED <<disk, stage, left, record>>
                       PROVE  OverlayInv'
          BY <2>2, <2>6, <3>2 DEF _restore_original_program
        <4>2. Recovered'
          BY <1>1, <2>1, <4>1 DEF OverlayInv, SnapshotInv, Recovered
        <4> QED BY <1>3, <2>3, <2>4, <4>1, <4>2
      <3> QED BY <3>1, <3>2
    <2>7. CASE _assert_runtime_recovery_safe
      <3>1. SUFFICES ASSUME RuntimeSafe, pc = "recover_runtime", pc' = "task",
                            UNCHANGED <<disk, stage, left, record>>
                     PROVE  OverlayInv'
        BY <2>2, <2>7 DEF _assert_runtime_recovery_safe
      <3>2. Recovered' /\ runtime \in {"frozen", before.runtime}
        BY <1>1, <2>1, <3>1 DEF OverlayInv, SnapshotInv, Recovered, Whole, RuntimeSafe
      <3> QED BY <1>3, <2>3, <2>4, <3>1, <3>2
    <2> QED BY <1>5, <2>5, <2>6, <2>7
  <1>6. CASE restore_task_state
    <2>1. enabled' \in BOOLEAN /\ End /\ UNCHANGED <<record, disk>>
      BY <1>1, <1>6 DEF restore_task_state, Types, StateFile
    <2> QED BY <1>2, <2>1
  <1> QED BY <1>4, <1>5, <1>6

-----------------------------------------------------------------------------
(* The beginning of a run, and its surroundings *)

LEMMA BeginKeeps ==
  ASSUME OverlayInv, begin \/ begin_committed PROVE OverlayInv'
  <1> USE DEF Goto, installation
  <1>1. /\ pc = "idle" /\ Types /\ stage = None
        /\ UNCHANGED <<installation, data, enabled, left, wanted>>
        /\ before' = [disk |-> disk, runtime |-> runtime]
    BY DEF begin, begin_committed, OverlayInv, StageInv
  <1>2. before' \in [disk : Disk, runtime : Runtime] /\ AsFound'
    BY <1>1 DEF Types, AsFound
  <1>3. ASSUME NEW s \in NEW_STAGES, record' = [stage |-> s, task |-> TaskState],
               record # NoFile \/ Recorded \/ enabled = wanted
        PROVE  record' \in StateFile /\ record' # NoFile /\ record'.stage = s /\ record'.task = wanted
    <2>1. TaskState = wanted /\ wanted \in BOOLEAN
      BY <1>1, <1>3 DEF TaskState, OverlayInv, TaskInv, Recorded, Types
    <2>2. record' \in StateFile
      BY <1>3, <2>1 DEF StateFile
    <2> QED BY <1>3, <2>1, <2>2, NoFileAssumption
  <1>4. record # NoFile \/ Recorded \/ enabled = wanted
    BY DEF OverlayInv, TaskInv, Recorded
  <1>5. CASE begin
    <2>1. /\ record' = [stage |-> "preflight", task |-> TaskState] /\ stage' = "preflight"
          /\ snapshot' = NoFile /\ pc' = "stop" /\ "preflight" \in NEW_STAGES \ Committed
          /\ "preflight" # None
      BY <1>5 DEF begin, NEW_STAGES, Committed, None
    <2>2. /\ record' \in StateFile /\ record' # NoFile /\ record'.stage = "preflight"
          /\ record'.task = wanted
      BY <1>3, <1>4, <2>1
    <2>3. Types'
      BY <1>1, <1>2, <2>1, <2>2 DEF Types
    <2>4. ProgramSoFar'
      BY <1>2, <2>1 DEF ProgramSoFar
    <2>5. StageInv'
      BY <2>1, <2>2 DEF StageInv, Finished, Ending
    <2>6. SnapshotInv'
      BY <1>2, <2>1 DEF SnapshotInv, Changing, Recovering
    <2>7. TaskInv'
      BY <1>1, <2>1, <2>2 DEF TaskInv, Recorded
    <2> QED BY <2>3, <2>4, <2>5, <2>6, <2>7 DEF OverlayInv
  <1>6. CASE begin_committed
    <2>1. /\ record' = [stage |-> "target_committed", task |-> TaskState] /\ UNCHANGED <<stage, snapshot>>
          /\ pc' = "finish" /\ "target_committed" \in NEW_STAGES \cap Committed /\ TargetInstalled
      BY <1>6 DEF begin_committed, AlreadyCommitted, NEW_STAGES, Committed
    <2>2. /\ record' \in StateFile /\ record' # NoFile /\ record'.stage = "target_committed"
          /\ record'.task = wanted
      BY <1>3, <1>4, <2>1
    <2>3. Types'
      BY <1>1, <1>2, <2>1, <2>2 DEF Types
    <2>4. ProgramSoFar'
      BY <2>1 DEF ProgramSoFar
    <2>5. StageInv'
      BY <1>1, <2>1, <2>2
      DEF StageInv, Finished, Ending, Changing, Recovering, TargetInstalled,
          _assert_installed_payload, _assert_installed_runtime
    <2>6. SnapshotInv'
      BY <1>1, <2>1 DEF SnapshotInv, Changing, Recovering
    <2>7. TaskInv'
      BY <1>1, <2>1, <2>2 DEF TaskInv, Recorded
    <2> QED BY <2>3, <2>4, <2>5, <2>6, <2>7 DEF OverlayInv
  <1> QED BY <1>5, <1>6

LEMMA FailureKeeps ==
  ASSUME OverlayInv, fail \/ recovery_fails \/ kill PROVE OverlayInv'
  <1> USE DEF installation
  <1>1. /\ pc # "idle" /\ Types
        /\ UNCHANGED <<installation, data, enabled, legacy, record, snapshot, wanted, before>>
    BY DEF fail, recovery_fails, kill, Running, Recovering, OverlayInv
  <1>2. CASE End
    <2>1. Types'
      BY <1>1, <1>2 DEF End, Types
    <2> QED BY <1>1, <1>2, <2>1, Ended DEF OverlayInv
  <1>3. CASE fail
    <2>1. /\ pc \in Changing \cup Ending /\ pc' = "recover" /\ UNCHANGED <<stage, left>>
      BY <1>3 DEF fail, Goto, Running, Changing, Ending
    <2>2. Types'
      BY <1>1, <2>1 DEF Types
    <2>3. ProgramSoFar'
      BY <2>1 DEF ProgramSoFar
    <2>4. StageInv'
      BY <1>1, <2>1
      DEF OverlayInv, StageInv, Finished, TargetInstalled, _assert_installed_payload,
          _assert_installed_runtime, Changing, Ending, Recovering
    <2>5. SnapshotInv'
      BY <1>1, <2>1 DEF OverlayInv, SnapshotInv, AsFound, Changing, Recovering
    <2>6. TaskInv'
      BY <1>1, <2>1 DEF OverlayInv, TaskInv, Recorded
    <2> QED BY <2>2, <2>3, <2>4, <2>5, <2>6 DEF OverlayInv
  <1> QED BY <1>2, <1>3 DEF recovery_fails, kill

\* What does not touch the program, the state file or the task.
LEMMA SurroundingsKeep ==
  ASSUME OverlayInv, data' \in 0 .. MaxWrites,
         UNCHANGED <<installation, enabled, legacy, record, stage, snapshot, left, pc, wanted, before>>
  PROVE  OverlayInv'
  <1> USE DEF installation
  <1>1. Types'
    BY DEF OverlayInv, Types
  <1>2. ProgramSoFar'
    BY DEF OverlayInv, ProgramSoFar, AsFound
  <1>3. StageInv'
    BY DEF OverlayInv, StageInv, Finished, TargetInstalled, _assert_installed_payload,
           _assert_installed_runtime
  <1>4. SnapshotInv'
    BY DEF OverlayInv, SnapshotInv, AsFound, Recovered, Whole
  <1>5. TaskInv'
    BY DEF OverlayInv, TaskInv, Recorded
  <1> QED BY <1>1, <1>2, <1>3, <1>4, <1>5 DEF OverlayInv

-----------------------------------------------------------------------------
(* The theorems *)

LEMMA InitOverlay == Init => OverlayInv
  <1> SUFFICES ASSUME Init PROVE OverlayInv
    OBVIOUS
  <1>1. disk \in Disk
    BY DEF Init, Disk, All, Releases, UnitSet
  <1>2. Types
    BY <1>1, OverlayAssumption, SMT DEF Init, Types, Runtime
  <1>3. ProgramSoFar /\ StageInv /\ SnapshotInv
    BY DEF Init, ProgramSoFar, StageInv, SnapshotInv, Finished, Changing, Ending, Recovering
  <1>4. TaskInv
    BY DEF Init, TaskInv, Recorded
  <1> QED BY <1>2, <1>3, <1>4 DEF OverlayInv

LEMMA StepOverlay == OverlayInv /\ [Next]_vars => OverlayInv'
  <1> SUFFICES ASSUME OverlayInv, [Next]_vars PROVE OverlayInv'
    OBVIOUS
  <1>1. data \in 0 .. MaxWrites
    BY DEF OverlayInv, Types
  <1>2. CASE Install
    BY <1>2, PreparingKeeps, WritingKeeps, InstallingKeeps, CommittingKeeps DEF Install
  <1>3. CASE Recover
    BY <1>3, WritingKeeps, RecoverKeeps DEF Recover
  <1>4. CASE begin \/ begin_committed
    BY <1>4, BeginKeeps
  <1>5. CASE fail \/ recovery_fails \/ kill
    BY <1>5, FailureKeeps
  <1>6. CASE boot \/ start_by_hand \/ reserve \/ damage_package \/ unpack
    <2>1. /\ data' \in 0 .. MaxWrites
          /\ UNCHANGED <<installation, enabled, legacy, record, stage, snapshot, left, pc, wanted,
                         before>>
      BY <1>1, <1>6, OverlayAssumption
      DEF boot, start_by_hand, reserve, damage_package, unpack, installation
    <2> QED BY <2>1, SurroundingsKeep
  <1>7. CASE UNCHANGED vars
    BY <1>1, <1>7, SurroundingsKeep DEF vars, installation
  <1> QED BY <1>2, <1>3, <1>4, <1>5, <1>6, <1>7 DEF Next, run, Surroundings

\* A state file that says committed lies beside a complete program of the new
\* release, wherever a run and its recovery are killed, and whatever call fails:
\* later runs believe it (RepairUpdater.run and _recover_after_failure, 覆盖更新.py).
THEOREM CommittedAlwaysWhole == Spec => []CommittedIsWhole
  <1>1. OverlayInv => CommittedIsWhole
    BY DEF OverlayInv, StageInv, Finished, CommittedIsWhole
  <1> QED BY <1>1, InitOverlay, StepOverlay, PTL DEF Spec

\* The setting of the boot task is in the task itself, the state file or the older
\* updater's until the update is over (RepairUpdater.run, restore_task_state).
THEOREM TaskAlwaysRemembered == Spec => []TaskIsRemembered
  <1>1. OverlayInv => TaskIsRemembered
    BY DEF OverlayInv, TaskInv, Recorded, TaskIsRemembered
  <1> QED BY <1>1, InitOverlay, StepOverlay, PTL DEF Spec

\* Only the end of a run and its recovery switch the task on.
LEMMA EnablingSteps ==
  ASSUME OverlayInv, [Next]_vars, ~enabled, enabled'
  PROVE  (_finish_success \/ restore_task_state) /\ UNCHANGED <<installation, before>>
  <1>1. _finish_success \/ restore_task_state
    BY DEF Next, vars, run, Install, Recover, Surroundings, begin, begin_committed,
           stop_and_disable, _port_in_use, _snapshot_data, _ensure_installed_runtime,
           install_runtime, _write_managed_payload, _prepare_runtime_and_baseline,
           _archive_legacy_residue, _apply_and_validate_target, _validate_target_with_clone,
           _commit_target, record_commit, recheck, set_complete, cleanup, fail,
           _recover_after_failure, verify_baseline, _restore_original_program,
           _assert_runtime_recovery_safe, recovery_fails, kill, boot, start_by_hand, reserve,
           damage_package, unpack
  <1> QED BY <1>1 DEF _finish_success, restore_task_state, installation

\* The boot task is switched on for a complete program or for the very files that
\* the run has found, with the frozen Python or the one found (_finish_success,
\* _recover_after_failure and _assert_runtime_recovery_safe).
THEOREM EnabledAlwaysSafe == Spec => EnabledIsSafe
  <1>1. ASSUME OverlayInv, [Next]_vars, ~enabled, enabled'
        PROVE  (Whole' \/ disk' = before.disk) /\ runtime' \in {"frozen", before.runtime}
    <2>1. UNCHANGED <<installation, before>> /\ pc \in {"finish", "task"}
      BY <1>1, EnablingSteps DEF _finish_success, restore_task_state
    <2>2. CASE pc = "finish"
      <3>1. TargetInstalled /\ disk \in Disk
        BY <1>1, <2>2 DEF OverlayInv, StageInv, Ending, Types
      <3> QED BY <2>1, <3>1, Installed DEF Whole, installation
    <2>3. CASE pc = "task"
      BY <1>1, <2>1, <2>3 DEF OverlayInv, SnapshotInv, Recovered, Whole, installation
    <2> QED BY <2>1, <2>2, <2>3
  <1>2. OverlayInv /\ [Next]_vars =>
          [~enabled /\ enabled' =>
             /\ Whole' \/ disk' = before.disk
             /\ runtime' \in {"frozen", before.runtime}]_vars
    BY <1>1
  <1> QED BY <1>2, InitOverlay, StepOverlay, PTL DEF Spec, EnabledIsSafe
=============================================================================
