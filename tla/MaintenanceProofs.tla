------------------------- MODULE MaintenanceProofs -------------------------
(***************************************************************************)
(* The maintenance lock excludes, the daily task makes one backup a day,   *)
(* no backup is taken away before it is old, no restore loses bookings and *)
(* no session that was ended is valid again: for any number of tools,      *)
(* requests and restores, however often they are killed.                   *)
(***************************************************************************)
EXTENDS Maintenance, FiniteSetTheorems, WellFoundedInduction, TLAPS

\* Behind write_record: the record of the lock names the worker.
Working == Holding \ {"locking"}

(***************************************************************************)
(* LockExcludes is not inductive: it says nothing of the lock.  A worker   *)
(* at work is named in the record; one that makes the file holds the       *)
(* guard, and the file it has made is still torn.                          *)
(***************************************************************************)
LockInv ==
    /\ pc \in [Worker -> Steps]
    /\ \A w \in Worker : pc[w] \in Working => lock = w
    /\ \A w \in Worker : pc[w] = "locking" => lock = Torn
    /\ \A v, w \in Worker : pc[v] = "locking" /\ pc[w] = "locking" => v = w

\* No worker is called like a state of the lock file.
LEMMA NamesApart == \A w \in Worker : w \notin {Free, Torn, Stale}
  BY MaintenanceAssumption DEF Worker, Free, Torn, Stale

LEMMA LockInvImplies == LockInv => LockExcludes
  BY NamesApart DEF LockInv, LockExcludes, Working

LEMMA InitLock == Init => LockInv
  BY DEF Init, LockInv, Working, Holding, Steps

\* A step of one worker that does not touch the lock, between two steps at work
\* or between two steps outside it.
LEMMA StepKeepsLock ==
  ASSUME LockInv, NEW w \in Worker, NEW to \in Steps, NEW from,
         Goto(w, from, to), UNCHANGED lock, from # "locking", to # "locking",
         from \in Working \/ to \notin Working
  PROVE  LockInv'
  <1>1. pc' \in [Worker -> Steps]
    BY DEF LockInv, Goto
  <1>2. \A v \in Worker : pc'[v] = (IF v = w THEN to ELSE pc[v]) /\ pc[w] = from
    BY DEF LockInv, Goto
  <1> QED
    BY <1>1, <1>2 DEF LockInv

\* Killed workers stop; the record of a killed owner is stale, a torn file stays.
LEMMA KillKeepsLock ==
  ASSUME LockInv, NEW dead \in SUBSET Worker, NEW steps \in [Worker -> Steps],
         Kill(dead, steps),
         \A w \in Worker : steps[w] = pc[w] \/ steps[w] \notin Holding
  PROVE  LockInv'
  <1>1. pc' \in [Worker -> Steps]
    BY DEF LockInv, Kill, Steps
  <1>2. \A w \in Worker : pc'[w] \in Holding => w \notin dead /\ pc'[w] = pc[w]
    <2>1. "idle" \notin Holding
      BY DEF Holding
    <2> QED
      BY <2>1 DEF Kill
  <1>3. "locking" \in Holding
    BY DEF Holding, Steps
  <1>4. ASSUME NEW w \in Worker, pc'[w] \in Working PROVE lock' = w
    <2>1. lock = w /\ w \notin dead
      BY <1>2, <1>4 DEF LockInv, Working
    <2> QED
      BY <2>1 DEF Kill
  <1>5. ASSUME NEW w \in Worker, pc'[w] = "locking" PROVE lock' = Torn
    <2>1. lock = Torn
      BY <1>2, <1>3, <1>5 DEF LockInv
    <2>2. Torn \notin dead
      BY NamesApart
    <2> QED
      BY <2>1, <2>2 DEF Kill
  <1>6. \A v, w \in Worker : pc'[v] = "locking" /\ pc'[w] = "locking" => v = w
    BY <1>2, <1>3 DEF LockInv
  <1> QED
    BY <1>1, <1>4, <1>5, <1>6 DEF LockInv

-----------------------------------------------------------------------------
(* The actions *)

LEMMA AcquireKeepsLock ==
  ASSUME LockInv, NEW w \in Worker, acquire_lock(w) PROVE LockInv'
  <1>1. \A v \in Worker : pc[v] \notin Holding
    <2>1. \A v \in Worker : pc[v] # "locking"
      BY DEF acquire_lock, Guarded
    <2>2. \A v \in Worker : pc[v] \notin Working
      BY NamesApart DEF acquire_lock, reclaimable, LockInv
    <2> QED
      BY <2>1, <2>2 DEF Working
  <1>2. pc' = [pc EXCEPT ![w] = "locking"] /\ lock' = Torn
    BY DEF acquire_lock, Goto
  <1>3. "locking" \in Steps
    BY DEF Steps
  <1>4. pc' \in [Worker -> Steps]
        /\ \A v \in Worker : pc'[v] = (IF v = w THEN "locking" ELSE pc[v])
    BY <1>2, <1>3 DEF LockInv
  <1>5. \A v \in Worker : pc'[v] = "locking" => v = w
    BY <1>1, <1>4 DEF Holding, Steps
  <1>6. \A v \in Worker : pc'[v] \notin Working
    BY <1>1, <1>4 DEF Working
  <1> QED
    BY <1>2, <1>4, <1>5, <1>6 DEF LockInv

LEMMA WriteRecordKeepsLock ==
  ASSUME LockInv, NEW w \in Worker, write_record(w) PROVE LockInv'
  <1>1. pc[w] = "locking" /\ lock' = w
    BY DEF write_record, Goto
  <1>2. lock = Torn /\ \A v \in Worker : pc[v] = "locking" => v = w
    BY <1>1 DEF LockInv
  <1>3. \A v \in Worker : pc[v] \notin Working
    BY <1>2, NamesApart DEF LockInv
  <1>4. PICK to \in {"verify", "recheck"} : pc' = [pc EXCEPT ![w] = to]
    BY DEF write_record, Goto
  <1>5. pc' \in [Worker -> Steps] /\ \A v \in Worker : pc'[v] = (IF v = w THEN to ELSE pc[v])
    BY <1>4 DEF LockInv, Steps
  <1>6. \A v \in Worker : pc'[v] # "locking"
    BY <1>2, <1>5
  <1> QED
    BY <1>1, <1>3, <1>5, <1>6 DEF LockInv

LEMMA ReleaseKeepsLock ==
  ASSUME LockInv, NEW w \in Worker, release_lock(w) PROVE LockInv'
  <1>1. pc[w] = "release" /\ pc' = [pc EXCEPT ![w] = "idle"]
    BY DEF release_lock, Goto
  <1>2. lock = w
    BY <1>1 DEF LockInv, Working, Holding, Steps
  <1>3. \A v \in Worker : pc[v] \in Working => v = w
    BY <1>2 DEF LockInv
  <1>4. pc' \in [Worker -> Steps] /\ \A v \in Worker : pc'[v] = (IF v = w THEN "idle" ELSE pc[v])
    BY <1>1 DEF LockInv, Steps
  <1>5. \A v \in Worker : pc[v] # "locking"
    BY DEF release_lock, Guarded
  <1>6. \A v \in Worker : pc'[v] \notin Working /\ pc'[v] # "locking"
    BY <1>3, <1>4, <1>5 DEF Working, Holding
  <1> QED
    BY <1>4, <1>6 DEF LockInv

LEMMA BackupKeepsLock ==
  ASSUME LockInv, NEW w \in Worker, backup_step(w) PROVE LockInv'
  <1> USE DEF Working, Holding, Steps
  <1>1. CASE recheck_due(w)
    <2>1. CASE Due(mem[w].mode)
      <3>1. Goto(w, "recheck", "reserve") /\ UNCHANGED lock
        BY <1>1, <2>1 DEF recheck_due
      <3> QED
        BY <3>1, StepKeepsLock
    <2>2. CASE ~Due(mem[w].mode)
      <3>1. Goto(w, "recheck", "release") /\ UNCHANGED lock
        BY <1>1, <2>2 DEF recheck_due
      <3> QED
        BY <3>1, StepKeepsLock
    <2> QED
      BY <2>1, <2>2
  <1>2. CASE reserve_backup_sequence(w)
    BY <1>2, StepKeepsLock DEF reserve_backup_sequence
  <1>3. CASE copy_database(w)
    BY <1>3, StepKeepsLock DEF copy_database
  <1>4. CASE copy_refused(w)
    BY <1>4, StepKeepsLock DEF copy_refused
  <1>5. CASE write_sidecar(w)
    BY <1>5, StepKeepsLock DEF write_sidecar
  <1>6. CASE backup_made(w)
    BY <1>6, StepKeepsLock DEF backup_made
  <1>7. CASE discard(w)
    <2>1. PICK from \in {"sidecar", "check"} : Goto(w, from, "discard_sidecar") /\ UNCHANGED lock
      BY <1>7 DEF discard, Goto
    <2> QED
      BY <2>1, StepKeepsLock
  <1>8. CASE discard_sidecar(w)
    BY <1>8, StepKeepsLock DEF discard_sidecar
  <1>9. CASE rotate(w)
    BY <1>9, StepKeepsLock DEF rotate
  <1>10. CASE rotate_sidecar(w)
    BY <1>10, StepKeepsLock DEF rotate_sidecar
  <1>11. CASE rotated(w)
    BY <1>11, StepKeepsLock DEF rotated
  <1> QED
    BY <1>1, <1>2, <1>3, <1>4, <1>5, <1>6, <1>7, <1>8, <1>9, <1>10, <1>11 DEF backup_step

LEMMA RestoreKeepsLock ==
  ASSUME LockInv, NEW w \in Worker, restore_step(w) PROVE LockInv'
  <1> USE DEF Working, Holding, Steps
  <1>1. CASE select(w)
    BY <1>1, StepKeepsLock DEF select
  <1>2. CASE confirm(w)
    BY <1>2, StepKeepsLock DEF confirm
  <1>3. CASE cancel(w)
    <2>1. PICK from \in {"confirm", "stop"} : Goto(w, from, "idle") /\ UNCHANGED lock
      BY <1>3 DEF cancel, Goto
    <2> QED
      BY <2>1, StepKeepsLock
  <1>4. CASE stop_service(w)
    <2> DEFINE steps == [pc EXCEPT ![w] = "lock"]
    <2>1. steps \in [Worker -> Steps]
      BY DEF LockInv
    <2>2. \A v \in Worker : steps[v] = pc[v] \/ steps[v] \notin Holding
      BY DEF LockInv
    <2>3. Kill(Web, steps) /\ Web \in SUBSET Worker
      BY <1>4 DEF stop_service, Worker
    <2> HIDE DEF steps
    <2> QED
      BY <2>1, <2>2, <2>3, KillKeepsLock
  <1>5. CASE pre_restore_snapshot(w)
    BY <1>5, StepKeepsLock DEF pre_restore_snapshot
  <1>6. CASE restore_refused(w)
    BY <1>6, StepKeepsLock DEF restore_refused
  <1>7. CASE replace(w)
    BY <1>7, StepKeepsLock DEF replace
  <1>8. CASE record_restore_audit(w)
    BY <1>8, StepKeepsLock DEF record_restore_audit
  <1>9. CASE restore_raises(w)
    BY <1>9, StepKeepsLock DEF restore_raises
  <1>10. CASE roll_back(w)
    BY <1>10, StepKeepsLock DEF roll_back
  <1> QED
    BY <1>1, <1>2, <1>3, <1>4, <1>5, <1>6, <1>7, <1>8, <1>9, <1>10 DEF restore_step

LEMMA LockStepKeepsLock ==
  ASSUME LockInv, NEW w \in Worker, lock_step(w) PROVE LockInv'
  <1>1. CASE lock_refused(w)
    BY <1>1, StepKeepsLock DEF lock_refused, Working, Holding, Steps
  <1> QED
    BY <1>1, AcquireKeepsLock, WriteRecordKeepsLock, ReleaseKeepsLock DEF lock_step

\* Outside pc and lock nothing bears on the lock.
LEMMA StepOutsideKeepsLock == LockInv /\ UNCHANGED <<pc, lock>> => LockInv'
  BY DEF LockInv

LEMMA NextKeepsLock == LockInv /\ [Next]_vars => LockInv'
  <1> SUFFICES ASSUME LockInv, [Next]_vars PROVE LockInv'
    OBVIOUS
  <1> USE DEF Worker
  <1>1. ASSUME NEW w \in Tool \cup Web, NEW mode, begin(w, mode) PROVE LockInv'
    BY <1>1, StepKeepsLock DEF begin, Working, Holding, Steps
  <1>2. CASE \E w \in Tool, mode \in Modes : start_backup(w, mode)
    BY <1>1, <1>2 DEF start_backup
  <1>3. CASE \E w \in Web : run_backup(w)
    BY <1>1, <1>3 DEF run_backup
  <1>4. CASE \E w \in Tool \cup Web : backup_step(w)
    BY <1>4, BackupKeepsLock
  <1>5. CASE \E w \in Restorer : restore_step(w)
    BY <1>5, RestoreKeepsLock
  <1>6. CASE \E w \in Worker : lock_step(w)
    BY <1>6, LockStepKeepsLock
  <1>7. ASSUME NEW dead \in SUBSET Worker, Kill(dead, pc) PROVE LockInv'
    BY <1>7, KillKeepsLock DEF LockInv
  <1>8. CASE \E w \in Tool \cup Restorer : crash(w)
    <2>1. PICK w \in Tool \cup Restorer : Kill({w}, pc)
      BY <1>8 DEF crash
    <2>2. {w} \in SUBSET Worker
      OBVIOUS
    <2> QED
      BY <1>7, <2>1, <2>2
  <1>9. CASE crash_service \/ \E kind \in Losses : lose_database(kind)
    <2>1. Kill(Web, pc)
      BY <1>9 DEF crash_service, lose_database
    <2>2. Web \in SUBSET Worker
      OBVIOUS
    <2> QED
      BY <1>7, <2>1, <2>2
  <1>10. CASE start_service \/ (\E b \in Endings : write(b)) \/ tick \/ UNCHANGED vars
    BY <1>10, StepOutsideKeepsLock DEF start_service, write, tick, vars
  <1> QED
    BY <1>2, <1>3, <1>4, <1>5, <1>6, <1>8, <1>9, <1>10 DEF Next

\* Backups, requests and restores of any number are never at work two at a time
\* (maintenance_lock, v2app/backup.py:381-433), however they are killed.
THEOREM LockAlwaysExcludes == Spec => []LockExcludes
  <1>1. Spec => []LockInv
    BY InitLock, NextKeepsLock, PTL DEF Spec
  <1> QED
    BY <1>1, LockInvImplies, PTL

-----------------------------------------------------------------------------
(* What is in the files *)

AnyDb == [content : Nat, data_sequence : Nat, backup_sequence : Nat, session_version : Nat]

AnySidecar == [file : AnyDb, source_data_sequence : Nat, created : Nat]

AnyFile == [db : AnyDb \cup {Absent}, sidecar : AnySidecar \cup {Absent}]

FileTypes ==
    /\ db \in AnyDb \cup Lost /\ snapshot \in AnyDb \cup Lost
    /\ backups \in [Number -> AnyFile]
    /\ mem \in [Worker -> [mode : Mode, number : Nat, seen : Nat]]
    /\ service \in {"up", "down"} /\ now \in Nat /\ writes \in Nat

\* Sidecars are dated in the order of their numbers, and not in the future.
SidecarOrder ==
    /\ \A n \in Number : backups[n].sidecar # Absent => backups[n].sidecar.created <= now
    /\ \A m, n \in Number :
         m < n /\ backups[m].sidecar # Absent /\ backups[n].sidecar # Absent =>
             backups[m].sidecar.created <= backups[n].sidecar.created

\* What is restored is restored by a restore, while the service is down.
Roles(w) ==
    /\ pc[w] \in {"recheck", "reserve", "copy", "sidecar", "check", "discard_sidecar", "rotate",
                  "rotate_sidecar"} => w \in Tool \cup Web
    /\ pc[w] \in {"confirm", "stop", "verify", "replace", "invalidate", "roll_back"} =>
         w \in Restorer
    /\ pc[w] \in {"lock", "locking"} => (mem[w].mode = "restore" <=> w \in Restorer)
    /\ mem[w].mode = "restore" => mem[w].number \in Number
    /\ pc[w] \in {"confirm", "stop", "verify"} => mem[w].mode = "restore"
    /\ w \in Restorer /\ pc[w] \notin {"idle", "confirm", "stop"} => service = "down"

\* A backup on its way is the newest, and the only one of its day if it is the
\* daily task's.
BackupInv(w) ==
    /\ pc[w] \in {"copy", "sidecar", "check", "discard_sidecar", "rotate_sidecar"} =>
         mem[w].number \in Number
    /\ pc[w] = "copy" => \A n \in Number : backups[n] # NoFile => n < mem[w].number
    /\ pc[w] = "sidecar" => /\ \A n \in Number : backups[n] # NoFile => n <= mem[w].number
                            /\ backups[mem[w].number].db \in AnyDb
                            /\ backups[mem[w].number].sidecar = Absent
    /\ pc[w] \in {"discard_sidecar", "rotate_sidecar"} => backups[mem[w].number].db = Absent
    /\ pc[w] \in {"reserve", "copy", "sidecar"} /\ mem[w].mode = "scheduled" =>
         \A n \in Restorable : backups[n].sidecar.created \div DayLength < now \div DayLength

\* What a restore is about to take out of the database is in the snapshot, and
\* what it has put there is in the backup.
RestoreInv(w) ==
    /\ pc[w] \in {"replace", "invalidate", "roll_back"} =>
         mem[w].number \in Number /\ Verified(mem[w].number)
    /\ pc[w] = "replace" /\ db \notin Lost => snapshot = db
    /\ pc[w] \in {"invalidate", "roll_back"} /\ db \notin Lost =>
         db.content = backups[mem[w].number].db.content

FileInv ==
    /\ FileTypes /\ LockInv /\ SidecarOrder
    /\ \A w \in Worker : Roles(w) /\ BackupInv(w) /\ RestoreInv(w)

-----------------------------------------------------------------------------
(* Numbers, records and files *)

\* A nonempty set of numbers has a greatest one.
LEMMA MaxIs ==
  ASSUME NEW N \in Nat, NEW S \in SUBSET (0 .. N), S # {}
  PROVE  Max(S) \in S /\ \A y \in S : y <= Max(S)
  <1> DEFINE T == {N - x : x \in S}
  <1>1. T \in SUBSET Nat /\ T # {}
    <2>1. \A x \in S : N - x \in Nat
      OBVIOUS
    <2> QED BY <2>1
  <1> HIDE DEF T
  <1>2. PICK n \in T : \A m \in T : n <= m
    <2>1. PICK x \in T : \A y \in T : ~(<<y, x>> \in OpToRel(<, Nat))
      BY <1>1, WFMin, NatLessThanWellFounded
    <2>2. ASSUME NEW m \in T PROVE x <= m
      <3>1. m \in Nat /\ x \in Nat
        BY <1>1
      <3>2. ~(m < x)
        BY <2>1, <3>1, Zenon DEF OpToRel
      <3> QED BY <3>1, <3>2
    <2> QED BY <2>2
  <1>3. PICK x \in S : n = N - x
    BY <1>2 DEF T
  <1>4. ASSUME NEW y \in S PROVE x >= y
    <2>1. N - y \in T
      BY DEF T
    <2> QED BY <1>2, <1>3, <2>1
  <1>5. Max(S) \in S /\ \A y \in S : Max(S) >= y
    BY <1>4 DEF Max
  <1> QED BY <1>5

LEMMA MaxOfTwo ==
  ASSUME NEW a \in Nat, NEW b \in Nat
  PROVE  Max({a, b}) \in Nat /\ a <= Max({a, b}) /\ b <= Max({a, b})
  <1>1. {a, b} \in SUBSET (0 .. a + b) /\ a + b \in Nat
    OBVIOUS
  <1> QED BY <1>1, MaxIs

LEMMA DivMonotone ==
  ASSUME NEW a \in Nat, NEW b \in Nat, NEW d \in Nat \ {0}, a <= b
  PROVE  a \div d <= b \div d
  OBVIOUS

LEMMA DivInt ==
  ASSUME NEW a \in Nat, NEW d \in Nat \ {0}
  PROVE  a \div d \in Int
  OBVIOUS

LEMMA Apart ==
  /\ Absent \notin AnyDb /\ Absent \notin AnySidecar
  /\ AnyDb \cap Lost = {}
  BY DEF AnyDb, AnySidecar, Absent, Lost, Missing, Corrupt

\* The file or the sidecar of one number is written or removed.
LEMMA DbWritten ==
  ASSUME backups \in [Number -> AnyFile], NEW k \in Number, NEW new \in AnyDb \cup {Absent},
         backups' = [backups EXCEPT ![k].db = new]
  PROVE  /\ backups' \in [Number -> AnyFile]
         /\ \A n \in Number \ {k} : backups'[n] = backups[n]
         /\ backups'[k].db = new /\ backups'[k].sidecar = backups[k].sidecar
  <1> DEFINE f == [backups[k] EXCEPT !.db = new]
  <1>1. f \in AnyFile /\ f.db = new /\ f.sidecar = backups[k].sidecar
    BY DEF AnyFile
  <1>2. backups' = [backups EXCEPT ![k] = f]
    OBVIOUS
  <1> HIDE DEF f
  <1> QED BY <1>1, <1>2

LEMMA SidecarWritten ==
  ASSUME backups \in [Number -> AnyFile], NEW k \in Number,
         NEW new \in AnySidecar \cup {Absent}, backups' = [backups EXCEPT ![k].sidecar = new]
  PROVE  /\ backups' \in [Number -> AnyFile]
         /\ \A n \in Number \ {k} : backups'[n] = backups[n]
         /\ backups'[k].sidecar = new /\ backups'[k].db = backups[k].db
  <1> DEFINE f == [backups[k] EXCEPT !.sidecar = new]
  <1>1. f \in AnyFile /\ f.sidecar = new /\ f.db = backups[k].db
    BY DEF AnyFile
  <1>2. backups' = [backups EXCEPT ![k] = f]
    OBVIOUS
  <1> HIDE DEF f
  <1> QED BY <1>1, <1>2

\* A backup that can be restored has its database and its sidecar.
LEMMA VerifiedIs ==
  ASSUME backups \in [Number -> AnyFile], NEW n \in Number, Verified(n)
  PROVE  /\ backups[n].db \in AnyDb /\ backups[n].sidecar \in AnySidecar
         /\ backups[n].sidecar # Absent /\ backups[n].db # Absent
         /\ backups[n].sidecar.created \in Nat
  <1>1. backups[n].sidecar \in AnySidecar
    BY DEF AnyFile, Verified
  <1>2. backups[n].sidecar.file \in AnyDb /\ backups[n].sidecar.created \in Nat
    BY <1>1 DEF AnySidecar
  <1> QED BY <1>1, <1>2, Apart DEF Verified

\* The number that is reserved is greater than that of any file.
LEMMA NextNumber ==
  ASSUME FileTypes, db \notin Lost
  PROVE  /\ next_number \in Nat \ {0}
         /\ \A n \in Number : backups[n] # NoFile => n < next_number
  <1> DEFINE S == {0} \cup {n \in Number : backups[n] # NoFile}
  <1>1. S \in SUBSET (0 .. MaxNumber) /\ S # {} /\ MaxNumber \in Nat
    BY MaintenanceAssumption DEF Number
  <1>2. filename_sequence_floor \in 0 .. MaxNumber /\ \A n \in S : n <= filename_sequence_floor
    <2>1. Max(S) \in S /\ \A n \in S : n <= Max(S)
      BY <1>1, MaxIs
    <2> QED BY <1>1, <2>1 DEF filename_sequence_floor
  <1>3. db.backup_sequence \in Nat
    BY DEF FileTypes, AnyDb
  <1>4. filename_sequence_floor <= Max({db.backup_sequence, filename_sequence_floor})
        /\ Max({db.backup_sequence, filename_sequence_floor}) \in Nat
    BY <1>2, <1>3, MaxOfTwo
  <1>5. \A n \in Number : n \in Nat
    BY MaintenanceAssumption DEF Number
  <1> QED BY <1>2, <1>4, <1>5 DEF next_number

\* The newest of some backups.
LEMMA NewestIs ==
  ASSUME NEW S \in SUBSET Number, S # {}
  PROVE  Max(S) \in S /\ \A n \in S : n <= Max(S)
  <1>1. S \in SUBSET (0 .. MaxNumber) /\ MaxNumber \in Nat
    BY MaintenanceAssumption DEF Number
  <1> QED BY <1>1, MaxIs

\* What is due has no backup of this day.
LEMMA DueMeans ==
  ASSUME FileTypes, SidecarOrder, Due("scheduled"), NEW n \in Restorable
  PROVE  backups[n].sidecar.created \div DayLength < now \div DayLength
  <1>1. scheduled_backup_due(FALSE)
    BY DEF Due
  <1>2. Restorable \in SUBSET Number /\ Restorable # {}
    BY DEF Restorable
  <1>3. latest \in Restorable /\ n <= latest
    BY <1>2, NewestIs DEF latest
  <1>4. backups[latest].sidecar.created \div DayLength < now \div DayLength
    BY <1>1, <1>2 DEF scheduled_backup_due
  <1>5. /\ n \in Number /\ latest \in Number /\ n \in Int /\ latest \in Int
        /\ backups[n].sidecar # Absent /\ backups[latest].sidecar # Absent
        /\ backups[n].sidecar.created \in Nat /\ backups[latest].sidecar.created \in Nat
    BY <1>3, VerifiedIs, MaintenanceAssumption DEF Restorable, FileTypes, Number
  <1>6. backups[n].sidecar.created <= backups[latest].sidecar.created
    BY <1>3, <1>5 DEF SidecarOrder
  <1>7. backups[n].sidecar.created \div DayLength <= backups[latest].sidecar.created \div DayLength
    BY <1>5, <1>6, DivMonotone, MaintenanceAssumption
  <1>8. /\ now \div DayLength \in Int /\ backups[n].sidecar.created \div DayLength \in Int
        /\ backups[latest].sidecar.created \div DayLength \in Int
    BY <1>5, DivInt, MaintenanceAssumption DEF FileTypes
  <1> QED BY <1>4, <1>7, <1>8

\* While one is at work the others are not, and nothing is known of them.
LEMMA OthersStay ==
  ASSUME FileInv, NEW w \in Worker, pc[w] \in Holding, NEW v \in Worker, v # w,
         pc'[v] = pc[v], mem'[v] = mem[v], service' = service
  PROVE  Roles(v)' /\ BackupInv(v)' /\ RestoreInv(v)'
  <1>1. pc[v] \in Steps /\ pc[v] \notin Holding /\ Roles(v)
    BY LockInvImplies DEF FileInv, LockInv, LockExcludes
  <1> QED BY <1>1 DEF Roles, BackupInv, RestoreInv, Holding, Steps

\* A step of the one at work.
LEMMA WorkKeepsFiles ==
  ASSUME FileInv, LockInv', NEW w \in Worker, pc[w] \in Holding,
         \A v \in Worker \ {w} : pc'[v] = pc[v] /\ mem'[v] = mem[v], service' = service,
         FileTypes', SidecarOrder', Roles(w)', BackupInv(w)', RestoreInv(w)'
  PROVE  FileInv'
  <1>1. ASSUME NEW v \in Worker  PROVE Roles(v)' /\ BackupInv(v)' /\ RestoreInv(v)'
    BY OthersStay
  <1> QED BY <1>1 DEF FileInv

\* A step whose program counter is all it changes of the workers.
LEMMA Went ==
  ASSUME FileInv, NEW w \in Worker, NEW from, NEW to, Goto(w, from, to)
  PROVE  pc[w] = from /\ pc'[w] = to /\ \A v \in Worker \ {w} : pc'[v] = pc[v]
  BY DEF FileInv, LockInv, Goto

\* The steps of a backup that write files.
LEMMA BackupKeepsFiles ==
  ASSUME FileInv, LockInv', NEW w \in Tool \cup Web,
         \/ recheck_due(w) \/ reserve_backup_sequence(w) \/ copy_database(w)
         \/ write_sidecar(w) \/ discard(w) \/ discard_sidecar(w)
         \/ rotate(w) \/ rotate_sidecar(w)
  PROVE  FileInv'
  <1> DEFINE k == mem[w].number
  <1>1. /\ w \in Worker /\ w \notin Restorer /\ FileTypes /\ SidecarOrder /\ Roles(w)
        /\ BackupInv(w) /\ RestoreInv(w) /\ MaxNumber \in Nat
    BY MaintenanceAssumption DEF FileInv, Worker
  <1>2. CASE recheck_due(w)
    <2>1. /\ pc[w] = "recheck" /\ pc'[w] = (IF Due(mem[w].mode) THEN "reserve" ELSE "release")
          /\ \A v \in Worker \ {w} : pc'[v] = pc[v]
          /\ UNCHANGED <<db, backups, snapshot, mem, service, now, writes>>
      BY <1>1, <1>2, Went DEF recheck_due, environment
    <2>2. BackupInv(w)'
      BY <1>1, <2>1, DueMeans DEF BackupInv, Restorable, Verified
    <2>3. Roles(w)' /\ RestoreInv(w)'
      BY <1>1, <2>1 DEF Roles, RestoreInv
    <2>4. FileTypes' /\ SidecarOrder'
      BY <1>1, <2>1 DEF FileTypes, SidecarOrder
    <2> QED BY <1>1, <2>1, <2>2, <2>3, <2>4, WorkKeepsFiles DEF Holding, Steps
  <1>3. CASE reserve_backup_sequence(w)
    <2> DEFINE d == [db EXCEPT !.backup_sequence = next_number]
               m == [mem[w] EXCEPT !.number = next_number, !.seen = db.data_sequence]
    <2>1. /\ pc[w] = "reserve" /\ pc'[w] = "copy" /\ \A v \in Worker \ {w} : pc'[v] = pc[v]
          /\ UNCHANGED <<backups, snapshot, service, now, writes>>
          /\ db \notin Lost /\ db' = d /\ next_number <= MaxNumber
          /\ mem' = [mem EXCEPT ![w].number = next_number, ![w].seen = db.data_sequence]
      BY <1>1, <1>3, Went DEF reserve_backup_sequence, environment
    <2>2. /\ db \in AnyDb /\ db.data_sequence \in Nat /\ next_number \in Number /\ next_number \in Nat
          /\ \A n \in Number : backups[n] # NoFile => n < next_number
          /\ mem[w] \in [mode : Mode, number : Nat, seen : Nat]
      BY <1>1, <2>1, NextNumber DEF FileTypes, AnyDb, Number
    <2>3. d \in AnyDb
      BY <2>2 DEF AnyDb
    <2>4. m \in [mode : Mode, number : Nat, seen : Nat] /\ m.number = next_number
          /\ m.mode = mem[w].mode
      BY <2>2
    <2>5. mem' = [mem EXCEPT ![w] = m]
      BY <1>1, <2>1 DEF FileTypes
    <2> HIDE DEF d, m
    <2>6. mem' \in [Worker -> [mode : Mode, number : Nat, seen : Nat]] /\ mem'[w] = m
          /\ \A v \in Worker \ {w} : mem'[v] = mem[v]
      BY <1>1, <2>4, <2>5 DEF FileTypes
    <2>7. FileTypes' /\ SidecarOrder'
      BY <1>1, <2>1, <2>3, <2>6 DEF FileTypes, SidecarOrder
    <2>8. BackupInv(w)'
      BY <1>1, <2>1, <2>2, <2>4, <2>6 DEF BackupInv, Restorable, Verified
    <2>9. Roles(w)' /\ RestoreInv(w)'
      BY <1>1, <2>1, <2>2, <2>4, <2>6 DEF Roles, RestoreInv
    <2> QED BY <1>1, <2>1, <2>6, <2>7, <2>8, <2>9, WorkKeepsFiles DEF Holding, Steps
  <1>4. ASSUME NEW to \in {"check", "sidecar", "discard_sidecar", "rotate", "rotate_sidecar", "release"},
               pc[w] \in Holding, pc'[w] = to, \A v \in Worker \ {w} : pc'[v] = pc[v],
               UNCHANGED <<db, snapshot, service, now, writes>>,
               mem' \in [Worker -> [mode : Mode, number : Nat, seen : Nat]],
               \A v \in Worker \ {w} : mem'[v] = mem[v],
               mem'[w].mode = "restore" => mem'[w].number \in Number,
               to # "release" => pc[w] \in {"copy", "sidecar", "check", "discard_sidecar",
                                            "rotate", "rotate_sidecar"},
               backups' \in [Number -> AnyFile], SidecarOrder', BackupInv(w)'
        PROVE  FileInv'
    <2>1. FileTypes' /\ Roles(w)' /\ RestoreInv(w)'
      BY <1>1, <1>4 DEF FileTypes, Roles, RestoreInv
    <2> QED BY <1>1, <1>4, <2>1, WorkKeepsFiles
  <1>5. CASE copy_database(w)
    <2>1. /\ pc[w] = "copy" /\ pc'[w] = "sidecar" /\ \A v \in Worker \ {w} : pc'[v] = pc[v]
          /\ UNCHANGED <<db, snapshot, mem, service, now, writes>>
          /\ db \notin Lost /\ backups[k] = NoFile /\ backups' = [backups EXCEPT ![k].db = db]
      BY <1>1, <1>5, Went DEF copy_database, Copied, environment
    <2>2. /\ k \in Number /\ db \in AnyDb /\ backups \in [Number -> AnyFile] /\ Number \subseteq Nat
          /\ \A n \in Number : backups[n] # NoFile => n < k
          /\ mem[w].mode = "restore" => k \in Number
      BY <1>1, <2>1 DEF BackupInv, FileTypes, Number
    <2>3. /\ backups' \in [Number -> AnyFile] /\ \A n \in Number \ {k} : backups'[n] = backups[n]
          /\ backups'[k].db = db /\ backups'[k].sidecar = Absent
      <3>1. backups[k].sidecar = Absent
        BY <2>1 DEF NoFile
      <3> QED BY <2>1, <2>2, <3>1, DbWritten
    <2>4. SidecarOrder'
      BY <1>1, <2>1, <2>2, <2>3 DEF SidecarOrder
    <2>5. \A n \in Restorable' : n \in Restorable /\ backups'[n] = backups[n]
      BY <2>3 DEF Restorable, Verified
    <2>6. BackupInv(w)'
      BY <1>1, <2>1, <2>2, <2>3, <2>5 DEF BackupInv
    <2> QED BY <1>1, <1>4, <2>1, <2>2, <2>3, <2>4, <2>6 DEF Holding, Steps, FileTypes
  <1>6. CASE write_sidecar(w)
    <2> DEFINE s == [file |-> backups[k].db, source_data_sequence |-> mem[w].seen,
                     created |-> now]
    <2>1. /\ pc[w] = "sidecar" /\ pc'[w] = "check" /\ \A v \in Worker \ {w} : pc'[v] = pc[v]
          /\ UNCHANGED <<db, snapshot, mem, service, now, writes>>
          /\ backups' = [backups EXCEPT ![k].sidecar = s]
      BY <1>1, <1>6, Went DEF write_sidecar, environment
    <2>2. /\ k \in Number /\ backups \in [Number -> AnyFile] /\ Number \subseteq Nat
          /\ backups[k].db \in AnyDb /\ now \in Nat /\ mem[w].seen \in Nat
          /\ \A n \in Number : backups[n] # NoFile => n <= k
      BY <1>1, <2>1 DEF BackupInv, FileTypes, Number
    <2>3. s \in AnySidecar /\ s.created = now
      BY <2>2 DEF AnySidecar
    <2> HIDE DEF s
    <2>4. /\ backups' \in [Number -> AnyFile] /\ \A n \in Number \ {k} : backups'[n] = backups[n]
          /\ backups'[k].sidecar = s
      BY <2>1, <2>2, <2>3, SidecarWritten
    <2>5. SidecarOrder'
      <3>1. \A n \in Number : backups[n].sidecar # Absent =>
              n <= k /\ backups[n].sidecar.created <= now
        BY <1>1, <2>2 DEF SidecarOrder, NoFile
      <3>2. \A n \in Number : backups'[n].sidecar # Absent => backups'[n].sidecar.created <= now
        BY <2>2, <2>3, <2>4, <3>1
      <3>3. ASSUME NEW m \in Number, NEW n \in Number, m < n, backups'[m].sidecar # Absent,
                   backups'[n].sidecar # Absent
            PROVE  backups'[m].sidecar.created <= backups'[n].sidecar.created
        <4>1. CASE n = k
          BY <2>3, <2>4, <3>2, <3>3, <4>1
        <4>2. CASE m = k
          BY <2>2, <2>4, <3>1, <3>3, <4>2
        <4>3. CASE m # k /\ n # k
          BY <1>1, <2>4, <3>3, <4>3 DEF SidecarOrder
        <4> QED BY <4>1, <4>2, <4>3
      <3> QED BY <2>1, <3>2, <3>3 DEF SidecarOrder
    <2>6. BackupInv(w)'
      BY <2>1, <2>2 DEF BackupInv
    <2> QED BY <1>1, <1>4, <2>1, <2>2, <2>4, <2>5, <2>6 DEF Holding, Steps, FileTypes
  <1>7. CASE discard(w) \/ rotate(w)
    <2>1. PICK j \in Number, to \in {"discard_sidecar", "rotate_sidecar"} :
            /\ pc[w] \in {"sidecar", "check", "rotate"} /\ pc' = [pc EXCEPT ![w] = to]
            /\ UNCHANGED <<db, snapshot, service, now, writes>>
            /\ mem' = [mem EXCEPT ![w].number = j]
            /\ backups' = [backups EXCEPT ![j].db = Absent]
      <3>1. CASE discard(w)
        <4>1. mem = [mem EXCEPT ![w].number = k]
          BY <1>1 DEF FileTypes
        <4>2. k \in Number
          BY <1>1, <3>1 DEF discard, BackupInv
        <4> QED BY <3>1, <4>1, <4>2 DEF discard, environment
      <3>2. CASE rotate(w)
        <4>1. Old \in SUBSET Number
          BY DEF Old, Restorable
        <4>2. Max(Old) \in Number
          BY <3>2, <4>1, NewestIs DEF rotate
        <4> QED BY <3>2, <4>2 DEF rotate, Goto, environment
      <3> QED BY <1>7, <3>1, <3>2
    <2> DEFINE m == [mem[w] EXCEPT !.number = j]
    <2>2. /\ m \in [mode : Mode, number : Nat, seen : Nat] /\ m.number = j
          /\ mem' = [mem EXCEPT ![w] = m]
      <3>1. j \in Nat /\ mem[w] \in [mode : Mode, number : Nat, seen : Nat]
        BY <1>1, <2>1 DEF FileTypes, Number
      <3> QED BY <1>1, <2>1, <3>1 DEF FileTypes
    <2> HIDE DEF m
    <2>3. /\ mem' \in [Worker -> [mode : Mode, number : Nat, seen : Nat]] /\ mem'[w] = m
          /\ \A v \in Worker \ {w} : mem'[v] = mem[v]
      BY <1>1, <2>2 DEF FileTypes
    <2>4. /\ backups \in [Number -> AnyFile] /\ backups' \in [Number -> AnyFile]
          /\ \A n \in Number \ {j} : backups'[n] = backups[n]
          /\ backups'[j].db = Absent /\ backups'[j].sidecar = backups[j].sidecar
      BY <1>1, <2>1, DbWritten DEF FileTypes
    <2>5. SidecarOrder'
      BY <1>1, <2>1, <2>4 DEF SidecarOrder
    <2>6. pc'[w] = to /\ \A v \in Worker \ {w} : pc'[v] = pc[v]
      BY <1>1, <2>1 DEF FileInv, LockInv
    <2>7. BackupInv(w)'
      BY <2>1, <2>2, <2>3, <2>4, <2>6 DEF BackupInv
    <2> QED BY <1>1, <1>4, <2>1, <2>2, <2>3, <2>4, <2>5, <2>6, <2>7 DEF Holding, Steps
  <1>8. CASE discard_sidecar(w) \/ rotate_sidecar(w)
    <2>1. PICK to \in {"release", "rotate"} :
            /\ pc[w] \in {"discard_sidecar", "rotate_sidecar"} /\ pc' = [pc EXCEPT ![w] = to]
            /\ UNCHANGED <<db, snapshot, service, now, writes, mem>>
            /\ backups' = [backups EXCEPT ![k].sidecar = Absent]
      BY <1>8 DEF discard_sidecar, rotate_sidecar, Goto, environment
    <2>2. /\ backups \in [Number -> AnyFile] /\ backups' \in [Number -> AnyFile] /\ k \in Number
          /\ \A n \in Number \ {k} : backups'[n] = backups[n]
          /\ backups'[k].sidecar = Absent
      BY <1>1, <2>1, SidecarWritten DEF FileTypes, BackupInv
    <2>3. SidecarOrder'
      BY <1>1, <2>1, <2>2 DEF SidecarOrder
    <2>4. pc'[w] = to /\ \A v \in Worker \ {w} : pc'[v] = pc[v]
      BY <1>1, <2>1 DEF FileInv, LockInv
    <2>5. BackupInv(w)'
      BY <2>1, <2>4 DEF BackupInv
    <2> QED BY <1>1, <1>4, <2>1, <2>2, <2>3, <2>4, <2>5 DEF Holding, Steps, FileTypes
  <1> QED BY <1>2, <1>3, <1>5, <1>6, <1>7, <1>8

\* The steps of a restore that write the database or the snapshot.
LEMMA RestoreKeepsFiles ==
  ASSUME FileInv, LockInv', NEW w \in Restorer,
         \/ pre_restore_snapshot(w) \/ restore_refused(w) \/ replace(w)
         \/ record_restore_audit(w) \/ roll_back(w)
  PROVE  FileInv'
  <1> DEFINE k == mem[w].number
  <1>1. /\ w \in Worker /\ FileTypes /\ SidecarOrder /\ Roles(w) /\ RestoreInv(w)
        /\ w \notin Tool \cup Web
    BY MaintenanceAssumption DEF FileInv, Worker
  <1>2. ASSUME NEW from \in Holding, NEW to \in {"replace", "invalidate", "release"},
               pc[w] = from, pc'[w] = to, \A v \in Worker \ {w} : pc'[v] = pc[v],
               UNCHANGED <<backups, now, writes>>, service' = service,
               from \in {"verify", "replace", "invalidate", "roll_back"},
               \A v \in Worker \ {w} : mem'[v] = mem[v], mem'[w].number = mem[w].number,
               mem'[w].mode = mem[w].mode, FileTypes', RestoreInv(w)'
        PROVE  FileInv'
    <2>1. Roles(w)' /\ BackupInv(w)' /\ SidecarOrder'
      BY <1>1, <1>2 DEF Roles, BackupInv, SidecarOrder
    <2> QED BY <1>1, <1>2, <2>1, WorkKeepsFiles
  <1>3. CASE pre_restore_snapshot(w)
    <2> DEFINE m == [mem[w] EXCEPT !.seen = session_version_high_water]
    <2>1. /\ pc[w] = "verify" /\ pc'[w] = "replace" /\ \A v \in Worker \ {w} : pc'[v] = pc[v]
          /\ UNCHANGED <<db, backups, service, now, writes>> /\ snapshot' = db
          /\ Verified(k) /\ mem' = [mem EXCEPT ![w] = m]
      BY <1>1, <1>3, Went DEF pre_restore_snapshot, environment
    <2>2. session_version_high_water \in Nat
      <3>1. db \in AnyDb \/ db \in Lost
        BY <1>1 DEF FileTypes
      <3>2. CASE db \in Lost
        BY <3>2, MaintenanceAssumption DEF Lost, session_version_high_water, Missing, Corrupt
      <3>3. CASE db \in AnyDb
        <4>1. db # Missing /\ db # Corrupt /\ db.session_version \in Nat
          BY <3>3, Apart DEF Lost, AnyDb
        <4> QED BY <4>1 DEF session_version_high_water
      <3> QED BY <3>1, <3>2, <3>3
    <2>3. m \in [mode : Mode, number : Nat, seen : Nat] /\ m.number = k /\ m.mode = mem[w].mode
      BY <1>1, <2>2 DEF FileTypes
    <2> HIDE DEF m
    <2>4. /\ mem' \in [Worker -> [mode : Mode, number : Nat, seen : Nat]] /\ mem'[w] = m
          /\ \A v \in Worker \ {w} : mem'[v] = mem[v]
      BY <1>1, <2>1, <2>3 DEF FileTypes
    <2>5. FileTypes'
      BY <1>1, <2>1, <2>4 DEF FileTypes
    <2>6. mem[w].mode = "restore"
      BY <1>1, <2>1 DEF Roles
    <2>7. RestoreInv(w)'
      BY <1>1, <2>1, <2>3, <2>4, <2>6 DEF RestoreInv, Roles, Verified
    <2> QED BY <1>2, <2>1, <2>3, <2>4, <2>5, <2>7 DEF Holding, Steps
  <1>4. CASE restore_refused(w)
    <2>1. /\ pc[w] = "verify" /\ pc'[w] = "release" /\ \A v \in Worker \ {w} : pc'[v] = pc[v]
          /\ UNCHANGED <<db, backups, snapshot, mem, service, now, writes>>
      BY <1>1, <1>4, Went DEF restore_refused, environment
    <2>2. FileTypes' /\ RestoreInv(w)'
      BY <1>1, <2>1 DEF FileTypes, RestoreInv
    <2> QED BY <1>2, <2>1, <2>2 DEF Holding, Steps
  <1>5. CASE replace(w)
    <2>1. /\ pc[w] = "replace" /\ pc'[w] = "invalidate" /\ \A v \in Worker \ {w} : pc'[v] = pc[v]
          /\ UNCHANGED <<backups, snapshot, mem, service, now, writes>> /\ db' = backups[k].db
      BY <1>1, <1>5, Went DEF replace, environment
    <2>2. k \in Number /\ Verified(k) /\ backups[k].db \in AnyDb
      BY <1>1, <2>1, VerifiedIs DEF RestoreInv, FileTypes
    <2>3. FileTypes' /\ RestoreInv(w)'
      BY <1>1, <2>1, <2>2 DEF FileTypes, RestoreInv, Verified
    <2> QED BY <1>2, <2>1, <2>3 DEF Holding, Steps
  <1>6. CASE record_restore_audit(w)
    <2>0. PICK floor \in invalidation_floor(mem[w].seen) :
            db' = [db EXCEPT !.session_version = next_session_version(db.session_version, floor)]
      BY <1>6 DEF record_restore_audit
    <2> DEFINE new == next_session_version(db.session_version, floor)
               d == [db EXCEPT !.session_version = new]
    <2>1. /\ pc[w] = "invalidate" /\ pc'[w] = "release" /\ \A v \in Worker \ {w} : pc'[v] = pc[v]
          /\ UNCHANGED <<backups, snapshot, mem, service, now, writes>>
          /\ db \notin Lost /\ db' = d
      BY <1>1, <1>6, <2>0, Went DEF record_restore_audit
    <2>2. db \in AnyDb /\ db.session_version \in Nat /\ floor \in Nat
      <3>1. db \in AnyDb /\ db.session_version \in Nat /\ mem[w].seen \in Nat
        BY <1>1, <2>1 DEF FileTypes, AnyDb
      <3> QED BY <2>0, <3>1, MaintenanceAssumption DEF invalidation_floor
    <2>3. new \in Nat
      BY <2>2, MaxOfTwo DEF next_session_version
    <2> HIDE DEF new
    <2>4. d \in AnyDb
      BY <2>2, <2>3 DEF AnyDb
    <2> HIDE DEF d
    <2>5. FileTypes' /\ RestoreInv(w)'
      BY <1>1, <2>1, <2>4 DEF FileTypes, RestoreInv
    <2> QED BY <1>2, <2>1, <2>5 DEF Holding, Steps
  <1>7. CASE roll_back(w)
    <2>1. /\ pc[w] = "roll_back" /\ pc'[w] = "release" /\ \A v \in Worker \ {w} : pc'[v] = pc[v]
          /\ UNCHANGED <<backups, snapshot, mem, service, now, writes>> /\ db' = snapshot
      BY <1>1, <1>7, Went DEF roll_back, environment
    <2>2. FileTypes' /\ RestoreInv(w)'
      BY <1>1, <2>1 DEF FileTypes, RestoreInv
    <2> QED BY <1>2, <2>1, <2>2 DEF Holding, Steps
  <1> QED BY <1>3, <1>4, <1>5, <1>6, <1>7

\* The lock file itself.
LEMMA LocksKeepFiles ==
  ASSUME FileInv, LockInv', NEW w \in Worker,
         acquire_lock(w) \/ lock_refused(w) \/ write_record(w) \/ release_lock(w)
  PROVE  FileInv'
  <1> USE MaintenanceAssumption, NamesApart
    DEF FileInv, FileTypes, LockInv, SidecarOrder, Roles, BackupInv, RestoreInv, Verified,
        Restorable, Steps, Holding, Working, Worker, environment, Goto, NoMemory, NoFile, Mode
  <1>1. CASE acquire_lock(w)
    <2> USE <1>1 DEF acquire_lock, reclaimable
    <2>1. FileTypes' /\ SidecarOrder'
      BY SMTT(30)
    <2>2. \A v \in Worker : Roles(v)'
      BY SMTT(30)
    <2>3. \A v \in Worker : BackupInv(v)'
      BY SMTT(30)
    <2>4. \A v \in Worker : RestoreInv(v)'
      BY SMTT(30)
    <2> HIDE DEF FileTypes, SidecarOrder, LockInv, Roles, BackupInv, RestoreInv, Worker
    <2> QED BY <2>1, <2>2, <2>3, <2>4
  <1>2. CASE lock_refused(w)
    <2> USE <1>2 DEF lock_refused, reclaimable
    <2>1. FileTypes' /\ SidecarOrder'
      BY SMTT(30)
    <2>2. \A v \in Worker : Roles(v)'
      BY SMTT(30)
    <2>3. \A v \in Worker : BackupInv(v)'
      BY SMTT(30)
    <2>4. \A v \in Worker : RestoreInv(v)'
      BY SMTT(30)
    <2> HIDE DEF FileTypes, SidecarOrder, LockInv, Roles, BackupInv, RestoreInv, Worker
    <2> QED BY <2>1, <2>2, <2>3, <2>4
  <1>3. CASE write_record(w)
    <2> USE <1>3 DEF write_record
    <2>1. FileTypes' /\ SidecarOrder'
      BY SMTT(30)
    <2>2. \A v \in Worker : Roles(v)'
      BY SMTT(30)
    <2>3. \A v \in Worker : BackupInv(v)'
      BY SMTT(30)
    <2>4. \A v \in Worker : RestoreInv(v)'
      BY SMTT(30)
    <2> HIDE DEF FileTypes, SidecarOrder, LockInv, Roles, BackupInv, RestoreInv, Worker
    <2> QED BY <2>1, <2>2, <2>3, <2>4
  <1>4. CASE release_lock(w)
    <2> USE <1>4 DEF release_lock
    <2>1. FileTypes' /\ SidecarOrder'
      BY SMTT(30)
    <2>2. \A v \in Worker : Roles(v)'
      BY SMTT(30)
    <2>3. \A v \in Worker : BackupInv(v)'
      BY SMTT(30)
    <2>4. \A v \in Worker : RestoreInv(v)'
      BY SMTT(30)
    <2> HIDE DEF FileTypes, SidecarOrder, LockInv, Roles, BackupInv, RestoreInv, Worker
    <2> QED BY <2>1, <2>2, <2>3, <2>4
  <1> QED BY <1>1, <1>2, <1>3, <1>4

\* Steps of a backup that write no file.
LEMMA QuietBackupKeepsFiles ==
  ASSUME FileInv, LockInv', NEW w \in Tool \cup Web,
         copy_refused(w) \/ backup_made(w) \/ rotated(w)
  PROVE  FileInv'
  <1> USE MaintenanceAssumption, NamesApart
    DEF FileInv, FileTypes, LockInv, SidecarOrder, Roles, BackupInv, RestoreInv, Verified,
        Restorable, Steps, Holding, Working, Worker, environment, Goto, NoMemory, NoFile, Mode
  <1>1. CASE copy_refused(w)
    <2> USE <1>1 DEF copy_refused, Copied
    <2>1. FileTypes' /\ SidecarOrder'
      BY SMTT(30)
    <2>2. \A v \in Worker : Roles(v)'
      BY SMTT(30)
    <2>3. \A v \in Worker : BackupInv(v)'
      BY SMTT(30)
    <2>4. \A v \in Worker : RestoreInv(v)'
      BY SMTT(30)
    <2> HIDE DEF FileTypes, SidecarOrder, LockInv, Roles, BackupInv, RestoreInv, Worker
    <2> QED BY <2>1, <2>2, <2>3, <2>4
  <1>2. CASE backup_made(w)
    <2> USE <1>2 DEF backup_made
    <2>1. FileTypes' /\ SidecarOrder'
      BY SMTT(30)
    <2>2. \A v \in Worker : Roles(v)'
      BY SMTT(30)
    <2>3. \A v \in Worker : BackupInv(v)'
      BY SMTT(30)
    <2>4. \A v \in Worker : RestoreInv(v)'
      BY SMTT(30)
    <2> HIDE DEF FileTypes, SidecarOrder, LockInv, Roles, BackupInv, RestoreInv, Worker
    <2> QED BY <2>1, <2>2, <2>3, <2>4
  <1>3. CASE rotated(w)
    <2> USE <1>3 DEF rotated
    <2>1. FileTypes' /\ SidecarOrder'
      BY SMTT(30)
    <2>2. \A v \in Worker : Roles(v)'
      BY SMTT(30)
    <2>3. \A v \in Worker : BackupInv(v)'
      BY SMTT(30)
    <2>4. \A v \in Worker : RestoreInv(v)'
      BY SMTT(30)
    <2> HIDE DEF FileTypes, SidecarOrder, LockInv, Roles, BackupInv, RestoreInv, Worker
    <2> QED BY <2>1, <2>2, <2>3, <2>4
  <1> QED BY <1>1, <1>2, <1>3

\* Steps of a restore that write no file.
LEMMA QuietRestoreKeepsFiles ==
  ASSUME FileInv, LockInv', NEW w \in Restorer,
         confirm(w) \/ cancel(w) \/ stop_service(w) \/ restore_raises(w)
  PROVE  FileInv'
  <1> USE MaintenanceAssumption, NamesApart
    DEF FileInv, FileTypes, LockInv, SidecarOrder, Roles, BackupInv, RestoreInv, Verified,
        Restorable, Steps, Holding, Working, Worker, environment, Goto, NoMemory, NoFile, Mode
  <1>1. CASE confirm(w)
    <2> USE <1>1 DEF confirm
    <2>1. FileTypes' /\ SidecarOrder'
      BY SMTT(30)
    <2>2. \A v \in Worker : Roles(v)'
      BY SMTT(30)
    <2>3. \A v \in Worker : BackupInv(v)'
      BY SMTT(30)
    <2>4. \A v \in Worker : RestoreInv(v)'
      BY SMTT(30)
    <2> HIDE DEF FileTypes, SidecarOrder, LockInv, Roles, BackupInv, RestoreInv, Worker
    <2> QED BY <2>1, <2>2, <2>3, <2>4
  <1>2. CASE cancel(w)
    <2> USE <1>2 DEF cancel
    <2>1. FileTypes' /\ SidecarOrder'
      BY SMTT(30)
    <2>2. \A v \in Worker : Roles(v)'
      BY SMTT(30)
    <2>3. \A v \in Worker : BackupInv(v)'
      BY SMTT(30)
    <2>4. \A v \in Worker : RestoreInv(v)'
      BY SMTT(30)
    <2> HIDE DEF FileTypes, SidecarOrder, LockInv, Roles, BackupInv, RestoreInv, Worker
    <2> QED BY <2>1, <2>2, <2>3, <2>4
  <1>3. CASE stop_service(w)
    <2> USE <1>3 DEF stop_service, Kill
    <2>1. FileTypes' /\ SidecarOrder'
      BY SMTT(30)
    <2>2. \A v \in Worker : Roles(v)'
      BY SMTT(30)
    <2>3. \A v \in Worker : BackupInv(v)'
      BY SMTT(30)
    <2>4. \A v \in Worker : RestoreInv(v)'
      BY SMTT(30)
    <2> HIDE DEF FileTypes, SidecarOrder, LockInv, Roles, BackupInv, RestoreInv, Worker
    <2> QED BY <2>1, <2>2, <2>3, <2>4
  <1>4. CASE restore_raises(w)
    <2> USE <1>4 DEF restore_raises
    <2>1. FileTypes' /\ SidecarOrder'
      BY SMTT(30)
    <2>2. \A v \in Worker : Roles(v)'
      BY SMTT(30)
    <2>3. \A v \in Worker : BackupInv(v)'
      BY SMTT(30)
    <2>4. \A v \in Worker : RestoreInv(v)'
      BY SMTT(30)
    <2> HIDE DEF FileTypes, SidecarOrder, LockInv, Roles, BackupInv, RestoreInv, Worker
    <2> QED BY <2>1, <2>2, <2>3, <2>4
  <1> QED BY <1>1, <1>2, <1>3, <1>4

\* A backup begins.
LEMMA BeginKeepsFiles ==
  ASSUME FileInv, LockInv', NEW w \in Tool \cup Web,
         NEW mode \in {"scheduled", "catch_up", "manual"}, begin(w, mode)
  PROVE  FileInv'
  <1> USE MaintenanceAssumption, NamesApart
    DEF FileInv, FileTypes, LockInv, SidecarOrder, Roles, BackupInv, RestoreInv, Verified,
        Restorable, Steps, Holding, Working, Worker, environment, Goto, NoMemory, NoFile, Mode
  <1>1. CASE begin(w, mode)
    <2> USE <1>1 DEF begin
    <2>1. FileTypes' /\ SidecarOrder'
      BY SMTT(30)
    <2>2. \A v \in Worker : Roles(v)'
      BY SMTT(30)
    <2>3. \A v \in Worker : BackupInv(v)'
      BY SMTT(30)
    <2>4. \A v \in Worker : RestoreInv(v)'
      BY SMTT(30)
    <2> HIDE DEF FileTypes, SidecarOrder, LockInv, Roles, BackupInv, RestoreInv, Worker
    <2> QED BY <2>1, <2>2, <2>3, <2>4
  <1> QED BY <1>1

\* A tool or a restore is killed.
LEMMA CrashKeepsFiles ==
  ASSUME FileInv, LockInv', NEW w \in Tool \cup Restorer, crash(w)
  PROVE  FileInv'
  <1> USE MaintenanceAssumption, NamesApart
    DEF FileInv, FileTypes, LockInv, SidecarOrder, Roles, BackupInv, RestoreInv, Verified,
        Restorable, Steps, Holding, Working, Worker, environment, Goto, NoMemory, NoFile, Mode
  <1>1. CASE crash(w)
    <2> USE <1>1 DEF crash, Kill
    <2>1. FileTypes' /\ SidecarOrder'
      BY SMTT(30)
    <2>2. \A v \in Worker : Roles(v)'
      BY SMTT(30)
    <2>3. \A v \in Worker : BackupInv(v)'
      BY SMTT(30)
    <2>4. \A v \in Worker : RestoreInv(v)'
      BY SMTT(30)
    <2> HIDE DEF FileTypes, SidecarOrder, LockInv, Roles, BackupInv, RestoreInv, Worker
    <2> QED BY <2>1, <2>2, <2>3, <2>4
  <1> QED BY <1>1

\* The service stops or starts, the database is lost.
LEMMA ServiceKeepsFiles ==
  ASSUME FileInv, LockInv', 
         crash_service \/ start_service \/ \E kind \in Losses : lose_database(kind)
  PROVE  FileInv'
  <1> USE MaintenanceAssumption, NamesApart
    DEF FileInv, FileTypes, LockInv, SidecarOrder, Roles, BackupInv, RestoreInv, Verified,
        Restorable, Steps, Holding, Working, Worker, environment, Goto, NoMemory, NoFile, Mode
  <1>1. CASE crash_service
    <2> USE <1>1 DEF crash_service, Kill
    <2>1. FileTypes' /\ SidecarOrder'
      BY SMTT(30)
    <2>2. \A v \in Worker : Roles(v)'
      BY SMTT(30)
    <2>3. \A v \in Worker : BackupInv(v)'
      BY SMTT(30)
    <2>4. \A v \in Worker : RestoreInv(v)'
      BY SMTT(30)
    <2> HIDE DEF FileTypes, SidecarOrder, LockInv, Roles, BackupInv, RestoreInv, Worker
    <2> QED BY <2>1, <2>2, <2>3, <2>4
  <1>2. CASE start_service
    <2> USE <1>2 DEF start_service, Restoring
    <2>1. FileTypes' /\ SidecarOrder'
      BY SMTT(30)
    <2>2. \A v \in Worker : Roles(v)'
      BY SMTT(30)
    <2>3. \A v \in Worker : BackupInv(v)'
      BY SMTT(30)
    <2>4. \A v \in Worker : RestoreInv(v)'
      BY SMTT(30)
    <2> HIDE DEF FileTypes, SidecarOrder, LockInv, Roles, BackupInv, RestoreInv, Worker
    <2> QED BY <2>1, <2>2, <2>3, <2>4
  <1>3. CASE \E kind \in Losses : lose_database(kind)
    <2> USE <1>3 DEF lose_database, Kill, Lost, Missing, Corrupt
    <2>1. FileTypes' /\ SidecarOrder'
      BY SMTT(30)
    <2>2. \A v \in Worker : Roles(v)'
      BY SMTT(30)
    <2>3. \A v \in Worker : BackupInv(v)'
      BY SMTT(30)
    <2>4. \A v \in Worker : RestoreInv(v)'
      BY SMTT(30)
    <2> HIDE DEF FileTypes, SidecarOrder, LockInv, Roles, BackupInv, RestoreInv, Worker
    <2> QED BY <2>1, <2>2, <2>3, <2>4
  <1> QED BY <1>1, <1>2, <1>3
\* A restore is chosen: the newest backup that has its sidecar.
LEMMA SelectKeepsFiles ==
  ASSUME FileInv, LockInv', NEW w \in Restorer, select(w)
  PROVE  FileInv'
  <1> DEFINE m == [mode |-> "restore", number |-> Max(Paired), seen |-> 0]
  <1>1. w \in Worker /\ FileTypes /\ Number \subseteq Nat
    BY MaintenanceAssumption DEF FileInv, Worker, Number
  <1>2. Paired \in SUBSET Number /\ Paired # {}
    BY DEF select, Paired
  <1>3. Max(Paired) \in Number
    BY <1>2, NewestIs
  <1>4. m \in [mode : Mode, number : Nat, seen : Nat] /\ m.mode = "restore" /\ m.number \in Number
    BY <1>1, <1>3 DEF Mode
  <1>5. mem' = [mem EXCEPT ![w] = m]
    BY DEF select
  <1> HIDE DEF m
  <1>6. /\ mem' \in [Worker -> [mode : Mode, number : Nat, seen : Nat]] /\ mem'[w] = m
        /\ \A v \in Worker \ {w} : mem'[v] = mem[v]
    BY <1>1, <1>4, <1>5 DEF FileTypes
  <1>7. /\ pc'[w] = "confirm" /\ \A v \in Worker \ {w} : pc'[v] = pc[v]
        /\ UNCHANGED <<db, backups, snapshot, service, now, writes>>
    BY <1>1, Went DEF select
  <1>8. FileTypes' /\ SidecarOrder'
    BY <1>6, <1>7 DEF FileInv, FileTypes, SidecarOrder
  <1>9. ASSUME NEW v \in Worker  PROVE Roles(v)' /\ BackupInv(v)' /\ RestoreInv(v)'
    <2>1. CASE v = w
      BY <1>1, <1>4, <1>6, <1>7, <2>1 DEF Roles, BackupInv, RestoreInv
    <2>2. CASE v # w
      <3>1. pc'[v] = pc[v] /\ mem'[v] = mem[v] /\ Roles(v) /\ BackupInv(v) /\ RestoreInv(v)
        BY <1>6, <1>7, <2>2 DEF FileInv
      <3>2. Roles(v)' /\ RestoreInv(v)'
        BY <1>7, <3>1 DEF Roles, RestoreInv, Verified
      <3>3. BackupInv(v)'
        BY <1>7, <3>1 DEF BackupInv, Restorable, Verified
      <3> QED BY <3>2, <3>3
    <2> QED BY <2>1, <2>2
  <1> QED BY <1>8, <1>9 DEF FileInv

\* A booking is written while the service is up, or time goes on.
LEMMA WorldKeepsFiles ==
  ASSUME FileInv, LockInv', UNCHANGED <<backups, snapshot, pc, mem, service>>,
         db' = db \/ (service = "up" /\ db' \in AnyDb),
         now' \in Nat, now <= now', writes' \in Nat
  PROVE  FileInv'
  <1>1. FileTypes' /\ SidecarOrder'
    <2>1. \A n \in Number : backups[n].sidecar # Absent =>
             backups[n].sidecar.created \in Nat /\ backups[n].sidecar.created <= now
      <3>1. ASSUME NEW n \in Number, backups[n].sidecar # Absent
            PROVE  backups[n].sidecar.created \in Nat
        <4>1. backups[n].sidecar \in AnySidecar
          BY <3>1 DEF FileInv, FileTypes, AnyFile
        <4> QED BY <4>1 DEF AnySidecar
      <3> QED BY <3>1 DEF FileInv, SidecarOrder
    <2> QED BY <2>1 DEF FileInv, FileTypes, SidecarOrder
  <1>2. ASSUME NEW v \in Worker  PROVE Roles(v)' /\ RestoreInv(v)'
    <2>1. pc[v] \in {"replace", "invalidate", "roll_back"} => service = "down"
      BY MaintenanceAssumption DEF FileInv, Roles
    <2> QED BY <2>1 DEF FileInv, Roles, RestoreInv, Verified
  <1>3. ASSUME NEW v \in Worker  PROVE BackupInv(v)'
    <2>1. Restorable' = Restorable
      BY DEF Restorable, Verified
    <2>2. ASSUME NEW n \in Restorable,
                 backups[n].sidecar.created \div DayLength < now \div DayLength
          PROVE  backups[n].sidecar.created \div DayLength < now' \div DayLength
      <3>1. backups[n].sidecar.created \in Nat /\ now \in Nat
        BY VerifiedIs DEF FileInv, FileTypes, Restorable
      <3>2. /\ now \div DayLength <= now' \div DayLength
            /\ now \div DayLength \in Int /\ now' \div DayLength \in Int
            /\ backups[n].sidecar.created \div DayLength \in Int
        BY <3>1, DivMonotone, DivInt, MaintenanceAssumption
      <3> QED BY <2>2, <3>2
    <2> QED BY <2>1, <2>2 DEF FileInv, BackupInv
  <1> QED BY <1>1, <1>2, <1>3 DEF FileInv

LEMMA InitFiles == Init => FileInv
  <1> SUFFICES ASSUME Init  PROVE FileInv
    OBVIOUS
  <1>1. FileTypes
    <2>1. db \in AnyDb /\ NoFile \in AnyFile /\ NoMemory \in [mode : Mode, number : Nat, seen : Nat]
      BY DEF Init, AnyDb, NoFile, AnyFile, NoMemory, Mode
    <2> QED BY <2>1 DEF Init, FileTypes, Lost
  <1>2. \A n \in Number : backups[n].sidecar = Absent
    BY DEF Init, NoFile
  <1>3. \A w \in Worker : pc[w] = "idle" /\ mem[w].mode = "manual"
    BY DEF Init, NoMemory
  <1> QED BY <1>1, <1>2, <1>3, InitLock
    DEF FileInv, SidecarOrder, Roles, BackupInv, RestoreInv

LEMMA NextKeepsFiles == FileInv /\ [Next]_vars => FileInv'
  <1> SUFFICES ASSUME FileInv, [Next]_vars  PROVE FileInv'
    OBVIOUS
  <1>1. LockInv'
    BY NextKeepsLock DEF FileInv
  <1>2. FileTypes
    BY DEF FileInv
  <1>3. CASE \E w \in Tool, mode \in Modes : start_backup(w, mode)
    BY <1>1, <1>3, BeginKeepsFiles, MaintenanceAssumption DEF start_backup
  <1>4. CASE \E w \in Web : run_backup(w)
    BY <1>1, <1>4, BeginKeepsFiles DEF run_backup
  <1>5. CASE \E w \in Tool \cup Web : backup_step(w)
    BY <1>1, <1>5, BackupKeepsFiles, QuietBackupKeepsFiles DEF backup_step
  <1>6. CASE \E w \in Restorer : restore_step(w)
    BY <1>1, <1>6, SelectKeepsFiles, RestoreKeepsFiles, QuietRestoreKeepsFiles DEF restore_step
  <1>7. CASE \E w \in Worker : lock_step(w)
    BY <1>1, <1>7, LocksKeepFiles DEF lock_step
  <1>8. CASE \E w \in Tool \cup Restorer : crash(w)
    BY <1>1, <1>8, CrashKeepsFiles
  <1>9. CASE crash_service \/ start_service \/ \E kind \in Losses : lose_database(kind)
    BY <1>1, <1>9, ServiceKeepsFiles
  <1>10. ASSUME NEW b \in Endings, write(b)  PROVE FileInv'
    <2>1. db \in AnyDb /\ db.session_version \in Nat /\ db.data_sequence \in Nat /\ writes \in Nat
      BY <1>2, <1>10 DEF write, FileTypes, AnyDb
    <2> DEFINE version == IF b THEN db.session_version + 1 ELSE db.session_version
               d == [db EXCEPT !.content = writes + 1, !.data_sequence = db.data_sequence + 1,
                               !.session_version = version]
    <2>2. version \in Nat
      BY <2>1
    <2> HIDE DEF version
    <2>3. d \in AnyDb
      <3>1. writes + 1 \in Nat /\ db.data_sequence + 1 \in Nat
        BY <2>1
      <3> QED BY <2>1, <2>2, <3>1 DEF AnyDb
    <2>4. db' = d
      BY <1>10 DEF write, version
    <2> HIDE DEF d
    <2>5. /\ UNCHANGED <<backups, snapshot, pc, mem, service, now>> /\ service = "up"
          /\ writes' = writes + 1 /\ now \in Nat
      BY <1>2, <1>10 DEF write, FileTypes
    <2> QED BY <1>1, <2>1, <2>3, <2>4, <2>5, WorldKeepsFiles
  <1>11. CASE tick \/ UNCHANGED vars
    <2>1. /\ UNCHANGED <<backups, snapshot, pc, mem, service>> /\ db' = db /\ writes' = writes
          /\ now' = now \/ now' = now + 1
      BY <1>11 DEF tick, vars
    <2>2. now' \in Nat /\ now <= now' /\ writes' \in Nat
      BY <1>2, <2>1 DEF FileTypes
    <2> QED BY <1>1, <2>1, <2>2, WorldKeepsFiles
  <1> QED BY <1>3, <1>4, <1>5, <1>6, <1>7, <1>8, <1>9, <1>10, <1>11 DEF Next

LEMMA FileInvHolds == Spec => []FileInv
  BY InitFiles, NextKeepsFiles, PTL DEF Spec

-----------------------------------------------------------------------------
(* What a backup and a restore promise *)

\* The daily task makes no second backup on a day that has one already, also
\* when another run or a web request was faster: backup.py looks again under the
\* lock, and from there on nobody else makes one.
THEOREM BackupAlwaysOnce == Spec => OncePerDay
  <1>1. ASSUME FileInv, NEW w \in Worker, pc[w] = "sidecar", mem[w].mode = "scheduled",
               NEW n \in Restorable
        PROVE  backups[n].sidecar.created \div DayLength # now \div DayLength
    <2>1. backups[n].sidecar.created \div DayLength < now \div DayLength
      BY <1>1 DEF FileInv, BackupInv
    <2>2. backups[n].sidecar.created \in Nat /\ now \in Nat
      BY <1>1, VerifiedIs DEF FileInv, FileTypes, Restorable
    <2>3. /\ backups[n].sidecar.created \div DayLength \in Int
          /\ now \div DayLength \in Int
      BY <2>2, DivInt, MaintenanceAssumption
    <2> QED BY <2>1, <2>3
  <1>2. FileInv =>
          [\A w \in Worker :
             pc[w] = "sidecar" /\ pc'[w] = "check" /\ mem[w].mode = "scheduled" =>
                 \A n \in Restorable :
                     backups[n].sidecar.created \div DayLength # now \div DayLength]_vars
    BY <1>1
  <1> QED BY <1>2, FileInvHolds, PTL DEF OncePerDay

\* A step of a restore that changes the bookings leaves them in the snapshot or
\* in the backup that it restored.
LEMMA RestoreSaves ==
  ASSUME FileInv, NEW w \in Restorer, replace(w) \/ roll_back(w), db \notin Lost
  PROVE  \/ snapshot \notin Lost /\ snapshot.content = db.content
         \/ \E n \in Restorable : backups[n].db.content = db.content
  <1>1. w \in Worker /\ RestoreInv(w)
    BY DEF FileInv, Worker
  <1>2. CASE replace(w)
    BY <1>1, <1>2 DEF replace, Goto, RestoreInv
  <1>3. CASE roll_back(w)
    <2>1. /\ mem[w].number \in Restorable
          /\ backups[mem[w].number].db.content = db.content
      BY <1>1, <1>3 DEF roll_back, Goto, RestoreInv, Restorable
    <2> QED BY <2>1
  <1> QED BY <1>2, <1>3

\* The bookings that restore.py takes out of the database, when it puts a backup
\* in its place and when it rolls back, are in the pre-restore snapshot or in a
\* backup that can be restored: a restore loses nothing.
THEOREM NothingAlwaysUnsaved == Spec => NothingUnsaved
  <1> DEFINE Saved == \/ db'.content = db.content
                      \/ snapshot \notin Lost /\ snapshot.content = db.content
                      \/ \E n \in Restorable : backups[n].db.content = db.content
  <1>1. ASSUME FileInv, Next, db \notin Lost, db' \notin Lost, writes' = writes
        PROVE  Saved
    <2>1. CASE db' = db
      BY <2>1
    <2>2. CASE \E w \in Restorer : replace(w) \/ roll_back(w)
      BY <1>1, <2>2, RestoreSaves
    <2>3. CASE \E w \in Worker : reserve_backup_sequence(w) \/ record_restore_audit(w)
      <3>1. db \in AnyDb
        BY <1>1 DEF FileInv, FileTypes
      <3>2. CASE \E w \in Worker : reserve_backup_sequence(w)
        <4>1. PICK x : db' = [db EXCEPT !.backup_sequence = x]
          BY <3>2 DEF reserve_backup_sequence
        <4> QED BY <3>1, <4>1 DEF AnyDb
      <3>3. CASE \E w \in Worker : record_restore_audit(w)
        <4>1. PICK x : db' = [db EXCEPT !.session_version = x]
          BY <3>3 DEF record_restore_audit
        <4> QED BY <3>1, <4>1 DEF AnyDb
      <3> QED BY <2>3, <3>2, <3>3
    <2>4. CASE \E b \in Endings : write(b)
      <3>1. writes \in Nat /\ writes' = writes + 1
        BY <1>1, <2>4 DEF FileInv, FileTypes, write
      <3> QED BY <1>1, <3>1
    <2>5. CASE \E kind \in Losses : lose_database(kind)
      BY <1>1, <2>5, MaintenanceAssumption DEF lose_database, Lost, Missing, Corrupt
    <2>6. CASE \/ \E w \in Tool, mode \in Modes : start_backup(w, mode)
               \/ \E w \in Web : run_backup(w)
               \/ \E w \in Worker : lock_step(w)
               \/ \E w \in Tool \cup Restorer : crash(w)
               \/ crash_service \/ start_service \/ tick
      <3>1. db' = db
        BY <2>6 DEF start_backup, run_backup, begin, lock_step, acquire_lock, lock_refused,
             write_record, release_lock, crash, crash_service, start_service, tick
      <3> QED BY <3>1
    <2>7. CASE \E w \in Tool \cup Web : backup_step(w)
      <3>1. PICK w \in Tool \cup Web : backup_step(w)
        BY <2>7
      <3>2. reserve_backup_sequence(w) \/ db' = db
        BY <3>1 DEF backup_step, recheck_due, copy_database, copy_refused, write_sidecar,
             backup_made, discard, discard_sidecar, rotate, rotate_sidecar, rotated
      <3> QED BY <2>1, <2>3, <3>2 DEF Worker
    <2>8. CASE \E w \in Restorer : restore_step(w)
      <3>1. PICK w \in Restorer : restore_step(w)
        BY <2>8
      <3>2. replace(w) \/ roll_back(w) \/ record_restore_audit(w) \/ db' = db
        BY <3>1 DEF restore_step, select, confirm, cancel, stop_service, pre_restore_snapshot,
             restore_refused, restore_raises
      <3> QED BY <2>1, <2>2, <2>3, <3>2 DEF Worker
    <2> QED BY <1>1, <2>4, <2>5, <2>6, <2>7, <2>8 DEF Next
  <1>2. FileInv /\ [Next]_vars =>
          [db \notin Lost /\ db' \notin Lost /\ writes' = writes => Saved]_vars
    BY <1>1
  <1> QED BY <1>2, FileInvHolds, PTL DEF Spec, NothingUnsaved

\* A number whose file is not touched, or was not restorable, is not unmade.
LEMMA OnlyTouchedUnmade ==
  ASSUME NEW k, \A n \in Number \ {k} : backups'[n] = backups[n], NEW n \in Restorable \ Restorable'
  PROVE  n = k
  BY DEF Restorable, Verified

\* What a rotation takes away has Keep newer ones, which stay.
LEMMA RotateTakesOld ==
  ASSUME FileInv, NEW w, rotate(w), NEW n \in Restorable \ Restorable'
  PROVE  Cardinality({m \in Restorable' : m > n}) >= Keep
  <1>1. Old \in SUBSET Number /\ Old # {} /\ backups \in [Number -> AnyFile]
    BY DEF Old, Restorable, rotate, FileInv, FileTypes
  <1>2. Max(Old) \in Old /\ Max(Old) \in Number
    BY <1>1, NewestIs
  <1> DEFINE k == Max(Old)
  <1>3. backups' = [backups EXCEPT ![k].db = Absent]
    BY DEF rotate
  <1>4. \A m \in Number \ {k} : backups'[m] = backups[m]
    BY <1>1, <1>2, <1>3, DbWritten
  <1>5. n = k
    BY <1>4, OnlyTouchedUnmade
  <1> HIDE DEF k
  <1>6. \A m \in Number : m > n => m # k
    BY <1>5, MaintenanceAssumption DEF Number
  <1>7. \A m \in Number : m > n => (m \in Restorable' <=> m \in Restorable)
    BY <1>4, <1>6 DEF Restorable, Verified
  <1>8. {m \in Restorable' : m > n} = Newer(n)
    BY <1>7 DEF Restorable, Newer
  <1>9. n \in Old
    BY <1>2, <1>5 DEF k
  <1> QED BY <1>8, <1>9 DEF Old

\* No other step takes a reported backup away.
LEMMA OnlyRotateUnmakes ==
  ASSUME FileInv, NEW w \in Tool \cup Web, backup_step(w), ~rotate(w)
  PROVE  Reported \ Restorable' = {}
  <1> DEFINE k == mem[w].number
  <1>1. w \in Worker /\ backups \in [Number -> AnyFile] /\ BackupInv(w) /\ FileTypes
    BY DEF FileInv, FileTypes, Worker
  <1>2. \A n \in Reported : n \in Restorable /\ (pc[w] = "check" => n # k)
    BY <1>1 DEF Reported
  <1>3. CASE backups' = backups
    BY <1>2, <1>3 DEF Restorable, Verified
  <1>4. CASE copy_database(w) \/ discard(w)
    <2>1. PICK new \in AnyDb \cup {Absent} : backups' = [backups EXCEPT ![k].db = new]
      BY <1>1, <1>4 DEF copy_database, Copied, discard, FileTypes
    <2>2. k \in Number
      BY <1>1, <1>4 DEF copy_database, discard, BackupInv, Goto
    <2>3. \A n \in Number \ {k} : backups'[n] = backups[n]
      BY <1>1, <2>1, <2>2, DbWritten
    <2>4. k \in Restorable => pc[w] = "check"
      BY <1>1, <1>4 DEF copy_database, Copied, discard, BackupInv, Goto, Restorable, Verified, NoFile
    <2> QED BY <1>2, <2>3, <2>4, OnlyTouchedUnmade
  <1>5. CASE write_sidecar(w) \/ discard_sidecar(w) \/ rotate_sidecar(w)
    <2>1. k \in Number /\ k \notin Restorable
      BY <1>1, <1>5, VerifiedIs DEF write_sidecar, discard_sidecar, rotate_sidecar, Goto,
           BackupInv, Restorable, Verified
    <2>2. \A n \in Number \ {k} : backups'[n] = backups[n]
      BY <1>1, <1>5 DEF write_sidecar, discard_sidecar, rotate_sidecar
    <2> QED BY <1>2, <2>1, <2>2, OnlyTouchedUnmade
  <1>6. \/ backups' = backups \/ copy_database(w) \/ discard(w)
        \/ write_sidecar(w) \/ discard_sidecar(w) \/ rotate_sidecar(w)
    BY DEF backup_step, recheck_due, reserve_backup_sequence, copy_refused, backup_made, rotated
  <1> QED BY <1>3, <1>4, <1>5, <1>6

\* A backup that was reported stays restorable until Keep newer ones are.  The
\* number of the next backup is above every name in the directory, so that none
\* is written over one, although a restore sets the counter in the database
\* back; and what backup.py rotates away is old.
THEOREM RemovedAlwaysOld == Spec => RemovedOnlyOld
  <1>1. ASSUME FileInv, Next, NEW n \in Reported \ Restorable'
        PROVE  Cardinality({m \in Restorable' : m > n}) >= Keep
    <2>1. n \in Restorable
      BY <1>1 DEF Reported
    <2>2. backups' # backups
      BY <1>1, <2>1 DEF Restorable, Verified
    <2>3. PICK w \in Tool \cup Web : backup_step(w)
      BY <1>1, <2>2 DEF Next, start_backup, run_backup, begin, lock_step, acquire_lock,
           lock_refused, write_record, release_lock, crash, crash_service, start_service, tick,
           write, lose_database, restore_step, select, confirm, cancel, stop_service,
           pre_restore_snapshot, restore_refused, replace, record_restore_audit,
           restore_raises, roll_back
    <2>4. rotate(w)
      BY <1>1, <2>3, OnlyRotateUnmakes
    <2> QED BY <1>1, <2>1, <2>4, RotateTakesOld
  <1>2. FileInv /\ [Next]_vars =>
          [backups' # backups =>
             \A n \in Reported \ Restorable' :
                 Cardinality({m \in Restorable' : m > n}) >= Keep]_vars
    <2>1. ASSUME UNCHANGED vars PROVE Restorable' = Restorable
      BY <2>1 DEF vars, Restorable, Verified
    <2> QED BY <1>1, <2>1
  <1> QED BY <1>2, FileInvHolds, PTL DEF Spec, RemovedOnlyOld


-----------------------------------------------------------------------------
(* Sessions *)

\* Steps behind the snapshot, and those behind the replacement.
Snapped == {"replace", "invalidate", "roll_back"}
Replaced == {"invalidate", "roll_back"}

\* Steps of a restore that may still end the sessions, and count a version up by it.
Claiming == {"confirm", "stop", "lock", "locking", "verify", "replace", "invalidate"}

Claims == {w \in Restorer : pc[w] \in Claiming}

\* As many versions were counted as there were writes and restores.
Room == 1 + writes + restores - Cardinality(Claims)

\* A version that was counted so far, or was counted from a drawn number.
Counted(v) == v <= Room \/ v >= Unknown

\* The same after a step, of a version of the state before or behind it.
Reached(v) == v <= Room' \/ v >= Unknown

\* A version as high as this makes none valid that was ended.
Above(v) ==
    /\ sessions.current <= v \/ sessions.current \in sessions.spared
    /\ \A e \in sessions.ended \ sessions.spared : e < v

Bounds ==
    /\ IsFiniteSet(Claims)
    /\ writes <= MaxWrites /\ restores \in 0 .. MaxRestores
    /\ sessions \in [current : Nat, ended : SUBSET Nat, spared : SUBSET Nat]
    /\ service = "up" => db \notin Lost

CountInv ==
    /\ db \notin Lost => Counted(db.session_version)
    /\ snapshot \notin Lost => Counted(snapshot.session_version)
    /\ Counted(sessions.current) /\ \A e \in sessions.ended : Counted(e)
    /\ \A n \in Number : backups[n].db # Absent => Counted(backups[n].db.session_version)

AboveInv ==
    /\ (\A w \in Restorer : pc[w] \notin Replaced) =>
          (db \notin Lost => Above(db.session_version))
    /\ \A w \in Restorer :
         pc[w] \in Snapped =>
             IF snapshot \in Lost THEN mem[w].seen = 0
             ELSE mem[w].seen = snapshot.session_version /\ Above(mem[w].seen)

(***************************************************************************)
(* SessionsEnd compares a version with those that were ended.  What a      *)
(* restore puts in place may have any version: the one it remembers, of    *)
(* its snapshot, is above all that were ended and are not spared, and so   *)
(* is a number that is drawn above all that were not counted from one.     *)
(***************************************************************************)
EndInv == Bounds /\ CountInv /\ AboveInv

LEMMA SessionsEndInside == FileInv /\ EndInv => SessionsEnd
  <1> SUFFICES ASSUME FileInv, EndInv, service = "up", db.session_version \in sessions.ended
               PROVE  db.session_version \in sessions.spared
    BY DEF SessionsEnd
  <1>1. \A w \in Restorer : pc[w] \notin Replaced
    BY DEF FileInv, Roles, Worker, Replaced
  <1>2. db \in AnyDb /\ db \notin Lost /\ Above(db.session_version)
    BY <1>1 DEF EndInv, Bounds, AboveInv, FileInv, FileTypes
  <1>3. db.session_version \in Nat
        /\ \A e \in sessions.ended \ sessions.spared : e < db.session_version
    BY <1>2 DEF AnyDb, Above
  <1> QED BY <1>3

-----------------------------------------------------------------------------
(* What is counted *)

LEMMA RoomIs ==
  ASSUME FileInv, Bounds
  PROVE  Room \in Int /\ Room < Unknown /\ Unknown \in Nat /\ Cardinality(Claims) \in Nat
  <1>1. Cardinality(Claims) \in Nat /\ writes \in Nat /\ restores \in Nat
    BY FS_CardinalityType, MaintenanceAssumption DEF Bounds, FileInv, FileTypes
  <1> QED BY <1>1, MaintenanceAssumption DEF Room, Bounds

\* A restore that gives up leaves room.
LEMMA FewerClaims ==
  ASSUME FileInv, Bounds, Claims' \subseteq Claims, UNCHANGED <<writes, restores>>
  PROVE  IsFiniteSet(Claims') /\ Room' \in Int /\ Room <= Room'
  <1>1. IsFiniteSet(Claims') /\ Cardinality(Claims') <= Cardinality(Claims)
    BY FS_Subset DEF Bounds
  <1>2. Cardinality(Claims') \in Nat /\ Cardinality(Claims) \in Nat
    BY <1>1, FS_CardinalityType DEF Bounds
  <1>3. writes \in Nat /\ restores \in Nat
    BY MaintenanceAssumption DEF Bounds, FileInv, FileTypes
  <1> QED BY <1>1, <1>2, <1>3 DEF Room

\* A restore is begun: what it may count up is counted.
LEMMA MoreClaims ==
  ASSUME FileInv, Bounds, NEW w, Claims' = Claims \cup {w}, writes' = writes,
         restores' = restores + 1
  PROVE  IsFiniteSet(Claims') /\ Room' \in Int /\ Room <= Room'
  <1>1. /\ IsFiniteSet(Claims')
        /\ Cardinality(Claims') = Cardinality(Claims) \/ Cardinality(Claims') = Cardinality(Claims) + 1
    BY FS_AddElement DEF Bounds
  <1>2. Cardinality(Claims') \in Nat /\ Cardinality(Claims) \in Nat
    BY <1>1, FS_CardinalityType DEF Bounds
  <1>3. writes \in Nat /\ restores \in Nat
    BY MaintenanceAssumption DEF Bounds, FileInv, FileTypes
  <1> QED BY <1>1, <1>2, <1>3 DEF Room

\* A restore counts up, once.
LEMMA ClaimTaken ==
  ASSUME FileInv, Bounds, NEW w \in Claims, Claims' = Claims \ {w}, UNCHANGED <<writes, restores>>
  PROVE  IsFiniteSet(Claims') /\ Room' \in Int /\ Room' = Room + 1
  <1>1. IsFiniteSet(Claims') /\ Cardinality(Claims') = Cardinality(Claims) - 1
    BY FS_RemoveElement DEF Bounds
  <1>2. Cardinality(Claims) \in Nat
    BY FS_CardinalityType DEF Bounds
  <1>3. writes \in Nat /\ restores \in Nat
    BY MaintenanceAssumption DEF Bounds, FileInv, FileTypes
  <1> QED BY <1>1, <1>2, <1>3 DEF Room

\* What a worker remembers and what a file says are numbers.
LEMMA Numbers ==
  ASSUME FileInv
  PROVE  /\ \A w \in Worker : mem[w].seen \in Nat
         /\ db \notin Lost => db.session_version \in Nat
         /\ snapshot \notin Lost => snapshot.session_version \in Nat
         /\ \A n \in Number : backups[n].db # Absent => backups[n].db.session_version \in Nat
  <1>1. \A w \in Worker : mem[w].seen \in Nat
    BY DEF FileInv, FileTypes
  <1>2. /\ db \notin Lost => db.session_version \in Nat
        /\ snapshot \notin Lost => snapshot.session_version \in Nat
    BY DEF FileInv, FileTypes, AnyDb
  <1>3. ASSUME NEW n \in Number, backups[n].db # Absent
        PROVE  backups[n].db.session_version \in Nat
    <2>1. backups[n].db \in AnyDb
      BY <1>3 DEF FileInv, FileTypes, AnyFile
    <2> QED BY <2>1 DEF AnyDb
  <1> QED BY <1>1, <1>2, <1>3

\* The same session version, or the same loss.
SameVersion ==
    \/ db' = db
    \/ db \notin Lost /\ db' \notin Lost /\ db'.session_version = db.session_version

(***************************************************************************)
(* Most steps end no session: no restore claims or replaces that did not,  *)
(* and a file of a backup is removed or is a copy of the database.         *)
(***************************************************************************)
Quiet ==
    /\ UNCHANGED <<snapshot, writes, restores, losses>> /\ SameVersion
    /\ service' \in {service, "down"}
    /\ sessions' = sessions /\ Claims' \subseteq Claims
    /\ \A w \in Restorer :
         /\ pc'[w] \in Snapped => pc[w] \in Snapped /\ mem'[w].seen = mem[w].seen
         /\ pc[w] \in Replaced => pc'[w] \in Replaced
    /\ \A n \in Number : \/ backups'[n].db \in {backups[n].db, Absent}
                         \/ db \notin Lost /\ backups'[n].db = db

LEMMA QuietKeepsEnd ==
  ASSUME FileInv, EndInv, Quiet
  PROVE  EndInv'
  <1>1. IsFiniteSet(Claims') /\ Room' \in Int /\ Room <= Room' /\ Room \in Int
    BY FewerClaims, RoomIs DEF EndInv, Quiet
  <1>2. sessions' = sessions /\ sessions.current \in Nat /\ sessions.ended \in SUBSET Nat
    BY DEF EndInv, Bounds, Quiet
  <1>3. Bounds'
    BY <1>1, <1>2 DEF EndInv, Bounds, Quiet, SameVersion
  <1>4. \A v \in Nat : Counted(v) => Reached(v)
    BY <1>1 DEF Counted, Reached
  <1>5. CountInv'
    <2>1. db' \notin Lost => Reached(db'.session_version)
      BY <1>4, Numbers DEF EndInv, Quiet, CountInv, SameVersion, Counted, Reached
    <2>2. snapshot' \notin Lost => Reached(snapshot'.session_version)
      BY <1>4, Numbers DEF EndInv, Quiet, CountInv, Counted, Reached
    <2>3. Reached(sessions'.current) /\ \A e \in sessions'.ended : Reached(e)
      BY <1>2, <1>4 DEF EndInv, CountInv, Counted, Reached
    <2>4. \A n \in Number : backups'[n].db # Absent => Reached(backups'[n].db.session_version)
      BY <1>4, Numbers DEF EndInv, Quiet, CountInv, Counted, Reached
    <2> QED BY <2>1, <2>2, <2>3, <2>4 DEF CountInv, Counted, Reached
  <1>6. AboveInv'
    <2>1. \A v : Above(v)' <=> Above(v)
      BY <1>2 DEF Above
    <2>2. /\ snapshot' = snapshot
          /\ db' \notin Lost => db \notin Lost /\ db'.session_version = db.session_version
      BY DEF Quiet, SameVersion
    <2>3. (\A w \in Restorer : pc'[w] \notin Replaced) => \A w \in Restorer : pc[w] \notin Replaced
      BY DEF Quiet
    <2>4. \A w \in Restorer : pc'[w] \in Snapped =>
             pc[w] \in Snapped /\ mem'[w].seen = mem[w].seen
      BY DEF Quiet
    <2>5. /\ (\A w \in Restorer : pc'[w] \notin Replaced) =>
                (db' \notin Lost => Above(db'.session_version))
          /\ \A w \in Restorer :
               pc'[w] \in Snapped =>
                   IF snapshot' \in Lost THEN mem'[w].seen = 0
                   ELSE mem'[w].seen = snapshot'.session_version /\ Above(mem'[w].seen)
      BY <2>2, <2>3, <2>4 DEF EndInv, AboveInv
    <2> QED BY <1>2, <2>5 DEF AboveInv, Above
  <1> QED BY <1>3, <1>5, <1>6 DEF EndInv

LEMMA DbPut ==
  ASSUME backups \in [Number -> AnyFile], NEW k, NEW new \in AnyDb \cup {Absent},
         backups' = [backups EXCEPT ![k].db = new], NEW n \in Number
  PROVE  backups'[n].db \in {backups[n].db, new}
  <1>1. CASE k \in Number
    BY <1>1, DbWritten
  <1>2. CASE k \notin Number
    BY <1>2
  <1> QED BY <1>1, <1>2

LEMMA SidecarPut ==
  ASSUME backups \in [Number -> AnyFile], NEW k, NEW new,
         backups' = [backups EXCEPT ![k].sidecar = new], NEW n \in Number
  PROVE  backups'[n].db = backups[n].db
  <1> DEFINE f == [backups[k] EXCEPT !.sidecar = new]
  <1>1. k \in Number => f.db = backups[k].db
    BY DEF AnyFile
  <1>2. backups' = [backups EXCEPT ![k] = f]
    OBVIOUS
  <1> HIDE DEF f
  <1> QED BY <1>1, <1>2

\* A backup ends no session.
LEMMA BackupIsQuiet ==
  ASSUME FileInv, EndInv, NEW w \in Tool \cup Web, NEW mode, backup_step(w) \/ begin(w, mode)
  PROVE  Quiet
  <1>1. /\ \A v \in Restorer : pc'[v] = pc[v] /\ mem'[v] = mem[v]
        /\ UNCHANGED <<snapshot, writes, restores, losses, service, sessions>>
    <2>1. /\ \E to : pc' = [pc EXCEPT ![w] = to]
          /\ \E m : mem' = [mem EXCEPT ![w] = m]
          /\ UNCHANGED <<snapshot, writes, restores, losses, service, sessions>>
      <3>1. CASE begin(w, mode)
        BY <3>1 DEF begin, Goto, environment
      <3>2. CASE backup_step(w)
        <4>1. /\ \E to : pc' = [pc EXCEPT ![w] = to]
              /\ UNCHANGED <<snapshot, writes, restores, losses, service, sessions>>
          BY <3>2 DEF backup_step, recheck_due, reserve_backup_sequence, copy_database,
             copy_refused, write_sidecar, backup_made, discard, discard_sidecar, rotate,
             rotate_sidecar, rotated, Goto, environment
        <4>2. w \in Worker /\ mem \in [Worker -> [mode : Mode, number : Nat, seen : Nat]]
          BY DEF FileInv, FileTypes, Worker
        <4>3. CASE mem' = mem
          <5>1. mem' = [mem EXCEPT ![w] = mem[w]]
            BY <4>2, <4>3
          <5> QED BY <4>1, <5>1
        <4>4. CASE reserve_backup_sequence(w)
          <5>1. mem' = [mem EXCEPT ![w] = [mem[w] EXCEPT !.number = next_number,
                                                         !.seen = db.data_sequence]]
            BY <4>2, <4>4 DEF reserve_backup_sequence
          <5> QED BY <4>1, <5>1
        <4>5. CASE rotate(w)
          <5>1. mem' = [mem EXCEPT ![w] = [mem[w] EXCEPT !.number = Max(Old)]]
            BY <4>2, <4>5 DEF rotate
          <5> QED BY <4>1, <5>1
        <4>6. mem' = mem \/ reserve_backup_sequence(w) \/ rotate(w)
          BY <3>2 DEF backup_step, recheck_due, copy_database, copy_refused, write_sidecar,
             backup_made, discard, discard_sidecar, rotate_sidecar, rotated
        <4> QED BY <4>3, <4>4, <4>5, <4>6
      <3> QED BY <3>1, <3>2
    <2>2. \A v \in Restorer : v # w /\ v \in Worker
      BY MaintenanceAssumption DEF Worker
    <2> QED BY <2>1, <2>2 DEF FileInv, FileTypes, LockInv
  <1>2. SameVersion
    <2>1. CASE reserve_backup_sequence(w)
      <3>1. db \in AnyDb /\ next_number \in Nat /\ db \notin Lost
            /\ db' = [db EXCEPT !.backup_sequence = next_number]
        BY <2>1, NextNumber DEF reserve_backup_sequence, FileInv, FileTypes
      <3>2. db' \in AnyDb /\ db'.session_version = db.session_version
        BY <3>1 DEF AnyDb
      <3> QED BY <3>1, <3>2, Apart DEF SameVersion
    <2>2. db' = db \/ reserve_backup_sequence(w)
      BY DEF begin, backup_step, recheck_due, copy_database, copy_refused, write_sidecar,
         backup_made, discard, discard_sidecar, rotate, rotate_sidecar, rotated
    <2> QED BY <2>1, <2>2 DEF SameVersion
  <1>3. ASSUME NEW n \in Number
        PROVE  \/ backups'[n].db \in {backups[n].db, Absent}
               \/ db \notin Lost /\ backups'[n].db = db
    <2>1. backups \in [Number -> AnyFile] /\ db \in AnyDb \cup Lost
      BY DEF FileInv, FileTypes
    <2>2. CASE copy_database(w)
      BY <2>1, <2>2, DbPut DEF copy_database, Copied
    <2>3. CASE discard(w) \/ rotate(w)
      BY <2>1, <2>3, DbPut DEF discard, rotate
    <2>4. CASE write_sidecar(w) \/ discard_sidecar(w) \/ rotate_sidecar(w)
      BY <2>1, <2>4, SidecarPut DEF write_sidecar, discard_sidecar, rotate_sidecar
    <2>5. \/ backups' = backups \/ copy_database(w) \/ discard(w) \/ rotate(w)
          \/ write_sidecar(w) \/ discard_sidecar(w) \/ rotate_sidecar(w)
      BY DEF begin, backup_step, recheck_due, reserve_backup_sequence, copy_refused,
         backup_made, rotated
    <2> QED BY <2>2, <2>3, <2>4, <2>5
  <1> QED BY <1>1, <1>2, <1>3 DEF Quiet, Claims

\* Nor does what is done with the lock.
LEMMA LockIsQuiet ==
  ASSUME FileInv, EndInv, NEW w \in Worker, lock_step(w)
  PROVE  Quiet
  <1>1. UNCHANGED <<db, backups, snapshot, service, writes, sessions, losses, restores>>
    BY DEF lock_step, acquire_lock, lock_refused, write_record, release_lock, environment
  <1>2. PICK to \in {"locking", "idle", "verify", "recheck"} :
          /\ Goto(w, pc[w], to) /\ pc[w] \in {"lock", "locking", "release"}
          /\ pc[w] = "release" => to = "idle"
    BY DEF lock_step, acquire_lock, lock_refused, write_record, release_lock, Goto
  <1>3. pc'[w] = to /\ \A v \in Worker \ {w} : pc'[v] = pc[v]
    BY <1>2, Went
  <1>4. \A v \in Worker \ {w} : mem'[v] = mem[v]
    BY DEF lock_step, acquire_lock, lock_refused, write_record, release_lock, FileInv, FileTypes
  <1> QED BY <1>1, <1>2, <1>3, <1>4
    DEF Quiet, SameVersion, Claims, Claiming, Snapped, Replaced, Worker

\* Nor the steps of a restore that write nothing.
LEMMA RestoreIsQuiet ==
  ASSUME FileInv, EndInv, NEW w \in Restorer,
         confirm(w) \/ cancel(w) \/ stop_service(w) \/ restore_refused(w) \/ restore_raises(w)
  PROVE  Quiet
  <1>1. /\ UNCHANGED <<db, backups, snapshot, writes, sessions, losses, restores>>
        /\ service' \in {service, "down"}
    BY DEF confirm, cancel, stop_service, restore_refused, restore_raises, environment
  <1>2. w \in Worker /\ pc \in [Worker -> Steps] /\ \A v \in Restorer : v \in Worker /\ v \notin Web
    BY MaintenanceAssumption DEF FileInv, LockInv, Worker
  <1>3. PICK to \in {"stop", "idle", "lock", "release", "roll_back"} :
          /\ pc'[w] = to /\ \A v \in Restorer \ {w} : pc'[v] = pc[v] /\ mem'[v] = mem[v]
          /\ to \in {"stop", "idle", "lock"} => pc[w] \in {"confirm", "stop"}
          /\ to = "release" => pc[w] = "verify"
          /\ to = "roll_back" => pc[w] = "invalidate" /\ mem' = mem
    <2>1. CASE stop_service(w)
      BY <1>2, <2>1 DEF stop_service, Kill
    <2>2. CASE cancel(w)
      BY <1>2, <2>2 DEF cancel, FileInv, FileTypes
    <2>3. CASE confirm(w) \/ restore_refused(w) \/ restore_raises(w)
      BY <1>2, <2>3 DEF confirm, restore_refused, restore_raises, Goto
    <2> QED BY <2>1, <2>2, <2>3
  <1> QED BY <1>1, <1>3 DEF Quiet, SameVersion, Claims, Claiming, Snapped, Replaced

\* While one is at work no other restore is behind its snapshot.
LEMMA OthersNotSnapped ==
  ASSUME FileInv, NEW w \in Worker, pc[w] \in Holding, NEW v \in Worker, v # w
  PROVE  pc[v] \notin Snapped /\ pc[v] \notin Replaced
  BY LockInvImplies DEF FileInv, LockInv, LockExcludes, Holding, Steps, Snapped, Replaced

\* Nor a kill, unless the database was replaced.
LEMMA CrashKeepsEnd ==
  ASSUME FileInv, EndInv, NEW w \in Tool \cup Restorer, crash(w)
  PROVE  EndInv'
  <1>1. UNCHANGED <<db, backups, snapshot, service, writes, losses, restores>>
    BY DEF crash
  <1>2. \A v \in Worker : IF v = w THEN pc'[v] = "idle" ELSE pc'[v] = pc[v] /\ mem'[v] = mem[v]
    BY DEF crash, Kill
  <1>3. CASE pc[w] \in Replaced /\ db \notin Lost
    <2> DEFINE low == {v \in sessions.ended \cup {sessions.current} : v >= db.session_version}
    <2>1. sessions' = [sessions EXCEPT !.spared = sessions.spared \cup low]
      BY <1>3 DEF crash, Replaced
    <2>2. /\ sessions \in [current : Nat, ended : SUBSET Nat, spared : SUBSET Nat]
          /\ db.session_version \in Nat
      BY <1>3, Numbers DEF EndInv, Bounds
    <2>3. /\ sessions' \in [current : Nat, ended : SUBSET Nat, spared : SUBSET Nat]
          /\ sessions'.current = sessions.current /\ sessions'.ended = sessions.ended
          /\ sessions'.spared = sessions.spared \cup low
      BY <2>1, <2>2
    <2>4. Claims' \subseteq Claims
      BY <1>2 DEF Claims, Claiming, Worker
    <2>5. IsFiniteSet(Claims') /\ Room' \in Int /\ Room <= Room' /\ Room \in Int
      BY <1>1, <2>4, FewerClaims, RoomIs DEF EndInv
    <2>6. Bounds'
      BY <1>1, <2>3, <2>5 DEF EndInv, Bounds
    <2>7. \A v \in Nat : Counted(v) => Reached(v)
      BY <2>5 DEF Counted, Reached
    <2>8. CountInv'
      BY <1>1, <2>2, <2>3, <2>7, Numbers DEF EndInv, CountInv, Counted, Reached
    <2>9. Above(db.session_version)'
      BY <1>1, <2>2, <2>3 DEF Above
    <2>10. \A v \in Restorer : pc'[v] \notin Snapped
      BY <1>2, <1>3, OthersNotSnapped DEF Holding, Steps, Snapped, Replaced, Worker
    <2>11. AboveInv'
      BY <1>1, <2>9, <2>10 DEF AboveInv
    <2> QED BY <2>6, <2>8, <2>11 DEF EndInv
  <1>4. CASE ~(pc[w] \in Replaced /\ db \notin Lost)
    <2>1. sessions' = sessions
      BY <1>4 DEF crash, Replaced
    <2>2. CASE pc[w] \notin Replaced
      <3>1. Quiet
        BY <1>1, <1>2, <2>1, <2>2
          DEF Quiet, SameVersion, Claims, Claiming, Snapped, Replaced, Worker
      <3> QED BY <3>1, QuietKeepsEnd
    <2>3. CASE pc[w] \in Replaced /\ db \in Lost
      <3>1. Claims' \subseteq Claims
        BY <1>2 DEF Claims, Claiming, Worker
      <3>2. IsFiniteSet(Claims') /\ Room' \in Int /\ Room <= Room' /\ Room \in Int
        BY <1>1, <3>1, FewerClaims, RoomIs DEF EndInv
      <3>3. Bounds'
        BY <1>1, <2>1, <3>2 DEF EndInv, Bounds
      <3>4. \A v \in Nat : Counted(v) => Reached(v)
        BY <3>2 DEF Counted, Reached
      <3>5. sessions.current \in Nat /\ sessions.ended \in SUBSET Nat
        BY DEF EndInv, Bounds
      <3>6. CountInv'
        BY <1>1, <2>1, <3>4, <3>5, Numbers DEF EndInv, CountInv, Counted, Reached
      <3>7. \A v \in Restorer : pc'[v] \notin Snapped
        BY <1>2, <2>3, OthersNotSnapped DEF Holding, Steps, Snapped, Replaced, Worker
      <3>8. AboveInv'
        BY <1>1, <2>3, <3>7 DEF AboveInv
      <3> QED BY <3>3, <3>6, <3>8 DEF EndInv
    <2> QED BY <1>4, <2>2, <2>3
  <1> QED BY <1>3, <1>4

LEMMA WorldIsQuiet ==
  ASSUME FileInv, EndInv, crash_service \/ tick \/ UNCHANGED vars
  PROVE  Quiet
  <1>1. /\ UNCHANGED <<db, backups, snapshot, writes, sessions, losses, restores>>
        /\ service' \in {service, "down"}
    BY DEF crash_service, tick, vars
  <1>2. \A v \in Restorer : pc'[v] = pc[v] /\ mem'[v] = mem[v]
    BY MaintenanceAssumption DEF crash_service, tick, vars, Kill, Worker
  <1> QED BY <1>1, <1>2 DEF Quiet, SameVersion, Claims

-----------------------------------------------------------------------------
(* The steps that end sessions, and those that change what is above *)

LEMMA SelectKeepsEnd ==
  ASSUME FileInv, EndInv, NEW w \in Restorer, select(w)
  PROVE  EndInv'
  <1>1. /\ UNCHANGED <<db, backups, snapshot, service, writes, sessions, losses>>
        /\ restores' = restores + 1 /\ restores < MaxRestores
        /\ \A v \in Worker \ {w} : mem'[v] = mem[v]
        /\ w \in Worker
    BY DEF select, FileInv, FileTypes, Worker
  <1>2. /\ pc'[w] = "confirm" /\ pc[w] = "idle" /\ \A v \in Worker \ {w} : pc'[v] = pc[v]
    BY <1>1, Went DEF select
  <1>3. Claims' = Claims \cup {w}
    BY <1>1, <1>2 DEF Claims, Claiming, Worker
  <1>4. IsFiniteSet(Claims') /\ Room' \in Int /\ Room <= Room' /\ Room \in Int
    BY <1>1, <1>3, MoreClaims, RoomIs DEF EndInv
  <1>5. Bounds'
    BY <1>1, <1>4, MaintenanceAssumption DEF EndInv, Bounds
  <1>6. \A v \in Nat : Counted(v) => Reached(v)
    BY <1>4 DEF Counted, Reached
  <1>7. sessions.current \in Nat /\ sessions.ended \in SUBSET Nat
    BY DEF EndInv, Bounds
  <1>8. CountInv'
    BY <1>1, <1>6, <1>7, Numbers DEF EndInv, CountInv, Counted, Reached
  <1>9. AboveInv'
    BY <1>1, <1>2 DEF EndInv, AboveInv, Above, Snapped, Replaced, Worker
  <1> QED BY <1>5, <1>8, <1>9 DEF EndInv

\* The version that a restore remembers is the one of the snapshot.
LEMMA SnapshotKeepsEnd ==
  ASSUME FileInv, EndInv, NEW w \in Restorer, pre_restore_snapshot(w)
  PROVE  EndInv'
  <1>1. /\ UNCHANGED <<db, backups, service, writes, sessions, losses, restores>>
        /\ snapshot' = db /\ w \in Worker
        /\ mem'[w].seen = session_version_high_water
    BY DEF pre_restore_snapshot, environment, FileInv, FileTypes, Worker
  <1>2. /\ pc'[w] = "replace" /\ pc[w] = "verify" /\ \A v \in Worker \ {w} : pc'[v] = pc[v]
    BY <1>1, Went DEF pre_restore_snapshot
  <1>3. Claims' = Claims
    BY <1>1, <1>2 DEF Claims, Claiming, Worker
  <1>4. Room' = Room /\ IsFiniteSet(Claims')
    BY <1>1, <1>3 DEF Room, EndInv, Bounds
  <1>5. \A v \in Worker \ {w} : pc[v] \notin Snapped /\ pc[v] \notin Replaced
    BY <1>1, <1>2, OthersNotSnapped DEF Holding, Steps
  <1>6. session_version_high_water = IF db \in Lost THEN 0 ELSE db.session_version
    BY DEF session_version_high_water
  <1>7. Bounds'
    BY <1>1, <1>4 DEF EndInv, Bounds
  <1>8. CountInv'
    BY <1>1, <1>4 DEF EndInv, CountInv, Counted, Reached
  <1>9. AboveInv'
    <2>1. \A v \in Restorer : pc[v] \notin Replaced
      BY <1>2, <1>5 DEF Replaced, Worker
    <2>2. db \notin Lost => Above(db.session_version)
      BY <2>1 DEF EndInv, AboveInv
    <2> QED BY <1>1, <1>2, <1>5, <1>6, <2>2 DEF AboveInv, Above, Snapped, Worker
  <1> QED BY <1>7, <1>8, <1>9 DEF EndInv

\* What is put in place may have any version, while the restore goes on.
LEMMA ReplaceKeepsEnd ==
  ASSUME FileInv, EndInv, NEW w \in Restorer, replace(w)
  PROVE  EndInv'
  <1>1. /\ UNCHANGED <<backups, snapshot, mem, service, writes, sessions, losses, restores>>
        /\ db' = backups[mem[w].number].db /\ w \in Worker
    BY DEF replace, environment, Worker
  <1>2. /\ pc'[w] = "invalidate" /\ pc[w] = "replace" /\ \A v \in Worker \ {w} : pc'[v] = pc[v]
    BY <1>1, Went DEF replace
  <1>3. Claims' = Claims
    BY <1>1, <1>2 DEF Claims, Claiming, Worker
  <1>4. Room' = Room /\ IsFiniteSet(Claims')
    BY <1>1, <1>3 DEF Room, EndInv, Bounds
  <1>5. mem[w].number \in Number /\ Verified(mem[w].number)
    BY <1>1, <1>2 DEF FileInv, RestoreInv
  <1>6. db' \in AnyDb /\ db' # Absent /\ db' \notin Lost
    BY <1>1, <1>5, VerifiedIs, Apart DEF FileInv, FileTypes
  <1>7. Bounds'
    BY <1>1, <1>4, <1>6 DEF EndInv, Bounds
  <1>8. CountInv'
    BY <1>1, <1>4, <1>5, <1>6 DEF EndInv, CountInv, Counted, Reached
  <1>9. AboveInv'
    <2>1. pc'[w] \in Replaced
      BY <1>2 DEF Replaced
    <2> QED BY <1>1, <1>2, <2>1 DEF EndInv, AboveInv, Above, Snapped, Worker
  <1> QED BY <1>7, <1>8, <1>9 DEF EndInv

(***************************************************************************)
(* The transaction that ends the sessions counts above the version of the  *)
(* snapshot, or above the number it draws; what either leaves is spared.   *)
(***************************************************************************)
LEMMA AuditKeepsEnd ==
  ASSUME FileInv, EndInv, NEW w \in Restorer, record_restore_audit(w)
  PROVE  EndInv'
  <1>1. PICK h \in invalidation_floor(mem[w].seen) :
          /\ db' = [db EXCEPT !.session_version = Max({db.session_version, h}) + 1]
          /\ sessions' = [sessions EXCEPT
               !.ended = sessions.ended \cup {sessions.current},
               !.spared = {v \in sessions.spared \cup Uncovered :
                               v >= Max({db.session_version, h}) + 1}]
    BY DEF record_restore_audit, next_session_version
  <1> DEFINE next == Max({db.session_version, h}) + 1
             ended == sessions.ended \cup {sessions.current}
             spared == {v \in sessions.spared \cup Uncovered : v >= next}
  <1>2. /\ UNCHANGED <<backups, snapshot, mem, service, writes, losses, restores>>
        /\ db \notin Lost /\ db \in AnyDb /\ w \in Worker
    BY DEF record_restore_audit, FileInv, FileTypes, Worker
  <1>3. /\ pc'[w] = "release" /\ pc[w] = "invalidate" /\ \A v \in Worker \ {w} : pc'[v] = pc[v]
    BY <1>2, Went DEF record_restore_audit
  <1>4. w \in Claims /\ Claims' = Claims \ {w}
    BY <1>2, <1>3 DEF Claims, Claiming, Worker
  <1>5. /\ Room' = Room + 1 /\ IsFiniteSet(Claims') /\ Room \in Int
        /\ Room < Unknown /\ Unknown \in Nat
    BY <1>2, <1>4, ClaimTaken, RoomIs DEF EndInv
  <1>6. \A v \in Worker : pc'[v] \notin Snapped /\ pc'[v] \notin Replaced
    BY <1>2, <1>3, OthersNotSnapped DEF Holding, Steps, Snapped, Replaced
  <1>7. /\ snapshot = Corrupt => h >= Unknown
        /\ snapshot # Corrupt => h = mem[w].seen
    <2>1. Unknown \in Nat /\ Spread \in Nat /\ mem[w].seen \in Nat
      BY <1>2, Numbers, MaintenanceAssumption
    <2> QED BY <2>1 DEF invalidation_floor
  <1>8. h \in Nat
    BY <1>2, Numbers, MaintenanceAssumption DEF invalidation_floor
  <1>9. /\ db.session_version \in Nat /\ next \in Nat
        /\ h < next /\ db.session_version < next
        /\ next = h + 1 \/ next = db.session_version + 1
    <2>1. db.session_version \in Nat
      BY <1>2, Numbers
    <2>2. {db.session_version, h} \in SUBSET (0 .. db.session_version + h)
          /\ db.session_version + h \in Nat
      BY <1>8, <2>1
    <2>3. Max({db.session_version, h}) \in {db.session_version, h}
      BY <2>2, MaxIs
    <2> QED BY <1>8, <2>1, <2>3, MaxOfTwo
  <1>10. db' = [db EXCEPT !.session_version = next]
         /\ sessions' = [sessions EXCEPT !.ended = ended, !.spared = spared]
    BY <1>1
  <1>11. /\ sessions \in [current : Nat, ended : SUBSET Nat, spared : SUBSET Nat]
         /\ sessions.current \in Nat /\ sessions.ended \in SUBSET Nat
         /\ sessions.spared \in SUBSET Nat
    BY DEF EndInv, Bounds
  <1>12. ended \in SUBSET Nat /\ spared \in SUBSET Nat
    BY <1>11 DEF Uncovered
  <1>13. \A e \in ended \ spared : e < next
    <2> SUFFICES ASSUME NEW e \in ended, e \notin spared, ~(e < next)  PROVE FALSE
      OBVIOUS
    <2>0. e \in Nat /\ e >= next
      BY <1>9, <1>12
    <2>1. e \notin sessions.spared /\ e \notin Uncovered
      BY <2>0
    <2>2. e \in Nat /\ h < e
      BY <1>8, <1>9, <1>12, <2>0
    <2>3. CASE snapshot = Missing
      <3>1. Uncovered = ended
        BY <2>3 DEF Uncovered
      <3> QED BY <2>1, <3>1
    <2>4. CASE snapshot = Corrupt
      <3>1. {v \in ended : v >= Unknown} \subseteq Uncovered
        BY <2>4 DEF Uncovered
      <3>2. e < Unknown
        BY <1>5, <2>1, <2>2, <3>1
      <3> QED BY <1>5, <1>7, <1>8, <2>2, <2>4, <3>2
    <2>5. CASE snapshot \notin Lost
      <3>1. h = mem[w].seen /\ Above(h)
        BY <1>3, <1>7, <2>5 DEF EndInv, AboveInv, Snapped, Lost
      <3> QED BY <1>8, <1>11, <2>1, <2>2, <3>1 DEF Above
    <2> QED BY <2>3, <2>4, <2>5 DEF Lost
  <1>14. sessions.current <= next \/ sessions.current \in spared
    BY <1>9, <1>11, <1>13
  <1>15. Reached(next)
    <2>1. Counted(db.session_version)
      BY <1>2 DEF EndInv, CountInv
    <2>2. CASE snapshot \notin Lost
      <3>1. Counted(h)
        BY <1>3, <1>7, <2>2 DEF EndInv, AboveInv, CountInv, Snapped, Lost
      <3> QED BY <1>5, <1>8, <1>9, <2>1, <3>1 DEF Counted, Reached
    <2>3. CASE snapshot = Corrupt
      BY <1>5, <1>7, <1>8, <1>9, <2>1, <2>3 DEF Counted, Reached
    <2>4. CASE snapshot = Missing
      <3>1. h = 0
        BY <1>3, <1>7, <2>4 DEF EndInv, AboveInv, Snapped, Lost, Missing, Corrupt
      <3>2. next = db.session_version + 1
        BY <1>9, <3>1
      <3> QED BY <1>5, <1>9, <2>1, <3>2 DEF Counted, Reached
    <2> QED BY <2>2, <2>3, <2>4 DEF Lost, Counted, Reached
  <1> HIDE DEF next, ended, spared
  <1>16. db' \in AnyDb /\ db'.session_version = next /\ db' \notin Lost
    <2>1. db' \in AnyDb /\ db'.session_version = next
      BY <1>2, <1>9, <1>10 DEF AnyDb
    <2> QED BY <2>1, Apart
  <1>17. /\ sessions'.current = sessions.current
         /\ sessions'.ended = ended /\ sessions'.spared = spared
         /\ sessions' \in [current : Nat, ended : SUBSET Nat, spared : SUBSET Nat]
    BY <1>10, <1>11, <1>12
  <1>18. Bounds'
    BY <1>2, <1>5, <1>16, <1>17 DEF EndInv, Bounds
  <1>19. CountInv'
    <2>1. \A v \in Nat : Counted(v) => Reached(v)
      BY <1>5 DEF Counted, Reached
    <2>2. Reached(db'.session_version)
      BY <1>15, <1>16
    <2>3. /\ snapshot' \notin Lost => Reached(snapshot'.session_version)
          /\ \A n \in Number : backups'[n].db # Absent => Reached(backups'[n].db.session_version)
      BY <1>2, <2>1, Numbers DEF EndInv, CountInv, Counted, Reached
    <2>4. Reached(sessions'.current) /\ \A e \in sessions'.ended : Reached(e)
      BY <1>11, <1>17, <2>1 DEF EndInv, CountInv, ended, Counted, Reached
    <2> QED BY <2>2, <2>3, <2>4 DEF CountInv, Counted, Reached
  <1>20. AboveInv'
    BY <1>6, <1>13, <1>14, <1>16, <1>17 DEF AboveInv, Above, Worker
  <1> QED BY <1>18, <1>19, <1>20 DEF EndInv

LEMMA RollBackKeepsEnd ==
  ASSUME FileInv, EndInv, NEW w \in Restorer, roll_back(w)
  PROVE  EndInv'
  <1>1. /\ UNCHANGED <<backups, snapshot, mem, service, writes, sessions, losses, restores>>
        /\ db' = snapshot /\ w \in Worker
    BY DEF roll_back, environment, Worker
  <1>2. /\ pc'[w] = "release" /\ pc[w] = "roll_back" /\ \A v \in Worker \ {w} : pc'[v] = pc[v]
    BY <1>1, Went DEF roll_back
  <1>3. Claims' = Claims
    BY <1>1, <1>2 DEF Claims, Claiming, Worker
  <1>4. Room' = Room /\ IsFiniteSet(Claims')
    BY <1>1, <1>3 DEF Room, EndInv, Bounds
  <1>5. \A v \in Worker : pc'[v] \notin Snapped /\ pc'[v] \notin Replaced
    BY <1>1, <1>2, OthersNotSnapped DEF Holding, Steps, Snapped, Replaced
  <1>6. service = "down"
    BY <1>1, <1>2 DEF FileInv, Roles
  <1>7. Bounds'
    BY <1>1, <1>4, <1>6 DEF EndInv, Bounds
  <1>8. CountInv'
    BY <1>1, <1>4 DEF EndInv, CountInv, Counted, Reached
  <1>9. AboveInv'
    <2>1. snapshot \notin Lost => Above(snapshot.session_version)
      BY <1>1, <1>2 DEF EndInv, AboveInv, Snapped
    <2> QED BY <1>1, <1>5, <2>1 DEF AboveInv, Above, Worker
  <1> QED BY <1>7, <1>8, <1>9 DEF EndInv

LEMMA StartKeepsEnd ==
  ASSUME FileInv, EndInv, start_service
  PROVE  EndInv'
  <1>1. /\ UNCHANGED <<db, backups, snapshot, pc, mem, writes, losses, restores>>
        /\ db \notin Lost
        /\ sessions' = [sessions EXCEPT !.current = db.session_version]
    BY DEF start_service
  <1>2. \A w \in Restorer : pc[w] \notin Snapped /\ pc[w] \notin Replaced
    BY DEF start_service, Restoring, Snapped, Replaced
  <1>3. Room' = Room /\ Claims' = Claims
    BY <1>1 DEF Room, Claims
  <1>4. /\ sessions'.current = db.session_version /\ sessions'.spared = sessions.spared
        /\ sessions'.ended = sessions.ended /\ db.session_version \in Nat
        /\ sessions' \in [current : Nat, ended : SUBSET Nat, spared : SUBSET Nat]
    BY <1>1, Numbers DEF EndInv, Bounds
  <1>5. Bounds'
    BY <1>1, <1>3, <1>4 DEF EndInv, Bounds
  <1>6. CountInv'
    BY <1>1, <1>3, <1>4 DEF EndInv, CountInv, Counted, Reached
  <1>7. AboveInv'
    <2>1. Above(db.session_version)
      BY <1>1, <1>2 DEF EndInv, AboveInv
    <2> QED BY <1>1, <1>2, <1>4, <2>1 DEF AboveInv, Above
  <1> QED BY <1>5, <1>6, <1>7 DEF EndInv

LEMMA WriteKeepsEnd ==
  ASSUME FileInv, EndInv, NEW b \in Endings, write(b)
  PROVE  EndInv'
  <1> DEFINE old == db.session_version
             version == IF b THEN old + 1 ELSE old
             gone == IF b THEN {old} ELSE {}
             spared == {v \in sessions.spared : v >= version}
  <1>1. /\ UNCHANGED <<backups, snapshot, service, pc, mem, losses, restores>>
        /\ service = "up" /\ db \notin Lost /\ writes < MaxWrites /\ writes' = writes + 1
        /\ db' = [db EXCEPT !.content = writes + 1, !.data_sequence = db.data_sequence + 1,
                            !.session_version = version]
        /\ sessions' = [sessions EXCEPT !.current = version, !.ended = sessions.ended \cup gone,
                                        !.spared = spared]
    BY DEF write
  <1>2. /\ old \in Nat /\ version \in Nat /\ old <= version /\ version <= old + 1
        /\ gone \in SUBSET {old} /\ \A e \in gone : e < version
        /\ version = old \/ version = old + 1
    BY <1>1, Numbers
  <1>3. \A w \in Restorer : pc[w] \notin Snapped /\ pc[w] \notin Replaced
    BY <1>1 DEF FileInv, Roles, Worker, Snapped, Replaced
  <1>4. /\ sessions \in [current : Nat, ended : SUBSET Nat, spared : SUBSET Nat]
        /\ sessions.ended \in SUBSET Nat /\ sessions.spared \in SUBSET Nat
    BY DEF EndInv, Bounds
  <1>5. \A e \in (sessions.ended \cup gone) \ spared : e < version
    <2>1. \A e \in sessions.ended \ sessions.spared : e < old
      BY <1>1, <1>3 DEF EndInv, AboveInv, Above
    <2> QED BY <1>2, <1>4, <2>1
  <1> HIDE DEF version, gone, spared
  <1>6. Room' = Room + 1 /\ Claims' = Claims /\ Room \in Int
    <2>1. Claims' = Claims /\ Room \in Int /\ Cardinality(Claims) \in Nat
          /\ writes \in Nat /\ restores \in Nat
      BY <1>1, RoomIs, MaintenanceAssumption
        DEF Claims, EndInv, Bounds, FileInv, FileTypes
    <2> QED BY <1>1, <2>1 DEF Room
  <1>7. db' \notin Lost /\ db'.session_version = version
    <2>1. db \in AnyDb /\ writes + 1 \in Nat /\ db.data_sequence + 1 \in Nat
      BY <1>1 DEF FileInv, FileTypes, AnyDb
    <2>2. db' \in AnyDb /\ db'.session_version = version
      BY <1>1, <1>2, <2>1 DEF AnyDb
    <2> QED BY <2>2, Apart
  <1>8. /\ sessions'.current = version /\ sessions'.spared = spared
        /\ sessions'.ended = sessions.ended \cup gone
        /\ sessions' \in [current : Nat, ended : SUBSET Nat, spared : SUBSET Nat]
    <2>1. spared \in SUBSET Nat
      BY <1>4 DEF spared
    <2> QED BY <1>1, <1>2, <1>4, <2>1
  <1>9. Bounds'
    <2>1. writes' <= MaxWrites
      BY <1>1, MaintenanceAssumption DEF FileInv, FileTypes
    <2> QED BY <1>1, <1>6, <1>7, <1>8, <2>1 DEF EndInv, Bounds
  <1>10. CountInv'
    <2>1. \A v \in Nat : Counted(v) => Reached(v)
      BY <1>6 DEF Counted, Reached
    <2>2. Counted(old)
      BY <1>1 DEF EndInv, CountInv
    <2>3. Reached(version)
      BY <1>2, <1>6, <2>2, MaintenanceAssumption DEF Counted, Reached
    <2>4. /\ snapshot' \notin Lost => Reached(snapshot'.session_version)
          /\ \A n \in Number : backups'[n].db # Absent => Reached(backups'[n].db.session_version)
      BY <1>1, <2>1, Numbers DEF EndInv, CountInv, Counted, Reached
    <2>5. \A e \in sessions'.ended : Reached(e)
      BY <1>2, <1>4, <1>8, <2>1, <2>2 DEF EndInv, CountInv, Counted, Reached
    <2> QED BY <1>7, <1>8, <2>3, <2>4, <2>5 DEF CountInv, Counted, Reached
  <1>11. AboveInv'
    BY <1>1, <1>2, <1>3, <1>5, <1>7, <1>8 DEF AboveInv, Above
  <1> QED BY <1>9, <1>10, <1>11 DEF EndInv

\* What is lost says nothing until it is replaced.
LEMMA LossKeepsEnd ==
  ASSUME FileInv, EndInv, NEW kind \in Losses, lose_database(kind)
  PROVE  EndInv'
  <1>1. /\ UNCHANGED <<backups, snapshot, writes, sessions, restores>>
        /\ service' = "down" /\ db' \in Lost
    BY MaintenanceAssumption DEF lose_database, Lost, Missing, Corrupt
  <1>2. \A v \in Restorer : pc'[v] = pc[v] /\ mem'[v] = mem[v]
    BY MaintenanceAssumption DEF lose_database, Kill, Worker
  <1>3. Claims' = Claims /\ Room' = Room
    BY <1>1, <1>2 DEF Claims, Room
  <1>4. Bounds'
    BY <1>1, <1>3 DEF EndInv, Bounds
  <1>5. CountInv'
    BY <1>1, <1>3 DEF EndInv, CountInv, Counted, Reached
  <1>6. AboveInv'
    BY <1>1, <1>2 DEF EndInv, AboveInv, Above
  <1> QED BY <1>4, <1>5, <1>6 DEF EndInv

LEMMA InitEnd == Init => EndInv
  <1> SUFFICES ASSUME Init  PROVE EndInv
    OBVIOUS
  <1>1. Claims = {} /\ \A w \in Restorer : pc[w] \notin Snapped /\ pc[w] \notin Replaced
    BY DEF Init, Claims, Claiming, Worker, Snapped, Replaced
  <1>2. Cardinality(Claims) = 0 /\ IsFiniteSet(Claims)
    BY <1>1, FS_EmptySet
  <1>3. Room = 1
    BY <1>2 DEF Init, Room
  <1>4. db.session_version = 1 /\ db \in AnyDb /\ db \notin Lost
    <2>1. db.session_version = 1 /\ db \in AnyDb
      BY DEF Init, AnyDb
    <2> QED BY <2>1, Apart
  <1>5. sessions = [current |-> 1, ended |-> {}, spared |-> {}]
    BY DEF Init
  <1>6. Bounds
    BY <1>2, <1>4, <1>5, MaintenanceAssumption DEF Init, Bounds
  <1>7. CountInv
    BY <1>3, <1>4, <1>5 DEF Init, CountInv, Counted, NoFile, Lost, Reached
  <1>8. AboveInv
    BY <1>1, <1>4, <1>5 DEF AboveInv, Above
  <1> QED BY <1>6, <1>7, <1>8 DEF EndInv

LEMMA NextKeepsEnd ==
  ASSUME FileInv, EndInv, [Next]_vars
  PROVE  EndInv'
  <1>1. ASSUME NEW w \in Restorer, restore_step(w)  PROVE EndInv'
    BY <1>1, SelectKeepsEnd, SnapshotKeepsEnd, ReplaceKeepsEnd, AuditKeepsEnd, RollBackKeepsEnd,
       RestoreIsQuiet, QuietKeepsEnd DEF restore_step
  <1>2. CASE \/ \E w \in Tool, mode \in Modes : start_backup(w, mode)
             \/ \E w \in Web : run_backup(w)
             \/ \E w \in Tool \cup Web : backup_step(w)
    BY <1>2, BackupIsQuiet, QuietKeepsEnd DEF start_backup, run_backup
  <1>3. CASE \/ \E w \in Worker : lock_step(w)
             \/ \E w \in Tool \cup Restorer : crash(w)
             \/ crash_service \/ tick \/ UNCHANGED vars
    BY <1>3, LockIsQuiet, CrashKeepsEnd, WorldIsQuiet, QuietKeepsEnd
  <1>4. CASE start_service \/ (\E b \in Endings : write(b)) \/ \E kind \in Losses : lose_database(kind)
    BY <1>4, StartKeepsEnd, WriteKeepsEnd, LossKeepsEnd
  <1> QED BY <1>1, <1>2, <1>3, <1>4 DEF Next

\* A session that was ended, by a reset password or by a restore, is never valid
\* again, except the versions that restore.py does not count above: after a kill
\* between os.replace and _record_restore_audit, over a database that is missing,
\* and those counted from a drawn number when another is drawn.  Over a database
\* it can read, restore.py counts above the version of the backup and above the
\* one it found, however many losses, writes, restores and kills came before.
THEOREM SessionsAlwaysEnded == Spec => []SessionsEnd
  <1>1. FileInv /\ EndInv /\ [Next]_vars => (FileInv /\ EndInv)'
    BY NextKeepsFiles, NextKeepsEnd
  <1>2. Spec => [](FileInv /\ EndInv)
    BY <1>1, InitFiles, InitEnd, PTL DEF Spec
  <1> QED BY <1>2, SessionsEndInside, PTL

=============================================================================
