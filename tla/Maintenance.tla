---------------------------- MODULE Maintenance ----------------------------
(***************************************************************************)
(* Backups and restores of one installation: backup.py (the daily task,    *)
(* the catch-up at the start of the service and the manual run), the       *)
(* "back up now" request of the web service, restore.py behind the         *)
(* operator's menu entry, and the maintenance lock they share.             *)
(*                                                                         *)
(* A worker is one run of a tool or one web request; it is killed at any   *)
(* step.  The bookings in the database are abstracted to the number of the *)
(* last write they contain, and the users to one user, of whom only the    *)
(* session version matters.                                                *)
(***************************************************************************)
EXTENDS Integers, FiniteSets, FiniteSetsExt

CONSTANTS Tool, Web, Restorer,  \* workers: backup.py, web requests, restores
          Modes,                \* how backup.py is run
          Keep,                 \* BACKUP_KEEP_COUNT
          DayLength,            \* clock ticks per day
          Losses,               \* what may happen to the database file
          Endings,              \* whether writes end the sessions of the user
          Unknown, Spread,      \* the session version an unreadable file is taken to
                                \* have is drawn from Unknown, 2^61, and the Spread
                                \* numbers above it
          MaxWrites, MaxNumber, MaxTime, MaxLosses, MaxRestores  \* bounds

ASSUME MaintenanceAssumption ==
    /\ Keep \in Nat \ {0} /\ DayLength \in Nat \ {0}
    /\ MaxWrites \in Nat /\ MaxNumber \in Nat /\ MaxTime \in Nat /\ MaxLosses \in Nat
    /\ MaxRestores \in Nat /\ Unknown \in Nat /\ Spread \in Nat
    /\ 1 + MaxWrites + MaxRestores < Unknown
    /\ Losses \subseteq {"missing", "corrupt"} /\ Endings \subseteq BOOLEAN
    /\ Modes \subseteq {"scheduled", "catch_up", "manual"}
    /\ Tool \cap Web = {} /\ Tool \cap Restorer = {} /\ Web \cap Restorer = {}
    /\ {"free", "torn", "stale"} \cap (Tool \cup Web \cup Restorer) = {}

VARIABLES db,        \* data/reservation.db
          backups,   \* number -> the database file and the sidecar of that number
          snapshot,  \* the last pre-restore snapshot
          lock,      \* data/maintenance.lock
          service,   \* "up" or "down"
          now,       \* the clock
          pc, mem,   \* the workers: next step, and what they remember
          writes,    \* writes so far
          sessions,  \* session versions: current when the service last ran,
                     \* the ones that were ended, and those of them that two
                     \* gaps of a restore may make valid again
          losses,    \* losses so far
          restores   \* restores begun so far

vars == <<db, backups, snapshot, lock, service, now, pc, mem, writes, sessions, losses,
          restores>>

Worker == Tool \cup Web \cup Restorer
Number == 1 .. MaxNumber

Version == 1 .. Unknown + Spread + MaxWrites + MaxRestores + 1

Db == [content : 0 .. MaxWrites, data_sequence : 0 .. MaxWrites,
       backup_sequence : 0 .. MaxNumber, session_version : Version]

Missing == [kind |-> "missing"]
Corrupt == [kind |-> "corrupt"]
Lost == {Missing, Corrupt}
Absent == [kind |-> "absent"]

\* The sidecar names the hash of its database file: here the file itself.
Sidecar == [file : Db, source_data_sequence : 0 .. MaxWrites, created : 0 .. MaxTime]

File == [db : Db \cup {Absent}, sidecar : Sidecar \cup {Absent}]

NoFile == [db |-> Absent, sidecar |-> Absent]

Mode == {"scheduled", "catch_up", "manual", "restore"}

\* number: the reserved or the selected backup; seen: the data sequence of the
\* reservation, or the session versions' high-water mark.
Memory == [mode : Mode, number : 0 .. MaxNumber, seen : {0} \cup Version \cup 0 .. MaxWrites]

NoMemory == [mode |-> "manual", number |-> 0, seen |-> 0]

\* A lock file whose record is not written yet, and one whose process is gone.
Free == "free"
Torn == "torn"
Stale == "stale"

Steps == {"idle", "lock", "locking", "recheck", "reserve", "copy", "sidecar",
          "check", "discard_sidecar", "rotate", "rotate_sidecar",
          "confirm", "stop", "verify", "replace", "invalidate", "roll_back", "release"}

TypeOK ==
    /\ db \in Db \cup Lost
    /\ backups \in [Number -> File]
    /\ snapshot \in Db \cup Lost
    /\ lock \in Worker \cup {Free, Torn, Stale}
    /\ service \in {"up", "down"}
    /\ now \in 0 .. MaxTime
    /\ pc \in [Worker -> Steps] /\ mem \in [Worker -> Memory]
    /\ writes \in 0 .. MaxWrites
    /\ sessions \in [current : Version, ended : SUBSET Version, spared : SUBSET Version]
    /\ losses \in 0 .. MaxLosses /\ restores \in 0 .. MaxRestores

Init ==
    /\ db = [content |-> 0, data_sequence |-> 0, backup_sequence |-> 0,
             session_version |-> 1]
    /\ backups = [n \in Number |-> NoFile]
    /\ snapshot = Missing
    /\ lock = Free
    /\ service = "up"
    /\ now = 0
    /\ pc = [w \in Worker |-> "idle"] /\ mem = [w \in Worker |-> NoMemory]
    /\ writes = 0
    /\ sessions = [current |-> 1, ended |-> {}, spared |-> {}]
    /\ losses = 0 /\ restores = 0

-----------------------------------------------------------------------------
(* Reading the backups *)

\* load_backup_sidecar with verify_hash: file, sidecar and their agreement.
Verified(n) ==
    /\ backups[n].sidecar # Absent
    /\ backups[n].db = backups[n].sidecar.file
    /\ backups[n].db.data_sequence = backups[n].sidecar.source_data_sequence

Restorable == {n \in Number : Verified(n)}

Paired == {n \in Number : backups[n].db # Absent /\ backups[n].sidecar # Absent}

\* latest_backup_record: the highest number, not the latest time.
latest == Max(Restorable)

scheduled_backup_due(catch_up) ==
    Restorable # {} =>
        LET created == backups[latest].sidecar.created
        IN IF catch_up THEN now - created >= DayLength
           ELSE created \div DayLength < now \div DayLength

Due(mode) == mode \in {"scheduled", "catch_up"} => scheduled_backup_due(mode = "catch_up")

\* The names in use, whether or not their sidecars can be read.
filename_sequence_floor ==
    Max({0} \cup {n \in Number : backups[n] # NoFile})

-----------------------------------------------------------------------------
(* The maintenance lock *)

Goto(w, from, to) == pc[w] = from /\ pc' = [pc EXCEPT ![w] = to]

environment == <<service, now, writes, sessions, losses, restores>>

\* The guard file is held while a lock file is examined, made or removed.
Guarded == \E w \in Worker : pc[w] = "locking"

reclaimable_any == lock # Torn

reclaimable == lock \in {Free, Stale}

acquire_lock(w) ==
    /\ Goto(w, "lock", "locking")
    /\ ~Guarded /\ reclaimable
    /\ lock' = Torn
    /\ UNCHANGED <<db, backups, snapshot, mem, environment>>

lock_refused(w) ==
    /\ Goto(w, "lock", "idle")
    /\ Guarded \/ ~reclaimable
    /\ mem' = [mem EXCEPT ![w] = NoMemory]
    /\ UNCHANGED <<db, backups, snapshot, lock, environment>>

write_record(w) ==
    /\ Goto(w, "locking", IF mem[w].mode = "restore" THEN "verify" ELSE "recheck")
    /\ lock' = w
    /\ UNCHANGED <<db, backups, snapshot, mem, environment>>

\* Only a record with one's own token is removed.
release_lock(w) ==
    /\ Goto(w, "release", "idle")
    /\ ~Guarded
    /\ lock' = IF lock = w THEN Free ELSE lock
    /\ mem' = [mem EXCEPT ![w] = NoMemory]
    /\ UNCHANGED <<db, backups, snapshot, environment>>

-----------------------------------------------------------------------------
(* A backup *)

Restoring_late ==
    \E w \in Restorer : pc[w] \in {"invalidate", "roll_back", "release"}

\* The menu entry keeps both tasks disabled from the confirmation to the end.
Restoring == \E w \in Restorer : pc[w] \notin {"idle", "confirm"}

\* Nothing begins on an unreadable database.
begin(w, mode) ==
    /\ Goto(w, "idle", "lock")
    /\ db \notin Lost
    /\ db.backup_sequence < MaxNumber /\ filename_sequence_floor < MaxNumber
    /\ mem' = [mem EXCEPT ![w] = [NoMemory EXCEPT !.mode = mode]]
    /\ UNCHANGED <<db, backups, snapshot, lock, environment>>

\* The tool: its daily task is disabled by a restore; a run that is not due ends
\* here.
start_backup(w, mode) ==
    /\ w \in Tool
    /\ mode = "catch_up" => service = "up"
    /\ mode = "scheduled" => ~Restoring
    /\ Due(mode)
    /\ begin(w, mode)

\* The request of an administrator, who wants one whatever is there.
run_backup(w) == w \in Web /\ service = "up" /\ begin(w, "manual")

recheck_due_never(w) ==
    /\ Goto(w, "recheck", "reserve")
    /\ UNCHANGED <<db, backups, snapshot, lock, mem, environment>>

\* The second look, now under the lock.
recheck_due(w) ==
    /\ Goto(w, "recheck", IF Due(mem[w].mode) THEN "reserve" ELSE "release")
    /\ UNCHANGED <<db, backups, snapshot, lock, mem, environment>>

\* The valid sidecars' numbers are among the names.
next_number == Max({db.backup_sequence, filename_sequence_floor}) + 1

reserve_backup_sequence(w) ==
    /\ Goto(w, "reserve", "copy")
    /\ db \notin Lost /\ next_number <= MaxNumber
    /\ db' = [db EXCEPT !.backup_sequence = next_number]
    /\ mem' = [mem EXCEPT ![w].number = next_number, ![w].seen = db.data_sequence]
    /\ UNCHANGED <<backups, snapshot, lock, environment>>

\* The online copy is one read transaction of the database.  It is renamed to
\* its number only if no write came since the reservation.
Copied(w) ==
    /\ db \notin Lost
    /\ backups[mem[w].number] = NoFile
    /\ db.data_sequence = mem[w].seen

copy_database(w) ==
    /\ Goto(w, "copy", "sidecar")
    /\ Copied(w)
    /\ backups' = [backups EXCEPT ![mem[w].number].db = db]
    /\ UNCHANGED <<db, snapshot, lock, mem, environment>>

copy_refused(w) ==
    /\ Goto(w, "copy", "release")
    /\ ~Copied(w)
    /\ UNCHANGED <<db, backups, snapshot, lock, mem, environment>>

write_sidecar(w) ==
    /\ Goto(w, "sidecar", "check")
    /\ backups' = [backups EXCEPT ![mem[w].number].sidecar =
                     [file |-> backups[mem[w].number].db,
                      source_data_sequence |-> mem[w].seen, created |-> now]]
    /\ UNCHANGED <<db, snapshot, lock, mem, environment>>

backup_made(w) ==
    /\ Goto(w, "check", "rotate")
    /\ UNCHANGED <<db, backups, snapshot, lock, mem, environment>>

\* A step raises: what was made is unlinked, the database file first.
discard(w) ==
    /\ pc[w] \in {"sidecar", "check"}
    /\ pc' = [pc EXCEPT ![w] = "discard_sidecar"]
    /\ backups' = [backups EXCEPT ![mem[w].number].db = Absent]
    /\ UNCHANGED <<db, snapshot, lock, mem, environment>>

discard_sidecar(w) ==
    /\ Goto(w, "discard_sidecar", "release")
    /\ backups' = [backups EXCEPT ![mem[w].number].sidecar = Absent]
    /\ UNCHANGED <<db, snapshot, lock, mem, environment>>

-----------------------------------------------------------------------------
(* Rotation, the last part of a backup *)

Newer(n) == {m \in Restorable : m > n}

Old_by_age == {n \in Restorable : Cardinality(Restorable \ Newer(n)) > Keep}

\* records[keep_count:]
Old == {n \in Restorable : Cardinality(Newer(n)) >= Keep}

\* The data goes first: a sidecar that is left behind restores nothing.
rotate(w) ==
    /\ Goto(w, "rotate", "rotate_sidecar")
    /\ Old # {}
    /\ backups' = [backups EXCEPT ![Max(Old)].db = Absent]
    /\ mem' = [mem EXCEPT ![w].number = Max(Old)]
    /\ UNCHANGED <<db, snapshot, lock, environment>>

rotate_sidecar(w) ==
    /\ Goto(w, "rotate_sidecar", "rotate")
    /\ backups' = [backups EXCEPT ![mem[w].number].sidecar = Absent]
    /\ UNCHANGED <<db, snapshot, lock, mem, environment>>

rotated(w) ==
    /\ Goto(w, "rotate", "release")
    /\ Old = {}
    /\ UNCHANGED <<db, backups, snapshot, lock, mem, environment>>

-----------------------------------------------------------------------------
(* A restore *)

Kill(dead, steps) ==
    /\ pc' = [w \in Worker |-> IF w \in dead THEN "idle" ELSE steps[w]]
    /\ mem' = [w \in Worker |-> IF w \in dead THEN NoMemory ELSE mem[w]]
    /\ lock' = IF lock \in dead THEN Stale ELSE lock

\* The menu entry picks the newest backup that has its sidecar, and asks.
select(w) ==
    /\ Goto(w, "idle", "confirm")
    /\ Paired # {} /\ restores < MaxRestores
    /\ restores' = restores + 1
    /\ mem' = [mem EXCEPT ![w] = [mode |-> "restore", number |-> Max(Paired), seen |-> 0]]
    /\ UNCHANGED <<db, backups, snapshot, lock, service, now, writes, sessions, losses>>

\* The tasks are disabled from here on.
confirm(w) ==
    /\ Goto(w, "confirm", "stop")
    /\ UNCHANGED <<db, backups, snapshot, lock, mem, environment>>

\* The operator says no, or the daily backup does not end in time.
cancel(w) ==
    /\ pc[w] \in {"confirm", "stop"}
    /\ pc' = [pc EXCEPT ![w] = "idle"] /\ mem' = [mem EXCEPT ![w] = NoMemory]
    /\ UNCHANGED <<db, backups, snapshot, lock, environment>>

\* A daily backup that runs is waited for; a web request dies with the service.
stop_service(w) ==
    /\ pc[w] = "stop"
    /\ \A t \in Tool : mem[t].mode = "scheduled" => pc[t] = "idle"
    /\ service' = "down"
    /\ Kill(Web, [pc EXCEPT ![w] = "lock"])
    /\ UNCHANGED <<db, backups, snapshot, now, writes, sessions, losses, restores>>

\* 0 when there is no file, and nothing when the file cannot be read.
session_version_high_water == IF db \in Lost THEN 0 ELSE db.session_version

\* The checks of the backup and of the service, and the pre-restore snapshot.
pre_restore_snapshot(w) ==
    /\ Goto(w, "verify", "replace")
    /\ Verified(mem[w].number) /\ service = "down"
    /\ snapshot' = db
    /\ mem' = [mem EXCEPT ![w].seen = session_version_high_water]
    /\ UNCHANGED <<db, backups, lock, environment>>

restore_refused(w) ==
    /\ Goto(w, "verify", "release")
    /\ ~Verified(mem[w].number) \/ service = "up"
    /\ UNCHANGED <<db, backups, snapshot, lock, mem, environment>>

\* os.replace(temporary, database)
replace(w) ==
    /\ Goto(w, "replace", "invalidate")
    /\ db' = backups[mem[w].number].db
    /\ UNCHANGED <<backups, snapshot, lock, mem, environment>>

restored_version_only(restored, high_water) == restored + 1

next_session_version(restored, high_water) == Max({restored, high_water}) + 1

\* For a file that could not be read a number is drawn.
invalidation_floor(high_water) ==
    IF snapshot = Corrupt THEN Unknown .. Unknown + Spread ELSE {high_water}

\* What that floor may lie below: without a file there is nothing to count
\* above, and a number that is drawn may be less than one drawn before.
Uncovered ==
    {v \in sessions.ended \cup {sessions.current} :
         snapshot = Missing \/ (snapshot = Corrupt /\ v >= Unknown)}

\* _record_restore_audit: one transaction that ends every session.
record_restore_audit(w) ==
    /\ Goto(w, "invalidate", "release")
    /\ db \notin Lost
    /\ \E floor \in invalidation_floor(mem[w].seen) :
         LET next == next_session_version(db.session_version, floor)
         IN /\ db' = [db EXCEPT !.session_version = next]
            /\ sessions' = [sessions EXCEPT
                 !.ended = @ \cup {sessions.current},
                 !.spared = {v \in @ \cup Uncovered : v >= next}]
    /\ UNCHANGED <<backups, snapshot, lock, mem, service, now, writes, losses, restores>>

\* A check or the audit raises: the snapshot is put back.
restore_raises(w) ==
    /\ Goto(w, "invalidate", "roll_back")
    /\ UNCHANGED <<db, backups, snapshot, lock, mem, environment>>

roll_back(w) ==
    /\ Goto(w, "roll_back", "release")
    /\ db' = snapshot
    /\ UNCHANGED <<backups, snapshot, lock, mem, environment>>

-----------------------------------------------------------------------------
(* The service, the clock, and what goes wrong *)

start_service ==
    /\ service = "down" /\ db \notin Lost /\ ~Restoring
    /\ service' = "up"
    /\ sessions' = [sessions EXCEPT !.current = db.session_version]
    /\ UNCHANGED <<db, backups, snapshot, lock, now, pc, mem, writes, losses, restores>>

\* Every tracked transaction counts data_sequence up; some, like the reset of a
\* password, end the sessions of the user.
write(ends_sessions) ==
    /\ service = "up" /\ db \notin Lost /\ writes < MaxWrites
    /\ writes' = writes + 1
    /\ LET version == IF ends_sessions THEN db.session_version + 1
                                       ELSE db.session_version
       IN /\ db' = [db EXCEPT !.content = writes + 1, !.data_sequence = @ + 1,
                              !.session_version = version]
          /\ sessions' = [sessions EXCEPT !.current = version,
                             !.ended = @ \cup IF ends_sessions
                                              THEN {db.session_version} ELSE {},
                             !.spared = {v \in @ : v >= version}]
    /\ UNCHANGED <<backups, snapshot, lock, service, now, pc, mem, losses, restores>>

tick ==
    /\ now < MaxTime
    /\ now' = now + 1
    /\ UNCHANGED <<db, backups, snapshot, lock, service, pc, mem, writes, sessions, losses,
                   restores>>

\* A tool is killed; a killed lock owner is recognised by its process identity.
\* A restore behind its replacement leaves the versions of the backup: the
\* sessions that were ended since can be reached again.
crash(w) ==
    /\ pc[w] # "idle"
    /\ Kill({w}, pc)
    /\ IF pc[w] \in {"invalidate", "roll_back"} /\ db \notin Lost
       THEN sessions' = [sessions EXCEPT !.spared = @ \cup
                           {v \in sessions.ended \cup {sessions.current} :
                                v >= db.session_version}]
       ELSE UNCHANGED sessions
    /\ UNCHANGED <<db, backups, snapshot, service, now, writes, losses, restores>>

\* The web requests die with the service.
crash_service ==
    /\ service = "up"
    /\ service' = "down"
    /\ Kill(Web, pc)
    /\ UNCHANGED <<db, backups, snapshot, now, writes, sessions, losses, restores>>

lose_database(kind) ==
    /\ losses < MaxLosses /\ db \notin Lost
    /\ losses' = losses + 1
    /\ db' = [kind |-> kind]
    /\ service' = "down"
    /\ Kill(Web, pc)
    /\ UNCHANGED <<backups, snapshot, now, writes, sessions, restores>>

backup_step(w) ==
    \/ recheck_due(w) \/ reserve_backup_sequence(w)
    \/ copy_database(w) \/ copy_refused(w) \/ write_sidecar(w)
    \/ backup_made(w) \/ discard(w) \/ discard_sidecar(w)
    \/ rotate(w) \/ rotate_sidecar(w) \/ rotated(w)

restore_step(w) ==
    \/ select(w) \/ confirm(w) \/ cancel(w) \/ stop_service(w)
    \/ pre_restore_snapshot(w) \/ restore_refused(w) \/ replace(w)
    \/ record_restore_audit(w) \/ restore_raises(w) \/ roll_back(w)

lock_step(w) == acquire_lock(w) \/ lock_refused(w) \/ write_record(w) \/ release_lock(w)

Next ==
    \/ \E w \in Tool, mode \in Modes : start_backup(w, mode)
    \/ \E w \in Web : run_backup(w)
    \/ \E w \in Tool \cup Web : backup_step(w)
    \/ \E w \in Restorer : restore_step(w)
    \/ \E w \in Worker : lock_step(w)
    \/ \E w \in Tool \cup Restorer : crash(w)
    \/ crash_service \/ start_service \/ \E ends \in Endings : write(ends)
    \/ tick \/ \E kind \in Losses : lose_database(kind)

Spec == Init /\ [][Next]_vars
-----------------------------------------------------------------------------
(* Properties *)

Holding == Steps \ {"idle", "lock", "confirm", "stop"}

\* Never two of backups and restores at work on the same installation, whatever
\* was killed and reclaimed before.
LockExcludes ==
    \A v, w \in Worker : pc[v] \in Holding /\ pc[w] \in Holding => v = w

Reported == Restorable \ {mem[w].number : w \in {v \in Worker : pc[v] = "check"}}

\* A backup that was reported stays restorable until Keep newer ones are: it is
\* not rotated away before, and no number is used again for its file, although a
\* restore sets the counter in the database back.
RemovedOnlyOld ==
    [][backups' # backups =>
           \A n \in Reported \ Restorable' :
               Cardinality({m \in Restorable' : m > n}) >= Keep]_vars

\* The daily task makes no second backup on a day that has one already, also
\* when another run or a web request was faster.
OncePerDay ==
    [][\A w \in Worker :
           pc[w] = "sidecar" /\ pc'[w] = "check" /\ mem[w].mode = "scheduled" =>
               \A n \in Restorable :
                   backups[n].sidecar.created \div DayLength # now \div DayLength]_vars

\* The bookings a restore takes out of the database are in the pre-restore
\* snapshot or in a backup.
NothingUnsaved ==
    [][db \notin Lost /\ db' \notin Lost /\ writes' = writes =>
           \/ db'.content = db.content
           \/ snapshot \notin Lost /\ snapshot.content = db.content
           \/ \E n \in Restorable : backups[n].db.content = db.content]_vars

\* A session that was ended, by a reset password or by a restore, is never
\* valid again, whatever is lost, restored, killed and put back in between,
\* with the exception of exactly those that restore.py does not count above: a
\* version that the backup does not exceed when a restore is killed between
\* os.replace and its audit, or finds no database to count above, and a version
\* counted from a drawn number when a second number is drawn.
SessionsEnd ==
    service = "up" /\ db.session_version \in sessions.ended =>
        db.session_version \in sessions.spared
=============================================================================
