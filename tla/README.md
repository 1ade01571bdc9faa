# A verification of the meeting-room reservation system

This directory holds TLA+ models of the reservation system in `src/v2/` (a
Flask and SQLite backend served by eight Waitress threads, a React client, and
Windows installation, backup and update tools) and of its first generation in
`src/02_开发工作区/` (server-rendered pages, their start and the repair update
to 1.0.2), the TLC configurations that check them on small instances, and TLAPS
proofs for every instance: about bookings and notices, sessions, backups and
their lock, the service and its setup, the update, the installation, and version
1. `.github/` builds the product and is not modelled. Paths below are relative to `src/v2/`; `V1:` stands for
`src/02_开发工作区/源代码工作区/` and `覆盖更新.py` is
`src/02_开发工作区/升级包工具/覆盖更新.py`.

## 1. Inventory

| component | state | operations | interacts with | what is hard |
|---|---|---|---|---|
| Reservations (`services/reservations.py`, `api/reservations.py`) | tables `reservations`, `reservation_slots`, `reservation_events` | create, update, cancel | users (the actor is read again under the write lock), rooms, settings, handovers | eight threads write at once, stale forms, boundaries of slots and of time |
| Handovers (`services/handovers.py`) | `handover_requests` | assign, request, accept, decline, withdraw, expire | reservations, users | a request is answered after its booking changed; the expiry is a second transaction |
| Rooms, users, settings (`api/admin.py`) | `rooms`, `users`, `system_settings` | create, edit, delete, disable, reset a password | bookings, requests, sessions | the last administrator, rooms that still have bookings, accounts with pending requests |
| Sessions (`security.py`, `api/core.py`) | the signed cookie, `session_version`, login counters | log in and out, read, write, change a password | users, the tabs; restore raises the versions | answers that set the cookie overtake each other; a revoked cookie in flight |
| Browser client (`frontend/src`) | account and token of a tab, requests in flight, forms | enter, switch the account, refresh, write | the session routes | answers for another account |
| First-run setup (`api/core.py`, `runtime/install_state.py`) | `setup_complete` in the database, its mirror in `install.json` | complete the setup, repair the mirror | start-up, service control | written in two places, answered before the listener changes |
| Notices (`api/reminders.py`, `api/preferences.py`) | `notice_receipts`, the switch of a user | list what is due, acknowledge | the events of reservations | 45 days to show, 90 days to prune; a booking changes hands before anybody polls |
| Backup and lock (`backup.py`, `v2app/backup.py`, `api/system.py`) | the backup files and sidecars, `backup_sequence`, `maintenance.lock` | daily task, catch-up at start, manual run, web request | the live database, the service, restore | processes race and are killed; rotation deletes |
| Restore (`restore.py`, menu entry ⑥) | the database file, its snapshot, session versions | select, confirm, stop, snapshot, replace, end sessions, roll back | backup, service, sessions | a replaced database takes counters and session versions back |
| Service control (`service.py`) | pid file with token, listener, stop request | start, stop, re-create the listener | setup, update, restore | two starts race for a stale pid file; a stop arrives while the listener is re-created |
| Start-up, migrations (`db.py`, `server.py`, `invariants.py`) | schema version | migrate, verify | update | a crash inside a migration |
| First installation (`installer/install.py`, `installer_core.py`) | the target folder, two tasks, two firewall rules, a registry key | check, build beside the target, move, register, commit, switch on, roll back | the machine, other runs | any call fails, also one of the roll-back; the package or the folder changes after it was checked |
| Update (`installer/update.py`, `update_core.py`) | program and data directories, identity files, journal, snapshots, tasks | update, roll back, recover | service, migrations | a power failure at any of some thirty steps, also in recovery |
| Version 1, pages (`V1:app.py`) | users, rooms, reservations, slots, cookies | log in, reserve, cancel, administer | – | forms are checked before the write lock and again under it |
| Version 1, start (`V1:server.py`, `V1:app.py`) | key, identity, first password, address file, the port | probe, create, bind, seed, observe the address, acknowledge | the pages, the log | several starts of one folder race and die; notices over restarts |
| Version 1, repair update (`覆盖更新.py`) | program, runtime, boot task, state file, snapshot | normalise to 1.0.1, install 1.0.2, recover, resume | the customer's data (read only), an older updater's residue | killed at any stage, then started again |
| Preferences and tags, reports, display, update check, addresses, build scripts | – | – | – | single-row edits, reading, formatting, I/O |

What makes each correct:

* *Reservations:* a room is never booked twice; the slot rows say exactly what
  the bookings say; the history of a booking is one chain that ends in what the
  booking is; a booking that is not over keeps its room.
* *Handovers:* nobody gets or loses a booking without consent of its owner at
  the time or an administrator; an outcome is final; a request that can still
  be answered belongs to the present owner.
* *Accounts, sessions:* somebody can always administer; an ended or aged session
  stays ended, whichever answer arrives last; a tab writes as the account it
  shows.
* *Notices:* the owner of the time sees a change by another until he has
  acknowledged it, and never again; an assignment is told to who owns the
  booking by it.
* *Backup, restore:* one of them works at a time; what was backed up stays
  until newer backups replace it; a restore loses nothing silently and lets no
  old session in again.
* *Installation:* the exit code tells the truth about the machine; nothing of
  another installation is touched; the network is open for a committed
  installation only.
* *Update:* the installation is one version, not two, whatever interrupts it;
  it changes once and for good; only a trial that is given up loses bookings; it
  does not stay unfinished.
* *Setup, service:* no setup after the network was served, whatever file is
  lost; the pid file is the one of the process that serves; a stop that reports
  success is true; both events reach the listener.
* *Version 1:* the same calendar as in version 2; a revoked account writes
  nothing; one key and one identity per folder; the first password can be read;
  a changed address is announced until it is acknowledged; a repair update
  never calls a torn program committed, never forgets the setting of the boot
  task and comes to an end.

## 2. Plan

Written, in the order of importance: `Calendar` and `Booking`;
`Upgrade` and `UpdateTransaction`; `Maintenance` and `Service`; `Install`; `Sessions` with the
client; `Notices`; version 1 as `Version1`, `Version1Start` and `OverlayUpdate`.
The proofs of `Calendar` and `Notices` are in `BookingProofs`, those of
`Version1Start` in `Version1Proofs`, and each other module has its own.

`Booking` composes reservations, handovers and administration, because their
invariants relate the three; `Notices` extends it, because a notice is a
reading of its history. `Maintenance` composes backup, restore and lock, and
`Service` setup, stop and listener, because what is interesting lies between
them. `Calendar` is implemented by `Booking` and by `Version1`, and
`Upgrade` by `UpdateTransaction` (all proved).

Left, in this order:

1. A second updater in `UpdateTransaction`, which needs the exclusive lock.
2. The login limiter (`security.py:202–250`) and the change of one's own
   password in `Sessions`.
3. Migrations, as the crash-safe step that `UpdateTransaction` takes as one.
4. The reminders of meetings to come and their receipts (`reminders.py:252–270`).

## 3. The modules and the code

### Calendar, Booking

`Calendar` is what the readers of the schedule are promised: each reservation
is somewhere on the calendar or nowhere; it is placed only on free slots in the
future, moves before it starts, and leaves before it is over.

`Booking` has one variable per table, a row is a record. Every handler runs in
`transaction()`, which takes the write lock before it reads (`BEGIN IMMEDIATE`)
and rolls everything back on an error, so that a handler is **one action**: its
early returns are the guard, its statements the primed variables. The exception
is `decide_handover`, which finds a request dead in one transaction and expires
it in another (`handovers.py:307–311`); the calls between the two are the
variable `expiring`, and a crash empties it. The actor is the account as read
*under the lock* (`locked_actor`); a session that is revoked while its request
waits is covered by `Revoked`. Abstractions:

* time is the last slot boundary passed; all comparisons in the code are with
  slot boundaries. The clock only moves forward.
* a date and a time are a slot number, working hours are bounds on slots, names
  and notes are left out; a change of those alone is an update of the same place.
* ids are drawn at random, so that any unused one may be drawn (and TLC may
  treat them as symmetric).
* updates carry the revision the client saw, or none; both are actions' inputs.

### Notices

`Notices` adds to `Booking` the stamps of events, the receipts, the switch of
each user and `acked`, a history variable: who ever acknowledged what.
`change_notices` and `assignment_notices` are the two queries of
`due_reminders`, and `acknowledge_notice` writes a receipt and prunes those of
everybody in one transaction; a page may acknowledge what its old list shows,
and so any event. `MaxAge < Retention` is all
that is known of 45 and 90 days. A notice shows today's booking or the row its
event keeps (`Shown`), as the reader may see the first or not.
The scale of time is slots, as in `Booking`, and the stamp of an event is the
slot of its transaction, so that events of one slot are ordered by their rows
as in the query. The lists of open handovers (`reminders.py:172–200`), which
reads `handover_requests`, and of meetings to come are left out. Two
observations: an assignment of a booking that was cancelled since is still in
the list, as the query does not look at the status; and a clock that is set
back could order stamps against rows, which the model's clock never does.

### Sessions

The server keeps nothing of a session but the version of its account: the
session is the cookie. A request takes the cookie of the moment it is *sent*;
its answer, which may carry a new one, is processed by the server
(`step = "answered"`) and *arrives* at some later time in any order
(`Take`). `logins` is a history of when each session began and was last used.
The tabs follow `App.jsx`, `api.js`, `session-isolation.js` and
`auth-flow.js`: which request follows which answer, what is captured from it
and what is compared before an account is shown. A write has two steps, the
check at the door (`admit`) and the one under the lock (`locked_actor`).
Tokens are known by their login; token 0 stands for every token of a browser
without a session and opens nothing but a login.

`mixed` marks a tab that has told its user that it read two accounts at once;
`WritesAsShown` speaks of the others, since such a tab holds the token of the
session it has just refused (`loadBootstrap` captures it before comparing). An
answer of an old session that arrives after a log-out sets its cookie again,
and the session can be used until it ages: the server keeps no list of sessions
that `DELETE /api/v1/session` (`docs/API-CONTRACT.md:63`) could shorten.
`SessionEnds` bounds what is left by the two ages.

### Maintenance

A worker is one run of a tool, one web request or one restore. The bookings in
a database are the number of the last write they contain (`content`), next to
the counters the code really stores: `data_sequence`, `backup_sequence`,
`session_version` (of one user). A backup is its file and its sidecar, which
names the hash, here the file itself. The lock file is free, torn (made, no
record yet), held by a worker, or stale (its process is gone); a worker at
`locking` also holds the guard file. A lock whose record cannot be read is
never reclaimed, as `backend/tests/test_hardening.py:1042` demands. The steps of
a backup are those between which it can be killed: look if due, lock, look
again, reserve, copy, sidecar, final check, rotate. `Modes` are the ways in
which the tool is started; a manual run takes the same steps as the web
request, which is in every instance. The copy is one read transaction, and the
comparison of the data sequence before and after it are combined. The steps of
the restore are those of the menu entry ⑥ (select, confirm, stop) and of
`restore.py`. An unreadable database gives the random high-water mark of 2^61
and more, `invalidation_floor`: a number from `Unknown` on, larger than any that
counting from 1 reaches, with `Spread` for what two draws may differ by. A
missing database counts as 0. `sessions` keeps the versions in use and ended and
`spared`, the ended versions that the restore leaves reachable: those not below
the database's version when a restore is killed behind its replacement, and those its
floor does not exceed (`Uncovered`). Left out: the
rows of the audit, the second check of the database behind it
(`restore.py:307–309`; a failure there is a failure of the audit), `backup-status.json`,
the WAL files, migration of an older backup. Assumed: the operator does not start the service by hand while ⑥ is
restoring (the tasks are disabled).

### Service

An actor is one run of `service.py` or of `service.py --stop`; the pid record
is known by its process, because the token in it is random. `pc` is the next
step of `_claim_pid`, of `run_server_once` or of `stop_service`; creating the
pid file and writing it are two steps, and so are the last comparison and the
unlink of `_remove_pid_if_token`, which all three share (`recheck`, `unlink`).
Starting a listener (`create_app`, `prepare_database`, the choice of the
address, `create_server`) is one step, `open`. `signalled` is the monitor
thread, `mem[p].stop` and `mem[p].setup` its two events, and `returned` the
decision to go round again. A setup request is a thread of its own with three
steps: the transaction, the mirror, the answer that sets the event. The database
is missing, fresh or set up; a complete mirror beside any other database is the
recovery mode, which answers but sets nothing up. `history` counts setups and
remembers whether the network was ever served; `reused` are dead processes
whose number another program has got.

`mem[a].compared` is the owner of the record that an actor has compared, and
`history.robbed` are the processes whose file was unlinked in the place of
another one: the code holds nothing between the comparison and the unlink, and
`unlink` removes whatever has the name by then. Left out: the log, the
health check (its failure and its success both end the second start), the
launch of the catch-up backup, the identity files that the first start on macOS
makes, an installation without `install.json` (development only).

### Upgrade, UpdateTransaction

The variables are what is on the disk – `files` (version file, manifest, entry
points), `program` (`app`, `runtime`), `displaced`, `data`, the journal `txn`,
the snapshots `rollback` – the service, and the memory of the updater (`pc`,
`run_state`). A file or directory is the version it belongs to or the half-done
state a copy leaves behind. `pc` is the next step of `run`, of the roll-back in
its handler, or of `recover_existing_transaction`; `os.replace` is one step, a
copy of a tree is two. `Raise` is an exception, `Interrupt` a power failure or
a failed roll-back; after it only the disk is left. Every step of `run` may
raise, the journal writes included, and some fail half-way (`HalfDone`): a stop
that has stopped the service or not, a start for the health check that has
enabled and started it although the handler goes on as if it had not.
`activate` and `apply_run_state` are `controller.restore`, which starts the
service in every case and stops it again when it did not run before. `overlooked`
tells that the updater goes on beside a running service: the stop of
`capture_and_stop` ignores errors (line 809), only the fail-closed one does not.
`torn` tells that a roll-back which the journal does not announce was cut short.
`Entries` are the two ways in: `update.py`, whose `main` checks the identity
before the recovery is reached, and a direct call of `run`. Left out: the six
flags of the run state are one (up or down), the receipt, the online copy that
precedes the update, the firewall.

`Upgrade` is the update as users know it: a version, a trial of the new one, the
version that answers, the bookings there are and those that are left if the
trial is given up. In the mapping the version is the one that
`_load_identity_for_recovery` would go on with (`recovered_version`), so that the
commit is one step, the write of the version file; the trial lasts from the
journal entry `prepared` to the commit or to the removal of the journal, and
giving up is the rename that puts the present data aside. A service that
nobody knows of (`overlooked`) and a roll-back that tears the installation
(`Tear`) are steps of `Upgrade` in the open: it promises nothing behind them.
Every other step of the thirty is invisible. `CommitIsFinal`, the same from the journal's point of
view, is proved only.

### Install

An installer is one run of `install.py`, known by its random transaction and
install ids. `pc` is its next step, or its exit code when it is over (0 is
`complete`, 1 `failed`, 3 `cancelled`, 4 `busy`, 5 `contained` or `uncontained`,
6 `stuck`). The tree is built beside the target (`staging`,
`has`: the parts written so far), what is at the target is moved `aside`, the tree
is moved into place, and the four named resources and the registry key are
made switched off; `version` commits, and only then `rules_on`, `tasks_on` and
`start` switch on. Each step may raise, and its handler is chosen as in the
code by what was reached: delete the tree, take resources back by name *and*
owner, or only switch off (`contain`). The steps of the handlers fail too, and the
removal of a staging folder whose access list could not be set may fail without
being noticed (`secure_fails`). `__init__` looks at the target, `take_lock` takes
the lock, and `recheck` looks again. The
environment deletes and fills folders, damages the package between its check
and its use, and cuts the power. Texts, receipts' contents, ACL entries and
the network probe of the health check are data that no property tells apart.

Two observations the model makes visible: if the roll-back meets a registry
key whose `TransactionInstallId` is not written yet, the script under
StrictMode raises and the run ends `stuck` (exit 6), with the key left; and a
power loss between the registration of the service task and the call that
disables it leaves a task that starts a service on the loopback. Neither opens
the network, which `OpenOnlyCommitted` confirms.

### OverlayUpdate

The managed files are four units, replaced whole in the order of
`_write_managed_payload`, with the version file third; a unit is of a release,
`damaged` or missing. `record` is the state file and `stage` the same field in
memory, which is set *before* the file is written; when that fails the recovery
believes the memory. `enabled` is the boot task, `wanted` the setting it had
before any update. `begin` and `begin_committed` are the decisions of `run`
about an open transaction, `Recover` is `_recover_after_failure` step by step. The
package's own Python can change after it was compared (`damage_package`); the
customer then unpacks it again. `legacy` is the residue of an older updater: the
one to 1.0.2 records the setting of the task and switches the task off, the one
to 1.0.1 does neither (`"unrecorded"`). Left out: the exclusive lock and the older
updater's, the choice of the installation, the elevation.

### Version1, Version1Start

`Version1` is the pages. A writing request reads its session and checks its
form (`start_reserve`, `start_cancel`, `admin_required`) and later, with the lock
held, checks again and writes (`reserve`, `cancel_reservation`, `admin_*`):
between the two steps of one browser anything happens in the other. A room that
is deleted takes its slots with it by the foreign keys; `room = None` in a
booking is the NULL. `rollback` is a form that is refused. The display, the
personal page, names and remarks are left out.

`Version1Start` is one start per process: probe the port, load or create the
key and the identity (created empty, then written: two steps), take the port,
seed the database (the file with the password, then the commit), note the
address, serve. A start stands for the values it generates. `network` is the
address file, `logged` the addresses in the log from which a lost file is
reconstructed, `told` the address colleagues were told last as far as that is
known, `page` the notice the administrator has before him, which may be old.
The choice among network adapters is `_select_local_ip` over confidence and
route; log rotation is left out, and so is the old address that a notice shows
next to the new one. `Records` is what `_validate_network_state` accepts. Some
names bear `Start` or differ from those of `Version1` (`StartNext`, `Nothing`)
because `Version1Proofs` extends both modules.

## 4. The runs

| run | question | distinct states |
|---|---|---|
| `booking_calendar` | one room, two bookings, three slots, lengths one and two: touching, containing and overlapping bookings, deleted rooms; do the tables implement the calendar? | 24,612 |
| `booking_handover` | two accounts, two requests, three revisions, interrupted decisions: an administrator left, history, consent, expiry | 160,913 |
| `notices` | three accounts, one booking of four revisions, receipts and days: acknowledged for good, never lost, true of the reader | 623,573 |
| `sessions` | two tabs, two accounts, two log-ins, a revocation, answers in any order: writes as shown, sessions end | 2,712,521 |
| `maintenance` | two days, one backup to keep, a tool, a web request and a restore, a corrupted or missing database, kills at every step | 1,695,469 |
| `service_life` | two runs of the service, repeated stops, a setup, two faults: pid file, true stops, one setup, both events arrive | 108,281 |
| `installation` | two installers, an earlier installation or none, three faults: true exit codes, nothing foreign touched, open only when committed | 119,901 |
| `update_crashes` | up to three faults: whole versions, recovery; does the update implement the abstract one? | 71,289 |
| `overlay` | the repair update with three faults and repeated runs: true records, the task remembered, an end | 226,784 |
| `version1` | two browsers, two bookings, one room, three slots, a revocation: slots, revoked writes, the calendar | 550,012 |
| `version1_start` | three starts, two addresses, two faults: files, own data, notices | 947,969 |
| `update_rerun` | the finding of section 6 | – |

**Bounds, and why they suffice.** Overlap, containment and touching of
intervals need two bookings and three slots; a third booking adds no new pair.
A handover needs an owner, a receiver and an administrator who interferes;
two accounts take the three parts by turns, as either may own the booking and
either may be made administrator. A request goes stale by one revision and can
meet a second request, so that two requests and three revisions show every
order. Notices need a reader and two others, one of whom may act as
administrator; four revisions are a creation, two handovers (there and back) and
a last change, the least after which an old assignment could be taken for the
present one, and two slots of time with ages 1 and 2 let an event age, a
receipt age and both. Two tabs with two log-ins put an old and a new session of
different accounts into flight; a third log-in only repeats that, except for
the tab that reads two accounts at once, which `mixed` covers. An update is
interrupted up to three times: once in the update, once in its roll-back or
recovery, once in the recovery of that; the same holds for the installer and
the repair update. Two bookings tell one made before the commit from one made
after. For maintenance one tool, one web request and one restore are the three
kinds of holder, `Keep = 1` makes every backup rotate, and three numbers leave
room for an old backup, a new one and a colliding one. Its one write ends
the sessions of its user (`Endings`): the bookings in it are those of any other
write, and one that ends no session would leave less to revive. For the service a stale
record needs one dead process, and its removal by two actors one starter and
one stopper, who stops again after his mistake (`begin_stop`) and then believes
a success that is none; two faults are a kill and then a lost database, or a kill and a
number that is given away. Two browsers of version 1 are a writer and an
administrator who revokes him meanwhile. Three starts are a winner, a loser and
one after them; a notice is threatened by two addresses and one return to the
first. The theorems of section 5 lift the bounds for what they state.

**Deadlock** is not checked: clocks, numbers of writes, revisions and ids are
bounded and the models stop at these bounds; an update or an installation that
is over is over.

**Fairness** is assumed in three runs. In `update_crashes` (`FairSpec`) the
updater process goes on (`WF_vars(Work)`), and the operator runs the package
again after an interruption, as `installer/升级说明.txt:13–15` tells him to
by its entry point (`WF_vars(recover_existing_transaction("update.py"))`).
Faults are bounded, nothing else could end. `Recovers` has two other outcomes,
which are those of the code: `main` refuses the installation for its identity
(the finding `update_rerun`), or bookings were made between the two renames of the data
(`Conflict`), so that every roll-back raises.
In `service_life` a process that is not killed goes on, its monitor thread
polls both events without end (`server.py:82–96`), and the thread of a request
finishes; nobody has to start or to stop anything. In `overlay` a run goes on,
the customer starts the tool again while a state file is left, and unpacks the
package again when its check refuses it (`WF_vars(run)`, `WF_vars(unpack)`): the
messages of the tool ask for both. `Settles` has a second outcome, since the
tool refuses for ever a transaction before its commit beside a version file
that says 1.0.2.

**Exceptions inside properties.** No passing run leaves out a step the code can
take. Where the code breaks what its documents promise, the model takes the
step, a history variable marks its victims, and the property holds for all
others: `overlooked` and `torn` (update), `robbed` (pid file), `spared`
(sessions). Each is set in one action, at the step that does the harm, and
section 6 tells the steps. Dropping the exception from the property makes the same run
fail.

Each property of each passing run is shown to bite: for each there is a
mutation of a definition (a dropped guard, an off-by-one, a forgotten reset, a
swapped order) that is written beside the original (for example
`slot_times_short`, `Kept_shorter`, `Handler_late`, `Seed_row_first`) and violates
it.

## 5. The proofs

The theorems hold for every number of users, rooms, bookings, requests, slots,
revisions, tabs, workers, processes, installers and faults, and finiteness is
assumed nowhere. They rest on the assumptions named in the modules, which every
run evaluates: names and values that stand for "none" are distinct
(`ConstantsAssumption`, `MaintenanceAssumption`, `ServiceAssumption`,
`InstallAssumption`, `FolderAssumption`, `NoneAssumption`, `NoFileAssumption`),
bounds are natural numbers (these and `SessionsAssumption`, `UpdateAssumption`,
`OverlayAssumption`, `Version1Assumption`, `Version1StartAssumption`), and the age of a notice is below that
of a receipt (`AgesAssumption`). No theorem has another hypothesis.

Invariants marked * were checked by TLC on the instance of the run of their
module, on all its states, before they were proved.

`BookingProofs`, first part:

* `TypeCorrect`, `AdminAlways`: by cases over the actions. `AdminSurvives` is
  inductive with `TypeOK`: only `update_user` takes a role, and
  `assert_admin_survives` counts under the lock.
* `LedgerAlways`, `NeverDoubleBooked`: `NoDoubleBooking` is not inductive – the
  code compares slot rows, not bookings. `SlotLedger` (rows are those of active
  bookings, bookings have all rows, no row twice) is, and implies it.
* `RoomsStay`: with `TypeOK` alone; the clock may pass the end of a booking,
  after which its room may go.
* `HistoryAlways`: the events of a booking are one chain from its creation;
  `ChangeKeepsHistory` is the lemma all changing actions share.
* `OutcomesAreFinal`: an action property, from lemmas on which actions touch
  which requests (`HandoverRequestSteps`). No run lists it: it is proved.
* `PendingAlwaysOwners`: needs `AbsentDisabled` (an account that was never
  created is disabled), since creation enables one.
* `AcceptedAlwaysAsOffered` (proved only), `OwnershipByConsent`: from
  `PendingIsOwners` and the chain; `OnlyAcceptAccepts` says which step can.
* `OnlyDeadExpire`: strengthened by `ExpiringDead`, that a request between the
  two transactions of `decide_handover` stays dead until the second one: its
  booking never becomes active, unstarted and of the old revision again.
* `BookingImplementsCalendar`: the mapping `Placed` forgets everything but the
  place of an active booking; initial states map to initial states and each
  step to a step of the calendar or a stutter, using `SlotLedger`.

The second part, on `Notices`, builds on them:

* `AckedAlwaysGone`: `AckedStaysGone` is not inductive, as pruning looks at the
  age of receipts and the list at the age of events. `AckInv` adds that a receipt
  is never older than its event, so that one that is pruned belongs to an event
  that is too old to be shown; that a key is acknowledged only when its event
  exists; and, from `HistoryChain`, that no later event takes its key
  (`KeyIdentifies`, `StampsStay`).
* `NoticesAlwaysStay`: from the same invariant, since events only grow
  (`EventsGrow`) and are stamped once.

* `NoticesAlwaysTrue`: `NoticesAreTrue` speaks of the owner of today, the list of
  the history. `TruthInv` adds that the owner changes in a handover and in
  nothing else, that each handover does change him (for which the request has
  to be its owner's, `PendingIsOwners`), and that stamps are in the order of
  the revisions.

`MaintenanceProofs`:

* `LockAlwaysExcludes`: `LockExcludes` says nothing of the lock file. `LockInv`
  adds that a worker past `locking` is named in the record, that the file of a
  worker at `locking` is torn, and that only one is there, as it holds the
  guard. A reclaimed lock is stale, and a stale one has no worker behind it.
* `BackupAlwaysOnce`, `NothingAlwaysUnsaved`, `RemovedAlwaysOld`: three action
  properties from one invariant, `FileInv`*. It says what a worker in the middle
  of its work may rely on: a backup on its way has the highest number and, if it
  is the daily task's, no other is of its day; a restore behind its snapshot has
  the content of the database in the snapshot, later in the backup it restored;
  sidecars are dated in the order of their numbers. Because of the lock a step
  of one worker can disturb only what the invariant says of that worker
  (`OthersStay`).
* `SessionsAlwaysEnded`: between its replacement and the
  transaction that ends the sessions the database may have any version.
  `EndInv` says that the version the restore remembers, and the one of its
  snapshot, are above all that were ended and are not spared. A number drawn
  for an unreadable file is above all that were counted from 1, which
  needs a count: versions go up once for a write and once for a restore
  that is not over, so that the restores still to count (`Claims`) leave
  `Room` below `Unknown` for them.

`ServiceProofs`:

* `ServingAlwaysOwnsPid`: `PidInv` adds that what an actor is about to remove was,
  when it was compared, its own record or that of a dead process, which stays
  dead, so that a process whose file goes in another's place is in
  `history.robbed`; nothing is assumed about who removes files when.
* `StopAlwaysTrue`: `StopInv` adds that whom a stop found when it began serves
  the same run, is gone for good or robbed, and that a stop that ends well has
  seen no pid file, so that by `PidInv` only the robbed served at that moment.
* `SetupAlwaysOnce`: `SetupInv` adds that the mirror remembers a setup the
  database has lost, that a request is served by a living process, so that none
  is left when the file is lost, and that a listener over the loss takes none.

`UpdateProofs`:

* `RunsAlwaysWhole`, `AlwaysEndsWhole`, `CommitAlwaysFinal`: the two moments the
  properties speak of are connected by `UpdateInv`. `Shape` holds in every
  state and says which files exist and that the journal calls only a complete
  version committed; `Sound`, as long as nothing is torn, has one conjunct for each
  stage of the journal: before the snapshot nothing is changed, or a handler is
  restoring what the journal does not announce; on trial the
  snapshots are of the old version, the data waits, and what is changed or
  restored so far is told by `pc`; after the commit the new version is complete
  and every step leads forward. Each action is proved against all of them.
* `UpdateIsUpgrade`: a lemma for each part of the next-state relation says which
  step of `Upgrade` an action is, or that it is none. The invariant is needed at
  five places: the snapshot equals the data when the journal says `prepared`
  (the trial begins without a loss); the service is down at the commit and at
  the rename; a restore of data belongs to a trial; data that is absent waits in
  the snapshot's copy; and when the journal goes, the version that may answer
  is the one that the records name.

`InstallProofs`:

* `ExitAlwaysTrue`, `OpenAlwaysCommitted`, `OwnAlwaysOnly`: `InstallInv`* says for
  each `pc` what the run has made so far, of the tree (`TreeInv`) and of the
  machine (`MachineInv`), and that a run without the lock has left no trace or
  is over. That a step of one run leaves this true of the others (`Left`,
  `OthersStand`) is one lemma, since what is on the machine bears its owner.

`SessionsProofs`:

* `WritesAlwaysAsShown`: `SessionsInv`* says that the token of a tab is the one of
  the account it shows, and that each answer on its way was true when it was
  given. A request whose token and cookie agree is then of one session, whose
  account it is.
* `SessionsAlwaysEnd`: from the same invariant, as a cookie never bears a later
  use than its login has.

`OverlayProofs`:

* `CommittedAlwaysWhole`, `TaskAlwaysRemembered`, `EnabledAlwaysSafe`: a later run
  believes the state file, a recovery the stage in memory, and the two differ
  when a write fails. `OverlayInv`* says for each `pc` what is made of the program
  (`ProgramSoFar`), which stages can be in either place (`StageInv`), that a run
  with a stage has the snapshot of what it found or has changed nothing
  (`SnapshotInv`), and where the setting of the task is known (`TaskInv`).

`Version1Proofs`:

* `SlotsAlwaysBookings`: `TableInv` adds that no booking is empty. The slot table
  is compared cell by cell (`SlotMeaning`).
* `RevokedAlwaysRefused`, `Version1KeepsCalendar`: as in `Booking`, by the second
  check under the lock; every step maps to one of the calendar or a stutter.

`Version1Proofs`, second part, about `Version1Start`:

* `FilesAlwaysTrue`: the property speaks of who holds the port. `IdentityInv`*
  says for each `at` how far a start has come: it has loaded what is on disk, a
  file that is written once stays, an empty file has one writer, who holds the
  port is alone, and who commits the seeded database has written the password.
* `NoticeAlwaysKept`: `NoticeInv`* relates the record to what colleagues were told
  and says that a notice names the observed address, also the one that a failed
  write left in memory. It includes that every record that is written passes the
  validation with which it is read. `Observed` is the lemma about the decision
  itself, `LastLogged` and `MaxIs` about the log.
* `AlwaysOpensOwn`: only the answer to a probe ends a start with the browser
  opened, and only a service of the folder in normal mode answers so.

Model-checked only: liveness under fairness (`Recovers`, `SignalsTakeEffect`,
`Settles`), which is outside the prover. Every safety and action property of a
passing run is a theorem.

## 6. Findings and known disagreements

`update_rerun` is a run: `update.py` checks that install.json, manifest and
version file agree *before* it reaches the recovery that was written for the
case that they do not. Power failure inside the commit: the package is refused
every time.

The following are steps of the models too. The properties of the passing runs
name what they spoil (`overlooked`, `torn`, `robbed`, `spared`, or the exact form of
the property), and fail without that clause.

* *Update, journal writes* (`update_core.py:1628`, `1290`): `run` marks itself
  prepared before the journal says so, and the version file names the target before the
  journal says committed. If the journal write fails there, the handler rolls
  back; if power fails in that roll-back, the journal tells the next run that
  nothing was changed, or that the target is complete: a torn program is taken
  for whole and its snapshots are deleted. `docs/ARCHITECTURE.md:102–103` says that
  a failure of any step before the commit rolls everything back and that a run
  after an interruption recovers by its record. `EndsWhole` and `RunsWhole` fail
  without `torn`.
* *Update, silent stop* (`update_core.py:809`): the stop of `capture_and_stop`
  runs with `SilentlyContinue` and is not verified, unlike the fail-closed one. If
  the service survives it, it goes on while its program is replaced
  (`overlooked`).
* *Update, start for the health check* (`update_core.py:1637–1638`): a start that
  raises after it has enabled and started the task (`installer_core.py:1594–1599`)
  is rolled back without a stop; also `overlooked`.
* *Update, run state* (`update_core.py:1614`): the service is stopped and the
  tasks are disabled before their state is in the journal. A power failure
  between the two makes "stopped" the state restored (against
  `docs/ARCHITECTURE.md:100`).
* *Sessions after a restore*: three ways bring ended sessions back, against
  `docs/PRODUCT-CONTRACT.md:233–234`. A kill between the replacement and the
  audit (`restore.py:295–299`) leaves the versions of the backup in use. A missing
  database counts as 0 (`restore.py:180–182`), so that only the versions of the backup
  are exceeded. A second unreadable database draws a second number
  (`restore.py:215–216`), which may be less than the first. `SessionsEnd` fails without
  `spared`; the run contains the first two, the theorem all three.
* *Backup status after a restore* (`api/system.py:98`): a restore sets the data
  sequence back and it is used again, so that the status takes a backup of the
  replaced data for one of the present data (against
  `docs/RELEASE-CHECKLIST.md:214`).
* *Pid file* (`service.py:381–387`): the removal of a stale file compares and
  unlinks in two steps (the comment at 383–384 denies the consequence). Of two
  simultaneous starts one can remove the record of the other, whose service
  then runs without one: `--stop` and the restore take it for stopped.
  `ServingOwnsPid` and `StopIsTrue` fail without `robbed`.
* *Installation* (`installer_core.py:1854–1857`): when the access list of the staging
  folder cannot be set and the folder cannot be removed, exit 1 ("not installed")
  leaves an empty folder beside the target. `ExitCodeIsTrue` allows just that.
* *Repair update* (`覆盖更新.py:2119`): a run after a killed one begins again at
  stage `preflight` and takes a half-written program for the original; if it
  fails before its snapshot it counts as recovered and the boot task is switched
  on over the mixture that line 2481 wants to keep from booting.
  `EnabledIsSafe` therefore allows the very files a run has found.

Smaller observations:

* A start that is killed between creating and writing the pid file leaves an
  empty file that every later start and stop refuses; likewise an identity file
  of version 1, where the check is deliberate. A torn maintenance lock is never
  reclaimed, also deliberately.
* A roll-back of the update that is complete and whose journal is not deleted
  yet is done again after a restart and takes bookings made since with it
  (`update_core.py:1542`); in `Upgrade` the trial lasts as long as the journal.
* A kill between the transaction of the setup and its mirror, followed by the
  loss of the database before the next start, allows a second setup: `SetupOnce`
  speaks of the time after the network was served.
* A broken installation of 1.0.2 whose first repair dies early is refused by
  every later run: the version file says 1.0.2 and the stage does not (the second
  outcome of `Settles`). Ctrl-C between the version file and the stage rolls a
  committed target back, although line 13 of the docstring excludes it.
* A second start of version 1 while the first is seeding its database finds the
  port occupied and exits 1 instead of opening the browser.
* In version 1, two failed writes of the address file before it ever existed, or
  a damaged one with the log as its only source, can lose a notice that nobody
  acknowledged; `NoticeKept` speaks of addresses that were noted. A failed write at
  a start whose address is the acknowledged one leaves a stale notice.

## 7. Not modelled

* Two updaters of the same package: recovery runs before the exclusive lock is
  taken (`update_core.py:1563`). Needs a second process; planned.
* The package checks and signatures of the update; migrations; removal of the WAL
  files by the restore (`restore.py:292–295`); the log-in limiter
  (`security.py:202–250`); drafts of forms; the lists of open handovers and of
  meetings to come.
* A number that another program has got makes starts refuse; `Service` has the
  state and claims nothing about getting out of it.
* Queries, reports, formatting and display change nothing. The update check and
  the search for network addresses are I/O; the build scripts run on the
  maintainers' machines, one step after the other.

## 8. Running

    tlc -config BookingHandover.cfg MCBooking
    tlc -config UpdateCrashes.cfg MCUpdate
    tlc -config MaintenanceRun.cfg MCMaintenance
    tlc -config ServiceLife.cfg MCService
    tlc -config InstallRun.cfg MCInstall
    tlc -config OverlayRun.cfg MCOverlayUpdate
    tlc -config Version1Run.cfg MCVersion1
    tlc -config Version1StartRun.cfg MCVersion1Start
    tlc -config SessionsRun.cfg MCSessions
    tlc -config NoticesRun.cfg MCNotices
    tlapm BookingProofs.tla          (likewise the other *Proofs modules)

`PROJECT.json` lists components, runs, the mutation of each property, the
source lines of each definition, hazards, findings and theorems.
