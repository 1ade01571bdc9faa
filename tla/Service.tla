------------------------------ MODULE Service ------------------------------
(***************************************************************************)
(* The life of the service process: the claim of data/service.pid, the     *)
(* listener and its re-creation, the stop command, and the first-run setup *)
(* that makes the listener move from the loopback to the network.  From    *)
(* service.py, server.py, create_app and prepare_database of v2app, and    *)
(* complete_setup of api/core.py.                                          *)
(*                                                                         *)
(* A process is one run of service.py and its pid record; the record is    *)
(* known by the process, whose token is drawn at random.                   *)
(***************************************************************************)
EXTENDS Integers, FiniteSets

CONSTANTS Processes,   \* runs of service.py
          Stoppers,    \* runs of service.py --stop
          Requests,    \* first-run setup requests
          Nobody,      \* no process
          MaxFaults    \* bound: kills, interrupts, lost databases, foreign programs

ASSUME ServiceAssumption ==
    /\ Nobody \notin Processes /\ Processes \cap Stoppers = {}
    /\ MaxFaults \in Nat

VARIABLES pid_file,     \* data/service.pid
          database,     \* reservation.db
          install_json, \* the mirror: install.json says that setup is complete
          listener,     \* who listens on the port, and how
          pc,           \* next step of each process and of each stopper
          mem,          \* what each of them remembers
          requests,     \* the setup requests
          reused,       \* dead processes whose number another program has
          history,      \* setups committed; whether the network was served; whose pid
                        \* file was unlinked in the place of the one compared
          faults        \* faults so far

files == <<pid_file, database, install_json>>
work == <<pc, mem, requests>>
vars == <<pid_file, database, install_json, listener, pc, mem, requests, reused,
          history, faults>>

Actors == Processes \cup Stoppers

NoFile == [owner |-> Nobody, written |-> FALSE]

\* A file is created empty and then written.
PidFile == [owner : Processes, written : BOOLEAN] \cup {NoFile}

Mode == {"loopback", "lan"}

NoListener == [proc |-> Nobody, mode |-> "loopback", ready |-> FALSE]

Listener == [proc : Processes, mode : Mode, ready : BOOLEAN] \cup {NoListener}

\* found: the owner of the pid file as read; compared: whose file it was at the
\* last comparison; before: who served when --stop began; stop and setup: the
\* events of a service.
Memory == [found : Processes \cup {Nobody}, compared : Processes \cup {Nobody},
           attempt : 1 .. 2,
           before : SUBSET Processes, stop : BOOLEAN, setup : BOOLEAN]

NoMemory == [found |-> Nobody, compared |-> Nobody, attempt |-> 1, before |-> {},
             stop |-> FALSE, setup |-> FALSE]

ProcessSteps == {"new", "claim", "write", "read", "inspect", "recheck", "unlink",
                 "open", "listen", "returned", "release", "dead"}

StopperSteps == {"new", "read", "inspect", "recheck", "unlink", "post", "wait",
                 "stopped", "failed"}

TypeOK ==
    /\ pid_file \in PidFile
    /\ database \in {"missing", "fresh", "complete"}
    /\ install_json \in BOOLEAN
    /\ listener \in Listener
    /\ \A p \in Processes : listener.proc = p <=> pc[p] = "listen"
    /\ \A p \in Processes : pc[p] \in ProcessSteps
    /\ \A s \in Stoppers : pc[s] \in StopperSteps
    /\ mem \in [Actors -> Memory]
    /\ requests \in [Requests -> [at : {"idle", "commit", "mirror", "answer"},
                                  proc : Processes \cup {Nobody}]]
    /\ reused \subseteq Processes
    /\ history \in [founders : Nat, opened : BOOLEAN, robbed : SUBSET Processes]
    /\ faults \in 0 .. MaxFaults

NoRequest == [at |-> "idle", proc |-> Nobody]

Init ==
    /\ pid_file = NoFile
    /\ database = "missing" /\ install_json = FALSE
    /\ listener = NoListener
    /\ pc = [a \in Actors |-> "new"] /\ mem = [a \in Actors |-> NoMemory]
    /\ requests = [r \in Requests |-> NoRequest]
    /\ reused = {}
    /\ history = [founders |-> 0, opened |-> FALSE, robbed |-> {}]
    /\ faults = 0

-----------------------------------------------------------------------------
(* The pid file *)

Ended(a) == IF a \in Processes THEN "dead" ELSE "failed"

\* What a process remembers and the requests it serves end with it.
Step(a, from, to, memory) ==
    /\ pc[a] = from
    /\ pc' = [pc EXCEPT ![a] = to]
    /\ mem' = [mem EXCEPT ![a] = IF to = Ended(a) THEN NoMemory ELSE memory]
    /\ requests' = [r \in Requests |->
                      IF to = Ended(a) /\ requests[r].proc = a THEN NoRequest
                      ELSE requests[r]]

Goto(a, from, to) == Step(a, from, to, mem[a])

Alive(p) == pc[p] \notin {"new", "dead"}

\* The number of a process says nothing about the program that has it now.
pid_exists(p) == Alive(p) \/ p \in reused

Serving == {p \in Processes : pc[p] \in {"open", "listen", "returned"}}

Owns(p) == pid_file = [owner |-> p, written |-> TRUE]

Compared(a) == [mem[a] EXCEPT !.compared = pid_file.owner]

\* _remove_pid_if_token: the record is read twice, and then unlinked by name.
recheck_unread(a) ==
    /\ Step(a, "recheck", "unlink", Compared(a))
    /\ pid_file.written
    /\ UNCHANGED <<files, listener, reused, history, faults>>

recheck(a) ==
    /\ Step(a, "recheck", "unlink", Compared(a))
    /\ Owns(mem[a].found)
    /\ UNCHANGED <<files, listener, reused, history, faults>>

not_the_one(a) ==
    /\ Goto(a, "recheck", Ended(a))
    /\ ~Owns(mem[a].found)
    /\ UNCHANGED <<files, listener, reused, history, faults>>

\* Nothing holds the file between the comparison and the unlink: what is removed
\* is the file that has the name now.  A starter that has removed a file tries
\* once more; a process that has removed its own file ends.
Removed(a) ==
    CASE a \in Stoppers -> "stopped"
      [] a \in Processes -> IF mem[a].found # a /\ mem[a].attempt = 1
                            THEN "claim" ELSE "dead"

unlink(a) ==
    /\ Step(a, "unlink", Removed(a),
            [mem[a] EXCEPT !.found = Nobody, !.compared = Nobody, !.attempt = 2])
    /\ pid_file # NoFile
    /\ pid_file' = NoFile
    /\ history' = [history EXCEPT !.robbed = @ \cup ({pid_file.owner} \ {mem[a].compared})]
    /\ UNCHANGED <<database, install_json, listener, reused, faults>>

\* The file is gone, or the system refuses to remove it.
unlink_fails(a) ==
    /\ Goto(a, "unlink", Ended(a))
    /\ UNCHANGED <<files, listener, reused, history, faults>>

\* _read_pid_record; an empty file cannot be read.
read_pid_record(a) ==
    /\ Step(a, "read", "inspect", [mem[a] EXCEPT !.found = pid_file.owner])
    /\ pid_file.written
    /\ UNCHANGED <<files, listener, reused, history, faults>>

unreadable(a) ==
    /\ Goto(a, "read", IF a \in Stoppers /\ pid_file = NoFile THEN "stopped"
                       ELSE Ended(a))
    /\ ~pid_file.written
    /\ UNCHANGED <<files, listener, reused, history, faults>>

stale(a) ==
    /\ Goto(a, "inspect", "recheck")
    /\ ~pid_exists(mem[a].found)
    /\ UNCHANGED <<files, listener, reused, history, faults>>

-----------------------------------------------------------------------------
(* A start of the service: _claim_pid *)

start(p) ==
    /\ Goto(p, "new", "claim")
    /\ UNCHANGED <<files, listener, reused, history, faults>>

\* O_CREAT | O_EXCL
create_pid_file(p) ==
    /\ Goto(p, "claim", "write")
    /\ pid_file = NoFile
    /\ pid_file' = [owner |-> p, written |-> FALSE]
    /\ UNCHANGED <<database, install_json, listener, reused, history, faults>>

write_pid_file(p) ==
    /\ Goto(p, "write", "open")
    /\ pid_file' = IF pid_file.owner = p THEN [owner |-> p, written |-> TRUE] ELSE pid_file
    /\ UNCHANGED <<database, install_json, listener, reused, history, faults>>

pid_file_exists(p) ==
    /\ Goto(p, "claim", "read")
    /\ pid_file # NoFile
    /\ UNCHANGED <<files, listener, reused, history, faults>>

\* The service runs already, or what has its number cannot be identified.
refuse_start(p) ==
    /\ Goto(p, "inspect", "dead")
    /\ pid_exists(mem[p].found)
    /\ UNCHANGED <<files, listener, reused, history, faults>>

-----------------------------------------------------------------------------
(* The listener: run_server_once *)

\* A complete installation without its database is not set up again.
recovery == install_json /\ database # "complete"

sync_never == UNCHANGED install_json

\* The mirror follows the database, upwards only.
sync == install_json' = (install_json \/ database = "complete")

prepare_database ==
    database' = IF database = "missing" /\ ~recovery THEN "fresh" ELSE database

determine_bind_host == IF database = "complete" THEN "lan" ELSE "loopback"

\* create_app and create_server.
open(p) ==
    /\ Step(p, "open", "listen", [mem[p] EXCEPT !.setup = FALSE])
    /\ listener = NoListener
    /\ prepare_database /\ sync
    /\ listener' = [proc |-> p, mode |-> determine_bind_host, ready |-> ~recovery]
    /\ history' = [history EXCEPT !.opened = @ \/ determine_bind_host = "lan"]
    /\ UNCHANGED <<pid_file, reused, faults>>

\* By another service, or by another program.
port_taken(p) ==
    /\ Goto(p, "open", "release")
    /\ prepare_database /\ sync
    /\ faults' = faults + (IF listener = NoListener THEN 1 ELSE 0)
    /\ faults' <= MaxFaults
    /\ UNCHANGED <<pid_file, listener, reused, history>>

\* install.json cannot be written.
sync_fails(p) ==
    /\ Goto(p, "open", "release")
    /\ database = "complete" /\ ~install_json
    /\ UNCHANGED <<files, listener, reused, history, faults>>

signalled_on_loopback(p) ==
    listener.mode = "loopback" /\ (mem[p].setup \/ mem[p].stop)

\* The monitor thread looks for either event.
signalled(p) == mem[p].setup \/ mem[p].stop

close_listener(p) ==
    /\ Goto(p, "listen", "returned")
    /\ signalled(p)
    /\ listener' = NoListener
    /\ UNCHANGED <<files, reused, history, faults>>

\* The window is closed, or the server fails.
interrupted(p) ==
    /\ Goto(p, "listen", "release")
    /\ faults < MaxFaults /\ faults' = faults + 1
    /\ listener' = NoListener
    /\ UNCHANGED <<files, reused, history>>

returned(p) ==
    /\ Goto(p, "returned", IF mem[p].setup /\ ~mem[p].stop THEN "open" ELSE "release")
    /\ UNCHANGED <<files, listener, reused, history, faults>>

release(p) ==
    /\ Step(p, "release", "recheck", [mem[p] EXCEPT !.found = p])
    /\ UNCHANGED <<files, listener, reused, history, faults>>

-----------------------------------------------------------------------------
(* service.py --stop *)

\* Another run of the command may follow one that is over.
begin_stop(s) ==
    /\ \E from \in {"new", "stopped", "failed"} :
           Step(s, from, "read", [NoMemory EXCEPT !.before = Serving])
    /\ UNCHANGED <<files, listener, reused, history, faults>>

found_alive(s) ==
    /\ Goto(s, "inspect", "post")
    /\ pid_exists(mem[s].found)
    /\ UNCHANGED <<files, listener, reused, history, faults>>

\* /_service/stop, which compares the token and the record.
post_stop(s) ==
    /\ pc[s] = "post"
    /\ listener.proc = mem[s].found
    /\ pc' = [pc EXCEPT ![s] = "wait"]
    /\ mem' = [mem EXCEPT ![mem[s].found].stop = TRUE]
    /\ UNCHANGED <<files, listener, requests, reused, history, faults>>

stop_refused(s) ==
    /\ Goto(s, "post", "failed")
    /\ listener.proc # mem[s].found
    /\ UNCHANGED <<files, listener, reused, history, faults>>

stop_believed(s) ==
    /\ Goto(s, "wait", "stopped")
    /\ UNCHANGED <<files, listener, reused, history, faults>>

stop_confirmed(s) ==
    /\ Goto(s, "wait", "stopped")
    /\ pid_file = NoFile /\ ~pid_exists(mem[s].found)
    /\ UNCHANGED <<files, listener, reused, history, faults>>

stop_timeout(s) ==
    /\ Goto(s, "wait", "failed")
    /\ UNCHANGED <<files, listener, reused, history, faults>>

-----------------------------------------------------------------------------
(* The first-run setup: complete_setup *)

At(r, from, to, proc) ==
    /\ requests[r].at = from
    /\ requests' = [requests EXCEPT ![r] = [at |-> to, proc |-> proc]]

post_setup(r) ==
    /\ listener # NoListener /\ listener.ready
    /\ At(r, "idle", "commit", listener.proc)
    /\ UNCHANGED <<files, listener, pc, mem, reused, history, faults>>

\* One transaction that refuses a database that is set up.
commit_setup(r) ==
    /\ At(r, "commit", "mirror", requests[r].proc)
    /\ database = "fresh"
    /\ database' = "complete"
    /\ history' = [history EXCEPT !.founders = @ + 1]
    /\ UNCHANGED <<pid_file, install_json, listener, pc, mem, reused, faults>>

setup_refused(r) ==
    /\ At(r, "commit", "idle", Nobody)
    /\ database # "fresh"
    /\ UNCHANGED <<files, listener, pc, mem, reused, history, faults>>

\* A mirror that cannot be written is left to the next start.
sync_install_json(r) ==
    /\ At(r, "mirror", "answer", requests[r].proc)
    /\ install_json' \in {install_json, TRUE}
    /\ UNCHANGED <<pid_file, database, listener, pc, mem, reused, history, faults>>

\* The event is set when the response is out.
answer(r) ==
    /\ At(r, "answer", "idle", Nobody)
    /\ mem' = [mem EXCEPT ![requests[r].proc].setup = TRUE]
    /\ UNCHANGED <<files, listener, pc, reused, history, faults>>

-----------------------------------------------------------------------------
(* What goes wrong *)

kill(a) ==
    /\ faults < MaxFaults /\ faults' = faults + 1
    /\ pc[a] \notin {"new", "dead", "stopped", "failed"}
    /\ Goto(a, pc[a], Ended(a))
    /\ listener' = IF listener.proc = a THEN NoListener ELSE listener
    /\ UNCHANGED <<files, reused, history>>

\* Another program gets the number of a service that has ended.
reuse_pid(p) ==
    /\ faults < MaxFaults /\ faults' = faults + 1
    /\ pc[p] = "dead" /\ p \notin reused
    /\ reused' = reused \cup {p}
    /\ UNCHANGED <<files, listener, work, history>>

\* While no service runs, the database file is lost or an old one is put back.
lose_database ==
    /\ faults < MaxFaults /\ faults' = faults + 1
    /\ \A p \in Processes : ~Alive(p)
    /\ database' \in {"missing", "fresh"} \ {database}
    /\ UNCHANGED <<pid_file, install_json, listener, work, reused, history>>

Serve(p) ==
    \/ create_pid_file(p) \/ write_pid_file(p) \/ pid_file_exists(p)
    \/ refuse_start(p) \/ open(p) \/ port_taken(p) \/ sync_fails(p)
    \/ close_listener(p) \/ returned(p) \/ release(p)

Stop(s) ==
    \/ found_alive(s) \/ post_stop(s) \/ stop_refused(s)
    \/ stop_confirmed(s) \/ stop_timeout(s)

Remove(a) ==
    \/ read_pid_record(a) \/ unreadable(a) \/ stale(a)
    \/ recheck(a) \/ not_the_one(a) \/ unlink(a) \/ unlink_fails(a)

Setup(r) == commit_setup(r) \/ setup_refused(r) \/ sync_install_json(r) \/ answer(r)

Next ==
    \/ \E p \in Processes : start(p) \/ Serve(p) \/ interrupted(p) \/ reuse_pid(p)
    \/ \E s \in Stoppers : begin_stop(s) \/ Stop(s)
    \/ \E a \in Actors : Remove(a) \/ kill(a)
    \/ \E r \in Requests : post_setup(r) \/ Setup(r)
    \/ lose_database

Spec == Init /\ [][Next]_vars

\* The threads of a process that is not killed run.
Fairness ==
    /\ \A p \in Processes : WF_vars(Serve(p) \/ Remove(p))
    /\ \A r \in Requests : WF_vars(Setup(r))

FairSpec == Spec /\ Fairness
-----------------------------------------------------------------------------
(* Properties *)

\* The pid file is the one of the process that serves, as long as it serves: it
\* can be stopped, and nobody starts beside it.  Only a process whose own file
\* was unlinked after another one had been compared serves without it, which the
\* comment at service.py:383-384 excludes (_claim_pid, _remove_pid_if_token).
ServingOwnsPid == \A p \in Serving : Owns(p) \/ p \in history.robbed

\* When --stop reports success, no process that served when it began serves
\* still, unless its own file was unlinked in the place of another: what needs
\* the service down, like a restore, may go on.
StopIsTrue ==
    \A s \in Stoppers :
        pc[s] = "stopped" => mem[s].before \cap Serving \subseteq history.robbed

\* Once the network has been served no setup is committed any more, whatever
\* happens to the database file and wherever the setup was cut.
SetupOnce == [][history.opened => history'.founders = history.founders]_vars

\* A committed setup brings the listener that took it to the network, unless its
\* process ends.
SetupOpensNetwork ==
    \A p \in Processes :
        (listener = [proc |-> p, mode |-> "loopback", ready |-> TRUE]
         /\ database = "complete")
        ~> (listener = [proc |-> p, mode |-> "lan", ready |-> TRUE] \/ pc[p] = "dead")

\* A service that was told to stop ends.
StopEnds == \A p \in Processes : mem[p].stop ~> pc[p] = "dead"

\* Neither of the two signals of the server is lost to the other.
SignalsTakeEffect == SetupOpensNetwork /\ StopEnds
=============================================================================
