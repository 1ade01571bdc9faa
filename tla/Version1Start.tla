--------------------------- MODULE Version1Start ---------------------------
(***************************************************************************)
(* How version 1 comes up, from 源代码工作区/server.py and the start of    *)
(* app.py: the launcher asks who answers on the port, the program loads or *)
(* creates the two identity files, takes the port, seeds the database,     *)
(* notes the address colleagues must use, and serves.  Several starts of   *)
(* one folder may run at once; each generates its own fresh values, so a   *)
(* start stands for the key, the identity and the password it generates.   *)
(***************************************************************************)
EXTENDS Integers, Sequences, FiniteSets, FiniteSetsExt

CONSTANTS Starts,      \* processes, each run once
          Addresses,   \* private IPv4 addresses this machine may get
          MaxFaults,   \* bound: kills, failed writes, damage
          Missing, Damaged,  \* the file of the address is not there, or not valid
          Nothing      \* nobody on the port, no address, no notice


VARIABLES file,        \* .secret_key and install_id
          db,          \* who generated the administrator's password, or none, or changed
          credential,  \* the file with the first password
          network,     \* the file of the address: Missing, Damaged or a record
          logged,      \* addresses in server.log, the newest last
          port,        \* who listens
          at, mode,    \* where each start is; MEETING_ROOM_UPGRADE_CHECK
          memory,      \* what its process has loaded
          page,        \* the address on the notice the administrator has before him
          told,        \* the address colleagues were told last, if that is known
          faults

disk == <<file, db, credential, network, logged>>
mind == <<page, told>>
startVars == <<disk, port, at, mode, memory, mind, faults>>

Strangers == {"program", "meeting-room", "other", "other-check"}
Files == {"secret", "id"}
Bound == {"seed", "commit", "observe", "announce", "serve"}
Running == Bound \cup {"probe", "read", "create", "write", "wait", "bind", "retry"}
Fault == faults < MaxFaults /\ faults' = faults + 1

Changes == {"changed", "verify"}
Notices == [kind : Changes, new : Addresses]
\* What _write_network_state takes, and _read_network_state finds undamaged.
Records == [acknowledged : Addresses, observed : Addresses, pending : Notices \cup {Nothing}]

\* No name stands for two things.
NamesApart ==
    /\ Starts \cap ({Nothing, "absent", "empty", "none", "changed"} \cup Strangers) = {}
    /\ Nothing \notin Addresses \cup Strangers \cup Notices
    /\ Missing # Damaged /\ {Missing, Damaged} \cap Records = {}

ASSUME Version1StartAssumption == NamesApart /\ MaxFaults \in Nat

StartTypeOK ==
    /\ network \in {Missing, Damaged} \cup Records /\ logged \in Seq(Addresses)
    /\ file \in [Files -> {"absent", "empty"} \cup Starts]
    /\ db \in {"none", "changed"} \cup Starts /\ credential \in {"none"} \cup Starts
    /\ port \in {Nothing} \cup Strangers \cup Starts
    /\ at \in [Starts -> Running \cup {"new", "opened", "refused", "ended"}]
    /\ mode \in [Starts -> {"normal", "check"}]
    /\ memory \in [Starts -> [file : Files,
                              secret : Starts \cup {Nothing}, id : Starts \cup {Nothing},
                              lan : Addresses \cup {Nothing}, fallback : Notices \cup {Nothing}]]
    /\ page \in Addresses \cup {Nothing} /\ told \in Addresses \cup {Nothing}

StartInit ==
    /\ file = [f \in Files |-> "absent"]
    /\ db = "none" /\ credential = "none" /\ network = Missing /\ logged = <<>>
    /\ port = Nothing /\ at = [p \in Starts |-> "new"] /\ mode = [p \in Starts |-> "normal"]
    /\ memory = [p \in Starts |-> [file |-> "secret", secret |-> Nothing, id |-> Nothing,
                                   lan |-> Nothing, fallback |-> Nothing]]
    /\ page = Nothing /\ told = Nothing /\ faults = 0

Goto(p, step) == at' = [at EXCEPT ![p] = step]

-----------------------------------------------------------------------------
(* Who answers on the port *)

_read_local_install_id == CASE file["id"] = "absent" -> "missing"
                            [] file["id"] = "empty" -> "invalid"
                            [] OTHER -> "ok"

\* A mutant: without an identity of its own a folder takes any service for its own.
Verified_trusting(known, same) == IF known => same THEN "same-installation" ELSE "other-installation"

\* /healthz of a service that answers with an identity in normal mode.
Verified(known, same) ==
    IF ~known THEN "local-identity-problem"
    ELSE IF same THEN "same-installation" ELSE "other-installation"

Known == _read_local_install_id = "ok"

\* A start that has the port but does not serve yet accepts connections only.
_probe_app ==
    CASE port = Nothing -> "none"
      [] port = "meeting-room" -> "meeting-room-unverified"
      [] port = "other-check" -> "upgrade-check"
      [] port = "other" -> Verified(Known, FALSE)
      [] port \in Starts ->
           IF at[port] # "serve" THEN "occupied"
           ELSE IF mode[port] = "check" THEN "upgrade-check"
           ELSE Verified(Known, memory[port].id = file["id"])
      [] OTHER -> "occupied"

start(p, m) ==
    /\ at[p] = "new" /\ Goto(p, "probe") /\ mode' = [mode EXCEPT ![p] = m]
    /\ UNCHANGED <<disk, port, memory, mind, faults>>

\* Exit 10 with the browser opened, exit 1, or go on.
Answered(p, otherwise) ==
    /\ Goto(p, IF _probe_app = "same-installation" /\ mode[p] = "normal" THEN "opened"
               ELSE IF _probe_app # "none" THEN "refused" ELSE otherwise)
    /\ UNCHANGED <<disk, port, mode, memory, mind, faults>>

probe(p) ==
    at[p] = "probe" /\ Answered(p, IF _read_local_install_id = "invalid" THEN "refused" ELSE "read")

\* The import of the application or the binding has failed: asked once more.
retry(p) == at[p] = "retry" /\ Answered(p, "refused")

-----------------------------------------------------------------------------
(* create_app: the two identity files *)

Mine(p) == file[memory[p].file]

Loaded(p, value) ==
    /\ memory' = [memory EXCEPT ![p] =
                    IF @.file = "secret" THEN [@ EXCEPT !.secret = value, !.file = "id"]
                    ELSE [@ EXCEPT !.id = value]]
    /\ Goto(p, IF memory[p].file = "secret" THEN "read" ELSE "bind")

\* A file that is there and empty stops the start, whoever is about to fill it.
load_or_create(p) ==
    /\ at[p] = "read"
    /\ CASE Mine(p) = "absent" -> Goto(p, "create") /\ UNCHANGED memory
         [] Mine(p) = "empty" -> Goto(p, "retry") /\ UNCHANGED memory
         [] OTHER -> Loaded(p, Mine(p))
    /\ UNCHANGED <<disk, port, mode, mind, faults>>

MayCreate(p) == Mine(p) = "absent"

_write_text_exclusive(p) ==
    /\ at[p] = "create"
    /\ IF MayCreate(p)
       THEN file' = [file EXCEPT ![memory[p].file] = "empty"] /\ Goto(p, "write")
       ELSE Goto(p, "wait") /\ UNCHANGED file
    /\ UNCHANGED <<db, credential, network, logged, port, mode, memory, mind, faults>>

write_text(p) ==
    /\ at[p] = "write"
    /\ file' = [file EXCEPT ![memory[p].file] = p]
    /\ Loaded(p, p)
    /\ UNCHANGED <<db, credential, network, logged, port, mode, mind, faults>>

\* The loser reads until the winner has written, or gives up.
wait_for_writer(p) ==
    /\ at[p] = "wait"
    /\ IF Mine(p) \in Starts THEN Loaded(p, Mine(p)) ELSE Goto(p, "retry") /\ UNCHANGED memory
    /\ UNCHANGED <<disk, port, mode, mind, faults>>

-----------------------------------------------------------------------------
(* The port and the database *)

create_server(p) ==
    /\ at[p] = "bind"
    /\ IF port = Nothing THEN port' = p /\ Goto(p, "seed") ELSE Goto(p, "retry") /\ UNCHANGED port
    /\ UNCHANGED <<disk, mode, memory, mind, faults>>

AfterInit(p) == IF mode[p] = "check" THEN "serve" ELSE "observe"

\* A mutant: the row is committed before the file is written.
Seed_row_first(p, step) ==
    /\ db' = IF step = "seed" THEN p ELSE db
    /\ credential' = IF step = "seed" THEN credential ELSE p

\* The password is written for the administrator to find, then committed.
Seed(p, step) ==
    /\ db' = IF step = "seed" THEN db ELSE p
    /\ credential' = IF step = "seed" THEN p ELSE credential

init_db(p) ==
    /\ at[p] = "seed"
    /\ IF db = "none" THEN Seed(p, "seed") /\ Goto(p, "commit")
       ELSE Goto(p, AfterInit(p)) /\ UNCHANGED <<db, credential>>
    /\ UNCHANGED <<file, network, logged, port, mode, memory, mind, faults>>

init_db_commit(p) ==
    /\ at[p] = "commit" /\ Seed(p, "commit") /\ Goto(p, AfterInit(p))
    /\ UNCHANGED <<file, network, logged, port, mode, memory, mind, faults>>

\* A new password; the file goes after the commit, if it can be removed.
admin_edit_user_password(p) ==
    /\ at[p] = "serve" /\ db # "changed"
    /\ db' = "changed" /\ credential' \in {"none", credential}
    /\ UNCHANGED <<file, network, logged, port, at, mode, memory, mind, faults>>

-----------------------------------------------------------------------------
(* The address colleagues use *)

\* The adapters with a private address, by confidence (0: not there), and the
\* address of the default route.
Found == [Addresses -> 0 .. 2]
Best(found) == {a \in Addresses : found[a] > 0 /\ \A b \in Addresses : found[b] <= found[a]}
_select_local_ip(found, route) ==
    IF route # Nothing /\ found[route] > 0 THEN {route}
    ELSE IF Cardinality(Best(found)) = 1 THEN Best(found) ELSE {Nothing}

\* What is shown next to a new address, the old one, is left out.
Notice(kind, new) == [kind |-> kind, new |-> new]
State(acknowledged, observed, pending) ==
    [acknowledged |-> acknowledged, observed |-> observed, pending |-> pending]
Changed(old, lan) == State(old, lan, IF old = lan THEN Nothing ELSE Notice("changed", lan))

\* _latest_logged_lan_url, with the address it must differ from.
LatestLogged(not) ==
    LET others == {i \in DOMAIN logged : logged[i] # not}
    IN IF others = {} THEN Nothing ELSE logged[Max(others)]

\* A mutant: what was seen last counts as acknowledged.
Baseline_observed(state) == state.observed

Baseline(state) == state.acknowledged

_observe_network_url_unlocked(lan) ==
    CASE network = Missing ->
           Changed(IF LatestLogged(Nothing) = Nothing THEN lan ELSE LatestLogged(Nothing), lan)
      [] network = Damaged ->
           IF LatestLogged(lan) = Nothing THEN State(lan, lan, Notice("verify", lan))
           ELSE Changed(LatestLogged(lan), lan)
      [] OTHER ->
           IF network.pending # Nothing /\ network.pending.kind = "verify"
           THEN IF lan = network.observed THEN network ELSE Changed(network.observed, lan)
           ELSE Changed(Baseline(network), lan)

Remember(p, lan, fallback) ==
    memory' = [memory EXCEPT ![p] = [@ EXCEPT !.lan = lan, !.fallback = fallback]]

observe_network_url(p, lan) ==
    /\ at[p] = "observe" /\ Goto(p, "announce")
    /\ \/ lan = Nothing /\ Remember(p, lan, Nothing) /\ UNCHANGED <<network, told, faults>>
       \/ /\ lan # Nothing /\ network' = _observe_network_url_unlocked(lan)
          /\ told' = IF network = Missing THEN network'.acknowledged ELSE told
          /\ Remember(p, lan, Nothing) /\ UNCHANGED faults
       \/ /\ lan # Nothing /\ Fault
          /\ Remember(p, lan, _observe_network_url_unlocked(lan).pending)
          /\ UNCHANGED <<network, told>>
    /\ UNCHANGED <<file, db, credential, logged, port, mode, page>>

announce(p) ==
    LET lan == memory[p].lan
    IN /\ at[p] = "announce" /\ Goto(p, "serve")
       /\ logged' = IF lan = Nothing THEN logged ELSE Append(logged, lan)
       /\ UNCHANGED <<file, db, credential, network, port, mode, memory, mind, faults>>

\* network_address_status: the notice of this run, else the stored one.
Pending(p) ==
    IF memory[p].fallback # Nothing THEN memory[p].fallback
    ELSE IF network \in {Missing, Damaged} THEN Nothing ELSE network.pending

ServesAdmin(p) == at[p] = "serve" /\ mode[p] = "normal"

inject_globals(p) ==
    /\ ServesAdmin(p)
    /\ page' = IF Pending(p) = Nothing THEN Nothing ELSE Pending(p).new
    /\ UNCHANGED <<disk, port, at, mode, memory, told, faults>>

\* The form carries the address the page showed, however old the page is.
acknowledge_network_address(p) ==
    /\ ServesAdmin(p) /\ page # Nothing /\ page' = Nothing
    /\ IF Pending(p) # Nothing /\ Pending(p).new = page
       THEN \/ /\ network' = State(page, page, Nothing) /\ told' = page
               /\ Remember(p, memory[p].lan, Nothing) /\ UNCHANGED faults
            \/ Fault /\ UNCHANGED <<network, told, memory>>
       ELSE UNCHANGED <<network, told, memory, faults>>
    /\ UNCHANGED <<file, db, credential, logged, port, at, mode>>

-----------------------------------------------------------------------------
(* The end of a start, and its surroundings *)

Leaves(p) == port' = IF port = p THEN Nothing ELSE port

shutdown(p) ==
    /\ at[p] = "serve" /\ Goto(p, "ended") /\ Leaves(p)
    /\ UNCHANGED <<disk, mode, memory, mind, faults>>

\* The process is killed; or init_db raises, and the server is closed.
kill(p) ==
    /\ at[p] \in Running /\ Goto(p, "ended") /\ Leaves(p) /\ Fault
    /\ UNCHANGED <<disk, mode, memory, mind>>

stranger(s) ==
    /\ \/ port = Nothing /\ port' = s
       \/ port = s /\ port' = Nothing
    /\ UNCHANGED <<disk, at, mode, memory, mind, faults>>

damage ==
    /\ network \notin {Missing, Damaged} /\ Fault
    /\ network' = Damaged /\ told' = Nothing
    /\ UNCHANGED <<file, db, credential, logged, port, at, mode, memory, page>>

create_app(p) == load_or_create(p) \/ _write_text_exclusive(p) \/ write_text(p) \/ wait_for_writer(p)
main(p) ==
    \/ \E m \in {"normal", "check"} : start(p, m)
    \/ probe(p) \/ retry(p) \/ create_app(p) \/ create_server(p)
    \/ init_db(p) \/ init_db_commit(p)
    \/ \E found \in Found, route \in Addresses \cup {Nothing} :
          \E lan \in _select_local_ip(found, route) : observe_network_url(p, lan)
    \/ announce(p) \/ shutdown(p)
Pages(p) == admin_edit_user_password(p) \/ inject_globals(p) \/ acknowledge_network_address(p)

StartNext ==
    \/ \E p \in Starts : main(p) \/ Pages(p) \/ kill(p)
    \/ damage \/ \E s \in Strangers : stranger(s)
StartSpec == StartInit /\ [][StartNext]_startVars

-----------------------------------------------------------------------------
(* Properties *)

\* However the starts of one folder race and wherever they are killed, whoever
\* holds the port runs with the key and the identity that are on disk: sessions
\* outlive it and the next start recognises it.
OneIdentity ==
    \A p \in Starts : at[p] \in Bound => memory[p].secret = file["secret"] /\ memory[p].id = file["id"]

\* The browser is opened on the data of this folder only.
OpensOwn ==
    [][\A p \in Starts : at[p] # "opened" /\ at'[p] = "opened" =>
         port \in Starts /\ at[port] = "serve" /\ mode[port] = "normal"]_startVars

\* Until it is changed the administrator's password can be read in the file, even
\* when the first start died between the file and the commit.
CredentialIsTrue == db \in Starts => credential = db

\* The three files of a first start say what its processes and its database hold.
FilesAreTrue == OneIdentity /\ CredentialIsTrue

\* A service whose address was noted, in the file or in its memory, and is not the
\* one colleagues were told last, shows the notice, over restarts and failed writes.
NoticeKept ==
    \A p \in Starts :
        /\ ServesAdmin(p) /\ memory[p].lan # Nothing
        /\ told \notin {Nothing, memory[p].lan}
        /\ memory[p].fallback # Nothing \/ network.observed = memory[p].lan
        => Pending(p) # Nothing /\ Pending(p).new = memory[p].lan
=============================================================================
