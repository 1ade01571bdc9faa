------------------------------ MODULE Install ------------------------------
(***************************************************************************)
(* The first installation on Windows, from installer_core.py and           *)
(* install.py: a tree is built beside the target and moved into place, the *)
(* scheduled tasks, the firewall rules and the registry key are made       *)
(* without effect, the version file commits, and only then the resources   *)
(* are switched on.  Any step can fail: before the commit the installer    *)
(* takes back what it made, after it only switches off what it switched on.*)
(*                                                                         *)
(* An installer is one run of install.py; its transaction and install ids  *)
(* are drawn at random and are known by the run.                           *)
(***************************************************************************)
EXTENDS Naturals, FiniteSets

CONSTANTS Installers,  \* runs of install.py
          Earlier,     \* an installation that was there before
          Nobody,      \* no installation
          MaxFaults    \* bound: failed calls, kills, power losses, other programs

ASSUME InstallAssumption ==
    /\ Earlier \notin Installers /\ Nobody \notin Installers \cup {Earlier}
    /\ MaxFaults \in Nat

VARIABLES damaged,   \* the parts of the package that are not what its manifest says
          target,    \* what is at the target: nothing, an empty folder, ...
          staging,   \* installers whose tree is still beside the target
          aside,     \* the folder each installer has moved out of the way
          has,       \* the parts written of each installer's tree
          resource,  \* the two tasks and the two rules
          registry,  \* the registry key
          running,   \* the installation whose service runs
          lock,      \* who holds the lock of the target
          preexisting_empty, \* __init__ has found an empty folder
          pc,        \* next step of each installer, or its exit code
          faults

files == <<target, staging, aside, has>>
machine == <<resource, registry, running>>
vars == <<damaged, target, staging, aside, has, resource, registry, running, lock,
          preexisting_empty, pc, faults>>

Tasks == {"service", "backup"}
Rules == {"manual", "background"}
Names == Tasks \cup Rules

Nothing == "nothing"
Folder == {Nothing, "empty", "foreign"}

\* Nobody calls a tree like a state of the folder.
ASSUME FolderAssumption == Installers \cap Folder = {}
Parts == {"state", "payload", "runtime", "identity", "generation", "version", "receipt"}

\* A runtime that was copied and is not the one of the manifest.
BadRuntime == "bad_runtime"

PackageParts == {"payload", "runtime", "tool"}

NoResource == [owner |-> Nobody, on |-> FALSE]

\* marked: TransactionInstallId is written; whole: the values and the ACL are.
NoKey == [owner |-> Nobody, marked |-> FALSE, whole |-> FALSE]

\* The steps between staging.mkdir and the registration of resources.
Building == {"staged", "payload", "runtime", "identity", "aside", "place", "placed"}

\* resources_configured is set: from here a failure takes resources back.
Configuring == {"configure", "acl", "service", "service_off", "backup", "backup_off", "manual",
                "background", "key", "mark", "values", "verify", "generation", "version"}

\* version_committed is set.
Starting == {"activate", "rules_on", "tasks_on", "start", "health", "verify_again",
             "receipt", "finish"}

Containing == {"contain", "contain_tasks", "contain_rules"}

RollingBack == {"rollback_tasks", "rollback_rules", "rollback_key", "clean", "restore"}

\* The exit codes 0, 5, 5, 1, 6, 4, 3, and the end of a process that was killed.
Ends == {"complete", "contained", "uncontained", "failed", "stuck", "busy",
         "cancelled", "dead"}

Waiting == {"new", "target", "elevate", "load_again", "port", "init", "lock"}

Held == {"check", "mkdir", "secure"} \cup Building \cup Configuring \cup Starting
        \cup Containing \cup RollingBack

TypeOK ==
    /\ target \in Folder \cup Installers
    /\ staging \subseteq Installers
    /\ aside \in [Installers -> Folder] /\ has \in [Installers -> SUBSET (Parts \cup {BadRuntime})]
    /\ damaged \subseteq PackageParts
    /\ resource \in [Names -> [owner : Installers \cup {Earlier, Nobody}, on : BOOLEAN]]
    /\ registry \in [owner : Installers \cup {Earlier, Nobody}, marked : BOOLEAN,
                     whole : BOOLEAN]
    /\ running \in Installers \cup {Earlier, Nobody}
    /\ pc \in [Installers -> Waiting \cup Held \cup Ends]
    /\ \A i \in Installers : lock = i <=> pc[i] \in Held
    /\ faults \in 0 .. MaxFaults

\* A new machine, or one where somebody has deleted the folder of an earlier
\* installation and left its registrations.
Init ==
    /\ damaged = {}
    /\ target \in {Nothing, "empty", "foreign"}
    /\ staging = {} /\ aside = [i \in Installers |-> Nothing]
    /\ has = [i \in Installers |-> {}]
    /\ \/ resource = [n \in Names |-> NoResource] /\ registry = NoKey
       \/ /\ resource = [n \in Names |-> [owner |-> Earlier, on |-> TRUE]]
          /\ registry = [owner |-> Earlier, marked |-> TRUE, whole |-> TRUE]
    /\ running = Nobody /\ lock = Nobody
    /\ preexisting_empty = [i \in Installers |-> FALSE]
    /\ pc = [i \in Installers |-> "new"] /\ faults = 0

-----------------------------------------------------------------------------
(* Steps *)

\* The lock of the target is left with the block that holds it.
Goto(i, to) ==
    /\ pc' = [pc EXCEPT ![i] = to]
    /\ lock' = IF to \in Held THEN i ELSE IF lock = i THEN Nobody ELSE lock

Step(i, from, to) ==
    pc[i] = from /\ Goto(i, to) /\ UNCHANGED <<damaged, preexisting_empty, faults>>

\* validate_target
Acceptable == target \in {Nothing, "empty"}

\* _load_payload, _load_runtime and _load_tool compare the files with the records
\* of the manifest; the runtime also with its provenance and its licences.
payload_sound == "payload" \notin damaged
runtime_sound == "runtime" \notin damaged
tool_sound == "tool" \notin damaged

Intact == payload_sound /\ runtime_sound /\ tool_sound

\* Bundle.load: every file of the payload, the runtime and the tool is read
\* and compared with the manifest; the elevated run does it again.
load_bundle(i) ==
    /\ \/ Step(i, "new", IF Intact THEN "target" ELSE "failed")
       \/ Step(i, "load_again", IF Intact /\ Acceptable THEN "port" ELSE "failed")
    /\ UNCHANGED <<files, machine>>

\* The user confirms the installation, and then the elevation.
choose_target(i) ==
    /\ \/ Step(i, "target", IF Acceptable THEN "elevate" ELSE "failed")
       \/ Step(i, "target", "cancelled")
    /\ UNCHANGED <<files, machine>>

run_elevated(i) ==
    /\ Step(i, "elevate", "load_again") \/ Step(i, "elevate", "cancelled")
    /\ UNCHANGED <<files, machine>>

\* Nothing may listen on the port; what does is left alone.
assert_service_port_available(i) ==
    /\ Step(i, "port", IF running = Nobody THEN "init" ELSE "failed")
    /\ UNCHANGED <<files, machine>>

\* __init__ looks at the target and remembers what it found.
transaction(i) ==
    /\ pc[i] = "init" /\ preexisting_empty' = [preexisting_empty EXCEPT ![i] = target = "empty"]
    /\ Goto(i, IF Acceptable THEN "lock" ELSE "failed")
    /\ UNCHANGED <<files, machine, faults, damaged>>

\* Somebody may have changed the target before run has its lock.
take_lock(i) ==
    /\ Step(i, "lock", IF lock = Nobody THEN "check" ELSE "busy")
    /\ UNCHANGED <<files, machine>>

recheck(i) ==
    /\ Step(i, "check", IF Acceptable /\ (target = "empty") = preexisting_empty[i]
                        THEN "mkdir" ELSE "failed")
    /\ UNCHANGED <<files, machine>>

make_staging(i) ==
    /\ Step(i, "mkdir", "secure")
    /\ staging' = staging \cup {i}
    /\ UNCHANGED <<target, aside, has, machine>>

secure_staging(i) ==
    /\ Step(i, "secure", "staged")
    /\ UNCHANGED <<files, machine>>

\* The folder is still empty when its access list cannot be set; an error of its
\* removal is suppressed.
secure_fails(i) ==
    /\ pc[i] = "secure" /\ faults < MaxFaults /\ faults' = faults + 1
    /\ staging' \in {staging \ {i}, staging} /\ Goto(i, "failed")
    /\ UNCHANGED <<damaged, target, aside, has, preexisting_empty, machine>>

\* A file of the tree, wherever the tree is.
Write(i, part) ==
    /\ has' = [has EXCEPT ![i] = @ \cup {part}]
    /\ UNCHANGED <<target, staging, aside, machine>>

\* A mutant: resources_configured is set when configure_disabled has returned.
Handler_late(step) ==
    CASE step \in {"check", "mkdir"} -> "failed"
      [] step \in Building \cup (Configuring \ {"verify", "generation", "version"}) -> "clean"
      [] step \in {"verify", "generation", "version"} -> "rollback_tasks"
      [] step \in Starting -> "contain"
      [] step \in Containing -> "uncontained"
      [] step \in RollingBack -> "stuck"

\* Where a step that raises goes: the flags target_committed,
\* resources_configured and version_committed tell how far run has come.
Handler(step) ==
    CASE step \in {"check", "mkdir"} -> "failed"
      [] step \in Building -> "clean"
      [] step \in Configuring -> "rollback_tasks"
      [] step \in Starting -> "contain"
      [] step \in Containing -> "uncontained"
      [] step \in RollingBack -> "stuck"

\* The payload comes from the bytes that were checked; the runtime is copied
\* from the package once more, and the copy is compared.
fill(i) ==
    \/ Step(i, "staged", "payload") /\ Write(i, "state")
    \/ Step(i, "payload", "runtime") /\ Write(i, "payload")
    \/ Step(i, "runtime", "identity") /\ runtime_sound /\ Write(i, "runtime")
    \/ Step(i, "runtime", Handler("runtime")) /\ ~runtime_sound /\ Write(i, BadRuntime)
    \/ /\ Step(i, "identity", IF preexisting_empty[i] THEN "aside" ELSE "place")
       /\ Write(i, "identity")

\* The empty folder is moved aside and looked at once more.
move_aside(i) ==
    /\ pc[i] = "aside"
    /\ IF target \in {"empty", "foreign"}
       THEN aside' = [aside EXCEPT ![i] = target] /\ target' = Nothing
       ELSE UNCHANGED <<aside, target>>
    /\ Goto(i, IF target = "empty" THEN "place" ELSE Handler("aside"))
    /\ UNCHANGED <<damaged, staging, has, machine, preexisting_empty, faults>>

\* The move of the tree is refused when something is at the target.
place(i) ==
    /\ pc[i] = "place"
    /\ IF target = Nothing
       THEN target' = i /\ staging' = staging \ {i} /\ Goto(i, "placed")
       ELSE UNCHANGED <<target, staging>> /\ Goto(i, Handler("place"))
    /\ UNCHANGED <<damaged, aside, has, machine, preexisting_empty, faults>>

record_placed(i) ==
    /\ Step(i, "placed", "configure")
    /\ UNCHANGED <<files, machine>>

-----------------------------------------------------------------------------
(* WindowsSystemController *)

\* configure_disabled looks for anything of its own names first.
configure_disabled(i) ==
    /\ Step(i, "configure", IF /\ registry = NoKey
                               /\ \A n \in Names : resource[n] = NoResource
                            THEN "acl" ELSE Handler("configure"))
    /\ UNCHANGED <<files, machine>>

\* The access lists of the whole tree, which verify_security reads back.
set_acl(i) == Step(i, "acl", "service") /\ UNCHANGED <<files, machine>>

SetResource(n, owner, on) ==
    /\ resource' = [resource EXCEPT ![n] = [owner |-> owner, on |-> on]]
    /\ UNCHANGED <<files, registry, running>>

\* A mutant: the rules are created with their default, which is enabled.
register_enabled(i) ==
    \/ Step(i, "service", "service_off") /\ SetResource("service", i, TRUE)
    \/ Step(i, "service_off", "backup") /\ SetResource("service", i, FALSE)
    \/ Step(i, "backup", "backup_off") /\ SetResource("backup", i, TRUE)
    \/ Step(i, "backup_off", "manual") /\ SetResource("backup", i, FALSE)
    \/ Step(i, "manual", "background") /\ SetResource("manual", i, TRUE)
    \/ Step(i, "background", "key") /\ SetResource("background", i, TRUE)

\* A task is registered first and disabled by the next command; a rule is
\* created disabled.
register(i) ==
    \/ Step(i, "service", "service_off") /\ SetResource("service", i, TRUE)
    \/ Step(i, "service_off", "backup") /\ SetResource("service", i, FALSE)
    \/ Step(i, "backup", "backup_off") /\ SetResource("backup", i, TRUE)
    \/ Step(i, "backup_off", "manual") /\ SetResource("backup", i, FALSE)
    \/ Step(i, "manual", "background") /\ SetResource("manual", i, FALSE)
    \/ Step(i, "background", "key") /\ SetResource("background", i, FALSE)

\* The key is made with the install id as its default value, and then filled.
register_key(i) ==
    /\ \/ /\ Step(i, "key", "mark")
          /\ registry' = [NoKey EXCEPT !.owner = i]
       \/ /\ Step(i, "mark", "values")
          /\ registry' = [registry EXCEPT !.marked = TRUE]
       \/ /\ Step(i, "values", "verify")
          /\ registry' = [registry EXCEPT !.whole = TRUE]
    /\ UNCHANGED <<files, resource, running>>

Registered(i) ==
    /\ registry = [owner |-> i, marked |-> TRUE, whole |-> TRUE]
    /\ \A n \in Names : resource[n].owner = i

\* verify_security reads everything back; it does not ask what is enabled.
verify_security(i) ==
    /\ \/ Step(i, "verify", IF Registered(i) /\ target = i THEN "generation"
                            ELSE Handler("verify"))
       \/ Step(i, "verify_again", IF Registered(i) /\ target = i THEN "receipt"
                                  ELSE Handler("verify_again"))
    /\ UNCHANGED <<files, machine>>

\* The version file is the commit point.
commit(i) ==
    \/ Step(i, "generation", "version") /\ Write(i, "generation")
    \/ Step(i, "version", "activate") /\ Write(i, "version")

activate(i) ==
    \/ /\ Step(i, "activate", IF Registered(i) THEN "rules_on" ELSE Handler("activate"))
       /\ UNCHANGED <<files, machine>>
    \/ ~resource["manual"].on /\ Step(i, "rules_on", "rules_on") /\ SetResource("manual", i, TRUE)
    \/ resource["manual"].on /\ Step(i, "rules_on", "tasks_on") /\ SetResource("background", i, TRUE)
    \/ ~resource["service"].on /\ Step(i, "tasks_on", "tasks_on") /\ SetResource("service", i, TRUE)
    \/ resource["service"].on /\ Step(i, "tasks_on", "start") /\ SetResource("backup", i, TRUE)
    \/ /\ Step(i, "start", "health")
       /\ running' = (IF running = Nobody THEN i ELSE running)
       /\ UNCHANGED <<files, resource, registry>>

health_probe(i) ==
    /\ Step(i, "health", IF running = i THEN "verify_again" ELSE Handler("health"))
    /\ UNCHANGED <<files, machine>>

write_receipt(i) == Step(i, "receipt", "finish") /\ Write(i, "receipt")

finish(i) ==
    /\ Step(i, "finish", "complete")
    /\ has' = [has EXCEPT ![i] = @ \ {"state"}]
    /\ aside' = [aside EXCEPT ![i] = IF @ = "empty" THEN Nothing ELSE @]
    /\ UNCHANGED <<target, staging, machine>>

-----------------------------------------------------------------------------
(* Failure *)

\* Only what is registered for this installation is switched off.
contain_committed(i) ==
    /\ UNCHANGED <<files, registry>>
    /\ \/ /\ Step(i, "contain", IF Registered(i) THEN "contain_tasks" ELSE "uncontained")
          /\ UNCHANGED <<resource, running>>
       \/ /\ Step(i, "contain_tasks", "contain_rules")
          /\ resource' = [n \in Names |-> IF n \in Tasks THEN [resource[n] EXCEPT !.on = FALSE]
                                          ELSE resource[n]]
          /\ running' = (IF running = i THEN Nobody ELSE running)
       \/ /\ Step(i, "contain_rules", "contained")
          /\ resource' = [n \in Names |-> IF n \in Rules THEN [resource[n] EXCEPT !.on = FALSE]
                                          ELSE resource[n]]
          /\ UNCHANGED running

\* A mutant: whatever has the names of the product is removed.
Removed_by_name(names, i) ==
    resource' = [n \in Names |-> IF n \in names THEN NoResource ELSE resource[n]]

Removed(names, i) ==
    resource' = [n \in Names |-> IF n \in names /\ resource[n].owner = i THEN NoResource
                                 ELSE resource[n]]

\* Under the strict mode of the script, a key without TransactionInstallId
\* raises before its default value is compared.
rollback_resources(i) ==
    /\ UNCHANGED files
    /\ \/ /\ Step(i, "rollback_tasks", "rollback_rules") /\ Removed(Tasks, i)
          /\ running' = (IF running = i THEN Nobody ELSE running)
          /\ UNCHANGED registry
       \/ /\ Step(i, "rollback_rules", "rollback_key") /\ Removed(Rules, i)
          /\ UNCHANGED <<running, registry>>
       \/ LET own == registry.owner = i /\ registry.marked IN
          /\ Step(i, "rollback_key", IF registry = NoKey \/ own THEN "clean" ELSE "stuck")
          /\ registry' = IF own THEN NoKey ELSE registry
          /\ UNCHANGED <<running, resource>>

\* _transaction_matches: the tree in that place has this transaction's state file.
Matches(i, place_) ==
    /\ "state" \in has[i]
    /\ IF place_ = "target" THEN target = i ELSE i \in staging

\* target_committed is set once the tree has been moved.
remove_tree(i) ==
    /\ pc[i] = "clean"
    /\ LET place_ == IF i \in staging THEN "staging" ELSE "target"
           gone == place_ = "target" /\ target = Nothing IN
       /\ Goto(i, IF gone \/ Matches(i, place_) THEN "restore" ELSE "stuck")
       /\ IF Matches(i, place_)
          THEN /\ has' = [has EXCEPT ![i] = {}] /\ staging' = staging \ {i}
               /\ target' = IF target = i THEN Nothing ELSE target
          ELSE UNCHANGED <<has, staging, target>>
    /\ UNCHANGED <<damaged, aside, machine, preexisting_empty, faults>>

restore_folder(i) ==
    /\ pc[i] = "restore"
    /\ IF aside[i] = Nothing THEN Goto(i, "failed") /\ UNCHANGED <<target, aside>>
       ELSE IF target = Nothing
       THEN /\ target' = aside[i] /\ aside' = [aside EXCEPT ![i] = Nothing]
            /\ Goto(i, "failed")
       ELSE Goto(i, "stuck") /\ UNCHANGED <<target, aside>>
    /\ UNCHANGED <<damaged, staging, has, machine, preexisting_empty, faults>>

\* A call fails.  rmtree may have removed any part by then.
fail(i) ==
    /\ pc[i] \in Held \ {"secure"} /\ faults < MaxFaults /\ faults' = faults + 1
    /\ Goto(i, Handler(pc[i]))
    /\ IF pc[i] = "clean" THEN \E rest \in SUBSET has[i] : has' = [has EXCEPT ![i] = rest]
       ELSE UNCHANGED has
    /\ UNCHANGED <<damaged, target, staging, aside, machine, preexisting_empty>>

kill(i) ==
    /\ pc[i] \notin Ends /\ faults < MaxFaults /\ faults' = faults + 1
    /\ Goto(i, "dead")
    /\ UNCHANGED <<damaged, files, machine, preexisting_empty>>

\* After a power loss the task that starts with the machine runs its program.
power_loss ==
    /\ faults < MaxFaults /\ faults' = faults + 1 /\ lock' = Nobody
    /\ pc' = [i \in Installers |-> IF pc[i] \in Ends THEN pc[i] ELSE "dead"]
    /\ running' = IF resource["service"].on /\ target = resource["service"].owner
                  THEN target ELSE Nobody
    /\ UNCHANGED <<damaged, files, resource, registry, preexisting_empty>>

\* Somebody writes to the folder an installer wants, or replaces its tree
\* while the installer is rolling back.
meddle ==
    /\ \/ target \in {Nothing, "empty"}
       \/ target \in Installers /\ pc[target] \in RollingBack
    /\ faults < MaxFaults /\ faults' = faults + 1
    /\ target' = "foreign"
    /\ UNCHANGED <<damaged, staging, aside, has, machine, lock, preexisting_empty, pc>>

\* The package is on a medium that others can write to.
damage ==
    /\ faults < MaxFaults /\ faults' = faults + 1
    /\ \E part \in PackageParts \ damaged : damaged' = damaged \cup {part}
    /\ UNCHANGED <<files, machine, lock, preexisting_empty, pc>>

-----------------------------------------------------------------------------
Prepare(i) ==
    \/ load_bundle(i) \/ choose_target(i) \/ run_elevated(i)
    \/ assert_service_port_available(i) \/ transaction(i) \/ take_lock(i) \/ recheck(i)
    \/ make_staging(i) \/ secure_staging(i)
    \/ secure_fails(i) \/ fill(i) \/ move_aside(i) \/ place(i) \/ record_placed(i)

Configure(i) ==
    configure_disabled(i) \/ set_acl(i) \/ register(i) \/ register_key(i) \/ verify_security(i)

Start(i) == commit(i) \/ activate(i) \/ health_probe(i) \/ write_receipt(i) \/ finish(i)

Recover(i) == contain_committed(i) \/ rollback_resources(i) \/ remove_tree(i) \/ restore_folder(i)

Run(i) == Prepare(i) \/ Configure(i) \/ Start(i) \/ Recover(i)

Next ==
    \/ \E i \in Installers : Run(i) \/ fail(i) \/ kill(i)
    \/ power_loss \/ meddle \/ damage

Spec == Init /\ [][Next]_vars

-----------------------------------------------------------------------------
(* Properties *)

\* What an installer finds on the machine stays as it is: it never changes a
\* resource or the key of another installation, never replaces or removes a
\* folder with something in it, and leaves the tree of another run alone,
\* however its own run ends.
OnlyOwnTouched ==
    [][\A i \in Installers : Run(i) =>
        /\ \A n \in Names : resource[n].owner \notin {i, Nobody} => resource'[n] = resource[n]
        /\ registry.owner \notin {i, Nobody} => registry' = registry
        /\ \A j \in Installers \ {i} : has'[j] = has[j] /\ (target = j => target' = j)
        /\ target = "foreign" => target' = "foreign" \/ aside'[i] = "foreign"
        /\ aside[i] = "foreign" => aside'[i] = "foreign" \/ target' = "foreign"]_vars

\* An empty folder beside the target may be left: its removal is not checked.
Clean(i) ==
    /\ target # i /\ has[i] = {} /\ aside[i] = Nothing
    /\ registry.owner # i /\ \A n \in Names : resource[n].owner # i

\* What the exit code of i says is so.
TrueExit(i) ==
    /\ pc[i] = "failed" => Clean(i)
    /\ pc[i] = "contained" => /\ "version" \in has[i] /\ Registered(i)
                              /\ \A n \in Names : ~resource[n].on
    /\ pc[i] = "complete" => /\ {"version", "receipt"} \subseteq has[i] /\ Registered(i)
                             /\ \A n \in Names : resource[n].on

\* The exit code tells what the machine is like: after "not installed" nothing
\* of the run is left but at most an empty staging folder, and the folder that
\* was there is back, after "committed, but not started" nothing of it is
\* switched on, and after success the whole installation is registered, enabled
\* and has its receipt.
ExitCodeIsTrue == \A i \in Installers : TrueExit(i)

CommittedInPlace(i) ==
    /\ target = i /\ Parts \ {"state", "receipt"} \subseteq has[i] /\ Registered(i)
    /\ BadRuntime \notin has[i]

\* The network is opened only for an installation whose version file is
\* written in the target, whose registrations are complete and whose files are
\* those of the manifest, even if the package changes after it was checked and
\* the installer or the machine stops at any step.
OpenOnlyCommitted ==
    \A n \in Rules : resource[n].on /\ resource[n].owner # Earlier =>
        CommittedInPlace(resource[n].owner)

=============================================================================
