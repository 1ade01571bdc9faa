---------------------------- MODULE InstallProofs ----------------------------
(***************************************************************************)
(* An installer touches only its own, its exit code tells the truth, and   *)
(* the network is opened only for what is committed: for any number of     *)
(* installers and faults.                                                  *)
(***************************************************************************)
EXTENDS Install, TLAPS

-----------------------------------------------------------------------------
(* The invariant *)

\* Steps at which the tree is beside the target, and at which it is in place.
Beside == Building \ {"placed"}
Placed == {"placed"} \cup Configuring \cup Starting \cup Containing

\* Steps at which nothing is registered yet, or nothing any more.
Unregistered == {"secure", "configure", "acl", "service", "clean", "restore"} \cup Building

\* Steps behind configure_disabled: what is registered is the installer's.
Registering == Configuring \ {"configure"}

\* Steps at which the registrations are complete.
Complete == {"generation", "version"} \cup Starting \cup Containing

\* Where an installer may be whose rules are switched on.
Opened == (Starting \ {"activate"}) \cup Containing
          \cup {"complete", "contained", "uncontained", "dead"}

NoneOwned(i) == registry.owner # i /\ \A n \in Names : resource[n].owner # i

\* The tree: where it is, and what is in it.
TreeInv(i) ==
    /\ pc[i] \in {"secure"} \cup Beside => i \in staging /\ target # i
    /\ pc[i] \in Placed => i \notin staging /\ target = i
    /\ pc[i] \in {"rollback_tasks", "rollback_rules", "rollback_key"} =>
         i \notin staging /\ target \in {i, "foreign"}
    /\ pc[i] = "clean" => IF i \in staging THEN target # i ELSE target \in {i, "foreign"}
    /\ pc[i] = "restore" => i \notin staging /\ target # i /\ has[i] = {}
    /\ pc[i] \in {"secure", "staged", "payload", "runtime", "identity", "aside"} =>
         aside[i] = Nothing
    /\ pc[i] = "secure" => has[i] = {}
    /\ pc[i] \in {"runtime", "identity", "aside", "place"} \cup Placed => "payload" \in has[i]
    /\ pc[i] \in {"identity", "aside", "place"} \cup Placed => "runtime" \in has[i]
    /\ pc[i] \in {"aside", "place"} \cup Placed => "identity" \in has[i]
    /\ pc[i] \in {"version"} \cup Starting \cup Containing => "generation" \in has[i]
    /\ pc[i] \in Starting \cup Containing => "version" \in has[i]
    /\ pc[i] = "finish" => "receipt" \in has[i]
    /\ pc[i] \in Beside \cup Placed => BadRuntime \notin has[i]

\* The registrations, and what is switched on.
MachineInv(i) ==
    /\ pc[i] \in Unregistered => NoneOwned(i)
    /\ pc[i] \in Registering => /\ \A n \in Names : resource[n].owner \in {i, Nobody}
                                /\ registry.owner \in {i, Nobody}
    /\ pc[i] \in Complete => Registered(i)
    /\ pc[i] = "rollback_rules" => \A n \in Tasks : resource[n].owner # i
    /\ pc[i] = "rollback_key" => \A n \in Names : resource[n].owner # i
    /\ pc[i] \in {"tasks_on", "start", "health", "verify_again", "receipt", "finish"} =>
         \A n \in Rules : resource[n].on
    /\ pc[i] \in {"start", "health", "verify_again", "receipt", "finish"} =>
         \A n \in Tasks : resource[n].on
    /\ pc[i] = "contain_rules" => \A n \in Tasks : ~resource[n].on
    /\ \A n \in Rules : resource[n].on /\ resource[n].owner = i => pc[i] \in Opened

\* Before the lock, and after an end without traces.
Traceless == Waiting \cup {"check", "mkdir", "failed", "busy", "cancelled"}

OpenInv(i) == \A n \in Rules : resource[n].on /\ resource[n].owner = i => CommittedInPlace(i)

Own(i) ==
    /\ TreeInv(i) /\ MachineInv(i)
    /\ pc[i] \in Traceless => Clean(i)
    /\ TrueExit(i) /\ OpenInv(i)

(***************************************************************************)
(* OpenOnlyCommitted and ExitCodeIsTrue speak of the ends of runs.  Where  *)
(* a run is tells what it has made so far, and only one run has the lock.  *)
(***************************************************************************)
InstallInv ==
    /\ TypeOK
    /\ \A n \in Names : resource[n].on => resource[n].owner # Nobody
    /\ \A i \in Installers : Own(i)

\* What a step of i has to show of the machine and of its own run.
Stands(i) ==
    /\ TypeOK
    /\ \A n \in Names : resource[n].on => resource[n].owner # Nobody
    /\ Own(i)

-----------------------------------------------------------------------------
(* Runs of others *)

\* What the run of another installer leaves alone.
Left(i) ==
    /\ pc'[i] = pc[i] /\ has'[i] = has[i] /\ aside'[i] = aside[i]
    /\ i \in staging' <=> i \in staging
    /\ target' = i <=> target = i
    /\ \A n \in Names : /\ resource[n].owner = i => resource'[n] = resource[n]
                        /\ resource'[n].owner = i => resource[n].owner = i
    /\ registry.owner = i => registry' = registry
    /\ registry'.owner = i => registry.owner = i
    /\ pc[i] \in Held => UNCHANGED <<target, resource, registry>>

\* What OnlyOwnTouched says of a step of i.
Touches(i) ==
    /\ \A n \in Names : resource[n].owner \notin {i, Nobody} => resource'[n] = resource[n]
    /\ registry.owner \notin {i, Nobody} => registry' = registry
    /\ \A j \in Installers \ {i} : has'[j] = has[j] /\ (target = j => target' = j)
    /\ target = "foreign" => target' = "foreign" \/ aside'[i] = "foreign"
    /\ aside[i] = "foreign" => aside'[i] = "foreign" \/ target' = "foreign"

-----------------------------------------------------------------------------
(* Registrations *)

Resource == [owner : Installers \cup {Earlier, Nobody}, on : BOOLEAN]
Key == [owner : Installers \cup {Earlier, Nobody}, marked : BOOLEAN, whole : BOOLEAN]

LEMMA SetResourceTyped ==
  ASSUME resource \in [Names -> Resource], NEW n \in Names,
         NEW i \in Installers, NEW b \in BOOLEAN, SetResource(n, i, b)
  PROVE  resource' \in [Names -> Resource]
  <1>1. [owner |-> i, on |-> b] \in Resource
    BY DEF Resource
  <1> QED BY <1>1 DEF SetResource

LEMMA RemovedTyped ==
  ASSUME resource \in [Names -> Resource], NEW names, NEW i, Removed(names, i)
  PROVE  resource' \in [Names -> Resource]
  <1>1. NoResource \in Resource
    BY DEF Resource, NoResource
  <1> QED BY <1>1 DEF Removed

LEMMA SwitchedOffTyped ==
  ASSUME resource \in [Names -> Resource], NEW names,
         resource' = [n \in Names |-> IF n \in names THEN [resource[n] EXCEPT !.on = FALSE]
                                      ELSE resource[n]]
  PROVE  resource' \in [Names -> Resource]
  <1>1. \A r \in Resource : [r EXCEPT !.on = FALSE] \in Resource
    BY DEF Resource
  <1> QED BY <1>1

LEMMA KeyTyped ==
  ASSUME registry \in Key, NEW i \in Installers, register_key(i)
  PROVE  registry' \in Key
  <1>1. [NoKey EXCEPT !.owner = i] \in Key
    BY DEF NoKey, Key
  <1>2. [registry EXCEPT !.marked = TRUE] \in Key /\ [registry EXCEPT !.whole = TRUE] \in Key
    BY DEF Key
  <1> QED BY <1>1, <1>2 DEF register_key

\* What is registered after any step is again a task, a rule or a key.
LEMMA RegistrationsTyped ==
  ASSUME resource \in [Names -> Resource], registry \in Key, NEW i \in Installers,
         register(i) \/ register_key(i) \/ activate(i)
           \/ contain_committed(i) \/ rollback_resources(i)
  PROVE  resource' \in [Names -> Resource] /\ registry' \in Key
  <1>1. CASE register(i)
    <2>1. registry' = registry /\ \E n \in Names, b \in BOOLEAN : SetResource(n, i, b)
      BY <1>1 DEF register, SetResource, Names, Tasks, Rules
    <2> QED BY <2>1, SetResourceTyped
  <1>2. CASE register_key(i)
    <2>1. resource' = resource
      BY <1>2 DEF register_key
    <2> QED BY <1>2, <2>1, KeyTyped
  <1>3. CASE activate(i)
    <2>1. registry' = registry
      BY <1>3 DEF activate, SetResource, machine
    <2>2. resource' = resource \/ \E n \in Names, b \in BOOLEAN : SetResource(n, i, b)
      BY <1>3 DEF activate, machine, Names, Tasks, Rules
    <2> QED BY <2>1, <2>2, SetResourceTyped
  <1>4. CASE contain_committed(i)
    <2>1. registry' = registry
      BY <1>4 DEF contain_committed
    <2>2. \/ resource' = resource
          \/ \E names : resource' = [n \in Names |-> IF n \in names
                             THEN [resource[n] EXCEPT !.on = FALSE] ELSE resource[n]]
      <3> DEFINE Off(names) == resource' = [n \in Names |-> IF n \in names
                             THEN [resource[n] EXCEPT !.on = FALSE] ELSE resource[n]]
      <3>1. resource' = resource \/ Off(Tasks) \/ Off(Rules)
        BY <1>4 DEF contain_committed
      <3> HIDE DEF Off
      <3>2. resource' = resource \/ \E names : Off(names)
        BY <3>1
      <3> QED BY <3>2 DEF Off
    <2> QED BY <2>1, <2>2, SwitchedOffTyped
  <1>5. CASE rollback_resources(i)
    <2>1. resource' = resource \/ \E names : Removed(names, i)
      BY <1>5 DEF rollback_resources
    <2>2. NoKey \in Key
      BY DEF NoKey, Key
    <2>3. registry' \in Key
      BY <1>5, <2>2 DEF rollback_resources
    <2> QED BY <2>1, <2>3, RemovedTyped
  <1> QED BY <1>1, <1>2, <1>3, <1>4, <1>5

-----------------------------------------------------------------------------
(* The steps *)

\* Building the tree and moving it into place.
LEMMA PrepareStands ==
  ASSUME InstallInv, NEW i \in Installers, Prepare(i)
  PROVE  Stands(i)' /\ (\A j \in Installers \ {i} : Left(j)) /\ Touches(i)
  <1> USE InstallAssumption, FolderAssumption
    DEF InstallInv, Stands, Resource, Key, Own, TreeInv, MachineInv, OpenInv, TrueExit,
        CommittedInPlace, Clean, NoneOwned, Registered, Beside, Placed,
        Unregistered, Registering, Complete, Opened, Traceless, Building,
        Configuring, Starting, Containing, RollingBack, Ends, Waiting, Held,
        Folder, Nothing, Parts, BadRuntime, NoResource, NoKey, Names, Tasks,
        Rules, TypeOK, Goto, Step, files, machine, Handler, SetResource, Write,
        Left, Touches
  <1>1. CASE load_bundle(i)
    <2> USE <1>1 DEF load_bundle, Intact, payload_sound, runtime_sound, tool_sound, Acceptable
    <2>1. TypeOK'
      BY SMTT(20)
    <2>2. TreeInv(i)' /\ MachineInv(i)'
      BY SMTT(40)
    <2>3. /\ \A n \in Names : resource'[n].on => resource'[n].owner # Nobody
          /\ (pc[i] \in Traceless => Clean(i))' /\ TrueExit(i)' /\ OpenInv(i)'
      BY SMTT(40)
    <2>4. (\A j \in Installers \ {i} : Left(j)) /\ Touches(i)
      BY SMTT(40)
    <2> HIDE DEF TypeOK, TreeInv, MachineInv, TrueExit, OpenInv, Clean, Left, Touches, Traceless
    <2> QED BY <2>1, <2>2, <2>3, <2>4
  <1>2. CASE choose_target(i)
    <2> USE <1>2 DEF choose_target, Acceptable
    <2>1. TypeOK'
      BY SMTT(20)
    <2>2. TreeInv(i)' /\ MachineInv(i)'
      BY SMTT(40)
    <2>3. /\ \A n \in Names : resource'[n].on => resource'[n].owner # Nobody
          /\ (pc[i] \in Traceless => Clean(i))' /\ TrueExit(i)' /\ OpenInv(i)'
      BY SMTT(40)
    <2>4. (\A j \in Installers \ {i} : Left(j)) /\ Touches(i)
      BY SMTT(40)
    <2> HIDE DEF TypeOK, TreeInv, MachineInv, TrueExit, OpenInv, Clean, Left, Touches, Traceless
    <2> QED BY <2>1, <2>2, <2>3, <2>4
  <1>3. CASE run_elevated(i)
    <2> USE <1>3 DEF run_elevated
    <2>1. TypeOK'
      BY SMTT(20)
    <2>2. TreeInv(i)' /\ MachineInv(i)'
      BY SMTT(40)
    <2>3. /\ \A n \in Names : resource'[n].on => resource'[n].owner # Nobody
          /\ (pc[i] \in Traceless => Clean(i))' /\ TrueExit(i)' /\ OpenInv(i)'
      BY SMTT(40)
    <2>4. (\A j \in Installers \ {i} : Left(j)) /\ Touches(i)
      BY SMTT(40)
    <2> HIDE DEF TypeOK, TreeInv, MachineInv, TrueExit, OpenInv, Clean, Left, Touches, Traceless
    <2> QED BY <2>1, <2>2, <2>3, <2>4
  <1>4. CASE assert_service_port_available(i)
    <2> USE <1>4 DEF assert_service_port_available
    <2>1. TypeOK'
      BY SMTT(20)
    <2>2. TreeInv(i)' /\ MachineInv(i)'
      BY SMTT(40)
    <2>3. /\ \A n \in Names : resource'[n].on => resource'[n].owner # Nobody
          /\ (pc[i] \in Traceless => Clean(i))' /\ TrueExit(i)' /\ OpenInv(i)'
      BY SMTT(40)
    <2>4. (\A j \in Installers \ {i} : Left(j)) /\ Touches(i)
      BY SMTT(40)
    <2> HIDE DEF TypeOK, TreeInv, MachineInv, TrueExit, OpenInv, Clean, Left, Touches, Traceless
    <2> QED BY <2>1, <2>2, <2>3, <2>4
  <1>5. CASE transaction(i)
    <2> USE <1>5 DEF transaction, Acceptable
    <2>1. TypeOK'
      BY SMTT(20)
    <2>2. TreeInv(i)' /\ MachineInv(i)'
      BY SMTT(40)
    <2>3. /\ \A n \in Names : resource'[n].on => resource'[n].owner # Nobody
          /\ (pc[i] \in Traceless => Clean(i))' /\ TrueExit(i)' /\ OpenInv(i)'
      BY SMTT(40)
    <2>4. (\A j \in Installers \ {i} : Left(j)) /\ Touches(i)
      BY SMTT(40)
    <2> HIDE DEF TypeOK, TreeInv, MachineInv, TrueExit, OpenInv, Clean, Left, Touches, Traceless
    <2> QED BY <2>1, <2>2, <2>3, <2>4
  <1>14. CASE take_lock(i)
    <2> USE <1>14 DEF take_lock
    <2>1. TypeOK'
      BY SMTT(20)
    <2>2. TreeInv(i)' /\ MachineInv(i)'
      BY SMTT(40)
    <2>3. /\ \A n \in Names : resource'[n].on => resource'[n].owner # Nobody
          /\ (pc[i] \in Traceless => Clean(i))' /\ TrueExit(i)' /\ OpenInv(i)'
      BY SMTT(40)
    <2>4. (\A j \in Installers \ {i} : Left(j)) /\ Touches(i)
      BY SMTT(40)
    <2> HIDE DEF TypeOK, TreeInv, MachineInv, TrueExit, OpenInv, Clean, Left, Touches, Traceless
    <2> QED BY <2>1, <2>2, <2>3, <2>4
  <1>6. CASE recheck(i)
    <2> USE <1>6 DEF recheck, Acceptable
    <2>1. TypeOK'
      BY SMTT(20)
    <2>2. TreeInv(i)' /\ MachineInv(i)'
      BY SMTT(40)
    <2>3. /\ \A n \in Names : resource'[n].on => resource'[n].owner # Nobody
          /\ (pc[i] \in Traceless => Clean(i))' /\ TrueExit(i)' /\ OpenInv(i)'
      BY SMTT(40)
    <2>4. (\A j \in Installers \ {i} : Left(j)) /\ Touches(i)
      BY SMTT(40)
    <2> HIDE DEF TypeOK, TreeInv, MachineInv, TrueExit, OpenInv, Clean, Left, Touches, Traceless
    <2> QED BY <2>1, <2>2, <2>3, <2>4
  <1>7. CASE make_staging(i)
    <2> USE <1>7 DEF make_staging
    <2>1. TypeOK'
      BY SMTT(20)
    <2>2. TreeInv(i)' /\ MachineInv(i)'
      BY SMTT(40)
    <2>3. /\ \A n \in Names : resource'[n].on => resource'[n].owner # Nobody
          /\ (pc[i] \in Traceless => Clean(i))' /\ TrueExit(i)' /\ OpenInv(i)'
      BY SMTT(40)
    <2>4. (\A j \in Installers \ {i} : Left(j)) /\ Touches(i)
      BY SMTT(40)
    <2> HIDE DEF TypeOK, TreeInv, MachineInv, TrueExit, OpenInv, Clean, Left, Touches, Traceless
    <2> QED BY <2>1, <2>2, <2>3, <2>4
  <1>8. CASE secure_staging(i)
    <2> USE <1>8 DEF secure_staging
    <2>1. TypeOK'
      BY SMTT(20)
    <2>2. TreeInv(i)' /\ MachineInv(i)'
      BY SMTT(40)
    <2>3. /\ \A n \in Names : resource'[n].on => resource'[n].owner # Nobody
          /\ (pc[i] \in Traceless => Clean(i))' /\ TrueExit(i)' /\ OpenInv(i)'
      BY SMTT(40)
    <2>4. (\A j \in Installers \ {i} : Left(j)) /\ Touches(i)
      BY SMTT(40)
    <2> HIDE DEF TypeOK, TreeInv, MachineInv, TrueExit, OpenInv, Clean, Left, Touches, Traceless
    <2> QED BY <2>1, <2>2, <2>3, <2>4
  <1>9. CASE secure_fails(i)
    <2> USE <1>9 DEF secure_fails
    <2>1. TypeOK'
      BY SMTT(20)
    <2>2. TreeInv(i)' /\ MachineInv(i)'
      BY SMTT(40)
    <2>3. /\ \A n \in Names : resource'[n].on => resource'[n].owner # Nobody
          /\ (pc[i] \in Traceless => Clean(i))' /\ TrueExit(i)' /\ OpenInv(i)'
      BY SMTT(40)
    <2>4. (\A j \in Installers \ {i} : Left(j)) /\ Touches(i)
      BY SMTT(40)
    <2> HIDE DEF TypeOK, TreeInv, MachineInv, TrueExit, OpenInv, Clean, Left, Touches, Traceless
    <2> QED BY <2>1, <2>2, <2>3, <2>4
  <1>10. CASE fill(i)
    <2> USE <1>10 DEF fill, runtime_sound
    <2>1. TypeOK'
      BY SMTT(20)
    <2>2. TreeInv(i)' /\ MachineInv(i)'
      BY SMTT(40)
    <2>3. /\ \A n \in Names : resource'[n].on => resource'[n].owner # Nobody
          /\ (pc[i] \in Traceless => Clean(i))' /\ TrueExit(i)' /\ OpenInv(i)'
      BY SMTT(40)
    <2>4. (\A j \in Installers \ {i} : Left(j)) /\ Touches(i)
      BY SMTT(40)
    <2> HIDE DEF TypeOK, TreeInv, MachineInv, TrueExit, OpenInv, Clean, Left, Touches, Traceless
    <2> QED BY <2>1, <2>2, <2>3, <2>4
  <1>11. CASE move_aside(i)
    <2> USE <1>11 DEF move_aside
    <2>1. TypeOK'
      BY SMTT(20)
    <2>2. TreeInv(i)' /\ MachineInv(i)'
      BY SMTT(40)
    <2>3. /\ \A n \in Names : resource'[n].on => resource'[n].owner # Nobody
          /\ (pc[i] \in Traceless => Clean(i))' /\ TrueExit(i)' /\ OpenInv(i)'
      BY SMTT(40)
    <2>4. (\A j \in Installers \ {i} : Left(j)) /\ Touches(i)
      BY SMTT(40)
    <2> HIDE DEF TypeOK, TreeInv, MachineInv, TrueExit, OpenInv, Clean, Left, Touches, Traceless
    <2> QED BY <2>1, <2>2, <2>3, <2>4
  <1>12. CASE place(i)
    <2> USE <1>12 DEF place
    <2>1. TypeOK'
      BY SMTT(20)
    <2>2. TreeInv(i)' /\ MachineInv(i)'
      BY SMTT(40)
    <2>3. /\ \A n \in Names : resource'[n].on => resource'[n].owner # Nobody
          /\ (pc[i] \in Traceless => Clean(i))' /\ TrueExit(i)' /\ OpenInv(i)'
      BY SMTT(40)
    <2>4. (\A j \in Installers \ {i} : Left(j)) /\ Touches(i)
      BY SMTT(40)
    <2> HIDE DEF TypeOK, TreeInv, MachineInv, TrueExit, OpenInv, Clean, Left, Touches, Traceless
    <2> QED BY <2>1, <2>2, <2>3, <2>4
  <1>13. CASE record_placed(i)
    <2> USE <1>13 DEF record_placed
    <2>1. TypeOK'
      BY SMTT(20)
    <2>2. TreeInv(i)' /\ MachineInv(i)'
      BY SMTT(40)
    <2>3. /\ \A n \in Names : resource'[n].on => resource'[n].owner # Nobody
          /\ (pc[i] \in Traceless => Clean(i))' /\ TrueExit(i)' /\ OpenInv(i)'
      BY SMTT(40)
    <2>4. (\A j \in Installers \ {i} : Left(j)) /\ Touches(i)
      BY SMTT(40)
    <2> HIDE DEF TypeOK, TreeInv, MachineInv, TrueExit, OpenInv, Clean, Left, Touches, Traceless
    <2> QED BY <2>1, <2>2, <2>3, <2>4
  <1> QED BY <1>1, <1>2, <1>3, <1>4, <1>5, <1>6, <1>7, <1>8, <1>9, <1>10, <1>11, <1>12, <1>13, <1>14 DEF Prepare

\* Registering the tasks, the rules and the key without effect.
LEMMA ConfigureStands ==
  ASSUME InstallInv, NEW i \in Installers, Configure(i)
  PROVE  Stands(i)' /\ (\A j \in Installers \ {i} : Left(j)) /\ Touches(i)
  <1> USE InstallAssumption, FolderAssumption
    DEF InstallInv, Stands, Resource, Key, Own, TreeInv, MachineInv, OpenInv, TrueExit,
        CommittedInPlace, Clean, NoneOwned, Registered, Beside, Placed,
        Unregistered, Registering, Complete, Opened, Traceless, Building,
        Configuring, Starting, Containing, RollingBack, Ends, Waiting, Held,
        Folder, Nothing, Parts, BadRuntime, NoResource, NoKey, Names, Tasks,
        Rules, TypeOK, Goto, Step, files, machine, Handler, SetResource, Write,
        Left, Touches
  <1>1. CASE configure_disabled(i)
    <2> USE <1>1 DEF configure_disabled
    <2>1. TypeOK'
      BY SMTT(20)
    <2>2. TreeInv(i)' /\ MachineInv(i)'
      BY SMTT(40)
    <2>3. /\ \A n \in Names : resource'[n].on => resource'[n].owner # Nobody
          /\ (pc[i] \in Traceless => Clean(i))' /\ TrueExit(i)' /\ OpenInv(i)'
      BY SMTT(40)
    <2>4. (\A j \in Installers \ {i} : Left(j)) /\ Touches(i)
      BY SMTT(40)
    <2> HIDE DEF TypeOK, TreeInv, MachineInv, TrueExit, OpenInv, Clean, Left, Touches, Traceless
    <2> QED BY <2>1, <2>2, <2>3, <2>4
  <1>2. CASE set_acl(i)
    <2> USE <1>2 DEF set_acl
    <2>1. TypeOK'
      BY SMTT(20)
    <2>2. TreeInv(i)' /\ MachineInv(i)'
      BY SMTT(40)
    <2>3. /\ \A n \in Names : resource'[n].on => resource'[n].owner # Nobody
          /\ (pc[i] \in Traceless => Clean(i))' /\ TrueExit(i)' /\ OpenInv(i)'
      BY SMTT(40)
    <2>4. (\A j \in Installers \ {i} : Left(j)) /\ Touches(i)
      BY SMTT(40)
    <2> HIDE DEF TypeOK, TreeInv, MachineInv, TrueExit, OpenInv, Clean, Left, Touches, Traceless
    <2> QED BY <2>1, <2>2, <2>3, <2>4
  <1>3. CASE register(i)
    <2> USE <1>3 DEF register
    <2>1. resource' \in [Names -> Resource] /\ registry' \in Key
      BY RegistrationsTyped
    <2>2. TypeOK'
      BY <2>1, SMTT(20)
    <2>3. TreeInv(i)' /\ MachineInv(i)'
      BY SMTT(40)
    <2>4. /\ \A n \in Names : resource'[n].on => resource'[n].owner # Nobody
          /\ (pc[i] \in Traceless => Clean(i))' /\ TrueExit(i)' /\ OpenInv(i)'
      BY SMTT(40)
    <2>5. (\A j \in Installers \ {i} : Left(j)) /\ Touches(i)
      BY SMTT(40)
    <2> HIDE DEF TypeOK, TreeInv, MachineInv, TrueExit, OpenInv, Clean, Left, Touches, Traceless
    <2> QED BY <2>2, <2>3, <2>4, <2>5
  <1>4. CASE register_key(i)
    <2> USE <1>4 DEF register_key
    <2>1. resource' \in [Names -> Resource] /\ registry' \in Key
      BY RegistrationsTyped
    <2>2. TypeOK'
      BY <2>1, SMTT(20)
    <2>3. TreeInv(i)' /\ MachineInv(i)'
      BY SMTT(40)
    <2>4. /\ \A n \in Names : resource'[n].on => resource'[n].owner # Nobody
          /\ (pc[i] \in Traceless => Clean(i))' /\ TrueExit(i)' /\ OpenInv(i)'
      BY SMTT(40)
    <2>5. (\A j \in Installers \ {i} : Left(j)) /\ Touches(i)
      BY SMTT(40)
    <2> HIDE DEF TypeOK, TreeInv, MachineInv, TrueExit, OpenInv, Clean, Left, Touches, Traceless
    <2> QED BY <2>2, <2>3, <2>4, <2>5
  <1>5. CASE verify_security(i)
    <2> USE <1>5 DEF verify_security
    <2>1. TypeOK'
      BY SMTT(20)
    <2>2. TreeInv(i)' /\ MachineInv(i)'
      BY SMTT(40)
    <2>3. /\ \A n \in Names : resource'[n].on => resource'[n].owner # Nobody
          /\ (pc[i] \in Traceless => Clean(i))' /\ TrueExit(i)' /\ OpenInv(i)'
      BY SMTT(40)
    <2>4. (\A j \in Installers \ {i} : Left(j)) /\ Touches(i)
      BY SMTT(40)
    <2> HIDE DEF TypeOK, TreeInv, MachineInv, TrueExit, OpenInv, Clean, Left, Touches, Traceless
    <2> QED BY <2>1, <2>2, <2>3, <2>4
  <1> QED BY <1>1, <1>2, <1>3, <1>4, <1>5 DEF Configure

\* The commit, and switching on.
LEMMA StartStands ==
  ASSUME InstallInv, NEW i \in Installers, Start(i)
  PROVE  Stands(i)' /\ (\A j \in Installers \ {i} : Left(j)) /\ Touches(i)
  <1> USE InstallAssumption, FolderAssumption
    DEF InstallInv, Stands, Resource, Key, Own, TreeInv, MachineInv, OpenInv, TrueExit,
        CommittedInPlace, Clean, NoneOwned, Registered, Beside, Placed,
        Unregistered, Registering, Complete, Opened, Traceless, Building,
        Configuring, Starting, Containing, RollingBack, Ends, Waiting, Held,
        Folder, Nothing, Parts, BadRuntime, NoResource, NoKey, Names, Tasks,
        Rules, TypeOK, Goto, Step, files, machine, Handler, SetResource, Write,
        Left, Touches
  <1>1. CASE commit(i)
    <2> USE <1>1 DEF commit
    <2>1. TypeOK'
      BY SMTT(20)
    <2>2. TreeInv(i)' /\ MachineInv(i)'
      BY SMTT(40)
    <2>3. /\ \A n \in Names : resource'[n].on => resource'[n].owner # Nobody
          /\ (pc[i] \in Traceless => Clean(i))' /\ TrueExit(i)' /\ OpenInv(i)'
      BY SMTT(40)
    <2>4. (\A j \in Installers \ {i} : Left(j)) /\ Touches(i)
      BY SMTT(40)
    <2> HIDE DEF TypeOK, TreeInv, MachineInv, TrueExit, OpenInv, Clean, Left, Touches, Traceless
    <2> QED BY <2>1, <2>2, <2>3, <2>4
  <1>2. CASE activate(i)
    <2> USE <1>2 DEF activate
    <2>1. resource' \in [Names -> Resource] /\ registry' \in Key
      BY RegistrationsTyped
    <2>2. TypeOK'
      BY <2>1, SMTT(20)
    <2>3. TreeInv(i)' /\ MachineInv(i)'
      BY SMTT(40)
    <2>4. /\ \A n \in Names : resource'[n].on => resource'[n].owner # Nobody
          /\ (pc[i] \in Traceless => Clean(i))' /\ TrueExit(i)' /\ OpenInv(i)'
      BY SMTT(40)
    <2>5. (\A j \in Installers \ {i} : Left(j)) /\ Touches(i)
      BY SMTT(40)
    <2> HIDE DEF TypeOK, TreeInv, MachineInv, TrueExit, OpenInv, Clean, Left, Touches, Traceless
    <2> QED BY <2>2, <2>3, <2>4, <2>5
  <1>3. CASE health_probe(i)
    <2> USE <1>3 DEF health_probe
    <2>1. TypeOK'
      BY SMTT(20)
    <2>2. TreeInv(i)' /\ MachineInv(i)'
      BY SMTT(40)
    <2>3. /\ \A n \in Names : resource'[n].on => resource'[n].owner # Nobody
          /\ (pc[i] \in Traceless => Clean(i))' /\ TrueExit(i)' /\ OpenInv(i)'
      BY SMTT(40)
    <2>4. (\A j \in Installers \ {i} : Left(j)) /\ Touches(i)
      BY SMTT(40)
    <2> HIDE DEF TypeOK, TreeInv, MachineInv, TrueExit, OpenInv, Clean, Left, Touches, Traceless
    <2> QED BY <2>1, <2>2, <2>3, <2>4
  <1>4. CASE write_receipt(i)
    <2> USE <1>4 DEF write_receipt
    <2>1. TypeOK'
      BY SMTT(20)
    <2>2. TreeInv(i)' /\ MachineInv(i)'
      BY SMTT(40)
    <2>3. /\ \A n \in Names : resource'[n].on => resource'[n].owner # Nobody
          /\ (pc[i] \in Traceless => Clean(i))' /\ TrueExit(i)' /\ OpenInv(i)'
      BY SMTT(40)
    <2>4. (\A j \in Installers \ {i} : Left(j)) /\ Touches(i)
      BY SMTT(40)
    <2> HIDE DEF TypeOK, TreeInv, MachineInv, TrueExit, OpenInv, Clean, Left, Touches, Traceless
    <2> QED BY <2>1, <2>2, <2>3, <2>4
  <1>5. CASE finish(i)
    <2> USE <1>5 DEF finish
    <2>1. TypeOK'
      BY SMTT(20)
    <2>2. TreeInv(i)' /\ MachineInv(i)'
      BY SMTT(40)
    <2>3. /\ \A n \in Names : resource'[n].on => resource'[n].owner # Nobody
          /\ (pc[i] \in Traceless => Clean(i))' /\ TrueExit(i)' /\ OpenInv(i)'
      BY SMTT(40)
    <2>4. (\A j \in Installers \ {i} : Left(j)) /\ Touches(i)
      BY SMTT(40)
    <2> HIDE DEF TypeOK, TreeInv, MachineInv, TrueExit, OpenInv, Clean, Left, Touches, Traceless
    <2> QED BY <2>1, <2>2, <2>3, <2>4
  <1> QED BY <1>1, <1>2, <1>3, <1>4, <1>5 DEF Start

\* Taking back what was made, or switching off what was switched on.
LEMMA RecoverStands ==
  ASSUME InstallInv, NEW i \in Installers, Recover(i)
  PROVE  Stands(i)' /\ (\A j \in Installers \ {i} : Left(j)) /\ Touches(i)
  <1> USE InstallAssumption, FolderAssumption
    DEF InstallInv, Stands, Resource, Key, Own, TreeInv, MachineInv, OpenInv, TrueExit,
        CommittedInPlace, Clean, NoneOwned, Registered, Beside, Placed,
        Unregistered, Registering, Complete, Opened, Traceless, Building,
        Configuring, Starting, Containing, RollingBack, Ends, Waiting, Held,
        Folder, Nothing, Parts, BadRuntime, NoResource, NoKey, Names, Tasks,
        Rules, TypeOK, Goto, Step, files, machine, Handler, SetResource, Write,
        Left, Touches
  <1>1. CASE contain_committed(i)
    <2> USE <1>1 DEF contain_committed
    <2>1. resource' \in [Names -> Resource] /\ registry' \in Key
      BY RegistrationsTyped
    <2>2. TypeOK'
      BY <2>1, SMTT(20)
    <2>3. TreeInv(i)' /\ MachineInv(i)'
      BY SMTT(40)
    <2>4. /\ \A n \in Names : resource'[n].on => resource'[n].owner # Nobody
          /\ (pc[i] \in Traceless => Clean(i))' /\ TrueExit(i)' /\ OpenInv(i)'
      BY SMTT(40)
    <2>5. (\A j \in Installers \ {i} : Left(j)) /\ Touches(i)
      BY SMTT(40)
    <2> HIDE DEF TypeOK, TreeInv, MachineInv, TrueExit, OpenInv, Clean, Left, Touches, Traceless
    <2> QED BY <2>2, <2>3, <2>4, <2>5
  <1>2. CASE rollback_resources(i)
    <2> USE <1>2 DEF rollback_resources, Removed
    <2>1. resource' \in [Names -> Resource] /\ registry' \in Key
      BY RegistrationsTyped
    <2>2. TypeOK'
      BY <2>1, SMTT(20)
    <2>3. TreeInv(i)' /\ MachineInv(i)'
      BY SMTT(40)
    <2>4. /\ \A n \in Names : resource'[n].on => resource'[n].owner # Nobody
          /\ (pc[i] \in Traceless => Clean(i))' /\ TrueExit(i)' /\ OpenInv(i)'
      BY SMTT(40)
    <2>5. (\A j \in Installers \ {i} : Left(j)) /\ Touches(i)
      BY SMTT(40)
    <2> HIDE DEF TypeOK, TreeInv, MachineInv, TrueExit, OpenInv, Clean, Left, Touches, Traceless
    <2> QED BY <2>2, <2>3, <2>4, <2>5
  <1>3. CASE remove_tree(i)
    <2> USE <1>3 DEF remove_tree, Matches
    <2>1. TypeOK'
      BY SMTT(20)
    <2>2. TreeInv(i)' /\ MachineInv(i)'
      BY SMTT(40)
    <2>3. /\ \A n \in Names : resource'[n].on => resource'[n].owner # Nobody
          /\ (pc[i] \in Traceless => Clean(i))' /\ TrueExit(i)' /\ OpenInv(i)'
      BY SMTT(40)
    <2>4. (\A j \in Installers \ {i} : Left(j)) /\ Touches(i)
      BY SMTT(40)
    <2> HIDE DEF TypeOK, TreeInv, MachineInv, TrueExit, OpenInv, Clean, Left, Touches, Traceless
    <2> QED BY <2>1, <2>2, <2>3, <2>4
  <1>4. CASE restore_folder(i)
    <2> USE <1>4 DEF restore_folder
    <2>1. TypeOK'
      BY SMTT(20)
    <2>2. TreeInv(i)' /\ MachineInv(i)'
      BY SMTT(40)
    <2>3. /\ \A n \in Names : resource'[n].on => resource'[n].owner # Nobody
          /\ (pc[i] \in Traceless => Clean(i))' /\ TrueExit(i)' /\ OpenInv(i)'
      BY SMTT(40)
    <2>4. (\A j \in Installers \ {i} : Left(j)) /\ Touches(i)
      BY SMTT(40)
    <2> HIDE DEF TypeOK, TreeInv, MachineInv, TrueExit, OpenInv, Clean, Left, Touches, Traceless
    <2> QED BY <2>1, <2>2, <2>3, <2>4
  <1> QED BY <1>1, <1>2, <1>3, <1>4 DEF Recover

\* A failed call and a killed installer.
LEMMA FaultStands ==
  ASSUME InstallInv, NEW i \in Installers, fail(i) \/ kill(i)
  PROVE  Stands(i)' /\ (\A j \in Installers \ {i} : Left(j))
  <1> USE InstallAssumption, FolderAssumption
    DEF InstallInv, Stands, Resource, Key, Own, TreeInv, MachineInv, OpenInv, TrueExit,
        CommittedInPlace, Clean, NoneOwned, Registered, Beside, Placed,
        Unregistered, Registering, Complete, Opened, Traceless, Building,
        Configuring, Starting, Containing, RollingBack, Ends, Waiting, Held,
        Folder, Nothing, Parts, BadRuntime, NoResource, NoKey, Names, Tasks,
        Rules, TypeOK, Goto, Step, files, machine, Handler, SetResource, Write,
        Left, Touches
  <1>1. CASE fail(i)
    <2> USE <1>1 DEF fail
    <2>1. TypeOK'
      BY SMTT(20)
    <2>2. TreeInv(i)' /\ MachineInv(i)'
      BY SMTT(40)
    <2>3. /\ \A n \in Names : resource'[n].on => resource'[n].owner # Nobody
          /\ (pc[i] \in Traceless => Clean(i))' /\ TrueExit(i)' /\ OpenInv(i)'
      BY SMTT(40)
    <2>4. (\A j \in Installers \ {i} : Left(j))
      BY SMTT(40)
    <2> HIDE DEF TypeOK, TreeInv, MachineInv, TrueExit, OpenInv, Clean, Left, Touches, Traceless
    <2> QED BY <2>1, <2>2, <2>3, <2>4
  <1>2. CASE kill(i)
    <2> USE <1>2 DEF kill
    <2>1. TypeOK'
      BY SMTT(20)
    <2>2. TreeInv(i)' /\ MachineInv(i)'
      BY SMTT(40)
    <2>3. /\ \A n \in Names : resource'[n].on => resource'[n].owner # Nobody
          /\ (pc[i] \in Traceless => Clean(i))' /\ TrueExit(i)' /\ OpenInv(i)'
      BY SMTT(40)
    <2>4. (\A j \in Installers \ {i} : Left(j))
      BY SMTT(40)
    <2> HIDE DEF TypeOK, TreeInv, MachineInv, TrueExit, OpenInv, Clean, Left, Touches, Traceless
    <2> QED BY <2>1, <2>2, <2>3, <2>4
  <1> QED BY <1>1, <1>2

-----------------------------------------------------------------------------
\* A step that leaves the run of j alone keeps what is known of it.
LEMMA OthersStand ==
  ASSUME InstallInv, TypeOK', NEW j \in Installers, Left(j)
  PROVE  Own(j)'
  <1> USE InstallAssumption, FolderAssumption
    DEF InstallInv, Own, TypeOK, Left, Names, Tasks, Rules, Held, Building, Configuring,
        Starting, Containing, RollingBack, Folder, Nothing
  <1>1. TreeInv(j)'
    BY SMTT(40) DEF TreeInv, Beside, Placed
  <1>2. MachineInv(j)'
    BY SMTT(40) DEF MachineInv, NoneOwned, Registered, Unregistered, Registering, Complete, Opened
  <1>3. (pc[j] \in Traceless => Clean(j))'
    BY SMTT(40) DEF Traceless, Clean
  <1>4. TrueExit(j)'
    BY SMTT(40) DEF TrueExit, Clean, Registered
  <1>5. OpenInv(j)'
    BY SMTT(40) DEF OpenInv, CommittedInPlace, Registered
  <1> HIDE DEF TypeOK, Left
  <1> QED BY <1>1, <1>2, <1>3, <1>4, <1>5

LEMMA RunKeepsInv ==
  ASSUME InstallInv, NEW i \in Installers, Run(i) \/ fail(i) \/ kill(i)
  PROVE  InstallInv'
  <1>1. Stands(i)' /\ \A j \in Installers \ {i} : Left(j)
    BY PrepareStands, ConfigureStands, StartStands, RecoverStands, FaultStands DEF Run
  <1>2. ASSUME NEW j \in Installers  PROVE Own(j)'
    <2>1. CASE j = i
      BY <1>1, <2>1 DEF Stands
    <2>2. CASE j # i
      BY <1>1, <2>2, OthersStand DEF Stands
    <2> QED BY <2>1, <2>2
  <1> QED BY <1>1, <1>2 DEF InstallInv, Stands

\* The machine stops, somebody writes to the folder, the package is changed.
LEMMA WorldKeepsInv ==
  ASSUME InstallInv, power_loss \/ meddle \/ damage \/ UNCHANGED vars
  PROVE  InstallInv'
  <1> USE InstallAssumption, FolderAssumption
    DEF InstallInv, Own, TypeOK, Names, Tasks, Rules, Held, Building, Configuring,
        Starting, Containing, RollingBack, Folder, Nothing, Waiting, Ends, files, machine,
        PackageParts
  <1>1. /\ resource' = resource /\ registry' = registry
        /\ running' \in Installers \cup {Earlier, Nobody}
    BY DEF power_loss, meddle, damage, vars
  <1>2. pc' \in [Installers -> Waiting \cup Held \cup Ends]
    BY DEF power_loss, meddle, damage, vars
  <1>3. (\A i \in Installers : lock = i <=> pc[i] \in Held)'
    BY DEF power_loss, meddle, damage, vars
  <1>4. /\ target' \in Folder \cup Installers /\ staging' \subseteq Installers
        /\ aside' = aside /\ has' = has
        /\ damaged' \subseteq PackageParts /\ faults' \in 0 .. MaxFaults
    <2>1. CASE power_loss
      BY <2>1 DEF power_loss
    <2>2. CASE meddle
      BY <2>2 DEF meddle
    <2>3. CASE damage
      BY <2>3 DEF damage
    <2>4. CASE UNCHANGED vars
      BY <2>4 DEF vars
    <2> QED BY <2>1, <2>2, <2>3, <2>4
  <1>5. TypeOK' /\ \A n \in Names : resource'[n].on => resource'[n].owner # Nobody
    BY <1>1, <1>2, <1>3, <1>4
  <1>6. ASSUME NEW i \in Installers  PROVE TreeInv(i)'
    BY SMTT(40) DEF power_loss, meddle, damage, vars, TreeInv, Beside, Placed
  <1>7. ASSUME NEW i \in Installers  PROVE MachineInv(i)'
    BY SMTT(40) DEF power_loss, meddle, damage, vars, MachineInv, NoneOwned, Registered,
       Unregistered, Registering, Complete, Opened
  <1>8. ASSUME NEW i \in Installers  PROVE (pc[i] \in Traceless => Clean(i))' /\ TrueExit(i)'
    BY SMTT(40) DEF power_loss, meddle, damage, vars, Traceless, TrueExit, Clean, Registered
  <1>9. ASSUME NEW i \in Installers  PROVE OpenInv(i)'
    BY SMTT(40) DEF power_loss, meddle, damage, vars, OpenInv, CommittedInPlace, Registered,
       MachineInv, Opened
  <1> HIDE DEF TypeOK
  <1> QED BY <1>5, <1>6, <1>7, <1>8, <1>9

LEMMA InstallInvHolds == Spec => []InstallInv
  <1>1. Init => InstallInv
    <2> SUFFICES ASSUME Init PROVE InstallInv
      OBVIOUS
    <2>1. resource \in [Names -> Resource] /\ registry \in Key
      <3>1. /\ NoResource \in Resource /\ [owner |-> Earlier, on |-> TRUE] \in Resource
            /\ NoKey \in Key /\ [owner |-> Earlier, marked |-> TRUE, whole |-> TRUE] \in Key
        BY DEF NoResource, Resource, NoKey, Key
      <3> QED BY <3>1 DEF Init
    <2> USE InstallAssumption, FolderAssumption
      DEF Init, Names, Tasks, Rules, Held, Building, Configuring, Starting, Containing,
          RollingBack, Folder, Nothing, Waiting, Ends, NoResource, NoKey
    <2>2. TypeOK /\ \A n \in Names : resource[n].on => resource[n].owner # Nobody
      BY <2>1 DEF TypeOK, Resource, Key
    <2>3. ASSUME NEW i \in Installers  PROVE Own(i)
      BY DEF Own, TreeInv, MachineInv, Beside, Placed, Unregistered, Registering, Complete,
         Opened, NoneOwned, Traceless, Clean, TrueExit, OpenInv
    <2> QED BY <2>2, <2>3 DEF InstallInv
  <1>2. InstallInv /\ [Next]_vars => InstallInv'
    BY RunKeepsInv, WorldKeepsInv DEF Next
  <1> QED BY <1>1, <1>2, PTL DEF Spec

-----------------------------------------------------------------------------
(* Theorems *)

\* The network is opened only for an installation that is committed, complete
\* and registered in the target, whatever fails and wherever an installer or
\* the machine stops (contain_committed, rollback_resources, activate).
THEOREM OpenAlwaysCommitted == Spec => []OpenOnlyCommitted
  <1>1. InstallInv => OpenOnlyCommitted
    <2> SUFFICES ASSUME InstallInv, NEW n \in Rules, resource[n].on, resource[n].owner # Earlier
                 PROVE  CommittedInPlace(resource[n].owner)
      BY DEF OpenOnlyCommitted
    <2>1. n \in Names
      BY DEF Names
    <2>2. resource[n].owner \in Installers
      BY <2>1 DEF InstallInv, TypeOK
    <2> QED BY <2>2 DEF InstallInv, Own, OpenInv
  <1> QED BY <1>1, InstallInvHolds, PTL

\* The exit code of every run says what the machine is like, however many runs
\* there are and whatever fails (install.py, InstallTransaction.run).
THEOREM ExitAlwaysTrue == Spec => []ExitCodeIsTrue
  <1>1. InstallInv => ExitCodeIsTrue
    BY DEF InstallInv, Own, ExitCodeIsTrue
  <1> QED BY <1>1, InstallInvHolds, PTL

\* No step of a run changes what belongs to another installation, a folder
\* with something in it, or the tree of another run.
THEOREM OwnAlwaysOnly == Spec => OnlyOwnTouched
  <1>1. InstallInv /\ [Next]_vars => [\A i \in Installers : Run(i) => Touches(i)]_vars
    BY PrepareStands, ConfigureStands, StartStands, RecoverStands DEF Run
  <1> QED BY <1>1, InstallInvHolds, PTL DEF Spec, OnlyOwnTouched, Touches

=============================================================================
