--------------------------- MODULE ServiceProofs ---------------------------
(***************************************************************************)
(* The pid file belongs to the process that serves, for any number of      *)
(* starts, stops and faults, unless it was unlinked in the place of the    *)
(* one compared; and there is one first-run setup, whatever becomes of     *)
(* the database.                                                           *)
(***************************************************************************)
EXTENDS Service, TLAPS

AllSteps == ProcessSteps \cup StopperSteps
ServingSteps == {"open", "listen", "returned"}

HistoryRecords == [founders : Nat, opened : BOOLEAN, robbed : SUBSET Processes]

Types ==
    /\ pid_file \in PidFile
    /\ pc \in [Actors -> AllSteps] /\ mem \in [Actors -> Memory]
    /\ history \in HistoryRecords

\* What an actor has found may be removed: its own record, or a dead process's.
Removable(a, p) == p \in Processes /\ (p = a \/ pc[p] = "dead")

(***************************************************************************)
(* ServingOwnsPid is not inductive: who removes the file has looked at it  *)
(* some steps before.  What it has found was then dead and stays dead, and *)
(* what it compared is what it has found: a file that it removes and that  *)
(* is another's by then is a robbed one.                                   *)
(***************************************************************************)
PidInv ==
    /\ Types
    /\ ServingOwnsPid
    /\ pid_file # NoFile => pc[pid_file.owner] # "new"
    /\ \A p \in Processes : pc[p] = "write" =>
           pid_file = [owner |-> p, written |-> FALSE] \/ p \in history.robbed
    /\ \A a \in Actors : pc[a] = "inspect" =>
           mem[a].found \in Processes /\ pc[mem[a].found] # "new"
    /\ \A a \in Actors : pc[a] \in {"recheck", "unlink"} => Removable(a, mem[a].found)
    /\ \A a \in Actors : pc[a] = "unlink" => mem[a].compared = mem[a].found

LEMMA InitPid == Init => PidInv
  BY DEF Init, PidInv, Types, ServingOwnsPid, Serving, PidFile, AllSteps, ProcessSteps, Memory,
         NoMemory, NoFile, Actors, HistoryRecords

\* What an actor remembers stays of its type, whichever part of it changes.
LEMMA MemoryTypes ==
  ASSUME NEW m \in Memory
  PROVE  /\ \A p \in Processes : /\ [m EXCEPT !.found = p] \in Memory
                               /\ [m EXCEPT !.found = p].found = p
                               /\ [m EXCEPT !.found = p].before = m.before
         /\ [m EXCEPT !.setup = FALSE] \in Memory
         /\ \A on \in BOOLEAN : /\ [m EXCEPT !.stop = on] \in Memory
                               /\ [m EXCEPT !.stop = on].found = m.found
                               /\ [m EXCEPT !.setup = on] \in Memory
                               /\ [m EXCEPT !.setup = on].found = m.found
                               /\ [m EXCEPT !.stop = on].before = m.before
                               /\ [m EXCEPT !.setup = on].before = m.before
         /\ \A S \in SUBSET Processes : /\ [m EXCEPT !.before = S] \in Memory
                                       /\ [m EXCEPT !.before = S].before = S
  BY DEF Memory

LEMMA ClearedTypes ==
  ASSUME NEW m \in Memory
  PROVE  /\ [m EXCEPT !.found = Nobody, !.compared = Nobody, !.attempt = 2] \in Memory
         /\ [m EXCEPT !.found = Nobody, !.compared = Nobody, !.attempt = 2].before = m.before
  <1>1. 2 \in 1 .. 2
    OBVIOUS
  <1> QED
    BY <1>1 DEF Memory

LEMMA ComparedTypes ==
  ASSUME NEW m \in Memory, NEW p \in Processes
  PROVE  /\ [m EXCEPT !.compared = p] \in Memory
         /\ [m EXCEPT !.compared = p].compared = p
         /\ [m EXCEPT !.compared = p].found = m.found
         /\ [m EXCEPT !.compared = p].before = m.before
  BY DEF Memory

LEMMA SignalsCompared ==
  ASSUME NEW m \in Memory
  PROVE  /\ [m EXCEPT !.stop = TRUE].compared = m.compared
         /\ [m EXCEPT !.setup = TRUE].compared = m.compared
  BY DEF Memory

LEMMA EndedSteps == \A a \in Actors : Ended(a) \in {"dead", "failed"}
  BY DEF Ended

\* What Step does to pc and mem.
Moved(a, from, to, memory) ==
    /\ pc' \in [Actors -> AllSteps] /\ mem' \in [Actors -> Memory]
    /\ pc[a] = from
    /\ \A b \in Actors : pc'[b] = IF b = a THEN to ELSE pc[b]
    /\ \A b \in Actors : b # a => mem'[b] = mem[b]
    /\ to \notin {"dead", "failed"} => mem'[a] = memory
    /\ mem'[a] \in {memory, NoMemory}

LEMMA StepMoves ==
  ASSUME Types, NEW a \in Actors, NEW from, NEW to \in AllSteps, NEW memory \in Memory,
         Step(a, from, to, memory)
  PROVE  Moved(a, from, to, memory)
  <1>1. NoMemory \in Memory
    BY DEF NoMemory, Memory
  <1>2. mem' = [mem EXCEPT ![a] = IF to = Ended(a) THEN NoMemory ELSE memory]
    BY DEF Step
  <1>3. to \notin {"dead", "failed"} => to # Ended(a)
    BY EndedSteps
  <1> QED
    BY <1>1, <1>2, <1>3 DEF Types, Step, Moved

RobbedStays == history' \in HistoryRecords /\ history'.robbed = history.robbed

\* A step of one actor that leaves the file alone.
LEMMA StepKeepsPid ==
  ASSUME PidInv, NEW a \in Actors, NEW from, NEW to \in AllSteps, NEW memory \in Memory,
         Step(a, from, to, memory), UNCHANGED pid_file,
         history' = history \/ RobbedStays,
         from # "dead", to \notin {"new", "write"},
         a \in Processes /\ to \in ServingSteps => Owns(a) \/ a \in history.robbed,
         to = "inspect" => memory.found \in Processes /\ pc[memory.found] # "new",
         to \in {"recheck", "unlink"} => Removable(a, memory.found),
         to = "unlink" => memory.compared = memory.found
  PROVE  PidInv'
  <1>0. Types
    BY DEF PidInv
  <1>m. Moved(a, from, to, memory)
    BY <1>0, StepMoves
  <1>1. /\ pc' \in [Actors -> AllSteps] /\ mem' \in [Actors -> Memory]
        /\ pc[a] = from
        /\ \A b \in Actors : pc'[b] = IF b = a THEN to ELSE pc[b]
        /\ \A b \in Actors : b # a => mem'[b] = mem[b]
        /\ to \notin {"dead", "failed"} => mem'[a] = memory
    BY <1>m DEF Moved
  <1>r. history' \in HistoryRecords /\ history'.robbed = history.robbed
    BY <1>0 DEF Types, RobbedStays
  <1>2. Processes \subseteq Actors
    BY DEF Actors
  <1>3. Types'
    BY <1>0, <1>1, <1>r DEF Types
  <1>4. ServingOwnsPid'
    BY <1>1, <1>2, <1>r DEF PidInv, ServingOwnsPid, Serving, Owns, ServingSteps
  <1>5. \A p \in Processes : (pc[p] # "new" => pc'[p] # "new") /\ (pc[p] = "dead" => pc'[p] = "dead")
    BY <1>1, <1>2
  <1>6. (pid_file # NoFile => pc[pid_file.owner] # "new")'
    BY <1>5 DEF PidInv, Types, PidFile
  <1>7. \A p \in Processes : pc'[p] = "write" =>
           pid_file' = [owner |-> p, written |-> FALSE] \/ p \in history'.robbed
    BY <1>1, <1>2, <1>r DEF PidInv
  <1>8. \A b \in Actors : pc'[b] = "inspect" =>
           mem'[b].found \in Processes /\ pc'[mem'[b].found] # "new"
    BY <1>1, <1>5 DEF PidInv
  <1>9. (\A b \in Actors : pc[b] \in {"recheck", "unlink"} => Removable(b, mem[b].found))'
    BY <1>1, <1>5 DEF PidInv, Removable
  <1>10. \A b \in Actors : pc'[b] = "unlink" => mem'[b].compared = mem'[b].found
    BY <1>1 DEF PidInv
  <1> QED
    BY <1>3, <1>4, <1>6, <1>7, <1>8, <1>9, <1>10 DEF PidInv

-----------------------------------------------------------------------------
(* The steps of the pid file *)

\* Who compares and unlinks, and who reads and compares.
LEMMA RemoveKeepsPid ==
  ASSUME PidInv, NEW a \in Actors, Remove(a) PROVE PidInv'
  <1>a. /\ {"inspect", "recheck", "unlink", "stopped", "claim", "dead", "failed"} \subseteq AllSteps
        /\ {"inspect", "recheck", "unlink", "stopped", "claim", "dead", "failed"}
             \cap (ServingSteps \cup {"new", "write"}) = {}
    BY DEF AllSteps, ProcessSteps, StopperSteps, ServingSteps
  <1>0. Types /\ mem[a] \in Memory
    BY DEF PidInv, Types
  <1>1. CASE read_pid_record(a)
    <2> DEFINE memory == [mem[a] EXCEPT !.found = pid_file.owner]
    <2>1. pid_file.owner \in Processes /\ pc[pid_file.owner] # "new"
      BY <1>0, <1>1 DEF read_pid_record, Types, PidFile, NoFile, PidInv
    <2>2. memory \in Memory /\ memory.found = pid_file.owner
      BY <1>0, <2>1 DEF Memory
    <2>3. Step(a, "read", "inspect", memory) /\ UNCHANGED <<pid_file, history>>
      BY <1>1 DEF read_pid_record, files
    <2> HIDE DEF memory
    <2> QED
      BY <1>a, <2>1, <2>2, <2>3, StepKeepsPid
  <1>2. CASE unreadable(a)
    <2>1. PICK to \in {"stopped", "dead", "failed"} : Goto(a, "read", to)
      BY <1>2, EndedSteps DEF unreadable
    <2>2. Step(a, "read", to, mem[a]) /\ UNCHANGED <<pid_file, history>>
      BY <1>2, <2>1 DEF unreadable, Goto, files
    <2> QED
      BY <1>0, <1>a, <2>1, <2>2, StepKeepsPid
  <1>3. CASE stale(a)
    <2>1. Step(a, "inspect", "recheck", mem[a]) /\ UNCHANGED <<pid_file, history>>
      BY <1>3 DEF stale, Goto, files
    <2>2. pc[a] = "inspect"
      BY <2>1 DEF Step
    <2>3. Removable(a, mem[a].found)
      BY <1>3, <2>2 DEF stale, pid_exists, Alive, PidInv, Removable
    <2> QED
      BY <1>0, <1>a, <2>1, <2>3, StepKeepsPid
  <1>4. CASE recheck(a)
    <2> DEFINE memory == Compared(a)
    <2>1. Step(a, "recheck", "unlink", memory) /\ UNCHANGED <<pid_file, history>>
      BY <1>4 DEF recheck, files
    <2>2. pc[a] = "recheck"
      BY <2>1 DEF Step
    <2>3. Removable(a, mem[a].found)
      BY <2>2 DEF PidInv
    <2>4. pid_file.owner = mem[a].found /\ mem[a].found \in Processes
      BY <1>4, <2>3 DEF recheck, Owns, Removable
    <2>5. memory \in Memory /\ memory.found = mem[a].found /\ memory.compared = mem[a].found
      BY <1>0, <2>4, ComparedTypes DEF Compared
    <2> HIDE DEF memory
    <2> QED
      BY <1>0, <1>a, <2>1, <2>3, <2>5, StepKeepsPid
  <1>5. CASE not_the_one(a)
    <2>1. PICK to \in {"dead", "failed"} : Goto(a, "recheck", to)
      BY <1>5, EndedSteps DEF not_the_one
    <2>2. Step(a, "recheck", to, mem[a]) /\ UNCHANGED <<pid_file, history>>
      BY <1>5, <2>1 DEF not_the_one, Goto, files
    <2> QED
      BY <1>0, <1>a, <2>1, <2>2, StepKeepsPid
  <1>6. CASE unlink(a)
    <2> DEFINE memory == [mem[a] EXCEPT !.found = Nobody, !.compared = Nobody, !.attempt = 2]
    <2>1. memory \in Memory
      BY <1>0, ClearedTypes, Zenon
    <2>2. PICK to \in {"stopped", "claim", "dead"} : Step(a, "unlink", to, memory)
      BY <1>6 DEF unlink, Removed, Actors
    <2>3. /\ pc[a] = "unlink" /\ pid_file # NoFile /\ pid_file' = NoFile
          /\ history' = [history EXCEPT !.robbed = @ \cup ({pid_file.owner} \ {mem[a].compared})]
      BY <1>6, <2>2 DEF unlink, Step
    <2> HIDE DEF memory
    <2>m. Moved(a, "unlink", to, memory)
      BY <1>0, <1>a, <2>1, <2>2, StepMoves
    <2>4. /\ pc' \in [Actors -> AllSteps] /\ mem' \in [Actors -> Memory]
          /\ \A b \in Actors : pc'[b] = IF b = a THEN to ELSE pc[b]
          /\ \A b \in Actors : b # a => mem'[b] = mem[b]
      BY <2>m DEF Moved
    <2>5. Removable(a, mem[a].found) /\ mem[a].compared = mem[a].found
      BY <2>3 DEF PidInv
    <2>6. /\ history' \in HistoryRecords
          /\ history'.robbed = history.robbed \cup ({pid_file.owner} \ {mem[a].found})
      BY <1>0, <2>3, <2>5 DEF Types, HistoryRecords, PidFile
    <2>8. Processes \subseteq Actors
      BY DEF Actors
    <2>7. \A p \in Processes : pc[p] \in ServingSteps \cup {"write"} => p \in history'.robbed
      <3> SUFFICES ASSUME NEW p \in Processes, pc[p] \in ServingSteps \cup {"write"},
                          p \notin history.robbed
                   PROVE  p \in history'.robbed
        BY <2>6
      <3>1. pid_file.owner = p
        BY DEF PidInv, ServingOwnsPid, Serving, ServingSteps, Owns
      <3>2. p # mem[a].found
        BY <2>3, <2>5 DEF Removable, ServingSteps
      <3> QED
        BY <2>6, <3>1, <3>2
    <2>9. Types'
      BY <2>3, <2>4, <2>6 DEF Types, PidFile
    <2>10. ServingOwnsPid'
      BY <1>a, <2>2, <2>4, <2>7, <2>8 DEF ServingOwnsPid, Serving, ServingSteps
    <2>11. \A p \in Processes : pc'[p] = "write" => p \in history'.robbed
      BY <1>a, <2>4, <2>7, <2>8
    <2>12. \A p \in Processes : (pc[p] # "new" => pc'[p] # "new") /\ (pc[p] = "dead" => pc'[p] = "dead")
      BY <2>3, <2>4, <2>8
    <2>13. (\A b \in Actors : pc[b] = "inspect" =>
              mem[b].found \in Processes /\ pc[mem[b].found] # "new")'
      BY <2>4, <2>12 DEF PidInv
    <2>14. (\A b \in Actors : pc[b] \in {"recheck", "unlink"} => Removable(b, mem[b].found))'
      BY <2>4, <2>12 DEF PidInv, Removable
    <2>15. \A b \in Actors : pc'[b] = "unlink" => mem'[b].compared = mem'[b].found
      BY <2>4 DEF PidInv
    <2> QED
      BY <2>3, <2>9, <2>10, <2>11, <2>13, <2>14, <2>15 DEF PidInv
  <1>7. CASE unlink_fails(a)
    <2>1. PICK to \in {"dead", "failed"} : Goto(a, "unlink", to)
      BY <1>7, EndedSteps DEF unlink_fails
    <2>2. Step(a, "unlink", to, mem[a]) /\ UNCHANGED <<pid_file, history>>
      BY <1>7, <2>1 DEF unlink_fails, Goto, files
    <2> QED
      BY <1>0, <1>a, <2>1, <2>2, StepKeepsPid
  <1> QED
    BY <1>1, <1>2, <1>3, <1>4, <1>5, <1>6, <1>7 DEF Remove

\* A process that owns the file still owns it, and goes on serving or not.
LEMMA ServeKeepsPid ==
  ASSUME PidInv, NEW p \in Processes,
         start(p) \/ Serve(p) \/ interrupted(p)
  PROVE  PidInv'
  <1>0. Types /\ mem[p] \in Memory /\ p \in Actors
    BY DEF PidInv, Types, Actors
  <1>a. /\ {"claim", "read", "release", "recheck", "dead"} \subseteq AllSteps
        /\ ServingSteps \subseteq AllSteps
        /\ {"claim", "read", "release", "recheck", "dead"} \cap (ServingSteps \cup {"new", "write"}) = {}
        /\ ServingSteps \cap {"new", "write", "inspect", "recheck", "unlink", "dead"} = {}
    BY DEF AllSteps, ProcessSteps, StopperSteps, ServingSteps
  <1>b. pc[p] \in ServingSteps => Owns(p) \/ p \in history.robbed
    BY DEF PidInv, ServingOwnsPid, Serving, ServingSteps
  <1>1. CASE create_pid_file(p)
    <2>1. Step(p, "claim", "write", mem[p]) /\ pid_file = NoFile
          /\ pid_file' = [owner |-> p, written |-> FALSE] /\ history' = history
      BY <1>1 DEF create_pid_file, Goto
    <2>2. "write" \in AllSteps
      BY DEF AllSteps, ProcessSteps
    <2>m. Moved(p, "claim", "write", mem[p])
      BY <1>0, <2>1, <2>2, StepMoves
    <2>3. /\ pc' \in [Actors -> AllSteps] /\ mem' \in [Actors -> Memory] /\ pc[p] = "claim"
          /\ \A b \in Actors : pc'[b] = IF b = p THEN "write" ELSE pc[b]
          /\ \A b \in Actors : mem'[b] = mem[b]
      BY <2>m DEF Moved
    <2>4. \A q \in Processes : ~Owns(q) /\ pid_file # [owner |-> q, written |-> FALSE]
      BY <2>1, ServiceAssumption DEF Owns, NoFile
    <2>5. \A q \in Processes : q \in Actors
      BY DEF Actors
    <2>6. Types'
      BY <1>0, <2>1, <2>3 DEF Types, PidFile
    <2>7. ServingOwnsPid'
      BY <2>1, <2>3, <2>4, <2>5 DEF PidInv, ServingOwnsPid, Serving
    <2>8. (pid_file # NoFile => pc[pid_file.owner] # "new")'
      BY <1>0, <2>1, <2>3
    <2>9. \A q \in Processes : pc'[q] = "write" =>
            pid_file' = [owner |-> q, written |-> FALSE] \/ q \in history'.robbed
      BY <2>1, <2>3, <2>4, <2>5 DEF PidInv
    <2>10. \A q \in Processes : (pc[q] # "new" => pc'[q] # "new") /\ (pc[q] = "dead" => pc'[q] = "dead")
      BY <2>3, <2>5
    <2>11. (\A b \in Actors : pc[b] = "inspect" =>
              mem[b].found \in Processes /\ pc[mem[b].found] # "new")'
      BY <2>3, <2>10 DEF PidInv
    <2>12. (\A b \in Actors : pc[b] \in {"recheck", "unlink"} => Removable(b, mem[b].found))'
      BY <2>3, <2>10 DEF PidInv, Removable
    <2>13. \A b \in Actors : pc'[b] = "unlink" => mem'[b].compared = mem'[b].found
      BY <2>3 DEF PidInv
    <2> QED
      BY <2>6, <2>7, <2>8, <2>9, <2>11, <2>12, <2>13 DEF PidInv
  <1>2. CASE write_pid_file(p)
    <2>1. Step(p, "write", "open", mem[p]) /\ history' = history
      BY <1>2 DEF write_pid_file, Goto
    <2>2. pid_file.owner = p \/ p \in history.robbed
      BY <2>1 DEF Step, PidInv
    <2>3. pid_file' = IF pid_file.owner = p THEN [owner |-> p, written |-> TRUE] ELSE pid_file
      BY <1>2 DEF write_pid_file
    <2>4. "open" \in AllSteps
      BY DEF AllSteps, ProcessSteps
    <2>m. Moved(p, "write", "open", mem[p])
      BY <1>0, <2>1, <2>4, StepMoves
    <2>5. /\ pc' \in [Actors -> AllSteps] /\ mem' \in [Actors -> Memory] /\ pc[p] = "write"
          /\ \A b \in Actors : pc'[b] = IF b = p THEN "open" ELSE pc[b]
          /\ \A b \in Actors : mem'[b] = mem[b]
      BY <2>m DEF Moved
    <2>6. \A q \in Processes : q \in Actors
      BY DEF Actors
    <2>7. Types'
      BY <1>0, <2>1, <2>3, <2>5 DEF Types, PidFile
    <2>8. ServingOwnsPid'
      <3>1. Owns(p)' \/ p \in history'.robbed
        BY <2>1, <2>2, <2>3 DEF Owns
      <3>2. ASSUME NEW q \in Processes, q # p, q \in Serving PROVE Owns(q)' \/ q \in history'.robbed
        <4>1. CASE q \in history.robbed
          BY <2>1, <4>1
        <4>2. CASE Owns(q)
          <5>1. pid_file.owner = q /\ pid_file' = pid_file
            BY <2>3, <3>2, <4>2 DEF Owns
          <5> QED
            BY <4>2, <5>1 DEF Owns
        <4> QED
          BY <3>2, <4>1, <4>2 DEF PidInv, ServingOwnsPid
      <3> QED
        BY <2>5, <2>6, <3>1, <3>2 DEF ServingOwnsPid, Serving
    <2>9. (pid_file # NoFile => pc[pid_file.owner] # "new")'
      BY <1>0, <2>3, <2>5, <2>6 DEF PidInv, Types, PidFile
    <2>10. \A q \in Processes : pc'[q] = "write" =>
             pid_file' = [owner |-> q, written |-> FALSE] \/ q \in history'.robbed
      <3>1. \A q \in Processes : pc'[q] = "write" => q # p /\ pc[q] = "write"
        BY <2>5, <2>6
      <3>2. ASSUME NEW q \in Processes, q # p, pid_file = [owner |-> q, written |-> FALSE]
            PROVE  pid_file' = pid_file
        BY <2>3, <3>2
      <3> QED
        BY <2>1, <3>1, <3>2 DEF PidInv
    <2>11. \A q \in Processes : (pc[q] # "new" => pc'[q] # "new") /\ (pc[q] = "dead" => pc'[q] = "dead")
      BY <2>5, <2>6
    <2>12. (\A b \in Actors : pc[b] = "inspect" =>
              mem[b].found \in Processes /\ pc[mem[b].found] # "new")'
      BY <2>5, <2>11 DEF PidInv
    <2>13. (\A b \in Actors : pc[b] \in {"recheck", "unlink"} => Removable(b, mem[b].found))'
      BY <2>5, <2>11 DEF PidInv, Removable
    <2>14. \A b \in Actors : pc'[b] = "unlink" => mem'[b].compared = mem'[b].found
      BY <2>5 DEF PidInv
    <2> QED
      BY <2>7, <2>8, <2>9, <2>10, <2>12, <2>13, <2>14 DEF PidInv
  <1>3. CASE start(p)
    <2>1. Step(p, "new", "claim", mem[p]) /\ UNCHANGED <<pid_file, history>>
      BY <1>3 DEF start, Goto, files
    <2> QED
      BY <1>0, <1>a, <2>1, StepKeepsPid
  <1>4. CASE pid_file_exists(p)
    <2>1. Step(p, "claim", "read", mem[p]) /\ UNCHANGED <<pid_file, history>>
      BY <1>4 DEF pid_file_exists, Goto, files
    <2> QED
      BY <1>0, <1>a, <2>1, StepKeepsPid
  <1>5. CASE refuse_start(p)
    <2>1. Step(p, "inspect", "dead", mem[p]) /\ UNCHANGED <<pid_file, history>>
      BY <1>5 DEF refuse_start, Goto, files
    <2> QED
      BY <1>0, <1>a, <2>1, StepKeepsPid
  <1>6. CASE open(p)
    <2>1. Step(p, "open", "listen", [mem[p] EXCEPT !.setup = FALSE]) /\ UNCHANGED pid_file
      BY <1>6 DEF open
    <2>r. RobbedStays
      BY <1>0, <1>6 DEF open, Types, HistoryRecords, RobbedStays, determine_bind_host
    <2>2. pc[p] = "open"
      BY <2>1 DEF Step
    <2>3. "open" \in ServingSteps /\ "listen" \in ServingSteps
      BY DEF ServingSteps
    <2>4. [mem[p] EXCEPT !.setup = FALSE] \in Memory
      BY <1>0, MemoryTypes
    <2> DEFINE memory == [mem[p] EXCEPT !.setup = FALSE]
    <2>5. Step(p, "open", "listen", memory) /\ memory \in Memory
      BY <2>1, <2>4
    <2> HIDE DEF memory
    <2> QED
      BY <1>0, <1>a, <1>b, <2>1, <2>2, <2>3, <2>5, <2>r, StepKeepsPid
  <1>7. CASE port_taken(p)
    <2>1. Step(p, "open", "release", mem[p]) /\ UNCHANGED <<pid_file, history>>
      BY <1>7 DEF port_taken, Goto, files
    <2> QED
      BY <1>0, <1>a, <2>1, StepKeepsPid
  <1>8. CASE sync_fails(p)
    <2>1. Step(p, "open", "release", mem[p]) /\ UNCHANGED <<pid_file, history>>
      BY <1>8 DEF sync_fails, Goto, files
    <2> QED
      BY <1>0, <1>a, <2>1, StepKeepsPid
  <1>9. CASE close_listener(p)
    <2>1. Step(p, "listen", "returned", mem[p]) /\ UNCHANGED <<pid_file, history>>
      BY <1>9 DEF close_listener, Goto, files
    <2>2. pc[p] = "listen"
      BY <2>1 DEF Step
    <2>3. "listen" \in ServingSteps /\ "returned" \in ServingSteps
      BY DEF ServingSteps
    <2> QED
      BY <1>0, <1>a, <1>b, <2>1, <2>2, <2>3, StepKeepsPid
  <1>10. CASE returned(p)
    <2>1. PICK to \in {"open", "release"} : Step(p, "returned", to, mem[p]) /\ UNCHANGED <<pid_file, history>>
      BY <1>10 DEF returned, Goto, files
    <2>2. pc[p] = "returned"
      BY <2>1 DEF Step
    <2>3. "open" \in ServingSteps /\ "returned" \in ServingSteps
      BY DEF ServingSteps
    <2> QED
      BY <1>0, <1>a, <1>b, <2>1, <2>2, <2>3, StepKeepsPid
  <1>11. CASE release(p)
    <2> DEFINE memory == [mem[p] EXCEPT !.found = p]
    <2>1. Step(p, "release", "recheck", memory) /\ UNCHANGED <<pid_file, history>>
      BY <1>11 DEF release, files
    <2>2. memory \in Memory /\ memory.found = p
      BY <1>0, MemoryTypes
    <2>3. Removable(p, memory.found)
      BY <2>2 DEF Removable
    <2> HIDE DEF memory
    <2> QED
      BY <1>0, <1>a, <2>1, <2>2, <2>3, StepKeepsPid
  <1>12. CASE interrupted(p)
    <2>1. Step(p, "listen", "release", mem[p]) /\ UNCHANGED <<pid_file, history>>
      BY <1>12 DEF interrupted, Goto, files
    <2> QED
      BY <1>0, <1>a, <2>1, StepKeepsPid
  <1> QED
    BY <1>1, <1>2, <1>3, <1>4, <1>5, <1>6, <1>7, <1>8, <1>9, <1>10, <1>11, <1>12 DEF Serve

\* A signal, or the step of a stopper that sends it: what anybody has found and
\* where the services are does not change.
LEMMA SignalKeepsPid ==
  ASSUME PidInv, UNCHANGED pid_file, history' = history \/ RobbedStays, pc' \in [Actors -> AllSteps], mem' \in [Actors -> Memory],
         \A a \in Actors : mem'[a].found = mem[a].found /\ mem'[a].compared = mem[a].compared,
         \A a \in Actors : pc'[a] = pc[a] \/ (pc[a] = "post" /\ pc'[a] = "wait")
  PROVE  PidInv'
  <1>r. history' \in HistoryRecords /\ history'.robbed = history.robbed
    BY DEF PidInv, Types, RobbedStays
  <1>1. Types'
    BY <1>r DEF PidInv, Types
  <1>2. Processes \subseteq Actors
    BY DEF Actors
  <1>3. \A p \in Processes : (pc[p] # "new" => pc'[p] # "new") /\ (pc[p] = "dead" => pc'[p] = "dead")
    BY <1>2
  <1>4. ServingOwnsPid'
    BY <1>2, <1>r DEF PidInv, ServingOwnsPid, Serving, Owns
  <1>5. (pid_file # NoFile => pc[pid_file.owner] # "new")'
    BY <1>3 DEF PidInv, Types, PidFile
  <1>6. \A p \in Processes : pc'[p] = "write" =>
           pid_file' = [owner |-> p, written |-> FALSE] \/ p \in history'.robbed
    BY <1>2, <1>r DEF PidInv
  <1>7. (\A b \in Actors : pc[b] = "inspect" =>
            mem[b].found \in Processes /\ pc[mem[b].found] # "new")'
    BY <1>3 DEF PidInv
  <1>8. (\A b \in Actors : pc[b] \in {"recheck", "unlink"} => Removable(b, mem[b].found))'
    BY <1>3 DEF PidInv, Removable
  <1>9. \A b \in Actors : pc'[b] = "unlink" => mem'[b].compared = mem'[b].found
    BY DEF PidInv
  <1> QED
    BY <1>1, <1>4, <1>5, <1>6, <1>7, <1>8, <1>9 DEF PidInv

LEMMA StopKeepsPid ==
  ASSUME PidInv, NEW s \in Stoppers, begin_stop(s) \/ Stop(s) PROVE PidInv'
  <1>0. Types /\ mem[s] \in Memory /\ s \in Actors /\ s \notin Processes
    BY ServiceAssumption DEF PidInv, Types, Actors
  <1>a. /\ {"read", "post", "stopped", "failed", "wait"} \subseteq AllSteps
        /\ {"read", "post", "stopped", "failed", "wait"} \cap (ServingSteps \cup {"new", "write"}) = {}
    BY DEF AllSteps, StopperSteps, ServingSteps
  <1>1. CASE begin_stop(s)
    <2> DEFINE memory == [NoMemory EXCEPT !.before = Serving]
    <2>1. PICK from \in {"new", "stopped", "failed"} : Step(s, from, "read", memory)
      BY <1>1 DEF begin_stop
    <2>2. memory \in Memory
      <3>1. Serving \in SUBSET Processes
        BY DEF Serving
      <3>2. NoMemory \in Memory
        BY DEF Memory, NoMemory
      <3> QED
        BY <3>1, <3>2, MemoryTypes
    <2>3. UNCHANGED <<pid_file, history>>
      BY <1>1 DEF begin_stop, files
    <2> HIDE DEF memory
    <2> QED
      BY <1>0, <1>a, <2>1, <2>2, <2>3, StepKeepsPid
  <1>2. CASE found_alive(s)
    <2>1. Step(s, "inspect", "post", mem[s]) /\ UNCHANGED <<pid_file, history>>
      BY <1>2 DEF found_alive, Goto, files
    <2> QED
      BY <1>0, <1>a, <2>1, StepKeepsPid
  <1>3. CASE post_stop(s)
    <2> DEFINE found == mem[s].found
    <2>1. pc' = [pc EXCEPT ![s] = "wait"] /\ pc[s] = "post" /\ UNCHANGED <<pid_file, history>>
          /\ mem' = [mem EXCEPT ![found] = [mem[found] EXCEPT !.stop = TRUE]]
      BY <1>3 DEF post_stop, files
    <2>2. mem' \in [Actors -> Memory] /\ \A a \in Actors : mem'[a].found = mem[a].found /\ mem'[a].compared = mem[a].compared
      <3>1. \A a \in Actors : mem[a] \in Memory
        BY <1>0 DEF Types
      <3>2. \A a \in Actors : [mem[a] EXCEPT !.stop = TRUE] \in Memory
                             /\ [mem[a] EXCEPT !.stop = TRUE].found = mem[a].found
                             /\ [mem[a] EXCEPT !.stop = TRUE].compared = mem[a].compared
        BY <3>1, MemoryTypes, SignalsCompared
      <3> HIDE DEF found
      <3> QED
        BY <1>0, <2>1, <3>2 DEF Types
    <2>3. pc' \in [Actors -> AllSteps]
          /\ \A a \in Actors : pc'[a] = pc[a] \/ (pc[a] = "post" /\ pc'[a] = "wait")
      BY <1>0, <1>a, <2>1 DEF Types
    <2> QED
      BY <2>1, <2>2, <2>3, SignalKeepsPid
  <1>4. CASE stop_refused(s)
    <2>1. Step(s, "post", "failed", mem[s]) /\ UNCHANGED <<pid_file, history>>
      BY <1>4 DEF stop_refused, Goto, files
    <2> QED
      BY <1>0, <1>a, <2>1, StepKeepsPid
  <1>5. CASE stop_confirmed(s)
    <2>1. Step(s, "wait", "stopped", mem[s]) /\ UNCHANGED <<pid_file, history>>
      BY <1>5 DEF stop_confirmed, Goto, files
    <2> QED
      BY <1>0, <1>a, <2>1, StepKeepsPid
  <1>6. CASE stop_timeout(s)
    <2>1. Step(s, "wait", "failed", mem[s]) /\ UNCHANGED <<pid_file, history>>
      BY <1>6 DEF stop_timeout, Goto, files
    <2> QED
      BY <1>0, <1>a, <2>1, StepKeepsPid
  <1> QED
    BY <1>1, <1>2, <1>3, <1>4, <1>5, <1>6 DEF Stop

LEMMA KillKeepsPid ==
  ASSUME PidInv, NEW a \in Actors, kill(a) PROVE PidInv'
  <1>0. Types /\ mem[a] \in Memory
    BY DEF PidInv, Types
  <1>a. /\ {"dead", "failed"} \subseteq AllSteps
        /\ {"dead", "failed"} \cap (ServingSteps \cup {"new", "write", "inspect"}) = {}
    BY DEF AllSteps, ProcessSteps, StopperSteps, ServingSteps
  <1>1. PICK to \in {"dead", "failed"} : Step(a, pc[a], to, mem[a]) /\ UNCHANGED <<pid_file, history>>
                                      /\ pc[a] # "dead"
    BY EndedSteps DEF kill, Goto, files
  <1> QED
    BY <1>0, <1>a, <1>1, StepKeepsPid

LEMMA SetupKeepsPid ==
  ASSUME PidInv, NEW r \in Requests, post_setup(r) \/ Setup(r) PROVE PidInv'
  <1>0. Types
    BY DEF PidInv
  <1>1. CASE answer(r)
    <2> DEFINE proc == requests[r].proc
    <2>1. UNCHANGED <<pc, pid_file, history>> /\ mem' = [mem EXCEPT ![proc] = [mem[proc] EXCEPT !.setup = TRUE]]
      BY <1>1 DEF answer, files
    <2>2. mem' \in [Actors -> Memory] /\ \A a \in Actors : mem'[a].found = mem[a].found /\ mem'[a].compared = mem[a].compared
      <3>1. \A a \in Actors : mem[a] \in Memory
        BY <1>0 DEF Types
      <3>2. \A a \in Actors : [mem[a] EXCEPT !.setup = TRUE] \in Memory
                             /\ [mem[a] EXCEPT !.setup = TRUE].found = mem[a].found
                             /\ [mem[a] EXCEPT !.setup = TRUE].compared = mem[a].compared
        BY <3>1, MemoryTypes, SignalsCompared
      <3> HIDE DEF proc
      <3> QED
        BY <1>0, <2>1, <3>2 DEF Types
    <2> QED
      BY <1>0, <2>1, <2>2, SignalKeepsPid DEF Types
  <1>2. CASE post_setup(r) \/ commit_setup(r) \/ setup_refused(r) \/ sync_install_json(r)
    <2>1. UNCHANGED <<pc, mem, pid_file>>
      BY <1>2 DEF post_setup, commit_setup, setup_refused, sync_install_json, files
    <2>2. CASE commit_setup(r)
      <3>1. history' = [history EXCEPT !.founders = @ + 1]
        BY <2>2 DEF commit_setup
      <3>2. RobbedStays
        BY <1>0, <3>1 DEF Types, HistoryRecords, RobbedStays
      <3> QED
        BY <1>0, <2>1, <3>2, SignalKeepsPid DEF Types
    <2>3. CASE ~commit_setup(r)
      <3>1. history' = history
        BY <1>2, <2>3 DEF post_setup, setup_refused, sync_install_json
      <3> QED
        BY <1>0, <2>1, <3>1, SignalKeepsPid DEF Types
    <2> QED
      BY <2>2, <2>3
  <1> QED
    BY <1>1, <1>2 DEF Setup

LEMMA NextKeepsPid == PidInv /\ [Next]_vars => PidInv'
  <1> SUFFICES ASSUME PidInv, [Next]_vars PROVE PidInv'
    OBVIOUS
  <1>1. CASE \E p \in Processes : start(p) \/ Serve(p) \/ interrupted(p)
    BY <1>1, ServeKeepsPid
  <1>2. CASE \E s \in Stoppers : begin_stop(s) \/ Stop(s)
    BY <1>2, StopKeepsPid
  <1>3. CASE \E a \in Actors : Remove(a)
    BY <1>3, RemoveKeepsPid
  <1>4. CASE \E a \in Actors : kill(a)
    BY <1>4, KillKeepsPid
  <1>5. CASE \E r \in Requests : post_setup(r) \/ Setup(r)
    BY <1>5, SetupKeepsPid
  <1>6. CASE (\E p \in Processes : reuse_pid(p)) \/ lose_database \/ UNCHANGED vars
    <2>1. UNCHANGED <<pc, mem, pid_file, history>> /\ Types
      BY <1>6 DEF reuse_pid, lose_database, vars, files, work, PidInv
    <2> QED
      BY <2>1, SignalKeepsPid DEF Types
  <1> QED
    BY <1>1, <1>2, <1>3, <1>4, <1>5, <1>6 DEF Next

\* A service that serves holds the pid file, for any number of starts, stop
\* commands, kills and reused process numbers that race in any order, unless its
\* own file was unlinked after another had been compared (_claim_pid and
\* _remove_pid_if_token, service.py:373-460).
THEOREM ServingAlwaysOwnsPid == Spec => []ServingOwnsPid
  <1>1. PidInv /\ [Next]_vars => PidInv'
    BY NextKeepsPid
  <1>2. PidInv => ServingOwnsPid
    BY DEF PidInv
  <1> QED
    BY <1>1, <1>2, InitPid, PTL DEF Spec

-----------------------------------------------------------------------------
(* What a stop that reports success may rely on *)

\* A service that has claimed the file does not come back once it has ended: it
\* serves, or it is on its way out with its own record.
Past(p) ==
    pc[p] \in ServingSteps \cup {"release", "dead"} \/
    (pc[p] \in {"recheck", "unlink"} /\ mem[p].found = p)
Gone(p) == Past(p) /\ pc[p] \notin ServingSteps

(***************************************************************************)
(* StopIsTrue needs PidInv, by which only the robbed serve when there is   *)
(* no file, and that who served then is past; who is robbed stays so.      *)
(***************************************************************************)
StopInv ==
    \A s \in Stoppers : /\ \A p \in mem[s].before : p \in Processes /\ Past(p)
                        /\ pc[s] = "stopped" =>
                             \A p \in mem[s].before : Gone(p) \/ p \in history.robbed

\* What a step may do to a service, and to a stopper.
Stays(p) == (Past(p) => Past(p)') /\ (Gone(p) => Gone(p)')
Stops(s) ==
    /\ \/ mem'[s].before \in {mem[s].before, {}}
       \/ mem'[s].before = Serving /\ pc'[s] = "read"
    /\ pc'[s] = "stopped" => \/ pc[s] = "stopped" /\ mem'[s].before = mem[s].before
                             \/ Serving' \subseteq history'.robbed

LEMMA StopInvKept ==
  ASSUME Types, Types', StopInv, history.robbed \subseteq history'.robbed, \A p \in Processes : Stays(p), \A s \in Stoppers : Stops(s)
  PROVE  StopInv'
  <1>1. ASSUME NEW s \in Stoppers PROVE \A p \in mem'[s].before : p \in Processes /\ Past(p)'
    <2>1. CASE mem'[s].before \in {mem[s].before, {}}
      BY <2>1 DEF StopInv, Stays
    <2>2. CASE mem'[s].before = Serving
      <3>1. \A p \in Serving : p \in Processes /\ Past(p)
        BY DEF Serving, Past, ServingSteps
      <3> QED
        BY <2>2, <3>1 DEF Stays
    <2> QED
      BY <2>1, <2>2 DEF Stops
  <1>2. ASSUME NEW s \in Stoppers, pc'[s] = "stopped" PROVE \A p \in mem'[s].before : Gone(p)' \/ p \in history'.robbed
    <2>1. CASE pc[s] = "stopped" /\ mem'[s].before = mem[s].before
      BY <2>1 DEF StopInv, Stays
    <2>2. CASE Serving' \subseteq history'.robbed
      BY <1>1, <2>2 DEF Serving, Gone, ServingSteps
    <2> QED
      BY <1>2, <2>1, <2>2 DEF Stops
  <1> QED
    BY <1>1, <1>2 DEF StopInv

\* Nobody moves: what is found and who served before are as they were.
LEMMA SignalKeepsStop ==
  ASSUME PidInv, StopInv, PidInv', history.robbed \subseteq history'.robbed,
         \A a \in Actors : mem'[a].found = mem[a].found /\ mem'[a].before = mem[a].before,
         \A a \in Actors : pc'[a] = pc[a] \/ (a \in Stoppers /\ pc'[a] = "wait")
  PROVE  StopInv'
  <1>1. Processes \subseteq Actors /\ Stoppers \subseteq Actors /\ Processes \cap Stoppers = {}
    BY ServiceAssumption DEF Actors
  <1>2. \A p \in Processes : Stays(p)
    BY <1>1 DEF Stays, Past, Gone
  <1>3. \A s \in Stoppers : Stops(s)
    BY <1>1 DEF Stops
  <1> QED
    BY <1>2, <1>3, StopInvKept DEF PidInv

LEMMA StepKeepsStop ==
  ASSUME PidInv, StopInv, PidInv', history.robbed \subseteq history'.robbed, NEW a \in Actors, NEW from, NEW to \in AllSteps,
         NEW memory \in Memory, Step(a, from, to, memory),
         a \in Processes /\ Past(a) =>
            \/ to \in ServingSteps \cup {"release", "dead"}
            \/ to \in {"recheck", "unlink"} /\ memory.found = a,
         a \in Processes /\ Gone(a) => to \notin ServingSteps,
         a \in Stoppers => memory.before = mem[a].before \/ (memory.before = Serving /\ to = "read"),
         a \in Stoppers /\ to = "stopped" => Serving' \subseteq history'.robbed
  PROVE  StopInv'
  <1>1. Types /\ Types'
    BY DEF PidInv
  <1>m. Moved(a, from, to, memory)
    BY <1>1, StepMoves
  <1>2. /\ pc[a] = from
        /\ \A b \in Actors : pc'[b] = IF b = a THEN to ELSE pc[b]
        /\ \A b \in Actors : b # a => mem'[b] = mem[b]
        /\ to \notin {"dead", "failed"} => mem'[a] = memory
        /\ mem'[a] \in {memory, NoMemory}
    BY <1>m DEF Moved
  <1>3. Processes \subseteq Actors /\ Stoppers \subseteq Actors /\ Processes \cap Stoppers = {}
    BY ServiceAssumption DEF Actors
  <1>4. ASSUME NEW p \in Processes PROVE Stays(p)
    <2>1. CASE p = a
      BY <1>2, <1>3, <2>1 DEF Stays, Past, Gone, ServingSteps
    <2>2. CASE p # a
      BY <1>2, <1>3, <2>2 DEF Stays, Past, Gone
    <2> QED
      BY <2>1, <2>2
  <1>5. ASSUME NEW s \in Stoppers PROVE Stops(s)
    <2>1. CASE s = a
      BY <1>2, <1>3, <2>1 DEF Stops, NoMemory
    <2>2. CASE s # a
      BY <1>2, <1>3, <2>2 DEF Stops
    <2> QED
      BY <2>1, <2>2
  <1> QED
    BY <1>1, <1>4, <1>5, StopInvKept

LEMMA ServeKeepsStop ==
  ASSUME PidInv, StopInv, PidInv', history.robbed \subseteq history'.robbed, NEW p \in Processes, start(p) \/ Serve(p) \/ interrupted(p)
  PROVE  StopInv'
  <1>0. mem[p] \in Memory /\ p \in Actors /\ p \notin Stoppers
    BY ServiceAssumption DEF PidInv, Types, Actors
  <1>a. /\ {"claim", "write", "read", "release", "recheck", "dead"} \subseteq AllSteps
        /\ {"open", "listen", "returned"} \subseteq ServingSteps
        /\ ServingSteps \subseteq AllSteps
    BY DEF AllSteps, ProcessSteps, StopperSteps, ServingSteps
  <1>1. CASE create_pid_file(p)
    <2>1. Step(p, "claim", "write", mem[p])
      BY <1>1 DEF create_pid_file, Goto
    <2>2. pc[p] = "claim"
      BY <2>1 DEF Step
    <2>3. ~Past(p)
      BY <2>2 DEF Past, ServingSteps
    <2> QED
      BY <1>0, <1>a, <2>1, <2>3, StepKeepsStop DEF Gone
  <1>2. CASE write_pid_file(p)
    <2>1. Step(p, "write", "open", mem[p])
      BY <1>2 DEF write_pid_file, Goto
    <2>2. pc[p] = "write"
      BY <2>1 DEF Step
    <2>3. ~Past(p)
      BY <2>2 DEF Past, ServingSteps
    <2> QED
      BY <1>0, <1>a, <2>1, <2>3, StepKeepsStop DEF Gone
  <1>3. CASE start(p)
    <2>1. Step(p, "new", "claim", mem[p])
      BY <1>3 DEF start, Goto
    <2>2. pc[p] = "new"
      BY <2>1 DEF Step
    <2>3. ~Past(p)
      BY <2>2 DEF Past, ServingSteps
    <2> QED
      BY <1>0, <1>a, <2>1, <2>3, StepKeepsStop DEF Gone
  <1>4. CASE pid_file_exists(p)
    <2>1. Step(p, "claim", "read", mem[p])
      BY <1>4 DEF pid_file_exists, Goto
    <2>2. pc[p] = "claim"
      BY <2>1 DEF Step
    <2>3. ~Past(p)
      BY <2>2 DEF Past, ServingSteps
    <2> QED
      BY <1>0, <1>a, <2>1, <2>3, StepKeepsStop DEF Gone
  <1>5. CASE refuse_start(p)
    <2>1. Step(p, "inspect", "dead", mem[p])
      BY <1>5 DEF refuse_start, Goto
    <2>2. pc[p] = "inspect"
      BY <2>1 DEF Step
    <2>3. ~Past(p)
      BY <2>2 DEF Past, ServingSteps
    <2> QED
      BY <1>0, <1>a, <2>1, <2>3, StepKeepsStop DEF Gone
  <1>6. CASE open(p)
    <2> DEFINE memory == [mem[p] EXCEPT !.setup = FALSE]
    <2>1. Step(p, "open", "listen", memory)
      BY <1>6 DEF open
    <2>2. memory \in Memory
      BY <1>0, MemoryTypes
    <2>3. ~Gone(p)
      BY <2>1 DEF Step, Gone, ServingSteps
    <2> HIDE DEF memory
    <2> QED
      BY <1>0, <1>a, <2>1, <2>2, <2>3, StepKeepsStop
  <1>7. CASE port_taken(p)
    <2>1. Step(p, "open", "release", mem[p])
      BY <1>7 DEF port_taken, Goto
    <2>2. pc[p] = "open"
      BY <2>1 DEF Step
    <2>3. Gone(p) => "release" \notin ServingSteps
      BY <2>1, <2>2 DEF Gone, ServingSteps
    <2> QED
      BY <1>0, <1>a, <2>1, <2>3, StepKeepsStop
  <1>8. CASE sync_fails(p)
    <2>1. Step(p, "open", "release", mem[p])
      BY <1>8 DEF sync_fails, Goto
    <2>2. pc[p] = "open"
      BY <2>1 DEF Step
    <2>3. Gone(p) => "release" \notin ServingSteps
      BY <2>1, <2>2 DEF Gone, ServingSteps
    <2> QED
      BY <1>0, <1>a, <2>1, <2>3, StepKeepsStop
  <1>9. CASE close_listener(p)
    <2>1. Step(p, "listen", "returned", mem[p])
      BY <1>9 DEF close_listener, Goto
    <2>2. pc[p] = "listen"
      BY <2>1 DEF Step
    <2>3. Gone(p) => "returned" \notin ServingSteps
      BY <2>1, <2>2 DEF Gone, ServingSteps
    <2> QED
      BY <1>0, <1>a, <2>1, <2>3, StepKeepsStop
  <1>10. CASE returned(p)
    <2>1. PICK to \in {"open", "release"} : Step(p, "returned", to, mem[p])
      BY <1>10 DEF returned, Goto
    <2>2. pc[p] = "returned"
      BY <2>1 DEF Step
    <2>3. Gone(p) => to \notin ServingSteps
      BY <2>1, <2>2 DEF Gone, ServingSteps
    <2> QED
      BY <1>0, <1>a, <2>1, <2>3, StepKeepsStop
  <1>11. CASE release(p)
    <2> DEFINE memory == [mem[p] EXCEPT !.found = p]
    <2>1. Step(p, "release", "recheck", memory)
      BY <1>11 DEF release
    <2>2. memory \in Memory /\ memory.found = p
      BY <1>0, MemoryTypes
    <2>3. "recheck" \notin ServingSteps
      BY DEF ServingSteps
    <2> HIDE DEF memory
    <2> QED
      BY <1>0, <1>a, <2>1, <2>2, <2>3, StepKeepsStop
  <1>12. CASE interrupted(p)
    <2>1. Step(p, "listen", "release", mem[p])
      BY <1>12 DEF interrupted, Goto
    <2>2. pc[p] = "listen"
      BY <2>1 DEF Step
    <2>3. Gone(p) => "release" \notin ServingSteps
      BY <2>1, <2>2 DEF Gone, ServingSteps
    <2> QED
      BY <1>0, <1>a, <2>1, <2>3, StepKeepsStop
  <1> QED
    BY <1>1, <1>2, <1>3, <1>4, <1>5, <1>6, <1>7, <1>8, <1>9, <1>10, <1>11, <1>12 DEF Serve

LEMMA NoFileOnlyRobbed == PidInv' /\ pid_file' = NoFile => Serving' \subseteq history'.robbed
  <1> SUFFICES ASSUME PidInv', pid_file' = NoFile, NEW p \in Processes, p \in Serving'
               PROVE  p \in history'.robbed
    BY DEF Serving
  <1>1. Owns(p)' \/ p \in history'.robbed
    BY DEF PidInv, ServingOwnsPid
  <1>2. NoFile # [owner |-> p, written |-> TRUE]
    BY DEF NoFile
  <1> QED
    BY <1>1, <1>2 DEF Owns

LEMMA RemoveKeepsStop ==
  ASSUME PidInv, StopInv, PidInv', history.robbed \subseteq history'.robbed, NEW a \in Actors, Remove(a) PROVE StopInv'
  <1>0. mem[a] \in Memory
    BY DEF PidInv, Types
  <1>a. /\ {"inspect", "recheck", "unlink", "stopped", "claim", "dead", "failed"} \subseteq AllSteps
        /\ {"inspect", "recheck", "unlink", "stopped", "claim", "dead", "failed"} \cap ServingSteps = {}
    BY DEF AllSteps, ProcessSteps, StopperSteps, ServingSteps
  <1>b. (a \in Processes => Ended(a) = "dead") /\ Ended(a) \in {"dead", "failed"}
    BY DEF Ended
  <1>1. CASE read_pid_record(a)
    <2> DEFINE memory == [mem[a] EXCEPT !.found = pid_file.owner]
    <2>1. Step(a, "read", "inspect", memory)
      BY <1>1 DEF read_pid_record
    <2>2. pid_file.owner \in Processes
      BY <1>1 DEF read_pid_record, PidInv, Types, PidFile, NoFile
    <2>3. memory \in Memory /\ memory.before = mem[a].before
      BY <1>0, <2>2, MemoryTypes
    <2>4. ~Past(a)
      BY <2>1 DEF Step, Past, ServingSteps
    <2> HIDE DEF memory
    <2> QED
      BY <1>a, <2>1, <2>3, <2>4, StepKeepsStop DEF Gone
  <1>2. CASE unreadable(a)
    <2>1. PICK to \in {"stopped", "dead", "failed"} :
              Goto(a, "read", to) /\ (to = "stopped" => pid_file' = NoFile)
      BY <1>2, <1>b DEF unreadable, files
    <2>2. Step(a, "read", to, mem[a]) /\ ~Past(a)
      BY <2>1 DEF Goto, Step, Past, ServingSteps
    <2>3. to = "stopped" => Serving' \subseteq history'.robbed
      BY <2>1, NoFileOnlyRobbed
    <2> QED
      BY <1>0, <1>a, <2>1, <2>2, <2>3, StepKeepsStop DEF Gone
  <1>3. CASE stale(a)
    <2>1. Step(a, "inspect", "recheck", mem[a]) /\ ~Past(a)
      BY <1>3 DEF stale, Goto, Step, Past, ServingSteps
    <2> QED
      BY <1>0, <1>a, <2>1, StepKeepsStop DEF Gone
  <1>4. CASE recheck(a)
    <2> DEFINE memory == Compared(a)
    <2>1. Step(a, "recheck", "unlink", memory) /\ (Past(a) => mem[a].found = a)
      BY <1>4 DEF recheck, Step, Past, ServingSteps
    <2>2. pid_file.owner = mem[a].found /\ mem[a].found \in Processes
      BY <1>4, <2>1 DEF recheck, Owns, Step, PidInv, Removable
    <2>3. memory \in Memory /\ memory.found = mem[a].found /\ memory.before = mem[a].before
      BY <1>0, <2>2, ComparedTypes DEF Compared
    <2> HIDE DEF memory
    <2> QED
      BY <1>0, <1>a, <2>1, <2>3, StepKeepsStop
  <1>5. CASE not_the_one(a)
    <2>1. PICK to \in {"dead", "failed"} :
              Step(a, "recheck", to, mem[a]) /\ (a \in Processes => to = "dead")
      BY <1>b, <1>5 DEF not_the_one, Goto
    <2> QED
      BY <1>0, <1>a, <2>1, StepKeepsStop
  <1>6. CASE unlink(a)
    <2> DEFINE memory == [mem[a] EXCEPT !.found = Nobody, !.compared = Nobody, !.attempt = 2]
    <2> DEFINE to == Removed(a)
    <2>1. Step(a, "unlink", to, memory)
      BY <1>6 DEF unlink
    <2>4. to \in {"stopped", "claim", "dead"}
      BY ServiceAssumption DEF Removed, Actors
    <2>5. a \in Processes /\ Past(a) => to = "dead"
      <3>1. pc[a] = "unlink"
        BY <2>1 DEF Step
      <3>2. Past(a) => mem[a].found = a
        BY <3>1 DEF Past, ServingSteps
      <3> QED
        BY <3>2, ServiceAssumption DEF Removed
    <2>2. memory \in Memory /\ memory.before = mem[a].before
      BY <1>0, ClearedTypes, Zenon
    <2>3. Serving' \subseteq history'.robbed
      BY <1>6, NoFileOnlyRobbed DEF unlink
    <2> HIDE DEF memory, to
    <2> QED
      BY <1>a, <2>1, <2>2, <2>3, <2>4, <2>5, StepKeepsStop
  <1>7. CASE unlink_fails(a)
    <2>1. PICK to \in {"dead", "failed"} :
              Step(a, "unlink", to, mem[a]) /\ (a \in Processes => to = "dead")
      BY <1>b, <1>7 DEF unlink_fails, Goto
    <2> QED
      BY <1>0, <1>a, <2>1, StepKeepsStop
  <1> QED
    BY <1>1, <1>2, <1>3, <1>4, <1>5, <1>6, <1>7 DEF Remove

LEMMA StopKeepsStop ==
  ASSUME PidInv, StopInv, PidInv', history.robbed \subseteq history'.robbed, NEW s \in Stoppers, begin_stop(s) \/ Stop(s)
  PROVE  StopInv'
  <1>0. mem[s] \in Memory /\ s \in Actors /\ s \notin Processes
    BY ServiceAssumption DEF PidInv, Types, Actors
  <1>a. {"read", "post", "wait", "stopped", "failed"} \subseteq AllSteps
    BY DEF AllSteps, StopperSteps
  <1>1. CASE begin_stop(s)
    <2> DEFINE memory == [NoMemory EXCEPT !.before = Serving]
    <2>1. PICK from \in {"new", "stopped", "failed"} : Step(s, from, "read", memory)
      BY <1>1 DEF begin_stop
    <2>2. memory \in Memory /\ memory.before = Serving
      <3>1. Serving \in SUBSET Processes
        BY DEF Serving
      <3>2. NoMemory \in Memory
        BY DEF Memory, NoMemory
      <3> QED
        BY <3>1, <3>2, MemoryTypes
    <2> HIDE DEF memory
    <2> QED
      BY <1>0, <1>a, <2>1, <2>2, StepKeepsStop
  <1>2. CASE found_alive(s)
    <2>1. Step(s, "inspect", "post", mem[s])
      BY <1>2 DEF found_alive, Goto
    <2> QED
      BY <1>0, <1>a, <2>1, StepKeepsStop
  <1>3. CASE post_stop(s)
    <2> DEFINE found == mem[s].found
    <2>1. pc' = [pc EXCEPT ![s] = "wait"] /\ mem' = [mem EXCEPT ![found] = [mem[found] EXCEPT !.stop = TRUE]]
      BY <1>3 DEF post_stop
    <2>2. \A a \in Actors : mem'[a].found = mem[a].found /\ mem'[a].before = mem[a].before
      <3>1. \A a \in Actors : mem[a] \in Memory
        BY DEF PidInv, Types
      <3>2. \A a \in Actors : [mem[a] EXCEPT !.stop = TRUE].found = mem[a].found
                             /\ [mem[a] EXCEPT !.stop = TRUE].before = mem[a].before
        BY <3>1, MemoryTypes
      <3> HIDE DEF found
      <3> QED
        BY <2>1, <3>2 DEF PidInv, Types
    <2>3. \A a \in Actors : pc'[a] = pc[a] \/ (a \in Stoppers /\ pc'[a] = "wait")
      BY <2>1 DEF PidInv, Types
    <2> HIDE DEF found
    <2> QED
      BY <2>2, <2>3, SignalKeepsStop
  <1>4. CASE stop_refused(s)
    <2>1. Step(s, "post", "failed", mem[s])
      BY <1>4 DEF stop_refused, Goto
    <2> QED
      BY <1>0, <1>a, <2>1, StepKeepsStop
  <1>5. CASE stop_confirmed(s)
    <2>1. Step(s, "wait", "stopped", mem[s]) /\ pid_file' = NoFile
      BY <1>5 DEF stop_confirmed, Goto, files
    <2>2. Serving' \subseteq history'.robbed
      BY <2>1, NoFileOnlyRobbed
    <2> QED
      BY <1>0, <1>a, <2>1, <2>2, StepKeepsStop
  <1>6. CASE stop_timeout(s)
    <2>1. Step(s, "wait", "failed", mem[s])
      BY <1>6 DEF stop_timeout, Goto
    <2> QED
      BY <1>0, <1>a, <2>1, StepKeepsStop
  <1> QED
    BY <1>1, <1>2, <1>3, <1>4, <1>5, <1>6 DEF Stop

LEMMA KillKeepsStop ==
  ASSUME PidInv, StopInv, PidInv', history.robbed \subseteq history'.robbed, NEW a \in Actors, kill(a) PROVE StopInv'
  <1>0. mem[a] \in Memory
    BY DEF PidInv, Types
  <1>a. {"dead", "failed"} \subseteq AllSteps /\ {"dead", "failed"} \cap ServingSteps = {}
    BY DEF AllSteps, ProcessSteps, StopperSteps, ServingSteps
  <1>1. PICK to \in {"dead", "failed"} :
            Step(a, pc[a], to, mem[a]) /\ (a \in Processes => to = "dead") /\ pc[a] # "stopped"
    BY DEF kill, Goto, Ended
  <1> QED
    BY <1>0, <1>a, <1>1, StepKeepsStop

LEMMA OutsideKeepsStop ==
  ASSUME PidInv, StopInv, PidInv', history.robbed \subseteq history'.robbed, UNCHANGED <<pc, mem>> PROVE StopInv'
  BY SignalKeepsStop

LEMMA SetupKeepsStop ==
  ASSUME PidInv, StopInv, PidInv', history.robbed \subseteq history'.robbed, NEW r \in Requests, post_setup(r) \/ Setup(r) PROVE StopInv'
  <1>1. CASE answer(r)
    <2> DEFINE proc == requests[r].proc
    <2>1. pc' = pc /\ mem' = [mem EXCEPT ![proc] = [mem[proc] EXCEPT !.setup = TRUE]]
      BY <1>1 DEF answer
    <2>2. \A a \in Actors : mem'[a].found = mem[a].found /\ mem'[a].before = mem[a].before
      <3>1. \A a \in Actors : mem[a] \in Memory
        BY DEF PidInv, Types
      <3>2. \A a \in Actors : [mem[a] EXCEPT !.setup = TRUE].found = mem[a].found
                             /\ [mem[a] EXCEPT !.setup = TRUE].before = mem[a].before
        BY <3>1, MemoryTypes
      <3> HIDE DEF proc
      <3> QED
        BY <2>1, <3>2 DEF PidInv, Types
    <2>3. \A a \in Actors : pc'[a] = pc[a]
      BY <2>1
    <2> HIDE DEF proc
    <2> QED
      BY <2>2, <2>3, SignalKeepsStop
  <1>2. CASE post_setup(r) \/ commit_setup(r) \/ setup_refused(r) \/ sync_install_json(r)
    BY <1>2, OutsideKeepsStop DEF post_setup, commit_setup, setup_refused, sync_install_json
  <1> QED
    BY <1>1, <1>2 DEF Setup

\* Nobody's file is given back.
LEMMA RobbedGrows == Types /\ [Next]_vars => history.robbed \subseteq history'.robbed
  <1> SUFFICES ASSUME Types, [Next]_vars PROVE history.robbed \subseteq history'.robbed
    OBVIOUS
  <1>1. CASE \E a \in Actors : unlink(a)
    BY <1>1 DEF unlink, Types, HistoryRecords
  <1>2. CASE \E p \in Processes : open(p)
    BY <1>2 DEF open, Types, HistoryRecords
  <1>3. CASE \E r \in Requests : commit_setup(r)
    BY <1>3 DEF commit_setup, Types, HistoryRecords
  <1>4. CASE /\ ~\E a \in Actors : unlink(a)
             /\ ~\E p \in Processes : open(p)
             /\ ~\E r \in Requests : commit_setup(r)
    <2>1. history' = history
      BY <1>4 DEF Next, start, Serve, create_pid_file, write_pid_file, pid_file_exists,
           refuse_start, port_taken, sync_fails, close_listener, returned, release, interrupted,
           reuse_pid, begin_stop, Stop, found_alive, post_stop, stop_refused, stop_confirmed,
           stop_timeout, Remove, read_pid_record, unreadable, stale, recheck, not_the_one,
           unlink_fails, kill, post_setup, Setup, setup_refused, sync_install_json, answer,
           lose_database, vars
    <2> QED BY <2>1
  <1> QED BY <1>1, <1>2, <1>3, <1>4

LEMMA NextKeepsStop == PidInv /\ StopInv /\ PidInv' /\ [Next]_vars => StopInv'
  <1> SUFFICES ASSUME PidInv, StopInv, PidInv', history.robbed \subseteq history'.robbed, [Next]_vars PROVE StopInv'
    BY RobbedGrows DEF PidInv
  <1>1. CASE \E p \in Processes : start(p) \/ Serve(p) \/ interrupted(p)
    BY <1>1, ServeKeepsStop
  <1>2. CASE \E s \in Stoppers : begin_stop(s) \/ Stop(s)
    BY <1>2, StopKeepsStop
  <1>3. CASE \E a \in Actors : Remove(a)
    BY <1>3, RemoveKeepsStop
  <1>4. CASE \E a \in Actors : kill(a)
    BY <1>4, KillKeepsStop
  <1>5. CASE \E r \in Requests : post_setup(r) \/ Setup(r)
    BY <1>5, SetupKeepsStop
  <1>6. CASE (\E p \in Processes : reuse_pid(p)) \/ lose_database \/ UNCHANGED vars
    BY <1>6, OutsideKeepsStop DEF reuse_pid, lose_database, vars, work
  <1> QED
    BY <1>1, <1>2, <1>3, <1>4, <1>5, <1>6 DEF Next

\* When --stop reports success, no process that served when it began serves any
\* more (stop_service, service.py:463-514), with the same exception.
THEOREM StopAlwaysTrue == Spec => []StopIsTrue
  <1>1. PidInv /\ [Next]_vars => PidInv'
    BY NextKeepsPid
  <1>2. Init => StopInv
    BY DEF Init, StopInv, NoMemory, Actors
  <1>3. StopInv => StopIsTrue
    BY DEF StopInv, StopIsTrue, Gone, Serving, ServingSteps
  <1> QED
    BY <1>1, <1>2, <1>3, InitPid, NextKeepsStop, PTL DEF Spec

-----------------------------------------------------------------------------
(* The first-run setup *)

\* A request is served by a process that runs.
Served(r) == requests[r].at # "idle" =>
                requests[r].proc \in Processes /\ Alive(requests[r].proc)

(***************************************************************************)
(* SetupOnce speaks of a step; what forbids the step is that the mirror    *)
(* remembers the setup when the database does not.  A request is served by *)
(* a process that runs, so that none is left when the database is lost,    *)
(* and a listener that is opened over the loss takes no new one.           *)
(***************************************************************************)
SetupInv ==
    /\ pc \in [Actors -> AllSteps]
    /\ requests \in [Requests -> [at : {"idle", "commit", "mirror", "answer"},
                                  proc : Processes \cup {Nobody}]]
    /\ listener \in Listener
    /\ \A p \in Processes : listener.proc = p => pc[p] = "listen"
    /\ \A r \in Requests : Served(r)
    /\ history.opened => install_json
    /\ history.opened /\ database # "complete" =>
           /\ ~listener.ready
           /\ \A r \in Requests : requests[r].at # "commit"

LEMMA InitSetup == Init => SetupInv
  BY ServiceAssumption
  DEF Init, SetupInv, AllSteps, ProcessSteps, StopperSteps, NoListener, Listener, NoRequest, Mode, Served

\* A step of an actor: its requests end with it, those of others go on.
LEMMA StepKeepsRequests ==
  ASSUME Types, SetupInv, NEW a \in Actors, NEW from, NEW to \in AllSteps \ {"new"}, NEW memory,
         Step(a, from, to, memory)
  PROVE  /\ pc[a] = from /\ pc' \in [Actors -> AllSteps] /\ pc' = [pc EXCEPT ![a] = to]
         /\ requests' \in [Requests -> [at : {"idle", "commit", "mirror", "answer"},
                                       proc : Processes \cup {Nobody}]]
         /\ \A r \in Requests : requests'[r].at \in {requests[r].at, "idle"}
         /\ \A r \in Requests : Served(r)'
  <1>1. /\ pc[a] = from /\ pc' \in [Actors -> AllSteps]
        /\ \A b \in Actors : pc'[b] = IF b = a THEN to ELSE pc[b]
    BY DEF SetupInv, Step
  <1>2. /\ requests' \in [Requests -> [at : {"idle", "commit", "mirror", "answer"},
                                      proc : Processes \cup {Nobody}]]
        /\ \A r \in Requests : \/ requests'[r] = NoRequest
                               \/ /\ requests'[r] = requests[r]
                                  /\ requests[r].proc = a => to # Ended(a)
    BY DEF SetupInv, Step, NoRequest
  <1>3. ASSUME NEW r \in Requests, requests'[r].at # "idle"
        PROVE  Served(r)'
    <2>1. requests'[r] = requests[r] /\ (requests[r].proc = a => to # Ended(a))
      BY <1>2, <1>3 DEF NoRequest
    <2>2. requests[r].proc \in Processes /\ Alive(requests[r].proc)
      BY <1>3, <2>1 DEF SetupInv, Served
    <2>3. requests[r].proc = a => to # "dead"
      BY <2>1, <2>2 DEF Ended
    <2>4. pc'[requests[r].proc] \notin {"new", "dead"}
      BY <1>1, <2>2, <2>3 DEF Alive, Actors
    <2> QED BY <2>1, <2>2, <2>4 DEF Alive, Served
  <1>4. \A r \in Requests : Served(r)'
    BY <1>3 DEF Served
  <1> QED BY <1>1, <1>2, <1>4 DEF Step, NoRequest

\* A step that leaves the database and the mirror alone and opens no listener.
LEMMA StepKeepsSetup ==
  ASSUME Types, SetupInv, NEW a \in Actors, NEW from, NEW to \in AllSteps \ {"new"}, NEW memory,
         Step(a, from, to, memory), UNCHANGED <<database, install_json>>,
         history'.opened = history.opened,
         \/ listener' = NoListener
         \/ listener' = listener /\ (from = "listen" => listener.proc # a)
  PROVE  SetupInv'
  <1>1. /\ pc[a] = from /\ pc' \in [Actors -> AllSteps] /\ pc' = [pc EXCEPT ![a] = to]
        /\ requests' \in [Requests -> [at : {"idle", "commit", "mirror", "answer"},
                                       proc : Processes \cup {Nobody}]]
        /\ \A r \in Requests : requests'[r].at \in {requests[r].at, "idle"}
        /\ \A r \in Requests : Served(r)'
    BY StepKeepsRequests
  <1>2. listener' \in Listener /\ \A p \in Processes : listener'.proc = p => pc'[p] = "listen"
    BY <1>1, ServiceAssumption DEF SetupInv, NoListener, Listener
  <1>3. history'.opened /\ database' # "complete" =>
          ~listener'.ready /\ \A r \in Requests : requests'[r].at # "commit"
    BY <1>1 DEF SetupInv, NoListener
  <1> QED BY <1>1, <1>2, <1>3 DEF SetupInv

\* What the listener is opened over: the database and the mirror as they are read.
LEMMA OpenKeepsSetup ==
  ASSUME Types, SetupInv, NEW p \in Processes, open(p) \/ port_taken(p) PROVE SetupInv'
  <1>1. PICK to \in {"listen", "release"}, memory \in {mem[p], [mem[p] EXCEPT !.setup = FALSE]} :
          /\ Step(p, "open", to, memory) /\ prepare_database /\ sync
          /\ \/ to = "listen" /\ open(p)
             \/ UNCHANGED <<listener, history>>
    BY DEF open, port_taken, Goto
  <1>2. p \in Actors /\ {"listen", "release"} \subseteq AllSteps \ {"new"}
    BY DEF Actors, AllSteps, ProcessSteps
  <1>3. /\ pc[p] = "open" /\ pc' \in [Actors -> AllSteps] /\ pc' = [pc EXCEPT ![p] = to]
        /\ requests' \in [Requests -> [at : {"idle", "commit", "mirror", "answer"},
                                       proc : Processes \cup {Nobody}]]
        /\ \A r \in Requests : requests'[r].at \in {requests[r].at, "idle"}
        /\ \A r \in Requests : Served(r)'
    BY <1>1, <1>2, StepKeepsRequests
  <1>4. /\ install_json => install_json'
        /\ database = "complete" => install_json' /\ database' = "complete"
        /\ install_json /\ database # "complete" => database' # "complete"
    BY <1>1 DEF sync, prepare_database, recovery
  <1>5. CASE UNCHANGED <<listener, history>>
    BY <1>2, <1>3, <1>4, <1>5 DEF SetupInv
  <1>6. CASE to = "listen" /\ open(p)
    <2>1. /\ listener = NoListener
          /\ listener' = [proc |-> p, mode |-> determine_bind_host, ready |-> ~recovery]
          /\ history'.opened => history.opened \/ database = "complete"
      BY <1>6 DEF open, determine_bind_host, Types, HistoryRecords
    <2>2. listener' \in Listener
      BY <2>1 DEF Listener, Mode, determine_bind_host, recovery
    <2>3. \A q \in Processes : listener'.proc = q => pc'[q] = "listen"
      BY <1>2, <1>3, <1>6, <2>1
    <2>4. history'.opened => install_json'
      BY <1>4, <2>1 DEF SetupInv
    <2>5. history'.opened /\ database' # "complete" =>
            ~listener'.ready /\ \A r \in Requests : requests'[r].at # "commit"
      BY <1>3, <1>4, <2>1 DEF SetupInv, recovery
    <2> QED BY <1>3, <2>1, <2>2, <2>3, <2>4, <2>5 DEF SetupInv
  <1> QED BY <1>1, <1>5, <1>6

LEMMA ProcessKeepsSetup ==
  ASSUME Types, SetupInv, NEW p \in Processes, start(p) \/ Serve(p) \/ interrupted(p)
  PROVE  SetupInv'
  <1>1. /\ p \in Actors
        /\ {"claim", "write", "open", "read", "dead", "release", "returned", "recheck"} \subseteq
             AllSteps \ {"new"}
    BY DEF Actors, AllSteps, ProcessSteps
  <1>2. CASE start(p)
    <2>1. Step(p, "new", "claim", mem[p])
      BY <1>2 DEF start, Goto
    <2> QED BY <1>1, <1>2, <2>1, StepKeepsSetup DEF start, files
  <1>3. CASE create_pid_file(p)
    <2>1. Step(p, "claim", "write", mem[p])
      BY <1>3 DEF create_pid_file, Goto
    <2> QED BY <1>1, <1>3, <2>1, StepKeepsSetup DEF create_pid_file, files
  <1>4. CASE write_pid_file(p)
    <2>1. Step(p, "write", "open", mem[p])
      BY <1>4 DEF write_pid_file, Goto
    <2> QED BY <1>1, <1>4, <2>1, StepKeepsSetup DEF write_pid_file, files
  <1>5. CASE pid_file_exists(p)
    <2>1. Step(p, "claim", "read", mem[p])
      BY <1>5 DEF pid_file_exists, Goto
    <2> QED BY <1>1, <1>5, <2>1, StepKeepsSetup DEF pid_file_exists, files
  <1>6. CASE refuse_start(p)
    <2>1. Step(p, "inspect", "dead", mem[p])
      BY <1>6 DEF refuse_start, Goto
    <2> QED BY <1>1, <1>6, <2>1, StepKeepsSetup DEF refuse_start, files
  <1>7. CASE sync_fails(p)
    <2>1. Step(p, "open", "release", mem[p])
      BY <1>7 DEF sync_fails, Goto
    <2> QED BY <1>1, <1>7, <2>1, StepKeepsSetup DEF sync_fails, files
  <1>8. CASE close_listener(p)
    <2>1. Step(p, "listen", "returned", mem[p])
      BY <1>8 DEF close_listener, Goto
    <2> QED BY <1>1, <1>8, <2>1, StepKeepsSetup DEF close_listener, files
  <1>9. CASE returned(p)
    <2>1. PICK to \in {"open", "release"} : Step(p, "returned", to, mem[p])
      BY <1>9 DEF returned, Goto
    <2> QED BY <1>1, <1>9, <2>1, StepKeepsSetup DEF returned, files
  <1>10. CASE release(p)
    <2>1. Step(p, "release", "recheck", [mem[p] EXCEPT !.found = p])
      BY <1>10 DEF release, Goto
    <2> QED BY <1>1, <1>10, <2>1, StepKeepsSetup DEF release, files
  <1>11. CASE interrupted(p)
    <2>1. Step(p, "listen", "release", mem[p])
      BY <1>11 DEF interrupted, Goto
    <2> QED BY <1>1, <1>11, <2>1, StepKeepsSetup DEF interrupted, files
  <1>12. CASE open(p) \/ port_taken(p)
    BY <1>12, OpenKeepsSetup
  <1> QED BY <1>2, <1>3, <1>4, <1>5, <1>6, <1>7, <1>8, <1>9, <1>10, <1>11, <1>12 DEF Serve

LEMMA RemoveKeepsSetup ==
  ASSUME Types, SetupInv, NEW a \in Actors, Remove(a) \/ kill(a) PROVE SetupInv'
  <1>1. {"inspect", "recheck", "unlink", "stopped", "claim", "dead", "failed"} \subseteq
          AllSteps \ {"new"}
    BY DEF AllSteps, ProcessSteps, StopperSteps
  <1>2. CASE read_pid_record(a)
    <2>1. Step(a, "read", "inspect", [mem[a] EXCEPT !.found = pid_file.owner])
      BY <1>2 DEF read_pid_record, Goto
    <2> QED BY <1>1, <1>2, <2>1, StepKeepsSetup DEF read_pid_record, files
  <1>3. CASE unreadable(a)
    <2>1. PICK to \in {"stopped", "dead", "failed"} : Step(a, "read", to, mem[a])
      BY <1>3, EndedSteps DEF unreadable, Goto
    <2> QED BY <1>1, <1>3, <2>1, StepKeepsSetup DEF unreadable, files
  <1>4. CASE stale(a)
    <2>1. Step(a, "inspect", "recheck", mem[a])
      BY <1>4 DEF stale, Goto
    <2> QED BY <1>1, <1>4, <2>1, StepKeepsSetup DEF stale, files
  <1>5. CASE recheck(a)
    <2>1. Step(a, "recheck", "unlink", Compared(a))
      BY <1>5 DEF recheck
    <2> QED BY <1>1, <1>5, <2>1, StepKeepsSetup DEF recheck, files
  <1>6. CASE not_the_one(a)
    <2>1. PICK to \in {"dead", "failed"} : Step(a, "recheck", to, mem[a])
      BY <1>6, EndedSteps DEF not_the_one, Goto
    <2> QED BY <1>1, <1>6, <2>1, StepKeepsSetup DEF not_the_one, files
  <1>7. CASE unlink(a)
    <2> DEFINE memory == [mem[a] EXCEPT !.found = Nobody, !.compared = Nobody, !.attempt = 2]
    <2>1. PICK to \in {"stopped", "claim", "dead"} : Step(a, "unlink", to, memory)
      BY <1>7 DEF unlink, Removed, Actors
    <2>2. history'.opened = history.opened
      BY <1>7 DEF unlink, Types, HistoryRecords
    <2>3. UNCHANGED <<database, install_json, listener>>
      BY <1>7 DEF unlink
    <2>4. pc[a] = "unlink"
      BY <2>1 DEF Step
    <2> HIDE DEF memory
    <2> QED BY <1>1, <2>1, <2>2, <2>3, <2>4, StepKeepsSetup
  <1>8. CASE unlink_fails(a)
    <2>1. PICK to \in {"dead", "failed"} : Step(a, "unlink", to, mem[a])
      BY <1>8, EndedSteps DEF unlink_fails, Goto
    <2> QED BY <1>1, <1>8, <2>1, StepKeepsSetup DEF unlink_fails, files
  <1>9. CASE kill(a)
    <2>1. PICK to \in {"dead", "failed"} : Step(a, pc[a], to, mem[a])
      BY <1>9, EndedSteps DEF kill, Goto
    <2> QED BY <1>1, <1>9, <2>1, StepKeepsSetup DEF kill, files
  <1> QED BY <1>2, <1>3, <1>4, <1>5, <1>6, <1>7, <1>8, <1>9 DEF Remove

LEMMA StopKeepsSetup ==
  ASSUME Types, SetupInv, NEW s \in Stoppers, begin_stop(s) \/ Stop(s) PROVE SetupInv'
  <1>1. s \in Actors /\ {"read", "post", "wait", "stopped", "failed"} \subseteq AllSteps \ {"new"}
    BY DEF Actors, AllSteps, StopperSteps
  <1>2. CASE begin_stop(s)
    <2> DEFINE memory == [NoMemory EXCEPT !.before = Serving]
    <2>1. PICK from \in {"new", "stopped", "failed"} : Step(s, from, "read", memory)
      BY <1>2 DEF begin_stop
    <2> HIDE DEF memory
    <2> QED BY <1>1, <1>2, <2>1, StepKeepsSetup DEF begin_stop, files
  <1>3. CASE found_alive(s)
    <2>1. Step(s, "inspect", "post", mem[s])
      BY <1>3 DEF found_alive, Goto
    <2> QED BY <1>1, <1>3, <2>1, StepKeepsSetup DEF found_alive, files
  <1>4. CASE stop_refused(s)
    <2>1. Step(s, "post", "failed", mem[s])
      BY <1>4 DEF stop_refused, Goto
    <2> QED BY <1>1, <1>4, <2>1, StepKeepsSetup DEF stop_refused, files
  <1>5. CASE stop_confirmed(s)
    <2>1. Step(s, "wait", "stopped", mem[s])
      BY <1>5 DEF stop_confirmed, Goto
    <2> QED BY <1>1, <1>5, <2>1, StepKeepsSetup DEF stop_confirmed, files
  <1>6. CASE stop_timeout(s)
    <2>1. Step(s, "wait", "failed", mem[s])
      BY <1>6 DEF stop_timeout, Goto
    <2> QED BY <1>1, <1>6, <2>1, StepKeepsSetup DEF stop_timeout, files
  <1>7. CASE post_stop(s)
    <2>1. /\ pc' = [pc EXCEPT ![s] = "wait"] /\ s \notin Processes
          /\ UNCHANGED <<requests, database, install_json, history, listener>>
      BY <1>7, ServiceAssumption DEF post_stop, files
    <2>2. pc' \in [Actors -> AllSteps] /\ \A p \in Processes : pc'[p] = pc[p]
      BY <1>1, <2>1 DEF SetupInv, Actors
    <2> QED BY <2>1, <2>2 DEF SetupInv, Served, Alive
  <1> QED BY <1>2, <1>3, <1>4, <1>5, <1>6, <1>7 DEF Stop

LEMMA RequestKeepsSetup ==
  ASSUME Types, SetupInv, NEW r \in Requests, post_setup(r) \/ Setup(r) PROVE SetupInv'
  <1>1. /\ UNCHANGED <<listener, pc>> /\ (install_json => install_json')
        /\ history'.opened = history.opened
    <2>1. history' = history \/ history' = [history EXCEPT !.founders = @ + 1]
      BY DEF post_setup, Setup, commit_setup, setup_refused, sync_install_json, answer
    <2>2. history'.opened = history.opened
      BY <2>1 DEF Types, HistoryRecords
    <2>3. UNCHANGED <<listener, pc>>
      BY DEF post_setup, Setup, commit_setup, setup_refused, sync_install_json, answer, files
    <2>4. install_json => install_json'
      BY DEF post_setup, Setup, commit_setup, setup_refused, sync_install_json, answer, files
    <2> QED BY <2>2, <2>3, <2>4
  <1>2. \/ UNCHANGED database
        \/ database' = "complete"
    BY DEF post_setup, Setup, commit_setup, setup_refused, sync_install_json, answer, files
  <1>3. PICK to \in {"idle", "commit", "mirror", "answer"}, proc \in Processes \cup {Nobody} :
          /\ requests' = [requests EXCEPT ![r] = [at |-> to, proc |-> proc]]
          /\ to # "idle" => proc \in Processes /\ Alive(proc)
          /\ to = "commit" => listener.ready
    <2>1. CASE post_setup(r)
      BY <2>1, ServiceAssumption DEF post_setup, At, SetupInv, Listener, Alive, NoListener
    <2>2. CASE Setup(r)
      BY <2>2, ServiceAssumption
      DEF Setup, commit_setup, setup_refused, sync_install_json, answer, At, SetupInv, Served
    <2> QED BY <2>1, <2>2
  <1>4. /\ requests' \in [Requests -> [at : {"idle", "commit", "mirror", "answer"},
                                      proc : Processes \cup {Nobody}]]
        /\ \A q \in Requests : requests'[q] = requests[q] \/ requests'[q] = [at |-> to, proc |-> proc]
    BY <1>3 DEF SetupInv
  <1>5. \A q \in Requests : Served(q)'
    BY <1>1, <1>3, <1>4 DEF SetupInv, Served, Alive
  <1> QED BY <1>1, <1>2, <1>3, <1>4, <1>5 DEF SetupInv

LEMMA NextKeepsSetup == Types /\ SetupInv /\ [Next]_vars => SetupInv'
  <1> SUFFICES ASSUME Types, SetupInv, [Next]_vars PROVE SetupInv'
    OBVIOUS
  <1>1. CASE \E p \in Processes : start(p) \/ Serve(p) \/ interrupted(p)
    BY <1>1, ProcessKeepsSetup
  <1>2. CASE \E s \in Stoppers : begin_stop(s) \/ Stop(s)
    BY <1>2, StopKeepsSetup
  <1>3. CASE \E a \in Actors : Remove(a) \/ kill(a)
    BY <1>3, RemoveKeepsSetup
  <1>4. CASE \E r \in Requests : post_setup(r) \/ Setup(r)
    BY <1>4, RequestKeepsSetup
  <1>5. CASE lose_database
    <2>1. UNCHANGED <<install_json, listener, pc, requests, history>>
      BY <1>5 DEF lose_database, work
    <2>2. \A p \in Processes : ~Alive(p)
      BY <1>5 DEF lose_database
    <2>3. listener = NoListener /\ \A r \in Requests : requests[r].at = "idle"
      BY <2>2 DEF SetupInv, Served, Listener, Alive
    <2> QED BY <2>1, <2>3 DEF SetupInv, Served, NoListener, Alive
  <1>6. CASE (\E p \in Processes : reuse_pid(p)) \/ UNCHANGED vars
    BY <1>6 DEF reuse_pid, vars, files, work, SetupInv, Served, Alive
  <1> QED BY <1>1, <1>2, <1>3, <1>4, <1>5, <1>6 DEF Next

\* Once the network has been served no setup is committed any more (complete_setup,
\* prepare_database, sync_install_json): a second founder is impossible after a
\* lost or an old database, and with a request that was cut anywhere.
THEOREM SetupAlwaysOnce == Spec => SetupOnce
  <1>1. Types /\ SetupInv /\ [Next]_vars =>
          [history.opened => history'.founders = history.founders]_vars
    <2> SUFFICES ASSUME Types, SetupInv, Next, history.opened
                 PROVE  history'.founders = history.founders
      OBVIOUS
    <2>1. ASSUME NEW r \in Requests, commit_setup(r)  PROVE FALSE
      BY <2>1 DEF commit_setup, At, SetupInv
    <2>2. CASE \E p \in Processes : open(p)
      BY <2>2 DEF open, Types, HistoryRecords
    <2>4. CASE \E a \in Actors : unlink(a)
      BY <2>4 DEF unlink, Types, HistoryRecords
    <2>3. CASE ~(\E a \in Actors : unlink(a)) /\ ~\E p \in Processes : open(p)
      <3>1. history' = history
        BY <2>1, <2>3 DEF Next, start, Serve, create_pid_file, write_pid_file, pid_file_exists,
             refuse_start, port_taken, sync_fails, close_listener, returned, release, interrupted,
             reuse_pid, begin_stop, Stop, found_alive, post_stop, stop_refused, stop_confirmed,
             stop_timeout, Remove, read_pid_record, unreadable, stale, recheck, not_the_one,
             unlink_fails, kill, post_setup, Setup, setup_refused, sync_install_json, answer,
             lose_database
      <3> QED BY <3>1
    <2> QED BY <2>2, <2>3, <2>4
  <1>2. PidInv /\ [Next]_vars => PidInv'
    BY NextKeepsPid
  <1>3. PidInv => Types
    BY DEF PidInv
  <1> QED BY <1>1, <1>2, <1>3, InitPid, InitSetup, NextKeepsSetup, PTL DEF Spec, SetupOnce
=============================================================================
