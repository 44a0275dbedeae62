---------------------------- MODULE RunRecovery ----------------------------
(***************************************************************************)
(* The records a run keeps on disk (run_state.json and provenance.json of  *)
(* dual_codex/orchestrator.py), written one after the other at every       *)
(* transition, and _recover_interrupted_runs, which finalises the records  *)
(* of runs whose process ended without doing so.                           *)
(*                                                                         *)
(* Runs of one repository exclude each other through the repository lock,  *)
(* used here through its specification ExclusiveUse.  Processes die at any *)
(* point and their pids are reused.                                        *)
(***************************************************************************)
EXTENDS Integers

CONSTANTS
  Runs,       \* calls of execute() for one repository
  Pids,       \* process identifiers
  MaxStarts,  \* bound: incarnations of one pid
  Settings    \* the settings histories are drawn from

ASSUME RecoveryAssumption ==
  /\ MaxStarts \in Nat \ {0}
  /\ Settings \subseteq
       [runs : SUBSET Runs,  \* calls that are made
        phases : Nat,        \* bound: actor turns of one run
        faults : BOOLEAN]    \* may writes, start-time queries and reports fail?

VARIABLES
  setting,       \* of this history; it never changes
  alive, start,  \* processes, by pid, and their start times
  users,         \* holders of the repository lock
  pc,            \* what each run does next
  home, token,   \* pid of the run and "process_start" of its record
  mem,           \* run_state["status"] in memory
  then,          \* where the write under way returns to, and if it must succeed
  phases,        \* actor turns dispatched
  todo, target,  \* run directories still to examine; the one being finalised
  state, prov    \* status in run_state.json and in provenance.json

process == <<setting, alive, start>>
identity == <<home, token>>
recovery == <<todo, target>>
records == <<state, prov>>
vars == <<process, users, pc, identity, mem, then, phases, recovery, records>>

Lock == INSTANCE ExclusiveUse WITH Requests <- Runs

-----------------------------------------------------------------------------
NoToken == 0
Faults == setting.faults
Final == {"completed", "failed", "interrupted", "blocked"}
Status == {"none", "running"} \cup Final

Recovering == {"recover", "fix_state", "fix_prov"}
Working == {"work", "turn", "fail", "report", "write_state", "write_prov", "end"}
Over == {"ended", "dead"}

Goto(r, label) == pc' = [pc EXCEPT ![r] = label]

(* _persist_run_state: run_state.json first, then provenance.json; back to *)
(* label, and a failure is an error only if the write is required.         *)
Persist(r, status, label, required) ==
  /\ mem' = [mem EXCEPT ![r] = status]
  /\ then' = [then EXCEPT ![r] = [label |-> label, required |-> required]]
  /\ Goto(r, "write_state")

Tokens(p) == {start[p]} \cup (IF Faults THEN {NoToken} ELSE {})

(* Mutant: a process with the recorded pid counts as the owner.            *)
OwnerActivePid(r, s) ==
  IF home[r] = home[s] THEN {FALSE} ELSE {alive[home[s]]}

(* Does the owner of s count as active to the process that runs r?  Its    *)
(* own pid never does; a start time that is missing counts as a match.     *)
OwnerActive(r, s) ==
  IF home[r] = home[s] THEN {FALSE}
  ELSE IF ~alive[home[s]] THEN {FALSE} \cup (IF Faults THEN {TRUE} ELSE {})
  ELSE {live = NoToken \/ token[s] \in {NoToken, live} : live \in Tokens(home[s])}

-----------------------------------------------------------------------------
Init ==
  /\ setting \in Settings
  /\ alive = [p \in Pids |-> TRUE]
  /\ start = [p \in Pids |-> 1]
  /\ users = {}
  /\ pc = [r \in Runs |-> "idle"]
  /\ home \in [Runs -> Pids]
  /\ token = [r \in Runs |-> NoToken]
  /\ mem = [r \in Runs |-> "none"]
  /\ then = [r \in Runs |-> [label |-> "end", required |-> FALSE]]
  /\ phases = [r \in Runs |-> 0]
  /\ todo = [r \in Runs |-> {}]
  /\ target = [r \in Runs |-> r]
  /\ state = [r \in Runs |-> "none"]
  /\ prov = [r \in Runs |-> "none"]

(* Mutant: records are recovered before the lock is taken.                 *)
BeginUnlocked(r) ==
  /\ r \in setting.runs /\ pc[r] = "idle"
  /\ alive[home[r]]
  /\ todo' = [todo EXCEPT ![r] = {s \in Runs \ {r} : state[s] # "none"}]
  /\ Goto(r, "recover")
  /\ UNCHANGED <<users, process, identity, mem, then, phases, target, records>>

(* execute(): the lock is taken, the run directories are listed.           *)
Begin(r) ==
  /\ r \in setting.runs /\ pc[r] = "idle"
  /\ alive[home[r]]
  /\ Lock!Enter(r)
  /\ todo' = [todo EXCEPT ![r] = {s \in Runs \ {r} : state[s] # "none"}]
  /\ Goto(r, "recover")
  /\ UNCHANGED <<process, identity, mem, then, phases, target, records>>

(* _recover_interrupted_runs, one directory: skip it or finalise it.       *)
Examine(r) ==
  /\ pc[r] = "recover"
  /\ \E s \in todo[r] :
       /\ todo' = [todo EXCEPT ![r] = @ \ {s}]
       /\ \E active \in OwnerActive(r, s) :
            IF state[s] # "running" \/ active THEN UNCHANGED <<pc, target>>
            ELSE target' = [target EXCEPT ![r] = s] /\ Goto(r, "fix_state")
  /\ UNCHANGED <<process, users, identity, mem, then, phases, records>>

(* The two records are rewritten one by one; errors are swallowed.         *)
FixState(r) ==
  /\ pc[r] = "fix_state"
  /\ \/ /\ state' = [state EXCEPT ![target[r]] = "interrupted"]
        /\ Goto(r, "fix_prov")
     \/ Faults /\ Goto(r, "recover") /\ UNCHANGED state
  /\ UNCHANGED <<process, users, identity, mem, then, phases, recovery, prov>>

FixProvenance(r) ==
  /\ pc[r] = "fix_prov"
  /\ \/ prov' = [prov EXCEPT ![target[r]] = IF @ = "none" THEN @ ELSE "interrupted"]
     \/ Faults /\ UNCHANGED prov
  /\ Goto(r, "recover")
  /\ UNCHANGED <<process, users, identity, mem, then, phases, recovery, state>>

(* The run directory is created and the first record written.              *)
Create(r) ==
  /\ pc[r] = "recover"
  /\ todo[r] = {}
  /\ home' = home
  /\ \E t \in Tokens(home[r]) : token' = [token EXCEPT ![r] = t]
  /\ Persist(r, "running", "work", TRUE)
  /\ UNCHANGED <<process, users, phases, recovery, records>>

WriteState(r) ==
  /\ pc[r] = "write_state"
  /\ state' = [state EXCEPT ![r] = mem[r]]
  /\ Goto(r, "write_prov")
  /\ UNCHANGED <<process, users, identity, mem, then, phases, recovery, prov>>

WriteProvenance(r) ==
  /\ pc[r] = "write_prov"
  /\ prov' = [prov EXCEPT ![r] = mem[r]]
  /\ Goto(r, then[r].label)
  /\ UNCHANGED <<process, users, identity, mem, then, phases, recovery, state>>

(* OSError from either write.                                              *)
WriteFails(r) ==
  /\ Faults
  /\ pc[r] \in {"write_state", "write_prov"}
  /\ Goto(r, IF then[r].required THEN "fail" ELSE then[r].label)
  /\ UNCHANGED <<process, users, identity, mem, then, phases, recovery, records>>

-----------------------------------------------------------------------------
(* _dispatch_phase: the start of a turn must be on record before it runs.  *)
Dispatch(r) ==
  /\ pc[r] = "work"
  /\ phases[r] < setting.phases
  /\ phases' = [phases EXCEPT ![r] = @ + 1]
  /\ Persist(r, "running", "turn", TRUE)
  /\ UNCHANGED <<process, users, identity, recovery, records>>

(* The turn ends; its end is recorded before the run goes on, or before    *)
(* its error is raised.                                                    *)
TurnEnds(r) ==
  /\ pc[r] = "turn"
  /\ \E label \in {"work", "fail"} : Persist(r, "running", label, FALSE)
  /\ UNCHANGED <<process, users, identity, phases, recovery, records>>

(* The handler of _execute_locked: an error or a KeyboardInterrupt.        *)
Fails(r) ==
  /\ pc[r] \in {"work", "turn", "fail", "report"}
  /\ pc[r] = "report" => Faults
  /\ \E status \in {"failed", "interrupted"} : Persist(r, status, "end", FALSE)
  /\ UNCHANGED <<process, users, identity, phases, recovery, records>>

(* require_clean_git and the repository is dirty.                          *)
Block(r) ==
  /\ pc[r] = "work"
  /\ phases[r] = 0
  /\ Persist(r, "blocked", "end", FALSE)
  /\ UNCHANGED <<process, users, identity, phases, recovery, records>>

(* Mutant: the verdict is recorded as the status.                          *)
FinishVerdict(r) ==
  /\ pc[r] = "work"
  /\ phases[r] > 0
  /\ Persist(r, "approved", "report", FALSE)
  /\ UNCHANGED <<process, users, identity, phases, recovery, records>>

Finish(r) ==
  /\ pc[r] = "work"
  /\ phases[r] > 0
  /\ Persist(r, "completed", "report", FALSE)
  /\ UNCHANGED <<process, users, identity, phases, recovery, records>>

Report(r) ==
  /\ pc[r] = "report"
  /\ Goto(r, "end")
  /\ UNCHANGED <<process, users, identity, mem, then, phases, recovery, records>>

(* The "with lock" block ends and the caller gets its result.              *)
End(r) ==
  /\ pc[r] = "end"
  /\ Lock!Leave
  /\ Goto(r, "ended")
  /\ UNCHANGED <<process, identity, mem, then, phases, recovery, records>>

-----------------------------------------------------------------------------
ProcessDies(p) ==
  /\ alive[p]
  /\ alive' = [alive EXCEPT ![p] = FALSE]
  /\ pc' = [r \in Runs |->
              IF home[r] = p /\ pc[r] \in Recovering \cup Working THEN "dead" ELSE pc[r]]
  /\ users' = {r \in users : home[r] # p}
  /\ UNCHANGED <<setting, start, identity, mem, then, phases, recovery, records>>

ProcessStarts(p) ==
  /\ ~alive[p]
  /\ start[p] < MaxStarts
  /\ alive' = [alive EXCEPT ![p] = TRUE]
  /\ start' = [start EXCEPT ![p] = @ + 1]
  /\ UNCHANGED <<setting, users, pc, identity, mem, then, phases, recovery, records>>

Run(r) ==
  \/ Examine(r) \/ FixState(r) \/ FixProvenance(r) \/ Create(r)
  \/ WriteState(r) \/ WriteProvenance(r) \/ WriteFails(r)
  \/ Dispatch(r) \/ TurnEnds(r) \/ Fails(r) \/ Block(r)
  \/ Finish(r) \/ Report(r) \/ End(r)

Next ==
  \/ \E r \in Runs : Begin(r) \/ Run(r)
  \/ \E p \in Pids : ProcessDies(p) \/ ProcessStarts(p)

Spec == Init /\ [][Next]_vars

-----------------------------------------------------------------------------
(* Types of the variables.                                                 *)
TypeOK ==
  /\ setting \in Settings
  /\ alive \in [Pids -> BOOLEAN]
  /\ start \in [Pids -> 1..MaxStarts]
  /\ users \subseteq Runs
  /\ pc \in [Runs -> {"idle"} \cup Recovering \cup Working \cup Over]
  /\ home \in [Runs -> Pids]
  /\ token \in [Runs -> 0..MaxStarts]
  /\ mem \in [Runs -> Status]
  /\ then \in [Runs -> [label : Working, required : BOOLEAN]]
  /\ phases \in [Runs -> Nat]
  /\ todo \in [Runs -> SUBSET Runs]
  /\ target \in [Runs -> Runs]
  /\ state \in [Runs -> Status]
  /\ prov \in [Runs -> Status]

(* The records of a run that is still executing are written by that run    *)
(* alone: no other run takes it for dead, although a run counts every      *)
(* record of its own pid as abandoned.                                     *)
LiveRunNotFinalised ==
  [][\A s \in Runs : pc[s] \in Working =>
       /\ state'[s] # state[s] => pc[s] = "write_state"
       /\ prov'[s] # prov[s] => pc[s] = "write_prov"]_vars

(* Once a run works, every other run_state.json of the repository is       *)
(* final: a reader never finds two runs "running".  And what a run         *)
(* returned stays on record, in both files, whatever later runs recover.   *)
(* (Owners are judged correctly when no query fails; failed writes are     *)
(* swallowed.)                                                             *)
RecordsFinal ==
  ~Faults =>
    /\ \A r, s \in Runs : pc[r] \in Working /\ r # s => state[s] # "running"
    /\ \A r \in Runs : pc[r] = "ended" => state[r] = mem[r] /\ prov[r] = mem[r]

=============================================================================
