----------------------------- MODULE ActorDispatch -----------------------------
(***************************************************************************)
(* One role of a run given to its configured actor: codex.py with the      *)
(* adapters it calls, and bootstrap.py's artifacts.                        *)
(*                                                                         *)
(* For every dispatch the host writes the canonical policy to an artifact  *)
(* in the repository and an owner record to a directory of its own.  The   *)
(* record says which host dispatched, and how far the provider is that may *)
(* read the artifact from its path.  The dispatch removes both when it     *)
(* ends; what a dead host left is removed by the next run of the           *)
(* repository, which holds the repository lock.  Runs of one repository    *)
(* follow each other, but a host that has released the lock may live on,   *)
(* and a provider survives the host that died.                             *)
(*                                                                         *)
(* A provider stands for the process whose id is recorded; what that       *)
(* process starts itself is not distinguished from it.                     *)
(***************************************************************************)
EXTENDS Naturals, FiniteSets

CONSTANTS
  Runs,      \* runs of one repository; each dispatches one role, to one artifact
  NoRecord,  \* no owner record
  Settings   \* the settings histories are drawn from

Backends == {"app_server", "windows", "antigravity", "api", "claude_code"}

(* The roles a backend may be given.                                       *)
Roles == [app_server  |-> {"architect", "executor", "reviewer"},
          windows     |-> {"architect", "reviewer"},
          antigravity |-> {"executor"},
          api         |-> {"reviewer"},
          claude_code |-> {"reviewer"}]

ASSUME DispatchAssumption ==
  \A s \in Settings :
    /\ s.role \in {"architect", "executor", "reviewer"}
    /\ s.actor \in Backends             \* backend of the configured actor
    /\ s.spare \in Backends \cup {"none"}\* and of the first fallback candidate
    /\ s.faults \in BOOLEAN             \* may host files not be written?

VARIABLES
  setting,   \* of this history; it never changes
  host,      \* the process of each run
  provider,  \* the process of each of its attempts
  artifact,  \* is the artifact of the run in the repository?
  owner,     \* its owner record
  at,        \* what the run does next
  attempt,   \* 1: the configured actor, 2: the fallback
  ended,     \* how each attempt ended
  told,      \* what the dispatch gave its caller
  todo,      \* artifacts reconciliation has not looked at
  file,      \* the artifact it, or the cleanup, is looking at
  seen       \* that artifact's owner record as it was read

vars == <<setting, host, provider, artifact, owner, at, attempt, ended, told, todo, file, seen>>

Attempts == 1..2
Processes == {"none", "alive", "gone", "reused"}  \* reused: the id is a stranger's now
Steps == {"waiting", "reconcile", "check", "remove", "forget", "create", "record", "start",
          "dispatch", "report", "turn", "settle", "judge", "look", "weigh", "unlink", "unrecord",
          "done", "released"}
Outcomes == {"none", "success", "late", "failed", "unavailable", "malformed", "timeout",
             "refused", "canceled", "invalid"}
Records == [state : {"not_started", "starting", "running", "exited"}, attempt : 0..2]
ASSUME NoRecordAssumption == NoRecord \notin Records

(* The backend that has an attempt.                                        *)
Backend(k) == IF k = 1 THEN setting.actor ELSE setting.spare

(* What a provider lets be seen of a turn: a result, a blank one, an error *)
(* (one that tells it is unavailable, too), something unreadable, the end  *)
(* of its output, or nothing for as long as the host waits.                *)
Said == {"result", "blank", "error", "unavailable", "garbage", "closed", "silence"}

(* The end each adapter makes of it, and of whether its process exits in   *)
(* time and cleanly.                                                       *)
AntigravityTurn(said, clean) ==
  CASE said = "silence" -> "timeout"
    [] said \in {"blank", "garbage", "closed"} -> "malformed"
    [] said \in {"error", "unavailable"} -> "failed"
    [] OTHER -> IF clean THEN "success" ELSE "late"

ClaudeTurn(said, clean) ==
  CASE said = "silence" -> "timeout"
    [] said = "unavailable" -> "unavailable"
    [] said = "error" \/ ~clean -> "failed"
    [] said = "result" -> "success"
    [] OTHER -> "malformed"

(* The API's answer may be blank, and of an error status nothing but its   *)
(* number is told.  A connection that breaks is known by the text of the   *)
(* error, an answer that breaks off only as something unreadable.          *)
ApiTurn(said, clean) ==
  CASE said \in {"result", "blank"} -> "success"
    [] said = "silence" \/ (said = "closed" /\ clean) -> "unavailable"
    [] OTHER -> "failed"

AppServerTurn(said) == IF said = "result" THEN "success" ELSE "failed"

TerminalTurn(said) == IF said \in {"result", "blank", "garbage"} THEN "success" ELSE "failed"

End(b, said, clean) ==
  CASE b = "antigravity" -> AntigravityTurn(said, clean)
    [] b = "claude_code" -> ClaudeTurn(said, clean)
    [] b = "api" -> ApiTurn(said, clean)
    [] b = "app_server" -> AppServerTurn(said)
    [] b = "windows" -> TerminalTurn(said)

(* How a dispatch ends that has no process: Claude Code's executable,      *)
(* login and model are verified first, the others find no workspace, no    *)
(* task or no executable.                                                  *)
ClaudeEarly == {"failed", "unavailable"}
AntigravityEarly == {"failed"}

EndsEarly(b) ==
  CASE b = "claude_code" -> ClaudeEarly
    [] b = "antigravity" -> AntigravityEarly
    [] b = "api" -> {}
    [] OTHER -> {"failed"}

(* Is a failure taken for the actor not being available?  "refused": its   *)
(* text tells of a policy or a permission.  "canceled": Ctrl-C stopped     *)
(* Antigravity or the API.  "late": Antigravity told its result but did    *)
(* not exit in time.  What a user attached to a terminal aborts is a       *)
(* failed turn like others.                                                *)
Availability(b, e) ==
  CASE e \in {"success", "invalid", "refused", "canceled"} -> FALSE
    [] e \in {"unavailable", "malformed", "timeout", "late"} -> TRUE
    [] OTHER -> b \in {"app_server", "windows", "antigravity"}

(* Only this adapter hands the actor the path of the artifact; the others  *)
(* put its text into the prompt.                                           *)
ReadsFile(b) == b = "claude_code"

(* Mutant: the pool keeps an App Server whatever became of its turn.       *)
StaysPooled(b, e) == b \in {"windows", "app_server"}

(* Does the process stay when a turn ends so?  A pooled App Server is      *)
(* discarded after a failure, a terminal host never.                       *)
Stays(b, e) == b = "windows" \/ (b = "app_server" /\ e = "success")

(* What is known of a process: it is up, or its id is somebody else's.     *)
Active(p) == p \in {"alive", "reused"}

(* Mutant: a provider counts only once its process was recorded.           *)
InUseOnceRunning(d, r) == r.state = "running" /\ Active(provider[d][r.attempt])

(* May the provider a record tells of still read the artifact?             *)
InUse(d, r) ==
  \/ r.state = "starting"
  \/ r.state = "running" /\ Active(provider[d][r.attempt])

Init ==
  /\ setting \in Settings
  /\ host = [r \in Runs |-> "none"]
  /\ provider = [r \in Runs |-> [k \in Attempts |-> "none"]]
  /\ artifact = [r \in Runs |-> FALSE]
  /\ owner = [r \in Runs |-> NoRecord]
  /\ at = [r \in Runs |-> "waiting"]
  /\ attempt = [r \in Runs |-> 1]
  /\ ended = [r \in Runs |-> [k \in Attempts |-> "none"]]
  /\ told = [r \in Runs |-> "none"]
  /\ todo = [r \in Runs |-> {}]
  /\ file = [r \in Runs |-> r]
  /\ seen = [r \in Runs |-> NoRecord]

(* The host of r is up and about to do step a.                             *)
At(r, a) == at[r] = a /\ host[r] = "alive"
Go(r, a) == at' = [at EXCEPT ![r] = a]
Tell(r, what) == told' = [told EXCEPT ![r] = what]

unchangedRun == <<setting, host, attempt, ended, told>>
unchangedFiles == <<artifact, owner>>
unchangedScan == <<todo, file, seen>>

-------------------------------------------------------------------------------
(* Reconciliation at the start of a run.                                   *)

(* A run begins when it has the repository lock: no other run that holds   *)
(* it is up.                                                               *)
Begin(r) ==
  /\ at[r] = "waiting"
  /\ \A q \in Runs : host[q] = "alive" => at[q] = "released"
  /\ host' = [host EXCEPT ![r] = "alive"]
  /\ todo' = [todo EXCEPT ![r] = {d \in Runs : artifact[d]}]
  /\ Go(r, "reconcile")
  /\ UNCHANGED <<setting, provider, artifact, owner, attempt, ended, told, file, seen>>

(* Whatever the text of an artifact looks like, without a record nothing   *)
(* proves whose it is.                                                     *)
Unproven(d) == owner[d] = NoRecord

(* The next artifact and its record.                                       *)
Read(r) ==
  /\ At(r, "reconcile")
  /\ \E d \in todo[r] :
       /\ todo' = [todo EXCEPT ![r] = @ \ {d}]
       /\ file' = [file EXCEPT ![r] = d]
       /\ seen' = [seen EXCEPT ![r] = owner[d]]
       /\ Go(r, IF Unproven(d) THEN "reconcile" ELSE "check")
  /\ UNCHANGED <<unchangedRun, provider, unchangedFiles>>

(* Owner and provider are looked for among the processes after the record  *)
(* was read; whatever may be in use stays.                                 *)
Check(r) ==
  /\ At(r, "check")
  /\ Go(r, IF Active(host[file[r]]) \/ InUse(file[r], seen[r]) THEN "reconcile" ELSE "remove")
  /\ UNCHANGED <<unchangedRun, provider, unchangedFiles, unchangedScan>>

Remove(r) ==
  /\ At(r, "remove")
  /\ artifact' = [artifact EXCEPT ![file[r]] = FALSE]
  /\ Go(r, "forget")
  /\ UNCHANGED <<unchangedRun, provider, owner, unchangedScan>>

Forget(r) ==
  /\ At(r, "forget")
  /\ owner' = IF owner[file[r]] = seen[r] THEN [owner EXCEPT ![file[r]] = NoRecord] ELSE owner
  /\ Go(r, "reconcile")
  /\ UNCHANGED <<unchangedRun, provider, artifact, unchangedScan>>

Reconciled(r) ==
  /\ At(r, "reconcile") /\ todo[r] = {}
  /\ file' = [file EXCEPT ![r] = r]
  /\ Go(r, "create")
  /\ UNCHANGED <<unchangedRun, provider, unchangedFiles, todo, seen>>

-------------------------------------------------------------------------------
(* The bootstrap artifact and its record.                                  *)

Create(r) ==
  /\ At(r, "create")
  /\ artifact' = [artifact EXCEPT ![r] = TRUE]
  /\ Go(r, "record")
  /\ UNCHANGED <<unchangedRun, provider, owner, unchangedScan>>

Record(r) ==
  /\ At(r, "record")
  /\ owner' = [owner EXCEPT ![r] = [state |-> "not_started", attempt |-> 0]]
  /\ Go(r, "start")
  /\ UNCHANGED <<unchangedRun, provider, artifact, unchangedScan>>

(* The artifact, or its record, cannot be written.                         *)
CreateFails(r) ==
  /\ setting.faults
  /\ At(r, "create") \/ At(r, "record")
  /\ artifact' = [artifact EXCEPT ![r] = FALSE]
  /\ Tell(r, "raised")
  /\ Go(r, "done")
  /\ UNCHANGED <<setting, host, attempt, ended, provider, owner, unchangedScan>>

-------------------------------------------------------------------------------
(* The attempts.                                                           *)

(* The record's provider state, rewritten as a whole.                      *)
Update(r, state) ==
  owner' = [owner EXCEPT ![r] = [state |-> state, attempt |-> IF state = "running" THEN attempt[r] ELSE 0]]

Start(r) ==
  /\ At(r, "start")
  /\ Update(r, "starting")
  /\ Go(r, "dispatch")
  /\ UNCHANGED <<unchangedRun, provider, artifact, unchangedScan>>

(* A provider process, or the request to an API.                           *)
Launch(r) ==
  /\ At(r, "dispatch")
  /\ IF Backend(attempt[r]) = "api"
     THEN Go(r, "turn") /\ UNCHANGED provider
     ELSE Go(r, "report") /\ provider' = [provider EXCEPT ![r][attempt[r]] = "alive"]
  /\ UNCHANGED <<unchangedRun, unchangedFiles, unchangedScan>>

(* The adapter fails before it has a process.                              *)
LaunchFails(r) ==
  /\ At(r, "dispatch")
  /\ \E e \in EndsEarly(Backend(attempt[r])) : ended' = [ended EXCEPT ![r][attempt[r]] = e]
  /\ Go(r, "settle")
  /\ UNCHANGED <<setting, host, attempt, told, provider, unchangedFiles, unchangedScan>>

(* The adapter reports the process id, which goes to the record.           *)
Report(r) ==
  /\ At(r, "report")
  /\ Update(r, "running")
  /\ Go(r, "turn")
  /\ UNCHANGED <<unchangedRun, provider, artifact, unchangedScan>>

(* How a host leaves the process of an adapter it gives up.                *)
Abandoned(r) ==
  provider' = [provider EXCEPT ![r][attempt[r]] =
                 IF @ = "alive" /\ Backend(attempt[r]) # "windows" THEN "gone" ELSE @]

(* It cannot be recorded: the process is stopped.  To an App Server and a  *)
(* terminal an operating system error is a failure of the turn; a record   *)
(* that is missing or unreadable is another error, and passes through, as  *)
(* both do from the others.                                                *)
ReportFails(r) ==
  /\ setting.faults
  /\ At(r, "report")
  /\ Abandoned(r)
  /\ \/ Tell(r, "raised") /\ Go(r, "look") /\ UNCHANGED ended
     \/ /\ Backend(attempt[r]) \in {"app_server", "windows"}
        /\ ended' = [ended EXCEPT ![r][attempt[r]] = "failed"]
        /\ Go(r, "settle") /\ UNCHANGED told
  /\ UNCHANGED <<setting, host, attempt, unchangedFiles, unchangedScan>>

(* The turn ends.  The text of a failure may tell of a policy.             *)
Turn(r) ==
  /\ At(r, "turn")
  /\ \E said \in Said, clean, policy \in BOOLEAN :
       LET b == Backend(attempt[r])
           e == End(b, said, clean)
       IN /\ ended' = [ended EXCEPT ![r][attempt[r]] =
                         IF policy /\ e # "success" /\ b # "api" THEN "refused" ELSE e]
          /\ provider' = [provider EXCEPT ![r][attempt[r]] =
                            IF @ = "alive" /\ ~Stays(b, e) THEN "gone" ELSE @]
  /\ Go(r, "settle")
  /\ UNCHANGED <<setting, host, attempt, told, unchangedFiles, unchangedScan>>

(* Something else is raised on the way to the process, as by the           *)
(* provisioning of repository trust, or by the API's connection, of whose  *)
(* errors its adapter knows only some.                                     *)
Raise(r) ==
  /\ \/ setting.faults /\ At(r, "dispatch")
     \/ At(r, "turn") /\ Backend(attempt[r]) = "api"
  /\ Tell(r, "raised")
  /\ Go(r, "look")
  /\ UNCHANGED <<setting, host, attempt, ended, provider, unchangedFiles, unchangedScan>>

(* Ctrl-C.  Claude Code's process is killed, unless it was just launched;  *)
(* an App Server whose process is being reported may be discarded, else it *)
(* and a terminal are left as they are.  Antigravity and the API answer it *)
(* with a result.                                                          *)
Interrupt(r) ==
  /\ At(r, "dispatch") \/ At(r, "report") \/ At(r, "turn")
  /\ IF Backend(attempt[r]) \in {"antigravity", "api"} /\ at[r] = "turn"
     THEN /\ ended' = [ended EXCEPT ![r][attempt[r]] = "canceled"]
          /\ Abandoned(r)
          /\ Go(r, "settle") /\ UNCHANGED told
     ELSE /\ Tell(r, "interrupted")
          /\ \/ (Backend(attempt[r]) # "app_server" \/ at[r] = "report") /\ Abandoned(r)
             \/ (Backend(attempt[r]) = "app_server" \/ at[r] # "turn") /\ UNCHANGED provider
          /\ Go(r, "look") /\ UNCHANGED ended
  /\ UNCHANGED <<setting, host, attempt, unchangedFiles, unchangedScan>>

(* Mutant: the end of the turn is recorded only when it succeeded.         *)
SettleSuccess(r) ==
  /\ At(r, "settle")
  /\ IF ended[r][attempt[r]] = "success" THEN Update(r, "exited") ELSE UNCHANGED owner
  /\ Go(r, "judge")
  /\ UNCHANGED <<unchangedRun, provider, artifact, unchangedScan>>

(* However the turn ended, the provider has done with the artifact.        *)
Settle(r) ==
  /\ At(r, "settle")
  /\ Update(r, "exited")
  /\ Go(r, "judge")
  /\ UNCHANGED <<unchangedRun, provider, artifact, unchangedScan>>

(* The record cannot be rewritten: that error passes through.              *)
UpdateFails(r) ==
  /\ setting.faults
  /\ At(r, "settle") \/ At(r, "start")
  /\ Tell(r, "raised")
  /\ Go(r, "look")
  /\ UNCHANGED <<setting, host, attempt, ended, provider, unchangedFiles, unchangedScan>>

(* A success is the result, unless it is a plan that is not valid.         *)
Accept(r) ==
  /\ At(r, "judge") /\ ended[r][attempt[r]] = "success"
  /\ \/ Tell(r, "result") /\ UNCHANGED ended
     \/ /\ setting.role = "architect"
        /\ ended' = [ended EXCEPT ![r][attempt[r]] = "invalid"]
        /\ Tell(r, "failed")
  /\ Go(r, "look")
  /\ UNCHANGED <<setting, host, attempt, provider, unchangedFiles, unchangedScan>>

(* Mutant: a fallback is looked for after every failed attempt.            *)
FallsBackAgain(r) ==
  /\ Availability(Backend(attempt[r]), ended[r][attempt[r]])
  /\ setting.spare # "none" /\ setting.role \in Roles[setting.spare]

(* The configured actor is not available and another may stand in.         *)
FallsBack(r) ==
  /\ attempt[r] = 1
  /\ Availability(Backend(1), ended[r][1])
  /\ setting.spare # "none" /\ setting.role \in Roles[setting.spare]

Fallback(r) ==
  /\ At(r, "judge") /\ ended[r][attempt[r]] # "success"
  /\ FallsBack(r)
  /\ attempt' = [attempt EXCEPT ![r] = attempt[r] + 1]
  /\ Go(r, "start")
  /\ UNCHANGED <<setting, host, ended, told, provider, unchangedFiles, unchangedScan>>

Reject(r) ==
  /\ At(r, "judge") /\ ended[r][attempt[r]] # "success"
  /\ ~FallsBack(r)
  /\ Tell(r, "failed")
  /\ Go(r, "look")
  /\ UNCHANGED <<setting, host, attempt, ended, provider, unchangedFiles, unchangedScan>>

-------------------------------------------------------------------------------
(* The cleanup of a dispatch, whatever it ends with.                       *)

Look(r) ==
  /\ At(r, "look")
  /\ seen' = [seen EXCEPT ![r] = owner[r]]
  /\ Go(r, IF owner[r] = NoRecord THEN "done" ELSE "weigh")
  /\ UNCHANGED <<unchangedRun, provider, unchangedFiles, todo, file>>

Weigh(r) ==
  /\ At(r, "weigh")
  /\ Go(r, IF InUse(r, seen[r]) THEN "done" ELSE "unlink")
  /\ UNCHANGED <<unchangedRun, provider, unchangedFiles, unchangedScan>>

Unlink(r) ==
  /\ At(r, "unlink")
  /\ artifact' = [artifact EXCEPT ![r] = FALSE]
  /\ Go(r, "unrecord")
  /\ UNCHANGED <<unchangedRun, provider, owner, unchangedScan>>

Unrecord(r) ==
  /\ At(r, "unrecord")
  /\ owner' = IF owner[r] = seen[r] THEN [owner EXCEPT ![r] = NoRecord] ELSE owner
  /\ Go(r, "done")
  /\ UNCHANGED <<unchangedRun, provider, artifact, unchangedScan>>

(* The run ends and gives the repository lock back; its host may live on.  *)
Release(r) ==
  /\ At(r, "done")
  /\ Go(r, "released")
  /\ UNCHANGED <<unchangedRun, provider, unchangedFiles, unchangedScan>>

-------------------------------------------------------------------------------
(* Processes end, at any moment, and their ids are given to others.        *)

HostDies(r) ==
  /\ host[r] = "alive"
  /\ host' = [host EXCEPT ![r] = "gone"]
  /\ UNCHANGED <<setting, provider, artifact, owner, at, attempt, ended, told, todo, file, seen>>

ProviderDies(r, k) ==
  /\ provider[r][k] = "alive"
  /\ provider' = [provider EXCEPT ![r][k] = "gone"]
  /\ UNCHANGED <<setting, host, artifact, owner, at, attempt, ended, told, todo, file, seen>>

IdReused(r) ==
  /\ host[r] = "gone"
  /\ host' = [host EXCEPT ![r] = "reused"]
  /\ UNCHANGED <<setting, provider, artifact, owner, at, attempt, ended, told, todo, file, seen>>

StrangerEnds(r) ==
  /\ host[r] = "reused"
  /\ host' = [host EXCEPT ![r] = "gone"]
  /\ UNCHANGED <<setting, provider, artifact, owner, at, attempt, ended, told, todo, file, seen>>

Reconcile(r) == Begin(r) \/ Read(r) \/ Check(r) \/ Remove(r) \/ Forget(r) \/ Reconciled(r)

Dispatch(r) ==
  \/ Create(r) \/ Record(r) \/ CreateFails(r)
  \/ Start(r) \/ Launch(r) \/ LaunchFails(r) \/ Report(r) \/ ReportFails(r)
  \/ Turn(r) \/ Raise(r) \/ Interrupt(r) \/ Settle(r) \/ UpdateFails(r)
  \/ Accept(r) \/ Fallback(r) \/ Reject(r)

Cleanup(r) == Look(r) \/ Weigh(r) \/ Unlink(r) \/ Unrecord(r) \/ Release(r)

Environment(r) ==
  \/ HostDies(r) \/ IdReused(r) \/ StrangerEnds(r)
  \/ \E k \in Attempts : ProviderDies(r, k)

Next == \E r \in Runs : Reconcile(r) \/ Dispatch(r) \/ Cleanup(r) \/ Environment(r)

Spec == Init /\ [][Next]_vars

-------------------------------------------------------------------------------
(* Properties.                                                             *)

(* Every variable keeps its type.                                          *)
TypeOK ==
  /\ setting \in Settings
  /\ host \in [Runs -> Processes]
  /\ provider \in [Runs -> [Attempts -> Processes]]
  /\ artifact \in [Runs -> BOOLEAN]
  /\ owner \in [Runs -> Records \cup {NoRecord}]
  /\ at \in [Runs -> Steps]
  /\ attempt \in [Runs -> Attempts]
  /\ ended \in [Runs -> [Attempts -> Outcomes]]
  /\ told \in [Runs -> {"none", "result", "failed", "raised", "interrupted"}]
  /\ todo \in [Runs -> SUBSET Runs]
  /\ file \in [Runs -> Runs]
  /\ seen \in [Runs -> Records \cup {NoRecord}]

(* An actor that was given the path of its bootstrap artifact finds it     *)
(* there for as long as it lives: no cleanup and no later run removes it,  *)
(* wherever its own host died (bootstrap.py:716 and 1014).                 *)
ReadersKeepTheirFile ==
  \A r \in Runs, k \in Attempts :
    provider[r][k] = "alive" /\ Backend(k) # "none" /\ ReadsFile(Backend(k)) => artifact[r]

(* The actor of an attempt is up and has not given the result.             *)
AtWork(r, k) == provider[r][k] = "alive" /\ ended[r][k] \notin {"success", "invalid"}

(* An actor works on the task only during its own turn.  Whatever ended    *)
(* that, a failure of any kind, a late answer, an error of the host, it    *)
(* does not work on beside the fallback or after its dispatch has reported *)
(* (codex.py:563).  A terminal does, and what Ctrl-C left.                 *)
NobodyLeftAtWork ==
  \A r \in Runs, k \in Attempts : AtWork(r, k) =>
    \/ k = attempt[r] /\ at[r] \in {"report", "turn"}
    \/ Backend(k) = "windows"
    \/ told[r] = "interrupted"

(* A dispatch that gave a result or reported a failure of its actor leaves *)
(* nothing behind, whichever actors it tried (bootstrap.py:716).           *)
SettledLeavesNothing ==
  \A r \in Runs : at[r] \in {"done", "released"} /\ told[r] \in {"result", "failed"} =>
    ~artifact[r] /\ owner[r] = NoRecord
=============================================================================
