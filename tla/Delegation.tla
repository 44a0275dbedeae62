------------------------------ MODULE Delegation ------------------------------
(***************************************************************************)
(* delegate() of dual_codex/delegation.py: requests to an Executor for one *)
(* repository.  A request is validated, takes the repository lock, notes   *)
(* the state of the repository, lets the configured Executor and perhaps   *)
(* its fallback work, judges what they did by their report and by what Git *)
(* says of the worktree, and tells the outcome twice: in the journal and   *)
(* in the result file.                                                     *)
(*                                                                         *)
(* The worktree is a map from paths to the writer whose change there is    *)
(* not committed; Git status names paths only, as the code's does.  Other  *)
(* people may use the repository all the while.  Whoever uses it may undo  *)
(* what was done: restore a file, or go back to another commit.  An        *)
(* Executor that is not stopped when its attempt is given up goes on       *)
(* working.                                                                *)
(***************************************************************************)
EXTENDS Naturals, Sequences

CONSTANTS
  Requests,   \* calls of delegate() for the repository
  Paths,      \* files of the repository
  Someone,    \* whoever else uses the repository
  Clean,      \* no uncommitted change
  MaxHead,    \* bound: commits of a history
  Settings    \* the settings histories are drawn from

Backends == {"app_server", "windows", "exec"}

(* What a report file may hold: nothing, no valid report, a report of work *)
(* not done or of tests that did not pass, of applied changes, of applied  *)
(* changes with tool runs the App Server did not see, or of an explicit    *)
(* read-only validation.                                                   *)
Reports == {"none", "invalid", "declined", "applied", "claimed", "probe"}

ASSUME DelegationAssumption ==
  /\ MaxHead \in Nat
  /\ Settings \subseteq
       [requests : SUBSET Requests,
        executor : Backends,           \* backend of the configured Executor
        spare : Backends \cup {"none"},\* and of the first fallback candidate
        reports : SUBSET Reports,      \* bound: the reports Executors write
        paths : SUBSET Paths,          \* bound: the files they and others change
        allowDirty : BOOLEAN,          \* allow_dirty, or no require_clean_git
        crowd : BOOLEAN,               \* does Someone edit and commit?
        faults : BOOLEAN,              \* may files not be written or Git not be read?
        losses : BOOLEAN,              \* may events not get into the journal?
        stops : BOOLEAN]               \* do users interrupt, or processes die?

ASSUME SentinelAssumption ==
  /\ Someone \notin Requests \X {1, 2}
  /\ Clean \notin (Requests \X {1, 2}) \cup {Someone}

VARIABLES
  setting,       \* of this history; it never changes
  users,         \* holders of the repository lock
  commits, head, \* commits made so far; the one that is checked out
  tree,          \* uncommitted changes
  pc,            \* what each request does next
  attempt,       \* 1: the configured Executor, 2: its fallback
  outcome,       \* how the last attempt ended
  report,        \* the report file of each attempt
  working,       \* attempts whose Executor is at work
  seen, found,   \* the repository before and after, as Git told it
  ended,         \* "completed", "failed" or "cancelled", as delegate() decides
  journal,       \* requests that have opened the journal of their run
  events,        \* run events in the journal
  missed,        \* history: requests whose last event did not get there
  result,        \* the result file
  touched        \* history: who changed the repository since it was first looked at

repository == <<commits, head, tree, touched>>
told == <<journal, events, missed>>
telling == <<told, result>>
judging == <<seen, found, ended>>
actors == <<attempt, outcome, report, working>>
vars == <<setting, users, repository, pc, actors, judging, telling>>

Lock == INSTANCE ExclusiveUse

-----------------------------------------------------------------------------
Attempts == Requests \X {1, 2}
Writers == Attempts \cup {Someone}

Under == {"status", "head", "task", "start", "working", "ended", "publish", "write", "leave"}
Over == {"done", "raised", "dead"}

Nothing == [status |-> {}, head |-> 0, ok |-> FALSE]
NoResult == [status |-> "none", actor |-> 0]

(* CommandResults by return code and class: 0, an availability failure, a  *)
(* missing Executor capability, any other failure.                         *)
Outcomes == {"ok", "unavailable", "capability", "refused"}

Goto(r, label) == pc' = [pc EXCEPT ![r] = label]

Backend(n) == IF n = 1 THEN setting.executor ELSE setting.spare

(* status_porcelain: which paths have changes, not what they are.          *)
Status == {p \in Paths : tree[p] # Clean}

(* _publish_run_event: nothing without a journal, and nobody is told that  *)
(* an event did not get into it.                                           *)
Publish(r, state) ==
  \/ r \notin journal' /\ UNCHANGED <<events, missed>>
  \/ /\ r \in journal'
     /\ \/ events' = [events EXCEPT ![r] = Append(@, state)] /\ missed' = missed \ {r}
        \/ setting.losses /\ missed' = missed \cup {r} /\ UNCHANGED events

(* delegate() is left with a DelegationError, CommandError or OSError; the *)
(* lock is released on the way.                                            *)
Raise(r) ==
  /\ users' = users \ {r}
  /\ Goto(r, "failing")

-----------------------------------------------------------------------------
Init ==
  /\ setting \in Settings
  /\ users = {}
  /\ commits = 0 /\ head = 0 /\ tree \in [Paths -> {Clean, Someone}]
  /\ pc = [r \in Requests |-> "new"]
  /\ attempt = [r \in Requests |-> 1]
  /\ outcome = [r \in Requests |-> "ok"]
  /\ report = [a \in Attempts |-> "none"]
  /\ working = {}
  /\ seen = [r \in Requests |-> Nothing]
  /\ found = [r \in Requests |-> Nothing]
  /\ ended = [r \in Requests |-> "none"]
  /\ journal = {} /\ events = [r \in Requests |-> <<>>] /\ missed = {}
  /\ result = [r \in Requests |-> NoResult]
  /\ touched = [r \in Requests |-> {}]

(* A result and no run.                                                    *)
Decline(r, s) ==
  /\ r \in setting.requests /\ pc[r] = "new"
  /\ result' = [result EXCEPT ![r] = [status |-> s, actor |-> 0]]
  /\ Goto(r, "done")
  /\ UNCHANGED <<setting, users, repository, actors, judging, told>>

(* The request is not valid.                                               *)
Invalid(r) == Decline(r, "invalid_request")

(* The role is not assigned, its backend cannot be an Executor, or         *)
(* Antigravity does not answer.                                            *)
Unavailable(r) == Decline(r, "executor_unavailable")

(* RepositoryLock.__enter__: busy means a failed delegation.               *)
Enter(r) ==
  /\ r \in setting.requests /\ pc[r] = "new"
  /\ IF users = {} THEN Lock!Enter(r) /\ Goto(r, "status") ELSE Raise(r)
  /\ UNCHANGED <<setting, repository, actors, judging, telling>>

(* The first look at Git, the rule about a dirty worktree, the run         *)
(* directory, the journal (best effort) and run/started.                   *)
LookAtStatus(r) ==
  /\ pc[r] = "status"
  /\ \/ /\ Status = {} \/ setting.allowDirty
        /\ seen' = [seen EXCEPT ![r] = [@ EXCEPT !.status = Status]]
        /\ journal' \in {journal, journal \cup {r}}
        /\ Publish(r, "started")
        /\ touched' = [touched EXCEPT ![r] = {}]
        /\ Goto(r, "head")
        /\ UNCHANGED users
     \/ /\ (Status # {} /\ ~setting.allowDirty) \/ setting.faults
        /\ Raise(r)
        /\ UNCHANGED <<seen, told, touched>>
  /\ UNCHANGED <<setting, commits, head, tree, actors, found, ended, result>>

(* request.json and head_revision.                                         *)
LookAtHead(r) ==
  /\ pc[r] = "head"
  /\ \/ /\ seen' = [seen EXCEPT ![r] = [@ EXCEPT !.head = head, !.ok = TRUE]]
        /\ Goto(r, "task")
        /\ UNCHANGED users
     \/ setting.faults /\ Raise(r) /\ UNCHANGED seen
  /\ UNCHANGED <<setting, repository, actors, found, ended, telling>>

(* _write_task_artifact, in a directory outside the repository.            *)
WriteTask(r) ==
  /\ pc[r] = "task"
  /\ \/ Goto(r, "start") /\ UNCHANGED users
     \/ setting.faults /\ Raise(r)
  /\ UNCHANGED <<setting, repository, actors, judging, telling>>

-----------------------------------------------------------------------------
(* Attempts *)

(* _run_executor_once: the attempt's own report file is removed first;     *)
(* run_codex_exec may refuse what the backend cannot do.                   *)
Start(r) ==
  LET a == <<r, attempt[r]>> IN
  /\ pc[r] = "start"
  /\ report' = [report EXCEPT ![a] = "none"]
  /\ \/ /\ working' = working \cup {a}
        /\ Goto(r, "working")
        /\ UNCHANGED users
     \/ setting.faults /\ Raise(r) /\ UNCHANGED working
  /\ UNCHANGED <<setting, repository, attempt, outcome, judging, telling>>

(* Who changes the repository is remembered by every request under way.    *)
Touch(w) ==
  touched' = [r \in Requests |-> IF pc[r] \in Under THEN touched[r] \cup {w} ELSE touched[r]]

Edit(w, p) ==
  /\ tree' = [tree EXCEPT ![p] = w]
  /\ Touch(w)
  /\ UNCHANGED <<setting, users, commits, head, pc, actors, judging, telling>>

(* A file is as the commit has it again: restored, stashed or removed.     *)
Restore(w, p) ==
  /\ tree[p] # Clean
  /\ tree' = [tree EXCEPT ![p] = Clean]
  /\ Touch(w)
  /\ UNCHANGED <<setting, users, commits, head, pc, actors, judging, telling>>

Commit(w) ==
  /\ commits < MaxHead /\ Status # {}
  /\ commits' = commits + 1 /\ head' = commits + 1
  /\ tree' = [p \in Paths |-> Clean]
  /\ Touch(w)
  /\ UNCHANGED <<setting, users, pc, actors, judging, telling>>

(* Another commit is checked out or reset to, with the changes or without. *)
Checkout(w, c) ==
  /\ c # head /\ head' = c
  /\ tree' \in {tree, [p \in Paths |-> Clean]}
  /\ Touch(w)
  /\ UNCHANGED <<setting, users, commits, pc, actors, judging, telling>>

Uses(w) ==
  \/ \E p \in setting.paths : Edit(w, p) \/ Restore(w, p)
  \/ Commit(w) \/ \E c \in 0..commits : Checkout(w, c)

(* Mutant: the process of an attempt that failed is left alone.            *)
LingersAlways(n, out) == {TRUE, FALSE}

(* Is the Executor still at work after the call for it returned?  Child    *)
(* processes are killed and App Servers discarded; a terminal is not       *)
(* stopped when its turn is given up.                                      *)
Lingers(n, out) ==
  IF Backend(n) = "windows" /\ out # "ok" THEN {TRUE, FALSE} ELSE {FALSE}

(* run_codex_exec returns a CommandResult, or raises and is given one.     *)
(* Reports of successful turns are written by the adapters; codex exec     *)
(* writes its own, or none, however it ends.                               *)
TurnEnds(r) ==
  LET a == <<r, attempt[r]>> IN
  /\ pc[r] = "working"
  /\ \E out \in Outcomes, k \in setting.reports : \E linger \in Lingers(attempt[r], out) :
       /\ out = "capability" => Backend(attempt[r]) = "app_server"
       /\ Backend(attempt[r]) # "exec" => (k = "none" <=> out # "ok")
       /\ outcome' = [outcome EXCEPT ![r] = out]
       /\ report' = [report EXCEPT ![a] = k]
       /\ working' = IF linger THEN working ELSE working \ {a}
  /\ Goto(r, "ended")
  /\ UNCHANGED <<setting, users, repository, attempt, judging, telling>>

(* A terminal, an App Server or an orphan whose turn nobody waits for.     *)
Owned(a) == pc[a[1]] = "working" /\ attempt[a[1]] = a[2]

StragglerEnds(a) ==
  /\ a \in working /\ ~Owned(a)
  /\ working' = working \ {a}
  /\ UNCHANGED <<setting, users, repository, pc, attempt, outcome, report, judging, telling>>

(* Mutant: nobody asks whether there is another account.                   *)
FallsBackAnyway(r) == attempt[r] = 1 /\ outcome[r] = "unavailable"

(* Only a failure of availability makes room for another account.          *)
FallsBack(r) ==
  /\ attempt[r] = 1 /\ setting.spare # "none"
  /\ outcome[r] = "unavailable"

Fallback(r) ==
  /\ pc[r] = "ended" /\ FallsBack(r)
  /\ attempt' = [attempt EXCEPT ![r] = 2]
  /\ Goto(r, "start")
  /\ UNCHANGED <<setting, users, repository, outcome, report, working, judging, telling>>

-----------------------------------------------------------------------------
(* Judgement *)

(* _read_report and the logs; then _capture_git, whose failure is an error *)
(* of the report and leaves "unavailable" and no changes.                  *)
Capture(r) ==
  /\ pc[r] = "ended" /\ ~FallsBack(r)
  /\ \/ /\ found' = [found EXCEPT ![r] = [status |-> Status, head |-> head, ok |-> TRUE]]
        /\ Goto(r, "publish")
        /\ UNCHANGED users
     \/ /\ setting.faults
        /\ found' = [found EXCEPT ![r] = [Nothing EXCEPT !.head = seen[r].head]]
        /\ Goto(r, "publish")
        /\ UNCHANGED users
     \/ setting.faults /\ Raise(r) /\ UNCHANGED found
  /\ UNCHANGED <<setting, repository, actors, seen, ended, telling>>

Kind(r) == report[<<r, attempt[r]>>]

(* _app_server_tool_attestation_error                                      *)
Attested(r) == Kind(r) = "claimed" => Backend(attempt[r]) # "app_server"

Unchanged(r) == found[r].ok /\ found[r].status = seen[r].status

(* Mutant: the report alone is believed.                                   *)
CompletedOnTrust(r) ==
  /\ outcome[r] = "ok" /\ Kind(r) \in {"applied", "claimed", "probe"} /\ Attested(r)
  /\ found[r].head = seen[r].head

(* _classify_executor_result, the attestation and the check of HEAD.       *)
Completed(r) ==
  /\ outcome[r] = "ok" /\ Kind(r) \in {"applied", "claimed", "probe"}
  /\ (Kind(r) = "probe" /\ Unchanged(r)) \/ found[r].status # {}
  /\ Attested(r)
  /\ found[r].head = seen[r].head

Judge(r) ==
  LET s == IF Completed(r) THEN "completed" ELSE "failed" IN
  /\ pc[r] = "publish"
  /\ ended' = [ended EXCEPT ![r] = s]
  /\ UNCHANGED journal /\ Publish(r, s)
  /\ Goto(r, "write")
  /\ UNCHANGED <<setting, users, repository, actors, seen, found, result>>

Write(r, s) == result' = [result EXCEPT ![r] = [status |-> s, actor |-> attempt[r]]]

(* The result file, written under the lock.                                *)
WriteResult(r) ==
  /\ pc[r] = "write"
  /\ \/ Write(r, ended[r]) /\ Goto(r, "leave") /\ UNCHANGED users
     \/ setting.faults /\ Raise(r) /\ UNCHANGED result
  /\ UNCHANGED <<setting, repository, actors, judging, told>>

Leave(r) ==
  /\ pc[r] = "leave"
  /\ Lock!Leave
  /\ Goto(r, "done")
  /\ UNCHANGED <<setting, repository, actors, judging, telling>>

-----------------------------------------------------------------------------
(* Exceptions, interruptions, deaths *)

(* Mutant: the result is written, and the event only if that worked.       *)
AnswerSilently(r) ==
  LET s == IF pc[r] = "failing" THEN "failed" ELSE "cancelled" IN
  /\ pc[r] \in {"failing", "cancelling"}
  /\ ended' = [ended EXCEPT ![r] = s]
  /\ Write(r, s)
  /\ Goto(r, "done")
  /\ UNCHANGED <<setting, users, repository, actors, seen, found, told>>

(* The handlers of delegate(), after the lock was released: the event      *)
(* first, then the result, which may fail for good.                        *)
Answer(r) ==
  LET s == IF pc[r] = "failing" THEN "failed" ELSE "cancelled" IN
  /\ pc[r] \in {"failing", "cancelling"}
  /\ ended' = [ended EXCEPT ![r] = s]
  /\ UNCHANGED journal /\ Publish(r, s)
  /\ \/ Write(r, s) /\ Goto(r, "done")
     \/ setting.faults /\ Goto(r, "raised") /\ UNCHANGED result
  /\ UNCHANGED <<setting, users, repository, actors, seen, found>>

(* Ctrl-C between Enter and the return: codex exec is killed, an App       *)
(* Server turn goes on until the process ends, a terminal until it is done. *)
Interrupt(r) ==
  /\ setting.stops /\ pc[r] \in Under
  /\ users' = users \ {r}
  /\ working' = IF Backend(attempt[r]) = "exec" THEN working \ {<<r, attempt[r]>>} ELSE working
  /\ Goto(r, "cancelling")
  /\ UNCHANGED <<setting, repository, attempt, outcome, report, judging, telling>>

(* The process of a request dies; its lock counts as free, and the child   *)
(* processes may outlive it.                                               *)
Dies(r) ==
  /\ setting.stops /\ pc[r] \in Under \cup {"failing", "cancelling"}
  /\ users' = users \ {r}
  /\ working' \in {working, working \ {<<r, attempt[r]>>}}
  /\ Goto(r, "dead")
  /\ UNCHANGED <<setting, repository, attempt, outcome, report, judging, telling>>

-----------------------------------------------------------------------------
Request(r) ==
  \/ Invalid(r) \/ Unavailable(r) \/ Enter(r)
  \/ LookAtStatus(r) \/ LookAtHead(r) \/ WriteTask(r)
  \/ Start(r) \/ TurnEnds(r) \/ Fallback(r)
  \/ Capture(r) \/ Judge(r) \/ WriteResult(r) \/ Leave(r) \/ Answer(r)

Next ==
  \/ \E r \in Requests : Request(r) \/ Interrupt(r) \/ Dies(r)
  \/ \E a \in working : StragglerEnds(a) \/ Uses(a)
  \/ setting.crowd /\ Uses(Someone)

Spec == Init /\ [][Next]_vars

-----------------------------------------------------------------------------
Looks == [status : SUBSET Paths, head : 0..MaxHead, ok : BOOLEAN]
Results ==
  [status : {"none", "invalid_request", "executor_unavailable", "completed", "failed", "cancelled"},
   actor : 0..2]

(* Types of the variables.                                                 *)
TypeOK ==
  /\ setting \in Settings
  /\ users \subseteq Requests
  /\ commits \in 0..MaxHead /\ head \in 0..commits /\ tree \in [Paths -> Writers \cup {Clean}]
  /\ pc \in [Requests -> {"new", "failing", "cancelling"} \cup Under \cup Over]
  /\ attempt \in [Requests -> 1..(IF setting.spare = "none" THEN 1 ELSE 2)]
  /\ outcome \in [Requests -> Outcomes] /\ report \in [Attempts -> Reports]
  /\ working \subseteq Attempts
  /\ seen \in [Requests -> Looks] /\ found \in [Requests -> Looks]
  /\ ended \in [Requests -> {"none", "completed", "failed", "cancelled"}]
  /\ journal \subseteq Requests /\ missed \subseteq journal
  /\ events \in [Requests -> Seq({"started", "completed", "failed", "cancelled"})]
  /\ result \in [Requests -> Results]
  /\ touched \in [Requests -> SUBSET Writers]

(* No attempt outlives its delegation where users neither interrupt nor    *)
(* kill it and no terminal is used.                                        *)
Contained ==
  ~setting.stops /\ "windows" \notin {setting.executor, setting.spare}

(* One Executor at a time works on the repository, the one whose           *)
(* delegation holds the lock, and what a delegation finds in the worktree  *)
(* was not done by the Executor of another.                                *)
ActorsApart ==
  Contained =>
    /\ working \subseteq {<<r, attempt[r]>> : r \in users}
    /\ \A r \in users, a \in Attempts : a \in touched[r] => a[1] = r

(* A delegation that reports success has something to show for it: the     *)
(* accepted report is that of the actor named in the result, and where the *)
(* worktree was clean, either the repository was changed while the         *)
(* delegation was at work, or the report is of a read-only validation.     *)
(* Where attempts are contained and nobody else uses the repository, it    *)
(* still is what was judged when the result is there and the lock is about *)
(* to be given up: no commit but the one of the first look, and every      *)
(* change is of the delegation's own attempts.  (Two equal looks at Git    *)
(* do not show that nothing was done between them: what was undone counts  *)
(* as a read-only validation.)                                             *)
Own(r) == {r} \X {1, 2}

CompletionEarned ==
  \A r \in Requests :
    result[r].status = "completed" =>
      /\ report[<<r, result[r].actor>>] \in
           IF seen[r].status = {} /\ found[r].status = {}
             THEN {"probe"} ELSE {"applied", "claimed", "probe"}
      /\ seen[r].status = {} /\ found[r].status # {} => touched[r] # {}
      /\ Contained /\ ~setting.crowd /\ pc[r] = "leave" =>
           /\ Status = found[r].status /\ head = seen[r].head
           /\ seen[r].status = {} => \A p \in Status : tree[p] \in Own(r)

Ending(s) == IF s \in {"completed", "cancelled"} THEN s ELSE "failed"

(* The journal and the result file agree in the end, whatever was written  *)
(* twice because it failed or was interrupted, unless the last event was   *)
(* lost; and then the journal tells of no end at all, or of one that was   *)
(* overtaken by such a failure or interruption.                            *)
OutcomeTold ==
  \A r \in Requests :
    pc[r] = "done" /\ events[r] # <<>> =>
      LET last == events[r][Len(events[r])] IN
      \/ last = Ending(result[r].status)
      \/ r \in missed /\ (last = "started" \/ setting.faults \/ setting.stops)

=============================================================================
