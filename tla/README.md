# Dual-Agents: a verification project

TLA+ models of `dual_codex` (the Python package under `src/src/dual_codex`) and
of its terminal host (`src/scripts/pty-host.js`), their model-checking
configurations, and proofs of all the safety properties the runs check (section 6).
Paths in this text are relative to
`src/src/dual_codex` unless they say otherwise.

Dual-Agents lets several command-line AI agents (Codex, Claude Code,
Antigravity) work on one Git repository in fixed roles: an Architect plans, an
Executor edits, a Reviewer judges. The program is many short-lived processes
around shared files: two `dual-codex` commands, a dashboard, several terminals
and their hosts may run at once, each may die, and almost nothing but files and
operating-system locks joins them. That is what the modules are about.

## 1. Inventory

| Component (source) | State it keeps | Operations | What is hard |
|---|---|---|---|
| Repository lock (`delegation.py` 431–760) | one JSON file per repository, a kernel file lock (the "recovery claim") | `acquire`, stale recovery, `release`, `is_held_for_repository` | crashes at every step, pid reuse, start-time queries that fail, files created but not written |
| Security scan gate and run loop (`orchestrator.py`, `security_scan.py`) | the run's scan authority, its generation, decision, verdict, corrections | prepare, dispatch, record, freshness gates, scan-only turns, review, correction | the repository and the ledger of scans change at any moment; an agent's report may be false |
| Run records and recovery (`orchestrator.py` 270–300, 1600–1770, 1971–2414) | `run_state.json`, `provenance.json` per run | every status change writes both; the next run finalises what dead runs left | two files, crashes in between, swallowed write errors, pid reuse |
| App Server process (`app_server.py`, `_AppServerProcess`) | process lock, journal context, message queues, publication queue and thread | turn, dashboard request, publication, `close()` | three threads per process; late responses, early notifications, shutdown against publication |
| App Server pool and thread mapping (`app_server.py` 2545–2931, `dashboard.py` 337–354) | `_PROCESSES`, slot locks, the mapping file | `_get_process`, `_discard_process`, `_close_processes`, load/save/delete mapping | two nested locks per host, several hosts and one file, late failures |
| Terminal input (`src/scripts/pty-host.js`, `terminal.py`, `codex.py`, `cli.py`) | the input lease, the TUI's one composer | delegated turn, follow-up, attach, keys, release | text and Enter are separate requests; leases lapse; turn start and end are inferred from shared evidence |
| Terminal session records (`terminal.py` 1700–1900, 1100–1160) | a record per session, the host process | start, reuse, adopt, stop, status | two managers for one session, hosts that vanish |
| Delegation (`delegation.py` 1390–1947) | the lock, a request and a result file, journal events | validate, look at Git, dispatch, fall back, classify, publish the outcome twice | the worktree is shared with other people and with Executors that were not stopped; every step may fail or be interrupted |
| Actor dispatch and fallback (`codex.py`, `claude_code.py`, `antigravity.py`, `providers.py`) | provider processes | run an actor, classify how it ended, fall back once | a late answer, a failure that is taken for unavailability, processes that outlive their turn |
| Live events (`live_events.py`, `live_reader.py`, the stream of `dashboard.py`) | a bounded journal per account, role and repository; a cursor per connection; what the browser shows | append, rewrite, snapshot, replay, stream | writers of several processes; journal and lock file are read at different times; events and snapshots overlap |
| Bootstrap artifacts (`bootstrap.py`) | an artifact, its owner record, provider state | create, update, cleanup, reconcile | a crash between any two of them |
| Security recovery (`security_recovery.py`) | a provenance record | cancel one scan | one destructive call that must happen at most once |
| Publication (`publication.py`, `cli.py` 770–810) | none: the remote branch and the pull request | push, create branch, edit and open a draft pull request | read, change and verifying read are three commands; a command given up may still land |
| Registry, roles, configuration (`registry.py`, `config.py`, `repo_trust.py`) | TOML files | read, edit, replace | unserialised read-modify-write |
| Dashboard (`dashboard.py`) | login jobs, caches | HTTP handlers | shares App Server children and mappings with runs |
| Git evidence (`git.py`) | none | baselines, attribution, diff | the worktree changes while it is read |
| Provider adapters, child processes, paths, reports, doctor, CLI, installers | none shared | | operating-system detail, formatting |

How they meet. A run (`orchestrator.py`) and a delegated request
(`delegation.py`) take the repository lock, then call an actor through
`codex.py`, which drives a one-shot process, an App Server child or a terminal.
A run reads the ledger of scans through `security_scan.py` before, between and
after its turns. App Server children publish notifications through a thread
into the live journal, which the dashboard reads together with the lock file and
streams to the browser. Each dispatch writes a bootstrap artifact and an owner
record, which the next run reconciles under the lock. A human attaches to the
same terminal that delegated turns write into.

What makes each of them correct is stated as properties in section 4; every
place where the code is exposed to something a test hardly reaches is listed,
with its line, under `hazards` in `PROJECT.json`.

## 2. Modules

| Module | Models | Composes |
|---|---|---|
| `ExclusiveUse` | what the repository lock promises: at most one user | |
| `RepositoryLock` | the lock-file protocol | `ExclusiveUse` (refinement) |
| `RepositoryLockProofs` | theorems about it | `RepositoryLock` |
| `SecurityScanGate` | one run against ledger, repository and agents | |
| `SecurityScanGateProofs` | theorems about it | `SecurityScanGate` |
| `RunRecovery` | run records of several runs, crashes and recovery | `ExclusiveUse` as the lock |
| `RunRecoveryProofs` | theorems about them | `RunRecovery` |
| `AppServerProcess` | one child: callers, publication, `close()` | |
| `AppServerSessions` | children, slots and mapping of one profile, role and repository | |
| `AppServerProofs` | theorems about the process and the pool | `AppServerProcess`, `AppServerSessions` |
| `TerminalInput` | lease, automations, humans, the TUI | |
| `EventLog` | what the live journal promises: a gapless log cut at its front | |
| `LiveEvents` | journal writers, snapshot, stream and browser | `EventLog` (refinement) |
| `LiveEventsProofs` | theorems about them | `LiveEvents` |
| `Delegation` | requests to an Executor, from validation to result file | `ExclusiveUse` as the lock |
| `DelegationProofs` | theorems about them | `Delegation` |
| `ActorDispatch` | a role given to its actor, fallback, bootstrap files and their reconciliation | |
| `ActorProofs` | theorems about dispatch and terminal input | `ActorDispatch`, `TerminalInput` |
| `Publication` | the broker of pushes and pull requests, others, Git and GitHub | |
| `PublicationProofs` | theorems about it | `Publication` |
| `MC…` | instances for TLC | |

Each module is one component: its variables are the code's fields, files and
locks, and each action is a handler or the part of one between two points where
somebody else may act. The names of definitions follow the source; `map` in
`PROJECT.json` gives the lines of each. Definitions marked "Mutant" in a comment
are changed versions of the one that follows them; no behaviour of the model
uses them, they exist so that each property can be seen to fail.

Where one component is used under several circumstances (who is there, what may
fail), the module has a variable `setting` that is chosen initially from the
constant `Settings` and never changes (`mode` and `Modes` in `AppServerProcess`,
`situation` and `Situations` in `TerminalInput`, whose proofs share a module with
those of another component). Its fields are listed at the assumption
of the module, and the `MC` module names the settings a run explores. Properties
that hold only under some circumstances say so in their own text.

### RepositoryLock

Requests are lock objects, run by threads of processes. `lockFile` is absent,
`Unwritten` (created, nothing parseable in it yet) or a payload with pid and
start token; `claim` is the kernel lock. Acquisition is `TakeClaim`, `Create`
(O_EXCL), `Write`, or on an existing file `Inspect` and then `Refuse` or
`Recover`; release is `ReleaseClaim`, `Unlink`. `ProcessDies` takes all requests
of a pid with it and frees the claim, as the kernel does; `ProcessStarts` reuses
the pid with a new start time. A start-token query may fail (`NoToken`), as may
the writes and unlinks, when `IOMayFail`.

### SecurityScanGate

The repository is a snapshot number, a scan is its status, the snapshot it
pinned, whether its target and mode suit the run (`fit`). The host's steps are
`BeforeArchitect`, `BeforeExecutor`, `RecordResult`, `EnsureFresh`,
`CaptureBaseline`, `AttributeMutations`, `CaptureDiff`, `Decide`; agents' turns
end by `ArchitectEnds`, `ExecutorEnds`, `ScanOnlyTurnFails`, `ReviewerEnds`,
`TurnFails`; agents and others edit, scan, cancel and delete in between.
`checked`, `seen` and `tainted` are history. The extra pass after the last
allowed scan (1267–1276) is part of `Prepare`. The reuse of a completed scan of
an earlier run is off, as `allow_completed_reuse` is at its only call. A mission
that asks for no scan passes no gate; the code does no freshness check then, and
the properties speak of runs with `required`.

### RunRecovery

`state` and `prov` are the statuses in the two files, `mem` the one in memory,
`then` where a write returns to and whether it must succeed (`required=True`).
Recovery examines the other records, one at a time, and finalises both files of
those whose owner is gone; a record with the examiner's own pid counts as gone.
All runs are of one repository; the attribution of changes is reduced to the
status it yields; bootstrap reconciliation is not part of it.

### AppServerProcess and AppServerSessions

`AppServerProcess` is one child with its callers: `Acquire` takes `_lock`,
switches the journal context and sends; `ReadResponse` is `request()`'s loop,
`ReadEvent` the turn's loop, both with `_pending` in front of the queue;
`Publish` is `_record_notification`; the publisher is `PublisherTakes`,
`PublisherWaitsInVain`, `PublisherTestsStop`, `PublisherAppends`; `close()` is
four steps. The requests before `turn/start` are folded into it.

`AppServerSessions` is the pool: the table and slot lock of each host, children
that exit at any time, and the mapping file shared by all hosts. A call is
`Get`, perhaps `CloseReplaced` and `Launch`, then `Bind` (load the mapping,
resume or start the thread), a turn that completes (and saves the mapping) or
fails, then `Discard` and `CloseMine`. The dashboard's read loads the mapping
itself before it asks. Shutdown takes no slot lock. `close()` of a child may hang in
the second `join()` of its publisher: `CloseHangs` and `ShutdownHangs` stop the caller
or the shutdown where it is, with its locks. `TurnEscapes` is a turn that ends by an
exception nobody catches, as Ctrl-C (only `AppServerError`, `OSError` and `ValueError`
reach `_discard_process`): child, table and mapping stay. Ctrl-C while a child is being
launched or closed, and a crash of a host, are not actions.

### TerminalInput

One host serves one request at a time, so a request is one action. A delegated
turn is `Ensure`, `Cursor` (`turn_cursor`), `BeginTurn` (the lease), `IsReady`,
`SendText`, `Submit`, `Started`, `Completed`, `Return`; a follow-up
(`TerminalManager.send`) takes a lease only when it writes, and its Enter names
no writer (`implicitWriter`). A human attaches, types, erases, enters, polls
(`release_completed_human_command`) and detaches; unless he types ahead (`hasty`) he
presses a key only when nothing runs or waits and the attach has given the input of
his last command back (`Prompt`), and unless he `leaves` things behind he detaches
only with an empty line and after the end of his turns. The TUI is one line and a
queue of submitted commands whose turns run one after the other. The line has a caret:
where a human `edits`, his other keys move it, cut something out or put a command of
the past into the line (`Edit`). The host knows none of that. It has a composer of its
own, of which the lease keeps the number of characters (`chars`, no more than
`composer`, the 512 of `pty-host.js` 65): a character and a Backspace are counted where
the caret is not looked at (`Typed`, `Erased`), an escape sequence is skipped (`Moved`).
`Shadowed` says that this follows the line. Leases are
`short` when the code gives them seconds: those may lapse at any time; the
others lapse only when their owner is over, or, in the situation `longTurns`,
under a turn longer than the 900 s of its lease. Delegates are serial because
each holds the repository lock. The rollout file and the screen, the code's two
witnesses of a turn, are one; keys are one character; viewers that only watch and lost
replies are left out.

### EventLog and LiveEvents

`EventLog` is the abstract journal: records numbered without a gap in the order
they arrive, lost at the front only. `LiveEvents` is what is built: a run
(`Acquire`, `Mark`, `TurnStarts`, `TurnEnds`, `BodyEnds`, `Release`, `Dies`)
publishes its own start and end, and the App Server's publisher thread writes the
notifications of its turns when it gets to them (`queue`). A writer takes the
journal lock and reads (`ReadRecords`), then replaces the file
(`ReplaceJournal`), appends in one write (`AppendAtOnce`) or fails
(`AppendFails`). The reader's snapshot is two steps, `ReadJournal` and
`ReadMarker`, in that order; `StateOf` is the decision of `live_reader.py` on
what they saw. `Connect`, `Replay`, `Poll`, `Send` are the server's side of the
event stream, and `ShowSnapshot`, `ShowEvent` what the browser makes of it;
`ConnectionLost` makes it reconnect at its cursor. The lock file is abstracted to
`marker`, its owner and whether it has been written; `RepositoryLock` is its
protocol. Redaction and the texts of events are left out.

### Delegation

A request goes through `Decline`, `Enter` (the lock), `LookAtStatus`,
`LookAtHead`, `WriteTask`, `Start`, its Executor's `TurnEnds`, perhaps `Fallback`
and a second attempt, `Capture` (the second look at Git), `Judge`, `WriteResult`,
`Leave` and `Answer`; `Interrupt` is Ctrl-C and `Dies` the death of the process.
`Raise` is an exception: the `except` clause publishes "failed" after the lock is
free. The worktree maps paths to the writer of the uncommitted change there, so
that the properties can tell whose work a delegation finds, while `Status` gives
the code what Git gives it, names of paths. Whoever uses the repository edits, commits
(`Commit`), restores files (`Restore`) and checks out other commits (`Checkout`), so that
what was done may be undone between the two looks. Each append to the journal may be
lost without anybody noticing (`Publish`, in settings with `losses`); `missed` is history,
the requests whose last event was. An Executor
in a terminal is not stopped when its attempt is given up, nor is one whose
delegate died: it goes on until `StragglerEnds`. Reports are kinds; parsing them,
composing prompts, and the report of the tests are abstracted.

### ActorDispatch

Each run dispatches one role: `Begin` and its reconciliation of other runs' files
(`Read`, `Check`, `Remove`, `Forget`), `Create` (artifact), `Record` (owner
record), `Start`, `Launch`, `Report` (the three states of the provider), `Turn`,
then `Accept`, `Reject` or `Fallback`, and the cleanup `Look`, `Weigh`, `Unlink`,
`Unrecord`. `End` says for every backend how a turn that said this and exited
like that is classified by its adapter; `Availability` when the classification
lets the fallback have the task; `Stays` whether the process outlives its turn.
Errors that no adapter catches (`Raise`, one outcome of `ReportFails`) and Ctrl-C leave
the dispatch from wherever it is. `HostDies`, `ProviderDies`, `IdReused` and
`StrangerEnds` are the environment; a provider survives its host. Skills, digests
and command lines are data and left out.

### Publication

An execution of `dual-codex publish` goes through the stages "parse", "scope",
"inputs", "before" (the first read), "auth", "send", "sent", "after" (the
verifying read) and "deliver". `wire` is the command under way: it lands
(`Land`), is refused (`Refuse`) or is given up by the client (`GiveUp`) and may
still land later, even after the broker's death. A push reads the heads the server
advertises, checks that it is a fast-forward on the client, and asks the server to
replace exactly the advertised head: that is Git's protocol, which is external, as
is GitHub. `Answer` builds the result, `Deliver` writes it as `cli.py` does.
`OthersPush`, `OthersEdit` and `LocalMoves` are everybody else. `landed` and
`heads` are history. The syntax of fields is abstracted to whether a request is
well formed.

## 3. Plan

1. `RepositoryLock` with `ExclusiveUse`: everything else relies on it. *(done,
   proved)*
2. `SecurityScanGate`: the run's own logic. *(done, its safety proved)*
3. `RunRecovery`: what the run leaves behind when it dies. *(done, proved)*
4. `AppServerProcess`, `AppServerSessions`. *(done, their safety proved)*
5. `TerminalInput`. *(done, its safety proved)*
6. `LiveEvents` with `EventLog`; `Delegation`; `ActorDispatch`, which took in the
   ownership of bootstrap artifacts because the same steps move both. *(done,
   proved)*
7. `Publication`. *(done, proved)*
8. Left: `TerminalSessions` (records and hosts of terminals: start, reuse,
   adoption by two managers); host crashes in `AppServerSessions`;
   `SecurityRecovery` (the cancel call happens at most once); the registry's
   read-modify-write.
9. Compositions: run, lock and records (`RunRecovery` over `RepositoryLock`
   itself, which the refinement already licenses); delegated terminal turns under
   the lock; `ActorDispatch` as the actor of `Delegation`.

Abstract specifications worth stating: exclusive use and the journal's log
(done); for the mapping, "the last completed turn's thread or none"; for
delegation, a request answered exactly once.

Every safety property that a run checks is a theorem. Theorems to prove come with
the modules of items 8 and 9.

## 4. What the runs check

| Run (module, configuration) | Properties | Question | Bounds |
|---|---|---|---|
| `lock_safety` (`MCRepositoryLock`, `LockSafety.cfg`) | `TypeOK`, `HolderNamedByFile`, `RemovalJustified`, `ImplementsExclusiveUse` | exclusive use, honest removal, refinement | 3 requests, 2 pids with 2 lives each, 2 tries, failing queries; symmetric |
| `lock_liveness` (`LockLiveness.cfg`) | `StaleLockRecovered` | stale locks are replaced | 2 requests, no failing queries |
| `gate` (`MCSecurityScanGate`, `Gate.cfg`) | `TypeOK`, `CompletedRunIsCovered`, `VerdictEarned`, `QuietRunCompletes`, `GenerationsCount` | what a completed run may rely on; limits end every run and stop no quiet one | hostile environment: no correction, 2 scans, 2 edits; with restored snapshots: 1 scan, 2 snapshots, no faults; quiet: 2 corrections, 5 scans, 4 edits |
| `recovery` (`MCRunRecovery`, `Recovery.cfg`) | `TypeOK`, `RecordsFinal`, `LiveRunNotFinalised` | nobody finalises a live run; records are truthful while writes succeed | 3 runs without faults or 2 with, 2 pids with 2 lives, 1 turn |
| `process` (`MCAppServerProcess`, `Process.cfg`) | `ProcessTypeOK`, `JournalTells`, `CompletionSeen` | notifications stay with their run, nothing accepted is lost, a completed turn is seen | 2 turns, 1 read, 1 close, 1 notification each, queue of 2 |
| `sessions` (`MCAppServerSessions`, `Sessions.cfg`) | `TypeOK`, `ChildrenAccounted`, `MappingFollowsChild`, `CallsEnd` | no child lost or doubled, no session forgotten by mistake or resumed when broken, no deadlock, nothing held up but by a hanging `close()` of its own host | in one host, 2 runs and a read with a policy change, 2 runs and a shutdown, 3 serial runs; in two hosts, 3 serial runs, 2 serial ones that Ctrl-C may end, or 2 at once; 3 children; any `close()` may hang |
| `terminal` (`MCTerminalInput`, `Terminal.cfg`) | `InputTypeOK`, `SentAlone`, `StartedOwnTurn`, `HandsOff`, `InputReturns` | automations submit only their text, humans are protected and kept out, leases end | 1 human; while nothing fails, 2 automations and 2 keys, 3 when he types ahead, 1 automation and 4 keys, with configuration commands or without; 1 delegated turn that outlasts its lease and 3 keys; 1 automation and 3 keys with other keys among them, or 4 keys and a host that remembers 1 character; with failing waits and deaths, 2 automations and 1 key or 1 and 2 keys |
| `live` (`MCLiveEvents`, `Live.cfg`) | `TypeOK`, `ImplementsEventLog`, `EndShown` | the journal is a gapless log whoever writes and dies; the browser learns and keeps the end of a run | 2 unobserved runs with one mishap, one watched run with one, two watched runs with none; 3 records kept, 2 replayed |
| `delegation` (`MCDelegation`, `Delegation.cfg`) | `TypeOK`, `ActorsApart`, `CompletionEarned`, `OutcomeTold` | Executors do not meet, success has something to show, journal and result file agree but for a lost event | 2 requests to an App Server Executor with a fallback, and 1 whose events may be lost; 1 in a dirty worktree others use, with failing files; 2 to a terminal that only reports success, and 1 to one that may fail, with interruptions and deaths; 2 paths, both changed only by the request with any report; 1 commit |
| `dispatch` (`MCActorDispatch`, `Dispatch.cfg`) | `TypeOK`, `ReadersKeepTheirFile`, `NobodyLeftAtWork`, `SettledLeavesNothing` | an actor keeps the file it reads, none works on beside its fallback or after its dispatch, an orderly end leaves nothing behind | 2 runs, symmetric; every backend once as the configured actor but the App Server, which is the fallback of two; failing host files with the API and the terminal |
| `publication` (`MCPublication`, `Publication.cfg`) | `TypeOK`, `NothingLost`, `CompletedIsVerified`, `ChangeAdmitted` | no commit is lost, a completed request is verified, a change is not denied | 2 brokers in 7 combinations of requests, 4 commits (a line of 3 and one beside it), 2 moves of others |
| `create_branch` (`MCPublication`, `CreateBranch.cfg`) | `CreatesOnlyNew` | ends in a counterexample, see below | the same |

The bounds are the smallest in which each hazard of the component happens. Three
requests for the lock are a holder, a recoverer and a competitor, two lives of a
pid one reuse. Three serial runs are one that records a thread, one that breaks it
and one that must not resume it; three children are one in use, its replacement
and the replacement of that; three keys are a command, its Enter and a key more, four
a second command, which matters because the attach remembers that it saw a turn.
Keeping three journal records, of the four that one run with a turn writes, makes
the journal lose its front while a second run writes and a browser still has an
older cursor. Two requests are the one that is at work and the one that must not
meet it; two paths are one that was dirty before and one that was not. Two runs of
a dispatch are the one that died and the one that reconciles; both of its attempts
are modelled. Two brokers and two moves of others are a change before and one after
each read; four commits are an expected head, its successor, the successor of that
and a head that is no ancestor. That the cases happen is shown by the mutants:
every property has a plausible bug in a mapped definition under which the same
run finds it violated.

### Where the code and what is said of it differ

`create_branch` ends in a counterexample. The comment at `publication.py` 398–400
and `docs/CLI.md` 106–107 say that an existing branch is never updated. The
absent-state check is an `ls-remote` of its own (483) and the push reads the heads
again: a branch that somebody else has created meanwhile at an ancestor of the
requested commit is fast-forwarded (518), and reported as created.

### Observed behaviour

What was met while the code was modelled. Where a property would be false because of
it, the property's condition says so.

Lock, runs and records:

- A crash between the two writes of a final record leaves `provenance.json`
  "running" for ever, because the next run looks at `run_state.json` alone
  (`orchestrator.py` 1611, 1644). `RecordsFinal` speaks of `run_state.json` where
  it says that no record stays "running".
- The outcome of a run is kept only while writes succeed: `_persist_run_state`
  swallows the failure of its last write (`orchestrator.py` 289).

App Server:

- The publisher may end between `stop.set()` and the sentinel; the second `join()`
  of `close()` then never returns and the child is not terminated
  (`app_server.py` 2521-2530). Whoever closes keeps the slot lock and the process lock,
  and every later call of this host for the slot waits for ever. `CallsEnd` excepts the
  calls of such a host (`Hung`) and says that no other call is held up.
- A turn that ends by an exception other than `AppServerError`, `OSError` and
  `ValueError`, as by Ctrl-C, does not get to `_discard_process` (2932): child and mapping
  stay, and the next run resumes the broken thread. `BrokenForgotten` is stated where no
  turn ends so.
- Where callers that may fail overlap, the second gets the process between the
  release of the lock by a failed turn and `_discard_process` (2475, 2942): it
  journals notifications of the failed turn and may resume its thread. Both
  `KeepsItsRun`, a part of `JournalTells`, and `BrokenForgotten`, a part of
  `MappingFollowsChild`, are stated for callers that come one at a time.
- A read of the dashboard is enough to overlap. When a turn fails because its child
  exited, the read finds the child dead and replaces it under the same policy,
  which keeps the mapping (2603-2609); the run then finds another child in the table,
  `_discard_process` keeps the mapping too (2642-2653), and the next run
  resumes the broken thread. `OneAtATime`, the condition of `BrokenForgotten`,
  therefore leaves reads and shutdowns out. The proof attempt found this.
- Under the same circumstances the late response of a request that timed out
  circulates in `_pending` and starves `_messages` (2339); `CompletionSeen` has the
  same condition.
- The dashboard computes the policy identity of a workspace-write Executor without
  `require_workspace_ready`, so that reading its thread deletes the mapping although
  no policy changed (`dashboard.py` 345).
- When the host dies in the middle of a turn nobody deletes the mapping, and the
  next run resumes the thread of the broken turn (2732).

Terminal:

- After `/model` or `/reasoning` the host does not notice that a human types ahead;
  the lease ends and an automation writes into the line (`pty-host.js` 390).
  `SentAlone` and the part `PlainCompositionProtected` of `HandsOff` leave out humans
  who do both.
- The host's composer is not the line on the screen. `recordHumanInput` skips escape
  sequences, which `cli.py` 648 forwards (`pty-host.js` 351-357), counts a Backspace
  wherever the caret is (362-364) and keeps the last 512 characters (368). A human who
  types "a", moves left and presses Backspace has emptied the host's composer and still
  has his "a" in the line; one who has typed more than 512 characters and erases 512 of
  them has the rest; one who recalls a command by the up key has a line the host has never
  seen. In each case the lease lapses after five seconds of thought, an automation writes
  into that line and submits it. `SentAlone`, `StartedOwnTurn` and the part
  `PlainCompositionProtected` of `HandsOff` are stated where the host follows the line
  (`Shadowed`); likewise a configuration command is taken for one by what the host
  remembers (`Recognised`).
- `human_turn_seen` of an attach outlives the turn it was seen in. The reset at a new
  generation is in the nested `forward`, where the name is local (`cli.py` 594; only
  `generation` is `nonlocal`). A human who submits his next command before the loop
  has looked at the end of his last turn loses the lease before the new turn begins,
  although `release_completed_human_command` says "only after its submitted Codex turn
  completed" (`terminal.py` 2249); a delegate may then write before that turn begins
  and take it for its own. `StartedOwnTurn` is stated for humans who wait for the
  prompt and for the release. The proof attempt found this; two keys had not been
  enough for TLC to meet it.
- For a session that no automation has used, the turn cursor is the start of the
  rollout file when that is older than 30 s, and the delegate reports a turn that
  had already ended (`terminal.py` 1228, 2300).
- Nothing renews the lease of a turn that outlasts 900 s (`codex.py` 1178), and the
  final release reports it as failed; the part `HumanWatchesOnly` of `HandsOff`
  is stated for shorter turns.
- A human who submits a second command while the first runs loses the lease when
  the first ends (`cli.py` 616), and so does one whose turn is mistaken for a
  follow-up's.
- `StartedOwnTurn` is stated without follow-ups: `wait_until_ready` of a follow-up
  comes before it holds a lease (`terminal.py` 1983), and its turn may be taken for
  the delegate's.
- `SentAlone` is stated without failing waits: a text whose acknowledgement fails
  stays in the composer, and the next writer's Enter submits it.

Live events:

- A run that dies is shown as working as long as the browser has only the snapshot
  it remembers, and a turn's end that is published after the run's failure shows
  "COMPLETE".
- A notification of an earlier run that is published behind the record of a newer
  run takes the browser back to the earlier run, as "WORKING" or "IDLE", although
  the end of that run is in the journal. And a heartbeat that finds the earlier
  run's end while a newer run holds the lock judges "DISCONNECTED"; if a late
  notification then makes the reader take a snapshot, that snapshot is only
  remembered, later heartbeats do not differ from it, and the browser stays
  "DISCONNECTED". `EndIsShown`, a part of `EndShown`, leaves late activity behind a
  newer run out (`LastWord`, `Only`); the snapshot itself is right in both cases.
- A replay may send records the browser has seen. Records of two runs in turn reset
  its state to "IDLE" on every change of run, before it looks at the number
  (`dashboard.py` 1770); with the earlier end forgotten so, a "turn started" of that
  run published late shows "WORKING". `EndedStaysEnded`, the other part of
  `EndShown`, speaks of ends behind which the journal has records of that run alone
  or of others alone (`ToldEnd`).
- An end behind which `MAX_SSE_REPLAY` late records or more arrive in one poll is not
  sent at all; the snapshot that follows events is only remembered, and the browser
  stays "WORKING" or "STALE". `EndIsShown` asks for an end within the replay
  (`RecentEnd`). Proof attempts found this and the one before.

Delegation:

- A worktree that was dirty before is compared by names of paths: an edit of a
  file that was dirty already is no change, and an edit by somebody else is the
  Executor's. `CompletionEarned` is stated for clean worktrees.
- Whether an Executor did anything is asked of two `git status` and two heads (1793,
  1433). What it did and undid, a temporary file, a checkout and back, a stash, is not
  seen: its report of a read-only validation is accepted. `CompletionEarned` therefore
  says what a completed result can vouch for, that in private the repository is, but for
  the delegation's own changes, what it was, and not that the actor changed nothing.
- `_publish_run_event` swallows the failure of every append (772-784): the journal may
  lack the end of a run whose result file is written, or end with "failed" or "cancelled"
  although the result that was written says otherwise, or the reverse. `OutcomeTold`
  admits this for a lost last event (`missed`) and says what the journal may then show.
- A terminal Executor goes on when its turn times out or is interrupted; fallback
  or next request work on the same repository beside it. `ActorsApart` is stated
  for the other backends, and so is the part of `CompletionEarned` that says that the
  repository still is what was judged: such an attempt may edit after the result of its
  fallback was accepted.
- The `except` clause of `delegate()` publishes "failed" after the lock is free, so
  that it may follow the next request's start.

Actor dispatch and bootstrap:

- An exception before the provider is known, or a crash between its start and the
  record of it, leaves the state "starting", and no reconcile removes that artifact.
- A crash between the artifact and its owner record (`bootstrap.py` 578) leaves an
  artifact that no reconcile finds; one between removing the artifact and the
  record leaves a record.
- Antigravity that answers and takes more than 5 s to exit has failed, the failure
  counts as unavailability, and the fallback repeats the work. More generally the
  fallback begins where the actor that is not available had got to: nothing is undone.
  `NobodyLeftAtWork` says that the two do not work at once, and except terminals they
  do not.
- An attached user's abort of a delegated terminal turn is a failed turn
  (`terminal.py` 2315), which counts as unavailability (`codex.py` 96): the fallback
  starts what the user has stopped.
- A terminal whose turn failed is not stopped; it may work on beside the fallback.
- An owner record that is missing or unreadable when a provider is reported is a
  `RuntimeError` (`bootstrap.py` 797-811), which neither the App Server nor the terminal
  makes a failed turn: it ends the dispatch without a fallback. So does an error of
  Python's `http.client` that the API's adapter does not know.
- For Antigravity every status but "CANCELED" counts as unavailability; for the App
  Server every failure that does not speak of policy does; for the API neither
  429 nor 503 does.
- Ctrl-C leaves the App Server child and the terminal at work, and stops only the
  root process of Claude Code.

Publication:

- A verifying read that fails or cannot be parsed after the push or the edit was
  carried out says "not_mutated" (664–665); the check of 605–607 is not reached,
  because `_gh_pr` raises first. `ChangeAdmitted` allows it by name (the stage
  "after").
- `normal_push` pushes the local branch as it is at the time of the push: what was
  committed since the check is published, and reported as "post_verify_failed". A
  branch that was deleted since is created again, and a head that moved to another
  ancestor is fast-forwarded all the same.
- A retry after a push that was given up and landed is told `REMOTE_HEAD_MOVED`.
- Two `create_branch` of one commit both report `created=True`.
- A result that cannot be written turns a completed publication into a blocked one
  (`cli.py` 796–806).

## 5. Fairness

- Lock: threads of live processes are scheduled (weak fairness of acquire and
  release); no body need end and no process need die.
- Gate: the host is scheduled, and every agent turn ends because providers run
  under timeouts. Agents and others need do nothing. `RunEnds` is stated for
  Executors that need not keep to their policy; one that does may wait for its
  own scan as long as that runs.
- App Server process: callers and publisher are threads; the child answers what
  it has received while it is up. No timeout has to fire, so `CallEnds` does not
  rest on one.
- App Server sessions: strong fairness of each caller, since a lock that is free
  again and again is got in the end; turns and requests end by their deadlines. Nothing
  makes a `close()` go on that hangs, or hang: both are left to chance, and what hangs
  is named in `CallsEnd`.
- Terminal: automations go on or time out; leases have deadlines; turns and
  dialogs end. Nobody need come, type, leave or die.

Deadlock is checked in `gate`, where the end of a run is a stuttering step of its
own. In the other models the callers are finitely many calls that end, and the
system may really stop.

`LiveEvents`, `Delegation`, `ActorDispatch` and `Publication` state safety alone:
that their calls end would only restate the timeouts under which every command and
every turn runs. What must not be missed
there, the end of a run on the browser's screen, is stated as what one heartbeat of
the stream does (`EndIsShown`).

## 6. What is proved

`RepositoryLockProofs` proves for every number of requests, pids, lives of a pid
and tries, with failing operating-system calls or without:

- `TypeCorrect`, `HolderNamed`, `MutualExclusionHolds`, `InspectionCurrent`,
  `ClaimReclaimed`: the invariants of the run `lock_safety`;
- `OnlyStaleOrReleasedRemoved`: the action property `RemovalJustified`;
- `Refinement`: the protocol implements `ExclusiveUse`.

The assumptions are those of `LockAssumption`: positive bounds and a `Nobody`
that is no request. Mutual exclusion is not inductive: whether a second request
may create the file depends on what the first left on disk. `LockInv` adds that
the claim is held exactly by the request between taking and dropping it
(`ClaimInv`), that whoever runs lives (`LiveInv`) and has recorded its own start
token or none (`TokenInv`), that a holder is named by the file on disk, that an
unfinished file is its writer's (`WriteInv`) and that a judged payload is still
the one on disk (`JudgeInv`). From these `OwnerNotGone` follows: the payload of a
live owner never looks stale, so recovery never removes it. `LockInvStep` has one
lemma per action; the refinement maps entering "held" to `Enter`, leaving it or
dying to `Leave`, and everything else to a stutter.

`AppServerProofs` proves two components. Of the shared process (`AppServerProcess`),
for any turns, reads and closers, notifications per turn and size of the queue:

- `ProcessTypeCorrect`: the type invariant;
- `JournalIsTrue`: `JournalTells`, no notification in the journal of another run, and
  `close()` stops the child only when everything accepted is in the journal, in order.

`JournalTells` is not inductive: that `Publish` finds the right journal depends on
lines that were sent long ago. `Control` says who is inside: whoever is has the lock
(`OwnerInv`), the journal context is that of the turn inside (`ContextInv`), and after
`close()` has set its flag nobody comes in (`ClosedInv`). `LinesInv` orders what is
unread: behind a turn's completion, in `_pending` or in `_messages`, there is no line
of that turn, and none in `_messages` when the completion is already in `_pending`.
`TurnsInv` then has the caller of every unread line still inside, so whoever reads it
is the one it is about. `AcceptedInv` accounts for each notification accepted: in the
journal, in the publisher's hand, or in the queue, in this order; after the drain only
the sentinel is left.

Of the pool (`AppServerSessions`), for any number of callers, hosts and children,
under any policies, with callers in series or in parallel:

- `SessionsTypeCorrect`: the type invariant;
- `NoChildLeaks`: a child that runs is in its host's table or in the hands of
  somebody about to close it (`NoLeakedChild`);
- `OneChildPerSlotHolds`: a host that has not begun to shut down never runs two;
- `ChildrenAccountedFor`: both, as the run `sessions` states them;
- `MappingFollowsItsChild`: the action properties `MappingFollowsChild`, for runs
  that come one at a time where they are about broken threads.

`SessionsAssumption` says that settings name known callers and hosts, that runs are
no reads, that the number of children is a natural number and that the two marks are
nothing else. Neither of the first two properties is inductive: launching overwrites the table, so it loses no
child only because whoever launches has emptied it (`LaunchInv`) and still holds
the slot lock (`SlotInv`); discarding is harmless only because the child in a
caller's hands was started by the caller's own host (`MineInv`, `TableInv`).
`OneChildPerSlot` then follows: of two children that run, one at most is in the
table, and while a child in somebody's hands still runs, the table is empty
(`LaunchInv`, `CloseInv`). The mapping needs an invariant of its own, `MappingInv`,
on top. `OrderInv`: children are started in order and the one in a host's table is the
newest of that host, so that whoever finds his own child there forgets no newer
session. `AloneInv`, for runs that come one at a time: the child in the hands of the
run is the one in the table (`KeepsItsChild`; where no turn ends by an exception that
escapes), hence the failed run forgets what it
recorded, and a broken thread is in the mapping only while the run that broke it is
about to forget it (`BrokenLeaves`).

`PublicationProofs` proves for any number of brokers, requests of all four
operations, any commits, any number of moves of others:

- `TypeCorrect`: the type invariant;
- `NothingIsLost`: `NothingLost`, no push takes a commit from the branch;
- `CompletedIsEarned`: `CompletedIsVerified`;
- `ChangesAdmitted`: `ChangeAdmitted`.

The assumptions are that ancestry is reflexive and transitive (`BelowAssumption`),
the ranges of the constants and that the marks are no commits. `Invariant` gives,
for each broker, `PInv`. `NothingLost` is about one step, the landing of a push: it
holds because a command on the wire is a fast-forward of the head it will be
compared with (`WireForward`), which the client checked when it sent it, however
late it lands. `CompletedIsVerified` is about a result that is built from what was
seen two reads ago: `InputsChecked` keeps what the first checks established of the
commits, `Watching` that the head of the branch is on record from the sending to the
verifying read, and
`AnswerMeans` that a positive reply stands for a command that landed.
`ChangeAdmitted` needs `InOrder`: nothing is on the wire and nothing has landed
before the broker sends, so the early refusals, which say "not_mutated", come where
there is nothing to deny. `Sound` says of a result what the properties need, first
of the result the broker holds and then of the one it has written.

`SecurityScanGateProofs` proves for any number of correction cycles, scans and
edits, whatever the Executor reports and whatever others and faults do:

- `TypeCorrect`: the type invariant, and with it that generations stay within
  `MaxGenerations`;
- `CompletedIsCovered`: `CompletedRunIsCovered`;
- `VerdictIsEarned`: `VerdictEarned`;
- `GenerationsAreTurns`: the action property `OneTurnPerGeneration`, the safety half
  of `GenerationsCount`;
- `QuietRunsComplete`: `QuietRunCompletes`.

`GateAssumption` only gives the fields of a setting their types. A completed run is
covered because between two gates the pinned scan covers the snapshot that was
checked (`CoverInv`), which holds from the gate that passed until the next one,
whatever is edited meanwhile: `checked` does not move. That the reviewed diff is the
scanned one needs the order of snapshots (`OrderInv`): the diff is no older than the
scan and no younger than the second gate, which finds the scan's snapshot again. A
scan the run calls its own is new because an Executor whose authority is unclaimed
was told to scan and had observed every scan of the baseline (`DecisionInv`).
`PreparedCases` splits what a gate makes of ledger and authority into five cases;
all proofs about gates rest on it. `QuietRunCompletes` needs an invariant of its own,
`QuietInv`: alone, an authority either waits for its scan, with no other scan left to
dispute it (`Unserved`), or has the one scan that may run (`Served`), and one
generation suffices for the first scan and one for each implementation (`Counted`).
It is the proof that the limit `max_correction_cycles + 2` is not one too low.

`RunRecoveryProofs` proves for any runs, pids, pid reuses, turns and crashes:

- `TypeCorrect`: the type invariant;
- `OwnRecords`: `LiveRunNotFinalised`;
- `RecordsAreFinal`: `RecordsFinal`.

`UseInv` (one run at a time recovers or works, in a process that exists) holds under
failing writes too; the rest, `OrderInv`, only where nothing fails, as the properties
say. `Recorded` relates the two files to what the run knows, and is suspended between
its two writes; `OwnerInv` says that the start token on record of a dead run can be no
live process's, although its pid may be; `RecoveryInv` that recovery finalises the dead
only and, when it is over, has missed none.

`LiveEventsProofs` proves for any runs, turns, number of records kept and mishaps:

- `TypeCorrect`: the type invariant;
- `NoGaps`: the numbers of the records on disk have no gap;
- `Refinement`: `ImplementsEventLog`, the shared file implements the abstract log;
- `EndIsShownAndStays`: `EndShown`, the browser learns the end of a run and keeps it.

A draft is what the file holds as long as its writer has the journal lock (`DraftInv`);
with gapless numbers, replacing the file by the draft and one record more is then the
abstract log's append followed by a cut at its front.

`EndShown` is about one action each of the stream and of its heartbeat, and needs
`WatchInv`, in three parts. `RunsInv` is about the writers: nobody writes of a run
before it has begun, publishers write of turns only, and the record of a run's end
has a higher number than that of its start. `StreamInv` is about the reader, which
holds no lock between its reads: what it has read is what the journal was, so every
record still in the journal and not newer is in it, and its cursor is not ahead of the
browser's. `BrowserInv` is about the page. It shows the run of the last record it was
sent (`ShowsRun`, which holds back while an older record is being replayed); when a
reset has put it back to "IDLE", the end of its run is still in what is being sent
(`IdleInv`); a replay skips only what is too old for it (`NoSkip`), so that the end of
an only run is not lost (`EndTold`); and once it has been sent the events or the
snapshot up to an end it shows that end (`AfterEvents`, `AfterSnapshot`). Journals are
compared by their highest number: cutting the front never lowers it, and what is
added comes behind it, so a step of a run or writer leaves all of this alone
(`GrownStream`, `GrownBrowser`), and each step of the stream has a lemma of its own.
Where nobody watches, the stream is off.

`DelegationProofs` proves for any requests, settings, paths and number of commits:

- `TypeCorrect`: the type invariant;
- `ActorsKeptApart`: `ActorsApart`;
- `CompletionIsEarned`: `CompletionEarned`;
- `OutcomeIsTold`: `OutcomeTold`.

`LockInv` identifies the holder of the lock with the request between `Enter` and the
end of the `with` block. `WorkInv` says for whom an Executor may be at work and
`TouchInv` who may have changed the repository since a request's first look; `Visible`
carries an attempt's change to the second look, where Git shows it as a dirty path or
another head, and `Found` and `Judged` carry what was seen then to the result. Because
work may be undone, `Visible` and `Found` say what the worktree is now and not what it
ever was: in private (`Private`) whoever changes it is an attempt of the request itself,
up to the second look, and nobody is left to do so after it. `Agreed` follows the last
event of each request through the end of `delegate()`, with the exception for a lost one.
Where attempts are not contained, the same conjuncts hold with what is left of them,
so that the theorem has no case for backends.

`ActorProofs` proves two components. Of `ActorDispatch`, for any runs of a repository
and any configuration of actor and fallback:

- `TypeCorrect`: the type invariant;
- `ReadersAreSafe`: `ReadersKeepTheirFile`;
- `NobodyWorksOn`: `NobodyLeftAtWork`;
- `NothingIsLeft`: `SettledLeavesNothing`.

One run at a time is busy (`OneEngaged`), which is all that the repository lock
contributes. `Protected` is why a reader keeps its file: its record says "starting"
or names it as running, so the cleanup of its own run and the reconciliation of
every other leaves the artifact alone (`ReadersInv`); `Scan` says that what
reconciliation has read of a record is still so when it acts on it. `Own` and
`CleanedUp` give the host its own files as it left them, until they are gone. `InOrder`
is for `NobodyLeftAtWork`: an actor at work is in its turn or one of those that stay
(`Excused`), which an attempt that fails to launch respects only because it has no
process yet (`Unlaunched`), and one broken off only because nothing was told before.
`NoRecordAssumption` says that the mark of a missing record is no record.

Of `TerminalInput`, for any number of delegated turns, follow-ups, humans and keys:

- `InputTypeCorrect`: the type invariant;
- `SentTextIsOwn`: `SentAlone`;
- `TurnIsOwn`: `StartedOwnTurn`;
- `HandsAreOff`: the action properties of `HandsOff`.

`TerminalAssumption` only gives the fields of a situation their types and keeps the
kinds of clients apart. `InputInv` is built in layers, one per property, because each
holds under its own conditions. `Basis`: the type invariant, where a client can be
(`PlacesInv`), and that only a human's lease is ever short (`LeaseInv`). `WatchInv`: a
delegate has the lease from its grant to the end of its turn; with it, no key of a
human passes. `CompositionInv`: whoever is attached and has text in the line has the
lease, long, and the host has counted at least the characters behind his first
(`Composes`), so that erasing cannot make the lease short while something of his is
left: that is where the host must follow the line (`Shadowed`); it needs `ConfigInv`, for the host counts nothing while a configuration command
is pending. `AloneInv`: between its two requests the text of an automation is all there
is in the line, under its own lease, and a follow-up's nameless Enter is charged to it;
whoever else would write is refused, and whoever wrote before is still attached and
protected by `CompositionInv`. `QueueInv` is for `StartedOwnTurn`: at most one command
waits for its turn, it is that of the client with the lease (`Waiting`), a delegate has
counted the turns before its own (`Counts`), and a human's attach that has seen a turn
has seen that of his last command (`Sees`).

Some properties of the first models did not survive these proofs: `SentAlone`,
`StartedOwnTurn` and `PlainCompositionProtected` were stated more widely than is true.
They held on instances whose humans pressed too few keys; the situations of the run now
allow for a second command, the properties name what they exclude, and section 4
describes what happens there.

What is model-checked only is liveness: `StaleLockRecovered`, `GenerationsCount` as far
as it says that a run ends (`RunEnds`), `CompletionSeen`, `CallsEnd` and `InputReturns`.
It rests on fairness, which the provers do not reach. Every inductive invariant was first
checked by TLC as an invariant of the component's run.

## 7. What is not modelled

Components with status `not_modelled` in `PROJECT.json`:

- terminal session records and hosts, Security recovery, the account registry: next
  in the plan, section 3;
- repository trust, reports, the architect's plan, doctor, argument parsing: text in,
  text out;
- Git baselines and attribution: reads of Git and hashes, which the modules have as
  snapshots (`SecurityScanGate`) or a map of paths (`Delegation`);
- child processes and process trees, safe paths and atomic writes: operating-system
  calls that the modules have as single steps; `RunRecovery`, `LiveEvents` and
  `ActorDispatch` let them fail;
- the dashboard's HTTP service, beyond its App Server reads (`AppServerSessions`) and
  its event stream (`LiveEvents`): request handling and rendering;
- installers, prompts, schemas: static.

Not modelled inside the modelled components: contents of prompts, reports and diffs;
the wording of errors, except where a classification rests on it; time as a number; a
crash of a whole host of App Server children, or Ctrl-C while it starts or closes one; deletion of a mapping that fails;
readiness probes and the Security recovery turn; the life of terminal hosts; what a
provider's process starts itself.
