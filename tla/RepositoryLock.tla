--------------------------- MODULE RepositoryLock ---------------------------
(***************************************************************************)
(* The repository-scoped lock of dual_codex/delegation.py: a JSON file     *)
(* created with O_EXCL, guarded by a kernel file lock (the "recovery       *)
(* claim") that serialises acquisition, stale-lock recovery and release.   *)
(*                                                                         *)
(* A request is one RepositoryLock object; requests run as threads of      *)
(* processes, processes die without cleaning up, and the operating system  *)
(* reuses process identifiers.                                             *)
(***************************************************************************)
EXTENDS Integers, FiniteSets

CONSTANTS
  Requests,      \* lock objects: one "run" or one "delegate" call each
  Pids,          \* process identifiers the operating system hands out
  MaxStarts,     \* bound: incarnations of one pid
  AcquireTries,  \* passes of the loop in acquire()
  ReleaseTries,  \* claims release() asks for before it gives up
  IOMayFail,     \* may an operating-system call fail?
  Nobody         \* no holder, no file, no snapshot

ASSUME LockAssumption ==
  /\ MaxStarts \in Nat \ {0}
  /\ AcquireTries \in Nat \ {0}
  /\ ReleaseTries \in Nat \ {0}
  /\ IOMayFail \in BOOLEAN
  /\ Nobody \notin Requests

VARIABLES
  alive,     \* alive[p]: a process with pid p exists
  start,     \* start[p]: start token of the latest process with pid p
  pc,        \* what each request is doing
  home,      \* home[r]: pid of the process that runs r
  token,     \* token[r]: process_start in r's payload, 0 when unavailable
  tries,     \* passes of the current loop of r
  seen,      \* seen[r]: lock file contents r inspected
  lockFile,  \* contents of the lock file
  claim      \* request holding the recovery claim

vars == <<alive, start, pc, home, token, tries, seen, lockFile, claim>>

-----------------------------------------------------------------------------
NoToken == 0

Claiming == {"create", "write", "judge", "unlink"}  \* recovery claim held
Owning   == {"held", "releasing", "unlink"}         \* own lock file on disk
Trying   == {"start", "create", "write", "judge"}   \* inside acquire()
Active   == Trying \cup Owning
Settled  == {"idle", "refused", "raced", "failed", "released", "abandoned", "dead"}

NoFile    == [kind |-> "absent"]
Unwritten == [kind |-> "unwritten"]   \* created, payload not (fully) written
File(r, p, t) == [kind |-> "payload", req |-> r, pid |-> p, start |-> t]
Payload(r) == File(r, home[r], token[r])

Payloads == {File(r, p, t) : r \in Requests, p \in Pids, t \in 0..MaxStarts}
Files == Payloads \cup {NoFile, Unwritten}

(* Mutant: an unavailable token is encoded as -1.                          *)
TokensNegative(p) == {start[p], -1}

(* _process_start_token: a query may fail, then no token is available.     *)
Tokens(p) == {start[p]} \cup (IF IOMayFail THEN {NoToken} ELSE {})

(* Mutant: start tokens are not compared, a reused pid looks alive.        *)
GoneIgnoresToken(f) == ~alive[f.pid]

(* _pid_alive and the comparison of start tokens: the owner recorded in a  *)
(* payload is provably gone.                                               *)
Gone(f) ==
  \/ ~alive[f.pid]
  \/ f.start # NoToken /\ start[f.pid] # f.start

(* Mutant: a query that fails counts as a dead owner.                      *)
VerdictsOptimistic(f) == {Gone(f)} \cup (IF IOMayFail THEN {TRUE} ELSE {})

(* Possible outcomes of acquire()'s test: every failed query counts as a   *)
(* live owner.                                                             *)
Verdicts(f) == {Gone(f)} \cup (IF IOMayFail THEN {FALSE} ELSE {})

(* is_held_for_repository, when every query succeeds.                      *)
IsHeldForRepository(r) == pc[r] \in Owning /\ lockFile = Payload(r)

Goto(r, label) == pc' = [pc EXCEPT ![r] = label]

-----------------------------------------------------------------------------
Init ==
  /\ alive = [p \in Pids |-> TRUE]
  /\ start = [p \in Pids |-> 1]
  /\ pc = [r \in Requests |-> "idle"]
  /\ home \in [Requests -> Pids]
  /\ token = [r \in Requests |-> NoToken]
  /\ tries = [r \in Requests |-> 0]
  /\ seen = [r \in Requests |-> NoFile]
  /\ lockFile = NoFile
  /\ claim = Nobody

(* acquire() is called: the payload is composed once.                      *)
Begin(r) ==
  /\ pc[r] = "idle"
  /\ alive[home[r]]
  /\ \E t \in Tokens(home[r]) : token' = [token EXCEPT ![r] = t]
  /\ Goto(r, "start")
  /\ UNCHANGED <<alive, start, home, tries, seen, lockFile, claim>>

(* The claim is non-blocking: busy means refusal, not waiting.             *)
TakeClaim(r) ==
  /\ pc[r] = "start"
  /\ claim = Nobody
  /\ claim' = r
  /\ Goto(r, "create")
  /\ UNCHANGED <<alive, start, home, token, tries, seen, lockFile>>

ClaimBusy(r) ==
  /\ pc[r] = "start"
  /\ claim # Nobody
  /\ Goto(r, "refused")
  /\ UNCHANGED <<alive, start, home, token, tries, seen, lockFile, claim>>

(* Opening or locking the claim file fails: acquire() raises, release()     *)
(* raises after clearing _held and leaves the lock file behind.            *)
ClaimFails(r) ==
  /\ IOMayFail
  /\ pc[r] \in {"start", "releasing"}
  /\ Goto(r, IF pc[r] = "start" THEN "failed" ELSE "abandoned")
  /\ UNCHANGED <<alive, start, home, token, tries, seen, lockFile, claim>>

(* Mutant: O_EXCL is missing, an existing lock file is truncated.          *)
CreateTruncates(r) ==
  /\ pc[r] = "create"
  /\ lockFile' = Unwritten
  /\ Goto(r, "write")
  /\ UNCHANGED <<alive, start, home, token, tries, seen, claim>>

(* O_CREAT | O_EXCL succeeds.                                              *)
Create(r) ==
  /\ pc[r] = "create"
  /\ lockFile = NoFile
  /\ lockFile' = Unwritten
  /\ Goto(r, "write")
  /\ UNCHANGED <<alive, start, home, token, tries, seen, claim>>

(* Payload written and synced, _held set, claim released.                  *)
Write(r) ==
  /\ pc[r] = "write"
  /\ lockFile' = Payload(r)
  /\ claim' = Nobody
  /\ tries' = [tries EXCEPT ![r] = 0]
  /\ Goto(r, "held")
  /\ UNCHANGED <<alive, start, home, token, seen>>

(* Writing fails; the file just created is unlinked unless that fails too. *)
WriteFails(r) ==
  /\ IOMayFail
  /\ pc[r] = "write"
  /\ lockFile' \in {NoFile, Unwritten}
  /\ claim' = Nobody
  /\ Goto(r, "failed")
  /\ UNCHANGED <<alive, start, home, token, tries, seen>>

(* Mutant: a lock file that cannot be parsed is cleared away.              *)
UnreadableCleared(r) ==
  /\ pc[r] = "create"
  /\ lockFile = Unwritten
  /\ lockFile' = NoFile
  /\ claim' = Nobody
  /\ Goto(r, "refused")
  /\ UNCHANGED <<alive, start, home, token, tries, seen>>

(* FileExistsError and the file cannot be parsed.                          *)
Unreadable(r) ==
  /\ pc[r] = "create"
  /\ lockFile = Unwritten
  /\ claim' = Nobody
  /\ Goto(r, "refused")
  /\ UNCHANGED <<alive, start, home, token, tries, seen, lockFile>>

(* FileExistsError: identity and payload are read.                         *)
Inspect(r) ==
  /\ pc[r] = "create"
  /\ lockFile \in Payloads
  /\ seen' = [seen EXCEPT ![r] = lockFile]
  /\ Goto(r, "judge")
  /\ UNCHANGED <<alive, start, home, token, tries, lockFile, claim>>

(* The recorded owner counts as live.                                      *)
Refuse(r) ==
  /\ pc[r] = "judge"
  /\ FALSE \in Verdicts(seen[r])
  /\ claim' = Nobody
  /\ Goto(r, "refused")
  /\ UNCHANGED <<alive, start, home, token, tries, seen, lockFile>>

(* The recorded owner is gone: unlink the inspected file if it is still    *)
(* the same, release the claim and go round, at most AcquireTries times.   *)
Recover(r) ==
  /\ pc[r] = "judge"
  /\ TRUE \in Verdicts(seen[r])
  /\ lockFile' = IF lockFile = seen[r] THEN NoFile ELSE lockFile
  /\ claim' = Nobody
  /\ tries' = [tries EXCEPT ![r] = @ + 1]
  /\ Goto(r, IF tries[r] + 1 < AcquireTries THEN "start" ELSE "raced")
  /\ UNCHANGED <<alive, start, home, token, seen>>

(* Unlinking the stale file fails.                                         *)
RecoverFails(r) ==
  /\ IOMayFail
  /\ pc[r] = "judge"
  /\ TRUE \in Verdicts(seen[r])
  /\ claim' = Nobody
  /\ Goto(r, "failed")
  /\ UNCHANGED <<alive, start, home, token, tries, seen, lockFile>>

(* release() is called and the lock file exists.                           *)
BeginRelease(r) ==
  /\ pc[r] = "held"
  /\ Goto(r, IF lockFile = NoFile THEN "released" ELSE "releasing")
  /\ UNCHANGED <<alive, start, home, token, tries, seen, lockFile, claim>>

ReleaseClaim(r) ==
  /\ pc[r] = "releasing"
  /\ claim = Nobody
  /\ claim' = r
  /\ Goto(r, "unlink")
  /\ UNCHANGED <<alive, start, home, token, tries, seen, lockFile>>

(* The claim is busy: sleep and retry; after the last pass _held is        *)
(* cleared although the lock file is still there.                          *)
ReleaseBusy(r) ==
  /\ pc[r] = "releasing"
  /\ claim # Nobody
  /\ tries' = [tries EXCEPT ![r] = @ + 1]
  /\ Goto(r, IF tries[r] + 1 < ReleaseTries THEN "releasing" ELSE "abandoned")
  /\ UNCHANGED <<alive, start, home, token, seen, lockFile, claim>>

(* Only a file that names this request and this process is unlinked.       *)
Unlink(r) ==
  /\ pc[r] = "unlink"
  /\ lockFile' = IF lockFile = Payload(r) THEN NoFile ELSE lockFile
  /\ claim' = Nobody
  /\ Goto(r, "released")
  /\ UNCHANGED <<alive, start, home, token, tries, seen>>

(* Reading or unlinking fails: release() returns and leaves the lock file. *)
UnlinkFails(r) ==
  /\ IOMayFail
  /\ pc[r] = "unlink"
  /\ claim' = Nobody
  /\ Goto(r, "abandoned")
  /\ UNCHANGED <<alive, start, home, token, tries, seen, lockFile>>

-----------------------------------------------------------------------------
(* The environment: a process dies at any point, taking its requests and   *)
(* its kernel file lock but leaving the lock file; its pid is reused.      *)
ProcessDies(p) ==
  /\ alive[p]
  /\ alive' = [alive EXCEPT ![p] = FALSE]
  /\ pc' = [r \in Requests |->
              IF home[r] = p /\ pc[r] \in Active THEN "dead" ELSE pc[r]]
  /\ claim' = IF claim \in Requests /\ home[claim] = p THEN Nobody ELSE claim
  /\ UNCHANGED <<start, home, token, tries, seen, lockFile>>

ProcessStarts(p) ==
  /\ ~alive[p]
  /\ start[p] < MaxStarts
  /\ alive' = [alive EXCEPT ![p] = TRUE]
  /\ start' = [start EXCEPT ![p] = @ + 1]
  /\ UNCHANGED <<pc, home, token, tries, seen, lockFile, claim>>

Acquire(r) ==
  \/ TakeClaim(r) \/ ClaimBusy(r) \/ Create(r) \/ Write(r) \/ WriteFails(r)
  \/ Unreadable(r) \/ Inspect(r) \/ Refuse(r) \/ Recover(r) \/ RecoverFails(r)

Release(r) ==
  ReleaseClaim(r) \/ ReleaseBusy(r) \/ Unlink(r) \/ UnlinkFails(r)

Next ==
  \/ \E r \in Requests : 
       \/ Begin(r) \/ Acquire(r) \/ ClaimFails(r)
       \/ BeginRelease(r) \/ Release(r)
  \/ \E p \in Pids : ProcessDies(p) \/ ProcessStarts(p)

(* Threads of live processes are scheduled; requests need not be made,     *)
(* bodies need not end, processes need neither die nor restart.            *)
Fairness == \A r \in Requests : WF_vars(Acquire(r)) /\ WF_vars(Release(r))

Spec == Init /\ [][Next]_vars

FairSpec == Spec /\ Fairness

-----------------------------------------------------------------------------
(* Types of the variables.                                                 *)
TypeOK ==
  /\ alive \in [Pids -> BOOLEAN]
  /\ start \in [Pids -> 1..MaxStarts]
  /\ pc \in [Requests -> Active \cup Settled]
  /\ home \in [Requests -> Pids]
  /\ token \in [Requests -> 0..MaxStarts]
  /\ tries \in [Requests -> Nat]
  /\ seen \in [Requests -> Files]
  /\ lockFile \in Files
  /\ claim \in Requests \cup {Nobody}

Users == {r \in Requests : pc[r] = "held"}

(* At most one request works on the repository, whatever processes die and *)
(* whichever pids are reused while others acquire and recover the lock.    *)
MutualExclusion == \A q, r \in Users : q = r

(* A request that still relies on the lock is named by the lock file: no   *)
(* other request's recovery or release took the file from under it, so     *)
(* is_held_for_repository keeps answering True until release() unlinks it. *)
HolderNamedByFile ==
  \A r \in Requests : pc[r] \in Owning => IsHeldForRepository(r)

(* The file that acquire() judged is the file it unlinks: nothing changes  *)
(* it between the inspection and the unlink, because every writer and      *)
(* remover holds the recovery claim.                                       *)
InspectionIsCurrent ==
  \A r \in Requests : pc[r] = "judge" => lockFile = seen[r]

(* A payload disappears from the lock file only when its owner released it *)
(* or when the process recorded in it is gone; a lock file that cannot be  *)
(* parsed is removed by nobody but the request that is still writing it.   *)
RemovalJustified ==
  [][/\ lockFile \in Payloads /\ lockFile' # lockFile =>
          \/ Gone(lockFile)
          \/ pc[lockFile.req] = "unlink"
     /\ lockFile = Unwritten /\ lockFile' # lockFile =>
          \E r \in Requests : pc[r] = "write" /\ pc'[r] \in {"held", "failed"}
    ]_vars

(* A kernel file lock dies with its process: the claim is never left with  *)
(* a request that is not between taking and dropping it, so no crash makes *)
(* later requests fail with "another process is acquiring".                *)
ClaimNeverLeaks ==
  claim # Nobody => pc[claim] \in Claiming /\ alive[home[claim]]

(* The lock file names a process that is no more.                           *)
OwnerVanished ==
  /\ lockFile \in Payloads /\ lockFile.start # NoToken
  /\ ~alive[lockFile.pid] \/ start[lockFile.pid] # lockFile.start

(* A stale lock does not block the repository: a request that finds the    *)
(* file of a vanished process replaces it or dies trying.  (The start token *)
(* must be on record, a reused pid hides the owner's death otherwise.)     *)
StaleLockRecovered ==
  \A r \in Requests :
    (pc[r] = "create" /\ OwnerVanished) ~> (~OwnerVanished \/ pc[r] = "dead")

(* The lock as its callers see it.                                         *)
Abstract == INSTANCE ExclusiveUse WITH users <- Users

(* The lock protocol implements exclusive use of the repository.           *)
ImplementsExclusiveUse == Abstract!Spec

=============================================================================
