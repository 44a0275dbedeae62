------------------------ MODULE RepositoryLockProofs ------------------------
(***************************************************************************)
(* Machine-checked proofs about the repository lock, for any set of        *)
(* requests and pids, any number of pid reuses and retries, and whether or *)
(* not operating-system calls fail.                                        *)
(***************************************************************************)
EXTENDS RepositoryLock, TLAPS

-----------------------------------------------------------------------------
(* The inductive invariant.  MutualExclusion is not inductive: it needs to *)
(* know whose claim it is, whose file is on disk and that a payload on     *)
(* disk truthfully describes a live owner.                                 *)

(* The claim is held by the one request between taking and dropping it.    *)
ClaimInv == \A r \in Requests : claim = r <=> pc[r] \in Claiming

(* A request only runs in a process that exists.                           *)
LiveInv == \A r \in Requests : pc[r] \in Active => alive[home[r]]

(* Its payload carries that process's start token, or none.                *)
TokenInv ==
  \A r \in Requests : pc[r] \in Active => token[r] \in {NoToken, start[home[r]]}

(* Only the writer finds its unfinished file.                              *)
WriteInv == \A r \in Requests : pc[r] = "write" => lockFile = Unwritten

(* A judged snapshot is the payload on disk.                               *)
JudgeInv ==
  \A r \in Requests : pc[r] = "judge" => lockFile = seen[r] /\ seen[r] \in Payloads

LockInv ==
  /\ TypeOK
  /\ ClaimInv
  /\ LiveInv
  /\ TokenInv
  /\ HolderNamedByFile
  /\ WriteInv
  /\ JudgeInv

-----------------------------------------------------------------------------
(* A payload names one request and one process, and is told apart from an  *)
(* absent and from an unfinished lock file.                                *)
LEMMA FileFacts ==
  /\ NoFile # Unwritten
  /\ NoFile \notin Payloads
  /\ Unwritten \notin Payloads
  /\ \A f \in Payloads : f.pid \in Pids /\ f.start \in 0..MaxStarts
  /\ \A r \in Requests, p \in Pids, t \in 0..MaxStarts :
       /\ File(r, p, t) \in Payloads
       /\ File(r, p, t).req = r
       /\ File(r, p, t).pid = p
       /\ File(r, p, t).start = t
<1>1. NoFile.kind = "absent" /\ Unwritten.kind = "unwritten"
  BY DEF NoFile, Unwritten
<1>2. \A f \in Payloads : f.kind = "payload" /\ f.pid \in Pids /\ f.start \in 0..MaxStarts
  BY DEF Payloads, File
<1>3. \A r \in Requests, p \in Pids, t \in 0..MaxStarts : File(r, p, t) \in Payloads
  BY DEF Payloads
<1>4. \A r, p, t : File(r, p, t).req = r /\ File(r, p, t).pid = p /\ File(r, p, t).start = t
  BY DEF File
<1>. QED
  BY <1>1, <1>2, <1>3, <1>4

(* The payload of a running request is never judged to be abandoned.       *)
LEMMA OwnerNotGone ==
  ASSUME TypeOK, LiveInv, TokenInv, NEW r \in Requests, pc[r] \in Active
  PROVE  /\ Payload(r) \in Payloads
         /\ ~Gone(Payload(r))
         /\ TRUE \notin Verdicts(Payload(r))
<1>1. home[r] \in Pids /\ token[r] \in 0..MaxStarts
  BY DEF TypeOK
<1>2. /\ Payload(r) \in Payloads
      /\ Payload(r).pid = home[r]
      /\ Payload(r).start = token[r]
  BY <1>1, FileFacts DEF Payload
<1>3. alive[home[r]] /\ token[r] \in {NoToken, start[home[r]]}
  BY DEF LiveInv, TokenInv
<1>4. ~Gone(Payload(r))
  BY <1>2, <1>3 DEF Gone
<1>. QED
  BY <1>2, <1>4 DEF Verdicts

LEMMA InitLockInv == Init => LockInv
BY LockAssumption, FileFacts
   DEF Init, LockInv, TypeOK, ClaimInv, LiveInv, TokenInv, HolderNamedByFile,
       WriteInv, JudgeInv, Active, Trying, Owning, Claiming, Settled, Files, NoToken

-----------------------------------------------------------------------------
(* The steps of acquire().                                                 *)

LEMMA BeginStep ==
  ASSUME LockInv, NEW r \in Requests, Begin(r)
  PROVE  LockInv'
BY LockAssumption DEF Begin, Goto, Tokens, LockInv, TypeOK, ClaimInv, LiveInv, TokenInv,
       HolderNamedByFile, IsHeldForRepository, Payload, WriteInv, JudgeInv,
       Active, Trying, Owning, Claiming, Settled, NoToken

LEMMA TakeClaimStep ==
  ASSUME LockInv, NEW r \in Requests, TakeClaim(r)
  PROVE  LockInv'
BY LockAssumption DEF TakeClaim, Goto, LockInv, TypeOK, ClaimInv, LiveInv, TokenInv,
       HolderNamedByFile, IsHeldForRepository, Payload, WriteInv, JudgeInv,
       Active, Trying, Owning, Claiming, Settled, NoToken

LEMMA ClaimBusyStep ==
  ASSUME LockInv, NEW r \in Requests, ClaimBusy(r)
  PROVE  LockInv'
BY LockAssumption
   DEF Goto, LockInv, TypeOK, ClaimInv, LiveInv, TokenInv, HolderNamedByFile,
       IsHeldForRepository, Payload, WriteInv, JudgeInv, Active, Trying, Owning,
       Claiming, Settled, NoToken, Files, ClaimBusy

LEMMA ClaimFailsStep ==
  ASSUME LockInv, NEW r \in Requests, ClaimFails(r)
  PROVE  LockInv'
BY LockAssumption
   DEF Goto, LockInv, TypeOK, ClaimInv, LiveInv, TokenInv, HolderNamedByFile,
       IsHeldForRepository, Payload, WriteInv, JudgeInv, Active, Trying, Owning,
       Claiming, Settled, NoToken, Files, ClaimFails

LEMMA CreateStep ==
  ASSUME LockInv, NEW r \in Requests, Create(r)
  PROVE  LockInv'
BY LockAssumption, FileFacts
   DEF Goto, LockInv, TypeOK, ClaimInv, LiveInv, TokenInv, HolderNamedByFile,
       IsHeldForRepository, Payload, WriteInv, JudgeInv, Active, Trying, Owning,
       Claiming, Settled, NoToken, Files, Create

(* While r writes, the file is r's unfinished one: nobody else owns it.    *)
LEMMA WriteStep ==
  ASSUME LockInv, NEW r \in Requests, Write(r)
  PROVE  LockInv'
<1>1. /\ pc[r] = "write" /\ lockFile = Unwritten /\ claim = r
      /\ Payload(r) \in Payloads
      /\ \A q \in Requests : Payload(q) \in Payloads
      /\ Unwritten \notin Payloads
  BY FileFacts DEF Write, LockInv, TypeOK, ClaimInv, WriteInv, Claiming, Payload
<1>2. \A q \in Requests : pc[q] \notin Owning
  BY <1>1 DEF LockInv, HolderNamedByFile, IsHeldForRepository
<1>3. \A q \in Requests : q # r => pc[q] \notin Claiming
  BY <1>1 DEF LockInv, ClaimInv
<1>4. HolderNamedByFile'
  BY <1>2 DEF Write, Goto, LockInv, TypeOK, HolderNamedByFile, IsHeldForRepository,
              Payload, Owning
<1>5. ClaimInv' /\ WriteInv' /\ JudgeInv'
  BY <1>3, LockAssumption
     DEF Write, Goto, LockInv, TypeOK, ClaimInv, WriteInv, JudgeInv, Claiming
<1>6. TypeOK' /\ LiveInv' /\ TokenInv'
  BY <1>1 DEF Write, Goto, LockInv, TypeOK, LiveInv, TokenInv, Files, Active, Trying,
              Owning, Settled
<1>. QED
  BY <1>4, <1>5, <1>6 DEF LockInv

LEMMA WriteFailsStep ==
  ASSUME LockInv, NEW r \in Requests, WriteFails(r)
  PROVE  LockInv'
<1>1. /\ pc[r] = "write" /\ lockFile = Unwritten /\ claim = r
      /\ \A q \in Requests : Payload(q) \in Payloads
      /\ Unwritten \notin Payloads
  BY FileFacts DEF WriteFails, LockInv, TypeOK, ClaimInv, WriteInv, Claiming, Payload
<1>2. \A q \in Requests : pc[q] \notin Owning
  BY <1>1 DEF LockInv, HolderNamedByFile, IsHeldForRepository
<1>3. \A q \in Requests : q # r => pc[q] \notin Claiming
  BY <1>1 DEF LockInv, ClaimInv
<1>4. HolderNamedByFile'
  BY <1>2 DEF WriteFails, Goto, LockInv, TypeOK, HolderNamedByFile, Owning
<1>5. ClaimInv' /\ WriteInv' /\ JudgeInv'
  BY <1>3, LockAssumption
     DEF WriteFails, Goto, LockInv, TypeOK, ClaimInv, WriteInv, JudgeInv, Claiming
<1>6. TypeOK' /\ LiveInv' /\ TokenInv'
  BY <1>1 DEF WriteFails, Goto, LockInv, TypeOK, LiveInv, TokenInv, Files, Active, Trying,
              Owning, Settled
<1>. QED
  BY <1>4, <1>5, <1>6 DEF LockInv

LEMMA UnreadableStep ==
  ASSUME LockInv, NEW r \in Requests, Unreadable(r)
  PROVE  LockInv'
BY LockAssumption
   DEF Goto, LockInv, TypeOK, ClaimInv, LiveInv, TokenInv, HolderNamedByFile,
       IsHeldForRepository, Payload, WriteInv, JudgeInv, Active, Trying, Owning,
       Claiming, Settled, NoToken, Files, Unreadable

LEMMA InspectStep ==
  ASSUME LockInv, NEW r \in Requests, Inspect(r)
  PROVE  LockInv'
BY LockAssumption
   DEF Goto, LockInv, TypeOK, ClaimInv, LiveInv, TokenInv, HolderNamedByFile,
       IsHeldForRepository, Payload, WriteInv, JudgeInv, Active, Trying, Owning,
       Claiming, Settled, NoToken, Files, Inspect

LEMMA RefuseStep ==
  ASSUME LockInv, NEW r \in Requests, Refuse(r)
  PROVE  LockInv'
BY LockAssumption
   DEF Goto, LockInv, TypeOK, ClaimInv, LiveInv, TokenInv, HolderNamedByFile,
       IsHeldForRepository, Payload, WriteInv, JudgeInv, Active, Trying, Owning,
       Claiming, Settled, NoToken, Files, Refuse

LEMMA RecoverFailsStep ==
  ASSUME LockInv, NEW r \in Requests, RecoverFails(r)
  PROVE  LockInv'
BY LockAssumption
   DEF Goto, LockInv, TypeOK, ClaimInv, LiveInv, TokenInv, HolderNamedByFile,
       IsHeldForRepository, Payload, WriteInv, JudgeInv, Active, Trying, Owning,
       Claiming, Settled, NoToken, Files, RecoverFails

LEMMA BeginReleaseStep ==
  ASSUME LockInv, NEW r \in Requests, BeginRelease(r)
  PROVE  LockInv'
BY LockAssumption
   DEF Goto, LockInv, TypeOK, ClaimInv, LiveInv, TokenInv, HolderNamedByFile,
       IsHeldForRepository, Payload, WriteInv, JudgeInv, Active, Trying, Owning,
       Claiming, Settled, NoToken, Files, BeginRelease

LEMMA ReleaseClaimStep ==
  ASSUME LockInv, NEW r \in Requests, ReleaseClaim(r)
  PROVE  LockInv'
BY LockAssumption
   DEF Goto, LockInv, TypeOK, ClaimInv, LiveInv, TokenInv, HolderNamedByFile,
       IsHeldForRepository, Payload, WriteInv, JudgeInv, Active, Trying, Owning,
       Claiming, Settled, NoToken, Files, ReleaseClaim

LEMMA ReleaseBusyStep ==
  ASSUME LockInv, NEW r \in Requests, ReleaseBusy(r)
  PROVE  LockInv'
BY LockAssumption
   DEF Goto, LockInv, TypeOK, ClaimInv, LiveInv, TokenInv, HolderNamedByFile,
       IsHeldForRepository, Payload, WriteInv, JudgeInv, Active, Trying, Owning,
       Claiming, Settled, NoToken, Files, ReleaseBusy

LEMMA UnlinkStep ==
  ASSUME LockInv, NEW r \in Requests, Unlink(r)
  PROVE  LockInv'
BY LockAssumption, FileFacts
   DEF Goto, LockInv, TypeOK, ClaimInv, LiveInv, TokenInv, HolderNamedByFile,
       IsHeldForRepository, Payload, WriteInv, JudgeInv, Active, Trying, Owning,
       Claiming, Settled, NoToken, Files, Unlink

LEMMA UnlinkFailsStep ==
  ASSUME LockInv, NEW r \in Requests, UnlinkFails(r)
  PROVE  LockInv'
BY LockAssumption
   DEF Goto, LockInv, TypeOK, ClaimInv, LiveInv, TokenInv, HolderNamedByFile,
       IsHeldForRepository, Payload, WriteInv, JudgeInv, Active, Trying, Owning,
       Claiming, Settled, NoToken, Files, UnlinkFails

LEMMA ProcessDiesStep ==
  ASSUME LockInv, NEW p \in Pids, ProcessDies(p)
  PROVE  LockInv'
BY LockAssumption
   DEF Goto, LockInv, TypeOK, ClaimInv, LiveInv, TokenInv, HolderNamedByFile,
       IsHeldForRepository, Payload, WriteInv, JudgeInv, Active, Trying, Owning,
       Claiming, Settled, NoToken, Files, ProcessDies

LEMMA ProcessStartsStep ==
  ASSUME LockInv, NEW p \in Pids, ProcessStarts(p)
  PROVE  LockInv'
BY LockAssumption
   DEF Goto, LockInv, TypeOK, ClaimInv, LiveInv, TokenInv, HolderNamedByFile,
       IsHeldForRepository, Payload, WriteInv, JudgeInv, Active, Trying, Owning,
       Claiming, Settled, NoToken, Files, ProcessStarts

(* The step that would break the lock if r could take a live file for a    *)
(* stale one: the judged file belongs to no active request.                *)
LEMMA RecoverStep ==
  ASSUME LockInv, NEW r \in Requests, Recover(r)
  PROVE  LockInv'
<1>1. /\ pc[r] = "judge" /\ lockFile = seen[r] /\ claim = r
      /\ TRUE \in Verdicts(lockFile)
      /\ lockFile' = NoFile
  BY DEF Recover, LockInv, ClaimInv, JudgeInv, Claiming
<1>2. \A q \in Requests : pc[q] \notin Owning
  <2>1. ASSUME NEW q \in Requests, pc[q] \in Owning
        PROVE  FALSE
    <3>1. pc[q] \in Active /\ lockFile = Payload(q)
      BY <2>1 DEF LockInv, HolderNamedByFile, IsHeldForRepository, Active
    <3>2. TypeOK /\ LiveInv /\ TokenInv
      BY DEF LockInv
    <3>3. TRUE \notin Verdicts(Payload(q))
      BY <3>1, <3>2, OwnerNotGone
    <3>. QED
      BY <1>1, <3>1, <3>3
  <2>. QED
    BY <2>1
<1>3. \A q \in Requests : q # r => pc[q] \notin Claiming
  BY <1>1 DEF LockInv, ClaimInv
<1>4. HolderNamedByFile'
  BY <1>2 DEF Recover, Goto, LockInv, TypeOK, HolderNamedByFile, Owning
<1>5. ClaimInv' /\ WriteInv' /\ JudgeInv'
  BY <1>3, LockAssumption
     DEF Recover, Goto, LockInv, TypeOK, ClaimInv, WriteInv, JudgeInv, Claiming
<1>6. TypeOK'
  BY <1>1 DEF Recover, Goto, LockInv, TypeOK, Files, Active, Trying, Settled
<1>7. LiveInv' /\ TokenInv'
  BY <1>1 DEF Recover, Goto, LockInv, TypeOK, LiveInv, TokenInv, Active, Trying, Owning
<1>. QED
  BY <1>4, <1>5, <1>6, <1>7 DEF LockInv

-----------------------------------------------------------------------------
LEMMA LockInvStep == LockInv /\ [Next]_vars => LockInv'
<1> SUFFICES ASSUME LockInv, [Next]_vars
             PROVE  LockInv'
  OBVIOUS
<1>1. ASSUME NEW r \in Requests, Begin(r) \/ ClaimFails(r) \/ BeginRelease(r)
      PROVE  LockInv'
  BY <1>1, BeginStep, ClaimFailsStep, BeginReleaseStep
<1>2. ASSUME NEW r \in Requests, Acquire(r)
      PROVE  LockInv'
  BY <1>2, TakeClaimStep, ClaimBusyStep, CreateStep, WriteStep, WriteFailsStep,
     UnreadableStep, InspectStep, RefuseStep, RecoverStep, RecoverFailsStep DEF Acquire
<1>3. ASSUME NEW r \in Requests, Release(r)
      PROVE  LockInv'
  BY <1>3, ReleaseClaimStep, ReleaseBusyStep, UnlinkStep, UnlinkFailsStep DEF Release
<1>4. ASSUME NEW p \in Pids, ProcessDies(p) \/ ProcessStarts(p)
      PROVE  LockInv'
  BY <1>4, ProcessDiesStep, ProcessStartsStep
<1>5. CASE UNCHANGED vars
  BY <1>5 DEF vars, LockInv, TypeOK, ClaimInv, LiveInv, TokenInv, HolderNamedByFile,
              IsHeldForRepository, Payload, WriteInv, JudgeInv
<1>. QED
  BY <1>1, <1>2, <1>3, <1>4, <1>5 DEF Next

(* The inductive invariant holds in every reachable state.                 *)
THEOREM LockInvariant == Spec => []LockInv
BY InitLockInv, LockInvStep, PTL DEF Spec

(* Every variable keeps its type.                                          *)
THEOREM TypeCorrect == Spec => []TypeOK
<1>1. LockInv => TypeOK
  BY DEF LockInv
<1>. QED
  BY <1>1, LockInvariant, PTL

(* A request that relies on the lock is always named by the lock file.     *)
THEOREM HolderNamed == Spec => []HolderNamedByFile
<1>1. LockInv => HolderNamedByFile
  BY DEF LockInv
<1>. QED
  BY <1>1, LockInvariant, PTL

(* Two users would both be named by the one lock file, which names one.    *)
LEMMA OneUser == LockInv => MutualExclusion
<1> SUFFICES ASSUME LockInv, NEW q \in Users, NEW r \in Users
             PROVE  q = r
  BY DEF MutualExclusion
<1>1. /\ q \in Requests /\ r \in Requests
      /\ lockFile = Payload(q) /\ lockFile = Payload(r)
  BY DEF Users, LockInv, HolderNamedByFile, IsHeldForRepository, Owning
<1>2. /\ home[q] \in Pids /\ home[r] \in Pids
      /\ token[q] \in 0..MaxStarts /\ token[r] \in 0..MaxStarts
  BY <1>1 DEF LockInv, TypeOK
<1>3. Payload(q).req = q /\ Payload(r).req = r
  BY DEF Payload, File
<1>. QED
  BY <1>1, <1>3

(* At most one request works on the repository at a time.                  *)
THEOREM MutualExclusionHolds == Spec => []MutualExclusion
BY OneUser, LockInvariant, PTL

(* The file acquire() unlinks is the one it judged.                        *)
THEOREM InspectionCurrent == Spec => []InspectionIsCurrent
<1>1. LockInv => InspectionIsCurrent
  BY DEF LockInv, JudgeInv, InspectionIsCurrent
<1>. QED
  BY <1>1, LockInvariant, PTL

(* A crash never leaves the recovery claim behind.                         *)
THEOREM ClaimReclaimed == Spec => []ClaimNeverLeaks
<1>1. LockInv => ClaimNeverLeaks
  BY LockAssumption
     DEF LockInv, TypeOK, ClaimInv, LiveInv, ClaimNeverLeaks, Claiming, Active, Trying, Owning
<1>. QED
  BY <1>1, LockInvariant, PTL

-----------------------------------------------------------------------------
(* What may happen to the lock file in one step.                           *)
RemovalStep ==
  /\ lockFile \in Payloads /\ lockFile' # lockFile =>
       \/ Gone(lockFile)
       \/ pc[lockFile.req] = "unlink"
  /\ lockFile = Unwritten /\ lockFile' # lockFile =>
       \E r \in Requests : pc[r] = "write" /\ pc'[r] \in {"held", "failed"}

LEMMA RemovalIsJustified == LockInv /\ [Next]_vars => RemovalStep \/ UNCHANGED vars
<1> SUFFICES ASSUME LockInv, Next
             PROVE  RemovalStep
  OBVIOUS
<1>1. CASE UNCHANGED lockFile
  BY <1>1 DEF RemovalStep
<1>2. ASSUME NEW r \in Requests, Create(r)
      PROVE  RemovalStep
  BY <1>2, FileFacts DEF Create, RemovalStep
<1>3. ASSUME NEW r \in Requests, Write(r) \/ WriteFails(r)
      PROVE  RemovalStep
  <2>1. /\ pc[r] = "write" /\ pc'[r] \in {"held", "failed"}
        /\ lockFile = Unwritten
    BY <1>3 DEF Write, WriteFails, Goto, LockInv, TypeOK, WriteInv
  <2>. QED
    BY <2>1, FileFacts DEF RemovalStep
<1>4. ASSUME NEW r \in Requests, Recover(r)
      PROVE  RemovalStep
  <2>1. lockFile \in Payloads /\ Gone(lockFile)
    <3>1. pc[r] = "judge" /\ TRUE \in Verdicts(seen[r])
      BY <1>4 DEF Recover
    <3>2. lockFile = seen[r] /\ seen[r] \in Payloads
      BY <3>1 DEF LockInv, JudgeInv
    <3>. QED
      BY <3>1, <3>2 DEF Verdicts
  <2>. QED
    BY <2>1, FileFacts DEF RemovalStep
<1>5. ASSUME NEW r \in Requests, Unlink(r)
      PROVE  RemovalStep
  <2>1. pc[r] = "unlink" /\ lockFile = Payload(r)
    BY <1>5 DEF Unlink, LockInv, HolderNamedByFile, IsHeldForRepository, Owning
  <2>2. home[r] \in Pids /\ token[r] \in 0..MaxStarts
    BY DEF LockInv, TypeOK
  <2>3. lockFile \in Payloads /\ lockFile.req = r
    BY <2>1, <2>2, FileFacts DEF Payload
  <2>. QED
    BY <2>1, <2>3, FileFacts DEF RemovalStep
<1>6. \/ UNCHANGED lockFile
      \/ \E r \in Requests : \/ Create(r) \/ Write(r) \/ WriteFails(r)
                             \/ Recover(r) \/ Unlink(r)
  BY DEF Next, Begin, Acquire, ClaimFails, BeginRelease, Release, TakeClaim, ClaimBusy,
         Unreadable, Inspect, Refuse, RecoverFails, ReleaseClaim, ReleaseBusy,
         UnlinkFails, ProcessDies, ProcessStarts
<1>. QED
  BY <1>1, <1>2, <1>3, <1>4, <1>5, <1>6

(* Only stale and released locks disappear; an unreadable lock stays.      *)
THEOREM OnlyStaleOrReleasedRemoved == Spec => RemovalJustified
BY LockInvariant, RemovalIsJustified, PTL DEF Spec, RemovalJustified, RemovalStep

-----------------------------------------------------------------------------
(* Every step of the protocol is a step of the abstract lock or leaves its *)
(* users alone.                                                            *)
LEMMA StepRefines == LockInv /\ [Next]_vars => Abstract!Next \/ UNCHANGED Users
<1> SUFFICES ASSUME LockInv, [Next]_vars
             PROVE  Abstract!Next \/ Users' = Users
  OBVIOUS
<1>1. \A q, r \in Users : q = r
  BY OneUser DEF MutualExclusion
<1>2. ASSUME Users' \subseteq Users
      PROVE  Abstract!Next \/ Users' = Users
  BY <1>1, <1>2 DEF Abstract!Next, Abstract!Leave
<1>3. ASSUME NEW r \in Requests, Write(r)
      PROVE  Abstract!Next
  <2>1. pc[r] = "write" /\ lockFile = Unwritten
    BY <1>3 DEF Write, LockInv, WriteInv
  <2>2. \A q \in Requests : Payload(q) \in Payloads
    BY FileFacts DEF LockInv, TypeOK, Payload
  <2>3. Users = {}
    BY <2>1, <2>2, FileFacts
       DEF Users, LockInv, HolderNamedByFile, IsHeldForRepository, Owning
  <2>4. Users' = {r}
    BY <1>3, <2>3 DEF Write, Goto, Users, LockInv, TypeOK
  <2>. QED
    BY <2>3, <2>4 DEF Abstract!Next, Abstract!Enter
<1>4. ASSUME Next, \A q \in Requests : ~Write(q)
      PROVE  Users' \subseteq Users
  <2>1. ASSUME NEW q \in Requests, pc[q] # "held"
        PROVE  pc'[q] # "held"
    BY <1>4, <2>1
       DEF Next, Begin, Acquire, ClaimFails, BeginRelease, Release, TakeClaim, ClaimBusy,
           Create, WriteFails, Unreadable, Inspect, Refuse, Recover, RecoverFails,
           ReleaseClaim, ReleaseBusy, Unlink, UnlinkFails, ProcessDies, ProcessStarts,
           Goto, LockInv, TypeOK
  <2>. QED
    BY <2>1 DEF Users
<1>5. CASE UNCHANGED vars
  BY <1>5 DEF vars, Users
<1>6. CASE Next
  <2>1. CASE \E r \in Requests : Write(r)
    BY <2>1, <1>3
  <2>2. CASE \A r \in Requests : ~Write(r)
    BY <1>2, <1>4, <1>6, <2>2
  <2>. QED
    BY <2>1, <2>2
<1>. QED
  BY <1>5, <1>6

(* The lock file protocol implements exclusive use of the repository.      *)
THEOREM Refinement == Spec => ImplementsExclusiveUse
<1>1. Init => Abstract!Init
  BY DEF Init, Abstract!Init, Users
<1>. QED
  BY <1>1, LockInvariant, StepRefines, PTL DEF Spec, ImplementsExclusiveUse, Abstract!Spec

=============================================================================
