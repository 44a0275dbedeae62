----------------------------- MODULE ActorProofs -----------------------------
(***************************************************************************)
(* Machine-checked proofs about the actors of a role: their dispatch, for  *)
(* any set of runs of a repository and any configuration of actor and      *)
(* fallback, and the input of a Codex terminal, for any number of          *)
(* delegated turns, follow-ups, humans and keys.                           *)
(***************************************************************************)
EXTENDS ActorDispatch, TerminalInput, SequenceTheorems, TLAPS

-----------------------------------------------------------------------------
(* The inductive invariant.                                                *)

(* Only one run at a time does anything: the others' hosts are gone, or    *)
(* have given the repository lock back.                                    *)
Engaged(r) == host[r] = "alive" /\ at[r] \notin {"waiting", "released"}
OneEngaged == \A r, s \in Runs : Engaged(r) /\ Engaged(s) => r = s

(* A fallback has an actor; a turn that is judged has an end.              *)
Attempted(r) ==
  /\ attempt[r] = 2 => setting.spare # "none"
  /\ at[r] \in {"settle", "judge"} => ended[r][attempt[r]] # "none"
AttemptInv == \A r \in Runs : Attempted(r)

(* A process that was given the path of the artifact belongs to the        *)
(* attempt under way, or to one that was broken off, and the record says   *)
(* so: either the run reports it, or the cleanup leaves it alone.          *)
Reads(r, k) == provider[r][k] = "alive" /\ Backend(k) = "claude_code"
Protected(r, k) ==
  /\ k = attempt[r] /\ at[r] \in {"report", "turn", "look", "weigh", "done", "released"}
  /\ artifact[r]
  /\ owner[r] \in Records
  /\ owner[r].state = "starting" \/ (owner[r].state = "running" /\ owner[r].attempt = k)
  /\ at[r] = "weigh" => seen[r] = owner[r]
ReadersInv == \A r \in Runs, k \in Attempts : Reads(r, k) => Protected(r, k)

(* The host of a run finds its artifact and its record as it left them.    *)
Own(r) ==
  host[r] = "alive" =>
    /\ at[r] \in {"record", "start", "dispatch", "report", "turn", "settle", "judge"} => artifact[r]
    /\ at[r] \in {"dispatch", "report"} => owner[r] \in Records /\ owner[r].state = "starting"
    /\ at[r] = "judge" => owner[r] \in Records /\ owner[r].state = "exited"

(* What reconciliation has read is still so when it acts on it, and what   *)
(* it removes nobody reads.                                                *)
Scan(r) ==
  host[r] = "alive" =>
    /\ at[r] = "check" => seen[r] = owner[file[r]] /\ seen[r] \in Records
    /\ at[r] \in {"remove", "forget"} => \A k \in Attempts : ~Reads(file[r], k)

(* After a result or a failure of the actor the cleanup goes through.      *)
CleanedUp(r) ==
  told[r] \in {"result", "failed"} =>
    /\ at[r] \in {"look", "weigh", "unlink", "unrecord", "done", "released"}
    /\ at[r] \in {"done", "released"} => ~artifact[r] /\ owner[r] = NoRecord
    /\ host[r] = "alive" =>
         /\ at[r] \in {"look", "weigh", "unlink", "unrecord"} =>
              owner[r] \in Records /\ owner[r].state = "exited"
         /\ at[r] \in {"weigh", "unlink", "unrecord"} => seen[r] = owner[r]
         /\ at[r] = "unrecord" => ~artifact[r]

HostInv == \A r \in Runs : Own(r) /\ Scan(r) /\ CleanedUp(r)

(* An actor is at work only in its turn, unless it is one of those that    *)
(* stay.  Before its turn no attempt has a process, and one that goes to   *)
(* an API never has; nothing is told before the dispatch is over.          *)
Ahead == {"waiting", "reconcile", "check", "remove", "forget", "create", "record", "start", "dispatch"}
Closing == {"look", "weigh", "unlink", "unrecord", "done", "released"}
Excused(r, k) ==
  \/ k = attempt[r] /\ at[r] \in {"report", "turn"}
  \/ Backend(k) = "windows"
  \/ told[r] = "interrupted"
Unlaunched(r, k) ==
  k > attempt[r] \/ (k = attempt[r] /\ at[r] \in Ahead) \/ Backend(k) = "api"
InOrder(r) ==
  /\ \A k \in Attempts : AtWork(r, k) => Excused(r, k)
  /\ \A k \in Attempts : Unlaunched(r, k) => provider[r][k] = "none"
  /\ at[r] \notin Closing => told[r] = "none"
WorkInv == \A r \in Runs : InOrder(r)

IInv == TypeOK /\ OneEngaged /\ AttemptInv /\ ReadersInv /\ HostInv /\ WorkInv

-----------------------------------------------------------------------------
(* The operators.                                                          *)

(* Whatever a provider lets be seen, the turn of every adapter has an end. *)
LEMMA EndIsOutcome ==
  ASSUME NEW b \in Backends, NEW said \in Said, NEW clean \in BOOLEAN
  PROVE  End(b, said, clean) \in Outcomes \ {"none"}
<1>1. CASE b = "antigravity"
  BY <1>1 DEF End, AntigravityTurn, Said, Outcomes
<1>2. CASE b = "claude_code"
  BY <1>2 DEF End, ClaudeTurn, Said, Outcomes
<1>3. CASE b = "api"
  BY <1>3 DEF End, ApiTurn, Said, Outcomes
<1>4. CASE b = "app_server"
  BY <1>4 DEF End, AppServerTurn, Said, Outcomes
<1>5. CASE b = "windows"
  BY <1>5 DEF End, TerminalTurn, Said, Outcomes
<1>. QED
  BY <1>1, <1>2, <1>3, <1>4, <1>5 DEF Backends

LEMMA EarlyIsOutcome ==
  ASSUME NEW b \in Backends, NEW e \in EndsEarly(b)
  PROVE  e \in Outcomes \ {"none"}
BY DEF Backends, EndsEarly, ClaudeEarly, AntigravityEarly, Outcomes

(* The attempt under way has a backend.                                    *)
LEMMA BackendType ==
  ASSUME TypeOK, AttemptInv, NEW r \in Runs
  PROVE  Backend(attempt[r]) \in Backends
<1>1. setting.actor \in Backends /\ setting.spare \in Backends \cup {"none"}
  BY DispatchAssumption DEF TypeOK
<1>2. attempt[r] \in {1, 2} /\ (attempt[r] = 2 => setting.spare # "none")
  BY DEF TypeOK, Attempts, AttemptInv, Attempted
<1>. QED
  BY <1>1, <1>2 DEF Backend

(* What an update writes into a record.                                    *)
LEMMA UpdateType ==
  ASSUME TypeOK, NEW r \in Runs, NEW st \in {"starting", "running", "exited"}, Update(r, st)
  PROVE  /\ owner' \in [Runs -> Records \cup {NoRecord}]
         /\ owner'[r] \in Records
         /\ owner'[r].state = st
         /\ owner'[r].attempt = IF st = "running" THEN attempt[r] ELSE 0
         /\ \A s \in Runs : s # r => owner'[s] = owner[s]
<1>1. attempt[r] \in 0..2 /\ 0 \in 0..2
  BY DEF TypeOK, Attempts
<1>. DEFINE rec == [state |-> st, attempt |-> IF st = "running" THEN attempt[r] ELSE 0]
<1>2. rec \in Records
  BY <1>1 DEF Records
<1>3. owner' = [owner EXCEPT ![r] = rec]
  BY DEF Update
<1>4. owner \in [Runs -> Records \cup {NoRecord}]
  BY DEF TypeOK
<1>5. rec.state = st /\ rec.attempt = IF st = "running" THEN attempt[r] ELSE 0
  OBVIOUS
<1>. HIDE DEF rec
<1>. QED
  BY <1>2, <1>3, <1>4, <1>5

-----------------------------------------------------------------------------
(* Types.                                                                  *)

LEMMA TypeInit == Init => TypeOK
BY DEF Init, TypeOK, Attempts, Processes, Steps, Outcomes

LEMMA GoType ==
  ASSUME TypeOK, NEW r \in Runs, NEW a \in Steps, Go(r, a)
  PROVE  at' \in [Runs -> Steps]
BY DEF Go, TypeOK

LEMMA ProviderType ==
  ASSUME TypeOK, NEW r \in Runs, NEW k \in Attempts, NEW p \in Processes
  PROVE  [provider EXCEPT ![r][k] = p] \in [Runs -> [Attempts -> Processes]]
BY DEF TypeOK

LEMMA EndedType ==
  ASSUME TypeOK, NEW r \in Runs, NEW k \in Attempts, NEW e \in Outcomes
  PROVE  [ended EXCEPT ![r][k] = e] \in [Runs -> [Attempts -> Outcomes]]
BY DEF TypeOK

(* The process of a run as it was, or gone.                                *)
LEMMA AbandonedType ==
  ASSUME TypeOK, NEW r \in Runs, Abandoned(r)
  PROVE  provider' \in [Runs -> [Attempts -> Processes]]
<1>1. attempt[r] \in Attempts /\ provider[r][attempt[r]] \in Processes /\ "gone" \in Processes
  BY DEF TypeOK, Processes
<1>. DEFINE p == IF provider[r][attempt[r]] = "alive" /\ Backend(attempt[r]) # "windows" THEN "gone"
                ELSE provider[r][attempt[r]]
<1>2. p \in Processes
  BY <1>1
<1>3. provider' = [provider EXCEPT ![r][attempt[r]] = p]
  BY DEF Abandoned
<1>. HIDE DEF p
<1>. QED
  BY <1>1, <1>2, <1>3, ProviderType

LEMMA TypeStep ==
  ASSUME TypeOK, AttemptInv, [Next]_vars
  PROVE  TypeOK'
<1>. USE DEF unchangedRun, unchangedFiles, unchangedScan
<1>0. CASE UNCHANGED vars
  BY <1>0 DEF vars, TypeOK
<1>1. ASSUME NEW r \in Runs, Begin(r) PROVE TypeOK'
  BY <1>1 DEF Begin, Go, TypeOK, Processes, Steps
<1>2. ASSUME NEW r \in Runs, Read(r) PROVE TypeOK'
  <2>1. PICK d \in todo[r] :
          /\ todo' = [todo EXCEPT ![r] = @ \ {d}]
          /\ file' = [file EXCEPT ![r] = d]
          /\ seen' = [seen EXCEPT ![r] = owner[d]]
          /\ Go(r, IF Unproven(d) THEN "reconcile" ELSE "check")
    BY <1>2 DEF Read
  <2>2. d \in Runs /\ todo[r] \ {d} \in SUBSET Runs
    BY <2>1 DEF TypeOK
  <2>3. file' \in [Runs -> Runs] /\ seen' \in [Runs -> Records \cup {NoRecord}]
    BY <2>1, <2>2 DEF TypeOK
  <2>4. todo' \in [Runs -> SUBSET Runs]
    BY <2>1, <2>2 DEF TypeOK
  <2>5. at' \in [Runs -> Steps]
    BY <2>1 DEF TypeOK, Go, Steps
  <2>. QED
    BY <1>2, <2>3, <2>4, <2>5 DEF Read, TypeOK
<1>3. ASSUME NEW r \in Runs, Check(r) \/ Reconciled(r) PROVE TypeOK'
  <2>1. \E a \in Steps : Go(r, a)
    BY <1>3 DEF Check, Reconciled, Steps
  <2>2. at' \in [Runs -> Steps]
    BY <2>1, GoType
  <2>3. file' \in [Runs -> Runs]
    BY <1>3 DEF Check, Reconciled, TypeOK
  <2>. QED
    BY <1>3, <2>2, <2>3 DEF Check, Reconciled, TypeOK
<1>4. ASSUME NEW r \in Runs, Remove(r) \/ Unlink(r) \/ Create(r) PROVE TypeOK'
  <2>1. \E a \in Steps : Go(r, a)
    BY <1>4 DEF Remove, Unlink, Create, Steps
  <2>2. at' \in [Runs -> Steps]
    BY <2>1, GoType
  <2>3. artifact' \in [Runs -> BOOLEAN]
    BY <1>4 DEF Remove, Unlink, Create, TypeOK
  <2>. QED
    BY <1>4, <2>2, <2>3 DEF Remove, Unlink, Create, TypeOK
<1>5. ASSUME NEW r \in Runs, Forget(r) \/ Unrecord(r) PROVE TypeOK'
  <2>1. \E a \in Steps : Go(r, a)
    BY <1>5 DEF Forget, Unrecord, Steps
  <2>2. at' \in [Runs -> Steps]
    BY <2>1, GoType
  <2>3. owner' \in [Runs -> Records \cup {NoRecord}]
    BY <1>5 DEF Forget, Unrecord, TypeOK
  <2>. QED
    BY <1>5, <2>2, <2>3 DEF Forget, Unrecord, TypeOK
<1>6. ASSUME NEW r \in Runs, Record(r) PROVE TypeOK'
  <2>1. [state |-> "not_started", attempt |-> 0] \in Records
    BY DEF Records
  <2>. QED
    BY <1>6, <2>1 DEF Record, Go, TypeOK, Steps
<1>7. ASSUME NEW r \in Runs, CreateFails(r) \/ Raise(r) \/ UpdateFails(r) PROVE TypeOK'
  <2>1. \E a \in Steps : Go(r, a)
    BY <1>7 DEF CreateFails, Raise, UpdateFails, Steps
  <2>2. at' \in [Runs -> Steps]
    BY <2>1, GoType
  <2>3. told' \in [Runs -> {"none", "result", "failed", "raised", "interrupted"}]
    BY <1>7 DEF CreateFails, Raise, UpdateFails, Tell, TypeOK
  <2>4. artifact' \in [Runs -> BOOLEAN]
    BY <1>7 DEF CreateFails, Raise, UpdateFails, TypeOK
  <2>. QED
    BY <1>7, <2>2, <2>3, <2>4 DEF CreateFails, Raise, UpdateFails, TypeOK
<1>8. ASSUME NEW r \in Runs, Start(r) \/ Report(r) \/ Settle(r) PROVE TypeOK'
  <2>1. owner' \in [Runs -> Records \cup {NoRecord}]
    BY <1>8, UpdateType DEF Start, Report, Settle
  <2>. QED
    BY <1>8, <2>1 DEF Start, Report, Settle, Go, TypeOK, Steps
<1>9. ASSUME NEW r \in Runs, Launch(r) PROVE TypeOK'
  <2>1. provider' \in [Runs -> [Attempts -> Processes]]
    <3>1. attempt[r] \in Attempts /\ "alive" \in Processes
      BY DEF TypeOK, Processes
    <3>2. provider' = provider \/ provider' = [provider EXCEPT ![r][attempt[r]] = "alive"]
      BY <1>9 DEF Launch
    <3>3. [provider EXCEPT ![r][attempt[r]] = "alive"] \in [Runs -> [Attempts -> Processes]]
      BY <3>1, ProviderType
    <3>4. provider \in [Runs -> [Attempts -> Processes]]
      BY DEF TypeOK
    <3>. QED
      BY <3>2, <3>3, <3>4
  <2>. QED
    BY <1>9, <2>1 DEF Launch, Go, TypeOK, Steps
<1>10. ASSUME NEW r \in Runs, LaunchFails(r) PROVE TypeOK'
  <2>1. \E e \in Outcomes : ended' = [ended EXCEPT ![r][attempt[r]] = e]
    BY <1>10, BackendType, EarlyIsOutcome DEF LaunchFails
  <2>2. ended' \in [Runs -> [Attempts -> Outcomes]]
    BY <2>1 DEF TypeOK
  <2>. QED
    BY <1>10, <2>2 DEF LaunchFails, Go, TypeOK, Steps
<1>11. ASSUME NEW r \in Runs, Turn(r) PROVE TypeOK'
  <2>1. \E e \in Outcomes : ended' = [ended EXCEPT ![r][attempt[r]] = e]
    <3>1. PICK said \in Said, clean, policy \in BOOLEAN :
            ended' = [ended EXCEPT ![r][attempt[r]] =
                        IF policy /\ End(Backend(attempt[r]), said, clean) # "success"
                                  /\ Backend(attempt[r]) # "api"
                        THEN "refused" ELSE End(Backend(attempt[r]), said, clean)]
      BY <1>11 DEF Turn
    <3>2. End(Backend(attempt[r]), said, clean) \in Outcomes /\ "refused" \in Outcomes
      BY BackendType, EndIsOutcome DEF Outcomes
    <3>. QED
      BY <3>1, <3>2
  <2>2. ended' \in [Runs -> [Attempts -> Outcomes]]
    BY <2>1, EndedType DEF TypeOK
  <2>3. \E p \in {provider[r][attempt[r]], "gone"} : provider' = [provider EXCEPT ![r][attempt[r]] = p]
    BY <1>11 DEF Turn
  <2>4. provider' \in [Runs -> [Attempts -> Processes]]
    <3>1. attempt[r] \in Attempts /\ provider[r][attempt[r]] \in Processes /\ "gone" \in Processes
      BY DEF TypeOK, Processes
    <3>. QED
      BY <2>3, <3>1, ProviderType
  <2>. QED
    BY <1>11, <2>2, <2>4 DEF Turn, Go, TypeOK, Steps
<1>12. ASSUME NEW r \in Runs, ReportFails(r) \/ Interrupt(r) PROVE TypeOK'
  <2>1. provider' \in [Runs -> [Attempts -> Processes]]
    <3>1. Abandoned(r) \/ UNCHANGED provider
      BY <1>12 DEF ReportFails, Interrupt
    <3>. QED
      BY <3>1, AbandonedType DEF TypeOK
  <2>2. ended' \in [Runs -> [Attempts -> Outcomes]]
    <3>1. ended' = ended \/ \E e \in {"failed", "canceled"} : ended' = [ended EXCEPT ![r][attempt[r]] = e]
      BY <1>12 DEF ReportFails, Interrupt
    <3>2. attempt[r] \in Attempts /\ "failed" \in Outcomes /\ "canceled" \in Outcomes
      BY DEF TypeOK, Outcomes
    <3>3. \A e \in {"failed", "canceled"} :
            [ended EXCEPT ![r][attempt[r]] = e] \in [Runs -> [Attempts -> Outcomes]]
      BY <3>2, EndedType
    <3>4. ended \in [Runs -> [Attempts -> Outcomes]]
      BY DEF TypeOK
    <3>. QED
      BY <3>1, <3>3, <3>4
  <2>3. at' \in [Runs -> Steps]
    <3>1. \E a \in Steps : Go(r, a)
      BY <1>12 DEF ReportFails, Interrupt, Steps
    <3>. QED
      BY <3>1, GoType
  <2>4. told' \in [Runs -> {"none", "result", "failed", "raised", "interrupted"}]
    BY <1>12 DEF ReportFails, Interrupt, Tell, TypeOK
  <2>. QED
    BY <1>12, <2>1, <2>2, <2>3, <2>4 DEF ReportFails, Interrupt, TypeOK
<1>13. ASSUME NEW r \in Runs, Accept(r) \/ Reject(r) PROVE TypeOK'
  <2>1. \E a \in Steps : Go(r, a)
    BY <1>13 DEF Accept, Reject, Steps
  <2>2. at' \in [Runs -> Steps]
    BY <2>1, GoType
  <2>3. ended' = ended \/ ended' = [ended EXCEPT ![r][attempt[r]] = "invalid"]
    BY <1>13 DEF Accept, Reject
  <2>4. attempt[r] \in Attempts /\ "invalid" \in Outcomes
    BY DEF TypeOK, Outcomes
  <2>5. ended' \in [Runs -> [Attempts -> Outcomes]]
    <3>1. [ended EXCEPT ![r][attempt[r]] = "invalid"] \in [Runs -> [Attempts -> Outcomes]]
      BY <2>4, EndedType
    <3>2. ended \in [Runs -> [Attempts -> Outcomes]]
      BY DEF TypeOK
    <3>. QED
      BY <2>3, <3>1, <3>2
  <2>6. told' \in [Runs -> {"none", "result", "failed", "raised", "interrupted"}]
    BY <1>13 DEF Accept, Reject, Tell, TypeOK
  <2>. QED
    BY <1>13, <2>2, <2>5, <2>6 DEF Accept, Reject, TypeOK
<1>14. ASSUME NEW r \in Runs, Fallback(r) PROVE TypeOK'
  BY <1>14 DEF Fallback, FallsBack, Go, TypeOK, Steps, Attempts
<1>15. ASSUME NEW r \in Runs, Look(r) \/ Weigh(r) \/ Release(r) PROVE TypeOK'
  BY <1>15 DEF Look, Weigh, Release, Go, TypeOK, Steps
<1>16. ASSUME NEW r \in Runs, HostDies(r) \/ IdReused(r) \/ StrangerEnds(r) PROVE TypeOK'
  <2>1. host' \in [Runs -> Processes]
    BY <1>16 DEF HostDies, IdReused, StrangerEnds, TypeOK, Processes
  <2>. QED
    BY <1>16, <2>1 DEF HostDies, IdReused, StrangerEnds, TypeOK
<1>17. ASSUME NEW r \in Runs, NEW k \in Attempts, ProviderDies(r, k) PROVE TypeOK'
  BY <1>17 DEF ProviderDies, TypeOK, Processes
<1>. QED
  BY <1>0, <1>1, <1>2, <1>3, <1>4, <1>5, <1>6, <1>7, <1>8, <1>9, <1>10, <1>11, <1>12, <1>13,
     <1>14, <1>15, <1>16, <1>17 DEF Next, Reconcile, Dispatch, Cleanup, Environment

-----------------------------------------------------------------------------
(* What a step of a run leaves alone.                                      *)

(* A run does nothing to another, but for the artifact and the record that *)
(* its reconciliation removes.                                             *)
Acts(r) == Reconcile(r) \/ Dispatch(r) \/ Cleanup(r)
Untouched(r, s) ==
  /\ at'[s] = at[s] /\ provider'[s] = provider[s] /\ attempt'[s] = attempt[s]
  /\ ended'[s] = ended[s] /\ told'[s] = told[s] /\ seen'[s] = seen[s] /\ file'[s] = file[s]
  /\ host'[s] = host[s]
  /\ artifact'[s] = artifact[s] \/ (At(r, "remove") /\ file[r] = s /\ artifact'[s] = FALSE)
  /\ owner'[s] = owner[s] \/ (At(r, "forget") /\ file[r] = s /\ owner'[s] = NoRecord)

LEMMA Frame ==
  ASSUME TypeOK, AttemptInv, NEW r \in Runs, Acts(r)
  PROVE  setting' = setting /\ \A s \in Runs : s # r => Untouched(r, s)
<1>. USE DEF unchangedRun, unchangedFiles, unchangedScan, TypeOK, Untouched
<1>0. setting' = setting
  BY DEF Acts, Reconcile, Dispatch, Cleanup, Begin, Read, Check, Remove, Forget, Reconciled,
    Create, Record, CreateFails, Start, Launch, LaunchFails, Report, ReportFails, Turn, Raise,
    Interrupt, Settle, UpdateFails, Accept, Fallback, Reject, Look, Weigh, Unlink, Unrecord, Release
<1>. SUFFICES ASSUME NEW s \in Runs, s # r PROVE Untouched(r, s)
  BY <1>0
<1>1. CASE Reconcile(r)
  BY <1>1 DEF Reconcile, Begin, Read, Check, Remove, Forget, Reconciled, Go
<1>2. CASE Create(r) \/ Record(r) \/ CreateFails(r) \/ Start(r) \/ Report(r) \/ Settle(r)
  BY <1>2 DEF Create, Record, CreateFails, Start, Report, Settle, Update, Go, Tell
<1>3. CASE Launch(r) \/ LaunchFails(r) \/ ReportFails(r) \/ Turn(r)
  BY <1>3 DEF Launch, LaunchFails, ReportFails, Turn, Abandoned, Go, Tell
<1>4. CASE Raise(r) \/ Interrupt(r) \/ UpdateFails(r)
  BY <1>4 DEF Raise, Interrupt, UpdateFails, Abandoned, Go, Tell
<1>5. CASE Accept(r) \/ Fallback(r) \/ Reject(r)
  BY <1>5 DEF Accept, Fallback, Reject, Go, Tell
<1>6. CASE Cleanup(r)
  BY <1>6 DEF Cleanup, Look, Weigh, Unlink, Unrecord, Release, Go
<1>. QED
  BY <1>1, <1>2, <1>3, <1>4, <1>5, <1>6 DEF Acts, Dispatch

(* Whoever acts is alone.                                                  *)
LEMMA ActsAlone ==
  ASSUME TypeOK, OneEngaged, NEW r \in Runs, Acts(r)
  PROVE  /\ \A s \in Runs : s # r => ~Engaged(s)
         /\ Begin(r) \/ (Engaged(r) /\ host' = host)
<1>1. Begin(r) \/ (Engaged(r) /\ host' = host)
  BY DEF Acts, Reconcile, Dispatch, Cleanup, Read, Check, Remove, Forget, Reconciled,
    Create, Record, CreateFails, Start, Launch, LaunchFails, Report, ReportFails, Turn, Raise,
    Interrupt, Settle, UpdateFails, Accept, Fallback, Reject, Look, Weigh, Unlink, Unrecord, Release,
    At, Engaged, unchangedRun
<1>2. Begin(r) => \A s \in Runs : ~Engaged(s)
  BY DEF Begin, Engaged
<1>. QED
  BY <1>1, <1>2 DEF OneEngaged

LEMMA OneBusyStep ==
  ASSUME TypeOK, OneEngaged, AttemptInv, [Next]_vars
  PROVE  OneEngaged'
<1>1. ASSUME NEW r \in Runs, Acts(r) PROVE OneEngaged'
  <2>1. \A s \in Runs : s # r => ~Engaged(s)'
    <3>1. \A s \in Runs : s # r => ~Engaged(s) /\ Untouched(r, s)
      BY <1>1, Frame, ActsAlone
    <3>. QED
      BY <3>1 DEF Engaged, Untouched
  <2>. QED
    BY <2>1 DEF OneEngaged
<1>2. ASSUME NEW r \in Runs, Environment(r) PROVE OneEngaged'
  <2>1. \A s \in Runs : Engaged(s)' => Engaged(s)
    BY <1>2 DEF Environment, HostDies, IdReused, StrangerEnds, ProviderDies, Engaged, TypeOK
  <2>. QED
    BY <2>1 DEF OneEngaged
<1>3. CASE UNCHANGED vars
  BY <1>3 DEF vars, OneEngaged, Engaged
<1>. QED
  BY <1>1, <1>2, <1>3 DEF Next, Acts

-----------------------------------------------------------------------------
(* What a step does to the run that takes it.                              *)

(* Nobody else's step disturbs what holds of a run.                        *)
LEMMA OthersUndisturbed ==
  ASSUME TypeOK, OneEngaged, AttemptInv, ReadersInv, HostInv, NEW r \in Runs, Acts(r),
         NEW s \in Runs, s # r
  PROVE  /\ Attempted(s)'
         /\ \A k \in Attempts : Reads(s, k)' => Protected(s, k)'
         /\ Own(s)' /\ Scan(s)' /\ CleanedUp(s)'
<1>1. Untouched(r, s) /\ ~Engaged(s) /\ setting' = setting
  BY Frame, ActsAlone
<1>2. Attempted(s)'
  BY <1>1 DEF Untouched, AttemptInv, Attempted
<1>3. ASSUME NEW k \in Attempts, Reads(s, k)' PROVE Protected(s, k)'
  <2>1. Reads(s, k) /\ Protected(s, k)
    BY <1>1, <1>3 DEF Untouched, Reads, Backend, ReadersInv
  <2>2. ~((At(r, "remove") \/ At(r, "forget")) /\ file[r] = s)
    BY <2>1 DEF HostInv, Scan, At
  <2>. QED
    BY <1>1, <2>1, <2>2 DEF Untouched, Protected
<1>4. Own(s)' /\ Scan(s)'
  BY <1>1 DEF Untouched, Engaged, Own, Scan
<1>5. CleanedUp(s)'
  BY <1>1 DEF Untouched, Engaged, HostInv, CleanedUp
<1>. QED
  BY <1>2, <1>3, <1>4, <1>5

(* The step of a run, as far as the run itself is concerned.               *)
LEMMA ReconcileStep ==
  ASSUME TypeOK, OneEngaged, AttemptInv, ReadersInv, HostInv, NEW r \in Runs, Reconcile(r)
  PROVE  /\ Attempted(r)'
         /\ \A k \in Attempts : Reads(r, k)' => Protected(r, k)'
         /\ Own(r)' /\ Scan(r)' /\ CleanedUp(r)'
<1>. USE DEF unchangedRun, unchangedFiles, unchangedScan, At
<1>1. /\ at'[r] \in {"reconcile", "check", "remove", "forget", "create"}
      /\ at[r] \in {"waiting", "reconcile", "check", "remove", "forget"}
      /\ UNCHANGED <<setting, provider, attempt, ended, told>>
  BY DEF Reconcile, Begin, Read, Check, Remove, Forget, Reconciled, Go, TypeOK
<1>2. Attempted(r)' /\ Own(r)' /\ CleanedUp(r)'
  BY <1>1 DEF AttemptInv, HostInv, Attempted, Own, CleanedUp
<1>3. ASSUME NEW k \in Attempts, Reads(r, k)' PROVE Protected(r, k)'
  BY <1>1, <1>3 DEF Reads, Backend, ReadersInv, Protected
<1>4. Scan(r)'
  <2>1. CASE Begin(r) \/ Forget(r) \/ Reconciled(r)
    BY <2>1 DEF Begin, Forget, Reconciled, Go, TypeOK, Scan
  <2>2. CASE Read(r)
    <3>1. PICK d \in todo[r] :
            /\ file' = [file EXCEPT ![r] = d]
            /\ seen' = [seen EXCEPT ![r] = owner[d]]
            /\ Go(r, IF Unproven(d) THEN "reconcile" ELSE "check")
            /\ owner' = owner
      BY <2>2 DEF Read
    <3>2. d \in Runs /\ (owner[d] # NoRecord => owner[d] \in Records)
      BY <3>1 DEF TypeOK
    <3>. QED
      BY <3>1, <3>2 DEF Go, Unproven, TypeOK, Scan
  <2>3. CASE Check(r)
    <3>1. CASE at'[r] = "reconcile"
      BY <3>1 DEF Scan
    <3>2. CASE at'[r] # "reconcile"
      <4>1. /\ at'[r] = "remove" /\ ~InUse(file[r], seen[r]) /\ seen[r] = owner[file[r]]
            /\ file[r] \in Runs /\ file' = file
        BY <2>3, <3>2 DEF Check, Go, TypeOK, HostInv, Scan
      <4>2. \A k \in Attempts : ~Reads(file[r], k)
        BY <4>1 DEF ReadersInv, Reads, Protected, InUse, Active
      <4>. QED
        BY <1>1, <4>1, <4>2 DEF Scan, Reads, Backend
    <3>. QED
      BY <3>1, <3>2
  <2>4. CASE Remove(r)
    BY <2>4 DEF Remove, Go, TypeOK, HostInv, Scan, Reads, Backend
  <2>. QED
    BY <2>1, <2>2, <2>3, <2>4 DEF Reconcile
<1>. QED
  BY <1>2, <1>3, <1>4

LEMMA CreationStep ==
  ASSUME TypeOK, OneEngaged, AttemptInv, ReadersInv, HostInv, NEW r \in Runs,
         Create(r) \/ Record(r) \/ CreateFails(r)
  PROVE  /\ Attempted(r)'
         /\ \A k \in Attempts : Reads(r, k)' => Protected(r, k)'
         /\ Own(r)' /\ Scan(r)' /\ CleanedUp(r)'
<1>. USE DEF unchangedRun, unchangedFiles, unchangedScan, At
<1>1. /\ host[r] = "alive" /\ at[r] \in {"create", "record"} /\ at'[r] \in {"record", "start", "done"}
      /\ UNCHANGED <<setting, provider, attempt, ended>>
      /\ told'[r] \in {told[r], "raised"}
  BY DEF Create, Record, CreateFails, Go, Tell, TypeOK
<1>2. at'[r] \in {"record", "start"} => artifact'[r]
  BY DEF Create, Record, CreateFails, Go, TypeOK, HostInv, Own
<1>3. Attempted(r)' /\ Own(r)' /\ Scan(r)'
  BY <1>1, <1>2 DEF AttemptInv, Attempted, Own, Scan
<1>4. CleanedUp(r)'
  BY <1>1 DEF HostInv, CleanedUp
<1>. QED
  BY <1>1, <1>3, <1>4 DEF Reads, Backend, ReadersInv, Protected

LEMMA LaunchStep ==
  ASSUME TypeOK, OneEngaged, AttemptInv, ReadersInv, HostInv, NEW r \in Runs,
         Start(r) \/ Launch(r) \/ Report(r)
  PROVE  /\ Attempted(r)'
         /\ \A k \in Attempts : Reads(r, k)' => Protected(r, k)'
         /\ Own(r)' /\ Scan(r)' /\ CleanedUp(r)'
<1>. USE DEF unchangedRun, unchangedFiles, unchangedScan, At
<1>1. /\ host[r] = "alive" /\ artifact[r] /\ artifact' = artifact
      /\ UNCHANGED <<setting, attempt, ended, told>>
      /\ at[r] \in {"start", "dispatch", "report"} /\ at'[r] \in {"dispatch", "report", "turn"}
  BY DEF Start, Launch, Report, Go, TypeOK, HostInv, Own
<1>2. Attempted(r)' /\ Scan(r)' /\ CleanedUp(r)'
  BY <1>1 DEF AttemptInv, Attempted, Scan, HostInv, CleanedUp
<1>3. CASE Start(r)
  <2>1. owner'[r] \in Records /\ owner'[r].state = "starting" /\ provider' = provider
    BY <1>3, UpdateType DEF Start
  <2>. QED
    BY <1>1, <1>2, <1>3, <2>1 DEF Start, Own, Reads, Backend, ReadersInv, Protected
<1>4. CASE Launch(r)
  <2>1. owner[r] \in Records /\ owner[r].state = "starting" /\ owner' = owner
    BY <1>4 DEF Launch, HostInv, Own
  <2>2. ASSUME NEW k \in Attempts, Reads(r, k)' PROVE Protected(r, k)'
    <3>1. ~Reads(r, k)
      BY <1>4 DEF Launch, ReadersInv, Protected
    <3>2. k = attempt[r] /\ at'[r] = "report"
      BY <1>1, <1>4, <2>2, <3>1 DEF Launch, Go, Reads, Backend, TypeOK
    <3>. QED
      BY <1>1, <2>1, <3>2 DEF Protected
  <2>. QED
    BY <1>1, <1>2, <2>1, <2>2 DEF Own
<1>5. CASE Report(r)
  <2>1. /\ owner'[r] \in Records /\ owner'[r].state = "running" /\ owner'[r].attempt = attempt[r]
        /\ provider' = provider /\ at'[r] = "turn"
    BY <1>5, UpdateType DEF Report, Go, TypeOK
  <2>. QED
    BY <1>1, <1>2, <2>1 DEF Own, Reads, Backend, ReadersInv, Protected
<1>. QED
  BY <1>3, <1>4, <1>5

(* A turn that is over has an end, and a reader of the file does not       *)
(* survive its turn.                                                       *)
LEMMA TurnStep ==
  ASSUME TypeOK, OneEngaged, AttemptInv, ReadersInv, HostInv, NEW r \in Runs,
         Turn(r) \/ LaunchFails(r)
  PROVE  /\ Attempted(r)'
         /\ \A k \in Attempts : Reads(r, k)' => Protected(r, k)'
         /\ Own(r)' /\ Scan(r)' /\ CleanedUp(r)'
<1>. USE DEF unchangedRun, unchangedFiles, unchangedScan, At
<1>1. /\ host[r] = "alive" /\ at[r] \in {"dispatch", "turn"} /\ at'[r] = "settle"
      /\ artifact[r] /\ artifact' = artifact
      /\ UNCHANGED <<setting, attempt, told>>
  BY DEF Turn, LaunchFails, Go, TypeOK, HostInv, Own
<1>2. \E e \in Outcomes \ {"none"} : ended' = [ended EXCEPT ![r][attempt[r]] = e]
  <2>1. CASE LaunchFails(r)
    BY <2>1, BackendType, EarlyIsOutcome DEF LaunchFails
  <2>2. CASE Turn(r)
    <3>1. PICK said \in Said, clean, policy \in BOOLEAN :
            ended' = [ended EXCEPT ![r][attempt[r]] =
                        IF policy /\ End(Backend(attempt[r]), said, clean) # "success"
                                  /\ Backend(attempt[r]) # "api"
                        THEN "refused" ELSE End(Backend(attempt[r]), said, clean)]
      BY <2>2 DEF Turn
    <3>2. End(Backend(attempt[r]), said, clean) \in Outcomes \ {"none"}
      BY BackendType, EndIsOutcome
    <3>3. "refused" \in Outcomes \ {"none"}
      BY DEF Outcomes
    <3>. QED
      BY <3>1, <3>2, <3>3
  <2>. QED
    BY <2>1, <2>2
<1>3. Attempted(r)'
  <2>1. ended'[r][attempt[r]] # "none"
    BY <1>2 DEF TypeOK
  <2>. QED
    BY <1>1, <2>1 DEF AttemptInv, Attempted
<1>4. ASSUME NEW k \in Attempts PROVE ~Reads(r, k)'
  <2>1. Reads(r, k) => k = attempt[r] /\ at[r] = "turn"
    BY <1>1 DEF ReadersInv, Protected
  <2>2. CASE LaunchFails(r)
    BY <2>1, <2>2 DEF LaunchFails, Reads, Backend
  <2>3. CASE Turn(r)
    <3>1. Backend(attempt[r]) = "claude_code" => provider'[r][attempt[r]] # "alive"
      BY <2>3 DEF Turn, Stays, TypeOK
    <3>2. provider'[r][k] = "alive" => provider[r][k] = "alive"
      BY <2>3 DEF Turn, TypeOK
    <3>. QED
      BY <1>1, <2>1, <3>1, <3>2 DEF Reads, Backend
  <2>. QED
    BY <2>2, <2>3
<1>. QED
  BY <1>1, <1>3, <1>4 DEF Own, Scan, HostInv, CleanedUp

(* A dispatch that is broken off leaves its process, if it leaves it, to a *)
(* record that protects the file.                                          *)
LEMMA BreaksOffStep ==
  ASSUME TypeOK, OneEngaged, AttemptInv, ReadersInv, HostInv, NEW r \in Runs,
         ReportFails(r) \/ Raise(r) \/ Interrupt(r) \/ UpdateFails(r)
  PROVE  /\ Attempted(r)'
         /\ \A k \in Attempts : Reads(r, k)' => Protected(r, k)'
         /\ Own(r)' /\ Scan(r)' /\ CleanedUp(r)'
<1>. USE DEF unchangedRun, unchangedFiles, unchangedScan, At
<1>1. /\ host[r] = "alive" /\ at[r] \in {"dispatch", "report", "turn", "settle", "start"}
      /\ at'[r] \in {"settle", "look"} /\ artifact[r]
      /\ UNCHANGED <<setting, attempt, artifact, owner>>
  BY DEF ReportFails, Raise, Interrupt, UpdateFails, Go, TypeOK, HostInv, Own
<1>2. Attempted(r)'
  <2>1. at'[r] = "settle" => ended'[r][attempt[r]] # "none"
    BY DEF ReportFails, Raise, Interrupt, UpdateFails, Go, TypeOK, Attempts
  <2>. QED
    BY <1>1, <2>1 DEF AttemptInv, Attempted
<1>3. told'[r] \in {told[r], "raised", "interrupted"}
  BY DEF ReportFails, Raise, Interrupt, UpdateFails, Tell, TypeOK
<1>4. ASSUME NEW k \in Attempts, Reads(r, k)' PROVE Protected(r, k)'
  <2>1. provider' = provider \/ Abandoned(r)
    BY DEF ReportFails, Raise, Interrupt, UpdateFails
  <2>2. Reads(r, k)
    BY <1>1, <1>4, <2>1 DEF Abandoned, Reads, Backend, TypeOK
  <2>3. Protected(r, k)
    BY <2>2 DEF ReadersInv
  <2>4. ~Abandoned(r)
    BY <1>1, <1>4, <2>3 DEF Abandoned, Protected, Reads, Backend, TypeOK
  <2>5. at'[r] = "look"
    BY <1>4, <2>1, <2>3, <2>4 DEF ReportFails, Raise, Interrupt, UpdateFails, Go, TypeOK
  <2>. QED
    BY <1>1, <2>3, <2>5 DEF Protected
<1>. QED
  BY <1>1, <1>2, <1>3, <1>4 DEF Own, Scan, HostInv, CleanedUp

LEMMA JudgeStep ==
  ASSUME TypeOK, OneEngaged, AttemptInv, ReadersInv, HostInv, NEW r \in Runs,
         Settle(r) \/ Accept(r) \/ Fallback(r) \/ Reject(r)
  PROVE  /\ Attempted(r)'
         /\ \A k \in Attempts : Reads(r, k)' => Protected(r, k)'
         /\ Own(r)' /\ Scan(r)' /\ CleanedUp(r)'
<1>. USE DEF unchangedRun, unchangedFiles, unchangedScan, At
<1>1. /\ host[r] = "alive" /\ at[r] \in {"settle", "judge"} /\ at'[r] \in {"judge", "start", "look"}
      /\ artifact[r] /\ UNCHANGED <<setting, provider, artifact>>
      /\ told[r] \notin {"result", "failed"}
  BY DEF Settle, Accept, Fallback, Reject, Go, TypeOK, HostInv, Own, CleanedUp
<1>2. ASSUME NEW k \in Attempts PROVE ~Reads(r, k)'
  BY <1>1 DEF Reads, Backend, ReadersInv, Protected
<1>3. ended[r][attempt[r]] # "none"
  BY <1>1 DEF AttemptInv, Attempted
<1>4. CASE Settle(r)
  <2>1. owner'[r] \in Records /\ owner'[r].state = "exited" /\ at'[r] = "judge"
    BY <1>4, UpdateType DEF Settle, Go, TypeOK
  <2>2. UNCHANGED <<attempt, ended, told>>
    BY <1>4 DEF Settle
  <2>. QED
    BY <1>1, <1>2, <1>3, <2>1, <2>2 DEF AttemptInv, Attempted, Own, Scan, CleanedUp
<1>5. CASE Fallback(r)
  <2>1. /\ attempt[r] = 1 /\ FallsBack(r) /\ at'[r] = "start"
        /\ UNCHANGED <<ended, told>>
    BY <1>5 DEF Fallback, FallsBack, Go, TypeOK
  <2>2. setting.spare # "none"
    BY <2>1 DEF FallsBack
  <2>. QED
    BY <1>1, <1>2, <2>1, <2>2 DEF Attempted, Own, Scan, CleanedUp
<1>6. CASE Accept(r) \/ Reject(r)
  <2>1. /\ at[r] = "judge" /\ at'[r] = "look" /\ UNCHANGED <<attempt, owner>>
    BY <1>6 DEF Accept, Reject, Go, TypeOK
  <2>2. owner[r] \in Records /\ owner[r].state = "exited"
    BY <1>1, <2>1 DEF HostInv, Own
  <2>. QED
    BY <1>1, <1>2, <2>1, <2>2 DEF AttemptInv, Attempted, Own, Scan, CleanedUp
<1>. QED
  BY <1>4, <1>5, <1>6

(* The cleanup leaves what may be read and removes the rest.               *)
LEMMA CleanupStep ==
  ASSUME TypeOK, OneEngaged, AttemptInv, ReadersInv, HostInv, NEW r \in Runs, Cleanup(r)
  PROVE  /\ Attempted(r)'
         /\ \A k \in Attempts : Reads(r, k)' => Protected(r, k)'
         /\ Own(r)' /\ Scan(r)' /\ CleanedUp(r)'
<1>. USE DEF unchangedRun, unchangedFiles, unchangedScan, At
<1>1. /\ host[r] = "alive" /\ at[r] \in {"look", "weigh", "unlink", "unrecord", "done"}
      /\ at'[r] \in {"weigh", "unlink", "unrecord", "done", "released"}
      /\ UNCHANGED <<setting, provider, attempt, ended, told>>
  BY DEF Cleanup, Look, Weigh, Unlink, Unrecord, Release, Go, TypeOK
<1>2. Attempted(r)' /\ Own(r)' /\ Scan(r)'
  BY <1>1 DEF AttemptInv, Attempted, Own, Scan
<1>3. ASSUME NEW k \in Attempts, Reads(r, k)' PROVE Protected(r, k)'
  <2>1. Reads(r, k) /\ Protected(r, k)
    BY <1>1, <1>3 DEF Reads, Backend, ReadersInv
  <2>2. CASE Look(r)
    BY <1>1, <2>1, <2>2, NoRecordAssumption DEF Look, Go, TypeOK, Protected
  <2>3. CASE Weigh(r)
    <3>1. InUse(r, seen[r])
      BY <2>1, <2>3 DEF Weigh, Protected, Reads, InUse, Active
    <3>. QED
      BY <1>1, <2>1, <2>3, <3>1 DEF Weigh, Go, TypeOK, Protected
  <2>4. CASE Release(r)
    BY <1>1, <2>1, <2>4 DEF Release, Go, TypeOK, Protected
  <2>5. ~Unlink(r) /\ ~Unrecord(r)
    BY <2>1 DEF Unlink, Unrecord, Protected
  <2>. QED
    BY <2>2, <2>3, <2>4, <2>5 DEF Cleanup
<1>4. CleanedUp(r)'
  <2>. SUFFICES ASSUME told[r] \in {"result", "failed"} PROVE CleanedUp(r)'
    BY <1>1 DEF CleanedUp
  <2>0. CleanedUp(r)
    BY DEF HostInv
  <2>1. CASE Look(r)
    BY <1>1, <2>0, <2>1, NoRecordAssumption DEF Look, Go, TypeOK, CleanedUp
  <2>2. CASE Weigh(r)
    <3>1. ~InUse(r, seen[r])
      BY <1>1, <2>0, <2>2 DEF Weigh, CleanedUp, InUse
    <3>. QED
      BY <1>1, <2>0, <2>2, <3>1 DEF Weigh, Go, TypeOK, CleanedUp
  <2>3. CASE Unlink(r)
    BY <1>1, <2>0, <2>3 DEF Unlink, Go, TypeOK, CleanedUp
  <2>4. CASE Unrecord(r)
    BY <1>1, <2>0, <2>4 DEF Unrecord, Go, TypeOK, CleanedUp
  <2>5. CASE Release(r)
    BY <1>1, <2>0, <2>5 DEF Release, Go, TypeOK, CleanedUp
  <2>. QED
    BY <2>1, <2>2, <2>3, <2>4, <2>5 DEF Cleanup
<1>. QED
  BY <1>2, <1>3, <1>4

(* A process that ends, or whose id is given away, changes nothing else.   *)
LEMMA EnvironmentStep ==
  ASSUME TypeOK, AttemptInv, ReadersInv, HostInv, NEW s \in Runs, Environment(s)
  PROVE  AttemptInv' /\ ReadersInv' /\ HostInv'
<1>1. UNCHANGED <<setting, artifact, owner, at, attempt, ended, told, file, seen>>
  BY DEF Environment, HostDies, IdReused, StrangerEnds, ProviderDies
<1>2. \A r \in Runs : host'[r] = "alive" => host[r] = "alive"
  BY DEF Environment, HostDies, IdReused, StrangerEnds, ProviderDies, TypeOK
<1>3. \A r \in Runs, k \in Attempts : provider'[r][k] = "alive" => provider[r][k] = "alive"
  <2>1. provider' = provider \/ \E k \in Attempts : provider' = [provider EXCEPT ![s][k] = "gone"]
    BY DEF Environment, HostDies, IdReused, StrangerEnds, ProviderDies
  <2>2. ASSUME NEW k \in Attempts, provider' = [provider EXCEPT ![s][k] = "gone"],
               NEW r \in Runs, NEW j \in Attempts, provider'[r][j] = "alive"
        PROVE  provider[r][j] = "alive"
    <3>1. provider \in [Runs -> [Attempts -> Processes]]
      BY DEF TypeOK
    <3>2. CASE r = s
      BY <2>2, <3>1, <3>2
    <3>3. CASE r # s
      BY <2>2, <3>1, <3>3
    <3>. QED
      BY <3>2, <3>3
  <2>. QED
    BY <2>1, <2>2
<1>4. \A r \in Runs, k \in Attempts : Reads(r, k)' => Reads(r, k)
  BY <1>1, <1>3 DEF Reads, Backend
<1>5. AttemptInv'
  BY <1>1 DEF AttemptInv, Attempted
<1>6. ReadersInv'
  BY <1>1, <1>4 DEF ReadersInv, Protected
<1>7. ASSUME NEW r \in Runs PROVE Own(r)' /\ Scan(r)' /\ CleanedUp(r)'
  <2>1. Own(r)' /\ CleanedUp(r)'
    BY <1>1, <1>2 DEF HostInv, Own, CleanedUp
  <2>2. Scan(r)'
    BY <1>1, <1>2, <1>4 DEF HostInv, Scan, TypeOK
  <2>. QED
    BY <2>1, <2>2
<1>. QED
  BY <1>5, <1>6, <1>7 DEF HostInv

(* A step of a run leaves its actors in order.                             *)
LEMMA OrderStep ==
  ASSUME TypeOK, AttemptInv, NEW r \in Runs, InOrder(r), Acts(r)
  PROVE  InOrder(r)'
<1>. USE DEF unchangedRun, unchangedFiles, unchangedScan, At, Attempts
<1>0. setting' = setting /\ attempt[r] \in {1, 2}
  BY Frame DEF TypeOK
<1>1. CASE Reconcile(r) \/ Create(r) \/ Record(r) \/ Start(r)
  <2>1. /\ at[r] \in Ahead /\ at'[r] \in Ahead
        /\ UNCHANGED <<provider, attempt, ended, told>>
    BY <1>1 DEF Reconcile, Begin, Read, Check, Remove, Forget, Reconciled, Create, Record, Start,
         Go, TypeOK, Ahead
  <2>. QED
    BY <1>0, <2>1 DEF InOrder, AtWork, Excused, Unlaunched, Backend, Ahead, Closing
<1>2. CASE Launch(r) \/ Report(r)
  <2>1. /\ at'[r] \in {"report", "turn"} /\ at[r] \notin Closing
        /\ UNCHANGED <<attempt, ended, told>>
    BY <1>2 DEF Launch, Report, Go, TypeOK, Closing
  <2>2. ASSUME NEW k \in Attempts PROVE
          \/ provider'[r][k] = provider[r][k]
          \/ k = attempt[r] /\ Backend(k) # "api"
    BY <1>2 DEF Launch, Report, TypeOK
  <2>3. ASSUME NEW k \in Attempts, AtWork(r, k)' PROVE Excused(r, k)'
    BY <1>0, <2>1, <2>2, <2>3 DEF InOrder, AtWork, Excused, Backend
  <2>4. ASSUME NEW k \in Attempts, Unlaunched(r, k)' PROVE provider'[r][k] = "none"
    BY <1>0, <2>1, <2>2, <2>4 DEF InOrder, Unlaunched, Backend, Ahead
  <2>. QED
    BY <2>1, <2>3, <2>4 DEF InOrder, Closing
<1>3. CASE LaunchFails(r) \/ Turn(r)
  <2>1. /\ at[r] \in {"dispatch", "turn"} /\ at'[r] = "settle"
        /\ UNCHANGED <<attempt, told>>
    BY <1>3 DEF LaunchFails, Turn, Go, TypeOK
  <2>2. ASSUME NEW k \in Attempts PROVE
          /\ k # attempt[r] => ended'[r][k] = ended[r][k] /\ provider'[r][k] = provider[r][k]
          /\ provider[r][k] = "none" => provider'[r][k] = "none"
    BY <1>3 DEF LaunchFails, Turn, TypeOK
  <2>3. AtWork(r, attempt[r])' => Backend(attempt[r]) = "windows"
    <3>1. CASE LaunchFails(r)
      BY <1>0, <3>1 DEF LaunchFails, InOrder, Unlaunched, AtWork, Ahead
    <3>2. CASE Turn(r)
      <4>1. PICK said \in Said, clean, policy \in BOOLEAN :
              LET b == Backend(attempt[r])
                  e == End(b, said, clean)
              IN /\ ended' = [ended EXCEPT ![r][attempt[r]] =
                                IF policy /\ e # "success" /\ b # "api" THEN "refused" ELSE e]
                 /\ provider' = [provider EXCEPT ![r][attempt[r]] =
                                   IF @ = "alive" /\ ~Stays(b, e) THEN "gone" ELSE @]
        BY <3>2 DEF Turn
      <4>. DEFINE b == Backend(attempt[r])
                  e == End(b, said, clean)
      <4>2. /\ ended'[r][attempt[r]] = IF policy /\ e # "success" /\ b # "api" THEN "refused" ELSE e
            /\ provider'[r][attempt[r]] =
                 IF provider[r][attempt[r]] = "alive" /\ ~Stays(b, e) THEN "gone" ELSE provider[r][attempt[r]]
        BY <4>1 DEF TypeOK
      <4>. HIDE DEF e
      <4>. QED
        BY <1>0, <2>1, <4>2 DEF AtWork, Stays
    <3>. QED
      BY <1>3, <3>1, <3>2
  <2>4. ASSUME NEW k \in Attempts, AtWork(r, k)' PROVE Excused(r, k)'
    BY <1>0, <2>1, <2>2, <2>3, <2>4 DEF InOrder, AtWork, Excused, Backend
  <2>5. ASSUME NEW k \in Attempts, Unlaunched(r, k)' PROVE provider'[r][k] = "none"
    BY <1>0, <2>1, <2>2, <2>5 DEF InOrder, Unlaunched, Backend, Ahead
  <2>. QED
    BY <2>1, <2>4, <2>5 DEF InOrder, Closing
<1>4. CASE ReportFails(r) \/ Interrupt(r) \/ Raise(r) \/ UpdateFails(r)
  <2>1. /\ at[r] \in {"start", "dispatch", "report", "turn", "settle"}
        /\ at'[r] \in {"settle", "look"} /\ attempt' = attempt
        /\ at'[r] = "settle" => told'[r] = told[r]
    BY <1>4 DEF ReportFails, Interrupt, Raise, UpdateFails, Go, TypeOK
  <2>2. provider' = provider \/ Abandoned(r)
    BY <1>4 DEF ReportFails, Interrupt, Raise, UpdateFails
  <2>3. ASSUME NEW k \in Attempts PROVE
          /\ k # attempt[r] => ended'[r][k] = ended[r][k] /\ provider'[r][k] = provider[r][k]
          /\ provider[r][k] = "none" => provider'[r][k] = "none"
    BY <1>4 DEF ReportFails, Interrupt, Raise, UpdateFails, Abandoned, TypeOK
  <2>4. ASSUME NEW k \in Attempts, AtWork(r, k)', told'[r] # "interrupted"
        PROVE  Backend(k) = "windows"
    <3>0. told[r] = "none"
      BY <2>1 DEF InOrder, Closing
    <3>1. CASE k # attempt[r]
      BY <2>3, <2>4, <3>0, <3>1 DEF InOrder, AtWork, Excused
    <3>2. CASE k = attempt[r] /\ Abandoned(r)
      BY <2>4, <3>2 DEF Abandoned, AtWork, TypeOK
    <3>3. CASE k = attempt[r] /\ ~Abandoned(r)
      <4>1. Raise(r) \/ UpdateFails(r)
        BY <1>4, <2>4, <3>3 DEF ReportFails, Interrupt, Tell, TypeOK
      <4>2. AtWork(r, k)
        BY <2>4, <4>1 DEF Raise, UpdateFails, AtWork
      <4>3. provider[r][k] # "none" /\ ~Unlaunched(r, k)
        BY <4>2 DEF AtWork, InOrder
      <4>4. at[r] = "settle"
        BY <3>3, <4>1, <4>3 DEF Raise, UpdateFails, Unlaunched, Ahead
      <4>. QED
        BY <3>0, <4>2, <4>4 DEF InOrder, Excused
    <3>. QED
      BY <3>1, <3>2, <3>3
  <2>5. ASSUME NEW k \in Attempts, Unlaunched(r, k)' PROVE provider'[r][k] = "none"
    BY <1>0, <2>1, <2>3, <2>5 DEF InOrder, Unlaunched, Backend, Ahead
  <2>. QED
    BY <1>0, <2>1, <2>4, <2>5 DEF InOrder, Excused, Backend, Closing
<1>5. CASE CreateFails(r) \/ Settle(r) \/ Accept(r) \/ Reject(r) \/ Cleanup(r)
  <2>1. /\ at[r] \in {"create", "record", "settle", "judge"} \cup Closing
        /\ at'[r] \in {"judge"} \cup Closing /\ UNCHANGED <<provider, attempt>>
        /\ at[r] = "settle" => UNCHANGED told
        /\ told'[r] = told[r] \/ told[r] = "none"
    BY <1>5 DEF CreateFails, Settle, Accept, Reject, Cleanup, Look, Weigh, Unlink, Unrecord, Release,
         Go, TypeOK, Closing, InOrder
  <2>2. at'[r] = "judge" => at[r] = "settle"
    BY <1>5 DEF CreateFails, Settle, Accept, Reject, Cleanup, Look, Weigh, Unlink, Unrecord, Release,
         Go, TypeOK
  <2>3. ASSUME NEW k \in Attempts, AtWork(r, k)' PROVE AtWork(r, k)
    <3>1. ended' = ended \/ (Accept(r) /\ ended' = [ended EXCEPT ![r][attempt[r]] = "invalid"])
      BY <1>5 DEF CreateFails, Settle, Accept, Reject, Cleanup, Look, Weigh, Unlink, Unrecord, Release
    <3>. QED
      BY <1>0, <2>1, <2>3, <3>1 DEF AtWork, Accept, TypeOK
  <2>4. ASSUME NEW k \in Attempts, AtWork(r, k)' PROVE Excused(r, k)'
    <3>1. Excused(r, k)
      BY <2>3, <2>4 DEF InOrder
    <3>. QED
      BY <1>0, <2>1, <3>1 DEF Excused, Backend, Closing
  <2>5. ASSUME NEW k \in Attempts, Unlaunched(r, k)' PROVE provider'[r][k] = "none"
    BY <1>0, <2>1, <2>5 DEF InOrder, Unlaunched, Backend, Ahead, Closing
  <2>. QED
    BY <2>1, <2>2, <2>4, <2>5 DEF InOrder, Closing
<1>6. CASE Fallback(r)
  <2>1. /\ at[r] = "judge" /\ at'[r] = "start" /\ attempt[r] = 1 /\ attempt'[r] = 2
        /\ UNCHANGED <<provider, ended, told>>
    BY <1>6 DEF Fallback, FallsBack, Go, TypeOK
  <2>2. ASSUME NEW k \in Attempts, AtWork(r, k)' PROVE Excused(r, k)'
    BY <1>0, <2>1, <2>2 DEF InOrder, AtWork, Excused, Backend
  <2>3. ASSUME NEW k \in Attempts, Unlaunched(r, k)' PROVE provider'[r][k] = "none"
    BY <1>0, <2>1, <2>3 DEF InOrder, Unlaunched, Backend
  <2>. QED
    BY <2>1, <2>2, <2>3 DEF InOrder, Closing
<1>. QED
  BY <1>1, <1>2, <1>3, <1>4, <1>5, <1>6 DEF Acts, Dispatch

(* Nor does a step of another run, or the end of a process, disturb them.  *)
LEMMA OrderKept ==
  ASSUME TypeOK, AttemptInv, WorkInv, [Next]_vars
  PROVE  WorkInv'
<1>1. ASSUME NEW r \in Runs, Acts(r) PROVE WorkInv'
  <2>1. InOrder(r)'
    BY <1>1, OrderStep DEF WorkInv
  <2>2. ASSUME NEW s \in Runs, s # r PROVE InOrder(s)'
    <3>1. Untouched(r, s) /\ setting' = setting
      BY <1>1, <2>2, Frame
    <3>. QED
      BY <3>1 DEF WorkInv, Untouched, InOrder, AtWork, Excused, Unlaunched, Backend
  <2>. QED
    BY <2>1, <2>2 DEF WorkInv
<1>2. ASSUME NEW r \in Runs, Environment(r) PROVE WorkInv'
  <2>1. UNCHANGED <<setting, at, attempt, ended, told>>
    BY <1>2 DEF Environment, HostDies, IdReused, StrangerEnds, ProviderDies
  <2>2. ASSUME NEW s \in Runs, NEW k \in Attempts
        PROVE  provider'[s][k] = provider[s][k] \/ (provider[s][k] = "alive" /\ provider'[s][k] = "gone")
    <3>1. provider' = provider \/
            \E j \in Attempts : provider[r][j] = "alive" /\ provider' = [provider EXCEPT ![r][j] = "gone"]
      BY <1>2 DEF Environment, HostDies, IdReused, StrangerEnds, ProviderDies
    <3>2. provider \in [Runs -> [Attempts -> Processes]]
      BY DEF TypeOK
    <3>3. ASSUME NEW j \in Attempts, provider[r][j] = "alive",
                 provider' = [provider EXCEPT ![r][j] = "gone"]
          PROVE  provider'[s][k] = provider[s][k] \/ (provider[s][k] = "alive" /\ provider'[s][k] = "gone")
      <4>1. CASE s = r
        BY <3>2, <3>3, <4>1
      <4>2. CASE s # r
        BY <3>2, <3>3, <4>2
      <4>. QED
        BY <4>1, <4>2
    <3>. QED
      BY <3>1, <3>3
  <2>. QED
    BY <2>1, <2>2 DEF WorkInv, InOrder, AtWork, Excused, Unlaunched, Backend
<1>3. CASE UNCHANGED vars
  BY <1>3 DEF vars, WorkInv, InOrder, AtWork, Excused, Unlaunched, Backend
<1>. QED
  BY <1>1, <1>2, <1>3 DEF Next, Acts

-----------------------------------------------------------------------------
(* The theorems.                                                           *)

LEMMA InitIInv == Init => IInv
<1>. SUFFICES ASSUME Init PROVE IInv
  OBVIOUS
<1>1. TypeOK
  BY TypeInit
<1>2. WorkInv
  BY DEF Init, WorkInv, InOrder, AtWork, Attempts
<1>. QED
  BY <1>1, <1>2 DEF Init, IInv, OneEngaged, Engaged, AttemptInv, Attempted, ReadersInv, Reads, HostInv,
     Own, Scan, CleanedUp, Attempts

LEMMA NextIInv == IInv /\ [Next]_vars => IInv'
<1>. SUFFICES ASSUME IInv, [Next]_vars PROVE IInv'
  OBVIOUS
<1>1. TypeOK' /\ OneEngaged' /\ WorkInv'
  BY TypeStep, OneBusyStep, OrderKept DEF IInv
<1>2. ASSUME NEW r \in Runs, Acts(r) PROVE AttemptInv' /\ ReadersInv' /\ HostInv'
  <2>1. /\ Attempted(r)'
        /\ \A k \in Attempts : Reads(r, k)' => Protected(r, k)'
        /\ Own(r)' /\ Scan(r)' /\ CleanedUp(r)'
    <3>1. CASE Reconcile(r)
      BY <3>1, ReconcileStep DEF IInv
    <3>2. CASE Create(r) \/ Record(r) \/ CreateFails(r)
      BY <3>2, CreationStep DEF IInv
    <3>3. CASE Start(r) \/ Launch(r) \/ Report(r)
      BY <3>3, LaunchStep DEF IInv
    <3>4. CASE Turn(r) \/ LaunchFails(r)
      BY <3>4, TurnStep DEF IInv
    <3>5. CASE ReportFails(r) \/ Raise(r) \/ Interrupt(r) \/ UpdateFails(r)
      BY <3>5, BreaksOffStep DEF IInv
    <3>6. CASE Settle(r) \/ Accept(r) \/ Fallback(r) \/ Reject(r)
      BY <3>6, JudgeStep DEF IInv
    <3>7. CASE Cleanup(r)
      BY <3>7, CleanupStep DEF IInv
    <3>. QED
      BY <1>2, <3>1, <3>2, <3>3, <3>4, <3>5, <3>6, <3>7 DEF Acts, Dispatch
  <2>2. \A s \in Runs : s # r =>
          /\ Attempted(s)'
          /\ \A k \in Attempts : Reads(s, k)' => Protected(s, k)'
          /\ Own(s)' /\ Scan(s)' /\ CleanedUp(s)'
    BY <1>2, OthersUndisturbed DEF IInv
  <2>. QED
    BY <2>1, <2>2 DEF AttemptInv, ReadersInv, HostInv
<1>3. CASE UNCHANGED vars
  <2>1. UNCHANGED <<setting, host, provider, artifact, owner, at, attempt, ended, told, file, seen>>
    BY <1>3 DEF vars
  <2>2. AttemptInv'
    BY <2>1 DEF IInv, AttemptInv, Attempted
  <2>3. ReadersInv'
    BY <2>1 DEF IInv, ReadersInv, Reads, Backend, Protected
  <2>4. HostInv'
    BY <2>1 DEF IInv, HostInv, Own, Scan, CleanedUp, Reads, Backend
  <2>. QED
    BY <1>1, <2>2, <2>3, <2>4 DEF IInv
<1>4. ASSUME NEW r \in Runs, Environment(r) PROVE AttemptInv' /\ ReadersInv' /\ HostInv'
  BY <1>4, EnvironmentStep DEF IInv
<1>. QED
  BY <1>1, <1>2, <1>3, <1>4 DEF IInv, Next, Acts

(* The inductive invariant holds in every reachable state.                 *)
THEOREM Invariant == Spec => []IInv
BY InitIInv, NextIInv, PTL DEF Spec

(* Every variable keeps its type.                                          *)
THEOREM TypeCorrect == Spec => []TypeOK
BY Invariant, PTL DEF IInv

(* No cleanup and no reconciliation removes the artifact of a provider     *)
(* that was given its path and lives, wherever its host stopped.           *)
THEOREM ReadersAreSafe == Spec => []ReadersKeepTheirFile
<1>1. IInv => ReadersKeepTheirFile
  BY DEF IInv, ReadersInv, Reads, Protected, ReadersKeepTheirFile, ReadsFile
<1>. QED
  BY <1>1, Invariant, PTL

(* Whatever ends a turn, its actor works on neither beside the fallback    *)
(* nor after the dispatch, unless it is a terminal or Ctrl-C left it.      *)
THEOREM NobodyWorksOn == Spec => []NobodyLeftAtWork
<1>1. IInv => NobodyLeftAtWork
  BY DEF IInv, WorkInv, InOrder, Excused, NobodyLeftAtWork
<1>. QED
  BY <1>1, Invariant, PTL

(* A dispatch with a result or a reported failure leaves no file behind.   *)
THEOREM NothingIsLeft == Spec => []SettledLeavesNothing
<1>1. IInv => SettledLeavesNothing
  BY DEF IInv, HostInv, CleanedUp, SettledLeavesNothing
<1>. QED
  BY <1>1, Invariant, PTL

-----------------------------------------------------------------------------
(* The inductive invariant.                                                *)

(* Where a client can be; a turn that runs has begun.                      *)
PlacesInv ==
  /\ \A h \in Humans : pc[h] \in {"idle", "attached", "done"}
  /\ \A a \in Automations : pc[a] # "attached"
  /\ active => begun > 0

(* What the lease remembers of the keys of the human who has it; an        *)
(* automation's lease is not short.                                        *)
LeaseInv ==
  /\ lease.owner \in Humans => lease.chars <= keys[lease.owner]
  /\ lease.owner \notin Humans => lease.chars = 0 /\ ~lease.short
  /\ lease.config => lease.short
  /\ lease.reason \in {"human_command_submitted", "configuration_command_submitted"} =>
       lease.chars = 0

(* Where humans do without other keys the caret stays at the end.          *)
CaretInv == ~Edits => caret = Len(line)

(* From the moment it is granted to the end of its turn a delegate has the *)
(* lease.                                                                  *)
Leased(d) == pc[d] \in {"ready", "text", "ack", "start"} \/ (pc[d] = "wait" /\ ~LongTurns)
WatchInv == \A d \in Delegates : Leased(d) => lease.owner = d

(* A configuration command is pending only where humans use them, and one  *)
(* who waits for the prompt does not type meanwhile.                       *)
Plain == ~(Configures /\ Hasty) /\ Shadowed
ConfigInv ==
  Shadowed => /\ ~Configures => ~lease.config /\ \A i \in DOMAIN line : ~line[i].config
              /\ ~Hasty /\ lease.config => lease.reason = "configuration_command_submitted"

(* What an attached human has begun to type keeps him the lease, and the   *)
(* host has counted it.                                                    *)
Composes(h) ==
  \A i \in DOMAIN line : line[i].by = h =>
    /\ pc[h] # "idle"
    /\ pc[h] = "attached" =>
         lease.owner = h /\ ~lease.short /\ lease.chars >= Len(line) - i + 1
CompositionInv == Plain => \A h \in Humans : Composes(h)

(* The text of an automation stands in the line alone and under its lease. *)
Alone(a) ==
  /\ pc[a] = "ack" =>
       /\ lease.owner = a /\ line = <<By(a)>>
       /\ a \in Senders => implicitWriter = a
  /\ Writes(a) => pc[a] = "ack"
HumansTakeAlong == \A h \in Humans : Writes(h) => pc[h] = "attached"
Orderly == ~(Faults \/ Leaves \/ (Configures /\ Hasty)) /\ Shadowed
AloneInv ==
  Orderly => (\A a \in Automations : Alone(a)) /\ HumansTakeAlong /\ SentAlone

(* Commands are submitted one at a time: the one whose turn has not begun  *)
(* is that of the client with the lease, who waits for it.                 *)
Waiting(w) ==
  /\ lease.owner = w /\ w \notin Senders
  /\ w \in Humans =>
       /\ pc[w] = "attached" /\ ~humanTurnSeen[w]
       /\ lease.reason = "human_command_submitted" /\ ~lease.short
  /\ w \in Delegates => pc[w] = "start" /\ cursor[w] = begun

Pending == begun < Len(commands)

(* A delegate that is about to submit finds the TUI idle, and counts turns *)
(* from there.                                                             *)
Counts(d) ==
  /\ pc[d] \in {"text", "ack"} => ~active /\ ~Pending /\ cursor[d] = begun
  /\ pc[d] = "start" => cursor[d] < Len(commands) /\ commands[cursor[d] + 1].by = d

(* A human who waits has seen no turn but that of his last command, and    *)
(* Enter on an empty line submits nothing.                                 *)
Sees(h) ==
  /\ humanTurnSeen[h] => pc[h] # "idle"
  /\ humanTurnSeen[h] /\ pc[h] = "attached" =>
       /\ lease.owner = h /\ lease.reason = "human_command_submitted" /\ ~lease.short
       /\ ~Pending
  /\ lease.owner = h /\ lease.reason = "human_command_submitted" /\ lease.short =>
       ~active /\ ~Pending

Patient == ~(Faults \/ Hasty \/ Leaves) /\ Shadowed /\ FollowUps = {}
QueueInv ==
  Patient => /\ \A s \in Senders : pc[s] = "idle"
             /\ Pending => Len(commands) = begun + 1 /\ ~active /\ Waiting(commands[begun + 1].by)
             /\ \A d \in Delegates : Counts(d)
             /\ \A h \in Humans : Sees(h)
             /\ StartedOwnTurn

-----------------------------------------------------------------------------
(* The pieces the steps are made of.                                       *)

LEMMA SituationStays == [InputNext]_inputVars => situation' = situation
BY DEF InputNext, Automation, Human, inputVars, clientVars, Ensure, Cursor, BeginTurn, IsReady,
   SendText,
   Submit, Started, Completed, Return, TimesOut, Dies, Attach, Type, Erase, Edit, Enter, Key, Poll, Detach,
   Lapse, ConfigurationReleases, TurnStarts, TurnEnds, PromptReturns

LEMMA SituationType ==
  ASSUME InputTypeOK
  PROVE  /\ MaxKeys \in Nat /\ FollowUps \subseteq Senders
         /\ situation.composer \in Nat /\ situation.composer > 0 /\ Edits \in BOOLEAN
         /\ Hasty \in BOOLEAN /\ Leaves \in BOOLEAN /\ Configures \in BOOLEAN
         /\ LongTurns \in BOOLEAN /\ Faults \in BOOLEAN
BY TerminalAssumption
   DEF InputTypeOK, MaxKeys, Hasty, Leaves, Configures, Edits, LongTurns, Faults, FollowUps

(* A lease with some of its fields changed.                                *)
LEMMA TypedFields ==
  ASSUME NEW l \in Leases, NEW n \in 0..MaxKeys, NEW r \in Reasons, NEW s \in BOOLEAN
  PROVE  [l EXCEPT !.chars = n, !.reason = r, !.short = s] \in Leases
BY DEF Leases

LEMMA EnteredFields ==
  ASSUME NEW l \in Leases, NEW n \in 0..MaxKeys, NEW r \in Reasons, NEW s \in BOOLEAN
  PROVE  [l EXCEPT !.chars = n, !.short = s, !.reason = r] \in Leases
BY DEF Leases

LEMMA ConfiguredFields ==
  ASSUME NEW l \in Leases, NEW n \in 0..MaxKeys, NEW c \in BOOLEAN, NEW p \in BOOLEAN,
         NEW r \in Reasons, NEW s \in BOOLEAN
  PROVE  [l EXCEPT !.chars = n, !.config = c, !.prompt = p, !.short = s, !.reason = r] \in Leases
BY DEF Leases

(* No lease.                                                               *)
LEMMA NoLeaseType ==
  ASSUME InputTypeOK
  PROVE  /\ NoLease \in Leases /\ NoLease.owner = Nobody /\ NoLease.chars = 0
         /\ ~NoLease.config /\ ~NoLease.short /\ NoLease.reason = "none"
BY SituationType DEF NoLease, Leases, Reasons, InputTypeOK

(* A lease that is granted anew.                                           *)
LEMMA GrantedLease ==
  ASSUME InputTypeOK, NEW w \in Writers
  PROVE  /\ NewLease(w) \in Leases
         /\ NewLease(w).owner = w /\ NewLease(w).chars = 0 /\ ~NewLease(w).config
         /\ NewLease(w).reason = "granted"
         /\ NewLease(w).short <=> w \in Humans
<1> DEFINE short == w \in Humans
           reason == "granted"
<1>1. /\ w \in Writers \cup {Nobody} /\ nextGeneration \in Nat /\ reason \in Reasons
      /\ short \in BOOLEAN
  BY DEF InputTypeOK, Reasons
<1>2. NewLease(w) = [NoLease EXCEPT !.owner = w, !.generation = nextGeneration,
                                    !.reason = reason, !.short = short]
  BY DEF NewLease
<1> HIDE DEF short, reason
<1>3. NewLease(w) \in Leases
  <2>1. NoLease \in Leases
    BY NoLeaseType
  <2>2. [NoLease EXCEPT !.owner = w, !.generation = nextGeneration,
                        !.reason = reason, !.short = short] \in Leases
    BY <1>1, <2>1 DEF Leases
  <2> QED
    BY <1>2, <2>2, Zenon
<1>4. /\ NewLease(w).owner = w /\ NewLease(w).chars = 0 /\ ~NewLease(w).config
      /\ NewLease(w).reason = reason /\ NewLease(w).short = short
  BY <1>2 DEF NoLease
<1> QED
  BY <1>3, <1>4 DEF short, reason

(* Who is not refused has the lease afterwards: the one he had, or a new   *)
(* one.                                                                    *)
LEMMA Granting ==
  ASSUME InputTypeOK, NEW w \in Writers, ~Busy(w), Grant(w)
  PROVE  /\ lease' \in Leases /\ nextGeneration' \in Nat /\ lease'.owner = w
         /\ \/ lease.owner = w /\ lease' = lease
            \/ lease.owner = Nobody /\ lease' = NewLease(w)
BY GrantedLease, TerminalAssumption DEF Busy, Free, Grant, InputTypeOK

LEMMA Dropping ==
  ASSUME InputTypeOK, Drop
  PROVE  /\ lease' = NoLease /\ lease' \in Leases /\ nextGeneration' \in Nat
         /\ implicitWriter' \in Writers \cup {Nobody}
BY NoLeaseType DEF Drop, InputTypeOK

(* The lease a key is written under.                                       *)
LEMMA Holding ==
  ASSUME InputTypeOK, LeaseInv, NEW h \in Humans, Key(h)
  PROVE  /\ Held(h) \in Leases /\ Held(h).owner = h
         /\ Held(h).chars <= keys[h] /\ keys[h] < MaxKeys
         /\ keys' = [keys EXCEPT ![h] = @ + 1] /\ keys' \in [Humans -> 0..MaxKeys]
         /\ Held(h).config => Held(h).short
         /\ \/ lease.owner = h /\ Held(h) = lease
            \/ lease.owner = Nobody /\ Held(h) = NewLease(h)
         /\ nextGeneration' \in Nat /\ implicitWriter' \in Writers \cup {Nobody}
         /\ mine' \in [Humans -> Nat]
<1>1. h \in Writers
  BY DEF Writers
<1>2. keys[h] \in Nat /\ keys[h] < MaxKeys /\ MaxKeys \in Nat
  BY SituationType DEF Key, InputTypeOK
<1>3. keys' = [keys EXCEPT ![h] = @ + 1] /\ keys' \in [Humans -> 0..MaxKeys]
  BY <1>2 DEF Key, InputTypeOK
<1>4. CASE Free
  BY <1>1, <1>2, <1>3, <1>4, GrantedLease DEF Held, Key, InputTypeOK, Free
<1>5. CASE ~Free
  <2>1. lease.owner = h /\ Held(h) = lease
    BY <1>5 DEF Key, Busy, Held
  <2>2. lease.generation \in Nat
    BY DEF InputTypeOK, Leases
  <2> QED
    BY <1>1, <1>2, <1>3, <1>5, <2>1, <2>2 DEF Key, InputTypeOK, LeaseInv
<1> QED
  BY <1>4, <1>5

(* What a character, a backspace and Enter do to it.                       *)
LEMMA Typing ==
  ASSUME NEW l \in Leases, NEW n \in Nat, l.chars <= n, n < MaxKeys, MaxKeys \in Nat,
         situation.composer \in Nat
  PROVE  /\ Typed(l) \in Leases /\ Typed(l).owner = l.owner /\ Typed(l).chars <= l.chars + 1
         /\ Shadowed => Typed(l).chars = l.chars + 1
         /\ Typed(l).config = l.config /\ Typed(l).short = l.config
         /\ Typed(l).reason = "human_input"
<1>1. Typed(l) \in Leases
  <2>1. Counted(l.chars) \in 0..MaxKeys /\ l.config \in BOOLEAN /\ "human_input" \in Reasons
    BY DEF Leases, Reasons, Counted
  <2> QED
    BY <2>1, TypedFields, Zenon DEF Typed
<1>2. l.chars \in Nat
  BY DEF Leases
<1>3. Counted(l.chars) <= l.chars + 1 /\ (Shadowed => Counted(l.chars) = l.chars + 1)
  BY <1>2 DEF Counted, Shadowed
<1>4. Typed(l).chars = Counted(l.chars)
  BY DEF Leases, Typed
<1> QED
  BY <1>1, <1>3, <1>4 DEF Leases, Typed

LEMMA Erasing ==
  ASSUME NEW l \in Leases, MaxKeys \in Nat
  PROVE  /\ Erased(l) \in Leases /\ Erased(l).owner = l.owner
         /\ Erased(l).chars = IF l.chars = 0 THEN 0 ELSE l.chars - 1
         /\ Erased(l).config = l.config
         /\ Erased(l).short <=> (l.config \/ Erased(l).chars = 0)
         /\ Erased(l).reason = "human_input"
<1> DEFINE left == IF l.chars = 0 THEN 0 ELSE l.chars - 1
           short == l.config \/ left = 0
           reason == "human_input"
<1>1. left \in 0..MaxKeys /\ short \in BOOLEAN /\ reason \in Reasons
  BY DEF Leases, Reasons
<1>2. Erased(l) = [l EXCEPT !.chars = left, !.reason = reason, !.short = short]
  BY DEF Erased
<1> HIDE DEF short
<1>3. Erased(l).short = short
  BY <1>2 DEF Leases
<1> HIDE DEF left, reason
<1>4. Erased(l) \in Leases
  <2>1. [l EXCEPT !.chars = left, !.reason = reason, !.short = short] \in Leases
    BY <1>1 DEF Leases
  <2> QED
    BY <1>2, <2>1, Zenon
<1>5. /\ Erased(l).owner = l.owner /\ Erased(l).chars = left /\ Erased(l).config = l.config
      /\ Erased(l).reason = reason
  BY <1>2 DEF Leases
<1> QED
  BY <1>3, <1>4, <1>5 DEF left, short, reason

LEMMA Moving ==
  ASSUME NEW l \in Leases, MaxKeys \in Nat
  PROVE  /\ Moved(l) \in Leases /\ Moved(l).owner = l.owner /\ Moved(l).chars = l.chars
         /\ Moved(l).config = l.config
         /\ Moved(l).config => Moved(l).short
         /\ Moved(l).reason = "human_input"
<1> DEFINE short == l.config \/ l.chars = 0
           reason == "human_input"
<1>1. short \in BOOLEAN /\ reason \in Reasons
  BY DEF Leases, Reasons
<1>2. Moved(l) = [l EXCEPT !.reason = reason, !.short = short]
  BY DEF Moved
<1>3. l.config => short
  OBVIOUS
<1> HIDE DEF short, reason
<1>4. /\ Moved(l) \in Leases /\ Moved(l).owner = l.owner /\ Moved(l).chars = l.chars
      /\ Moved(l).config = l.config /\ Moved(l).short = short /\ Moved(l).reason = reason
  BY <1>1, <1>2 DEF Leases
<1> QED
  BY <1>3, <1>4 DEF reason

LEMMA Entering ==
  ASSUME NEW l \in Leases, NEW c \in BOOLEAN, MaxKeys \in Nat
  PROVE  /\ Entered(l, c) \in Leases /\ Entered(l, c).owner = l.owner
         /\ Entered(l, c).chars = 0
         /\ Entered(l, c).config <=> (l.config \/ c)
         /\ l.config \/ c =>
              Entered(l, c).short /\ Entered(l, c).reason = "configuration_command_submitted"
         /\ ~(l.config \/ c) =>
              (Entered(l, c).short <=> l.chars = 0) /\ Entered(l, c).reason = "human_command_submitted"
<1>1. CASE l.config \/ c
  <2>1. \A n \in 0..MaxKeys, y, f \in BOOLEAN, r \in Reasons :
          [l EXCEPT !.chars = n, !.config = y, !.prompt = f, !.short = y, !.reason = r] \in Leases
    BY ConfiguredFields
  <2> DEFINE r == "configuration_command_submitted"
  <2>2. Entered(l, c) = [l EXCEPT !.chars = 0, !.config = TRUE, !.prompt = FALSE, !.short = TRUE,
                                  !.reason = r]
    BY <1>1 DEF Entered
  <2>3. 0 \in 0..MaxKeys /\ r \in Reasons
    BY DEF Reasons
  <2> HIDE DEF r
  <2>4. Entered(l, c) \in Leases
    BY <2>1, <2>2, <2>3
  <2>5. /\ Entered(l, c).owner = l.owner /\ Entered(l, c).chars = 0 /\ Entered(l, c).config
        /\ Entered(l, c).short /\ Entered(l, c).reason = r
    BY <2>2 DEF Leases
  <2> QED
    BY <1>1, <2>4, <2>5 DEF r
<1>2. CASE ~(l.config \/ c)
  <2> DEFINE r == "human_command_submitted"
             short == l.chars = 0
  <2>1. Entered(l, c) = [l EXCEPT !.chars = 0, !.short = short, !.reason = r]
    BY <1>2 DEF Entered
  <2>2. 0 \in 0..MaxKeys /\ r \in Reasons /\ short \in BOOLEAN
    BY DEF Reasons
  <2> HIDE DEF r, short
  <2>3. Entered(l, c) \in Leases
    <3>1. \A n \in 0..MaxKeys, y \in BOOLEAN, t \in Reasons :
            [l EXCEPT !.chars = n, !.short = y, !.reason = t] \in Leases
      BY EnteredFields
    <3> QED
      BY <2>1, <2>2, <3>1
  <2>4. /\ Entered(l, c).owner = l.owner /\ Entered(l, c).chars = 0
        /\ Entered(l, c).config = l.config /\ Entered(l, c).short = short
        /\ Entered(l, c).reason = r
    BY <2>1 DEF Leases
  <2> QED
    BY <1>2, <2>3, <2>4 DEF r, short
<1> QED
  BY <1>1, <1>2

(* A token more at the end of the line, or one less.                       *)
LEMMA LineGrows ==
  ASSUME NEW l \in Seq(Tokens), NEW t \in Tokens
  PROVE  /\ Append(l, t) \in Seq(Tokens) /\ Len(Append(l, t)) = Len(l) + 1
         /\ \A i \in 1..Len(l) : Append(l, t)[i] = l[i]
         /\ Append(l, t)[Len(l) + 1] = t
  OBVIOUS

(* Text in the place of a part of the line.                                *)
LEMMA Splicing ==
  ASSUME line \in Seq(Tokens), NEW i \in 0..Len(line), NEW j \in i..Len(line),
         NEW text \in Seq(Tokens)
  PROVE  /\ Spliced(i, j, text) \in Seq(Tokens)
         /\ Len(Spliced(i, j, text)) = i + Len(text) + (Len(line) - j)
         /\ j = Len(line) => Spliced(i, j, text) = SubSeq(line, 1, i) \o text
<1> DEFINE before == SubSeq(line, 1, i)
           after == SubSeq(line, j + 1, Len(line))
<1>1. Len(line) \in Nat /\ i \in Int /\ j + 1 \in Int /\ 1 \in Int
  OBVIOUS
<1>2. \A k \in 1..Len(line) : line[k] \in Tokens
  BY ElementOfSeq
<1>3. before \in Seq(Tokens) /\ Len(before) = i
  <2>1. \A k \in 1..i : line[k] \in Tokens
    BY <1>1, <1>2
  <2>2. SubSeq(line, 1, i) \in Seq(Tokens) /\ Len(SubSeq(line, 1, i)) = IF 1 <= i THEN i - 1 + 1 ELSE 0
    BY <1>1, <2>1, SubSeqProperties, SMT
  <2> QED
    BY <2>2
<1>4. after \in Seq(Tokens) /\ Len(after) = Len(line) - j
  <2>1. \A k \in j + 1..Len(line) : line[k] \in Tokens
    BY <1>1, <1>2
  <2>2. /\ SubSeq(line, j + 1, Len(line)) \in Seq(Tokens)
        /\ Len(SubSeq(line, j + 1, Len(line))) =
             IF j + 1 <= Len(line) THEN Len(line) - (j + 1) + 1 ELSE 0
    BY <1>1, <2>1, SubSeqProperties, SMT
  <2> QED
    BY <2>2
<1>5. j = Len(line) => after = <<>>
  BY <1>1, SubSeqEmpty
<1> HIDE DEF before, after
<1>6. before \o text \in Seq(Tokens) /\ Len(before \o text) = Len(before) + Len(text)
  BY <1>3, ConcatProperties, Zenon
<1>7. /\ (before \o text) \o after \in Seq(Tokens)
      /\ Len((before \o text) \o after) = i + Len(text) + (Len(line) - j)
  <2>1. /\ (before \o text) \o after \in Seq(Tokens)
        /\ Len((before \o text) \o after) = Len(before \o text) + Len(after)
    BY <1>4, <1>6, ConcatProperties, Zenon
  <2> QED
    BY <1>3, <1>4, <1>6, <2>1, Zenon
<1>8. after = <<>> => (before \o text) \o after = before \o text
  BY <1>6, ConcatEmptySeq
<1>9. Spliced(i, j, text) = (before \o text) \o after
  BY DEF Spliced, before, after
<1> QED
  BY <1>5, <1>7, <1>8, <1>9 DEF before

(* A character at the caret, which stands at the end or not.               *)
LEMMA Inserting ==
  ASSUME line \in Seq(Tokens), caret \in 0..Len(line), NEW t \in Tokens, Inserted(t)
  PROVE  /\ line' \in Seq(Tokens) /\ caret' \in 0..Len(line')
         /\ caret = Len(line) => line' = Append(line, t) /\ caret' = Len(line')
<1>1. <<t>> \in Seq(Tokens) /\ Len(<<t>>) = 1 /\ Len(line) \in Nat
  OBVIOUS
<1>2. caret \in caret..Len(line)
  OBVIOUS
<1>3. /\ line' \in Seq(Tokens) /\ Len(line') = caret + 1 + (Len(line) - caret)
      /\ caret = Len(line) => line' = SubSeq(line, 1, caret) \o <<t>>
  BY <1>1, <1>2, Splicing DEF Inserted
<1>4. caret' = caret + 1
  BY DEF Inserted
<1>5. SubSeq(line, 1, Len(line)) = line /\ Append(line, t) = line \o <<t>>
  BY SubSeqFull, AppendIsConcat
<1>6. caret' \in 0..Len(line') /\ (caret = Len(line) => caret' = Len(line'))
  BY <1>1, <1>3, <1>4
<1>7. caret = Len(line) => line' = Append(line, t)
  BY <1>3, <1>5, Zenon
<1> QED
  BY <1>3, <1>6, <1>7

LEMMA LineShrinks ==
  ASSUME NEW l \in Seq(Tokens), l # <<>>
  PROVE  /\ SubSeq(l, 1, Len(l) - 1) \in Seq(Tokens)
         /\ Len(SubSeq(l, 1, Len(l) - 1)) = Len(l) - 1
         /\ \A i \in 1..Len(l) - 1 : SubSeq(l, 1, Len(l) - 1)[i] = l[i]
<1> DEFINE m == Len(l) - 1
<1>1. m \in Nat /\ m \in Int /\ 1 \in Int /\ \A i \in 1..m : l[i] \in Tokens
  OBVIOUS
<1> HIDE DEF m
<1>2. /\ SubSeq(l, 1, m) \in Seq(Tokens)
      /\ Len(SubSeq(l, 1, m)) = IF 1 <= m THEN m - 1 + 1 ELSE 0
      /\ \A i \in 1..m - 1 + 1 : SubSeq(l, 1, m)[i] = l[1 + i - 1]
  BY <1>1, SMT
<1>3. Len(SubSeq(l, 1, m)) = m /\ \A i \in 1..m : SubSeq(l, 1, m)[i] = l[i]
  BY <1>1, <1>2
<1> QED
  BY <1>2, <1>3 DEF m

(* Enter empties the line, and adds at most one command.                   *)
LEMMA Submitting ==
  ASSUME InputTypeOK, NEW w \in Writers, Submitted(w)
  PROVE  /\ line' = <<>> /\ line' \in Seq(Tokens) /\ dialog' \in BOOLEAN
         /\ commands' \in Seq([line : Seq(Tokens), by : Writers])
         /\ \A i \in 1..Len(commands) : commands'[i] = commands[i]
         /\ \/ commands' = commands
            \/ /\ line # <<>> /\ ~line[1].config
               /\ Len(commands') = Len(commands) + 1
               /\ commands'[Len(commands) + 1] = [line |-> line, by |-> w]
         /\ begun' = begun /\ active' = active
<1> DEFINE entry == [line |-> line, by |-> w]
           Entries == [line : Seq(Tokens), by : Writers]
<1>1. entry \in Entries /\ commands \in Seq(Entries) /\ line \in Seq(Tokens) /\ dialog \in BOOLEAN
  BY DEF InputTypeOK
<1>2. line # <<>> => line[1] \in Tokens
  BY <1>1
<1>3. line # <<>> => line[1].config \in BOOLEAN
  BY <1>2 DEF Tokens
<1>4. /\ line' = <<>> /\ <<>> \in Seq(Tokens) /\ begun' = begun /\ active' = active
      /\ dialog' = (dialog \/ (line # <<>> /\ line[1].config))
      /\ commands' = IF line = <<>> \/ line[1].config THEN commands ELSE Append(commands, entry)
  BY DEF Submitted
<1> HIDE DEF entry, Entries
<1>5. /\ Append(commands, entry) \in Seq(Entries) /\ Len(Append(commands, entry)) = Len(commands) + 1
      /\ \A i \in 1..Len(commands) : Append(commands, entry)[i] = commands[i]
      /\ Append(commands, entry)[Len(commands) + 1] = entry
  BY <1>1
<1>6. dialog' \in BOOLEAN
  BY <1>4
<1>7. CASE line = <<>> \/ line[1].config
  BY <1>1, <1>4, <1>6, <1>7 DEF Entries
<1>8. CASE ~(line = <<>> \/ line[1].config)
  BY <1>1, <1>3, <1>4, <1>5, <1>6, <1>8 DEF Entries, entry
<1> QED
  BY <1>7, <1>8

(* Where a client goes.                                                    *)
LEMMA Going ==
  ASSUME InputTypeOK, NEW w \in Writers, NEW p \in Places, Goto(w, p)
  PROVE  /\ pc' \in [Writers -> Places] /\ pc'[w] = p
         /\ \A v \in Writers : v # w => pc'[v] = pc[v]
BY DEF Goto, InputTypeOK

(* An automation that failed gives its lease back, if it has one.          *)
LEMMA Failing ==
  ASSUME InputTypeOK, NEW a \in Automations, Fail(a)
  PROVE  /\ pc' \in [Writers -> Places] /\ pc'[a] \in {"return", "done"}
         /\ \A v \in Writers : v # a => pc'[v] = pc[v]
         /\ outcome' = [outcome EXCEPT ![a] = "failed"]
         /\ outcome' \in [Automations -> {"none", "ok", "failed"}]
BY DEF Fail, Goto, InputTypeOK, Places, Writers

LEMMA ClientSets ==
  /\ Automations \subseteq Writers /\ Humans \subseteq Writers
  /\ Delegates \subseteq Automations /\ Senders \subseteq Automations
  /\ \A d \in Delegates : d \notin Senders /\ d \notin Humans
  /\ \A s \in Senders : s \notin Delegates /\ s \notin Humans
  /\ \A a \in Automations : a \notin Humans /\ (a \in Delegates \/ a \in Senders)
  /\ Nobody \notin Writers /\ Nobody \notin Humans /\ Nobody \notin Automations
BY TerminalAssumption DEF Writers, Automations

-----------------------------------------------------------------------------
(* Types, places and what the lease remembers.                             *)

Basis == InputTypeOK /\ PlacesInv /\ LeaseInv /\ CaretInv

LEMMA BasisInit == InputInit => Basis
<1> SUFFICES ASSUME InputInit PROVE Basis
  OBVIOUS
<1>1. NoLease \in [owner : Writers \cup {Nobody}, generation : Nat, chars : 0..MaxKeys,
                   config : BOOLEAN, prompt : BOOLEAN, reason : Reasons, short : BOOLEAN]
  <2>1. MaxKeys \in Nat
    BY TerminalAssumption DEF InputInit, MaxKeys
  <2> QED
    BY <2>1 DEF NoLease, Reasons
<1>2. InputTypeOK
  <2>1. /\ situation \in Situations /\ situation.keys \in Nat
    BY TerminalAssumption DEF InputInit
  <2>2. lease \in Leases
    BY <1>1 DEF InputInit, Leases
  <2>3. /\ pc \in [Writers -> Places] /\ outcome \in [Automations -> {"none", "ok", "failed"}]
        /\ cursor \in [Automations -> Nat] /\ base \in [Automations -> 0..begun]
        /\ mine \in [Humans -> Nat] /\ humanTurnSeen \in [Humans -> BOOLEAN]
        /\ keys \in [Humans -> 0..MaxKeys]
    BY <2>1 DEF InputInit, Places, MaxKeys
  <2>4. /\ line \in Seq(Tokens) /\ commands \in Seq([line : Seq(Tokens), by : Writers])
        /\ begun \in 0..Len(commands) /\ caret \in 0..Len(line)
    BY DEF InputInit
  <2> QED
    BY <2>1, <2>2, <2>3, <2>4 DEF InputInit, InputTypeOK
<1>3. PlacesInv
  BY ClientSets DEF InputInit, PlacesInv
<1>4. LeaseInv
  BY ClientSets DEF InputInit, LeaseInv, NoLease
<1>5. CaretInv
  BY DEF InputInit, CaretInv
<1> QED
  BY <1>2, <1>3, <1>4, <1>5 DEF Basis

(* Steps of the lease, the TUI and the automations.                        *)
LEMMA DropBasis ==
  ASSUME Basis, Drop, situation' = situation, UNCHANGED <<keys, tuiVars, cursor, base, associated>>,
         pc' \in [Writers -> Places], PlacesInv', outcome' \in [Automations -> {"none", "ok", "failed"}],
         mine' \in [Humans -> Nat], humanTurnSeen' \in [Humans -> BOOLEAN]
  PROVE  Basis'
<1>1. Leases' = Leases /\ MaxKeys' = MaxKeys
  BY DEF Leases, MaxKeys
<1>2. /\ lease' = NoLease /\ lease' \in Leases /\ nextGeneration' \in Nat
      /\ implicitWriter' \in Writers \cup {Nobody}
  BY Dropping DEF Basis
<1>3. InputTypeOK'
  BY <1>1, <1>2 DEF Basis, InputTypeOK, tuiVars
<1>4. LeaseInv'
  BY <1>2, NoLeaseType, ClientSets DEF Basis, LeaseInv
<1>5. CaretInv'
  BY DEF Basis, CaretInv, Edits, tuiVars
<1> QED
  BY <1>3, <1>4, <1>5 DEF Basis

(* A step that leaves the lease alone, or takes it for an automation.      *)
LEMMA GrantBasis ==
  ASSUME Basis, situation' = situation, UNCHANGED <<keys, mine, humanTurnSeen>>,
         NEW a \in Writers,
         lease' = lease \/ (Free /\ lease' = NewLease(a)),
         nextGeneration' \in Nat, implicitWriter' \in Writers \cup {Nobody},
         pc' \in [Writers -> Places], PlacesInv', outcome' \in [Automations -> {"none", "ok", "failed"}],
         cursor' \in [Automations -> Nat], base' \in [Automations -> 0..begun'], associated' \in BOOLEAN,
         line' \in Seq(Tokens), caret' \in 0..Len(line'), CaretInv', dialog' \in BOOLEAN,
         commands' \in Seq([line : Seq(Tokens), by : Writers]),
         begun' \in 0..Len(commands'), active' \in BOOLEAN
  PROVE  Basis'
<1>1. Leases' = Leases /\ MaxKeys' = MaxKeys
  BY DEF Leases, MaxKeys
<1>2. lease' \in Leases
  BY GrantedLease DEF Basis, InputTypeOK
<1>3. InputTypeOK'
  BY <1>1, <1>2 DEF Basis, InputTypeOK
<1>4. LeaseInv'
  <2>1. CASE lease' = lease
    BY <2>1 DEF Basis, LeaseInv
  <2>2. CASE lease' = NewLease(a)
    <3>1. a \in Humans => keys[a] \in Nat
      BY SituationType DEF Basis, InputTypeOK
    <3> QED
      BY <2>2, <3>1, GrantedLease DEF Basis, LeaseInv
  <2> QED
    BY <2>1, <2>2
<1> QED
  BY <1>3, <1>4 DEF Basis
(* A human's key, and what it makes of the lease and of the line.          *)
LEMMA TypeKey ==
  ASSUME Basis, NEW h \in Humans, NEW config \in BOOLEAN, Type(h, config)
  PROVE  /\ Key(h) /\ (config => Configures)
         /\ Held(h) \in Leases /\ Held(h).owner = h /\ Held(h).chars \in Nat
         /\ lease' \in Leases /\ lease'.owner = h /\ lease'.chars <= Held(h).chars + 1
         /\ Shadowed => lease'.chars = Held(h).chars + 1
         /\ lease'.config = Held(h).config /\ lease'.short = Held(h).config
         /\ lease'.reason = "human_input"
         /\ line' \in Seq(Tokens) /\ caret' \in 0..Len(line')
         /\ ~Edits => caret' = Len(line')
         /\ Shadowed => line' = Append(line, [by |-> h, config |-> config])
         /\ [by |-> h, config |-> config] \in Tokens /\ line \in Seq(Tokens)
         /\ UNCHANGED <<pc, humanTurnSeen, cursor, outcome, dialog, commands, begun, active>>
<1>1. /\ Key(h) /\ lease' = Typed(Held(h)) /\ (config => Configures)
      /\ Inserted([by |-> h, config |-> config])
      /\ UNCHANGED <<dialog, commands, begun, active>>
  BY DEF Type
<1>2. MaxKeys \in Nat /\ keys[h] \in Nat /\ situation.composer \in Nat
  BY SituationType DEF Basis, InputTypeOK
<1>3. /\ Held(h) \in Leases /\ Held(h).owner = h /\ Held(h).chars <= keys[h] /\ keys[h] < MaxKeys
  BY <1>1, Holding DEF Basis
<1>4. /\ lease' \in Leases /\ lease'.owner = h /\ lease'.chars <= Held(h).chars + 1
      /\ Shadowed => lease'.chars = Held(h).chars + 1
      /\ lease'.config = Held(h).config /\ lease'.short = Held(h).config
      /\ lease'.reason = "human_input"
  BY <1>1, <1>2, <1>3, Typing
<1>5. [by |-> h, config |-> config] \in Tokens /\ line \in Seq(Tokens) /\ caret \in 0..Len(line)
  BY ClientSets DEF Basis, InputTypeOK, Tokens
<1>7. /\ line' \in Seq(Tokens) /\ caret' \in 0..Len(line')
      /\ ~Edits => caret' = Len(line') /\ line' = Append(line, [by |-> h, config |-> config])
  BY <1>1, <1>5, Inserting DEF Basis, CaretInv
<1>6. Held(h).chars \in Nat
  BY <1>2, <1>3 DEF Leases
<1> QED
  BY <1>1, <1>3, <1>4, <1>5, <1>6, <1>7 DEF Key, clientVars, Shadowed

LEMMA EraseKey ==
  ASSUME Basis, NEW h \in Humans, Erase(h)
  PROVE  /\ Key(h) /\ Held(h) \in Leases /\ Held(h).owner = h /\ Held(h).chars \in Nat
         /\ lease' \in Leases /\ lease'.owner = h
         /\ lease'.chars = IF Held(h).chars = 0 THEN 0 ELSE Held(h).chars - 1
         /\ lease'.config = Held(h).config
         /\ lease'.short <=> (Held(h).config \/ lease'.chars = 0)
         /\ lease'.reason = "human_input"
         /\ line' \in Seq(Tokens) /\ caret' \in 0..Len(line')
         /\ ~Edits => caret' = Len(line')
         /\ Shadowed => line' = IF line = <<>> THEN line ELSE SubSeq(line, 1, Len(line) - 1)
         /\ line \in Seq(Tokens)
         /\ UNCHANGED <<pc, humanTurnSeen, cursor, outcome, dialog, commands, begun, active>>
<1>1. /\ Key(h) /\ lease' = Erased(Held(h))
      /\ \/ caret = 0 /\ UNCHANGED <<line, caret>>
         \/ caret > 0 /\ line' = Spliced(caret - 1, caret, <<>>) /\ caret' = caret - 1
      /\ UNCHANGED <<dialog, commands, begun, active>>
  BY DEF Erase
<1>2. MaxKeys \in Nat /\ line \in Seq(Tokens) /\ caret \in 0..Len(line) /\ Len(line) \in Nat
  BY SituationType DEF Basis, InputTypeOK
<1>3. Held(h) \in Leases /\ Held(h).owner = h
  BY <1>1, Holding DEF Basis
<1>4. Held(h).chars \in Nat
  BY <1>2, <1>3 DEF Leases
<1>5. /\ lease' \in Leases /\ lease'.owner = h
      /\ lease'.chars = IF Held(h).chars = 0 THEN 0 ELSE Held(h).chars - 1
      /\ lease'.config = Held(h).config /\ (lease'.short <=> (Held(h).config \/ lease'.chars = 0))
      /\ lease'.reason = "human_input"
  BY <1>1, <1>2, <1>3, Erasing
<1>6. /\ line' \in Seq(Tokens) /\ caret' \in 0..Len(line')
      /\ ~Edits => /\ caret' = Len(line')
                   /\ line' = IF line = <<>> THEN line ELSE SubSeq(line, 1, Len(line) - 1)
  <2>1. ~Edits => caret = Len(line)
    BY DEF Basis, CaretInv
  <2>2. CASE caret = 0
    <3>1. UNCHANGED <<line, caret>>
      BY <1>1, <1>2, <2>2
    <3>2. caret = Len(line) => line = <<>>
      BY <1>2, <2>2
    <3> QED
      BY <1>2, <2>1, <2>2, <3>1, <3>2
  <2>3. CASE caret # 0
    <3>1. line' = Spliced(caret - 1, caret, <<>>) /\ caret' = caret - 1
      BY <1>1, <1>2, <2>3
    <3>2. caret - 1 \in 0..Len(line) /\ caret \in caret - 1..Len(line)
      BY <1>2, <2>3
    <3>3. <<>> \in Seq(Tokens) /\ Len(<<>>) = 0
      OBVIOUS
    <3>4. /\ line' \in Seq(Tokens) /\ Len(line') = caret - 1 + Len(<<>>) + (Len(line) - caret)
          /\ caret = Len(line) => line' = SubSeq(line, 1, caret - 1) \o <<>>
      BY <1>2, <3>1, <3>2, <3>3, Splicing, Zenon
    <3>5. SubSeq(line, 1, Len(line) - 1) \o <<>> = SubSeq(line, 1, Len(line) - 1) /\ line # <<>>
      <4>1. line # <<>>
        BY <1>2, <2>3
      <4> QED
        BY <1>2, <4>1, LineShrinks, ConcatEmptySeq
    <3> QED
      BY <1>2, <2>1, <2>3, <3>1, <3>3, <3>4, <3>5
  <2> QED
    BY <2>2, <2>3
<1> QED
  BY <1>1, <1>2, <1>3, <1>4, <1>5, <1>6 DEF Key, clientVars, Shadowed

(* A key of another kind.                                                  *)
LEMMA EditKey ==
  ASSUME Basis, NEW h \in Humans, Edit(h)
  PROVE  /\ Key(h) /\ Held(h).chars \in Nat
         /\ lease' \in Leases /\ lease'.owner = h /\ lease'.chars = Held(h).chars
         /\ lease'.config => lease'.short
         /\ lease'.reason = "human_input"
         /\ line' \in Seq(Tokens) /\ caret' \in 0..Len(line') /\ Edits
         /\ UNCHANGED <<dialog, commands, begun, active>>
<1>1. /\ Key(h) /\ lease' = Moved(Held(h)) /\ Edits
      /\ UNCHANGED <<dialog, commands, begun, active>>
  BY DEF Edit
<1>2. MaxKeys \in Nat /\ line \in Seq(Tokens) /\ Len(line) \in Nat
  BY SituationType DEF Basis, InputTypeOK
<1>3. Held(h) \in Leases /\ Held(h).owner = h
  BY <1>1, Holding DEF Basis
<1>4. Held(h).chars \in Nat
  BY <1>2, <1>3 DEF Leases
<1>5. /\ lease' \in Leases /\ lease'.owner = h /\ lease'.chars = Held(h).chars
      /\ lease'.config => lease'.short
      /\ lease'.reason = "human_input"
  BY <1>1, <1>2, <1>3, Moving
<1>6. line' \in Seq(Tokens) /\ caret' \in 0..Len(line')
  <2>1. CASE line' = <<By(h)>> /\ caret' = 1
    <3>1. By(h) \in Tokens
      BY ClientSets DEF By, Tokens
    <3> HIDE DEF By
    <3>2. <<By(h)>> \in Seq(Tokens) /\ Len(<<By(h)>>) = 1
      BY <3>1
    <3> QED
      BY <2>1, <3>2
  <2>2. ASSUME NEW i \in 0..Len(line), NEW j \in 0..Len(line), i <= j,
               line' = Spliced(i, j, <<>>), caret' = i
        PROVE  line' \in Seq(Tokens) /\ caret' \in 0..Len(line')
    <3>1. j \in i..Len(line) /\ <<>> \in Seq(Tokens) /\ Len(<<>>) = 0
      BY <1>2, <2>2
    <3>2. line' \in Seq(Tokens) /\ Len(line') = i + 0 + (Len(line) - j)
      BY <1>2, <2>2, <3>1, Splicing
    <3> QED
      BY <1>2, <2>2, <3>2
  <2> QED
    BY <2>1, <2>2 DEF Edit
<1> QED
  BY <1>1, <1>4, <1>5, <1>6

LEMMA EnterKey ==
  ASSUME Basis, NEW h \in Humans, NEW config \in BOOLEAN, Key(h), Submitted(h),
         lease' = Entered(Held(h), config)
  PROVE  /\ Key(h) /\ Held(h) \in Leases /\ Held(h).owner = h /\ Held(h).chars \in Nat
         /\ lease' \in Leases /\ lease'.owner = h /\ lease'.chars = 0
         /\ lease'.config <=> (Held(h).config \/ config)
         /\ Held(h).config \/ config =>
              lease'.short /\ lease'.reason = "configuration_command_submitted"
         /\ ~(Held(h).config \/ config) =>
              (lease'.short <=> Held(h).chars = 0) /\ lease'.reason = "human_command_submitted"
         /\ Submitted(h) /\ line' = <<>> /\ caret' = 0 /\ line \in Seq(Tokens)
         /\ UNCHANGED <<pc, humanTurnSeen, cursor, outcome, begun, active>>
<1>1. Key(h) /\ lease' = Entered(Held(h), config) /\ Submitted(h)
  OBVIOUS
<1>2. MaxKeys \in Nat /\ line \in Seq(Tokens)
  BY SituationType DEF Basis, InputTypeOK
<1>3. Held(h) \in Leases /\ Held(h).owner = h
  BY <1>1, Holding DEF Basis
<1>4. Held(h).chars \in Nat
  BY <1>2, <1>3 DEF Leases
<1>5. /\ lease' \in Leases /\ lease'.owner = h /\ lease'.chars = 0
      /\ lease'.config <=> (Held(h).config \/ config)
      /\ Held(h).config \/ config =>
           lease'.short /\ lease'.reason = "configuration_command_submitted"
      /\ ~(Held(h).config \/ config) =>
           (lease'.short <=> Held(h).chars = 0) /\ lease'.reason = "human_command_submitted"
  BY <1>1, <1>2, <1>3, Entering
<1> QED
  BY <1>1, <1>2, <1>3, <1>4, <1>5 DEF Key, clientVars, Submitted
(* The step of a human's key.                                              *)
LEMMA KeyBasis ==
  ASSUME Basis, situation' = situation, NEW h \in Humans, Key(h),
         lease' \in Leases, lease'.owner = h, lease'.chars <= Held(h).chars + 1,
         lease'.config => lease'.short,
         lease'.reason \in {"human_command_submitted", "configuration_command_submitted"} =>
           lease'.chars = 0,
         line' \in Seq(Tokens), caret' \in 0..Len(line'), ~Edits => caret' = Len(line'),
         dialog' \in BOOLEAN, commands' \in Seq([line : Seq(Tokens), by : Writers]), Len(commands') >= Len(commands),
         UNCHANGED <<begun, active>>
  PROVE  Basis'
<1>1. Leases' = Leases /\ MaxKeys' = MaxKeys /\ MaxKeys \in Nat
  BY SituationType DEF Basis, Leases, MaxKeys
<1>2. /\ keys' = [keys EXCEPT ![h] = @ + 1] /\ keys' \in [Humans -> 0..MaxKeys]
      /\ Held(h) \in Leases /\ Held(h).chars <= keys[h]
      /\ nextGeneration' \in Nat /\ implicitWriter' \in Writers \cup {Nobody}
      /\ mine' \in [Humans -> Nat]
  BY Holding DEF Basis
<1>3. keys'[h] = keys[h] + 1 /\ keys[h] \in Nat /\ Held(h).chars \in Nat /\ lease'.chars \in Nat
  BY <1>1, <1>2 DEF Basis, InputTypeOK, Leases
<1>4. UNCHANGED <<pc, outcome, cursor, base, associated, humanTurnSeen>>
  BY DEF Key, clientVars
<1>5. InputTypeOK'
  <2>1. Len(commands) \in Nat /\ Len(commands') \in Nat /\ begun' \in 0..Len(commands')
    BY DEF Basis, InputTypeOK
  <2> QED
    BY <1>1, <1>2, <1>4, <2>1 DEF Basis, InputTypeOK
<1>6. LeaseInv'
  BY <1>2, <1>3 DEF LeaseInv
<1>7. PlacesInv' /\ CaretInv'
  BY <1>4 DEF Basis, PlacesInv, CaretInv, Edits
<1> QED
  BY <1>5, <1>6, <1>7 DEF Basis

(* ... if it submits nothing.                                              *)
LEMMA TypedBasis ==
  ASSUME Basis, situation' = situation, NEW h \in Humans, Key(h), Held(h).chars \in Nat,
         lease' \in Leases, lease'.owner = h, lease'.chars <= Held(h).chars + 1,
         lease'.config => lease'.short, lease'.reason = "human_input",
         line' \in Seq(Tokens), caret' \in 0..Len(line'), ~Edits => caret' = Len(line'),
         UNCHANGED <<dialog, commands, begun, active>>
  PROVE  Basis'
<1>1. /\ dialog' \in BOOLEAN /\ commands' \in Seq([line : Seq(Tokens), by : Writers])
      /\ Len(commands') >= Len(commands)
  BY DEF Basis, InputTypeOK
<1> QED
  BY <1>1, KeyBasis

LEMMA TypeBasis ==
  ASSUME Basis, situation' = situation, NEW h \in Humans, NEW config \in BOOLEAN, Type(h, config)
  PROVE  Basis'
<1>1. /\ Key(h) /\ Held(h).chars \in Nat
      /\ lease' \in Leases /\ lease'.owner = h /\ lease'.chars <= Held(h).chars + 1
      /\ lease'.config = Held(h).config /\ lease'.short = Held(h).config
      /\ lease'.reason = "human_input"
      /\ line' \in Seq(Tokens) /\ caret' \in 0..Len(line') /\ (~Edits => caret' = Len(line'))
      /\ UNCHANGED <<dialog, commands, begun, active>>
  BY TypeKey
<1> QED
  BY <1>1, TypedBasis

LEMMA EraseBasis ==
  ASSUME Basis, situation' = situation, NEW h \in Humans, Erase(h)
  PROVE  Basis'
<1>1. /\ Key(h) /\ Held(h).chars \in Nat
      /\ lease' \in Leases /\ lease'.owner = h
      /\ lease'.chars = IF Held(h).chars = 0 THEN 0 ELSE Held(h).chars - 1
      /\ lease'.config = Held(h).config
      /\ lease'.short <=> (Held(h).config \/ lease'.chars = 0)
      /\ lease'.reason = "human_input"
      /\ line' \in Seq(Tokens) /\ caret' \in 0..Len(line') /\ (~Edits => caret' = Len(line'))
      /\ UNCHANGED <<dialog, commands, begun, active>>
  BY EraseKey
<1> QED
  BY <1>1, TypedBasis

LEMMA EditBasis ==
  ASSUME Basis, situation' = situation, NEW h \in Humans, Edit(h)
  PROVE  Basis'
<1>1. /\ Key(h) /\ Held(h).chars \in Nat
      /\ lease' \in Leases /\ lease'.owner = h /\ lease'.chars <= Held(h).chars + 1
      /\ lease'.config => lease'.short
      /\ lease'.reason = "human_input"
      /\ line' \in Seq(Tokens) /\ caret' \in 0..Len(line') /\ (~Edits => caret' = Len(line'))
      /\ UNCHANGED <<dialog, commands, begun, active>>
  BY EditKey
<1> QED
  BY <1>1, TypedBasis

LEMMA EnterBasis ==
  ASSUME Basis, situation' = situation, NEW h \in Humans, Enter(h)
  PROVE  Basis'
<1>0. PICK config \in BOOLEAN : lease' = Entered(Held(h), config) /\ Key(h) /\ Submitted(h)
  BY DEF Enter
<1>1. /\ Key(h) /\ Held(h).chars \in Nat
      /\ lease' \in Leases /\ lease'.owner = h /\ lease'.chars = 0
      /\ lease'.config => lease'.short
      /\ Submitted(h) /\ line' = <<>> /\ caret' = 0
  BY <1>0, EnterKey
<1>2. /\ line' \in Seq(Tokens) /\ dialog' \in BOOLEAN
      /\ commands' \in Seq([line : Seq(Tokens), by : Writers])
      /\ Len(commands') = Len(commands) \/ Len(commands') = Len(commands) + 1
      /\ UNCHANGED <<begun, active>>
  BY <1>1, Submitting, ClientSets DEF Basis
<1>3. Len(commands) \in Nat
  BY DEF Basis, InputTypeOK
<1>4. /\ lease'.chars <= Held(h).chars + 1 /\ Len(commands') >= Len(commands)
      /\ caret' \in 0..Len(line') /\ caret' = Len(line')
  BY <1>1, <1>2, <1>3
<1> QED
  BY <1>1, <1>2, <1>4, KeyBasis

(* Steps of an automation that do not touch the host or the TUI.           *)
LEMMA WalkBasis ==
  ASSUME Basis, situation' = situation, NEW a \in Automations,
         Ensure(a) \/ Cursor(a) \/ IsReady(a) \/ Started(a) \/ Completed(a) \/ TimesOut(a) \/ Dies(a)
  PROVE  Basis'
<1>1. a \in Writers /\ InputTypeOK /\ begun \in Nat /\ active \in BOOLEAN
  BY ClientSets DEF Basis, InputTypeOK
<1>2. UNCHANGED <<humanVars, hostVars, tuiVars>>
  BY DEF Ensure, Cursor, IsReady, Started, Completed, TimesOut, Dies
<1>3. \E p \in Places \ {"attached"} : Goto(a, p)
  BY DEF Ensure, Cursor, IsReady, Started, Completed, TimesOut, Dies, Fail, Places
<1>4. pc' \in [Writers -> Places] /\ PlacesInv'
  BY <1>1, <1>2, <1>3, Going, ClientSets DEF Basis, PlacesInv, tuiVars
<1>5. outcome' \in [Automations -> {"none", "ok", "failed"}]
  BY <1>1 DEF Ensure, Cursor, IsReady, Started, Completed, TimesOut, Dies, Fail, InputTypeOK
<1>6. cursor' \in [Automations -> Nat]
  BY <1>1 DEF Ensure, Cursor, IsReady, Started, Completed, TimesOut, Dies, InputTypeOK
<1>7. base' \in [Automations -> 0..begun]
  <2>1. base' = base \/ \E n \in {Finished, 0} : base' = [base EXCEPT ![a] = n]
    BY DEF Ensure, Cursor, IsReady, Started, Completed, TimesOut, Dies
  <2>2. Finished \in 0..begun
    BY <1>1 DEF Finished, Basis, PlacesInv
  <2>3. base \in [Automations -> 0..begun] /\ 0 \in 0..begun
    BY <1>1 DEF InputTypeOK
  <2> QED
    BY <1>1, <2>1, <2>2, <2>3
<1>8. associated' \in BOOLEAN
  BY <1>1 DEF Ensure, Cursor, IsReady, Started, Completed, TimesOut, Dies, InputTypeOK
<1>9. /\ UNCHANGED <<keys, mine, humanTurnSeen, lease, nextGeneration, implicitWriter>>
      /\ UNCHANGED <<line, caret, dialog, commands, begun, active>>
  BY <1>2 DEF humanVars, hostVars, tuiVars
<1>10. CaretInv'
  BY <1>9 DEF Basis, CaretInv, Edits
<1> QED
  BY <1>1, <1>4, <1>5, <1>6, <1>7, <1>8, <1>9, <1>10, GrantBasis DEF InputTypeOK

LEMMA BeginBasis ==
  ASSUME Basis, situation' = situation, NEW a \in Automations, BeginTurn(a)
  PROVE  Basis'
<1>1. a \in Writers /\ InputTypeOK
  BY ClientSets DEF Basis
<1>2. \E p \in {"done", "ready"} : Goto(a, p)
  BY DEF BeginTurn
<1>3. pc' \in [Writers -> Places] /\ PlacesInv'
  <2>1. UNCHANGED <<begun, active>>
    BY DEF BeginTurn, tuiVars
  <2>2. "done" \in Places /\ "ready" \in Places
    BY DEF Places
  <2> QED
    BY <1>1, <1>2, <2>1, <2>2, Going, ClientSets DEF Basis, PlacesInv
<1>4. outcome' \in [Automations -> {"none", "ok", "failed"}]
  BY <1>1 DEF BeginTurn, InputTypeOK
<1>5. /\ UNCHANGED <<keys, mine, humanTurnSeen, implicitWriter, cursor, base, associated>>
      /\ UNCHANGED <<line, caret, dialog, commands, begun, active>> /\ CaretInv'
  BY DEF BeginTurn, hostVars, humanVars, tuiVars, Basis, CaretInv, Edits
<1>6. /\ lease' = lease \/ (Free /\ lease' = NewLease(a))
      /\ nextGeneration' \in Nat
  BY <1>1 DEF BeginTurn, Grant, hostVars, InputTypeOK
<1> QED
  BY <1>1, <1>3, <1>4, <1>5, <1>6, GrantBasis DEF InputTypeOK

LEMMA SendTextBasis ==
  ASSUME Basis, situation' = situation, NEW a \in Automations, SendText(a)
  PROVE  Basis'
<1>1. a \in Writers /\ InputTypeOK
  BY ClientSets DEF Basis
<1>2. \E p \in {"done", "return", "ack"} : Goto(a, p)
  BY DEF SendText, Fail
<1>3. pc' \in [Writers -> Places] /\ PlacesInv'
  <2>1. UNCHANGED <<begun, active>>
    BY DEF SendText
  <2>2. {"done", "return", "ack"} \subseteq Places
    BY DEF Places
  <2> QED
    BY <1>1, <1>2, <2>1, <2>2, Going, ClientSets DEF Basis, PlacesInv
<1>4. outcome' \in [Automations -> {"none", "ok", "failed"}]
  BY <1>1 DEF SendText, Fail, InputTypeOK
<1>5. /\ UNCHANGED <<keys, mine, humanTurnSeen, cursor, base, associated>>
      /\ UNCHANGED <<dialog, commands, begun, active>>
  BY DEF SendText, humanVars
<1>6. /\ lease' = lease \/ (Free /\ lease' = NewLease(a))
      /\ nextGeneration' \in Nat /\ implicitWriter' \in Writers \cup {Nobody}
  BY <1>1 DEF SendText, Grant, hostVars, InputTypeOK
<1>7. line' \in Seq(Tokens) /\ caret' \in 0..Len(line') /\ CaretInv'
  <2>1. By(a) \in Tokens /\ line \in Seq(Tokens) /\ caret \in 0..Len(line)
    BY <1>1 DEF By, Tokens, InputTypeOK
  <2>2. CASE UNCHANGED <<line, caret>>
    BY <2>1, <2>2 DEF Basis, CaretInv, Edits
  <2>3. CASE Inserted(By(a))
    BY <2>1, <2>3, Inserting DEF Basis, CaretInv, Edits
  <2> QED
    BY <2>2, <2>3 DEF SendText
<1> QED
  BY <1>1, <1>3, <1>4, <1>5, <1>6, <1>7, GrantBasis DEF InputTypeOK

LEMMA SubmitBasis ==
  ASSUME Basis, situation' = situation, NEW a \in Automations, Submit(a)
  PROVE  Basis'
<1>1. a \in Writers /\ InputTypeOK
  BY ClientSets DEF Basis
<1>2. \E p \in {"done", "return", "start"} : Goto(a, p)
  BY DEF Submit, Fail
<1>3. UNCHANGED tuiVars \/ Submitted(a)
  BY DEF Submit
<1>4. /\ line' \in Seq(Tokens) /\ dialog' \in BOOLEAN
      /\ commands' \in Seq([line : Seq(Tokens), by : Writers])
      /\ Len(commands') = Len(commands) \/ Len(commands') = Len(commands) + 1
      /\ UNCHANGED <<begun, active>>
  BY <1>1, <1>3, Submitting DEF tuiVars, InputTypeOK
<1>9. caret' \in 0..Len(line') /\ CaretInv'
  <2>1. CASE UNCHANGED tuiVars
    BY <1>1, <2>1 DEF tuiVars, Basis, InputTypeOK, CaretInv, Edits
  <2>2. CASE Submitted(a)
    BY <2>2 DEF Submitted, CaretInv, Edits
  <2> QED
    BY <1>3, <2>1, <2>2
<1>5. pc' \in [Writers -> Places] /\ PlacesInv'
  <2>1. {"done", "return", "start"} \subseteq Places
    BY DEF Places
  <2> QED
    BY <1>1, <1>2, <1>4, <2>1, Going, ClientSets DEF Basis, PlacesInv
<1>6. outcome' \in [Automations -> {"none", "ok", "failed"}]
  BY <1>1 DEF Submit, Fail, InputTypeOK
<1>7. /\ UNCHANGED <<keys, mine, humanTurnSeen, lease, nextGeneration, implicitWriter>>
      /\ UNCHANGED <<cursor, base, associated>>
  BY DEF Submit, hostVars, humanVars
<1>8. begun' \in 0..Len(commands')
  BY <1>1, <1>4 DEF InputTypeOK
<1> QED
  BY <1>1, <1>4, <1>5, <1>6, <1>7, <1>8, <1>9, GrantBasis DEF InputTypeOK

LEMMA ReturnBasis ==
  ASSUME Basis, situation' = situation, NEW a \in Automations, Return(a)
  PROVE  Basis'
<1>1. a \in Writers /\ InputTypeOK
  BY ClientSets DEF Basis
<1>2. Goto(a, "done") /\ "done" \in Places
  BY DEF Return, Places
<1>3. /\ UNCHANGED <<keys, mine, humanTurnSeen, cursor, base, associated, tuiVars>>
      /\ UNCHANGED <<line, caret, dialog, commands, begun, active>> /\ CaretInv'
  BY DEF Return, humanVars, tuiVars, Basis, CaretInv, Edits
<1>4. pc' \in [Writers -> Places] /\ PlacesInv'
  BY <1>1, <1>2, <1>3, Going, ClientSets DEF Basis, PlacesInv
<1>5. outcome' \in [Automations -> {"none", "ok", "failed"}]
  BY <1>1 DEF Return, InputTypeOK
<1>6. CASE Drop
  BY <1>1, <1>3, <1>4, <1>5, <1>6, DropBasis DEF InputTypeOK
<1>7. CASE ~Drop
  <2>1. UNCHANGED <<lease, nextGeneration, implicitWriter>>
    BY <1>7 DEF Return, hostVars
  <2> QED
    BY <1>1, <1>3, <1>4, <1>5, <2>1, GrantBasis DEF InputTypeOK
<1> QED
  BY <1>6, <1>7
(* The other steps of humans.                                              *)
LEMMA AttachBasis ==
  ASSUME Basis, situation' = situation, NEW h \in Humans, Attach(h)
  PROVE  Basis'
<1>1. h \in Writers /\ InputTypeOK /\ MaxKeys \in Nat
  BY ClientSets, SituationType DEF Basis
<1>2. Goto(h, "attached") /\ "attached" \in Places
  BY DEF Attach, Places
<1>3. /\ UNCHANGED <<outcome, cursor, base, associated, humanTurnSeen, keys>>
      /\ UNCHANGED <<line, caret, dialog, commands, begun, active>> /\ CaretInv'
  BY DEF Attach, tuiVars, Basis, CaretInv, Edits
<1>4. pc' \in [Writers -> Places] /\ PlacesInv'
  BY <1>1, <1>2, <1>3, Going, ClientSets DEF Basis, PlacesInv
<1>5. /\ lease' \in Leases /\ nextGeneration' \in Nat
      /\ lease' = lease \/ (Free /\ lease' = NewLease(h))
      /\ implicitWriter' = implicitWriter
  BY <1>1, Granting DEF Attach, hostVars, Free, Busy, InputTypeOK
<1>6. mine' \in [Humans -> Nat]
  <2>1. lease'.generation \in Nat
    BY <1>5 DEF Leases
  <2> QED
    BY <1>1, <2>1 DEF Attach, InputTypeOK
<1>7. Leases' = Leases /\ MaxKeys' = MaxKeys
  BY DEF Leases, MaxKeys
<1>8. InputTypeOK'
  BY <1>1, <1>3, <1>4, <1>5, <1>6, <1>7 DEF InputTypeOK
<1>9. LeaseInv'
  <2>1. CASE lease' = lease
    BY <1>3, <2>1 DEF Basis, LeaseInv
  <2>2. CASE lease' = NewLease(h)
    <3>1. keys[h] \in Nat
      BY <1>1 DEF InputTypeOK
    <3> QED
      BY <1>1, <1>3, <2>2, <3>1, GrantedLease DEF LeaseInv
  <2> QED
    BY <1>5, <2>1, <2>2
<1> QED
  BY <1>3, <1>4, <1>8, <1>9 DEF Basis

LEMMA PollBasis ==
  ASSUME Basis, situation' = situation, NEW h \in Humans, Poll(h)
  PROVE  Basis'
<1>1. h \in Writers /\ InputTypeOK
  BY ClientSets DEF Basis
<1>2. /\ UNCHANGED <<pc, outcome, cursor, base, associated, keys, tuiVars>>
      /\ UNCHANGED <<line, caret, dialog, commands, begun, active>> /\ CaretInv'
  BY DEF Poll, clientVars, tuiVars, Basis, CaretInv, Edits
<1>3. PlacesInv'
  BY <1>2 DEF Basis, PlacesInv
<1>4. /\ humanTurnSeen' \in [Humans -> BOOLEAN]
      /\ mine' \in [Humans -> Nat]
  <2>1. \E b \in BOOLEAN : humanTurnSeen' = [humanTurnSeen EXCEPT ![h] = b]
    BY <1>1 DEF Poll, InputTypeOK
  <2>2. mine' = mine \/ mine' = [mine EXCEPT ![h] = 0]
    BY DEF Poll
  <2> QED
    BY <1>1, <2>1, <2>2 DEF InputTypeOK
<1>5. CASE Drop
  BY <1>1, <1>2, <1>3, <1>4, <1>5, DropBasis DEF InputTypeOK
<1>6. CASE UNCHANGED hostVars
  <2>1. Leases' = Leases /\ MaxKeys' = MaxKeys
    BY DEF Leases, MaxKeys
  <2>2. InputTypeOK'
    BY <1>1, <1>2, <1>4, <1>6, <2>1 DEF InputTypeOK, hostVars
  <2>3. LeaseInv'
    BY <1>2, <1>6 DEF Basis, LeaseInv, hostVars
  <2> QED
    BY <1>2, <1>3, <2>2, <2>3 DEF Basis
<1> QED
  BY <1>5, <1>6 DEF Poll

LEMMA DetachBasis ==
  ASSUME Basis, situation' = situation, NEW h \in Humans, Detach(h)
  PROVE  Basis'
<1>1. h \in Writers /\ InputTypeOK
  BY ClientSets DEF Basis
<1>2. Goto(h, "done") /\ "done" \in Places
  BY DEF Detach, Places
<1>3. /\ UNCHANGED <<outcome, cursor, base, associated, mine, humanTurnSeen, keys, tuiVars>>
      /\ UNCHANGED <<line, caret, dialog, commands, begun, active>> /\ CaretInv'
  BY DEF Detach, humanVars, tuiVars, Basis, CaretInv, Edits
<1>4. pc' \in [Writers -> Places] /\ PlacesInv'
  BY <1>1, <1>2, <1>3, Going, ClientSets DEF Basis, PlacesInv
<1>5. CASE Drop
  BY <1>1, <1>3, <1>4, <1>5, DropBasis DEF InputTypeOK
<1>6. CASE UNCHANGED hostVars
  BY <1>1, <1>3, <1>4, <1>6, GrantBasis DEF InputTypeOK, hostVars
<1> QED
  BY <1>5, <1>6 DEF Detach

(* Steps of the host and of the TUI.                                       *)
LEMMA TerminalBasis ==
  ASSUME Basis, situation' = situation,
         Lapse \/ ConfigurationReleases \/ TurnStarts \/ TurnEnds \/ PromptReturns
  PROVE  Basis'
<1>1. InputTypeOK /\ PlacesInv /\ UNCHANGED <<pc, outcome, cursor, base, associated, mine, humanTurnSeen, keys>>
  BY DEF Lapse, ConfigurationReleases, TurnStarts, TurnEnds, PromptReturns, clientVars,
     humanVars, Basis
<1>2. CASE Lapse \/ ConfigurationReleases
  <2>1. Drop /\ UNCHANGED tuiVars /\ PlacesInv'
    BY <1>1, <1>2 DEF Lapse, ConfigurationReleases, PlacesInv, tuiVars
  <2> QED
    BY <1>1, <2>1, DropBasis DEF InputTypeOK
<1>3. CASE TurnStarts \/ TurnEnds
  <2>1. UNCHANGED <<lease, nextGeneration, implicitWriter, line, caret, dialog, commands>>
    BY <1>3 DEF TurnStarts, TurnEnds, hostVars
  <2>2. begun' \in 0..Len(commands) /\ begun' >= begun /\ active' \in BOOLEAN /\ (active' => begun' > 0)
    <3>1. begun \in Nat /\ Len(commands) \in Nat /\ begun <= Len(commands) /\ active \in BOOLEAN
      BY <1>1 DEF InputTypeOK
    <3>2. CASE TurnStarts
      BY <3>1, <3>2 DEF TurnStarts
    <3>3. CASE TurnEnds
      <4>1. begun' = begun /\ active' = FALSE
        BY <3>3 DEF TurnEnds
      <4>2. begun' \in 0..Len(commands) /\ begun' >= begun
        BY <3>1, <4>1
      <4> QED
        BY <4>1, <4>2
    <3> QED
      BY <1>3, <3>2, <3>3
  <2>3. base' \in [Automations -> 0..begun']
    <3>1. base \in [Automations -> 0..begun] /\ begun \in Nat /\ begun' \in Nat
      BY <1>1, <2>2 DEF InputTypeOK
    <3>2. \A a \in Automations : base[a] \in 0..begun'
      BY <2>2, <3>1
    <3> QED
      BY <1>1, <3>1, <3>2
  <2>4. Leases' = Leases /\ MaxKeys' = MaxKeys
    BY DEF Leases, MaxKeys
  <2>5. InputTypeOK'
    BY <1>1, <2>1, <2>2, <2>3, <2>4 DEF InputTypeOK
  <2>6. PlacesInv' /\ LeaseInv' /\ CaretInv'
    BY <1>1, <2>1, <2>2 DEF Basis, PlacesInv, LeaseInv, CaretInv, Edits
  <2> QED
    BY <2>5, <2>6 DEF Basis
<1>4. CASE PromptReturns
  <2>1. UNCHANGED <<nextGeneration, implicitWriter, line, caret, commands, begun, active>> /\ dialog' = FALSE
    BY <1>4 DEF PromptReturns
  <2>2. lease' = [lease EXCEPT !.prompt = TRUE] \/ lease' = lease
    BY <1>4 DEF PromptReturns
  <2>3. /\ lease' \in Leases /\ lease'.owner = lease.owner /\ lease'.chars = lease.chars
        /\ lease'.config = lease.config /\ lease'.short = lease.short /\ lease'.reason = lease.reason
    BY <1>1, <2>2 DEF InputTypeOK, Leases
  <2>4. Leases' = Leases /\ MaxKeys' = MaxKeys
    BY DEF Leases, MaxKeys
  <2>5. InputTypeOK'
    BY <1>1, <2>1, <2>3, <2>4 DEF InputTypeOK
  <2>6. PlacesInv' /\ LeaseInv' /\ CaretInv'
    BY <1>1, <2>1, <2>3 DEF Basis, PlacesInv, LeaseInv, CaretInv, Edits
  <2> QED
    BY <2>5, <2>6 DEF Basis
<1> QED
  BY <1>2, <1>3, <1>4

LEMMA NextBasis ==
  ASSUME Basis, [InputNext]_inputVars
  PROVE  Basis'
<1>1. situation' = situation
  BY SituationStays
<1>2. CASE UNCHANGED inputVars
  <2>1. Leases' = Leases /\ MaxKeys' = MaxKeys
    BY <1>1 DEF Leases, MaxKeys
  <2> QED
    BY <1>2, <2>1 DEF Basis, InputTypeOK, PlacesInv, LeaseInv, CaretInv, Edits, inputVars, clientVars,
       humanVars, hostVars, tuiVars
<1>3. ASSUME NEW a \in Automations, Automation(a) \/ TimesOut(a) \/ Dies(a)
      PROVE  Basis'
  BY <1>1, <1>3, WalkBasis, BeginBasis, SendTextBasis, SubmitBasis, ReturnBasis DEF Automation
<1>4. ASSUME NEW h \in Humans, Human(h)
      PROVE  Basis'
  BY <1>1, <1>4, AttachBasis, TypeBasis, EraseBasis, EditBasis, EnterBasis, PollBasis, DetachBasis DEF Human
<1>5. CASE Lapse \/ ConfigurationReleases \/ TurnStarts \/ TurnEnds \/ PromptReturns
  BY <1>1, <1>5, TerminalBasis
<1> QED
  BY <1>2, <1>3, <1>4, <1>5 DEF InputNext
-----------------------------------------------------------------------------
(* Who moves, and who keeps the lease.                                     *)

(* A client moves by its own steps alone.                                  *)
LEMMA OwnMoves ==
  ASSUME Basis, InputNext, NEW w \in Writers, pc'[w] # pc[w]
  PROVE  \/ w \in Automations /\ (Automation(w) \/ TimesOut(w) \/ Dies(w))
         \/ w \in Humans /\ (Attach(w) \/ Detach(w))
<1>1. InputTypeOK
  BY DEF Basis
<1>2. ASSUME NEW a \in Automations, Automation(a) \/ TimesOut(a) \/ Dies(a), a # w
      PROVE  FALSE
  <2>1. \E p : Goto(a, p)
    BY <1>2 DEF Automation, Ensure, Cursor, BeginTurn, IsReady, SendText, Submit, Started,
       Completed,
                Return, TimesOut, Dies, Fail
  <2> QED
    BY <1>1, <1>2, <2>1 DEF Goto, InputTypeOK
<1>3. ASSUME NEW h \in Humans, Human(h)
      PROVE  h = w /\ (Attach(h) \/ Detach(h))
  <2>1. Attach(h) \/ Detach(h)
    BY <1>3 DEF Human, Erase, Edit, Enter, Type, Key, Poll, clientVars
  <2>2. \E p : Goto(h, p)
    BY <2>1 DEF Attach, Detach
  <2> QED
    BY <1>1, <2>1, <2>2 DEF Goto, InputTypeOK
<1>4. CASE Lapse \/ ConfigurationReleases \/ TurnStarts \/ TurnEnds \/ PromptReturns
  BY <1>4 DEF Lapse, ConfigurationReleases, TurnStarts, TurnEnds, PromptReturns, clientVars
<1> QED
  BY <1>2, <1>3, <1>4 DEF InputNext

(* The steps of humans and what they leave of another's lease.             *)
LEMMA HumanLease ==
  ASSUME Basis, NEW h \in Humans, Human(h), ~Free, lease.owner # h
  PROVE  lease' = lease /\ implicitWriter' = implicitWriter /\ line' = line /\ keys' = keys
         /\ UNCHANGED <<dialog, commands, begun, active>>
<1>1. Busy(h)
  BY DEF Busy
<1>2. Attach(h) \/ Poll(h) \/ Detach(h)
  BY <1>1 DEF Human, Erase, Edit, Enter, Type, Key
<1> QED
  BY <1>1, <1>2 DEF Attach, Poll, Detach, tuiVars, hostVars, humanVars

(* The steps of an automation and what they leave of another's lease.      *)
LEMMA AutomationLease ==
  ASSUME Basis, NEW a \in Automations, Automation(a) \/ TimesOut(a) \/ Dies(a),
         ~Free, lease.owner # a
  PROVE  lease' = lease /\ implicitWriter' = implicitWriter
<1>1. Busy(a)
  BY DEF Busy
<1>2. CASE SendText(a)
  BY <1>1, <1>2 DEF SendText, hostVars
<1>3. CASE Return(a)
  BY <1>1, <1>3 DEF Return, hostVars
<1>4. CASE BeginTurn(a)
  BY <1>1, <1>4 DEF BeginTurn, Grant, hostVars
<1>5. CASE ~(SendText(a) \/ Return(a) \/ BeginTurn(a))
  BY <1>5 DEF Automation, Ensure, Cursor, IsReady, Submit, Started, Completed, TimesOut, Dies,
     hostVars
<1> QED
  BY <1>2, <1>3, <1>4, <1>5

(* ... and of its own: only the last step gives it back.                   *)
LEMMA OwnLease ==
  ASSUME Basis, NEW a \in Automations, Automation(a) \/ TimesOut(a) \/ Dies(a), lease.owner = a
  PROVE  \/ lease' = lease
         \/ Return(a) /\ Drop
<1>1. ~Free /\ ~Busy(a)
  BY ClientSets DEF Free, Busy
<1>2. CASE SendText(a)
  BY <1>1, <1>2 DEF SendText, Grant, hostVars
<1>3. CASE Return(a)
  BY <1>1, <1>3 DEF Return
<1>4. CASE BeginTurn(a)
  BY <1>1, <1>4 DEF BeginTurn, Grant, hostVars
<1>5. CASE ~(SendText(a) \/ Return(a) \/ BeginTurn(a))
  BY <1>5 DEF Automation, Ensure, Cursor, IsReady, Submit, Started, Completed, TimesOut, Dies,
     hostVars
<1> QED
  BY <1>2, <1>3, <1>4, <1>5

(* The host takes a lease away, or notes that the prompt is back.          *)
LEMMA HostLease ==
  ASSUME Basis, Lapse \/ ConfigurationReleases \/ TurnStarts \/ TurnEnds \/ PromptReturns
  PROVE  /\ UNCHANGED <<clientVars, humanVars, nextGeneration, line, commands>>
         /\ \/ lease' = lease
            \/ lease' \in Leases /\ lease.config /\ lease' = [lease EXCEPT !.prompt = TRUE]
            \/ Lapse /\ Drop
            \/ ConfigurationReleases /\ lease.config /\ Drop
         /\ implicitWriter' = implicitWriter \/ Drop
<1>1. lease \in Leases
  BY DEF Basis, InputTypeOK
<1>2. [lease EXCEPT !.prompt = TRUE] \in Leases
  BY <1>1 DEF Leases
<1> QED
  BY <1>1, <1>2 DEF Lapse, ConfigurationReleases, TurnStarts, TurnEnds, PromptReturns, hostVars,
     tuiVars, Drop

(* An automation keeps its lease until it gives it back, or is gone, or    *)
(* its turn outlasts the lease.                                            *)
LEMMA KeepsLease ==
  ASSUME Basis, InputNext, NEW a \in Automations, lease.owner = a
  PROVE  \/ lease' = lease /\ implicitWriter' = implicitWriter
         \/ lease' = lease /\ SendText(a)
         \/ pc[a] \in {"return", "done", "dead"} /\ pc'[a] \in {"done", "dead"}
         \/ LongTurns /\ a \in Delegates /\ pc[a] = "wait" /\ pc' = pc
<1>1. /\ ~Free /\ ~lease.short /\ ~lease.config /\ a \in Writers /\ InputTypeOK
  BY ClientSets DEF Basis, LeaseInv, Free
<1>2. ASSUME NEW b \in Automations, Automation(b) \/ TimesOut(b) \/ Dies(b), b # a
      PROVE  lease' = lease /\ implicitWriter' = implicitWriter
  BY <1>1, <1>2, AutomationLease
<1>3. ASSUME Automation(a) \/ TimesOut(a) \/ Dies(a)
      PROVE  \/ lease' = lease /\ implicitWriter' = implicitWriter
             \/ lease' = lease /\ SendText(a)
             \/ pc[a] = "return" /\ pc'[a] = "done"
  <2>1. CASE Return(a)
    <3>1. "done" \in Places /\ pc[a] = "return" /\ Goto(a, "done")
      BY <2>1 DEF Return, Places
    <3> QED
      BY <1>1, <3>1, Going
  <2>2. CASE SendText(a)
    BY <1>3, <2>2, OwnLease DEF Return, SendText
  <2>3. CASE BeginTurn(a)
    BY <1>1, <2>3 DEF BeginTurn, Grant, hostVars
  <2>4. CASE ~(Return(a) \/ SendText(a) \/ BeginTurn(a))
    BY <1>3, <2>4 DEF Automation, Ensure, Cursor, IsReady, Submit, Started, Completed, TimesOut,
       Dies,
                      hostVars
  <2> QED
    BY <2>1, <2>2, <2>3, <2>4
<1>4. ASSUME NEW h \in Humans, Human(h)
      PROVE  lease' = lease /\ implicitWriter' = implicitWriter
  BY <1>1, <1>4, HumanLease, ClientSets
<1>5. CASE Lapse
  <2>1. pc' = pc
    BY <1>5 DEF Lapse, clientVars
  <2>2. \/ Over(a)
        \/ LongTurns /\ a \in Delegates /\ pc[a] = "wait"
    BY <1>1, <1>5 DEF Lapse
  <2> QED
    BY <2>1, <2>2 DEF Over
<1>6. CASE ConfigurationReleases \/ TurnStarts \/ TurnEnds \/ PromptReturns
  BY <1>1, <1>6 DEF ConfigurationReleases, TurnStarts, TurnEnds, PromptReturns, hostVars
<1> QED
  BY <1>2, <1>3, <1>4, <1>5, <1>6 DEF InputNext

-----------------------------------------------------------------------------
(* A delegate has the lease while it works.                                *)

LEMMA NextWatch ==
  ASSUME Basis, WatchInv, [InputNext]_inputVars
  PROVE  WatchInv'
<1>1. situation' = situation /\ LongTurns' = LongTurns
  BY SituationStays DEF LongTurns
<1>2. SUFFICES ASSUME NEW d \in Delegates, Leased(d)'
               PROVE  lease'.owner = d
  BY DEF WatchInv
<1>3. d \in Automations /\ d \in Writers /\ InputTypeOK
  BY ClientSets DEF Basis
<1>4. pc'[d] \in {"ready", "text", "ack", "start"} \/ (pc'[d] = "wait" /\ ~LongTurns)
  BY <1>1, <1>2 DEF Leased
<1>5. CASE UNCHANGED inputVars
  BY <1>4, <1>5 DEF WatchInv, Leased, inputVars, clientVars, hostVars
<1>6. CASE InputNext /\ Leased(d)
  <2>1. lease.owner = d
    BY <1>6 DEF WatchInv
  <2> QED
    BY <1>3, <1>4, <1>6, <2>1, KeepsLease DEF Leased
<1>7. CASE InputNext /\ ~Leased(d)
  <2>1. pc'[d] # pc[d]
    BY <1>4, <1>7 DEF Leased
  <2>2. Automation(d) \/ TimesOut(d) \/ Dies(d)
    BY <1>3, <1>7, <2>1, OwnMoves, ClientSets
  <2>3. CASE BeginTurn(d)
    <3>1. ~Busy(d) /\ Grant(d)
      <4>1. Busy(d) => FALSE
        <5>1. Busy(d) => Goto(d, "done") /\ "done" \in Places
          BY <2>3 DEF BeginTurn, Places
        <5> QED
          BY <1>3, <1>4, <5>1, Going
      <4> QED
        BY <2>3, <4>1 DEF BeginTurn
    <3> QED
      BY <1>3, <3>1, Granting
  <2>4. CASE ~BeginTurn(d)
    <3>1. pc[d] \notin {"ready", "text", "ack", "start"}
      BY <1>7 DEF Leased
    <3>2. \E p \in {"cursor", "begin", "return", "done", "dead"} : Goto(d, p)
      BY <1>3, <2>2, <2>4, <3>1, ClientSets
         DEF Automation, Ensure, Cursor, IsReady, SendText, Submit, Started, Completed, Return,
             TimesOut, Dies, Fail
    <3>3. {"cursor", "begin", "return", "done", "dead"} \subseteq Places
      BY DEF Places
    <3> QED
      BY <1>3, <1>4, <3>2, <3>3, Going
  <2> QED
    BY <2>3, <2>4
<1> QED
  BY <1>5, <1>6, <1>7
(* No key of a human between a delegate's text and the end of its turn.    *)
LEMMA WatchStep ==
  ASSUME Basis, WatchInv, [InputNext]_inputVars
  PROVE  [\A h \in Humans : keys'[h] # keys[h] => LongTurns \/
            \A d \in Delegates : pc[d] \notin {"ack", "start", "wait"}]_inputVars
<1> SUFFICES ASSUME InputNext, NEW h \in Humans, keys'[h] # keys[h], ~LongTurns,
                    NEW d \in Delegates, pc[d] \in {"ack", "start", "wait"}
             PROVE  FALSE
  BY DEF inputVars, humanVars
<1>1. ~Free /\ lease.owner = d /\ d \notin Humans
  BY ClientSets DEF WatchInv, Leased, Free
<1>2. ASSUME NEW a \in Automations, Automation(a) \/ TimesOut(a) \/ Dies(a)
      PROVE  FALSE
  BY <1>2 DEF Automation, Ensure, Cursor, BeginTurn, IsReady, SendText, Submit, Started, Completed,
              Return, TimesOut, Dies, humanVars
<1>3. ASSUME NEW g \in Humans, Human(g)
      PROVE  FALSE
  BY <1>1, <1>3, HumanLease
<1>4. CASE Lapse \/ ConfigurationReleases \/ TurnStarts \/ TurnEnds \/ PromptReturns
  BY <1>4 DEF Lapse, ConfigurationReleases, TurnStarts, TurnEnds, PromptReturns, humanVars
<1> QED
  BY <1>2, <1>3, <1>4 DEF InputNext

-----------------------------------------------------------------------------
(* What stands in the line, and what a human's key finds.                  *)

(* The line of an automation's step.                                       *)
LEMMA AutomationLine ==
  ASSUME Basis, NEW a \in Automations, Automation(a) \/ TimesOut(a) \/ Dies(a)
  PROVE  /\ \/ line' = line
            \/ Submit(a) /\ line' = <<>>
            \/ /\ SendText(a) /\ ~Busy(a) /\ Goto(a, "ack")
               /\ Shadowed => line' = Append(line, By(a))
         /\ UNCHANGED <<humanVars, begun, active>>
<1>1. CASE SendText(a)
  <2>1. By(a) \in Tokens /\ line \in Seq(Tokens) /\ caret \in 0..Len(line)
    BY ClientSets DEF Basis, InputTypeOK, By, Tokens
  <2>2. Inserted(By(a)) /\ Shadowed => line' = Append(line, By(a))
    BY <2>1, Inserting DEF Basis, CaretInv, Shadowed
  <2> QED
    BY <1>1, <2>2 DEF SendText
<1>2. CASE Submit(a)
  BY <1>2 DEF Submit, Submitted, tuiVars
<1>3. CASE ~(SendText(a) \/ Submit(a))
  BY <1>3 DEF Automation, Ensure, Cursor, BeginTurn, IsReady, Started, Completed, Return, TimesOut,
              Dies, tuiVars
<1> QED
  BY <1>1, <1>2, <1>3

(* A key.                                                                  *)
Keyed(h) == Erase(h) \/ Edit(h) \/ Enter(h) \/ \E config \in BOOLEAN : Type(h, config)

(* What a step makes of the lease, if it is not that of a key.             *)
LEMMA LeaseSteps ==
  ASSUME Basis, InputNext, \A h \in Humans : ~Keyed(h)
  PROVE  \/ lease' = lease
         \/ lease' = NoLease
         \/ \E w \in Writers : Free /\ lease' = NewLease(w)
         \/ /\ lease.config /\ lease' \in Leases
            /\ lease' = [lease EXCEPT !.prompt = TRUE]
<1>1. ASSUME NEW a \in Automations, Automation(a) \/ TimesOut(a) \/ Dies(a)
      PROVE  lease' = lease \/ lease' = NoLease \/ (Free /\ lease' = NewLease(a))
  BY <1>1 DEF Automation, Ensure, Cursor, BeginTurn, IsReady, SendText, Submit, Started, Completed,
              Return, TimesOut, Dies, Drop, Grant, hostVars
<1>2. ASSUME NEW h \in Humans, Human(h)
      PROVE  lease' = lease \/ lease' = NoLease \/ (Free /\ lease' = NewLease(h))
  <2>1. Attach(h) \/ Poll(h) \/ Detach(h)
    BY <1>2 DEF Human, Keyed
  <2> QED
    BY <2>1 DEF Attach, Poll, Detach, Drop, Grant, hostVars
<1>3. ASSUME Lapse \/ ConfigurationReleases \/ TurnStarts \/ TurnEnds \/ PromptReturns
      PROVE  \/ lease' = lease \/ lease' = NoLease
             \/ lease.config /\ lease' \in Leases /\ lease' = [lease EXCEPT !.prompt = TRUE]
  BY <1>3, HostLease DEF Drop
<1> QED
  BY <1>1, <1>2, <1>3, ClientSets DEF InputNext

(* ... and of the line.                                                    *)
LEMMA LineSteps ==
  ASSUME Basis, InputNext, Shadowed, \A h \in Humans : ~Keyed(h)
  PROVE  /\ \/ line' = line
            \/ line' = <<>>
            \/ \E a \in Automations : ~Busy(a) /\ line' = Append(line, By(a))
         /\ keys' = keys
<1>1. ASSUME NEW a \in Automations, Automation(a) \/ TimesOut(a) \/ Dies(a)
      PROVE  /\ line' = line \/ line' = <<>> \/ (~Busy(a) /\ line' = Append(line, By(a)))
             /\ keys' = keys
  BY <1>1, AutomationLine DEF humanVars
<1>2. ASSUME NEW h \in Humans, Human(h)
      PROVE  line' = line /\ keys' = keys
  <2>1. Attach(h) \/ Poll(h) \/ Detach(h)
    BY <1>2 DEF Human, Keyed
  <2> QED
    BY <2>1 DEF Attach, Poll, Detach, tuiVars, humanVars
<1>3. ASSUME Lapse \/ ConfigurationReleases \/ TurnStarts \/ TurnEnds \/ PromptReturns
      PROVE  line' = line /\ keys' = keys
  BY <1>3, HostLease DEF humanVars
<1> QED
  BY <1>1, <1>2, <1>3 DEF InputNext

LEMMA SettingStays ==
  ASSUME [InputNext]_inputVars
  PROVE  /\ Configures' = Configures /\ Hasty' = Hasty /\ Leaves' = Leaves /\ Faults' = Faults
         /\ LongTurns' = LongTurns /\ FollowUps' = FollowUps /\ Shadowed' = Shadowed
BY SituationStays DEF Shadowed, Edits, MaxKeys, Configures, Hasty, Leaves, Faults, LongTurns, FollowUps

(* A human who waits for the prompt finds no configuration command         *)
(* pending.                                                                *)
LEMMA FreshLease ==
  ASSUME Basis, ConfigInv, Plain, NEW h \in Humans, Key(h)
  PROVE  ~Held(h).config
<1>1. CASE lease.owner = h /\ Held(h) = lease
  <2>1. ~Configures => ~lease.config
    BY DEF ConfigInv, Plain
  <2>2. ~Hasty => ~lease.config
    BY <1>1 DEF ConfigInv, Key, Prompt, Plain
  <2> QED
    BY <1>1, <2>1, <2>2 DEF Plain
<1>2. CASE Held(h) = NewLease(h)
  BY <1>2, GrantedLease, ClientSets DEF Basis
<1> QED
  BY <1>1, <1>2, Holding DEF Basis

LEMMA NextConfig ==
  ASSUME Basis, ConfigInv, [InputNext]_inputVars
  PROVE  ConfigInv'
<1>0. SUFFICES ASSUME Shadowed PROVE ConfigInv'
  BY SettingStays DEF ConfigInv
<1>1. Configures' = Configures /\ Hasty' = Hasty
  BY SettingStays
<1>2. line \in Seq(Tokens) /\ InputTypeOK
  BY DEF Basis, InputTypeOK
<1>3. CASE UNCHANGED inputVars
  BY <1>0, <1>1, <1>3 DEF ConfigInv, inputVars, hostVars, tuiVars
<1>4. CASE InputNext /\ \A h \in Humans : ~Keyed(h)
  <2>1. /\ lease'.config => lease.config
        /\ lease'.config => lease'.reason = lease.reason
    <3>1. lease \in Leases
      BY <1>2 DEF InputTypeOK
    <3>2. CASE lease' = [lease EXCEPT !.prompt = TRUE]
      BY <3>1, <3>2 DEF Leases
    <3> QED
      BY <1>2, <1>4, <3>2, LeaseSteps, NoLeaseType, GrantedLease
  <2>2. \A i \in DOMAIN line' : line'[i].config => i \in DOMAIN line /\ line[i].config
    <3>1. CASE line' = line \/ line' = <<>>
      BY <3>1
    <3>2. ASSUME NEW a \in Automations, line' = Append(line, By(a))
          PROVE  \A i \in DOMAIN line' : line'[i].config => i \in DOMAIN line /\ line[i].config
      <4>1. By(a) \in Tokens /\ By(a).config = FALSE
        BY ClientSets DEF By, Tokens
      <4> QED
        BY <1>2, <3>2, <4>1, LineGrows
    <3> QED
      BY <1>0, <1>4, <3>1, <3>2, LineSteps
  <2> QED
    BY <1>0, <1>1, <2>1, <2>2 DEF ConfigInv
<1>5. ASSUME NEW h \in Humans, NEW config \in BOOLEAN, Type(h, config)
      PROVE  ConfigInv'
  <2>1. Plain => ~lease'.config
    BY <1>5, TypeKey, FreshLease
  <2>2. ~Configures => \A i \in DOMAIN line' : ~line'[i].config
    <3>1. /\ line' = Append(line, [by |-> h, config |-> config])
          /\ [by |-> h, config |-> config] \in Tokens /\ (config => Configures)
      BY <1>0, <1>5, TypeKey
    <3>2. [by |-> h, config |-> config].config = config
      OBVIOUS
    <3> QED
      BY <1>0, <1>2, <3>1, <3>2, LineGrows DEF ConfigInv
  <2> QED
    BY <1>0, <1>1, <2>1, <2>2 DEF ConfigInv, Plain
<1>6. ASSUME NEW h \in Humans, Erase(h)
      PROVE  ConfigInv'
  <2>1. Plain => ~lease'.config
    BY <1>6, EraseKey, FreshLease
  <2>2. ~Configures => \A i \in DOMAIN line' : ~line'[i].config
    <3>1. CASE line = <<>>
      BY <1>0, <1>6, <3>1, EraseKey DEF ConfigInv
    <3>2. CASE line # <<>>
      <4>1. line' = SubSeq(line, 1, Len(line) - 1)
        BY <1>0, <1>6, <3>2, EraseKey
      <4>2. \A i \in DOMAIN line' : i \in DOMAIN line /\ line'[i] = line[i]
        BY <1>2, <3>2, <4>1, LineShrinks
      <4> QED
        BY <1>0, <4>2 DEF ConfigInv
    <3> QED
      BY <3>1, <3>2
  <2> QED
    BY <1>0, <1>1, <2>1, <2>2 DEF ConfigInv, Plain
<1>7. ASSUME NEW h \in Humans, Enter(h)
      PROVE  ConfigInv'
  <2>0. PICK config \in BOOLEAN :
          Recognised(h, config) /\ lease' = Entered(Held(h), config) /\ Key(h) /\ Submitted(h)
    BY <1>7 DEF Enter
  <2>1. /\ Key(h) /\ line' = <<>>
        /\ lease'.config <=> (Held(h).config \/ config)
        /\ lease'.config => lease'.reason = "configuration_command_submitted"
    BY <2>0, EnterKey
  <2>2. ~Configures => ~config
    <3>1. config => 1 \in DOMAIN line /\ line[1].config
      BY <1>0, <1>2, <2>0 DEF Recognised
    <3> QED
      BY <1>0, <3>1 DEF ConfigInv
  <2>3. Plain => ~Held(h).config
    BY <2>1, FreshLease
  <2> QED
    BY <1>0, <1>1, <2>1, <2>2, <2>3 DEF ConfigInv, Plain
<1>8. ASSUME NEW h \in Humans, Edit(h)
      PROVE  ConfigInv'
  BY <1>0, <1>8 DEF Edit, Shadowed
<1> QED
  BY <1>3, <1>4, <1>5, <1>6, <1>7, <1>8 DEF Keyed
-----------------------------------------------------------------------------
(* What an attached human has begun to type.                               *)

(* Whoever has text in the line is attached and has the lease, or is gone. *)
LEMMA ComposerLease ==
  ASSUME Basis, Plain, CompositionInv, NEW h \in Humans, Writes(h)
  PROVE  /\ pc[h] # "idle"
         /\ pc[h] = "attached" =>
              /\ lease.owner = h /\ ~lease.short /\ ~lease.config /\ lease.chars >= 1
              /\ lease.reason \notin {"human_command_submitted", "configuration_command_submitted"}
<1>1. PICK i \in DOMAIN line : line[i].by = h
  BY DEF Writes
<1>2. line \in Seq(Tokens) /\ lease \in Leases /\ MaxKeys \in Nat
  BY SituationType DEF Basis, InputTypeOK
<1>3. i \in 1..Len(line) /\ Len(line) \in Nat
  BY <1>2
<1>4. /\ pc[h] # "idle"
      /\ pc[h] = "attached" =>
           lease.owner = h /\ ~lease.short /\ lease.chars >= Len(line) - i + 1
  BY <1>1 DEF CompositionInv, Composes
<1>5. lease.chars \in Nat
  BY <1>2 DEF Leases
<1>6. pc[h] = "attached" => lease.chars >= 1
  BY <1>3, <1>4, <1>5
<1> QED
  BY <1>4, <1>5, <1>6 DEF Basis, LeaseInv

(* What another client does leaves it alone.                               *)
LEMMA ComposesUndisturbed ==
  ASSUME Basis, Plain, CompositionInv, InputNext, NEW h \in Humans,
         ~Human(h)
  PROVE  Composes(h)'
<1>1. /\ h \in Writers /\ h \notin Automations /\ Nobody # h
      /\ line \in Seq(Tokens) /\ lease \in Leases /\ InputTypeOK
  BY ClientSets DEF Basis, InputTypeOK
<1>0. Shadowed /\ \A g \in Humans : ~Edit(g)
  BY DEF Plain, Shadowed, Edit
<1>2. pc'[h] = pc[h]
  <2>1. pc'[h] # pc[h] => Attach(h) \/ Detach(h)
    BY <1>1, OwnMoves
  <2> QED
    BY <2>1 DEF Human
<1>3. SUFFICES ASSUME NEW i \in DOMAIN line', line'[i].by = h
               PROVE  /\ pc'[h] # "idle"
                      /\ pc'[h] = "attached" =>
                           lease'.owner = h /\ ~lease'.short /\ lease'.chars >= Len(line') - i + 1
  BY DEF Composes
<1>4. ASSUME NEW a \in Automations, Automation(a) \/ TimesOut(a) \/ Dies(a)
      PROVE  /\ i \in DOMAIN line /\ line[i] = line'[i]
             /\ pc[h] = "attached" => lease' = lease /\ line' = line
  <2>1. i \in DOMAIN line /\ line[i] = line'[i]
    <3>1. CASE line' = Append(line, By(a))
      <4>1. By(a) \in Tokens /\ By(a).by # h
        BY <1>1, ClientSets DEF By, Tokens
      <4>2. i \in 1..Len(line) + 1 /\ i # Len(line) + 1
        BY <1>1, <1>3, <3>1, <4>1, LineGrows
      <4> QED
        BY <1>1, <3>1, <4>1, <4>2, LineGrows
    <3>2. CASE line' = line
      BY <3>2
    <3>3. CASE line' = <<>>
      BY <1>3, <3>3
    <3> QED
      BY <1>0, <1>4, <3>1, <3>2, <3>3, AutomationLine
  <2>2. ASSUME pc[h] = "attached" PROVE lease' = lease /\ line' = line
    <3>1. Writes(h)
      BY <1>3, <2>1 DEF Writes
    <3>2. lease.owner = h
      BY <2>2, <3>1, ComposerLease
    <3>3. ~Free /\ lease.owner # a /\ Busy(a)
      BY <1>1, <3>2 DEF Free, Busy
    <3>4. lease' = lease
      BY <1>4, <3>3, AutomationLease
    <3>5. line' # <<>>
      BY <1>3
    <3> QED
      BY <1>4, <3>3, <3>4, <3>5, AutomationLine
  <2> QED
    BY <2>1, <2>2
<1>5. ASSUME NEW g \in Humans, Human(g), g # h
      PROVE  /\ i \in DOMAIN line /\ line[i] = line'[i]
             /\ pc[h] = "attached" => lease' = lease /\ line' = line
  <2>1. i \in DOMAIN line /\ line[i] = line'[i]
    <3>1. CASE \E config \in BOOLEAN : Type(g, config)
      <4>1. PICK config \in BOOLEAN : Type(g, config)
        BY <3>1
      <4>2. /\ line' = Append(line, [by |-> g, config |-> config])
            /\ [by |-> g, config |-> config] \in Tokens
        BY <1>0, <4>1, TypeKey
      <4>3. i \in 1..Len(line) + 1 /\ i # Len(line) + 1
        BY <1>1, <1>3, <1>5, <4>2, LineGrows
      <4> QED
        BY <1>1, <4>2, <4>3, LineGrows
    <3>2. CASE Erase(g)
      <4>1. line' = line \/ (line # <<>> /\ line' = SubSeq(line, 1, Len(line) - 1))
        BY <1>0, <3>2, EraseKey
      <4> QED
        BY <1>1, <1>3, <4>1, LineShrinks
    <3>3. CASE Enter(g)
      BY <1>3, <3>3 DEF Enter, Submitted
    <3>4. CASE Attach(g) \/ Poll(g) \/ Detach(g)
      BY <1>3, <3>4 DEF Attach, Poll, Detach, tuiVars
    <3> QED
      BY <1>0, <1>5, <3>1, <3>2, <3>3, <3>4 DEF Human
  <2>2. ASSUME pc[h] = "attached" PROVE lease' = lease /\ line' = line
    <3>1. Writes(h)
      BY <1>3, <2>1 DEF Writes
    <3>2. lease.owner = h
      BY <2>2, <3>1, ComposerLease
    <3> QED
      BY <1>1, <1>5, <3>2, HumanLease DEF Free
  <2> QED
    BY <2>1, <2>2
<1>6. CASE Lapse \/ ConfigurationReleases \/ TurnStarts \/ TurnEnds \/ PromptReturns
  <2>1. line' = line
    BY <1>6, HostLease
  <2>2. ASSUME pc[h] = "attached" PROVE lease' = lease
    <3>1. Writes(h)
      BY <1>3, <2>1 DEF Writes
    <3>2. lease.owner = h /\ ~lease.short /\ ~lease.config
      BY <2>2, <3>1, ComposerLease
    <3>3. ~Lapse
      BY <1>1, <2>2, <3>2, ClientSets DEF Lapse, Over
    <3> QED
      BY <1>6, <3>2, <3>3, HostLease
  <2> QED
    BY <1>2, <1>3, <2>1, <2>2 DEF CompositionInv, Composes
<1>7. CASE /\ i \in DOMAIN line /\ line[i] = line'[i]
           /\ pc[h] = "attached" => lease' = lease /\ line' = line
  BY <1>2, <1>3, <1>7 DEF CompositionInv, Composes
<1> QED
  BY <1>4, <1>5, <1>6, <1>7 DEF InputNext

(* What he does himself.                                                   *)
LEMMA ComposesOn ==
  ASSUME Basis, ConfigInv, Plain, CompositionInv, NEW h \in Humans, Human(h)
  PROVE  Composes(h)'
<1>1. /\ h \in Writers /\ line \in Seq(Tokens) /\ Len(line) \in Nat /\ lease \in Leases
      /\ lease.chars \in Nat /\ InputTypeOK
  <2>1. MaxKeys \in Nat
    BY SituationType DEF Basis
  <2> QED
    BY <2>1, ClientSets DEF Basis, InputTypeOK, Leases
<1>0. Shadowed /\ ~Edit(h)
  BY DEF Plain, Shadowed, Edit
<1>2. SUFFICES ASSUME NEW i \in DOMAIN line', line'[i].by = h
               PROVE  /\ pc'[h] # "idle"
                      /\ pc'[h] = "attached" =>
                           lease'.owner = h /\ ~lease'.short /\ lease'.chars >= Len(line') - i + 1
  BY DEF Composes
<1>3. ASSUME NEW j \in DOMAIN line, line[j].by = h
      PROVE  pc[h] = "attached" =>
               lease.owner = h /\ ~lease.short /\ lease.chars >= Len(line) - j + 1
  BY <1>3 DEF CompositionInv, Composes
<1>4. ASSUME NEW config \in BOOLEAN, Type(h, config)
      PROVE  /\ pc'[h] = "attached"
             /\ lease'.owner = h /\ ~lease'.short /\ lease'.chars >= Len(line') - i + 1
  <2>1. /\ Key(h) /\ lease'.owner = h /\ lease'.chars = Held(h).chars + 1 /\ Held(h).chars \in Nat
        /\ lease'.short = Held(h).config /\ pc' = pc
        /\ line' = Append(line, [by |-> h, config |-> config])
        /\ [by |-> h, config |-> config] \in Tokens
    BY <1>0, <1>4, TypeKey
  <2>2. pc[h] = "attached" /\ ~Held(h).config
    BY <2>1, FreshLease DEF Key
  <2>3. Len(line') = Len(line) + 1 /\ i \in 1..Len(line) + 1
    BY <1>1, <2>1, LineGrows
  <2>4. CASE i = Len(line) + 1
    BY <1>1, <2>1, <2>2, <2>3, <2>4
  <2>5. CASE i \in 1..Len(line)
    <3>1. i \in DOMAIN line /\ line[i].by = h
      BY <1>1, <1>2, <2>1, <2>5, LineGrows
    <3>2. lease.owner = h /\ lease.chars >= Len(line) - i + 1
      BY <1>3, <2>2, <3>1
    <3>3. Held(h) = lease
      BY <3>2, ClientSets DEF Held, Free
    <3> QED
      BY <1>1, <2>1, <2>2, <2>3, <2>5, <3>2, <3>3
  <2> QED
    BY <2>3, <2>4, <2>5
<1>5. CASE Erase(h)
  <2>1. /\ Key(h) /\ lease'.owner = h /\ Held(h).chars \in Nat /\ pc' = pc
        /\ lease'.chars = IF Held(h).chars = 0 THEN 0 ELSE Held(h).chars - 1
        /\ lease'.short <=> (Held(h).config \/ lease'.chars = 0)
        /\ line' = IF line = <<>> THEN line ELSE SubSeq(line, 1, Len(line) - 1)
    BY <1>0, <1>5, EraseKey
  <2>2. pc[h] = "attached" /\ ~Held(h).config
    BY <2>1, FreshLease DEF Key
  <2>3. line # <<>>
    BY <1>2, <2>1
  <2>4. /\ Len(line') = Len(line) - 1 /\ i \in 1..Len(line) - 1 /\ line'[i] = line[i]
    BY <1>1, <2>1, <2>3, LineShrinks
  <2>5. i \in DOMAIN line /\ line[i].by = h
    BY <1>1, <1>2, <2>4
  <2>6. lease.owner = h /\ lease.chars >= Len(line) - i + 1
    BY <1>3, <2>2, <2>5
  <2>7. Held(h) = lease
    BY <2>6, ClientSets DEF Held, Free
  <2> QED
    BY <1>1, <2>1, <2>2, <2>4, <2>6, <2>7
<1>6. CASE Enter(h)
  BY <1>2, <1>6 DEF Enter, Submitted
<1>7. CASE Attach(h) \/ Poll(h) \/ Detach(h)
  <2>1. line' = line
    BY <1>7 DEF Attach, Poll, Detach, tuiVars
  <2>2. Writes(h)
    BY <1>2, <2>1 DEF Writes
  <2>3. ~Attach(h)
    BY <2>2, ComposerLease DEF Attach
  <2>4. CASE Poll(h)
    <3>1. pc[h] = "attached" /\ pc' = pc
      BY <2>4 DEF Poll, clientVars
    <3>2. lease.reason # "human_command_submitted"
      BY <2>2, <3>1, ComposerLease
    <3>3. lease' = lease
      BY <2>4, <3>2 DEF Poll, hostVars
    <3> QED
      BY <1>2, <1>3, <2>1, <3>1, <3>3
  <2>5. CASE Detach(h)
    <3>1. Goto(h, "done") /\ "done" \in Places
      BY <2>5 DEF Detach, Places
    <3> QED
      BY <1>1, <3>1, Going
  <2> QED
    BY <1>7, <2>3, <2>4, <2>5
<1> QED
  BY <1>0, <1>4, <1>5, <1>6, <1>7 DEF Human

LEMMA NextComposition ==
  ASSUME Basis, ConfigInv, CompositionInv, [InputNext]_inputVars
  PROVE  CompositionInv'
<1>1. Plain' = Plain
  BY SettingStays DEF Plain
<1>2. SUFFICES ASSUME Plain, NEW h \in Humans PROVE Composes(h)'
  BY <1>1 DEF CompositionInv
<1>3. CASE UNCHANGED inputVars
  BY <1>2, <1>3 DEF CompositionInv, Composes, inputVars, clientVars, hostVars, tuiVars
<1> QED
  BY <1>2, <1>3, ComposesUndisturbed, ComposesOn

(* No automation writes into it.                                           *)
LEMMA CompositionStep ==
  ASSUME Basis, CompositionInv, [InputNext]_inputVars
  PROVE  [(Configures /\ Hasty) \/ ~Shadowed \/ ~WritesIntoComposition]_inputVars
<1> SUFFICES ASSUME InputNext, Plain, NEW a \in Automations, NEW h \in Humans,
                    pc[a] = "text", pc'[a] = "ack", pc[h] = "attached", Writes(h)
             PROVE  FALSE
  BY DEF Plain, WritesIntoComposition
<1>1. /\ a \in Writers /\ a \notin Humans /\ InputTypeOK
  BY ClientSets DEF Basis
<1>2. Automation(a) \/ TimesOut(a) \/ Dies(a)
  BY <1>1, OwnMoves
<1>3. lease.owner = h
  BY ComposerLease
<1>4. Busy(a)
  BY <1>1, <1>3, ClientSets DEF Busy, Free
<1>5. \E p \in {"return", "done", "dead"} : Goto(a, p)
  BY <1>1, <1>2, <1>4, ClientSets
     DEF Automation, Ensure, Cursor, BeginTurn, IsReady, SendText, Submit, Started, Completed, Return,
         TimesOut, Dies, Fail
<1>6. {"return", "done", "dead"} \subseteq Places
  BY DEF Places
<1> QED
  BY <1>1, <1>5, <1>6, Going
-----------------------------------------------------------------------------
(* The text of an automation.                                              *)

(* A human writes no other's text.                                         *)
LEMMA HumanTokens ==
  ASSUME Basis, Shadowed, NEW g \in Humans, Human(g), NEW w \in Writers, w # g, Writes(w)'
  PROVE  Writes(w)
<1>1. line \in Seq(Tokens) /\ ~Edit(g)
  BY DEF Basis, InputTypeOK, Edit, Shadowed
<1>2. PICK i \in DOMAIN line' : line'[i].by = w
  BY DEF Writes
<1>3. i \in DOMAIN line /\ line[i] = line'[i]
  <2>1. CASE \E config \in BOOLEAN : Type(g, config)
    <3>1. PICK config \in BOOLEAN : Type(g, config)
      BY <2>1
    <3>2. /\ line' = Append(line, [by |-> g, config |-> config])
          /\ [by |-> g, config |-> config] \in Tokens
      BY <3>1, TypeKey
    <3>3. i \in 1..Len(line) + 1 /\ i # Len(line) + 1
      BY <1>1, <1>2, <3>2, LineGrows
    <3> QED
      BY <1>1, <3>2, <3>3, LineGrows
  <2>2. CASE Erase(g)
    <3>1. line' = line \/ (line # <<>> /\ line' = SubSeq(line, 1, Len(line) - 1))
      BY <2>2, EraseKey
    <3> QED
      BY <1>1, <1>2, <3>1, LineShrinks
  <2>3. CASE Enter(g)
    BY <1>2, <2>3 DEF Enter, Submitted
  <2>4. CASE Attach(g) \/ Poll(g) \/ Detach(g)
    BY <1>2, <2>4 DEF Attach, Poll, Detach, tuiVars
  <2> QED
    BY <1>1, <2>1, <2>2, <2>3, <2>4 DEF Human
<1> QED
  BY <1>2, <1>3 DEF Writes

(* An automation that is not refused finds the line empty.                 *)
LEMMA EmptyLine ==
  ASSUME Basis, CompositionInv, AloneInv, Orderly, NEW a \in Automations, ~Busy(a), pc[a] # "ack"
  PROVE  line = <<>>
<1>1. line \in Seq(Tokens)
  BY DEF Basis, InputTypeOK
<1>2. SUFFICES ASSUME line # <<>> PROVE FALSE
  OBVIOUS
<1>3. 1 \in DOMAIN line /\ line[1].by \in Writers
  <2>1. 1 \in DOMAIN line /\ line[1] \in Tokens
    BY <1>1, <1>2
  <2> QED
    BY <2>1 DEF Tokens
<1>4. PICK w \in Writers : Writes(w)
  BY <1>3 DEF Writes
<1>5. lease.owner = w
  <2>1. CASE w \in Automations
    BY <1>4, <2>1 DEF AloneInv, Alone
  <2>2. CASE w \in Humans
    BY <1>4, <2>2, ComposerLease DEF AloneInv, HumansTakeAlong, Orderly, Plain
  <2> QED
    BY <2>1, <2>2 DEF Writers
<1>6. w = a
  BY <1>5, ClientSets DEF Busy, Free
<1> QED
  BY <1>4, <1>6 DEF AloneInv, Alone

LEMMA SendTextAlone ==
  ASSUME Basis, CompositionInv, AloneInv, Orderly, NEW b \in Automations, SendText(b)
  PROVE  (\A a \in Automations : Alone(a)') /\ HumansTakeAlong'
<1>1. /\ b \in Writers /\ InputTypeOK /\ pc[b] = "text" /\ line \in Seq(Tokens)
      /\ \A a \in Automations : Alone(a)
      /\ \A h \in Humans : Writes(h) => pc[h] = "attached"
  BY ClientSets DEF Basis, SendText, AloneInv, HumansTakeAlong, InputTypeOK
<1>2. CASE Busy(b) \/ (Free /\ b \in Delegates)
  <2>1. /\ UNCHANGED <<hostVars, line, caret>>
        /\ pc'[b] # "ack" /\ \A v \in Writers : v # b => pc'[v] = pc[v]
    BY <1>1, <1>2, Failing DEF SendText
  <2> QED
    BY <1>1, <2>1, ClientSets DEF Alone, HumansTakeAlong, Writes, hostVars
<1>3. CASE ~(Busy(b) \/ (Free /\ b \in Delegates))
  <2>1. line = <<>>
    BY <1>1, <1>3, EmptyLine
  <2>2. /\ Goto(b, "ack") /\ Grant(b) /\ "ack" \in Places
        /\ implicitWriter' = (IF b \in Senders THEN b ELSE implicitWriter)
        /\ line' = Append(line, By(b))
    <3>1. /\ Goto(b, "ack") /\ Grant(b) /\ "ack" \in Places /\ Inserted(By(b))
          /\ implicitWriter' = (IF b \in Senders THEN b ELSE implicitWriter)
      BY <1>3 DEF SendText, Places
    <3>2. By(b) \in Tokens /\ caret \in 0..Len(line) /\ caret = Len(line)
      BY <1>1 DEF By, Tokens, Basis, InputTypeOK, CaretInv, Orderly, Shadowed
    <3> QED
      BY <1>1, <3>1, <3>2, Inserting
  <2>3. line' = <<By(b)>> /\ By(b).by = b
    BY <2>1, <2>2 DEF By
  <2>4. pc'[b] = "ack" /\ \A v \in Writers : v # b => pc'[v] = pc[v]
    BY <1>1, <2>2, Going
  <2>5. lease'.owner = b
    BY <1>1, <1>3, <2>2, Granting
  <2>6. \A i \in DOMAIN line' : line'[i].by = b
    BY <2>3
  <2>7. Alone(b)'
    BY <2>2, <2>3, <2>4, <2>5 DEF Alone
  <2>8. ASSUME NEW a \in Automations, a # b PROVE Alone(a)'
    <3>1. pc'[a] = pc[a] /\ ~Writes(a)'
      BY <2>4, <2>6, <2>8, ClientSets DEF Writes
    <3>2. pc[a] # "ack"
      BY <1>1, <2>1, <2>8 DEF Alone
    <3> QED
      BY <3>1, <3>2 DEF Alone
  <2>9. HumansTakeAlong'
    BY <2>6, ClientSets DEF HumansTakeAlong, Writes
  <2> QED
    BY <2>7, <2>8, <2>9
<1> QED
  BY <1>2, <1>3

LEMMA SubmitAlone ==
  ASSUME Basis, CompositionInv, AloneInv, Orderly, NEW b \in Automations, Submit(b)
  PROVE  /\ \A a \in Automations : Alone(a)'
         /\ HumansTakeAlong'
         /\ Submitted(b) /\ line = <<By(b)>> /\ lease.owner = b /\ Goto(b, "start")
<1>1. /\ b \in Writers /\ InputTypeOK /\ pc[b] = "ack" /\ line \in Seq(Tokens)
      /\ \A a \in Automations : Alone(a)
      /\ UNCHANGED hostVars
  BY ClientSets DEF Basis, Submit, AloneInv, InputTypeOK
<1>2. lease.owner = b /\ line = <<By(b)>> /\ (b \in Senders => implicitWriter = b)
  BY <1>1 DEF Alone
<1>3. Submitted(b) /\ Goto(b, "start") /\ "start" \in Places
  BY <1>1, <1>2, ClientSets DEF Submit, Busy, Free, Places
<1>4. line' = <<>> /\ pc'[b] = "start" /\ \A v \in Writers : v # b => pc'[v] = pc[v]
  BY <1>1, <1>3, Going DEF Submitted
<1>5. \A w : ~Writes(w)'
  BY <1>4 DEF Writes
<1>6. \A a \in Automations : pc'[a] # "ack"
  BY <1>1, <1>2, <1>4, ClientSets DEF Alone
<1> QED
  BY <1>2, <1>3, <1>5, <1>6 DEF Alone, HumansTakeAlong

LEMMA OthersAlone ==
  ASSUME Basis, CompositionInv, AloneInv, Orderly, NEW b \in Automations, Automation(b),
         ~SendText(b), ~Submit(b)
  PROVE  (\A a \in Automations : Alone(a)') /\ HumansTakeAlong'
<1>1. /\ b \in Writers /\ InputTypeOK
      /\ \A a \in Automations : Alone(a)
      /\ \A h \in Humans : Writes(h) => pc[h] = "attached"
  BY ClientSets DEF Basis, AloneInv, HumansTakeAlong
<1>2. line' = line
  BY AutomationLine
<1>3. \E p \in Places \ {"ack", "attached"} : Goto(b, p)
  BY DEF Automation, Ensure, Cursor, BeginTurn, IsReady, Started, Completed, Return, Places
<1>4. pc'[b] # "ack" /\ \A v \in Writers : v # b => pc'[v] = pc[v]
  BY <1>1, <1>3, Going
<1>5. pc[b] # "ack"
  BY DEF Automation, Ensure, Cursor, BeginTurn, IsReady, Started, Completed, Return
<1>6. \A w : Writes(w)' <=> Writes(w)
  BY <1>2 DEF Writes
<1>7. ASSUME NEW a \in Automations PROVE Alone(a)'
  <2>1. CASE a = b
    BY <1>1, <1>4, <1>5, <1>6, <2>1 DEF Alone
  <2>2. CASE a # b /\ pc[a] = "ack"
    <3>1. lease.owner = a /\ ~Free
      BY <1>1, <2>2, ClientSets DEF Alone, Free
    <3>2. lease' = lease /\ implicitWriter' = implicitWriter
      BY <2>2, <3>1, AutomationLease
    <3> QED
      BY <1>1, <1>2, <1>4, <1>6, <2>2, <3>2, ClientSets DEF Alone
  <2>3. CASE a # b /\ pc[a] # "ack"
    BY <1>1, <1>4, <1>6, <2>3, ClientSets DEF Alone
  <2> QED
    BY <2>1, <2>2, <2>3
<1>8. HumansTakeAlong'
  BY <1>1, <1>4, <1>6, ClientSets DEF HumansTakeAlong
<1> QED
  BY <1>7, <1>8

LEMMA HumansAlone ==
  ASSUME Basis, CompositionInv, AloneInv, Orderly, InputNext, NEW g \in Humans, Human(g)
  PROVE  (\A a \in Automations : Alone(a)') /\ HumansTakeAlong'
<1>1. /\ g \in Writers /\ g \notin Automations /\ InputTypeOK
      /\ \A a \in Automations : Alone(a)
      /\ \A h \in Humans : Writes(h) => pc[h] = "attached"
  BY ClientSets DEF Basis, AloneInv, HumansTakeAlong
<1>2. \A v \in Writers : v # g => pc'[v] = pc[v]
  <2>1. pc' = pc \/ \E p \in {"attached", "done"} : Goto(g, p)
    BY DEF Human, Attach, Type, Erase, Edit, Enter, Key, Poll, Detach, clientVars
  <2> QED
    BY <1>1, <2>1 DEF Goto, InputTypeOK
<1>3. ASSUME NEW a \in Automations PROVE Alone(a)'
  <2>1. a \in Writers /\ a # g /\ pc'[a] = pc[a] /\ (Writes(a)' => Writes(a))
    BY <1>1, <1>2, ClientSets, HumanTokens DEF Orderly
  <2>2. CASE pc[a] = "ack"
    <3>1. lease.owner = a /\ ~Free
      BY <1>1, <2>2, ClientSets DEF Alone, Free
    <3>2. lease' = lease /\ implicitWriter' = implicitWriter /\ line' = line
      BY <2>1, <3>1, HumanLease
    <3> QED
      BY <1>1, <2>1, <2>2, <3>2 DEF Alone
  <2>3. CASE pc[a] # "ack"
    BY <1>1, <2>1, <2>3 DEF Alone
  <2> QED
    BY <2>2, <2>3
<1>4. ASSUME NEW h \in Humans, Writes(h)' PROVE pc'[h] = "attached"
  <2>1. CASE h # g
    BY <1>1, <1>2, <1>4, <2>1, ClientSets, HumanTokens DEF Orderly
  <2>2. CASE h = g /\ Attach(g)
    <3>1. Goto(g, "attached") /\ "attached" \in Places
      BY <2>2 DEF Attach, Places
    <3> QED
      BY <1>1, <2>2, <3>1, Going
  <2>3. CASE h = g /\ Detach(g)
    <3>1. line' = line /\ ~Writes(g)
      BY <2>3 DEF Detach, tuiVars, Orderly
    <3> QED
      BY <1>4, <2>3, <3>1 DEF Writes
  <2>4. CASE h = g /\ ~Attach(g) /\ ~Detach(g)
    BY <2>4 DEF Human, Type, Erase, Edit, Enter, Key, Poll, clientVars
  <2> QED
    BY <2>1, <2>2, <2>3, <2>4
<1> QED
  BY <1>3, <1>4 DEF HumansTakeAlong

LEMMA HostAlone ==
  ASSUME Basis, AloneInv, Orderly, InputNext,
         Lapse \/ ConfigurationReleases \/ TurnStarts \/ TurnEnds \/ PromptReturns
  PROVE  (\A a \in Automations : Alone(a)') /\ HumansTakeAlong'
<1>1. /\ \A a \in Automations : Alone(a)
      /\ \A h \in Humans : Writes(h) => pc[h] = "attached"
  BY DEF AloneInv, HumansTakeAlong
<1>2. line' = line /\ pc' = pc
  BY HostLease DEF clientVars
<1>3. ASSUME NEW a \in Automations, pc[a] = "ack"
      PROVE  lease' = lease /\ implicitWriter' = implicitWriter
  <2>1. lease.owner = a
    BY <1>1, <1>3 DEF Alone
  <2> QED
    BY <1>3, <2>1, KeepsLease DEF SendText
<1> QED
  BY <1>1, <1>2, <1>3 DEF Alone, HumansTakeAlong, Writes

(* A command that is submitted holds its writer's text alone.              *)
LEMMA NextSentAlone ==
  ASSUME Basis, CompositionInv, AloneInv, Orderly, InputNext
  PROVE  SentAlone'
<1>1. /\ InputTypeOK /\ commands \in Seq([line : Seq(Tokens), by : Writers]) /\ SentAlone
  BY DEF Basis, AloneInv, InputTypeOK
<1>2. /\ Faults' = Faults /\ Leaves' = Leaves /\ Configures' = Configures /\ Hasty' = Hasty
      /\ Shadowed' = Shadowed
  BY SettingStays
<1>3. CASE commands' = commands
  BY <1>1, <1>2, <1>3 DEF SentAlone
<1>4. ASSUME NEW w \in Writers, Submitted(w),
             w \in Automations => \A j \in DOMAIN line : line[j].by = w
      PROVE  SentAlone'
  <2>1. ASSUME NEW i \in DOMAIN commands', commands'[i].by \in Automations
        PROVE  \A j \in DOMAIN commands'[i].line : commands'[i].line[j].by = commands'[i].by
    <3>1. CASE i \in DOMAIN commands
      <4>1. i \in 1..Len(commands)
        BY <1>1, <3>1
      <4>2. commands'[i] = commands[i]
        BY <1>1, <1>4, <4>1, Submitting
      <4>3. \A j \in DOMAIN commands : commands[j].by \in Automations =>
              \A k \in DOMAIN commands[j].line : commands[j].line[k].by = commands[j].by
        BY <1>1 DEF SentAlone, Orderly
      <4> QED
        BY <2>1, <3>1, <4>2, <4>3
    <3>2. CASE i \notin DOMAIN commands
      <4>1. /\ Len(commands') = Len(commands) + 1
            /\ commands'[Len(commands) + 1] = [line |-> line, by |-> w]
            /\ commands' \in Seq([line : Seq(Tokens), by : Writers])
        BY <1>1, <1>4, <2>1, <3>2, Submitting
      <4>2. i = Len(commands) + 1
        BY <1>1, <2>1, <3>2, <4>1
      <4> QED
        BY <1>4, <2>1, <4>1, <4>2
    <3> QED
      BY <3>1, <3>2
  <2> QED
    BY <2>1 DEF SentAlone
<1>5. ASSUME NEW a \in Automations, Automation(a) \/ TimesOut(a) \/ Dies(a)
      PROVE  SentAlone'
  <2>1. CASE Submit(a)
    <3>1. Submitted(a) /\ line = <<By(a)>> /\ By(a).by = a
      BY <2>1, SubmitAlone DEF By
    <3> QED
      BY <1>4, <3>1, ClientSets
  <2>2. CASE ~Submit(a)
    <3>1. commands' = commands
      BY <1>5, <2>2 DEF Automation, Ensure, Cursor, BeginTurn, IsReady, SendText, Started,
         Completed,
                        Return, TimesOut, Dies, tuiVars
    <3> QED
      BY <1>3, <3>1
  <2> QED
    BY <2>1, <2>2
<1>6. ASSUME NEW h \in Humans, Human(h)
      PROVE  SentAlone'
  <2>1. CASE Enter(h)
    BY <1>4, <2>1, ClientSets DEF Enter
  <2>2. CASE ~Enter(h)
    <3>1. commands' = commands
      BY <1>6, <2>2 DEF Human, Attach, Type, Erase, Edit, Poll, Detach, tuiVars
    <3> QED
      BY <1>3, <3>1
  <2> QED
    BY <2>1, <2>2
<1>7. ASSUME Lapse \/ ConfigurationReleases \/ TurnStarts \/ TurnEnds \/ PromptReturns
      PROVE  SentAlone'
  BY <1>3, <1>7, HostLease
<1> QED
  BY <1>5, <1>6, <1>7 DEF InputNext

LEMMA NextAlone ==
  ASSUME Basis, CompositionInv, AloneInv, [InputNext]_inputVars
  PROVE  AloneInv'
<1>1. Orderly' = Orderly
  BY SettingStays DEF Orderly
<1>2. SUFFICES ASSUME Orderly
               PROVE  (\A a \in Automations : Alone(a)') /\ HumansTakeAlong' /\ SentAlone'
  BY <1>1 DEF AloneInv
<1>3. CASE UNCHANGED inputVars
  <2>1. SentAlone'
    BY <1>2, <1>3, SettingStays DEF AloneInv, SentAlone, inputVars, tuiVars
  <2>2. (\A a \in Automations : Alone(a)') /\ HumansTakeAlong'
    BY <1>2, <1>3 DEF AloneInv, Alone, Writes, HumansTakeAlong, inputVars, clientVars, hostVars,
       tuiVars
  <2> QED
    BY <2>1, <2>2
<1>4. CASE InputNext
  <2>1. SentAlone'
    BY <1>2, <1>4, NextSentAlone
  <2>2. ASSUME NEW a \in Automations, Automation(a) \/ TimesOut(a) \/ Dies(a)
        PROVE  (\A b \in Automations : Alone(b)') /\ HumansTakeAlong'
    <3>1. Automation(a)
      BY <1>2, <2>2 DEF Orderly, TimesOut, Dies
    <3> QED
      BY <1>2, <3>1, SendTextAlone, SubmitAlone, OthersAlone
  <2>3. ASSUME NEW h \in Humans, Human(h)
        PROVE  (\A b \in Automations : Alone(b)') /\ HumansTakeAlong'
    BY <1>2, <1>4, <2>3, HumansAlone
  <2>4. ASSUME Lapse \/ ConfigurationReleases \/ TurnStarts \/ TurnEnds \/ PromptReturns
        PROVE  (\A b \in Automations : Alone(b)') /\ HumansTakeAlong'
    BY <1>2, <1>4, <2>4, HostAlone
  <2> QED
    BY <1>4, <2>1, <2>2, <2>3, <2>4 DEF InputNext
<1> QED
  BY <1>3, <1>4
-----------------------------------------------------------------------------
(* Whose turn begins.                                                      *)

InputInv == Basis /\ WatchInv /\ ConfigInv /\ CompositionInv /\ AloneInv /\ QueueInv

LEMMA PatientSetting ==
  ASSUME Patient
  PROVE  /\ Orderly /\ Plain /\ ~Faults /\ ~Hasty /\ ~Leaves /\ FollowUps = {}
         /\ Shadowed /\ ~Edits
BY DEF Patient, Orderly, Plain, Shadowed

(* Only delegates are about.                                               *)
LEMMA OnlyDelegates ==
  ASSUME InputInv, Patient, NEW a \in Automations, Automation(a) \/ TimesOut(a) \/ Dies(a)
  PROVE  Automation(a) /\ a \in Delegates
<1>1. Automation(a)
  BY PatientSetting DEF TimesOut, Dies
<1>2. ASSUME a \in Senders PROVE FALSE
  <2>1. pc[a] = "idle"
    BY <1>2 DEF InputInv, QueueInv
  <2>2. a \notin situation.automations
    BY <1>2, PatientSetting DEF FollowUps
  <2> QED
    BY <1>1, <1>2, <2>1, <2>2, ClientSets
       DEF Automation, Ensure, Cursor, BeginTurn, IsReady, SendText, Submit, Started, Completed, Return
<1> QED
  BY <1>1, <1>2, ClientSets

(* Enter finds what the human who presses it has typed.                    *)
LEMMA EnteredText ==
  ASSUME InputInv, Patient, NEW h \in Humans, Key(h), line # <<>>
  PROVE  Held(h).chars >= 1
<1>1. line \in Seq(Tokens) /\ ~Busy(h)
  BY DEF InputInv, Basis, InputTypeOK, Key
<1>2. 1 \in DOMAIN line /\ line[1] \in Tokens
  BY <1>1
<1>3. PICK w \in Writers : Writes(w)
  BY <1>2 DEF Writes, Tokens
<1>4. lease.owner = w
  <2>1. CASE w \in Automations
    BY <1>3, <2>1, PatientSetting DEF InputInv, AloneInv, Alone
  <2>2. CASE w \in Humans
    BY <1>3, <2>2, PatientSetting, ComposerLease DEF InputInv, AloneInv, HumansTakeAlong
  <2> QED
    BY <2>1, <2>2 DEF Writers
<1>5. w = h
  BY <1>1, <1>4, ClientSets DEF Busy, Free
<1>6. Held(h) = lease
  BY <1>4, <1>5, ClientSets DEF Held, Free
<1>7. lease.chars >= 1
  BY <1>3, <1>5, PatientSetting, ComposerLease DEF InputInv, AloneInv, HumansTakeAlong, Key
<1> QED
  BY <1>6, <1>7

(* A human who has the lease keeps it through the steps of the others and  *)
(* of the host, unless it is short.                                        *)
LEMMA HumanKeepsLease ==
  ASSUME Basis, InputNext, NEW h \in Humans, ~Human(h), lease.owner = h, pc[h] = "attached",
         ~lease.short
  PROVE  lease' = lease
<1>1. h \notin Automations /\ ~Free /\ ~lease.config
  BY ClientSets DEF Basis, LeaseInv, Free
<1>2. ASSUME NEW a \in Automations, Automation(a) \/ TimesOut(a) \/ Dies(a)
      PROVE  lease' = lease
  BY <1>1, <1>2, AutomationLease
<1>3. ASSUME NEW g \in Humans, Human(g)
      PROVE  lease' = lease
  BY <1>1, <1>3, HumanLease
<1>4. ASSUME Lapse \/ ConfigurationReleases \/ TurnStarts \/ TurnEnds \/ PromptReturns
      PROVE  lease' = lease
  <2>1. ~Lapse
    BY <1>1, ClientSets DEF Lapse, Over
  <2> QED
    BY <1>1, <1>4, <2>1, HostLease
<1> QED
  BY <1>2, <1>3, <1>4 DEF InputNext

(* A human's view of turns and his place change by his own steps.          *)
LEMMA HumanPlace ==
  ASSUME Basis, InputNext, NEW h \in Humans, ~Human(h)
  PROVE  pc'[h] = pc[h] /\ humanTurnSeen'[h] = humanTurnSeen[h]
<1>1. h \in Writers /\ h \notin Automations /\ InputTypeOK
  BY ClientSets DEF Basis
<1>2. pc'[h] = pc[h]
  BY <1>1, OwnMoves DEF Human
<1>3. ASSUME NEW g \in Humans, Human(g)
      PROVE  humanTurnSeen'[h] = humanTurnSeen[h]
  <2>1. CASE Poll(g)
    BY <1>1, <1>3, <2>1 DEF Poll, InputTypeOK
  <2>2. CASE ~Poll(g)
    BY <1>3, <2>2 DEF Human, Attach, Type, Erase, Edit, Enter, Key, Detach, humanVars
  <2> QED
    BY <2>1, <2>2
<1>4. ASSUME NEW a \in Automations, Automation(a) \/ TimesOut(a) \/ Dies(a)
      PROVE  humanTurnSeen'[h] = humanTurnSeen[h]
  BY <1>4, AutomationLine DEF humanVars
<1>5. ASSUME Lapse \/ ConfigurationReleases \/ TurnStarts \/ TurnEnds \/ PromptReturns
      PROVE  humanTurnSeen'[h] = humanTurnSeen[h]
  BY <1>5, HostLease DEF humanVars
<1> QED
  BY <1>2, <1>3, <1>4, <1>5 DEF InputNext

(* What a delegate has seen begin changes by its own step.                 *)
LEMMA CursorSteps ==
  ASSUME Basis, InputNext, NEW d \in Automations, ~IsReady(d)
  PROVE  cursor'[d] = cursor[d]
<1>1. InputTypeOK
  BY DEF Basis
<1>2. ASSUME NEW a \in Automations, Automation(a) \/ TimesOut(a) \/ Dies(a)
      PROVE  cursor'[d] = cursor[d]
  <2>1. CASE IsReady(a)
    BY <1>1, <2>1 DEF IsReady, InputTypeOK
  <2>2. CASE ~IsReady(a)
    BY <1>2, <2>2 DEF Automation, Ensure, Cursor, BeginTurn, SendText, Submit, Started, Completed,
                      Return, TimesOut, Dies
  <2> QED
    BY <2>1, <2>2
<1>3. ASSUME NEW g \in Humans, Human(g)
      PROVE  cursor'[d] = cursor[d]
  BY <1>3 DEF Human, Attach, Type, Erase, Edit, Enter, Key, Poll, Detach, clientVars
<1>4. ASSUME Lapse \/ ConfigurationReleases \/ TurnStarts \/ TurnEnds \/ PromptReturns
      PROVE  cursor'[d] = cursor[d]
  BY <1>4, HostLease DEF clientVars
<1> QED
  BY <1>2, <1>3, <1>4 DEF InputNext

(* What a step makes of the commands and the turns.                        *)
Calm == UNCHANGED <<commands, begun, active>>

LEMMA TurnSteps ==
  ASSUME Basis, InputNext
  PROVE  \/ Calm
         \/ TurnStarts
         \/ TurnEnds
         \/ \E a \in Automations : Submit(a)
         \/ \E h \in Humans : Enter(h)
<1>1. ASSUME NEW a \in Automations, Automation(a) \/ TimesOut(a) \/ Dies(a), ~Submit(a)
      PROVE  Calm
  BY <1>1 DEF Automation, Ensure, Cursor, BeginTurn, IsReady, SendText, Started, Completed, Return,
              TimesOut, Dies, tuiVars, Calm
<1>2. ASSUME NEW h \in Humans, Human(h), ~Enter(h)
      PROVE  Calm
  BY <1>2 DEF Human, Attach, Type, Erase, Edit, Poll, Detach, tuiVars, Calm
<1>3. ASSUME Lapse \/ ConfigurationReleases \/ PromptReturns
      PROVE  Calm
  BY <1>3 DEF Lapse, ConfigurationReleases, PromptReturns, tuiVars, Calm
<1> QED
  BY <1>1, <1>2, <1>3 DEF InputNext, Automation

(* Commands are only added, and turns only begin.                          *)
LEMMA CommandsKept ==
  ASSUME Basis, InputNext
  PROVE  /\ Len(commands) \in Nat /\ Len(commands') \in Nat /\ begun \in Nat /\ begun' \in Nat
         /\ begun <= Len(commands) /\ begun' <= Len(commands')
         /\ Len(commands') >= Len(commands) /\ begun' >= begun
         /\ \A i \in 1..Len(commands) : commands'[i] = commands[i]
         /\ DOMAIN commands = 1..Len(commands) /\ DOMAIN commands' = 1..Len(commands')
<1>1. InputTypeOK /\ InputTypeOK'
  BY NextBasis DEF Basis
<1>2. /\ commands \in Seq([line : Seq(Tokens), by : Writers]) /\ begun \in 0..Len(commands)
      /\ commands' \in Seq([line : Seq(Tokens)', by : Writers']) /\ begun' \in 0..Len(commands')
  BY <1>1 DEF InputTypeOK
<1>3. /\ Len(commands) \in Nat /\ Len(commands') \in Nat /\ begun \in Nat /\ begun' \in Nat
      /\ begun <= Len(commands) /\ begun' <= Len(commands')
      /\ DOMAIN commands = 1..Len(commands) /\ DOMAIN commands' = 1..Len(commands')
  BY <1>2
<1>4. ASSUME NEW w \in Writers, Submitted(w)
      PROVE  /\ Len(commands') >= Len(commands) /\ begun' >= begun
             /\ \A i \in 1..Len(commands) : commands'[i] = commands[i]
  <2>1. /\ \A i \in 1..Len(commands) : commands'[i] = commands[i]
        /\ commands' = commands \/ Len(commands') = Len(commands) + 1
        /\ begun' = begun
    BY <1>1, <1>4, Submitting
  <2>2. Len(commands') = Len(commands) \/ Len(commands') = Len(commands) + 1
    BY <2>1
  <2>3. Len(commands') >= Len(commands) /\ begun' >= begun
    <3>1. Len(commands) \in Nat /\ begun \in Nat
      BY <1>3
    <3>2. begun' = begun
      BY <2>1
    <3> QED
      BY <2>2, <3>1, <3>2
  <2> QED
    BY <2>1, <2>3
<1>5. CASE Calm
  BY <1>3, <1>5 DEF Calm
<1>6. CASE TurnStarts \/ TurnEnds
  BY <1>3, <1>6 DEF TurnStarts, TurnEnds
<1>7. ASSUME NEW a \in Automations, Submit(a)
      PROVE  /\ Len(commands') >= Len(commands) /\ begun' >= begun
             /\ \A i \in 1..Len(commands) : commands'[i] = commands[i]
  <2>1. UNCHANGED tuiVars \/ Submitted(a)
    BY <1>7 DEF Submit
  <2> QED
    BY <1>3, <1>4, <2>1, ClientSets DEF tuiVars
<1>8. ASSUME NEW h \in Humans, Enter(h)
      PROVE  /\ Len(commands') >= Len(commands) /\ begun' >= begun
             /\ \A i \in 1..Len(commands) : commands'[i] = commands[i]
  BY <1>4, <1>8, ClientSets DEF Enter
<1> QED
  BY <1>3, <1>5, <1>6, <1>7, <1>8, TurnSteps
(* The client whose command waits goes on waiting for its turn.            *)
LEMMA DelegateWaits ==
  ASSUME InputInv, Patient, InputNext, NEW w \in Delegates, Waiting(w), begun' = begun
  PROVE  Waiting(w)'
<1>1. /\ w \in Writers /\ w \in Automations /\ w \notin Humans /\ w \notin Senders
      /\ Basis /\ InputTypeOK
  BY ClientSets DEF InputInv, Basis
<1>2. lease.owner = w /\ pc[w] = "start" /\ cursor[w] = begun
  BY DEF Waiting
<1>3. lease' = lease
  BY <1>1, <1>2, KeepsLease DEF SendText
<1>4. pc'[w] = pc[w]
  <2>1. SUFFICES ASSUME pc'[w] # pc[w] PROVE FALSE
    OBVIOUS
  <2>2. Automation(w)
    BY <1>1, <2>1, OwnMoves, OnlyDelegates
  <2>3. Started(w)
    BY <1>1, <1>2, <2>2
       DEF Automation, Ensure, Cursor, BeginTurn, IsReady, SendText, Submit, Completed, Return
  <2> QED
    BY <1>1, <1>2, <2>3 DEF Started, TurnSeen, InputTypeOK
<1>5. cursor'[w] = cursor[w]
  BY <1>1, <1>2, CursorSteps DEF IsReady
<1> QED
  BY <1>1, <1>2, <1>3, <1>4, <1>5 DEF Waiting

LEMMA HumanWaits ==
  ASSUME InputInv, Patient, InputNext, NEW w \in Humans, Waiting(w), Pending, ~active,
         commands[begun + 1].by = w
  PROVE  Waiting(w)'
<1>1. /\ w \notin Delegates /\ w \notin Senders /\ Basis /\ InputTypeOK
      /\ lease.owner = w /\ pc[w] = "attached" /\ ~humanTurnSeen[w]
      /\ lease.reason = "human_command_submitted" /\ ~lease.short
  BY ClientSets DEF InputInv, Basis, Waiting
<1>2. CASE ~Human(w)
  <2>1. lease' = lease
    BY <1>1, <1>2, HumanKeepsLease
  <2>2. pc'[w] = pc[w] /\ humanTurnSeen'[w] = humanTurnSeen[w]
    BY <1>1, <1>2, HumanPlace
  <2> QED
    BY <1>1, <2>1, <2>2 DEF Waiting
<1>3. CASE Human(w)
  <2>1. ~Key(w)
    BY <1>1, PatientSetting DEF Key, Prompt
  <2>2. ~Attach(w)
    BY <1>1 DEF Attach
  <2>3. ~Detach(w)
    <3>1. begun + 1 \in DOMAIN commands /\ begun \in Nat
      BY <1>1 DEF Pending, InputTypeOK
    <3>2. ~Ended(begun + 1)
      BY <3>1 DEF Ended
    <3> QED
      BY <3>1, <3>2, PatientSetting DEF Detach, Settled
  <2>4. Poll(w)
    BY <1>3, <2>1, <2>2, <2>3 DEF Human, Type, Erase, Edit, Enter
  <2>5. UNCHANGED hostVars /\ pc' = pc /\ humanTurnSeen'[w] = FALSE
    <3>1. humanTurnSeen \in [Humans -> BOOLEAN]
      BY <1>1 DEF InputTypeOK
    <3> QED
      BY <1>1, <2>4, <3>1 DEF Poll, clientVars
  <2> QED
    BY <1>1, <2>5 DEF Waiting, hostVars
<1> QED
  BY <1>2, <1>3

LEMMA CommandType ==
  ASSUME InputTypeOK, NEW i \in 1..Len(commands)
  PROVE  commands[i].by \in Writers
<1> DEFINE Entries == [line : Seq(Tokens), by : Writers]
<1>1. \A e \in Entries : e.by \in Writers
  OBVIOUS
<1>2. commands \in Seq(Entries)
  BY DEF InputTypeOK
<1> HIDE DEF Entries
<1>3. commands[i] \in Entries
  BY <1>2
<1> QED
  BY <1>1, <1>3

LEMMA NextWaiting ==
  ASSUME InputInv, Patient, InputNext, Calm, Pending'
  PROVE  /\ Len(commands') = begun' + 1 /\ ~active'
         /\ Waiting(commands[begun + 1].by)'
<1> DEFINE w == commands[begun + 1].by
<1>1. Pending /\ begun' = begun /\ commands' = commands /\ active' = active
  BY DEF Pending, Calm
<1>2. Len(commands) = begun + 1 /\ ~active /\ Waiting(w)
  BY <1>1 DEF InputInv, QueueInv
<1>3. w \in Writers
  <2>1. commands \in Seq([line : Seq(Tokens), by : Writers]) /\ begun \in Nat
    BY DEF InputInv, Basis, InputTypeOK
  <2>2. begun + 1 \in 1..Len(commands)
    BY <1>2, <2>1
  <2> QED
    BY <2>2, CommandType DEF InputInv, Basis
<1>4. CASE w \in Delegates
  <2>1. Waiting(w)'
    BY <1>1, <1>2, <1>4, DelegateWaits
  <2> QED
    BY <1>1, <1>2, <2>1
<1>5. CASE w \in Humans
  <2>1. Waiting(w)'
    BY <1>1, <1>2, <1>5, HumanWaits
  <2> QED
    BY <1>1, <1>2, <2>1
<1>6. w \notin Senders
  BY <1>2 DEF Waiting
<1> QED
  BY <1>3, <1>4, <1>5, <1>6 DEF Writers, Automations
(* A delegate that submits and a human who presses Enter wait from then on. *)
LEMMA SubmitWaits ==
  ASSUME InputInv, Patient, InputNext, NEW d \in Delegates, Submit(d)
  PROVE  /\ Pending' => Len(commands') = begun' + 1 /\ ~active' /\ Waiting(commands[begun + 1].by)'
         /\ pc'[d] = "start" /\ begun' = begun /\ active' = active /\ lease' = lease /\ lease.owner = d
         /\ ~Pending /\ begun = Len(commands) /\ cursor[d] = begun
         /\ Len(commands') = Len(commands) + 1 /\ commands'[Len(commands) + 1].by = d
<1>1. /\ d \in Writers /\ d \in Automations /\ d \notin Humans /\ d \notin Senders
      /\ Basis /\ InputTypeOK /\ pc[d] = "ack"
  BY ClientSets DEF InputInv, Basis, Submit
<1>2. Submitted(d) /\ line = <<By(d)>> /\ lease.owner = d /\ Goto(d, "start") /\ "start" \in Places
  BY <1>1, PatientSetting, SubmitAlone DEF InputInv, Places
<1>3. ~active /\ ~Pending /\ cursor[d] = begun
  BY <1>1 DEF InputInv, QueueInv, Counts
<1>4. begun = Len(commands) /\ begun \in Nat
  BY <1>1, <1>3 DEF Pending, InputTypeOK
<1>5. commands' = Append(commands, [line |-> line, by |-> d]) /\ begun' = begun /\ active' = active
  BY <1>2 DEF Submitted, By
<1>6. Len(commands') = Len(commands) + 1 /\ commands'[Len(commands) + 1].by = d
  <2> DEFINE entry == [line |-> line, by |-> d]
             Entries == [line : Seq(Tokens), by : Writers]
  <2>1. entry \in Entries /\ entry.by = d /\ commands \in Seq(Entries)
    BY <1>1 DEF InputTypeOK
  <2> HIDE DEF entry, Entries
  <2>2. Len(Append(commands, entry)) = Len(commands) + 1 /\ Append(commands, entry)[Len(commands) + 1] = entry
    BY <2>1
  <2>3. commands' = Append(commands, entry)
    BY <1>5 DEF entry
  <2> QED
    BY <2>1, <2>2, <2>3
<1>7. pc'[d] = "start"
  BY <1>1, <1>2, Going
<1>8. lease' = lease
  BY DEF Submit, hostVars
<1>9. cursor'[d] = cursor[d]
  BY <1>1, CursorSteps DEF IsReady
<1>10. Waiting(d)'
  BY <1>1, <1>2, <1>3, <1>5, <1>7, <1>8, <1>9 DEF Waiting
<1> QED
  <2>1. commands'[begun' + 1].by = d /\ Len(commands') = begun' + 1
    BY <1>4, <1>5, <1>6
  <2>2. Waiting(commands[begun + 1].by)'
    BY <1>10, <2>1 DEF Waiting
  <2> QED
    BY <1>2, <1>3, <1>4, <1>5, <1>6, <1>7, <1>8, <2>1, <2>2

LEMMA EnterWaits ==
  ASSUME InputInv, Patient, InputNext, NEW h \in Humans, Enter(h)
  PROVE  /\ Pending' => Len(commands') = begun' + 1 /\ ~active' /\ Waiting(commands[begun + 1].by)'
         /\ ~humanTurnSeen'[h]
         /\ lease'.short /\ lease'.reason = "human_command_submitted" => ~active' /\ ~Pending'
<1>0. PICK config \in BOOLEAN :
        Recognised(h, config) /\ lease' = Entered(Held(h), config) /\ Key(h) /\ Submitted(h)
  BY DEF Enter
<1>1. /\ h \in Writers /\ h \notin Delegates /\ h \notin Senders /\ Basis /\ InputTypeOK
  BY ClientSets DEF InputInv, Basis
<1>2. /\ Key(h) /\ lease'.owner = h /\ Held(h).chars \in Nat
      /\ lease'.config <=> (Held(h).config \/ config)
      /\ Held(h).config \/ config =>
           lease'.short /\ lease'.reason = "configuration_command_submitted"
      /\ ~(Held(h).config \/ config) =>
           (lease'.short <=> Held(h).chars = 0) /\ lease'.reason = "human_command_submitted"
      /\ Submitted(h)
      /\ UNCHANGED <<pc, humanTurnSeen, begun, active>>
  BY <1>0, <1>1, EnterKey
<1>3. ~Held(h).config
  BY <1>2, PatientSetting, FreshLease DEF InputInv
<1>4. pc[h] = "attached" /\ ~active /\ begun = Len(commands)
  BY <1>2, PatientSetting DEF Key, Prompt
<1>5. ~humanTurnSeen[h]
  BY <1>2, <1>4, PatientSetting DEF Key, Prompt, InputInv, QueueInv, Sees
<1>6. CASE commands' = commands
  <2>1. ~Pending'
    BY <1>1, <1>2, <1>4, <1>6 DEF Pending, InputTypeOK
  <2> QED
    BY <1>2, <1>4, <1>5, <2>1
<1>7. CASE commands' # commands
  <2>1. /\ line # <<>> /\ ~line[1].config
        /\ Len(commands') = Len(commands) + 1
        /\ commands'[Len(commands) + 1] = [line |-> line, by |-> h]
    BY <1>1, <1>2, <1>7, Submitting
  <2>2. ~config
    BY <1>0, <2>1, PatientSetting DEF Recognised
  <2>3. Held(h).chars >= 1
    BY <1>2, <2>1, EnteredText
  <2>4. ~lease'.short /\ lease'.reason = "human_command_submitted"
    BY <1>2, <1>3, <2>2, <2>3
  <2>5. Waiting(h)'
    BY <1>1, <1>2, <1>4, <1>5, <2>4 DEF Waiting
  <2>6. commands'[begun' + 1].by = h
    BY <1>2, <1>4, <2>1
  <2> QED
    <3>1. Waiting(commands[begun + 1].by)'
      BY <2>5, <2>6 DEF Waiting
    <3> QED
      BY <1>2, <1>4, <1>5, <2>1, <2>4, <3>1
<1> QED
  BY <1>6, <1>7

LEMMA NextPending ==
  ASSUME InputInv, Patient, InputNext, Pending'
  PROVE  Len(commands') = begun' + 1 /\ ~active' /\ Waiting(commands[begun + 1].by)'
<1>1. Basis /\ begun \in Nat /\ Len(commands) \in Nat /\ begun <= Len(commands)
  BY CommandsKept DEF InputInv
<1>2. CASE Calm
  BY <1>2, NextWaiting
<1>3. CASE TurnStarts
  <2>1. begun < Len(commands) /\ commands' = commands /\ begun' = begun + 1
    BY <1>3 DEF TurnStarts
  <2>2. Len(commands) = begun + 1
    BY <2>1 DEF InputInv, QueueInv, Pending
  <2> QED
    BY <1>1, <2>1, <2>2 DEF Pending
<1>4. CASE TurnEnds
  <2>1. active /\ commands' = commands /\ begun' = begun
    BY <1>4 DEF TurnEnds
  <2> QED
    BY <2>1 DEF InputInv, QueueInv, Pending
<1>5. ASSUME NEW a \in Automations, Submit(a)
      PROVE  Len(commands') = begun' + 1 /\ ~active' /\ Waiting(commands[begun + 1].by)'
  BY <1>5, OnlyDelegates, SubmitWaits DEF Automation
<1>6. ASSUME NEW h \in Humans, Enter(h)
      PROVE  Len(commands') = begun' + 1 /\ ~active' /\ Waiting(commands[begun + 1].by)'
  BY <1>6, EnterWaits
<1> QED
  BY <1>1, <1>2, <1>3, <1>4, <1>5, <1>6, TurnSteps

(* A delegate that is not refused and has not submitted finds no command   *)
(* that waits.                                                             *)
LEMMA LeasedIsNext ==
  ASSUME InputInv, Patient, NEW d \in Delegates, Leased(d), pc[d] # "start"
  PROVE  ~Pending
<1>1. lease.owner = d
  BY DEF InputInv, WatchInv
<1>2. SUFFICES ASSUME Pending PROVE FALSE
  OBVIOUS
<1>3. Waiting(commands[begun + 1].by)
  BY <1>2 DEF InputInv, QueueInv
<1> QED
  BY <1>1, <1>3 DEF Waiting

LEMMA NextCounts ==
  ASSUME InputInv, Patient, InputNext, NEW d \in Delegates
  PROVE  Counts(d)'
<1>1. /\ d \in Writers /\ d \in Automations /\ Basis /\ InputTypeOK /\ Counts(d)
      /\ \A h \in Humans : d # h
  BY ClientSets DEF InputInv, Basis, QueueInv
<1>2. ASSUME pc[d] \in {"text", "ack"}, pc'[d] \in {"text", "ack"}
      PROVE  ~active' /\ ~Pending' /\ cursor'[d] = begun'
  <2>1. ~active /\ ~Pending /\ cursor[d] = begun
    BY <1>1, <1>2 DEF Counts
  <2>2. lease.owner = d /\ ~Free
    BY <1>1, <1>2, ClientSets DEF InputInv, WatchInv, Leased, Free
  <2>3. ASSUME NEW a \in Automations, Submit(a) PROVE FALSE
    BY <1>2, <2>2, <2>3, OnlyDelegates, SubmitWaits DEF Automation
  <2>4. ASSUME NEW h \in Humans, Enter(h) PROVE FALSE
    BY <1>1, <2>2, <2>4 DEF Enter, Key, Busy
  <2>5. Calm
    BY <1>1, <2>1, <2>3, <2>4, TurnSteps DEF TurnStarts, TurnEnds, Pending
  <2>6. cursor'[d] = cursor[d]
    BY <1>1, <1>2, CursorSteps DEF IsReady
  <2> QED
    BY <2>1, <2>5, <2>6 DEF Calm, Pending
<1>3. ASSUME pc[d] \notin {"text", "ack"}, pc'[d] \in {"text", "ack"}
      PROVE  ~active' /\ ~Pending' /\ cursor'[d] = begun'
  <2>1. Automation(d)
    BY <1>1, <1>3, OwnMoves, OnlyDelegates
  <2>2. IsReady(d)
    <3>1. SUFFICES ASSUME ~IsReady(d) PROVE FALSE
      OBVIOUS
    <3>2. \E p \in Places \ {"text", "ack"} : Goto(d, p)
      BY <1>1, <1>3, <2>1, <3>1
         DEF Automation, Ensure, Cursor, BeginTurn, SendText, Submit, Started, Completed, Return,
             Fail, Places
    <3> QED
      BY <1>1, <1>3, <3>2, Going
  <2>3. ~Pending
    BY <2>2, LeasedIsNext DEF IsReady, Leased
  <2>4. UNCHANGED tuiVars /\ ~active /\ cursor'[d] = begun
    BY <1>1, <2>2 DEF IsReady, InputTypeOK
  <2> QED
    BY <2>3, <2>4 DEF tuiVars, Pending
<1>4. ASSUME pc[d] = "start", pc'[d] = "start"
      PROVE  cursor'[d] < Len(commands') /\ commands'[cursor'[d] + 1].by = d
  <2>1. cursor[d] < Len(commands) /\ commands[cursor[d] + 1].by = d /\ cursor[d] \in Nat
    BY <1>1, <1>4 DEF Counts, InputTypeOK
  <2>2. cursor'[d] = cursor[d]
    BY <1>1, <1>4, CursorSteps DEF IsReady
  <2>3. /\ Len(commands) \in Nat /\ Len(commands') \in Nat /\ Len(commands') >= Len(commands)
        /\ \A i \in 1..Len(commands) : commands'[i] = commands[i]
    BY <1>1, CommandsKept
  <2>4. cursor[d] + 1 \in 1..Len(commands)
    BY <2>1, <2>3
  <2>5. commands'[cursor[d] + 1] = commands[cursor[d] + 1]
    BY <2>3, <2>4
  <2>6. cursor[d] < Len(commands')
    BY <2>1, <2>3
  <2> QED
    BY <2>1, <2>2, <2>5, <2>6
<1>5. ASSUME pc[d] # "start", pc'[d] = "start"
      PROVE  cursor'[d] < Len(commands') /\ commands'[cursor'[d] + 1].by = d
  <2>1. Automation(d)
    BY <1>1, <1>5, OwnMoves, OnlyDelegates
  <2>2. Submit(d)
    <3>1. SUFFICES ASSUME ~Submit(d) PROVE FALSE
      OBVIOUS
    <3>2. \E p \in Places \ {"start"} : Goto(d, p)
      BY <1>1, <2>1, <3>1
         DEF Automation, Ensure, Cursor, BeginTurn, IsReady, SendText, Started, Completed, Return,
             Fail, Places
    <3> QED
      BY <1>1, <1>5, <3>2, Going
  <2>3. /\ begun = Len(commands) /\ cursor[d] = begun
        /\ Len(commands') = Len(commands) + 1 /\ commands'[Len(commands) + 1].by = d
    BY <2>2, SubmitWaits
  <2>4. cursor'[d] = cursor[d]
    BY <1>1, <2>2, CursorSteps DEF IsReady, Submit
  <2>5. Len(commands) \in Nat
    BY <1>1, CommandsKept
  <2> QED
    BY <2>3, <2>4, <2>5
<1> QED
  BY <1>2, <1>3, <1>4, <1>5 DEF Counts
(* What a human has seen of turns is that of his own last command.         *)
LEMMA PollSees ==
  ASSUME InputInv, Patient, InputNext, NEW h \in Humans, Poll(h)
  PROVE  Sees(h)'
<1>1. /\ Basis /\ InputTypeOK /\ Sees(h) /\ pc[h] = "attached" /\ pc' = pc /\ humanTurnSeen[h] \in BOOLEAN
      /\ (Pending => ~active) /\ (Pending' <=> Pending) /\ active' = active
  BY DEF InputInv, Basis, QueueInv, Poll, clientVars, tuiVars, Pending, InputTypeOK
<1> DEFINE waiting == lease.owner = h /\ lease.reason = "human_command_submitted"
           release == waiting /\ ~active /\ humanTurnSeen[h]
<1>2. /\ humanTurnSeen'[h] <=>
           IF waiting THEN active \/ (humanTurnSeen[h] /\ ~release)
                      ELSE humanTurnSeen[h] /\ lease.owner = h
      /\ IF release THEN Drop ELSE UNCHANGED hostVars
  BY <1>1 DEF Poll, InputTypeOK
<1>3. CASE release
  <2>1. ~humanTurnSeen'[h]
    BY <1>2, <1>3
  <2>2. lease' = NoLease
    BY <1>2, <1>3 DEF Drop
  <2>3. lease'.owner # h
    BY <1>1, <2>2, NoLeaseType, ClientSets
  <2> QED
    BY <2>1, <2>3 DEF Sees
<1>4. CASE ~release
  <2>1. lease' = lease
    BY <1>2, <1>4 DEF hostVars
  <2>2. CASE waiting /\ active
    BY <1>1, <2>1, <2>2 DEF Sees
  <2>3. CASE ~(waiting /\ active)
    <3>1. ~humanTurnSeen'[h]
      <4>1. CASE waiting
        BY <1>2, <1>4, <2>3, <4>1
      <4>2. CASE ~waiting
        BY <1>1, <1>2, <4>2 DEF Sees
      <4> QED
        BY <4>1, <4>2
    <3> QED
      BY <1>1, <2>1, <3>1 DEF Sees
  <2> QED
    BY <2>2, <2>3
<1> QED
  BY <1>3, <1>4

(* The lease of a human who has pressed Enter, through the steps of others. *)
LEMMA OthersSees ==
  ASSUME InputInv, Patient, InputNext, NEW h \in Humans, ~Human(h)
  PROVE  Sees(h)'
<1>1. /\ Basis /\ InputTypeOK /\ Sees(h) /\ h \in Writers /\ h \notin Automations
      /\ pc'[h] = pc[h] /\ humanTurnSeen'[h] = humanTurnSeen[h]
  BY HumanPlace, ClientSets DEF InputInv, Basis, QueueInv
<1>2. ASSUME ~Pending, lease.owner = h
      PROVE  ~Pending' /\ (active' => active)
  <2>1. ~Free /\ \A a \in Automations : lease.owner # a
    BY <1>1, <1>2, ClientSets DEF Free
  <2>2. ASSUME NEW a \in Automations, Submit(a) PROVE FALSE
    BY <2>1, <2>2, OnlyDelegates, SubmitWaits DEF Automation
  <2>3. ASSUME NEW g \in Humans, Enter(g) PROVE FALSE
    <3>1. g # h
      BY <1>1, <2>3 DEF Human
    <3> QED
      BY <1>2, <2>1, <2>3, <3>1 DEF Enter, Key, Busy
  <2>4. ~TurnStarts
    BY <1>2 DEF TurnStarts, Pending
  <2>5. CASE Calm
    BY <1>2, <2>5 DEF Calm, Pending
  <2>6. CASE TurnEnds
    BY <1>2, <2>6 DEF TurnEnds, Pending
  <2> QED
    BY <1>1, <2>2, <2>3, <2>4, <2>5, <2>6, TurnSteps
<1>3. ASSUME humanTurnSeen'[h], pc'[h] = "attached"
      PROVE  /\ lease'.owner = h /\ lease'.reason = "human_command_submitted" /\ ~lease'.short
             /\ ~Pending'
  <2>1. /\ lease.owner = h /\ lease.reason = "human_command_submitted" /\ ~lease.short /\ ~Pending
    BY <1>1, <1>3 DEF Sees
  <2>2. lease' = lease
    BY <1>1, <1>3, <2>1, HumanKeepsLease
  <2> QED
    BY <1>2, <2>1, <2>2
<1>4. ASSUME lease'.owner = h, lease'.reason = "human_command_submitted", lease'.short
      PROVE  ~active' /\ ~Pending'
  <2>1. \A g \in Humans : Keyed(g) => g # h
    BY <1>1 DEF Keyed, Human
  <2>2. ASSUME NEW g \in Humans, Keyed(g)
        PROVE  lease'.owner = g
    BY <1>1, <2>2, TypeKey, EraseKey, EditKey, EnterKey DEF Keyed, Enter
  <2>3. \A g \in Humans : ~Keyed(g)
    BY <1>4, <2>1, <2>2
  <2>4. lease' = lease \/ lease' = [lease EXCEPT !.prompt = TRUE]
    BY <1>1, <1>4, <2>3, LeaseSteps, NoLeaseType, GrantedLease, ClientSets
  <2>5. lease.owner = h /\ lease.reason = "human_command_submitted" /\ lease.short
    <3>1. lease \in Leases
      BY <1>1 DEF InputTypeOK
    <3> QED
      BY <1>4, <2>4, <3>1 DEF Leases
  <2>6. ~active /\ ~Pending
    BY <1>1, <2>5 DEF Sees
  <2> QED
    BY <1>2, <2>5, <2>6
<1> QED
  BY <1>1, <1>3, <1>4 DEF Sees

LEMMA OwnSees ==
  ASSUME InputInv, Patient, InputNext, NEW h \in Humans, Human(h)
  PROVE  Sees(h)'
<1>1. /\ Basis /\ InputTypeOK /\ Sees(h) /\ h \in Writers /\ h \notin Automations
  BY ClientSets DEF InputInv, Basis, QueueInv
<1>2. CASE Poll(h)
  BY <1>2, PollSees
<1>3. CASE Enter(h)
  <2>1. /\ ~humanTurnSeen'[h]
        /\ lease'.short /\ lease'.reason = "human_command_submitted" => ~active' /\ ~Pending'
    BY <1>3, EnterWaits
  <2> QED
    BY <2>1 DEF Sees
<1>4. CASE Erase(h) \/ \E config \in BOOLEAN : Type(h, config)
  <2>1. /\ Key(h) /\ lease'.reason = "human_input" /\ humanTurnSeen' = humanTurnSeen
    BY <1>1, <1>4, TypeKey, EraseKey
  <2>2. ~humanTurnSeen[h]
    BY <1>1, <2>1, PatientSetting DEF Key, Prompt, Sees
  <2> QED
    BY <2>1, <2>2 DEF Sees
<1>5. CASE Attach(h)
  <2>1. ~humanTurnSeen[h] /\ humanTurnSeen' = humanTurnSeen /\ UNCHANGED tuiVars
    BY <1>1, <1>5 DEF Attach, Sees
  <2>2. lease' = lease \/ lease' = NewLease(h)
    BY <1>5 DEF Attach, hostVars, Grant
  <2>3. lease'.reason = "human_command_submitted" => lease' = lease
    BY <1>1, <2>2, GrantedLease
  <2> QED
    BY <1>1, <2>1, <2>3 DEF Sees, Pending, tuiVars
<1>6. CASE Detach(h)
  <2>1. pc'[h] = "done" /\ humanTurnSeen' = humanTurnSeen /\ UNCHANGED tuiVars
    <3>1. Goto(h, "done") /\ "done" \in Places
      BY <1>6 DEF Detach, Places
    <3> QED
      BY <1>1, <1>6, <3>1, Going DEF Detach, humanVars
  <2>2. lease'.owner # h
    BY <1>1, <1>6, NoLeaseType, ClientSets DEF Detach, Drop, hostVars
  <2> QED
    BY <2>1, <2>2 DEF Sees
<1>7. ~Edit(h)
  BY PatientSetting DEF Edit
<1> QED
  BY <1>2, <1>3, <1>4, <1>5, <1>6, <1>7 DEF Human

(* A delegate that takes a turn for its own is right.                      *)
LEMMA NextStarted ==
  ASSUME InputInv, Patient, InputNext
  PROVE  StartedOwnTurn'
<1>1. /\ Basis /\ InputTypeOK
      /\ Len(commands) \in Nat /\ Len(commands') \in Nat /\ begun \in Nat /\ begun' \in Nat
      /\ begun <= Len(commands) /\ Len(commands') >= Len(commands) /\ begun' >= begun
      /\ \A i \in 1..Len(commands) : commands'[i] = commands[i]
      /\ DOMAIN commands = 1..Len(commands) /\ DOMAIN commands' = 1..Len(commands')
  BY CommandsKept DEF InputInv, Basis
<1>2. SUFFICES ASSUME NEW d \in Delegates, pc'[d] = "wait" \/ outcome'[d] = "ok"
               PROVE  \E i \in DOMAIN commands' : commands'[i].by = d /\ i <= begun'
  BY DEF StartedOwnTurn
<1>3. d \in Automations /\ d \in Writers /\ d \notin Senders
  BY ClientSets
<1>4. CASE pc[d] = "wait" \/ outcome[d] = "ok"
  <2>1. \E i \in DOMAIN commands : commands[i].by = d /\ i <= begun
    BY <1>4 DEF InputInv, QueueInv, StartedOwnTurn, Patient
  <2>2. PICK i \in 1..Len(commands) : commands[i].by = d /\ i <= begun
    BY <1>1, <2>1
  <2>3. i \in 1..Len(commands') /\ commands'[i].by = d /\ i <= begun'
    BY <1>1, <2>2
  <2> QED
    BY <1>1, <2>3
<1>5. CASE ~(pc[d] = "wait" \/ outcome[d] = "ok")
  <2>1. Automation(d)
    <3>1. CASE pc'[d] # pc[d]
      BY <1>1, <1>3, <3>1, OwnMoves, OnlyDelegates, ClientSets
    <3>2. CASE pc'[d] = pc[d] /\ ~Automation(d)
      <4>1. outcome'[d] # outcome[d]
        BY <1>2, <1>5, <3>2
      <4>2. ASSUME NEW a \in Automations, Automation(a) PROVE FALSE
        <5>1. a # d
          BY <3>2, <4>2
        <5>2. outcome' = outcome \/ \E x : outcome' = [outcome EXCEPT ![a] = x]
          BY <4>2 DEF Automation, Ensure, Cursor, BeginTurn, IsReady, SendText, Submit, Started,
                      Completed, Return, Fail
        <5> QED
          BY <1>1, <1>3, <4>1, <5>1, <5>2 DEF InputTypeOK
      <4>3. ASSUME NEW h \in Humans, Human(h) PROVE FALSE
        BY <4>1, <4>3 DEF Human, Attach, Type, Erase, Edit, Enter, Key, Poll, Detach, clientVars
      <4>4. CASE Lapse \/ ConfigurationReleases \/ TurnStarts \/ TurnEnds \/ PromptReturns
        BY <1>1, <4>1, <4>4, HostLease DEF clientVars
      <4> QED
        BY <4>2, <4>3, <4>4, OnlyDelegates DEF InputNext
    <3> QED
      BY <3>1, <3>2
  <2>2. Started(d)
    <3>1. SUFFICES ASSUME ~Started(d) PROVE FALSE
      OBVIOUS
    <3>2. ~Completed(d)
      BY <1>5 DEF Completed
    <3>3. \E p \in Places \ {"wait"} : Goto(d, p)
      BY <1>3, <2>1, <3>1, <3>2
         DEF Automation, Ensure, Cursor, BeginTurn, IsReady, SendText, Submit, Return, Fail, Places
    <3>4. outcome' = outcome \/ outcome' = [outcome EXCEPT ![d] = "failed"]
      BY <1>3, <2>1, <3>1, <3>2
         DEF Automation, Ensure, Cursor, BeginTurn, IsReady, SendText, Submit, Return, Fail
    <3>5. pc'[d] # "wait"
      BY <1>1, <1>3, <3>3, Going
    <3> QED
      BY <1>1, <1>2, <1>3, <1>5, <3>4, <3>5 DEF InputTypeOK
  <2>3. begun > cursor[d] /\ pc[d] = "start" /\ cursor[d] \in Nat
    BY <1>1, <1>3, <2>2 DEF Started, TurnSeen, InputTypeOK
  <2>4. commands[cursor[d] + 1].by = d
    BY <2>3 DEF InputInv, QueueInv, Counts
  <2>5. cursor[d] + 1 \in 1..Len(commands) /\ cursor[d] + 1 <= begun'
    BY <1>1, <2>3
  <2>6. cursor[d] + 1 \in DOMAIN commands' /\ commands'[cursor[d] + 1].by = d
    BY <1>1, <2>4, <2>5
  <2> QED
    BY <2>5, <2>6
<1> QED
  BY <1>4, <1>5

LEMMA NextQueue ==
  ASSUME InputInv, [InputNext]_inputVars
  PROVE  QueueInv'
<1>1. Patient' = Patient
  BY SettingStays DEF Patient
<1>2. SUFFICES ASSUME Patient
               PROVE  /\ \A s \in Senders : pc'[s] = "idle"
                      /\ Pending' => /\ Len(commands') = begun' + 1 /\ ~active'
                                     /\ Waiting(commands[begun + 1].by)'
                      /\ \A d \in Delegates : Counts(d)'
                      /\ \A h \in Humans : Sees(h)'
                      /\ StartedOwnTurn'
  BY <1>1 DEF QueueInv
<1>3. CASE UNCHANGED inputVars
  <2>1. UNCHANGED <<pc, cursor, outcome, humanTurnSeen, lease, commands, begun, active>>
    BY <1>3 DEF inputVars, clientVars, humanVars, hostVars, tuiVars
  <2>2. StartedOwnTurn'
    BY <1>2, <1>3, <2>1, SettingStays DEF InputInv, QueueInv, StartedOwnTurn
  <2> QED
    BY <1>2, <2>1, <2>2 DEF InputInv, QueueInv, Pending, Waiting, Counts, Sees
<1>4. CASE InputNext
  <2>1. ASSUME NEW s \in Senders PROVE pc'[s] = "idle"
    <3>1. pc[s] = "idle"
      BY <1>2 DEF InputInv, QueueInv
    <3>2. pc'[s] = pc[s]
      BY <1>2, <1>4, OwnMoves, OnlyDelegates, ClientSets DEF InputInv
    <3> QED
      BY <3>1, <3>2
  <2> QED
    BY <1>2, <1>4, <2>1, NextPending, NextCounts, OthersSees, OwnSees, NextStarted
<1> QED
  BY <1>3, <1>4

-----------------------------------------------------------------------------
(* The theorems.                                                           *)

LEMMA InitInv == InputInit => InputInv
<1> SUFFICES ASSUME InputInit PROVE InputInv
  OBVIOUS
<1>1. Basis
  BY BasisInit
<1>2. /\ \A w \in Writers : pc[w] = "idle" /\ ~Writes(w)
      /\ line = <<>> /\ caret = 0 /\ commands = <<>> /\ begun = 0 /\ ~active
      /\ lease = NoLease /\ \A h \in Humans : ~humanTurnSeen[h]
  BY DEF InputInit, Writes
<1>3. /\ lease.owner = Nobody /\ ~lease.config /\ ~lease.short
  BY <1>1, <1>2, NoLeaseType DEF Basis
<1>4. WatchInv /\ ConfigInv /\ CompositionInv
  BY <1>2, <1>3, ClientSets DEF WatchInv, Leased, ConfigInv, CompositionInv, Composes
<1>5. AloneInv
  BY <1>2, ClientSets DEF AloneInv, Alone, HumansTakeAlong, SentAlone
<1>6. ~Pending
  BY <1>2 DEF Pending
<1>7. \A d \in Delegates : pc[d] = "idle" /\ outcome[d] = "none"
  BY ClientSets DEF InputInit
<1>8. QueueInv
  BY <1>2, <1>3, <1>6, <1>7, ClientSets DEF QueueInv, Counts, Sees, StartedOwnTurn
<1> QED
  BY <1>1, <1>4, <1>5, <1>8 DEF InputInv

LEMMA NextInv ==
  ASSUME InputInv, [InputNext]_inputVars
  PROVE  InputInv'
<1>1. Basis' /\ WatchInv' /\ ConfigInv' /\ CompositionInv' /\ AloneInv'
  BY NextBasis, NextWatch, NextConfig, NextComposition, NextAlone DEF InputInv
<1>2. QueueInv'
  BY NextQueue
<1> QED
  BY <1>1, <1>2 DEF InputInv

(* Every reachable state satisfies the inductive invariant.                *)
THEOREM InputInvariant == InputSpec => []InputInv
<1>1. InputInit => InputInv
  BY InitInv
<1>2. InputInv /\ [InputNext]_inputVars => InputInv'
  BY NextInv
<1> QED
  BY <1>1, <1>2, PTL DEF InputSpec

(* The variables keep their types.                                         *)
THEOREM InputTypeCorrect == InputSpec => []InputTypeOK
<1>1. InputInv => InputTypeOK
  BY DEF InputInv, Basis
<1> QED
  BY <1>1, InputInvariant, PTL

(* What an automation submits is its own text alone.                       *)
THEOREM SentTextIsOwn == InputSpec => []SentAlone
<1>1. InputInv => SentAlone
  BY DEF InputInv, AloneInv, SentAlone, Orderly
<1> QED
  BY <1>1, InputInvariant, PTL

(* A delegate that waits for a turn to end, or has reported one, has had   *)
(* its own.                                                                *)
THEOREM TurnIsOwn == InputSpec => []StartedOwnTurn
<1>1. InputInv => StartedOwnTurn
  BY DEF InputInv, QueueInv, StartedOwnTurn, Patient
<1> QED
  BY <1>1, InputInvariant, PTL

(* Keys of a human and text of an automation never meet in one line: no    *)
(* key reaches the terminal between a delegate's text and the end of its   *)
(* turn, and no automation writes into what an attached human has begun.   *)
THEOREM HandsAreOff == InputSpec => HandsOff
<1>1. InputInv /\ [InputNext]_inputVars =>
        [\A h \in Humans : keys'[h] # keys[h] => LongTurns \/
           \A d \in Delegates : pc[d] \notin {"ack", "start", "wait"}]_inputVars
  BY WatchStep DEF InputInv
<1>2. InputInv /\ [InputNext]_inputVars =>
        [(Configures /\ Hasty) \/ ~Shadowed \/ ~WritesIntoComposition]_inputVars
  BY CompositionStep DEF InputInv
<1> QED
  BY <1>1, <1>2, InputInvariant, PTL
     DEF HandsOff, HumanWatchesOnly, PlainCompositionProtected, InputSpec

==============================================================================
