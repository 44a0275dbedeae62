-------------------------- MODULE SecurityScanGate --------------------------
(***************************************************************************)
(* One run of dual_codex/orchestrator.py: architect, executor, reviewer    *)
(* and bounded corrections, with the host's gate on Codex Security scans   *)
(* (security_scan.py): which scan of the provider's ledger the run may     *)
(* rely on, when a completed scan has gone stale, and how many times the   *)
(* host lets the Executor scan again.                                      *)
(*                                                                         *)
(* The repository is a snapshot number; the ledger lists the scans of this *)
(* exact target.  Scans, edits and reports of agents and of other users of *)
(* the repository interleave with the host's steps.                        *)
(***************************************************************************)
EXTENDS Integers, Sequences

CONSTANT Settings  \* the settings a run may take place in

ASSUME GateAssumption ==
  Settings \subseteq
    [corrections : Nat,    \* config.max_correction_cycles
     scans : Nat,          \* bound: scans in the ledger
     edits : Nat,          \* bound: repository snapshots
     compliant : BOOLEAN,  \* does the Executor do what the host's policy asks?
     others : BOOLEAN,     \* do others edit, scan, cancel and delete meanwhile?
     faults : BOOLEAN,     \* may turns, ledger reads and evidence capture fail?
     reverting : BOOLEAN]  \* may an edit restore an earlier snapshot?

VARIABLES
  setting,      \* where this run takes place; it never changes
  required,     \* does the mission ask for a scan?
  snap,         \* snapshot of the repository
  ledger,       \* the provider's scans of this target, by age
  pc,           \* what the run does next
  gate,         \* the check whose scan-only turn is under way
  attempt,      \* scan-only turns of the current check
  authority,    \* run_state["security_scan_authority"]
  decision,     \* the ScanDecision the current Executor turn works under
  report,       \* what the last Executor turn reported
  base,         \* snapshot before the scan-only turn
  corrections,  \* correction cycles used
  verdict,      \* of the last review
  failure,      \* failure class the run ended with
  checked,      \* history: snapshot at the last gate that passed
  seen,         \* history: snapshot of the diff given to the Reviewer
  tainted       \* history: an agent edited during a scan-only turn

host == <<setting, required, attempt, gate, corrections, verdict>>
history == <<checked, seen, tainted>>
vars == <<snap, ledger, pc, authority, decision, report, base, failure, host, history>>

-----------------------------------------------------------------------------
MaxCorrections == setting.corrections
MaxScans == setting.scans
MaxEdits == setting.edits
Compliant == setting.compliant
Others == setting.others
Faults == setting.faults
Reverting == setting.reverting

Statuses == {"running", "complete", "failed", "canceled", "gone"}
Scans == [status : Statuses, digest : 0..MaxEdits, fit : BOOLEAN]

Unclaimed == "start_authorized_unclaimed"
AuthorityStates == {"none", Unclaimed, "existing_authority", "completed_fresh",
                    "completed_stale", "conflict", "failed", "lost"}

NoAuthority == [state |-> "none", owned |-> "none", generation |-> 0,
                baseline |-> {}, selected |-> 0, authorized |-> FALSE]
NoDecision == [action |-> "none", selected |-> 0, observed |-> {}, active |-> {}]
NoReport == [answered |-> FALSE, by |-> FALSE, id |-> 0, sound |-> FALSE]

(* The failure classes a run may end with.                                 *)
Failures == {"SECURITY_SCAN_AUTHORITY_FAILED", "SECURITY_SCAN_AUTHORITY_INVALID",
             "SECURITY_SCAN_AUTHORITY_LOST", "SECURITY_SCAN_CONFLICT",
             "SECURITY_SCAN_EVIDENCE_INVALID", "SECURITY_SCAN_INCOMPLETE",
             "SECURITY_SCAN_ONLY_MUTATION", "SECURITY_SCAN_ONLY_MUTATION_UNKNOWN",
             "SECURITY_SCAN_PROVIDER_UNAVAILABLE", "SECURITY_SCAN_RESCAN_LIMIT",
             "SECURITY_SCAN_UNOWNED_ACTIVITY", "DISPATCH_FAILED"}

Listed == {i \in DOMAIN ledger : ledger[i].status # "gone"}
Running == {i \in Listed : ledger[i].status = "running"}
AtMostOne(S) == \A i, j \in S : i = j

Edits == IF Reverting THEN (0..MaxEdits) \ {snap} ELSE {snap + 1} \cap (0..MaxEdits)

(* Mutant: the replacement of the first scan has no generation of its own. *)
MaxGenerationsTight == MaxCorrections + 1

(* _max_security_generations: an initial scan, its implementation          *)
(* replacement, and one per correction.                                    *)
MaxGenerations == MaxCorrections + 2

-----------------------------------------------------------------------------
(* What prepare makes of the ledger: an action or a failure class.         *)

Arbitrate ==
  IF Running = {} THEN "start"
  ELSE IF AtMostOne(Running) /\ \A i \in Running : ledger[i].fit THEN "awaited"
  ELSE "SECURITY_SCAN_CONFLICT"

(* Mutant: a completed scan is reused whatever the snapshot.               *)
ContinueNeverStale ==
  LET s == authority.selected
      new == Listed \ authority.baseline IN
  IF s = 0 THEN
    IF Running \cup new = {} THEN "start" ELSE "SECURITY_SCAN_UNOWNED_ACTIVITY"
  ELSE IF s \notin Listed THEN "SECURITY_SCAN_AUTHORITY_LOST"
  ELSE IF (new \cup Running) \ {s} # {} THEN "SECURITY_SCAN_CONFLICT"
  ELSE IF ledger[s].status \in {"failed", "canceled"} THEN "SECURITY_SCAN_AUTHORITY_FAILED"
  ELSE IF ledger[s].status = "running" THEN "awaited"
  ELSE "reused"

Continue ==
  LET s == authority.selected
      new == Listed \ authority.baseline IN
  IF s = 0 THEN
    IF Running \cup new = {} THEN "start" ELSE "SECURITY_SCAN_UNOWNED_ACTIVITY"
  ELSE IF s \notin Listed THEN "SECURITY_SCAN_AUTHORITY_LOST"
  ELSE IF (new \cup Running) \ {s} # {} THEN "SECURITY_SCAN_CONFLICT"
  ELSE IF ledger[s].status \in {"failed", "canceled"} THEN "SECURITY_SCAN_AUTHORITY_FAILED"
  ELSE IF ledger[s].status = "running" THEN "awaited"
  ELSE IF ledger[s].digest # snap THEN "SECURITY_SCAN_SNAPSHOT_STALE"
  ELSE "reused"

(* Mutant: generations are not counted against their limit.                *)
RulingUnlimited(authorize) ==
  IF authority = NoAuthority THEN Arbitrate
  ELSE IF Continue = "SECURITY_SCAN_SNAPSHOT_STALE" THEN
    IF Arbitrate = "start" THEN "replace" ELSE "SECURITY_SCAN_CONFLICT"
  ELSE Continue

Ruling(authorize) ==
  IF authority = NoAuthority THEN Arbitrate
  ELSE IF Continue = "SECURITY_SCAN_SNAPSHOT_STALE" THEN
    IF authority.generation >= MaxGenerations THEN "SECURITY_SCAN_RESCAN_LIMIT"
    ELSE IF Arbitrate = "start" THEN "replace" ELSE "SECURITY_SCAN_CONFLICT"
  ELSE IF Continue = "start" /\ authorize /\ authority.authorized
    THEN "SECURITY_SCAN_AUTHORITY_INVALID"
  ELSE Continue

Passing == {"start", "awaited", "reused", "replace"}

(* Mutant: a replacement scan runs under the old generation's number.      *)
PreparedSameGeneration(authorize) ==
  LET r == Ruling(authorize)
      start == r \in {"start", "replace"}
      a == IF authority = NoAuthority \/ r = "replace" THEN
             [state |-> IF start THEN Unclaimed ELSE "existing_authority",
              owned |-> IF start THEN "unclaimed" ELSE "existing_authority",
              generation |-> 1,
              baseline |-> Listed,
              selected |-> IF start THEN 0 ELSE CHOOSE i \in Running : TRUE,
              authorized |-> FALSE]
           ELSE IF r = "start" THEN authority
           ELSE [authority EXCEPT !.state =
                   IF r = "reused" THEN "completed_fresh" ELSE authority.owned]
  IN [a EXCEPT !.authorized = @ \/ (authorize /\ a.state = Unclaimed)]

(* The authority after a passing ruling.                                   *)
Prepared(authorize) ==
  LET r == Ruling(authorize)
      start == r \in {"start", "replace"}
      a == IF authority = NoAuthority \/ r = "replace" THEN
             [state |-> IF start THEN Unclaimed ELSE "existing_authority",
              owned |-> IF start THEN "unclaimed" ELSE "existing_authority",
              generation |-> authority.generation + 1,
              baseline |-> Listed,
              selected |-> IF start THEN 0 ELSE CHOOSE i \in Running : TRUE,
              authorized |-> FALSE]
           ELSE IF r = "start" THEN authority
           ELSE [authority EXCEPT !.state =
                   IF r = "reused" THEN "completed_fresh" ELSE authority.owned]
  IN [a EXCEPT !.authorized = @ \/ (authorize /\ a.state = Unclaimed)]

Decided(authorize) ==
  LET r == Ruling(authorize) IN
  [action |-> IF r = "replace" THEN "start" ELSE r,
   selected |-> Prepared(authorize).selected,
   observed |-> Listed, active |-> Running]

(* The authority state a failure leaves behind.                            *)
FailedAuthority(class) ==
  IF authority = NoAuthority THEN authority
  ELSE [authority EXCEPT !.state =
    IF class \in {"SECURITY_SCAN_CONFLICT", "SECURITY_SCAN_UNOWNED_ACTIVITY"} THEN "conflict"
    ELSE IF class = "SECURITY_SCAN_AUTHORITY_LOST" THEN "lost"
    ELSE IF class = "SECURITY_SCAN_RESCAN_LIMIT" THEN "completed_stale"
    ELSE "failed"]

Fail(class) ==
  /\ authority' = FailedAuthority(class)
  /\ failure' = class
  /\ pc' = "done"
  /\ UNCHANGED <<snap, ledger, decision, report, base, host, history>>

(* _prepare_security_scan reads the ledger once: the run ends, or goes on  *)
(* under the updated authority to the step next names for its decision.    *)
Prepare(authorize, next) ==
  LET r == Ruling(authorize) IN
  IF required /\ r \notin Passing THEN Fail(r)
  ELSE
    /\ authority' = IF required THEN Prepared(authorize) ELSE authority
    /\ decision' = IF required THEN Decided(authorize) ELSE decision
    /\ pc' = next[IF required THEN decision'.action ELSE "reused"]
    /\ failure' = IF pc' = "done" THEN "SECURITY_SCAN_RESCAN_LIMIT" ELSE failure
    /\ checked' = snap
    /\ UNCHANGED <<snap, ledger, report, base, host, seen, tainted>>

To(label) == [a \in {"start", "awaited", "reused"} |-> label]

-----------------------------------------------------------------------------
(* A mission finds an idle repository and at most one earlier scan.        *)
Init ==
  /\ setting \in Settings
  /\ required \in BOOLEAN
  /\ snap = 0
  /\ ledger \in {<<>>} \cup {<<[status |-> s, digest |-> 0, fit |-> f]>> :
                  s \in {"running", "complete", "failed"}, f \in BOOLEAN}
  /\ pc = "before_architect"
  /\ gate = "none"
  /\ attempt = 0
  /\ authority = NoAuthority
  /\ decision = NoDecision
  /\ report = NoReport
  /\ base = 0
  /\ corrections = 0
  /\ verdict = "none"
  /\ failure = "none"
  /\ checked = 0
  /\ seen = 0
  /\ tainted = FALSE

BeforeArchitect == pc = "before_architect" /\ Prepare(FALSE, To("architect"))

(* The Architect is read-only; its turn ends with a plan.                  *)
ArchitectEnds ==
  /\ pc = "architect"
  /\ pc' = "before_executor"
  /\ UNCHANGED <<snap, ledger, authority, decision, report, base, failure, host, history>>

(* before_executor and before_correction_n.                                *)
BeforeExecutor == pc = "before_executor" /\ Prepare(TRUE, To("executor"))

-----------------------------------------------------------------------------
(* An Executor turn: implementation, correction or scan-only.              *)

ExecutorTurn == pc \in {"executor", "scan_only"}

AgentEdits ==
  /\ ExecutorTurn
  /\ Compliant => pc = "executor"
  /\ snap' \in Edits
  /\ tainted' = (tainted \/ pc = "scan_only")
  /\ UNCHANGED <<ledger, pc, authority, decision, report, base, failure, host, checked, seen>>

NewScan(fit) == Append(ledger, [status |-> "running", digest |-> snap, fit |-> fit])

AgentStartsScan ==
  /\ ExecutorTurn
  /\ Len(ledger) < MaxScans
  /\ Compliant => decision.action = "start" /\ Listed \subseteq decision.observed
  /\ \E fit \in BOOLEAN : (Compliant => fit) /\ ledger' = NewScan(fit)
  /\ UNCHANGED <<snap, pc, authority, decision, report, base, failure, host, history>>

(* What a compliant Executor reports when its turn is over.                *)
Truthful(r) ==
  /\ r.by /\ r.sound
  /\ CASE ~required -> r.id = 0
       [] required /\ decision.action = "start" -> r.id \in Listed \ decision.observed
       [] OTHER -> r.id = decision.selected
  /\ r.id # 0 => ledger[r.id].status = "complete"

(* The turn returns a report: by the configured Executor or a substitute,  *)
(* naming a scan or none, its other fields agreeing with the decision and  *)
(* the ledger or not.                                                      *)
ExecutorEnds ==
  /\ ExecutorTurn
  /\ \E by, sound \in BOOLEAN, id \in {0} \cup DOMAIN ledger :
       report' = [answered |-> TRUE, by |-> by, id |-> id, sound |-> sound]
  /\ Compliant => Truthful(report')
  /\ pc' = IF pc = "executor" THEN "record" ELSE "attribute"
  /\ UNCHANGED <<snap, ledger, authority, decision, base, failure, host, history>>

(* A scan-only turn that fails is attributed before its error is raised.   *)
ScanOnlyTurnFails ==
  /\ Faults
  /\ pc = "scan_only"
  /\ report' = NoReport
  /\ pc' = "attribute"
  /\ UNCHANGED <<snap, ledger, authority, decision, base, failure, host, history>>

-----------------------------------------------------------------------------
(* _record_security_scan_result and validate_scan_provenance.              *)

Backed(r) ==
  /\ r.sound
  /\ r.id \in Listed
  /\ ledger[r.id].fit
  /\ IF decision.action = "start" THEN r.id \notin decision.observed ELSE r.id = decision.selected

(* Newly listed scans that no single report can account for, or observed   *)
(* active scans that vanished, were canceled or gained a rival.            *)
Disputed(r) ==
  LET new == Listed \ decision.observed
      fresh == Listed \ authority.baseline IN
  \/ authority.state = Unclaimed /\ fresh # {} /\ (r.id = 0 \/ ~AtMostOne(fresh))
  \/ /\ r.id # 0
     /\ \/ ~(decision.active \subseteq Listed)
        \/ ~AtMostOne(Running)
        \/ \E i \in decision.active : ledger[i].status = "canceled"
        \/ IF decision.action = "start" THEN ~AtMostOne(new) ELSE new # {}

(* The failure class of a report, "none" when it is accepted.              *)
Flaw(r) ==
  IF ~required THEN IF r.id = 0 THEN "none" ELSE "SECURITY_SCAN_EVIDENCE_INVALID"
  ELSE IF ~r.by THEN "SECURITY_SCAN_EVIDENCE_INVALID"
  ELSE IF authority.state = Unclaimed /\ ~authority.authorized THEN "SECURITY_SCAN_AUTHORITY_INVALID"
  ELSE IF Disputed(r) THEN "SECURITY_SCAN_CONFLICT"
  ELSE IF ~Backed(r) THEN "SECURITY_SCAN_EVIDENCE_INVALID"
  ELSE IF ledger[r.id].status # "complete" THEN "SECURITY_SCAN_INCOMPLETE"
  ELSE IF authority.selected \notin {0, r.id} THEN "SECURITY_SCAN_AUTHORITY_INVALID"
  ELSE "none"

(* The authority after an accepted report.                                 *)
Recorded(r) ==
  [authority EXCEPT
     !.owned = IF authority.state = Unclaimed THEN "run_owned" ELSE @,
     !.selected = r.id,
     !.state = IF ledger[r.id].digest = snap THEN "completed_fresh" ELSE "completed_stale"]

RecordResult ==
  /\ pc = "record"
  /\ IF Flaw(report) # "none" THEN Fail(Flaw(report))
     ELSE
       /\ authority' = IF required THEN Recorded(report) ELSE authority
       /\ gate' = IF gate = "none" THEN "before_reviewer" ELSE gate
       /\ attempt' = IF gate = "none" THEN 0 ELSE attempt + 1
       /\ pc' = "ensure"
       /\ report' = NoReport
       /\ base' = 0
       /\ UNCHANGED <<snap, ledger, decision, failure, setting, required, corrections, verdict, history>>

-----------------------------------------------------------------------------
(* _ensure_security_gate_fresh, before and after the Reviewer.             *)

EnsureFresh ==
  /\ pc = "ensure"
  /\ LET rescan == IF attempt < MaxGenerations THEN "scan_baseline" ELSE "done" IN
     Prepare(attempt < MaxGenerations,
             [start |-> rescan, awaited |-> rescan,
              reused |-> IF gate = "before_reviewer" THEN "capture" ELSE "decide"])

CaptureBaseline ==
  /\ pc = "scan_baseline"
  /\ base' = snap
  /\ pc' = "scan_only"
  /\ UNCHANGED <<snap, ledger, authority, decision, report, failure, host, history>>

AttributeMutations ==
  /\ pc = "attribute"
  /\ IF snap # base THEN Fail("SECURITY_SCAN_ONLY_MUTATION")
     ELSE IF ~report.answered THEN
       /\ failure' = "DISPATCH_FAILED"
       /\ pc' = "done"
       /\ UNCHANGED <<snap, ledger, authority, decision, report, base, host, history>>
     ELSE
       /\ pc' = "record"
       /\ UNCHANGED <<snap, ledger, authority, decision, report, base, failure, host, history>>

(* status_and_diff, outside any gate.                                      *)
CaptureDiff ==
  /\ pc = "capture"
  /\ seen' = snap
  /\ pc' = "reviewer"
  /\ UNCHANGED <<snap, ledger, authority, decision, report, base, failure, host, checked, tainted>>

ReviewerEnds ==
  /\ pc = "reviewer"
  /\ verdict' \in {"approved", "changes_requested"}
  /\ gate' = "after_reviewer"
  /\ attempt' = 0
  /\ pc' = "ensure"
  /\ UNCHANGED <<snap, ledger, authority, decision, report, base, failure, setting, required, corrections, history>>

(* Mutant: a verdict counts although the gate had to scan again.           *)
DecideAnyway ==
  /\ pc = "decide"
  /\ IF verdict = "approved" \/ corrections >= MaxCorrections THEN
       /\ pc' = "done"
       /\ UNCHANGED <<gate, attempt, corrections>>
     ELSE
       /\ pc' = "before_executor"
       /\ gate' = "none"
       /\ corrections' = corrections + 1
       /\ UNCHANGED attempt
  /\ UNCHANGED <<snap, ledger, authority, decision, report, base, failure, setting, required, verdict, history>>

(* Review again after a rescan; otherwise stop or correct.                 *)
Decide ==
  /\ pc = "decide"
  /\ IF attempt > 0 THEN
       /\ pc' = "ensure"
       /\ gate' = "before_reviewer"
       /\ attempt' = 0
       /\ UNCHANGED corrections
     ELSE IF verdict = "approved" \/ corrections >= MaxCorrections THEN
       /\ pc' = "done"
       /\ UNCHANGED <<gate, attempt, corrections>>
     ELSE
       /\ pc' = "before_executor"
       /\ gate' = "none"
       /\ corrections' = corrections + 1
       /\ UNCHANGED attempt
  /\ UNCHANGED <<snap, ledger, authority, decision, report, base, failure, setting, required, verdict, history>>

-----------------------------------------------------------------------------
(* Faults: evidence of a scan-only turn that cannot be captured, read or   *)
(* persisted; a ledger that cannot be read; a failed or interrupted turn.  *)
EvidenceFails ==
  /\ Faults
  /\ pc \in {"scan_baseline", "attribute"}
  /\ Fail("SECURITY_SCAN_ONLY_MUTATION_UNKNOWN")

LedgerUnavailable ==
  /\ Faults
  /\ required
  /\ pc \in {"before_architect", "before_executor", "ensure", "record"}
  /\ Fail("SECURITY_SCAN_PROVIDER_UNAVAILABLE")

TurnFails ==
  /\ Faults
  /\ pc \in {"architect", "executor", "reviewer"}
  /\ failure' = "DISPATCH_FAILED"
  /\ pc' = "done"
  /\ UNCHANGED <<snap, ledger, authority, decision, report, base, host, history>>

(* Other users of the repository and of the scan provider.                 *)
OthersEdit ==
  /\ Others /\ pc # "done"
  /\ snap' \in Edits
  /\ UNCHANGED <<ledger, pc, authority, decision, report, base, failure, host, history>>

OthersStartScan ==
  /\ Others /\ pc # "done"
  /\ Len(ledger) < MaxScans
  /\ \E fit \in BOOLEAN : ledger' = NewScan(fit)
  /\ UNCHANGED <<snap, pc, authority, decision, report, base, failure, host, history>>

ScanEnds ==
  /\ pc # "done"
  /\ \E i \in Running, s \in {"complete", "failed", "canceled"} :
       /\ Others \/ s = "complete"
       /\ ledger' = [ledger EXCEPT ![i].status = s]
  /\ UNCHANGED <<snap, pc, authority, decision, report, base, failure, host, history>>

ScanDisappears ==
  /\ Others /\ pc # "done"
  /\ \E i \in Listed : ledger' = [ledger EXCEPT ![i].status = "gone"]
  /\ UNCHANGED <<snap, pc, authority, decision, report, base, failure, host, history>>

Host ==
  \/ BeforeArchitect \/ BeforeExecutor \/ RecordResult \/ EnsureFresh
  \/ CaptureBaseline \/ AttributeMutations \/ CaptureDiff \/ Decide
  \/ EvidenceFails \/ LedgerUnavailable

Turns == ArchitectEnds \/ ExecutorEnds \/ ScanOnlyTurnFails \/ ReviewerEnds \/ TurnFails

Environment ==
  \/ AgentEdits \/ AgentStartsScan
  \/ OthersEdit \/ OthersStartScan \/ ScanEnds \/ ScanDisappears

(* The run is over.                                                        *)
Over == pc = "done" /\ UNCHANGED vars

Next == Host \/ Turns \/ Environment \/ Over

(* The host's thread is scheduled and every agent turn ends: providers run *)
(* under timeouts.  Nobody need scan or edit.                              *)
Fairness == WF_vars(Host) /\ WF_vars(Turns)

Spec == Init /\ [][Next]_vars

FairSpec == Spec /\ Fairness

-----------------------------------------------------------------------------
Authorities == [state : AuthorityStates,
                owned : {"none", "unclaimed", "existing_authority", "run_owned"},
                generation : 0..MaxGenerations, baseline : SUBSET Nat,
                selected : Nat, authorized : BOOLEAN]
Decisions == [action : {"none", "start", "awaited", "reused"}, selected : Nat,
              observed : SUBSET Nat, active : SUBSET Nat]
Reports == [answered : BOOLEAN, by : BOOLEAN, id : Nat, sound : BOOLEAN]

(* Types of the variables.                                                 *)
TypeOK ==
  /\ setting \in Settings
  /\ required \in BOOLEAN
  /\ snap \in 0..MaxEdits
  /\ ledger \in Seq(Scans)
  /\ pc \in {"before_architect", "architect", "before_executor", "executor",
             "record", "ensure", "scan_baseline", "scan_only", "attribute",
             "capture", "reviewer", "decide", "done"}
  /\ gate \in {"none", "before_reviewer", "after_reviewer"}
  /\ attempt \in 0..MaxGenerations
  /\ authority \in Authorities /\ decision \in Decisions /\ report \in Reports
  /\ base \in 0..MaxEdits
  /\ corrections \in 0..MaxCorrections
  /\ verdict \in {"none", "approved", "changes_requested"}
  /\ failure \in Failures \cup {"none"}
  /\ checked \in 0..MaxEdits
  /\ seen \in 0..MaxEdits
  /\ tainted \in BOOLEAN

Completed == pc = "done" /\ failure = "none"

(* A run completes only under a completed scan of the very snapshot the    *)
(* last gate looked at, which the run's authority pins.                    *)
CompletedRunIsCovered ==
  Completed /\ required =>
    /\ authority.state = "completed_fresh"
    /\ authority.selected # 0
    /\ ledger[authority.selected].digest = checked

(* What was reviewed is what was scanned: the diff is captured between two *)
(* gates, and an edit at any point in between is noticed by the second.    *)
(* (An edit that is undone again before the second gate is not.)           *)
ReviewedIsScanned ==
  Completed /\ required /\ ~Reverting => seen = ledger[authority.selected].digest

(* Edits an Executor sneaks into a scan-only turn never reach a verdict.   *)
ScanOnlyEditsRejected == Completed /\ ~Reverting => ~tainted

(* A generation that the host starts is served by a scan that began after  *)
(* it was authorised, so no scan serves two generations and a scan others  *)
(* ran earlier is never passed off as the run's own.                       *)
OwnScanIsNew ==
  authority.owned = "run_owned" =>
    /\ authority.selected \notin authority.baseline
    /\ authority.selected \in DOMAIN ledger

(* Each generation is handed to one Executor turn: a turn that may start a *)
(* scan is authorised, and the turn before it belonged to an earlier       *)
(* generation, however reviews, rescans and corrections alternate.         *)
OneTurnPerGeneration ==
  [][required /\ pc \in {"before_executor", "ensure"}
     /\ pc' \in {"executor", "scan_baseline"} /\ decision'.action = "start"
       => authority'.authorized
          /\ (authority.authorized => authority.generation < authority'.generation)
    ]_vars

(* The generation limit never stops a mission by itself: with an Executor  *)
(* that follows its policy and nobody else at work, every run completes.   *)
(* It ends early only when it found a scan it may not touch.               *)
QuietRunCompletes ==
  pc = "done" /\ failure # "none" /\ Compliant /\ ~Others /\ ~Faults =>
    failure = "SECURITY_SCAN_CONFLICT" /\ \E i \in Running : ~ledger[i].fit

(* Every run ends: neither rescans nor corrections go on for ever, however *)
(* the repository changes under it.  (An Executor that keeps to its policy  *)
(* may wait for its scan; the timeout of its turn is one of the faults.)   *)
RunEnds == ~Compliant ~> pc = "done"

(* A verdict rests on the snapshot that was scanned, by a scan of this run *)
(* or one it had observed, and on no edit of a turn that may only scan.    *)
VerdictEarned == ReviewedIsScanned /\ OwnScanIsNew /\ ScanOnlyEditsRejected

(* Generations are numbered one turn at a time and run out.                *)
GenerationsCount == OneTurnPerGeneration /\ RunEnds

=============================================================================
