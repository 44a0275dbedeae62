----------------------- MODULE SecurityScanGateProofs -----------------------
(***************************************************************************)
(* Machine-checked proofs about a run under the host's scan gate, for any  *)
(* number of correction cycles, scans and edits, whatever the agents,      *)
(* others and faults do.                                                   *)
(***************************************************************************)
EXTENDS SecurityScanGate, TLAPS

-----------------------------------------------------------------------------
(* The inductive invariant.                                                *)

ScanOnly == {"scan_baseline", "scan_only", "attribute"}
Working == {"executor", "record"} \cup ScanOnly
Gated == {"capture", "reviewer", "decide"}

(* Which gate the run is at.                                               *)
FlowInv ==
  /\ failure # "none" => pc = "done"
  /\ pc \in {"before_architect", "architect", "before_executor", "executor"} => gate = "none"
  /\ pc \in ScanOnly \cup Gated \cup {"ensure"} => gate # "none"
  /\ pc \in ScanOnly \/ (pc = "record" /\ gate # "none") => attempt < MaxGenerations
  /\ pc = "before_architect" => authority = NoAuthority

(* An authority pins no scan while it is unclaimed and one that is listed, *)
(* or was, from then on; the scan of a run that owns it is over and began  *)
(* after the authority did.                                                *)
AuthorityInv ==
  /\ ~required => authority = NoAuthority
  /\ authority.state = "none" \/ authority.owned = "none" => authority = NoAuthority
  /\ authority.baseline \subseteq DOMAIN ledger
  /\ authority.selected # 0 => authority.selected \in DOMAIN ledger
  /\ authority.selected = 0 <=> authority.owned \in {"none", "unclaimed"}
  /\ pc # "done" => (authority.state = Unclaimed <=> authority.owned = "unclaimed")
  /\ authority.owned = "run_owned" =>
       /\ authority.selected \notin authority.baseline
       /\ ledger[authority.selected].status \in {"complete", "gone"}

(* An Executor whose authority is unclaimed was told to scan, and every    *)
(* scan listed before was observed.                                        *)
DecisionInv ==
  pc \in Working /\ required =>
    /\ authority # NoAuthority
    /\ authority.state = Unclaimed =>
         /\ decision.action = "start"
         /\ \A i \in authority.baseline : i \in decision.observed \/ ledger[i].status = "gone"

(* Between the gates the pinned scan covers the snapshot that was checked. *)
CoverInv ==
  (pc \in Gated \/ Completed) /\ required =>
    /\ authority.state = "completed_fresh" /\ authority.selected # 0
    /\ ledger[authority.selected].digest = checked

(* Where snapshots do not come back: the diff was taken no earlier than    *)
(* the pinned scan and no later than the second gate; an edit of a turn    *)
(* that may only scan is still to be noticed.                              *)
OrderInv ==
  ~Reverting =>
    /\ checked <= snap /\ seen <= snap /\ base <= snap
    /\ required /\ (pc = "reviewer" \/ (pc = "ensure" /\ gate = "after_reviewer" /\ attempt = 0)) =>
         authority.selected # 0 /\ ledger[authority.selected].digest <= seen
    /\ required /\ ((pc = "decide" /\ attempt = 0) \/ Completed) =>
         ledger[authority.selected].digest = seen
    /\ tainted => (pc \in {"scan_only", "attribute"} /\ base < snap) \/ failure # "none"

IInv == TypeOK /\ FlowInv /\ AuthorityInv /\ DecisionInv /\ CoverInv /\ OrderInv

-----------------------------------------------------------------------------
(* The setting and the ledger.                                             *)

LEMMA SettingType ==
  ASSUME setting \in Settings
  PROVE  /\ MaxCorrections \in Nat /\ MaxEdits \in Nat
         /\ MaxGenerations = MaxCorrections + 2 /\ MaxGenerations \in Nat
         /\ Compliant \in BOOLEAN /\ Others \in BOOLEAN /\ Faults \in BOOLEAN
         /\ Reverting \in BOOLEAN
BY GateAssumption
   DEF MaxCorrections, MaxEdits, MaxGenerations, Compliant, Others, Faults, Reverting

LEMMA LedgerFacts ==
  ASSUME ledger \in Seq(Scans)
  PROVE  /\ DOMAIN ledger \subseteq Nat \ {0}
         /\ Running \subseteq Listed /\ Listed \subseteq DOMAIN ledger
         /\ \A i \in DOMAIN ledger : ledger[i] \in Scans
<1>1. DOMAIN ledger = 1..Len(ledger) /\ Len(ledger) \in Nat
  OBVIOUS
<1>. QED
  BY <1>1 DEF Listed, Running

(* The ledger only grows; a scan keeps its snapshot, and one that is over, *)
(* or gone, does not run again.                                            *)
Later ==
  /\ ledger' \in Seq(Scans)
  /\ \A i \in DOMAIN ledger :
       /\ i \in DOMAIN ledger' /\ ledger'[i].digest = ledger[i].digest
       /\ ledger[i].status = "gone" => ledger'[i].status = "gone"
       /\ ledger[i].status \in {"complete", "gone"} => ledger'[i].status \in {"complete", "gone"}

LEMMA SameLedger ==
  ASSUME ledger \in Seq(Scans), ledger' = ledger
  PROVE  Later
BY DEF Later

LEMMA NewScanStep ==
  ASSUME TypeOK, NEW fit \in BOOLEAN, ledger' = NewScan(fit)
  PROVE  Later
<1>. DEFINE scan == [status |-> "running", digest |-> snap, fit |-> fit]
<1>1. scan \in Scans
  BY DEF TypeOK, Scans, Statuses
<1>2. ledger' = Append(ledger, scan) /\ ledger \in Seq(Scans)
  BY DEF NewScan, TypeOK
<1>. HIDE DEF scan
<1>3. ledger' \in Seq(Scans) /\ \A i \in DOMAIN ledger : i \in DOMAIN ledger' /\ ledger'[i] = ledger[i]
  BY <1>1, <1>2
<1>. QED
  BY <1>3 DEF Later

LEMMA StatusStep ==
  ASSUME TypeOK, NEW i \in DOMAIN ledger, NEW s \in Statuses,
         ledger[i].status # "gone", ledger[i].status = "complete" => s = "gone",
         ledger' = [ledger EXCEPT ![i].status = s]
  PROVE  Later
<1>1. ledger \in Seq(Scans) /\ ledger[i] \in Scans
  BY LedgerFacts DEF TypeOK
<1>. DEFINE scan == [ledger[i] EXCEPT !.status = s]
<1>2. scan \in Scans /\ scan.digest = ledger[i].digest /\ scan.status = s
  BY <1>1 DEF Scans
<1>3. ledger' = [ledger EXCEPT ![i] = scan]
  OBVIOUS
<1>. HIDE DEF scan
<1>4. /\ ledger' \in Seq(Scans) /\ DOMAIN ledger' = DOMAIN ledger
      /\ \A j \in DOMAIN ledger : ledger'[j] = IF j = i THEN scan ELSE ledger[j]
  BY <1>1, <1>2, <1>3
<1>. QED
  BY <1>2, <1>4 DEF Later

(* Scans start, end and disappear.                                         *)
ScanSteps == AgentStartsScan \/ OthersStartScan \/ ScanEnds \/ ScanDisappears

LEMMA ScanStep ==
  ASSUME TypeOK, ScanSteps
  PROVE  /\ Later
         /\ UNCHANGED <<snap, pc, authority, decision, report, base, failure, host, history>>
<1>1. UNCHANGED <<snap, pc, authority, decision, report, base, failure, host, history>>
  BY DEF ScanSteps, AgentStartsScan, OthersStartScan, ScanEnds, ScanDisappears
<1>2. CASE AgentStartsScan \/ OthersStartScan
  BY <1>2, NewScanStep DEF AgentStartsScan, OthersStartScan
<1>3. CASE ScanEnds
  <2>1. PICK i \in Running, s \in {"complete", "failed", "canceled"} :
          ledger' = [ledger EXCEPT ![i].status = s]
    BY <1>3 DEF ScanEnds
  <2>2. i \in DOMAIN ledger /\ s \in Statuses /\ ledger[i].status = "running"
    BY <2>1 DEF Running, Listed, Statuses
  <2>3. ledger[i].status # "gone" /\ (ledger[i].status = "complete" => s = "gone")
    BY <2>2
  <2>4. Later
    BY <2>1, <2>2, <2>3, StatusStep
  <2>. QED
    BY <1>1, <2>4
<1>4. CASE ScanDisappears
  <2>1. PICK i \in Listed : ledger' = [ledger EXCEPT ![i].status = "gone"]
    BY <1>4 DEF ScanDisappears
  <2>2. i \in DOMAIN ledger /\ "gone" \in Statuses /\ ledger[i].status # "gone"
    BY <2>1 DEF Listed, Statuses
  <2>3. DEFINE s == "gone"
  <2>4. s \in Statuses /\ (ledger[i].status = "complete" => s = "gone")
        /\ ledger' = [ledger EXCEPT ![i].status = s]
    BY <2>1, <2>2
  <2>. HIDE DEF s
  <2>5. Later
    BY <2>2, <2>4, StatusStep
  <2>. QED
    BY <1>1, <2>5
<1>. QED
  BY <1>1, <1>2, <1>3, <1>4 DEF ScanSteps

-----------------------------------------------------------------------------
(* What prepare makes of the ledger.                                       *)

LEMMA RulingType ==
  ASSUME NEW authorize \in BOOLEAN
  PROVE  Ruling(authorize) \in Passing \cup Failures
BY DEF Ruling, Arbitrate, Continue, Passing, Failures

(* The authority is opened anew, observes a scan that runs, or is kept.    *)
Opened(authorize) ==
  [state |-> Unclaimed, owned |-> "unclaimed", generation |-> authority.generation + 1,
   baseline |-> Listed, selected |-> 0, authorized |-> authorize]
Observing(i) ==
  [state |-> "existing_authority", owned |-> "existing_authority",
   generation |-> authority.generation + 1, baseline |-> Listed, selected |-> i, authorized |-> FALSE]

LEMMA PreparedCases ==
  ASSUME TypeOK, AuthorityInv, pc # "done", required,
         NEW authorize \in BOOLEAN, Ruling(authorize) \in Passing
  PROVE  LET r == Ruling(authorize)  a == Prepared(authorize) IN
         \/ /\ r \in {"start", "replace"} /\ a = Opened(authorize)
            /\ authority.generation < MaxGenerations
            /\ r = "start" => authority = NoAuthority
            /\ r = "replace" => authority # NoAuthority /\ authority.selected # 0
         \/ /\ r = "awaited" /\ authority = NoAuthority
            /\ \E i \in Running : a = Observing(i)
         \/ /\ r = "start" /\ authority # NoAuthority
            /\ authority.state = Unclaimed /\ authority.selected = 0
            /\ Listed \subseteq authority.baseline
            /\ authorize => ~authority.authorized
            /\ a = [authority EXCEPT !.authorized = @ \/ authorize]
         \/ /\ r = "reused" /\ authority.selected # 0
            /\ authority.selected \in Listed /\ ledger[authority.selected].digest = snap
            /\ a = [authority EXCEPT !.state = "completed_fresh"]
         \/ /\ r = "awaited" /\ authority.selected \in Running
            /\ authority.owned = "existing_authority"
            /\ a = [authority EXCEPT !.state = "existing_authority"]
<1>. DEFINE r == Ruling(authorize)
            a == Prepared(authorize)
<1>0. authority \in Authorities /\ MaxGenerations \in Nat /\ MaxGenerations > 0
  BY SettingType DEF TypeOK
<1>1. CASE authority = NoAuthority
  <2>1. r = Arbitrate /\ r \in {"start", "awaited"}
    BY <1>1 DEF Ruling, Arbitrate, Passing
  <2>2. authority.generation = 0
    BY <1>1 DEF NoAuthority
  <2>3. CASE r = "start"
    BY <1>0, <1>1, <2>2, <2>3 DEF Prepared, Opened
  <2>4. CASE r = "awaited"
    <3>1. Running # {}
      BY <2>1, <2>4 DEF Arbitrate
    <3>. DEFINE c == CHOOSE i \in Running : TRUE
    <3>2. c \in Running
      BY <3>1
    <3>3. a = [Observing(c) EXCEPT !.authorized = @ \/ (authorize /\ Observing(c).state = Unclaimed)]
      BY <1>1, <2>4 DEF Prepared, Observing
    <3>4. Observing(c).state # Unclaimed /\ Observing(c).authorized = FALSE
      BY DEF Observing, Unclaimed
    <3>5. a = Observing(c)
      <4>. HIDE DEF a, c
      <4>. QED
        BY <3>3, <3>4 DEF Observing
    <3>. QED
      BY <1>1, <2>4, <3>2, <3>5
  <2>. QED
    BY <2>1, <2>3, <2>4
<1>2. CASE authority # NoAuthority /\ r = "replace"
  <2>1. authority.generation < MaxGenerations /\ authority.selected # 0
    BY <1>0, <1>2 DEF Ruling, Continue, Arbitrate, Authorities
  <2>. QED
    BY <1>2, <2>1 DEF Prepared, Opened
<1>3. CASE authority # NoAuthority /\ r # "replace"
  <2>1. r = Continue /\ r \in {"start", "awaited", "reused"}
    BY <1>3 DEF Ruling, Arbitrate, Passing, Continue
  <2>2. CASE r = "start"
    <3>1. authority.selected = 0 /\ Listed \subseteq authority.baseline
      BY <2>1, <2>2 DEF Continue
    <3>2. authority.state = Unclaimed
      BY <1>3, <3>1 DEF AuthorityInv
    <3>3. authorize => ~authority.authorized
      BY <1>3, <2>1, <2>2 DEF Ruling
    <3>4. a = [authority EXCEPT !.authorized = @ \/ authorize]
      BY <1>3, <2>2, <3>2 DEF Prepared
    <3>. QED
      BY <1>3, <2>2, <3>1, <3>2, <3>3, <3>4
  <2>3. CASE r = "reused"
    <3>1. /\ authority.selected # 0 /\ authority.selected \in Listed
          /\ ledger[authority.selected].digest = snap
      BY <2>1, <2>3 DEF Continue
    <3>2. a = [authority EXCEPT !.state = "completed_fresh"]
      BY <1>0, <1>3, <2>3 DEF Prepared, Unclaimed, Authorities
    <3>. QED
      BY <2>3, <3>1, <3>2
  <2>4. CASE r = "awaited"
    <3>1. authority.selected # 0 /\ authority.selected \in Running
      BY <2>1, <2>4 DEF Continue, Running
    <3>2. authority.owned = "existing_authority"
      BY <1>0, <1>3, <3>1 DEF AuthorityInv, Authorities, Running
    <3>3. a = [authority EXCEPT !.state = "existing_authority"]
      BY <1>0, <1>3, <2>4, <3>2 DEF Prepared, Unclaimed, Authorities
    <3>. QED
      BY <2>4, <3>1, <3>2, <3>3
  <2>. QED
    BY <2>1, <2>2, <2>3, <2>4
<1>. QED
  BY <1>1, <1>2, <1>3

-----------------------------------------------------------------------------
(* Typing.                                                                 *)

LEMMA SameSetting ==
  ASSUME setting' = setting
  PROVE  /\ MaxEdits' = MaxEdits /\ MaxCorrections' = MaxCorrections
         /\ MaxGenerations' = MaxGenerations /\ Reverting' = Reverting
         /\ Scans' = Scans /\ Authorities' = Authorities
BY DEF MaxEdits, MaxCorrections, MaxGenerations, Reverting, Scans, Authorities

LEMMA StateType ==
  ASSUME authority \in Authorities, NEW s \in AuthorityStates
  PROVE  LET a == [authority EXCEPT !.state = s] IN
         /\ a \in Authorities /\ a.state = s /\ a.owned = authority.owned
         /\ a.generation = authority.generation /\ a.baseline = authority.baseline
         /\ a.selected = authority.selected /\ a.authorized = authority.authorized
BY DEF Authorities

(* What holds of the authority and the decision of a ruling that passes.   *)
LEMMA PreparedFacts ==
  ASSUME TypeOK, AuthorityInv, pc # "done", required,
         NEW authorize \in BOOLEAN, Ruling(authorize) \in Passing
  PROVE  LET a == Prepared(authorize)  d == Decided(authorize) IN
         /\ a \in Authorities /\ d \in Decisions
         /\ d.action \in {"start", "awaited", "reused"} /\ d.observed = Listed
         /\ a.state # "none" /\ a.owned # "none"
         /\ a.baseline \subseteq DOMAIN ledger
         /\ a.selected # 0 => a.selected \in DOMAIN ledger
         /\ a.selected = 0 <=> a.owned = "unclaimed"
         /\ a.state = Unclaimed <=> a.owned = "unclaimed"
         /\ a.owned = "run_owned" =>
              a.selected \notin a.baseline /\ ledger[a.selected].status \in {"complete", "gone"}
         /\ a.state = Unclaimed => d.action = "start"
         /\ d.action = "reused" =>
              /\ a.state = "completed_fresh"
              /\ a.selected # 0 /\ a.selected = authority.selected
              /\ ledger[a.selected].digest = snap
<1>. DEFINE r == Ruling(authorize)
            a == Prepared(authorize)
            d == Decided(authorize)
<1>1. /\ authority \in Authorities /\ MaxGenerations \in Nat /\ MaxGenerations > 0
      /\ authority.generation \in 0..MaxGenerations
      /\ DOMAIN ledger \subseteq Nat \ {0} /\ Running \subseteq Listed /\ Listed \subseteq DOMAIN ledger
  BY SettingType, LedgerFacts DEF TypeOK, Authorities
<1>2. r \in Passing
  OBVIOUS
<1>3. d = [action |-> IF r = "replace" THEN "start" ELSE r, selected |-> a.selected,
           observed |-> Listed, active |-> Running]
  BY DEF Decided
<1>4. \/ r \in {"start", "replace"} /\ a = Opened(authorize) /\ authority.generation < MaxGenerations
      \/ r = "awaited" /\ authority = NoAuthority /\ \E i \in Running : a = Observing(i)
      \/ /\ r = "start" /\ authority # NoAuthority
         /\ authority.state = Unclaimed /\ authority.selected = 0
         /\ a = [authority EXCEPT !.authorized = @ \/ authorize]
      \/ /\ r = "reused" /\ authority.selected # 0
         /\ ledger[authority.selected].digest = snap
         /\ a = [authority EXCEPT !.state = "completed_fresh"]
      \/ /\ r = "awaited" /\ authority.selected \in Running
         /\ authority.owned = "existing_authority"
         /\ a = [authority EXCEPT !.state = "existing_authority"]
  BY PreparedCases
<1>5. authority.selected = 0 \/ authority.selected \in Nat \ {0}
  BY <1>1 DEF Authorities
<1>. HIDE DEF r, a, d
<1>. SUFFICES
         /\ a \in Authorities /\ d \in Decisions
         /\ d.action \in {"start", "awaited", "reused"} /\ d.observed = Listed
         /\ a.state # "none" /\ a.owned # "none"
         /\ a.baseline \subseteq DOMAIN ledger
         /\ a.selected # 0 => a.selected \in DOMAIN ledger
         /\ a.selected = 0 <=> a.owned = "unclaimed"
         /\ a.state = Unclaimed <=> a.owned = "unclaimed"
         /\ a.owned = "run_owned" =>
              a.selected \notin a.baseline /\ ledger[a.selected].status \in {"complete", "gone"}
         /\ a.state = Unclaimed => d.action = "start"
         /\ d.action = "reused" =>
              /\ a.state = "completed_fresh"
              /\ a.selected # 0 /\ a.selected = authority.selected
              /\ ledger[a.selected].digest = snap
  BY DEF a, d
<1>6. /\ d.action = (IF r = "replace" THEN "start" ELSE r) /\ d.observed = Listed
      /\ d.action \in {"start", "awaited", "reused"}
  BY <1>2, <1>3 DEF Passing
<1>7. a \in Authorities => d \in Decisions
  BY <1>1, <1>3, <1>6 DEF Authorities, Decisions
<1>8. CASE r \in {"start", "replace"} /\ a = Opened(authorize) /\ authority.generation < MaxGenerations
  <2>1. a \in Authorities
    BY <1>1, <1>8 DEF Opened, Authorities, AuthorityStates
  <2>. QED
    BY <1>1, <1>6, <1>7, <1>8, <2>1 DEF Opened, Unclaimed
<1>9. CASE r = "awaited" /\ authority = NoAuthority /\ \E i \in Running : a = Observing(i)
  <2>1. PICK i \in Running : a = Observing(i)
    BY <1>9
  <2>2. i \in Nat \ {0} /\ i \in DOMAIN ledger /\ authority.generation = 0
    BY <1>1, <1>9, <2>1 DEF NoAuthority
  <2>3. a \in Authorities
    BY <1>1, <2>1, <2>2 DEF Observing, Authorities, AuthorityStates
  <2>. QED
    BY <1>1, <1>6, <1>7, <1>9, <2>1, <2>2, <2>3 DEF Observing, Unclaimed
<1>10. CASE /\ r = "start" /\ authority # NoAuthority
            /\ authority.state = Unclaimed /\ authority.selected = 0
            /\ a = [authority EXCEPT !.authorized = @ \/ authorize]
  <2>1. /\ a \in Authorities /\ a.state = authority.state /\ a.owned = authority.owned
        /\ a.baseline = authority.baseline /\ a.selected = authority.selected
    BY <1>1, <1>10 DEF Authorities
  <2>2. authority.owned = "unclaimed"
    BY <1>10 DEF AuthorityInv
  <2>. QED
    BY <1>1, <1>6, <1>7, <1>10, <2>1, <2>2 DEF AuthorityInv, Unclaimed
<1>11. CASE /\ r = "reused" /\ authority.selected # 0
            /\ ledger[authority.selected].digest = snap
            /\ a = [authority EXCEPT !.state = "completed_fresh"]
  <2>1. /\ a \in Authorities /\ a.state = "completed_fresh" /\ a.owned = authority.owned
        /\ a.baseline = authority.baseline /\ a.selected = authority.selected
    BY <1>1, <1>11, StateType DEF AuthorityStates
  <2>2. authority.owned \notin {"none", "unclaimed"}
    BY <1>11 DEF AuthorityInv
  <2>. QED
    BY <1>1, <1>6, <1>7, <1>11, <2>1, <2>2 DEF AuthorityInv, Unclaimed
<1>12. CASE /\ r = "awaited" /\ authority.selected \in Running
            /\ authority.owned = "existing_authority"
            /\ a = [authority EXCEPT !.state = "existing_authority"]
  <2>1. /\ a \in Authorities /\ a.state = "existing_authority" /\ a.owned = authority.owned
        /\ a.baseline = authority.baseline /\ a.selected = authority.selected
    BY <1>1, <1>12, StateType DEF AuthorityStates
  <2>. QED
    BY <1>1, <1>6, <1>7, <1>12, <2>1 DEF AuthorityInv, Unclaimed
<1>. QED
  BY <1>4, <1>8, <1>9, <1>10, <1>11, <1>12

-----------------------------------------------------------------------------
(* What a step of each kind keeps.                                         *)

LEMMA InitStep == Init => IInv
<1>. SUFFICES ASSUME Init PROVE IInv
  OBVIOUS
<1>1. /\ MaxCorrections \in Nat /\ MaxEdits \in Nat
      /\ MaxGenerations = MaxCorrections + 2 /\ MaxGenerations \in Nat
  BY SettingType DEF Init
<1>2. ledger \in Seq(Scans)
  <2>1. CASE ledger = <<>>
    BY <2>1
  <2>2. CASE \E s \in {"running", "complete", "failed"}, f \in BOOLEAN :
               ledger = <<[status |-> s, digest |-> 0, fit |-> f]>>
    <3>1. PICK s \in {"running", "complete", "failed"}, f \in BOOLEAN :
            ledger = <<[status |-> s, digest |-> 0, fit |-> f]>>
      BY <2>2
    <3>. DEFINE scan == [status |-> s, digest |-> 0, fit |-> f]
    <3>2. scan \in Scans
      BY <1>1 DEF Scans, Statuses
    <3>3. ledger = <<scan>>
      BY <3>1
    <3>. HIDE DEF scan
    <3>. QED
      BY <3>2, <3>3
  <2>. QED
    BY <2>1, <2>2 DEF Init
<1>3. NoAuthority \in Authorities /\ NoDecision \in Decisions /\ NoReport \in Reports
  BY <1>1 DEF NoAuthority, NoDecision, NoReport, Authorities, Decisions, Reports, AuthorityStates
<1>4. TypeOK
  <2>1. /\ snap \in 0..MaxEdits /\ base \in 0..MaxEdits /\ checked \in 0..MaxEdits
        /\ seen \in 0..MaxEdits /\ attempt \in 0..MaxGenerations /\ corrections \in 0..MaxCorrections
    BY <1>1 DEF Init
  <2>2. authority \in Authorities /\ decision \in Decisions /\ report \in Reports
    <3>1. authority = NoAuthority /\ decision = NoDecision /\ report = NoReport
      BY DEF Init
    <3>. QED
      BY <1>3, <3>1
  <2>3. /\ setting \in Settings /\ required \in BOOLEAN /\ tainted = FALSE
        /\ pc = "before_architect" /\ gate = "none" /\ verdict = "none" /\ failure = "none"
    BY DEF Init
  <2>. QED
    BY <1>2, <2>1, <2>2, <2>3 DEF TypeOK
<1>5. FlowInv /\ DecisionInv /\ CoverInv
  BY DEF Init, FlowInv, DecisionInv, CoverInv, ScanOnly, Gated, Working, Completed
<1>6. AuthorityInv
  BY DEF Init, AuthorityInv, NoAuthority, Unclaimed
<1>7. OrderInv
  BY DEF Init, OrderInv, Completed
<1>. QED
  BY <1>4, <1>5, <1>6, <1>7 DEF IInv

LEMMA ScanKeeps ==
  ASSUME IInv, ScanSteps
  PROVE  IInv'
<1>1. /\ Later
      /\ UNCHANGED <<snap, pc, authority, decision, report, base, failure, checked, seen, tainted>>
      /\ UNCHANGED <<setting, required, attempt, gate, corrections, verdict>>
  BY ScanStep DEF IInv, host, history
<1>2. /\ MaxEdits' = MaxEdits /\ MaxCorrections' = MaxCorrections
      /\ MaxGenerations' = MaxGenerations /\ Reverting' = Reverting
      /\ Scans' = Scans /\ Authorities' = Authorities
  BY <1>1, SameSetting
<1>3. /\ DOMAIN ledger \subseteq DOMAIN ledger'
      /\ authority.selected # 0 =>
           /\ authority.selected \in DOMAIN ledger
           /\ ledger'[authority.selected].digest = ledger[authority.selected].digest
      /\ authority.owned = "run_owned" => authority.selected # 0
  BY <1>1 DEF Later, IInv, AuthorityInv
<1>4. TypeOK'
  BY <1>1, <1>2 DEF IInv, TypeOK, Later
<1>5. FlowInv'
  BY <1>1, <1>2 DEF IInv, FlowInv
<1>6. AuthorityInv'
  BY <1>1, <1>3 DEF IInv, AuthorityInv, Later
<1>7. DecisionInv'
  BY <1>1 DEF IInv, DecisionInv, AuthorityInv, Later
<1>8. CoverInv'
  BY <1>1, <1>3 DEF IInv, CoverInv, Completed
<1>9. OrderInv'
  BY <1>1, <1>2, <1>3 DEF IInv, OrderInv, CoverInv, Gated, Completed
<1>. QED
  BY <1>4, <1>5, <1>6, <1>7, <1>8, <1>9 DEF IInv

LEMMA EditKeeps ==
  ASSUME IInv, AgentEdits \/ OthersEdit
  PROVE  IInv'
<1>1. /\ UNCHANGED <<ledger, pc, authority, decision, report, base, failure, checked, seen>>
      /\ UNCHANGED <<setting, required, attempt, gate, corrections, verdict>>
      /\ snap' \in Edits /\ tainted' \in {tainted, tainted \/ pc = "scan_only"} /\ pc # "done"
  BY DEF AgentEdits, OthersEdit, ExecutorTurn, host, history
<1>2. /\ MaxEdits' = MaxEdits /\ MaxCorrections' = MaxCorrections
      /\ MaxGenerations' = MaxGenerations /\ Reverting' = Reverting
      /\ Scans' = Scans /\ Authorities' = Authorities
  BY <1>1, SameSetting
<1>3. snap \in Nat /\ snap' \in 0..MaxEdits /\ (~Reverting => snap' = snap + 1)
  BY <1>1, SettingType DEF Edits, IInv, TypeOK
<1>4. TypeOK'
  BY <1>1, <1>2, <1>3 DEF IInv, TypeOK
<1>5. FlowInv'
  BY <1>1, <1>2 DEF IInv, FlowInv
<1>6. AuthorityInv'
  BY <1>1 DEF IInv, AuthorityInv
<1>7. DecisionInv'
  BY <1>1 DEF IInv, DecisionInv
<1>8. CoverInv'
  BY <1>1 DEF IInv, CoverInv, Completed
<1>9. OrderInv'
  <2>1. checked \in Int /\ seen \in Int /\ base \in Int
    BY DEF IInv, TypeOK
  <2>2. ~Reverting => checked' <= snap' /\ seen' <= snap' /\ base' <= snap' /\ base < snap'
    BY <1>1, <1>3, <2>1 DEF IInv, OrderInv
  <2>3. ~Reverting' => /\ required' /\ (pc' = "reviewer" \/ (pc' = "ensure" /\ gate' = "after_reviewer" /\ attempt' = 0)) =>
                            authority'.selected # 0 /\ ledger'[authority'.selected].digest <= seen'
                       /\ required' /\ ((pc' = "decide" /\ attempt' = 0) \/ Completed') =>
                            ledger'[authority'.selected].digest = seen'
    BY <1>1, <1>2 DEF IInv, OrderInv, Completed
  <2>4. ~Reverting' => (tainted' => (pc' \in {"scan_only", "attribute"} /\ base' < snap') \/ failure' # "none")
    BY <1>1, <1>2, <2>2 DEF IInv, OrderInv
  <2>. QED
    BY <1>2, <2>2, <2>3, <2>4 DEF OrderInv
<1>. QED
  BY <1>4, <1>5, <1>6, <1>7, <1>8, <1>9 DEF IInv

(* The run stops with a failure.                                           *)
Stops ==
  /\ pc # "done" /\ pc' = "done" /\ failure' \in Failures
  /\ authority' = authority \/ \E c \in Failures : authority' = FailedAuthority(c)
  /\ UNCHANGED <<snap, ledger, decision, report, base, host, history>>

LEMMA StopKeeps ==
  ASSUME IInv, Stops
  PROVE  IInv'
<1>1. /\ UNCHANGED <<snap, ledger, decision, report, base, checked, seen, tainted>>
      /\ UNCHANGED <<setting, required, attempt, gate, corrections, verdict>>
      /\ pc' = "done" /\ pc # "done" /\ failure' \in Failures /\ failure' # "none"
  BY DEF Stops, Failures, host, history
<1>2. /\ MaxEdits' = MaxEdits /\ MaxCorrections' = MaxCorrections
      /\ MaxGenerations' = MaxGenerations /\ Reverting' = Reverting
      /\ Scans' = Scans /\ Authorities' = Authorities
  BY <1>1, SameSetting
<1>3. \/ authority' = authority
      \/ /\ authority # NoAuthority
         /\ \E s \in AuthorityStates \ {"none", Unclaimed} : authority' = [authority EXCEPT !.state = s]
  <2>. SUFFICES ASSUME NEW c \in Failures, authority' = FailedAuthority(c), authority # NoAuthority
                PROVE  \E s \in AuthorityStates \ {"none", Unclaimed} : authority' = [authority EXCEPT !.state = s]
    BY DEF Stops, FailedAuthority
  <2>. DEFINE s == IF c \in {"SECURITY_SCAN_CONFLICT", "SECURITY_SCAN_UNOWNED_ACTIVITY"} THEN "conflict"
                   ELSE IF c = "SECURITY_SCAN_AUTHORITY_LOST" THEN "lost"
                   ELSE IF c = "SECURITY_SCAN_RESCAN_LIMIT" THEN "completed_stale"
                   ELSE "failed"
  <2>1. s \in AuthorityStates \ {"none", Unclaimed}
    BY DEF AuthorityStates, Unclaimed
  <2>2. authority' = [authority EXCEPT !.state = s]
    BY DEF FailedAuthority
  <2>. QED
    BY <2>1, <2>2
<1>4. /\ authority' \in Authorities /\ authority'.owned = authority.owned
      /\ authority'.baseline = authority.baseline /\ authority'.selected = authority.selected
      /\ authority = NoAuthority => authority' = NoAuthority
      /\ authority'.state = "none" => authority.state = "none"
  <2>1. authority \in Authorities
    BY DEF IInv, TypeOK
  <2>2. CASE authority' = authority
    BY <2>1, <2>2
  <2>3. CASE /\ authority # NoAuthority
             /\ \E s \in AuthorityStates \ {"none", Unclaimed} : authority' = [authority EXCEPT !.state = s]
    <3>1. PICK s \in AuthorityStates \ {"none", Unclaimed} : authority' = [authority EXCEPT !.state = s]
      BY <2>3
    <3>. QED
      BY <2>1, <2>3, <3>1, StateType
  <2>. QED
    BY <1>3, <2>2, <2>3
<1>5. TypeOK'
  BY <1>1, <1>2, <1>4 DEF IInv, TypeOK
<1>6. FlowInv' /\ DecisionInv' /\ CoverInv'
  <2>1. FlowInv'
    BY <1>1, <1>2 DEF IInv, FlowInv, ScanOnly, Gated
  <2>2. DecisionInv'
    BY <1>1 DEF DecisionInv, Working, ScanOnly
  <2>3. CoverInv'
    BY <1>1 DEF CoverInv, Gated, Completed
  <2>. QED
    BY <2>1, <2>2, <2>3
<1>7. AuthorityInv'
  BY <1>1, <1>4 DEF IInv, AuthorityInv
<1>8. OrderInv'
  BY <1>1, <1>2 DEF IInv, OrderInv, Completed
<1>. QED
  BY <1>5, <1>6, <1>7, <1>8 DEF IInv

(* A gate that passes: the ledger was read once and the snapshot compared. *)
Passes(authorize, next) ==
  /\ required => /\ Ruling(authorize) \in Passing
                 /\ authority' = Prepared(authorize) /\ decision' = Decided(authorize)
  /\ ~required => authority' = authority /\ decision' = decision
  /\ pc' = next[IF required THEN Decided(authorize).action ELSE "reused"]
  /\ failure' = IF pc' = "done" THEN "SECURITY_SCAN_RESCAN_LIMIT" ELSE failure
  /\ checked' = snap
  /\ UNCHANGED <<snap, ledger, report, base, host, seen, tainted>>

LEMMA PrepareCases ==
  ASSUME TypeOK, pc # "done", NEW authorize \in BOOLEAN, NEW next, Prepare(authorize, next)
  PROVE  Stops \/ Passes(authorize, next)
<1>1. CASE required /\ Ruling(authorize) \notin Passing
  <2>1. Ruling(authorize) \in Failures
    BY <1>1, RulingType
  <2>. QED
    BY <1>1, <2>1 DEF Prepare, Fail, Stops
<1>2. CASE ~(required /\ Ruling(authorize) \notin Passing)
  BY <1>2 DEF Prepare, Passes
<1>. QED
  BY <1>1, <1>2

(* The authority and the decision a passing gate leaves behind.            *)
LEMMA PassFacts ==
  ASSUME IInv, pc # "done", NEW authorize \in BOOLEAN, NEW next, Passes(authorize, next)
  PROVE  /\ authority' \in Authorities /\ decision' \in Decisions /\ AuthorityInv'
         /\ required => /\ authority' # NoAuthority
                        /\ decision'.action \in {"start", "awaited", "reused"}
                        /\ pc' = next[decision'.action]
         /\ ~required => pc' = next["reused"]
         /\ required /\ authority'.state = Unclaimed =>
              /\ decision'.action = "start"
              /\ \A i \in authority'.baseline : i \in decision'.observed \/ ledger[i].status = "gone"
         /\ required /\ decision'.action = "reused" =>
              /\ authority'.state = "completed_fresh"
              /\ authority'.selected # 0 /\ authority'.selected = authority.selected
              /\ ledger[authority'.selected].digest = snap
<1>1. ledger' = ledger /\ required' = required /\ TypeOK /\ AuthorityInv
  BY DEF Passes, host, IInv
<1>2. CASE ~required
  BY <1>1, <1>2 DEF Passes, TypeOK, AuthorityInv, NoAuthority, Unclaimed
<1>3. CASE required
  <2>1. Ruling(authorize) \in Passing /\ authority' = Prepared(authorize) /\ decision' = Decided(authorize)
    BY <1>3 DEF Passes
  <2>2. /\ authority' \in Authorities /\ decision' \in Decisions
        /\ decision'.action \in {"start", "awaited", "reused"} /\ decision'.observed = Listed
        /\ authority'.state # "none" /\ authority'.owned # "none"
        /\ authority'.baseline \subseteq DOMAIN ledger
        /\ authority'.selected # 0 => authority'.selected \in DOMAIN ledger
        /\ authority'.selected = 0 <=> authority'.owned = "unclaimed"
        /\ authority'.state = Unclaimed <=> authority'.owned = "unclaimed"
        /\ authority'.owned = "run_owned" =>
             /\ authority'.selected \notin authority'.baseline
             /\ ledger[authority'.selected].status \in {"complete", "gone"}
        /\ authority'.state = Unclaimed => decision'.action = "start"
        /\ decision'.action = "reused" =>
             /\ authority'.state = "completed_fresh"
             /\ authority'.selected # 0 /\ authority'.selected = authority.selected
             /\ ledger[authority'.selected].digest = snap
    BY <1>1, <1>3, <2>1, PreparedFacts
  <2>3. authority' # NoAuthority
    BY <2>2 DEF NoAuthority
  <2>4. AuthorityInv'
    BY <1>1, <1>3, <2>2 DEF AuthorityInv
  <2>5. \A i \in authority'.baseline : i \in decision'.observed \/ ledger[i].status = "gone"
    BY <2>2 DEF Listed
  <2>. QED
    BY <1>3, <2>1, <2>2, <2>3, <2>4, <2>5 DEF Passes
<1>. QED
  BY <1>1, <1>2, <1>3 DEF TypeOK

(* Where a passing gate leads to.                                          *)
Leads ==
  \/ pc \in {"before_architect", "before_executor"} /\ pc' \in {"architect", "executor"}
  \/ pc = "ensure" /\ pc' = "scan_baseline" /\ attempt < MaxGenerations
  \/ pc = "ensure" /\ pc' = "done"
  \/ /\ pc = "ensure" /\ pc' = IF gate = "before_reviewer" THEN "capture" ELSE "decide"
     /\ required => decision'.action = "reused"

LEMMA PassKeeps ==
  ASSUME IInv, NEW authorize \in BOOLEAN, NEW next, Passes(authorize, next), Leads
  PROVE  IInv'
<1>1. /\ UNCHANGED <<snap, ledger, report, base, seen, tainted>>
      /\ UNCHANGED <<setting, required, attempt, gate, corrections, verdict>>
      /\ failure' = (IF pc' = "done" THEN "SECURITY_SCAN_RESCAN_LIMIT" ELSE failure)
      /\ checked' = snap /\ pc # "done"
      /\ pc' \in {"architect", "executor", "scan_baseline", "capture", "decide", "done"}
  BY DEF Passes, Leads, host
<1>2. /\ MaxEdits' = MaxEdits /\ MaxCorrections' = MaxCorrections
      /\ MaxGenerations' = MaxGenerations /\ Reverting' = Reverting
      /\ Scans' = Scans /\ Authorities' = Authorities
  BY <1>1, SameSetting
<1>3. /\ authority' \in Authorities /\ decision' \in Decisions /\ AuthorityInv'
      /\ required => authority' # NoAuthority
      /\ required /\ authority'.state = Unclaimed =>
           /\ decision'.action = "start"
           /\ \A i \in authority'.baseline : i \in decision'.observed \/ ledger[i].status = "gone"
      /\ required /\ decision'.action = "reused" =>
           /\ authority'.state = "completed_fresh"
           /\ authority'.selected # 0 /\ authority'.selected = authority.selected
           /\ ledger[authority'.selected].digest = snap
  BY <1>1, PassFacts
<1>4. failure = "none"
  BY <1>1 DEF IInv, FlowInv
<1>5. TypeOK'
  BY <1>1, <1>2, <1>3 DEF IInv, TypeOK, Failures
<1>6. FlowInv'
  BY <1>1, <1>2, <1>4 DEF IInv, FlowInv, Leads, ScanOnly, Gated
<1>7. DecisionInv'
  BY <1>1, <1>3 DEF DecisionInv
<1>8. CoverInv'
  <2>1. pc' \in Gated /\ required' => decision'.action = "reused"
    BY <1>1 DEF Leads, Gated
  <2>2. ~Completed'
    BY <1>1, <1>4 DEF Completed
  <2>. QED
    BY <1>1, <1>3, <2>1, <2>2 DEF CoverInv
<1>9. OrderInv'
  <2>. SUFFICES ASSUME ~Reverting
                PROVE  OrderInv'
    BY <1>2 DEF OrderInv
  <2>1. /\ snap \in Nat /\ seen \in Nat /\ base \in Nat /\ seen <= snap /\ base <= snap
        /\ tainted = FALSE
    BY <1>1, <1>4, SettingType DEF IInv, TypeOK, OrderInv, Leads
  <2>2. checked' <= snap' /\ seen' <= snap' /\ base' <= snap' /\ tainted' = FALSE
    BY <1>1, <2>1
  <2>3. pc' \notin {"reviewer", "ensure"} /\ ~Completed'
    BY <1>1, <1>4 DEF Completed
  <2>4. required' /\ pc' = "decide" /\ attempt' = 0 => ledger'[authority'.selected].digest = seen'
    <3>. SUFFICES ASSUME required, pc' = "decide", attempt = 0
                  PROVE  ledger[authority'.selected].digest = seen
      BY <1>1
    <3>1. /\ pc = "ensure" /\ gate # "before_reviewer" /\ decision'.action = "reused"
      BY DEF Leads
    <3>2. gate = "after_reviewer"
      BY <3>1 DEF IInv, TypeOK, FlowInv
    <3>3. ledger[authority.selected].digest <= seen
      BY <3>1, <3>2 DEF IInv, OrderInv
    <3>4. authority'.selected = authority.selected /\ ledger[authority.selected].digest = snap
      BY <1>3, <3>1
    <3>. QED
      BY <2>1, <3>3, <3>4
  <2>. QED
    BY <2>2, <2>3, <2>4 DEF OrderInv
<1>. QED
  BY <1>3, <1>5, <1>6, <1>7, <1>8, <1>9 DEF IInv

LEMMA GateKeeps ==
  ASSUME IInv, BeforeArchitect \/ BeforeExecutor \/ EnsureFresh
  PROVE  IInv'
<1>1. CASE BeforeArchitect
  <2>1. pc = "before_architect" /\ pc # "done" /\ TypeOK /\ Prepare(FALSE, To("architect"))
    BY <1>1 DEF BeforeArchitect, IInv
  <2>2. CASE Stops
    BY <2>2, StopKeeps
  <2>3. CASE Passes(FALSE, To("architect"))
    <3>1. \A a \in {"start", "awaited", "reused"} : To("architect")[a] = "architect"
      BY DEF To
    <3>2. \/ required /\ decision'.action \in {"start", "awaited", "reused"}
             /\ pc' = To("architect")[decision'.action]
          \/ ~required /\ pc' = To("architect")["reused"]
      BY <2>1, <2>3, PassFacts
    <3>3. pc' = "architect"
      BY <3>1, <3>2
    <3>. QED
      BY <2>1, <2>3, <3>3, PassKeeps DEF Leads
  <2>. QED
    BY <2>1, <2>2, <2>3, PrepareCases
<1>2. CASE BeforeExecutor
  <2>1. pc = "before_executor" /\ pc # "done" /\ TypeOK /\ Prepare(TRUE, To("executor"))
    BY <1>2 DEF BeforeExecutor, IInv
  <2>2. CASE Stops
    BY <2>2, StopKeeps
  <2>3. CASE Passes(TRUE, To("executor"))
    <3>1. \A a \in {"start", "awaited", "reused"} : To("executor")[a] = "executor"
      BY DEF To
    <3>2. \/ required /\ decision'.action \in {"start", "awaited", "reused"}
             /\ pc' = To("executor")[decision'.action]
          \/ ~required /\ pc' = To("executor")["reused"]
      BY <2>1, <2>3, PassFacts
    <3>3. pc' = "executor"
      BY <3>1, <3>2
    <3>. QED
      BY <2>1, <2>3, <3>3, PassKeeps DEF Leads
  <2>. QED
    BY <2>1, <2>2, <2>3, PrepareCases
<1>3. CASE EnsureFresh
  <2>. DEFINE rescan == IF attempt < MaxGenerations THEN "scan_baseline" ELSE "done"
              label == IF gate = "before_reviewer" THEN "capture" ELSE "decide"
              next == [start |-> rescan, awaited |-> rescan, reused |-> label]
              authorize == attempt < MaxGenerations
  <2>1. /\ pc = "ensure" /\ pc # "done" /\ TypeOK /\ authorize \in BOOLEAN
        /\ Prepare(authorize, next)
    BY <1>3 DEF EnsureFresh, IInv
  <2>2. next["start"] = rescan /\ next["awaited"] = rescan /\ next["reused"] = label
    OBVIOUS
  <2>3. rescan \in {"scan_baseline", "done"} /\ (rescan = "scan_baseline" => attempt < MaxGenerations)
    OBVIOUS
  <2>. HIDE DEF rescan, next, authorize
  <2>4. CASE Stops
    BY <2>4, StopKeeps
  <2>5. CASE Passes(authorize, next)
    <3>1. \/ required /\ decision'.action \in {"start", "awaited", "reused"} /\ pc' = next[decision'.action]
          \/ ~required /\ pc' = next["reused"]
      BY <2>1, <2>5, PassFacts
    <3>2. Leads
      BY <2>1, <2>2, <2>3, <3>1 DEF Leads
    <3>. QED
      BY <2>1, <2>5, <3>2, PassKeeps
  <2>. QED
    BY <2>1, <2>4, <2>5, PrepareCases
<1>. QED
  BY <1>1, <1>2, <1>3

(* The facts an accepted report rests on.                                  *)
LEMMA AcceptedFacts ==
  ASSUME IInv, pc = "record", Flaw(report) = "none", required
  PROVE  /\ report.id \in Listed /\ ledger[report.id].status = "complete"
         /\ authority.selected \in {0, report.id}
         /\ authority.state = Unclaimed => report.id \notin authority.baseline
<1>1. ~Disputed(report) /\ Backed(report) /\ ledger[report.id].status = "complete"
      /\ authority.selected \in {0, report.id}
  BY DEF Flaw
<1>2. report.id \in Listed
      /\ IF decision.action = "start" THEN report.id \notin decision.observed
         ELSE report.id = decision.selected
  BY <1>1 DEF Backed
<1>3. authority.state = Unclaimed => report.id \notin authority.baseline
  BY <1>2 DEF IInv, DecisionInv, Working, Listed
<1>. QED
  BY <1>1, <1>2, <1>3

LEMMA RecordKeeps ==
  ASSUME IInv, RecordResult
  PROVE  IInv'
<1>1. CASE Flaw(report) # "none"
  <2>1. Flaw(report) \in Failures
    BY <1>1 DEF Flaw, Failures
  <2>2. Stops
    BY <1>1, <2>1 DEF RecordResult, Fail, Stops
  <2>. QED
    BY <2>2, StopKeeps
<1>2. CASE Flaw(report) = "none"
  <2>1. /\ pc = "record" /\ pc' = "ensure" /\ report' = NoReport /\ base' = 0
        /\ authority' = (IF required THEN Recorded(report) ELSE authority)
        /\ gate' = (IF gate = "none" THEN "before_reviewer" ELSE gate)
        /\ attempt' = (IF gate = "none" THEN 0 ELSE attempt + 1)
        /\ UNCHANGED <<snap, ledger, decision, failure, setting, required, corrections, verdict>>
        /\ UNCHANGED <<checked, seen, tainted>>
    BY <1>2 DEF RecordResult, history
  <2>2. /\ MaxEdits' = MaxEdits /\ MaxCorrections' = MaxCorrections
        /\ MaxGenerations' = MaxGenerations /\ Reverting' = Reverting
        /\ Scans' = Scans /\ Authorities' = Authorities
    BY <2>1, SameSetting
  <2>3. /\ MaxGenerations \in Nat /\ MaxEdits \in Nat
        /\ DOMAIN ledger \subseteq Nat \ {0} /\ Listed \subseteq DOMAIN ledger
        /\ authority \in Authorities
    BY SettingType, LedgerFacts DEF IInv, TypeOK
  <2>4. authority' \in Authorities /\ AuthorityInv'
    <3>1. CASE ~required
      BY <2>1, <2>3, <3>1 DEF IInv, AuthorityInv, NoAuthority, Unclaimed
    <3>2. CASE required
      <4>1. /\ report.id \in Listed /\ report.id \in DOMAIN ledger /\ report.id \in Nat \ {0}
            /\ ledger[report.id].status = "complete"
            /\ authority.selected \in {0, report.id}
            /\ authority.state = Unclaimed => report.id \notin authority.baseline
        BY <1>2, <2>1, <2>3, <3>2, AcceptedFacts
      <4>. DEFINE new == IF authority.state = Unclaimed THEN "run_owned" ELSE authority.owned
                  fresh == IF ledger[report.id].digest = snap THEN "completed_fresh" ELSE "completed_stale"
      <4>2. fresh \in {"completed_fresh", "completed_stale"}
        OBVIOUS
      <4>3. authority # NoAuthority
        BY <2>1, <3>2 DEF IInv, DecisionInv, Working
      <4>4. new \in {"existing_authority", "run_owned"}
        BY <2>1, <2>3, <4>3 DEF IInv, AuthorityInv, Authorities
      <4>5. authority' = [authority EXCEPT !.owned = new, !.selected = report.id, !.state = fresh]
        BY <2>1, <3>2 DEF Recorded
      <4>6. new = "run_owned" => \/ authority.state = Unclaimed
                                 \/ authority.owned = "run_owned"
        OBVIOUS
      <4>. HIDE DEF new, fresh
      <4>7. /\ authority' \in Authorities
            /\ authority'.owned = new /\ authority'.selected = report.id
            /\ authority'.state = fresh /\ authority'.baseline = authority.baseline
        BY <2>3, <4>1, <4>2, <4>4, <4>5 DEF Authorities, AuthorityStates
      <4>8. new = "run_owned" => report.id \notin authority.baseline
        <5>1. authority.owned = "run_owned" =>
                authority.selected = report.id /\ report.id \notin authority.baseline
          BY <4>1 DEF IInv, AuthorityInv
        <5>. QED
          BY <4>1, <4>6, <5>1
      <4>. QED
        BY <2>1, <3>2, <4>1, <4>2, <4>4, <4>7, <4>8 DEF IInv, AuthorityInv, Unclaimed
    <3>. QED
      BY <3>1, <3>2 DEF IInv, TypeOK
  <2>5. gate' # "none" /\ attempt' \in 0..MaxGenerations /\ (attempt' = 0 => gate' = "before_reviewer")
    BY <2>1, <2>3 DEF IInv, TypeOK, FlowInv
  <2>6. TypeOK'
    <3>1. NoReport \in Reports /\ 0 \in 0..MaxEdits
      BY <2>3 DEF NoReport, Reports
    <3>2. gate' \in {"none", "before_reviewer", "after_reviewer"}
      BY <2>1 DEF IInv, TypeOK
    <3>. QED
      BY <2>1, <2>2, <2>4, <2>5, <3>1, <3>2 DEF IInv, TypeOK
  <2>7. FlowInv'
    BY <2>1, <2>2, <2>5 DEF IInv, FlowInv, ScanOnly, Gated
  <2>8. DecisionInv' /\ CoverInv'
    BY <2>1 DEF DecisionInv, CoverInv, Working, ScanOnly, Gated, Completed
  <2>9. OrderInv'
    <3>. SUFFICES ASSUME ~Reverting PROVE OrderInv'
      BY <2>2 DEF OrderInv
    <3>1. snap \in Nat /\ checked' <= snap' /\ seen' <= snap' /\ base' <= snap'
      BY <2>1, <2>3 DEF IInv, TypeOK, OrderInv
    <3>2. tainted' => failure' # "none"
      BY <2>1 DEF IInv, OrderInv
    <3>. QED
      BY <2>1, <2>5, <3>1, <3>2 DEF OrderInv, Completed
  <2>. QED
    BY <2>4, <2>6, <2>7, <2>8, <2>9 DEF IInv
<1>. QED
  BY <1>1, <1>2

LEMMA TurnKeeps ==
  ASSUME IInv, ArchitectEnds \/ ExecutorEnds \/ ScanOnlyTurnFails
  PROVE  IInv'
<1>1. /\ UNCHANGED <<snap, ledger, authority, decision, base, failure, checked, seen, tainted>>
      /\ UNCHANGED <<setting, required, attempt, gate, corrections, verdict>>
      /\ \/ pc = "architect" /\ pc' = "before_executor" /\ report' = report
         \/ pc = "executor" /\ pc' = "record"
         \/ pc = "scan_only" /\ pc' = "attribute"
  BY DEF ArchitectEnds, ExecutorEnds, ScanOnlyTurnFails, ExecutorTurn, host, history
<1>2. /\ MaxEdits' = MaxEdits /\ MaxCorrections' = MaxCorrections
      /\ MaxGenerations' = MaxGenerations /\ Reverting' = Reverting
      /\ Scans' = Scans /\ Authorities' = Authorities
  BY <1>1, SameSetting
<1>3. report' \in Reports
  <2>1. report \in Reports /\ DOMAIN ledger \subseteq Nat
    BY LedgerFacts DEF IInv, TypeOK
  <2>2. CASE ArchitectEnds
    BY <2>1, <2>2 DEF ArchitectEnds
  <2>3. CASE ExecutorEnds
    BY <2>1, <2>3 DEF ExecutorEnds, Reports
  <2>4. CASE ScanOnlyTurnFails
    BY <2>4 DEF ScanOnlyTurnFails, NoReport, Reports
  <2>. QED
    BY <2>2, <2>3, <2>4
<1>4. TypeOK'
  BY <1>1, <1>2, <1>3 DEF IInv, TypeOK
<1>5. FlowInv'
  BY <1>1, <1>2 DEF IInv, FlowInv, ScanOnly, Gated
<1>6. AuthorityInv'
  BY <1>1 DEF IInv, AuthorityInv
<1>7. DecisionInv'
  BY <1>1 DEF IInv, DecisionInv, Working, ScanOnly
<1>8. CoverInv' /\ OrderInv'
  BY <1>1, <1>2 DEF IInv, CoverInv, OrderInv, Gated, Completed
<1>. QED
  BY <1>4, <1>5, <1>6, <1>7, <1>8 DEF IInv

(* Steps of the host between turns and gates that leave the authority, the *)
(* decision and the report alone.                                          *)
LEMMA BaselineKeeps ==
  ASSUME IInv, CaptureBaseline \/ CaptureDiff
  PROVE  IInv'
<1>1. /\ UNCHANGED <<snap, ledger, authority, decision, report, failure, checked, tainted>>
      /\ UNCHANGED <<setting, required, attempt, gate, corrections, verdict>>
      /\ \/ pc = "scan_baseline" /\ pc' = "scan_only" /\ base' = snap /\ seen' = seen
         \/ pc = "capture" /\ pc' = "reviewer" /\ seen' = snap /\ base' = base
  BY DEF CaptureBaseline, CaptureDiff, host, history
<1>2. /\ MaxEdits' = MaxEdits /\ MaxCorrections' = MaxCorrections
      /\ MaxGenerations' = MaxGenerations /\ Reverting' = Reverting
      /\ Scans' = Scans /\ Authorities' = Authorities
  BY <1>1, SameSetting
<1>3. failure = "none"
  BY <1>1 DEF IInv, FlowInv
<1>4. TypeOK'
  BY <1>1, <1>2 DEF IInv, TypeOK
<1>5. FlowInv'
  BY <1>1, <1>2 DEF IInv, FlowInv, ScanOnly, Gated
<1>6. AuthorityInv'
  BY <1>1 DEF IInv, AuthorityInv
<1>7. DecisionInv'
  BY <1>1 DEF IInv, DecisionInv, Working, ScanOnly
<1>8. CoverInv'
  BY <1>1 DEF IInv, CoverInv, Gated, Completed
<1>9. OrderInv'
  <2>. SUFFICES ASSUME ~Reverting PROVE OrderInv'
    BY <1>2 DEF OrderInv
  <2>1. /\ snap \in Nat /\ checked <= snap /\ checked' <= snap' /\ seen' <= snap' /\ base' <= snap'
    BY <1>1, SettingType DEF IInv, TypeOK, OrderInv
  <2>2. ~tainted /\ ~Completed'
    BY <1>1, <1>3 DEF IInv, OrderInv, Completed
  <2>3. required /\ pc = "capture" =>
          authority.selected # 0 /\ ledger[authority.selected].digest = checked
    BY DEF IInv, CoverInv, Gated
  <2>. QED
    BY <1>1, <2>1, <2>2, <2>3 DEF OrderInv
<1>. QED
  BY <1>4, <1>5, <1>6, <1>7, <1>8, <1>9 DEF IInv

LEMMA AttributeKeeps ==
  ASSUME IInv, AttributeMutations
  PROVE  IInv'
<1>1. pc = "attribute"
  BY DEF AttributeMutations
<1>2. CASE snap # base \/ ~report.answered
  <2>1. Stops
    BY <1>1, <1>2 DEF AttributeMutations, Stops, Fail, Failures
  <2>. QED
    BY <2>1, StopKeeps
<1>3. CASE ~(snap # base \/ ~report.answered)
  <2>1. /\ UNCHANGED <<snap, ledger, authority, decision, report, base, failure, checked, seen, tainted>>
        /\ UNCHANGED <<setting, required, attempt, gate, corrections, verdict>>
        /\ pc' = "record" /\ snap = base
    BY <1>3 DEF AttributeMutations, host, history
  <2>2. /\ MaxEdits' = MaxEdits /\ MaxCorrections' = MaxCorrections
        /\ MaxGenerations' = MaxGenerations /\ Reverting' = Reverting
        /\ Scans' = Scans /\ Authorities' = Authorities
    BY <2>1, SameSetting
  <2>3. TypeOK'
    BY <2>1, <2>2 DEF IInv, TypeOK
  <2>4. FlowInv'
    BY <1>1, <2>1, <2>2 DEF IInv, FlowInv, ScanOnly, Gated
  <2>5. AuthorityInv'
    BY <1>1, <2>1 DEF IInv, AuthorityInv
  <2>6. DecisionInv'
    BY <1>1, <2>1 DEF IInv, DecisionInv, Working, ScanOnly
  <2>7. CoverInv'
    BY <2>1 DEF CoverInv, Gated, Completed
  <2>8. OrderInv'
    <3>1. snap \in Int
      BY DEF IInv, TypeOK
    <3>. QED
      BY <1>1, <2>1, <2>2, <3>1 DEF IInv, OrderInv, Completed
  <2>. QED
    BY <2>3, <2>4, <2>5, <2>6, <2>7, <2>8 DEF IInv
<1>. QED
  BY <1>2, <1>3

LEMMA ReviewKeeps ==
  ASSUME IInv, ReviewerEnds \/ Decide
  PROVE  IInv'
<1>1. /\ UNCHANGED <<snap, ledger, authority, decision, report, base, failure, checked, seen, tainted>>
      /\ UNCHANGED <<setting, required>>
      /\ \/ /\ pc = "reviewer" /\ pc' = "ensure" /\ gate' = "after_reviewer" /\ attempt' = 0
            /\ corrections' = corrections /\ verdict' \in {"approved", "changes_requested"}
         \/ /\ pc = "decide" /\ pc' = "ensure" /\ gate' = "before_reviewer" /\ attempt' = 0
            /\ corrections' = corrections /\ verdict' = verdict
         \/ /\ pc = "decide" /\ attempt = 0 /\ pc' = "done"
            /\ UNCHANGED <<gate, attempt, corrections, verdict>>
         \/ /\ pc = "decide" /\ pc' = "before_executor" /\ gate' = "none"
            /\ corrections' = corrections + 1 /\ corrections < MaxCorrections
            /\ UNCHANGED <<attempt, verdict>>
  <2>1. /\ corrections \in 0..MaxCorrections /\ attempt \in 0..MaxGenerations
        /\ MaxCorrections \in Nat /\ MaxGenerations \in Nat
    BY SettingType DEF IInv, TypeOK
  <2>2. CASE ReviewerEnds
    BY <2>2 DEF ReviewerEnds, history
  <2>3. CASE Decide
    BY <2>1, <2>3 DEF Decide, history
  <2>. QED
    BY <2>2, <2>3
<1>2. /\ MaxEdits' = MaxEdits /\ MaxCorrections' = MaxCorrections
      /\ MaxGenerations' = MaxGenerations /\ Reverting' = Reverting
      /\ Scans' = Scans /\ Authorities' = Authorities
  BY <1>1, SameSetting
<1>3. TypeOK'
  <2>1. attempt' \in 0..MaxGenerations /\ corrections' \in 0..MaxCorrections
    BY <1>1, SettingType DEF IInv, TypeOK
  <2>. QED
    BY <1>1, <1>2, <2>1 DEF IInv, TypeOK
<1>4. failure = "none"
  BY <1>1 DEF IInv, FlowInv
<1>5. FlowInv'
  BY <1>1, <1>2, <1>4 DEF FlowInv, ScanOnly, Gated
<1>6. AuthorityInv'
  BY <1>1 DEF IInv, AuthorityInv
<1>7. DecisionInv'
  BY <1>1 DEF DecisionInv, Working, ScanOnly
<1>8. CoverInv'
  BY <1>1 DEF IInv, CoverInv, Gated, Completed
<1>9. OrderInv'
  BY <1>1, <1>2, <1>4 DEF IInv, OrderInv, Completed
<1>. QED
  BY <1>3, <1>5, <1>6, <1>7, <1>8, <1>9 DEF IInv

LEMMA FaultKeeps ==
  ASSUME IInv, EvidenceFails \/ LedgerUnavailable \/ TurnFails
  PROVE  IInv'
<1>1. Stops
  BY DEF EvidenceFails, LedgerUnavailable, TurnFails, Stops, Fail, Failures
<1>. QED
  BY <1>1, StopKeeps

LEMMA StutterKeeps ==
  ASSUME IInv, UNCHANGED vars
  PROVE  IInv'
<1>1. /\ UNCHANGED <<snap, ledger, pc, authority, decision, report, base, failure, checked, seen, tainted>>
      /\ UNCHANGED <<setting, required, attempt, gate, corrections, verdict>>
  BY DEF vars, host, history
<1>2. /\ MaxEdits' = MaxEdits /\ MaxCorrections' = MaxCorrections
      /\ MaxGenerations' = MaxGenerations /\ Reverting' = Reverting
      /\ Scans' = Scans /\ Authorities' = Authorities
  BY <1>1, SameSetting
<1>3. TypeOK' /\ FlowInv'
  BY <1>1, <1>2 DEF IInv, TypeOK, FlowInv
<1>4. AuthorityInv' /\ DecisionInv' /\ CoverInv' /\ OrderInv'
  BY <1>1, <1>2 DEF IInv, AuthorityInv, DecisionInv, CoverInv, OrderInv, Completed
<1>. QED
  BY <1>3, <1>4 DEF IInv

LEMMA NextKeeps ==
  ASSUME IInv, [Next]_vars
  PROVE  IInv'
<1>1. CASE ScanSteps
  BY <1>1, ScanKeeps
<1>2. CASE AgentEdits \/ OthersEdit
  BY <1>2, EditKeeps
<1>3. CASE BeforeArchitect \/ BeforeExecutor \/ EnsureFresh
  BY <1>3, GateKeeps
<1>4. CASE RecordResult
  BY <1>4, RecordKeeps
<1>5. CASE ArchitectEnds \/ ExecutorEnds \/ ScanOnlyTurnFails
  BY <1>5, TurnKeeps
<1>6. CASE CaptureBaseline \/ CaptureDiff
  BY <1>6, BaselineKeeps
<1>7. CASE AttributeMutations
  BY <1>7, AttributeKeeps
<1>8. CASE ReviewerEnds \/ Decide
  BY <1>8, ReviewKeeps
<1>9. CASE EvidenceFails \/ LedgerUnavailable \/ TurnFails
  BY <1>9, FaultKeeps
<1>10. CASE UNCHANGED vars
  BY <1>10, StutterKeeps
<1>. QED
  BY <1>1, <1>2, <1>3, <1>4, <1>5, <1>6, <1>7, <1>8, <1>9, <1>10
     DEF Next, Host, Turns, Environment, Over, ScanSteps

-----------------------------------------------------------------------------
(* The inductive invariant: which gate the run is at, what its authority   *)
(* pins, what an unclaimed authority's Executor was told, and which of the *)
(* snapshots - scanned, reviewed, checked, current - came first.           *)
THEOREM Invariant == Spec => []IInv
<1>1. Init => IInv
  BY InitStep
<1>2. IInv /\ [Next]_vars => IInv'
  BY NextKeeps
<1>. QED
  BY <1>1, <1>2, PTL DEF Spec

(* The variables keep their types: generations stay within their limit,    *)
(* and a run that fails names one of its failure classes.                  *)
THEOREM TypeCorrect == Spec => []TypeOK
<1>1. IInv => TypeOK
  BY DEF IInv
<1>. QED
  BY <1>1, Invariant, PTL

(* A run that must be scanned completes only under a completed scan of the *)
(* snapshot its last gate compared.                                        *)
THEOREM CompletedIsCovered == Spec => []CompletedRunIsCovered
<1>1. IInv => CompletedRunIsCovered
  BY DEF IInv, CoverInv, CompletedRunIsCovered
<1>. QED
  BY <1>1, Invariant, PTL

(* Where no edit restores an earlier snapshot, the diff the Reviewer saw   *)
(* is of the scanned snapshot and no edit of a scan-only turn is in it; a  *)
(* scan the run calls its own began after the generation it serves.        *)
THEOREM VerdictIsEarned == Spec => []VerdictEarned
<1>1. ASSUME IInv PROVE VerdictEarned
  <2>1. ReviewedIsScanned
    BY <1>1 DEF IInv, OrderInv, ReviewedIsScanned
  <2>2. OwnScanIsNew
    BY <1>1 DEF IInv, AuthorityInv, OwnScanIsNew
  <2>3. ScanOnlyEditsRejected
    BY <1>1 DEF IInv, OrderInv, ScanOnlyEditsRejected, Completed
  <2>. QED
    BY <2>1, <2>2, <2>3 DEF VerdictEarned
<1>. QED
  BY <1>1, Invariant, PTL

(* Each Executor turn that may start a scan serves a generation of its     *)
(* own: the authority that authorises it was not authorised before, or is  *)
(* of a later generation.                                                  *)
THEOREM GenerationsAreTurns == Spec => OneTurnPerGeneration
<1>. DEFINE Fresh == required /\ pc \in {"before_executor", "ensure"}
                     /\ pc' \in {"executor", "scan_baseline"} /\ decision'.action = "start"
                       => authority'.authorized
                          /\ (authority.authorized => authority.generation < authority'.generation)
<1>1. ASSUME IInv, [Next]_vars PROVE Fresh
  <2>. SUFFICES ASSUME required, pc \in {"before_executor", "ensure"},
                       pc' \in {"executor", "scan_baseline"}, decision'.action = "start"
                PROVE  authority'.authorized
                       /\ (authority.authorized => authority.generation < authority'.generation)
    OBVIOUS
  <2>1. TypeOK /\ AuthorityInv /\ pc # "done" /\ authority.generation \in Nat
    BY <1>1, SettingType DEF IInv, TypeOK, Authorities
  <2>2. BeforeExecutor \/ EnsureFresh
    BY <1>1 DEF vars, Next, Host, Turns, Environment, Over, BeforeArchitect, RecordResult,
       CaptureBaseline, AttributeMutations, CaptureDiff, Decide, EvidenceFails, LedgerUnavailable,
       Fail, ArchitectEnds, ExecutorEnds, ExecutorTurn, ScanOnlyTurnFails, ReviewerEnds, TurnFails,
       AgentEdits, AgentStartsScan, OthersEdit, OthersStartScan, ScanEnds, ScanDisappears
  <2>3. Ruling(TRUE) \in Passing /\ authority' = Prepared(TRUE) /\ decision' = Decided(TRUE)
    <3>1. CASE BeforeExecutor
      <4>1. Prepare(TRUE, To("executor"))
        BY <3>1 DEF BeforeExecutor
      <4>2. ~Stops
        BY DEF Stops
      <4>. QED
        BY <2>1, <4>1, <4>2, PrepareCases DEF Passes
    <3>2. CASE EnsureFresh
      <4>. DEFINE rescan == IF attempt < MaxGenerations THEN "scan_baseline" ELSE "done"
                  label == IF gate = "before_reviewer" THEN "capture" ELSE "decide"
                  next == [start |-> rescan, awaited |-> rescan, reused |-> label]
                  authorize == attempt < MaxGenerations
      <4>1. Prepare(authorize, next) /\ authorize \in BOOLEAN
        BY <3>2 DEF EnsureFresh
      <4>2. next["start"] = rescan
        OBVIOUS
      <4>3. rescan = "scan_baseline" => authorize
        OBVIOUS
      <4>4. rescan \in {"scan_baseline", "done"}
        OBVIOUS
      <4>. HIDE DEF rescan, next, authorize
      <4>5. ~Stops
        BY DEF Stops
      <4>6. Passes(authorize, next)
        BY <2>1, <4>1, <4>5, PrepareCases
      <4>7. pc' = rescan
        BY <4>2, <4>6 DEF Passes
      <4>8. authorize = TRUE
        BY <4>1, <4>3, <4>4, <4>7
      <4>. QED
        BY <4>6, <4>8 DEF Passes
    <3>. QED
      BY <2>2, <3>1, <3>2
  <2>4. \/ authority' = Opened(TRUE)
        \/ ~authority.authorized /\ authority' = [authority EXCEPT !.authorized = @ \/ TRUE]
    <3>. DEFINE r == Ruling(TRUE)
    <3>1. r \in {"start", "replace"}
      BY <2>3 DEF Decided
    <3>. QED
      BY <2>1, <2>3, <3>1, PreparedCases
  <2>5. CASE authority' = Opened(TRUE)
    BY <2>1, <2>5 DEF Opened
  <2>6. CASE ~authority.authorized /\ authority' = [authority EXCEPT !.authorized = @ \/ TRUE]
    BY <2>1, <2>6 DEF TypeOK, Authorities
  <2>. QED
    BY <2>4, <2>5, <2>6
<1>2. Spec => [][Fresh]_vars
  BY <1>1, Invariant, PTL DEF Spec
<1>. QED
  BY <1>2 DEF OneTurnPerGeneration

-----------------------------------------------------------------------------
(* A run on its own: the Executor keeps to its policy, nobody else works   *)
(* in the repository or on its scans, and nothing fails.                   *)
Alone == Compliant /\ ~Others /\ ~Faults

New == Listed \ decision.observed

(* The authority waits for its scan: no other scan is left to rule on.     *)
Unserved ==
  /\ pc \in {"architect", "before_executor"} =>
       Running = {} /\ Listed \subseteq authority.baseline /\ ~authority.authorized
  /\ pc \notin {"architect", "before_executor"} =>
       /\ pc \in Working /\ authority.authorized
       /\ decision.action = "start" /\ decision.active = {}
       /\ decision.observed = authority.baseline
       /\ AtMostOne(New) /\ Running \subseteq New
       /\ \A i \in New : ledger[i].fit /\ (gate # "none" => ledger[i].digest = snap)
       /\ pc \in {"attribute", "record"} =>
            report.id \in New /\ ledger[report.id].status = "complete"

(* The authority has its scan, which alone may run.                        *)
Served ==
  LET scan == ledger[authority.selected] IN
  /\ scan.fit /\ scan.status \in {"running", "complete"}
  /\ Running \subseteq {authority.selected}
  /\ Listed \subseteq authority.baseline \cup {authority.selected}
  /\ pc \in {"architect", "before_executor"} \cup Gated => scan.digest = snap
  /\ pc \in {"ensure"} \cup Gated => scan.status = "complete"
  /\ pc = "ensure" /\ (attempt > 0 \/ gate = "after_reviewer") => scan.digest = snap
  /\ pc \in Working =>
       /\ pc \notin ScanOnly /\ gate = "none"
       /\ decision.action # "start" /\ decision.selected = authority.selected
       /\ Listed \subseteq decision.observed
       /\ \A i \in decision.active : i \in DOMAIN ledger
  /\ pc = "record" => report.id = authority.selected /\ scan.status = "complete"

(* One generation serves the first scan and one each implementation.       *)
Counted ==
  /\ authority.generation <= corrections + 2
  /\ (\/ pc \in {"architect", "before_executor", "executor"}
      \/ pc = "record" /\ gate = "none"
      \/ pc = "ensure" /\ gate = "before_reviewer" /\ attempt = 0)
       => authority.generation <= corrections + 1
  /\ pc \in ScanOnly \/ (pc = "record" /\ gate # "none") => attempt = 0 /\ gate = "before_reviewer"
  /\ pc = "ensure" => attempt <= 1 /\ (gate = "after_reviewer" => attempt = 0)
  /\ pc = "decide" => attempt = 0
  /\ pc \in {"scan_only", "attribute"} => base = snap
  /\ pc \in {"attribute", "record"} => report.by /\ report.sound /\ report.answered

QuietInv ==
  Alone =>
    /\ \A i \in DOMAIN ledger : ledger[i].status \notin {"gone", "canceled"}
    /\ ~required => /\ pc \notin ScanOnly /\ (pc = "record" => report.id = 0)
                    /\ pc = "done" => failure = "none"
    /\ required /\ pc = "before_architect" =>
         snap = 0 /\ AtMostOne(DOMAIN ledger) /\ \A i \in DOMAIN ledger : ledger[i].digest = 0
    /\ required /\ pc \notin {"before_architect", "done"} =>
         /\ authority # NoAuthority /\ Counted
         /\ authority.selected = 0 => Unserved
         /\ authority.selected # 0 => Served
    /\ required /\ pc = "done" /\ failure # "none" =>
         failure = "SECURITY_SCAN_CONFLICT" /\ \E i \in Running : ~ledger[i].fit

(* The setting stays, and alone nothing is cancelled or deleted.           *)
LEMMA AloneFacts ==
  ASSUME IInv, QuietInv, Alone
  PROVE  /\ Listed = DOMAIN ledger /\ DOMAIN ledger \subseteq Nat \ {0} /\ Running \subseteq DOMAIN ledger
         /\ \A i \in DOMAIN ledger : ledger[i].status \notin {"gone", "canceled"}
         /\ authority \in Authorities /\ authority.generation \in Nat
         /\ authority.baseline \subseteq DOMAIN ledger
         /\ authority.selected # 0 => authority.selected \in DOMAIN ledger
         /\ corrections \in 0..MaxCorrections /\ attempt \in Nat /\ MaxCorrections \in Nat
         /\ MaxGenerations = MaxCorrections + 2
<1>1. TypeOK /\ AuthorityInv
  BY DEF IInv
<1>2. MaxCorrections \in Nat /\ MaxGenerations = MaxCorrections + 2 /\ MaxGenerations \in Nat
  BY <1>1, SettingType DEF TypeOK
<1>3. DOMAIN ledger \subseteq Nat \ {0} /\ Running \subseteq DOMAIN ledger
  BY <1>1, LedgerFacts DEF TypeOK
<1>4. \A i \in DOMAIN ledger : ledger[i].status \notin {"gone", "canceled"}
  BY DEF QuietInv
<1>5. Listed = DOMAIN ledger
  BY <1>4 DEF Listed
<1>. QED
  BY <1>1, <1>2, <1>3, <1>4, <1>5 DEF TypeOK, AuthorityInv, Authorities

(* Alone, a gate stops the run only where it finds a scan of another       *)
(* policy at work.                                                         *)
LEMMA QuietRuling ==
  ASSUME IInv, QuietInv, Alone, required, NEW authorize \in BOOLEAN,
         pc \in {"before_architect", "before_executor", "ensure"}
  PROVE  LET r == Ruling(authorize) IN
         /\ pc = "before_architect" =>
              \/ r = "start" /\ Running = {}
              \/ r = "awaited" /\ AtMostOne(Running) /\ \A i \in Running : ledger[i].fit
              \/ r = "SECURITY_SCAN_CONFLICT" /\ \E i \in Running : ~ledger[i].fit
         /\ pc = "before_executor" =>
              \/ r = "start" /\ authority.selected = 0
              \/ r \in {"awaited", "reused"} /\ authority.selected # 0
         /\ pc = "ensure" =>
              /\ authority.selected # 0 /\ Running = {}
              /\ \/ r = "replace" /\ gate = "before_reviewer" /\ attempt = 0
                    /\ authority.generation <= corrections + 1
                 \/ r = "reused"
<1>. DEFINE r == Ruling(authorize)
            s == authority.selected
<1>1. /\ Listed = DOMAIN ledger /\ DOMAIN ledger \subseteq Nat \ {0} /\ Running \subseteq DOMAIN ledger
      /\ \A i \in DOMAIN ledger : ledger[i].status \notin {"gone", "canceled"}
      /\ authority.baseline \subseteq DOMAIN ledger
      /\ s # 0 => s \in DOMAIN ledger
  BY AloneFacts
<1>2. CASE pc = "before_architect"
  <2>1. authority = NoAuthority /\ AtMostOne(DOMAIN ledger)
    BY <1>2 DEF IInv, FlowInv, QuietInv
  <2>2. r = Arbitrate /\ AtMostOne(Running)
    BY <1>1, <2>1 DEF Ruling, AtMostOne
  <2>. QED
    BY <1>2, <2>2 DEF Arbitrate
<1>3. CASE pc = "before_executor"
  <2>1. authority # NoAuthority /\ (s = 0 => Unserved) /\ (s # 0 => Served)
    BY <1>3 DEF QuietInv
  <2>2. CASE s = 0
    <3>1. Running = {} /\ Listed \subseteq authority.baseline /\ ~authority.authorized
      BY <1>3, <2>1, <2>2 DEF Unserved
    <3>2. Continue = "start"
      BY <2>2, <3>1 DEF Continue
    <3>. QED
      BY <1>3, <2>1, <2>2, <3>1, <3>2 DEF Ruling
  <2>3. CASE s # 0
    <3>1. /\ ledger[s].status \in {"running", "complete"} /\ Running \subseteq {s}
          /\ Listed \subseteq authority.baseline \cup {s} /\ ledger[s].digest = snap
      BY <1>3, <2>1, <2>3 DEF Served
    <3>2. Continue \in {"awaited", "reused"}
      BY <1>1, <2>3, <3>1 DEF Continue
    <3>. QED
      BY <1>3, <2>1, <2>3, <3>2 DEF Ruling
  <2>. QED
    BY <2>2, <2>3
<1>4. CASE pc = "ensure"
  <2>1. authority # NoAuthority /\ Counted /\ (s = 0 => Unserved) /\ (s # 0 => Served)
    BY <1>4 DEF QuietInv
  <2>2. s # 0
    BY <1>4, <2>1 DEF Unserved, Working, ScanOnly
  <2>3. /\ ledger[s].status = "complete" /\ Running \subseteq {s}
        /\ Listed \subseteq authority.baseline \cup {s}
        /\ attempt > 0 \/ gate = "after_reviewer" => ledger[s].digest = snap
    BY <1>4, <2>1, <2>2 DEF Served
  <2>4. Running = {}
    BY <2>3 DEF Running
  <2>5. Continue = IF ledger[s].digest = snap THEN "reused" ELSE "SECURITY_SCAN_SNAPSHOT_STALE"
    BY <1>1, <2>2, <2>3, <2>4 DEF Continue
  <2>6. CASE ledger[s].digest = snap
    BY <1>4, <2>1, <2>2, <2>4, <2>5, <2>6 DEF Ruling
  <2>7. CASE ledger[s].digest # snap
    <3>1. gate = "before_reviewer" /\ attempt = 0
      BY <1>4, <2>3, <2>7, AloneFacts DEF IInv, FlowInv, TypeOK
    <3>2. authority.generation <= corrections + 1
      BY <1>4, <2>1, <3>1 DEF Counted
    <3>3. ~(authority.generation >= MaxGenerations)
      BY <3>2, AloneFacts
    <3>4. r = "replace"
      BY <2>1, <2>4, <2>5, <2>7, <3>3 DEF Ruling, Arbitrate
    <3>. QED
      BY <1>4, <2>2, <2>4, <3>1, <3>2, <3>4
  <2>. QED
    BY <2>6, <2>7
<1>. QED
  BY <1>2, <1>3, <1>4

LEMMA SameAlone ==
  ASSUME setting' = setting
  PROVE  Alone' = Alone
BY DEF Alone, Compliant, Others, Faults

(* Scans of a run on its own.                                              *)
LEMMA QuietScan ==
  ASSUME IInv, QuietInv, Alone, ScanSteps
  PROVE  QuietInv'
<1>1. /\ UNCHANGED <<snap, pc, authority, decision, report, base, failure, checked, seen, tainted>>
      /\ UNCHANGED <<setting, required, attempt, gate, corrections, verdict>>
      /\ TypeOK /\ Alone'
  BY ScanStep, SameAlone DEF IInv, host, history
<1>2. /\ Listed = DOMAIN ledger /\ DOMAIN ledger \subseteq Nat \ {0} /\ Running \subseteq DOMAIN ledger
      /\ \A i \in DOMAIN ledger : ledger[i].status \notin {"gone", "canceled"}
      /\ authority.baseline \subseteq DOMAIN ledger
      /\ authority.selected # 0 => authority.selected \in DOMAIN ledger
  BY AloneFacts
<1>3. CASE AgentStartsScan
  <2>. DEFINE scan == [status |-> "running", digest |-> snap, fit |-> TRUE]
              n == Len(ledger) + 1
  <2>1. /\ pc \in {"executor", "scan_only"} /\ decision.action = "start"
        /\ Listed \subseteq decision.observed /\ ledger' = Append(ledger, scan)
    BY <1>3 DEF AgentStartsScan, ExecutorTurn, NewScan, Alone
  <2>2. scan \in Scans /\ scan.status = "running" /\ scan.fit /\ scan.digest = snap
    BY <1>1 DEF TypeOK, Scans, Statuses
  <2>. HIDE DEF scan
  <2>3. /\ DOMAIN ledger' = DOMAIN ledger \cup {n} /\ n \notin DOMAIN ledger /\ n # 0
        /\ ledger'[n] = scan /\ \A i \in DOMAIN ledger : ledger'[i] = ledger[i]
    BY <1>1, <2>1, <2>2 DEF TypeOK
  <2>. HIDE DEF n
  <2>4. \A i \in DOMAIN ledger' : ledger'[i].status \notin {"gone", "canceled"}
    BY <1>2, <2>2, <2>3
  <2>5. ~required => QuietInv'
    BY <1>1, <2>1, <2>4 DEF QuietInv
  <2>6. CASE required
    <3>1. authority # NoAuthority /\ Counted
          /\ (authority.selected = 0 => Unserved) /\ (authority.selected # 0 => Served)
      BY <2>1, <2>6 DEF QuietInv
    <3>2. authority.selected = 0 /\ Unserved
      BY <2>1, <3>1 DEF Served, Working, ScanOnly
    <3>3. decision.observed = authority.baseline /\ New = {} /\ Running = {} /\ decision.active = {}
          /\ authority.authorized
      BY <1>2, <2>1, <3>2 DEF Unserved, New
    <3>4. Listed' = DOMAIN ledger \cup {n} /\ Running' = {n}
      BY <2>2, <2>3, <2>4, <3>3, <1>2 DEF Listed, Running
    <3>5. New' = {n}
      BY <1>1, <1>2, <2>1, <2>3, <3>3, <3>4 DEF New
    <3>6. Unserved'
      BY <1>1, <2>1, <2>2, <2>3, <3>3, <3>4, <3>5 DEF Unserved, Working, ScanOnly, AtMostOne
    <3>7. Counted'
      BY <1>1, <3>1 DEF Counted
    <3>. QED
      BY <1>1, <2>1, <2>4, <2>6, <3>1, <3>2, <3>6, <3>7 DEF QuietInv
  <2>. QED
    BY <2>5, <2>6 DEF IInv, TypeOK
<1>4. CASE ScanEnds
  <2>1. PICK i \in Running : ledger' = [ledger EXCEPT ![i].status = "complete"]
    BY <1>4 DEF ScanEnds, Alone
  <2>2. pc # "done" /\ i \in DOMAIN ledger /\ ledger[i].status = "running"
    BY <1>2, <1>4, <2>1 DEF ScanEnds, Running
  <2>3. /\ DOMAIN ledger' = DOMAIN ledger
        /\ \A j \in DOMAIN ledger : ledger'[j].digest = ledger[j].digest /\ ledger'[j].fit = ledger[j].fit
        /\ \A j \in DOMAIN ledger : ledger'[j].status = IF j = i THEN "complete" ELSE ledger[j].status
    <3>1. ledger \in Seq(Scans) /\ \A j \in DOMAIN ledger : ledger[j] \in Scans
      BY <1>1, LedgerFacts DEF TypeOK
    <3>. DEFINE scan == [ledger[i] EXCEPT !.status = "complete"]
    <3>2. scan.digest = ledger[i].digest /\ scan.fit = ledger[i].fit /\ scan.status = "complete"
      BY <2>2, <3>1 DEF Scans
    <3>3. ledger' = [ledger EXCEPT ![i] = scan]
      BY <2>1
    <3>. HIDE DEF scan
    <3>. QED
      BY <2>2, <3>1, <3>2, <3>3
  <2>4. Listed' = Listed /\ Running' = Running \ {i} /\ New' = New
    BY <1>1, <1>2, <2>2, <2>3 DEF Listed, Running, New
  <2>5. \A j \in DOMAIN ledger' : ledger'[j].status \notin {"gone", "canceled"}
    BY <1>2, <2>3
  <2>6. Unserved => Unserved'
    BY <1>1, <1>2, <2>2, <2>3, <2>4 DEF Unserved, Working, ScanOnly, AtMostOne, New
  <2>7. authority.selected # 0 /\ Served => Served'
    BY <1>1, <1>2, <2>2, <2>3, <2>4 DEF Served
  <2>8. Counted => Counted'
    BY <1>1 DEF Counted
  <2>. QED
    BY <1>1, <2>2, <2>3, <2>5, <2>6, <2>7, <2>8 DEF QuietInv
<1>. QED
  BY <1>3, <1>4 DEF ScanSteps, OthersStartScan, ScanDisappears, Alone

LEMMA QuietEdit ==
  ASSUME IInv, QuietInv, Alone, AgentEdits \/ OthersEdit
  PROVE  QuietInv'
<1>1. /\ UNCHANGED <<ledger, pc, authority, decision, report, base, failure>>
      /\ UNCHANGED <<setting, required, attempt, gate, corrections>> /\ pc = "executor"
  BY DEF AgentEdits, OthersEdit, ExecutorTurn, Alone, host
<1>2. Listed' = Listed /\ Running' = Running /\ New' = New
  BY <1>1 DEF Listed, Running, New
<1>3. gate = "none"
  BY <1>1 DEF IInv, FlowInv
<1>4. Unserved => Unserved'
  BY <1>1, <1>2, <1>3 DEF Unserved
<1>5. Served => Served'
  BY <1>1, <1>2 DEF Served, Gated
<1>6. Counted => Counted'
  BY <1>1 DEF Counted
<1>. QED
  BY <1>1, <1>4, <1>5, <1>6, SameAlone DEF QuietInv

(* Where a gate leads a run on its own.                                    *)
QuietLeads ==
  \/ pc = "before_architect" /\ pc' = "architect"
  \/ pc = "before_executor" /\ pc' = "executor"
  \/ pc = "ensure" /\ gate = "before_reviewer"
     /\ pc' = IF required /\ decision'.action # "reused" THEN "scan_baseline" ELSE "capture"
  \/ pc = "ensure" /\ gate # "before_reviewer"
     /\ (~required \/ decision'.action = "reused" => pc' = "decide")

LEMMA QuietPass ==
  ASSUME IInv, QuietInv, Alone, required, NEW authorize \in BOOLEAN, NEW next,
         Passes(authorize, next), QuietLeads,
         pc = "before_architect" => ~authorize,
         pc = "before_executor" => authorize,
         pc = "ensure" /\ attempt = 0 => authorize
  PROVE  QuietInv'
<1>. DEFINE r == Ruling(authorize)
            a == Prepared(authorize)
            s == authority.selected
<1>1. /\ UNCHANGED <<snap, ledger, report, base, setting, required, attempt, gate, corrections>>
      /\ r \in Passing /\ authority' = a /\ decision' = Decided(authorize)
      /\ pc \in {"before_architect", "before_executor", "ensure"} /\ Alone'
  BY SameAlone DEF Passes, QuietLeads, host
<1>2. decision' = [action |-> IF r = "replace" THEN "start" ELSE r, selected |-> authority'.selected,
                   observed |-> Listed, active |-> Running]
  BY <1>1 DEF Decided
<1>3. /\ Listed = DOMAIN ledger /\ DOMAIN ledger \subseteq Nat \ {0} /\ Running \subseteq DOMAIN ledger
      /\ \A i \in DOMAIN ledger : ledger[i].status \notin {"gone", "canceled"}
      /\ authority.baseline \subseteq DOMAIN ledger
      /\ authority \in Authorities /\ authority.generation \in Nat
      /\ s # 0 => s \in DOMAIN ledger
      /\ corrections \in Nat /\ attempt \in Nat
  BY AloneFacts
<1>4. \/ /\ r \in {"start", "replace"} /\ authority' = Opened(authorize)
         /\ r = "start" => authority = NoAuthority
         /\ r = "replace" => s # 0
      \/ r = "awaited" /\ authority = NoAuthority /\ \E i \in Running : authority' = Observing(i)
      \/ /\ r = "start" /\ authority # NoAuthority
         /\ authority.state = Unclaimed /\ s = 0
         /\ Listed \subseteq authority.baseline
         /\ authority' = [authority EXCEPT !.authorized = @ \/ authorize]
      \/ /\ r = "reused" /\ s # 0 /\ s \in Listed /\ ledger[s].digest = snap
         /\ authority' = [authority EXCEPT !.state = "completed_fresh"]
      \/ /\ r = "awaited" /\ s \in Running
         /\ authority' = [authority EXCEPT !.state = "existing_authority"]
  <2>1. TypeOK /\ AuthorityInv /\ pc # "done"
    BY <1>1 DEF IInv
  <2>. QED
    BY <1>1, <2>1, PreparedCases
<1>5. Listed' = Listed /\ Running' = Running
  BY <1>1 DEF Listed, Running
<1>6. /\ pc = "before_architect" => authority = NoAuthority
      /\ authority = NoAuthority => pc = "before_architect"
  BY <1>1 DEF IInv, FlowInv, QuietInv
<1>7. New' = {} /\ decision'.observed = Listed /\ decision'.active = Running
      /\ decision'.selected = authority'.selected
      /\ decision'.action = IF r = "replace" THEN "start" ELSE r
  BY <1>2, <1>5 DEF New
<1>8. authority' # NoAuthority
  BY <1>1, PassFacts
<1>9. /\ pc = "before_architect" =>
           \/ r = "start" /\ Running = {}
           \/ r = "awaited" /\ AtMostOne(Running) /\ \A i \in Running : ledger[i].fit
      /\ pc = "before_executor" =>
           \/ r = "start" /\ s = 0
           \/ r \in {"awaited", "reused"} /\ s # 0
      /\ pc = "ensure" =>
           /\ s # 0 /\ Running = {}
           /\ \/ r = "replace" /\ gate = "before_reviewer" /\ attempt = 0
                 /\ authority.generation <= corrections + 1
              \/ r = "reused"
  BY <1>1, QuietRuling DEF Passing
<1>10. pc # "before_architect" =>
         Counted /\ (s = 0 => Unserved) /\ (s # 0 => Served)
  BY <1>1 DEF QuietInv
<1>. HIDE DEF r, a
<1>11. SUFFICES pc' \notin {"done", "before_architect"} /\ Counted'
                /\ (authority'.selected = 0 => Unserved')
                /\ (authority'.selected # 0 => Served')
  BY <1>1, <1>3, <1>8 DEF QuietInv
<1>12. CASE pc = "before_architect"
  <2>1. pc' = "architect" /\ authority.generation = 0 /\ s = 0 /\ ~authorize
        /\ snap = 0 /\ \A i \in DOMAIN ledger : ledger[i].digest = 0
    BY <1>1, <1>6, <1>12 DEF QuietLeads, NoAuthority, QuietInv
  <2>2. CASE r = "start" /\ Running = {}
    <3>1. authority' = Opened(authorize)
      BY <1>4, <1>6, <1>12, <2>2
    <3>2. authority'.selected = 0 /\ Unserved'
      BY <1>5, <2>1, <2>2, <3>1 DEF Unserved, Opened
    <3>3. Counted'
      BY <1>1, <1>3, <2>1, <3>1 DEF Counted, Opened, ScanOnly
    <3>. QED
      BY <2>1, <3>2, <3>3
  <2>3. CASE r = "awaited" /\ AtMostOne(Running) /\ \A i \in Running : ledger[i].fit
    <3>1. PICK i \in Running : authority' = Observing(i)
      BY <1>3, <1>4, <1>6, <1>12, <2>1, <2>3
    <3>2. i \in DOMAIN ledger /\ i # 0 /\ ledger[i].status = "running" /\ ledger[i].fit
          /\ Running \subseteq {i}
      BY <1>3, <2>3, <3>1 DEF Running, AtMostOne
    <3>3. /\ authority'.selected = i /\ authority'.baseline = Listed
          /\ authority'.generation = authority.generation + 1
      BY <3>1 DEF Observing
    <3>4. Served'
      BY <1>1, <1>3, <1>5, <2>1, <3>2, <3>3 DEF Served, Working, ScanOnly, Gated
    <3>5. Counted'
      BY <1>1, <1>3, <2>1, <3>3 DEF Counted, ScanOnly
    <3>. QED
      BY <2>1, <3>2, <3>3, <3>4, <3>5
  <2>. QED
    BY <1>9, <1>12, <2>2, <2>3
<1>13. CASE pc = "before_executor"
  <2>1. pc' = "executor" /\ authorize = TRUE /\ gate' = "none"
    BY <1>1, <1>13 DEF QuietLeads, IInv, FlowInv
  <2>2. Counted'
    <3>1. authority'.generation = authority.generation
      BY <1>3, <1>4, <1>6, <1>9, <1>13 DEF Authorities
    <3>. QED
      BY <1>1, <1>10, <1>13, <2>1, <3>1 DEF Counted, ScanOnly
  <2>3. CASE r = "start" /\ s = 0
    <3>1. /\ Listed \subseteq authority.baseline
          /\ authority' = [authority EXCEPT !.authorized = @ \/ TRUE]
      BY <1>4, <1>6, <1>13, <2>1, <2>3
    <3>2. authority'.authorized /\ authority'.baseline = authority.baseline /\ authority'.selected = 0
      BY <1>3, <2>3, <3>1 DEF Authorities
    <3>3. Running = {}
      BY <1>10, <1>13, <2>3 DEF Unserved
    <3>4. decision'.observed = authority'.baseline
      BY <1>3, <1>7, <3>1, <3>2
    <3>5. Unserved'
      BY <1>5, <1>7, <2>1, <2>3, <3>2, <3>3, <3>4 DEF Unserved, Working, AtMostOne
    <3>. QED
      BY <2>1, <2>2, <3>2, <3>5
  <2>4. CASE r \in {"awaited", "reused"} /\ s # 0
    <3>1. authority'.selected = s /\ authority'.baseline = authority.baseline
      BY <1>3, <1>4, <1>6, <1>13, <2>4 DEF Authorities
    <3>2. Served'
      BY <1>1, <1>3, <1>5, <1>7, <1>10, <1>13, <2>1, <2>4, <3>1 DEF Served, Working, ScanOnly, Gated
    <3>. QED
      BY <2>1, <2>2, <2>4, <3>1, <3>2
  <2>. QED
    BY <1>9, <1>13, <2>3, <2>4
<1>14. CASE pc = "ensure"
  <2>1. CASE r = "replace"
    <3>1. /\ gate = "before_reviewer" /\ attempt = 0 /\ authorize = TRUE
          /\ authority.generation <= corrections + 1
      BY <1>9, <1>14, <2>1
    <3>2. pc' = "scan_baseline" /\ decision'.action = "start"
      BY <1>7, <1>14, <2>1, <3>1 DEF QuietLeads
    <3>3. authority' = Opened(TRUE)
      BY <1>4, <2>1, <3>1
    <3>4. Counted'
      BY <1>1, <1>3, <3>1, <3>2, <3>3 DEF Counted, Opened
    <3>5. Unserved' /\ authority'.selected = 0
      BY <1>1, <1>5, <1>7, <1>9, <1>14, <3>2, <3>3 DEF Unserved, Opened, Working, ScanOnly, AtMostOne
    <3>. QED
      BY <3>2, <3>4, <3>5
  <2>2. CASE r = "reused"
    <3>1. s # 0 /\ ledger[s].digest = snap /\ authority' = [authority EXCEPT !.state = "completed_fresh"]
      BY <1>4, <2>2
    <3>2. /\ authority'.selected = s /\ authority'.baseline = authority.baseline
          /\ authority'.generation = authority.generation
      BY <1>3, <3>1 DEF Authorities
    <3>3. pc' = (IF gate = "before_reviewer" THEN "capture" ELSE "decide")
      BY <1>7, <1>14, <2>2 DEF QuietLeads
    <3>4. gate \in {"before_reviewer", "after_reviewer"}
      BY <1>14 DEF IInv, TypeOK, FlowInv
    <3>5. Counted'
      BY <1>1, <1>10, <1>14, <3>2, <3>3, <3>4 DEF Counted, ScanOnly
    <3>6. Served'
      BY <1>1, <1>5, <1>10, <1>14, <3>1, <3>2, <3>3 DEF Served, Working, ScanOnly
    <3>. QED
      BY <3>1, <3>2, <3>3, <3>5, <3>6
  <2>. QED
    BY <1>9, <1>14, <2>1, <2>2
<1>. QED
  BY <1>1, <1>12, <1>13, <1>14

LEMMA QuietPrepare ==
  ASSUME IInv, QuietInv, Alone, NEW authorize \in BOOLEAN, NEW next, Prepare(authorize, next),
         Passes(authorize, next) => QuietLeads,
         pc \in {"before_architect", "before_executor", "ensure"},
         pc = "before_architect" => ~authorize,
         pc = "before_executor" => authorize,
         pc = "ensure" /\ attempt = 0 => authorize
  PROVE  QuietInv'
<1>1. CASE required /\ Ruling(authorize) \notin Passing
  <2>1. Ruling(authorize) = "SECURITY_SCAN_CONFLICT" /\ \E i \in Running : ~ledger[i].fit
    BY <1>1, QuietRuling DEF Passing
  <2>2. /\ UNCHANGED <<ledger, setting, required>> /\ pc' = "done"
        /\ failure' = "SECURITY_SCAN_CONFLICT"
    BY <1>1, <2>1 DEF Prepare, Fail, host
  <2>3. Running' = Running
    BY <2>2 DEF Running, Listed
  <2>. QED
    BY <1>1, <2>1, <2>2, <2>3, SameAlone DEF QuietInv
<1>2. CASE ~(required /\ Ruling(authorize) \notin Passing)
  <2>1. Passes(authorize, next)
    BY <1>2 DEF Prepare, Passes
  <2>2. CASE required
    BY <2>1, <2>2, QuietPass
  <2>3. CASE ~required
    <3>1. UNCHANGED <<ledger, setting, required>>
      BY <2>1 DEF Passes, host
    <3>2. pc' \in {"architect", "executor", "capture", "decide"}
      BY <2>1, <2>3 DEF QuietLeads
    <3>. QED
      BY <2>3, <3>1, <3>2, SameAlone DEF QuietInv, ScanOnly
  <2>. QED
    BY <2>2, <2>3
<1>. QED
  BY <1>1, <1>2

LEMMA QuietGate ==
  ASSUME IInv, QuietInv, Alone, BeforeArchitect \/ BeforeExecutor \/ EnsureFresh
  PROVE  QuietInv'
<1>1. CASE BeforeArchitect
  <2>1. pc = "before_architect" /\ pc # "done" /\ Prepare(FALSE, To("architect"))
    BY <1>1 DEF BeforeArchitect
  <2>2. Passes(FALSE, To("architect")) => QuietLeads
    <3>. SUFFICES ASSUME Passes(FALSE, To("architect")) PROVE pc' = "architect"
      BY <2>1 DEF QuietLeads
    <3>1. \A a \in {"start", "awaited", "reused"} : To("architect")[a] = "architect"
      BY DEF To
    <3>2. \/ required /\ decision'.action \in {"start", "awaited", "reused"}
             /\ pc' = To("architect")[decision'.action]
          \/ ~required /\ pc' = To("architect")["reused"]
      BY <2>1, PassFacts
    <3>. QED
      BY <3>1, <3>2
  <2>. QED
    BY <2>1, <2>2, QuietPrepare
<1>2. CASE BeforeExecutor
  <2>1. pc = "before_executor" /\ pc # "done" /\ Prepare(TRUE, To("executor"))
    BY <1>2 DEF BeforeExecutor
  <2>2. Passes(TRUE, To("executor")) => QuietLeads
    <3>. SUFFICES ASSUME Passes(TRUE, To("executor")) PROVE pc' = "executor"
      BY <2>1 DEF QuietLeads
    <3>1. \A a \in {"start", "awaited", "reused"} : To("executor")[a] = "executor"
      BY DEF To
    <3>2. \/ required /\ decision'.action \in {"start", "awaited", "reused"}
             /\ pc' = To("executor")[decision'.action]
          \/ ~required /\ pc' = To("executor")["reused"]
      BY <2>1, PassFacts
    <3>. QED
      BY <3>1, <3>2
  <2>. QED
    BY <2>1, <2>2, QuietPrepare
<1>3. CASE EnsureFresh
  <2>. DEFINE rescan == IF attempt < MaxGenerations THEN "scan_baseline" ELSE "done"
              label == IF gate = "before_reviewer" THEN "capture" ELSE "decide"
              next == [start |-> rescan, awaited |-> rescan, reused |-> label]
              authorize == attempt < MaxGenerations
  <2>1. pc = "ensure" /\ pc # "done" /\ authorize \in BOOLEAN /\ Prepare(authorize, next)
    BY <1>3 DEF EnsureFresh
  <2>2. next["start"] = rescan /\ next["awaited"] = rescan /\ next["reused"] = label
    OBVIOUS
  <2>3. attempt = 0 => authorize
    BY AloneFacts
  <2>4. gate = "before_reviewer" /\ required => rescan = "scan_baseline"
    <3>. SUFFICES ASSUME gate = "before_reviewer", required PROVE attempt < MaxGenerations
      OBVIOUS
    <3>1. attempt <= 1
      BY <2>1 DEF QuietInv, Counted
    <3>. QED
      BY <3>1, AloneFacts
  <2>. HIDE DEF rescan, next, authorize
  <2>5. Passes(authorize, next) => QuietLeads
    <3>. SUFFICES ASSUME Passes(authorize, next) PROVE QuietLeads
      OBVIOUS
    <3>1. \/ required /\ decision'.action \in {"start", "awaited", "reused"} /\ pc' = next[decision'.action]
          \/ ~required /\ pc' = next["reused"]
      BY <2>1, PassFacts
    <3>. QED
      BY <2>1, <2>2, <2>4, <3>1 DEF QuietLeads
  <2>. QED
    BY <2>1, <2>3, <2>5, QuietPrepare
<1>. QED
  BY <1>1, <1>2, <1>3

(* A truthful report is accepted: it names the one scan that serves the    *)
(* authority, and no other scan is left to dispute it.                     *)
LEMMA QuietFlaw ==
  ASSUME IInv, QuietInv, Alone, pc = "record"
  PROVE  /\ Flaw(report) = "none"
         /\ required => /\ report.id \in DOMAIN ledger /\ ledger[report.id].fit
                        /\ ledger[report.id].status = "complete" /\ Running \subseteq {report.id}
                        /\ Listed \subseteq authority.baseline \cup {report.id}
                        /\ gate # "none" => ledger[report.id].digest = snap
<1>1. CASE ~required
  BY <1>1 DEF QuietInv, Flaw
<1>2. CASE required
  <2>. DEFINE s == authority.selected
  <2>1. /\ Listed = DOMAIN ledger /\ DOMAIN ledger \subseteq Nat \ {0} /\ Running \subseteq DOMAIN ledger
        /\ \A i \in DOMAIN ledger : ledger[i].status \notin {"gone", "canceled"}
        /\ authority.baseline \subseteq DOMAIN ledger
        /\ s # 0 => s \in DOMAIN ledger
    BY AloneFacts
  <2>2. Counted /\ (s = 0 => Unserved) /\ (s # 0 => Served) /\ report.by /\ report.sound
    BY <1>2 DEF QuietInv, Counted
  <2>3. authority.state = Unclaimed <=> s = 0
    BY <1>2, <2>2 DEF IInv, AuthorityInv, QuietInv
  <2>4. CASE s = 0
    <3>1. /\ authority.authorized /\ decision.action = "start" /\ decision.active = {}
          /\ decision.observed = authority.baseline /\ AtMostOne(New) /\ Running \subseteq New
          /\ \A i \in New : ledger[i].fit /\ (gate # "none" => ledger[i].digest = snap)
          /\ report.id \in New /\ ledger[report.id].status = "complete"
      BY <2>2, <2>4 DEF Unserved
    <3>2. New = Listed \ authority.baseline /\ Running = {} /\ New = {report.id}
      BY <3>1 DEF New, AtMostOne, Running
    <3>3. ~Disputed(report)
      BY <2>1, <3>1, <3>2 DEF Disputed, New, AtMostOne
    <3>4. Backed(report)
      BY <2>2, <3>1, <3>2 DEF Backed, New
    <3>5. Flaw(report) = "none"
      BY <1>2, <2>2, <2>4, <3>1, <3>3, <3>4 DEF Flaw
    <3>. QED
      BY <2>1, <3>1, <3>2, <3>5
  <2>5. CASE s # 0
    <3>1. /\ report.id = s /\ ledger[s].status = "complete" /\ ledger[s].fit /\ gate = "none"
          /\ decision.action # "start" /\ decision.selected = s
          /\ Listed \subseteq decision.observed /\ Listed \subseteq authority.baseline \cup {s}
          /\ \A i \in decision.active : i \in DOMAIN ledger
          /\ Running \subseteq {s}
      BY <2>2, <2>5 DEF Served, Working
    <3>2. Running = {}
      BY <3>1 DEF Running
    <3>3. ~Disputed(report)
      BY <2>1, <2>3, <2>5, <3>1, <3>2 DEF Disputed, AtMostOne
    <3>4. Backed(report)
      BY <2>1, <2>2, <2>5, <3>1 DEF Backed
    <3>5. Flaw(report) = "none"
      BY <1>2, <2>2, <2>3, <2>5, <3>1, <3>3, <3>4 DEF Flaw
    <3>. QED
      BY <2>1, <2>5, <3>1, <3>2, <3>5
  <2>. QED
    BY <2>4, <2>5
<1>. QED
  BY <1>1, <1>2 DEF IInv, TypeOK

LEMMA QuietRecord ==
  ASSUME IInv, QuietInv, Alone, RecordResult
  PROVE  QuietInv'
<1>1. /\ pc = "record" /\ pc' = "ensure" /\ UNCHANGED <<snap, ledger, decision, setting, required, corrections>>
      /\ authority' = (IF required THEN Recorded(report) ELSE authority)
      /\ gate' = (IF gate = "none" THEN "before_reviewer" ELSE gate)
      /\ attempt' = (IF gate = "none" THEN 0 ELSE attempt + 1)
  BY QuietFlaw DEF RecordResult
<1>2. CASE ~required
  BY <1>1, <1>2, SameAlone DEF QuietInv, ScanOnly
<1>3. CASE required
  <2>1. /\ report.id \in DOMAIN ledger /\ ledger[report.id].fit
        /\ ledger[report.id].status = "complete" /\ Running \subseteq {report.id}
        /\ Listed \subseteq authority.baseline \cup {report.id}
        /\ gate # "none" => ledger[report.id].digest = snap
    BY <1>1, <1>3, QuietFlaw
  <2>2. /\ authority \in Authorities /\ authority.generation \in Nat
        /\ DOMAIN ledger \subseteq Nat \ {0} /\ attempt \in Nat
    BY AloneFacts
  <2>3. /\ authority'.selected = report.id /\ authority'.baseline = authority.baseline
        /\ authority'.generation = authority.generation
    BY <1>1, <1>3, <2>2 DEF Recorded, Authorities
  <2>4. /\ authority.generation <= corrections + 2
        /\ gate = "none" => authority.generation <= corrections + 1
        /\ gate # "none" => attempt = 0 /\ gate = "before_reviewer"
    BY <1>1, <1>3 DEF QuietInv, Counted
  <2>5. Counted'
    BY <1>1, <2>2, <2>3, <2>4 DEF Counted, ScanOnly
  <2>6. Listed' = Listed /\ Running' = Running
    BY <1>1 DEF Listed, Running
  <2>7. Served'
    BY <1>1, <2>1, <2>2, <2>3, <2>4, <2>6 DEF Served, Working, ScanOnly, Gated
  <2>8. authority'.selected # 0 /\ authority' # NoAuthority
    BY <2>1, <2>2, <2>3 DEF NoAuthority
  <2>. QED
    BY <1>1, <1>3, <2>5, <2>7, <2>8, SameAlone DEF QuietInv
<1>. QED
  BY <1>2, <1>3

LEMMA QuietTurn ==
  ASSUME IInv, QuietInv, Alone, ArchitectEnds \/ ExecutorEnds
  PROVE  QuietInv'
<1>1. /\ UNCHANGED <<snap, ledger, authority, decision, base, failure>>
      /\ UNCHANGED <<setting, required, attempt, gate, corrections>> /\ Alone'
  BY SameAlone DEF ArchitectEnds, ExecutorEnds, Alone, host
<1>2. Listed' = Listed /\ Running' = Running /\ New' = New
  BY <1>1 DEF Listed, Running, New
<1>3. CASE ArchitectEnds
  <2>1. pc = "architect" /\ pc' = "before_executor"
    BY <1>3 DEF ArchitectEnds
  <2>2. Unserved => Unserved'
    BY <1>1, <1>2, <2>1 DEF Unserved
  <2>3. Served => Served'
    BY <1>1, <1>2, <2>1 DEF Served, Working, ScanOnly, Gated
  <2>4. Counted => Counted'
    BY <1>1, <2>1 DEF Counted, ScanOnly
  <2>. QED
    BY <1>1, <2>1, <2>2, <2>3, <2>4 DEF QuietInv, ScanOnly
<1>4. CASE ExecutorEnds
  <2>1. /\ \/ pc = "executor" /\ pc' = "record"
           \/ pc = "scan_only" /\ pc' = "attribute"
        /\ report'.answered /\ Truthful(report')
    BY <1>4 DEF ExecutorEnds, ExecutorTurn, Alone
  <2>2. /\ report'.by /\ report'.sound
        /\ ~required => report'.id = 0
        /\ required /\ decision.action = "start" => report'.id \in New
        /\ required /\ decision.action # "start" => report'.id = decision.selected
        /\ report'.id # 0 => ledger[report'.id].status = "complete"
    BY <2>1 DEF Truthful, New
  <2>3. pc = "executor" => gate = "none"
    BY DEF IInv, FlowInv
  <2>4. DOMAIN ledger \subseteq Nat \ {0} /\ Listed = DOMAIN ledger
    BY AloneFacts
  <2>5. CASE ~required
    <3>1. pc' = "record"
      BY <2>1, <2>5 DEF QuietInv, ScanOnly
    <3>. QED
      BY <1>1, <2>2, <2>5, <3>1 DEF QuietInv, ScanOnly
  <2>6. CASE required
    <3>1. /\ authority # NoAuthority /\ Counted
          /\ (authority.selected = 0 => Unserved) /\ (authority.selected # 0 => Served)
      BY <2>1, <2>6 DEF QuietInv
    <3>2. authority.selected = 0 => Unserved'
      <4>. SUFFICES ASSUME authority.selected = 0 PROVE Unserved'
        OBVIOUS
      <4>1. /\ decision.action = "start" /\ authority.authorized /\ decision.active = {}
            /\ decision.observed = authority.baseline
            /\ AtMostOne(New) /\ Running \subseteq New
            /\ \A i \in New : ledger[i].fit /\ (gate # "none" => ledger[i].digest = snap)
        BY <2>1, <3>1 DEF Unserved
      <4>2. report'.id \in New /\ report'.id # 0
        BY <2>2, <2>4, <2>6, <4>1 DEF New
      <4>. QED
        BY <1>1, <1>2, <2>1, <2>2, <4>1, <4>2 DEF Unserved, Working, ScanOnly, AtMostOne
    <3>3. authority.selected # 0 => Served'
      <4>. SUFFICES ASSUME authority.selected # 0 PROVE Served'
        OBVIOUS
      <4>1. pc = "executor" /\ pc' = "record" /\ gate = "none"
        BY <2>1, <3>1 DEF Served, Working, ScanOnly
      <4>2. report'.id = authority.selected /\ ledger[authority.selected].status = "complete"
        BY <2>2, <2>6, <3>1, <4>1 DEF Served, Working
      <4>. QED
        BY <1>1, <1>2, <3>1, <4>1, <4>2 DEF Served, Working, ScanOnly, Gated
    <3>4. Counted'
      BY <1>1, <2>1, <2>2, <2>3, <3>1 DEF Counted, ScanOnly
    <3>. QED
      BY <1>1, <2>1, <2>6, <3>1, <3>2, <3>3, <3>4 DEF QuietInv
  <2>. QED
    BY <2>5, <2>6 DEF IInv, TypeOK
<1>. QED
  BY <1>3, <1>4

LEMMA QuietBaseline ==
  ASSUME IInv, QuietInv, Alone, CaptureBaseline \/ CaptureDiff
  PROVE  QuietInv'
<1>1. /\ UNCHANGED <<snap, ledger, authority, decision, report, failure>>
      /\ UNCHANGED <<setting, required, attempt, gate, corrections>> /\ Alone'
      /\ \/ pc = "scan_baseline" /\ pc' = "scan_only" /\ base' = snap
         \/ pc = "capture" /\ pc' = "reviewer" /\ base' = base
  BY SameAlone DEF CaptureBaseline, CaptureDiff, host
<1>2. Listed' = Listed /\ Running' = Running /\ New' = New
  BY <1>1 DEF Listed, Running, New
<1>3. Unserved => Unserved'
  BY <1>1, <1>2 DEF Unserved, Working, ScanOnly, AtMostOne
<1>4. Served => Served'
  BY <1>1, <1>2 DEF Served, Working, ScanOnly, Gated
<1>5. Counted => Counted'
  BY <1>1 DEF Counted, ScanOnly
<1>. QED
  BY <1>1, <1>3, <1>4, <1>5 DEF QuietInv, ScanOnly

LEMMA QuietAttribute ==
  ASSUME IInv, QuietInv, Alone, AttributeMutations
  PROVE  QuietInv'
<1>1. pc = "attribute" /\ required
  BY DEF AttributeMutations, QuietInv, ScanOnly, IInv, TypeOK
<1>2. /\ authority # NoAuthority /\ Counted
      /\ (authority.selected = 0 => Unserved) /\ (authority.selected # 0 => Served)
  BY <1>1 DEF QuietInv
<1>3. snap = base /\ report.answered
  BY <1>1, <1>2 DEF Counted
<1>4. /\ UNCHANGED <<snap, ledger, authority, decision, report, base, failure>>
      /\ UNCHANGED <<setting, required, attempt, gate, corrections>> /\ Alone' /\ pc' = "record"
  BY <1>3, SameAlone DEF AttributeMutations, host
<1>5. Listed' = Listed /\ Running' = Running /\ New' = New
  BY <1>4 DEF Listed, Running, New
<1>6. authority.selected = 0 /\ Unserved
  BY <1>1, <1>2 DEF Served, Working, ScanOnly
<1>7. Unserved'
  BY <1>1, <1>4, <1>5, <1>6 DEF Unserved, Working, ScanOnly, AtMostOne
<1>8. Counted'
  BY <1>1, <1>2, <1>4 DEF Counted, ScanOnly
<1>. QED
  BY <1>1, <1>2, <1>4, <1>6, <1>7, <1>8 DEF QuietInv

LEMMA QuietReview ==
  ASSUME IInv, QuietInv, Alone, ReviewerEnds \/ Decide
  PROVE  QuietInv'
<1>1. required => /\ authority # NoAuthority /\ Counted
                  /\ (authority.selected = 0 => Unserved) /\ (authority.selected # 0 => Served)
  BY DEF ReviewerEnds, Decide, QuietInv
<1>2. required => authority.selected # 0 /\ Served
  BY <1>1 DEF Unserved, Working, ScanOnly, ReviewerEnds, Decide
<1>3. failure = "none"
  BY DEF IInv, FlowInv, ReviewerEnds, Decide
<1>4. required /\ pc = "decide" => attempt = 0
  BY <1>1 DEF Counted
<1>5. /\ UNCHANGED <<snap, ledger, authority, decision, report, base, failure, setting, required>> /\ Alone'
      /\ \/ /\ pc = "reviewer" /\ pc' = "ensure" /\ gate' = "after_reviewer" /\ attempt' = 0
            /\ corrections' = corrections
         \/ pc = "decide" /\ ~required /\ pc' = "ensure"
         \/ pc = "decide" /\ pc' = "done"
         \/ /\ pc = "decide" /\ pc' = "before_executor" /\ gate' = "none"
            /\ corrections' = corrections + 1
  <2>1. CASE ReviewerEnds
    BY <2>1, SameAlone DEF ReviewerEnds
  <2>2. CASE Decide
    <3>1. attempt > 0 => ~required
      BY <1>4, <2>2 DEF Decide
    <3>. QED
      BY <2>2, <3>1, SameAlone DEF Decide
  <2>. QED
    BY <2>1, <2>2
<1>6. Listed' = Listed /\ Running' = Running
  BY <1>5 DEF Listed, Running
<1>7. CASE ~required
  BY <1>3, <1>5, <1>7 DEF QuietInv, ScanOnly
<1>8. CASE required
  <2>1. pc' \notin {"done"} => Served'
    BY <1>2, <1>5, <1>6, <1>8 DEF Served, Working, ScanOnly, Gated
  <2>2. pc' \notin {"done"} => Counted'
    <3>1. authority.generation <= corrections + 2 /\ corrections \in Nat /\ authority.generation \in Nat
      BY <1>1, <1>8, AloneFacts DEF Counted
    <3>. QED
      BY <1>5, <1>8, <3>1 DEF Counted, ScanOnly
  <2>. QED
    BY <1>1, <1>2, <1>3, <1>5, <1>8, <2>1, <2>2 DEF QuietInv
<1>. QED
  BY <1>7, <1>8 DEF IInv, TypeOK

LEMMA QuietNext ==
  ASSUME IInv, QuietInv, [Next]_vars
  PROVE  QuietInv'
<1>1. setting' = setting
  BY DEF vars, host, history, Next, Host, Turns, Environment, Over, BeforeArchitect, BeforeExecutor,
     RecordResult, EnsureFresh, Prepare, CaptureBaseline, AttributeMutations, CaptureDiff, Decide,
     EvidenceFails, LedgerUnavailable, Fail, ArchitectEnds, ExecutorEnds, ScanOnlyTurnFails, ReviewerEnds,
     TurnFails, AgentEdits, AgentStartsScan, OthersEdit, OthersStartScan, ScanEnds, ScanDisappears
<1>2. CASE ~Alone
  BY <1>1, <1>2, SameAlone DEF QuietInv
<1>3. CASE Alone
  <2>1. CASE ScanSteps
    BY <1>3, <2>1, QuietScan
  <2>2. CASE AgentEdits \/ OthersEdit
    BY <1>3, <2>2, QuietEdit
  <2>3. CASE BeforeArchitect \/ BeforeExecutor \/ EnsureFresh
    BY <1>3, <2>3, QuietGate
  <2>4. CASE RecordResult
    BY <1>3, <2>4, QuietRecord
  <2>5. CASE ArchitectEnds \/ ExecutorEnds
    BY <1>3, <2>5, QuietTurn
  <2>6. CASE CaptureBaseline \/ CaptureDiff
    BY <1>3, <2>6, QuietBaseline
  <2>7. CASE AttributeMutations
    BY <1>3, <2>7, QuietAttribute
  <2>8. CASE ReviewerEnds \/ Decide
    BY <1>3, <2>8, QuietReview
  <2>9. CASE UNCHANGED vars
    <3>1. /\ UNCHANGED <<snap, ledger, pc, authority, decision, report, base, failure>>
          /\ UNCHANGED <<setting, required, attempt, gate, corrections>> /\ Alone'
      BY <1>3, <2>9, SameAlone DEF vars, host
    <3>2. Listed' = Listed /\ Running' = Running /\ New' = New
      BY <3>1 DEF Listed, Running, New
    <3>3. (Unserved => Unserved') /\ (Served => Served') /\ (Counted => Counted')
      BY <3>1, <3>2 DEF Unserved, Served, Counted, AtMostOne
    <3>. QED
      BY <1>3, <3>1, <3>2, <3>3 DEF QuietInv
  <2>10. ~(ScanOnlyTurnFails \/ EvidenceFails \/ LedgerUnavailable \/ TurnFails)
    BY <1>3 DEF ScanOnlyTurnFails, EvidenceFails, LedgerUnavailable, TurnFails, Alone
  <2>. QED
    BY <2>1, <2>2, <2>3, <2>4, <2>5, <2>6, <2>7, <2>8, <2>9, <2>10
       DEF Next, Host, Turns, Environment, Over, ScanSteps
<1>. QED
  BY <1>2, <1>3

(* A run on its own completes: the generation limit suffices for the first *)
(* scan and one after each implementation, no edit of its own surprises a  *)
(* gate, and no report is refused.  It stops early only for a scan already *)
(* at work that its authority may not adopt.                               *)
THEOREM QuietRunsComplete == Spec => []QuietRunCompletes
<1>1. Init => QuietInv
  <2>. SUFFICES ASSUME Init PROVE QuietInv
    OBVIOUS
  <2>1. pc = "before_architect" /\ snap = 0
    BY DEF Init
  <2>2. \/ ledger = <<>>
        \/ \E s \in {"running", "complete", "failed"}, f \in BOOLEAN :
             ledger = <<[status |-> s, digest |-> 0, fit |-> f]>>
    BY DEF Init
  <2>3. AtMostOne(DOMAIN ledger)
        /\ \A i \in DOMAIN ledger : ledger[i].digest = 0 /\ ledger[i].status \notin {"gone", "canceled"}
    BY <2>2 DEF AtMostOne
  <2>. QED
    BY <2>1, <2>3 DEF QuietInv, ScanOnly
<1>2. QuietInv /\ IInv /\ [Next]_vars => QuietInv'
  BY QuietNext
<1>3. QuietInv /\ IInv => QuietRunCompletes
  BY DEF QuietInv, IInv, TypeOK, Alone, QuietRunCompletes
<1>. QED
  BY <1>1, <1>2, <1>3, Invariant, PTL DEF Spec
=============================================================================
