-------------------------- MODULE RunRecoveryProofs --------------------------
(***************************************************************************)
(* Machine-checked proofs about the records of runs, for any set of runs   *)
(* and pids, any number of turns and pid reuses.                           *)
(***************************************************************************)
EXTENDS RunRecovery, TLAPS

-----------------------------------------------------------------------------
(* The inductive invariant.                                                *)

(* The repository is used by the run that recovers or works, by one at a   *)
(* time, in a process that exists.                                         *)
Using == Recovering \cup Working
UseInv ==
  /\ users = {r \in Runs : pc[r] \in Using}
  /\ \A r, s \in users : r = s
  /\ \A r \in users : alive[home[r]]

(* The rest holds where nothing fails; what a run has on record is what it *)
(* knows, except between the two writes.                                   *)
Writing == {"write_state", "write_prov"}
Recorded(r) ==
  /\ pc[r] \in {"idle"} \cup Recovering => state[r] = "none"
  /\ pc[r] \in (Working \cup {"ended"}) \ Writing => state[r] = mem[r] /\ prov[r] = mem[r]
  /\ pc[r] = "write_prov" => state[r] = mem[r]

(* A run that is about to report, end, or has ended, has a final status.   *)
Closing(r) ==
  \/ pc[r] \in {"report", "end", "ended"}
  \/ pc[r] \in Writing /\ then[r].label \in {"report", "end"}
ClosedInv(r) == Closing(r) => mem[r] \in Final

(* The process on record is the run's own; once that is dead, no process   *)
(* can be taken for it.                                                    *)
OwnerInv(r) ==
  /\ pc[r] \in Working => token[r] = start[home[r]]
  /\ pc[r] = "dead" /\ state[r] = "running" =>
       /\ token[r] \in 1..start[home[r]]
       /\ alive[home[r]] => token[r] < start[home[r]]

(* Recovery finalises dead runs only, and misses none of them.             *)
RecoveryInv(r) ==
  /\ r \notin todo[r]
  /\ pc[r] \in {"fix_state", "fix_prov"} => pc[target[r]] = "dead"
  /\ pc[r] \in Recovering =>
       \A s \in Runs : state[s] = "running" => s \in todo[r] \/ (pc[r] = "fix_state" /\ target[r] = s)
  /\ pc[r] \in Working => \A s \in Runs : r # s => state[s] # "running"

OrderInv == \A r \in Runs : Recorded(r) /\ ClosedInv(r) /\ OwnerInv(r) /\ RecoveryInv(r)

IInv == TypeOK /\ UseInv /\ (~Faults => OrderInv)

-----------------------------------------------------------------------------
(* Types.                                                                  *)

LEMMA SettingType ==
  ASSUME TypeOK
  PROVE  setting.runs \subseteq Runs /\ setting.phases \in Nat /\ setting.faults \in BOOLEAN
BY RecoveryAssumption DEF TypeOK

LEMMA TypeInit == Init => TypeOK
BY RecoveryAssumption DEF Init, TypeOK, Status, Working, NoToken

LEMMA TokenType ==
  ASSUME TypeOK, NEW p \in Pids
  PROVE  Tokens(p) \subseteq 0..MaxStarts
BY RecoveryAssumption DEF TypeOK, Tokens, NoToken

LEMMA PersistType ==
  ASSUME TypeOK, NEW r \in Runs, NEW s \in Status, NEW label \in Working, NEW required \in BOOLEAN,
         Persist(r, s, label, required)
  PROVE  /\ mem' \in [Runs -> Status]
         /\ then' \in [Runs -> [label : Working, required : BOOLEAN]]
         /\ pc' \in [Runs -> {"idle"} \cup Recovering \cup Working \cup Over]
BY DEF Persist, Goto, TypeOK, Working

LEMMA TypeStep == TypeOK /\ [Next]_vars => TypeOK'
<1>. SUFFICES ASSUME TypeOK, [Next]_vars PROVE TypeOK'
  OBVIOUS
<1>. USE DEF process, identity, recovery, records
<1>1. CASE UNCHANGED vars
  BY <1>1 DEF vars, TypeOK
<1>2. ASSUME NEW r \in Runs, Begin(r) PROVE TypeOK'
  BY <1>2 DEF Begin, Goto, Lock!Enter, TypeOK, Recovering
<1>3. ASSUME NEW r \in Runs, Examine(r) PROVE TypeOK'
  <2>1. PICK s \in todo[r] :
          /\ todo' = [todo EXCEPT ![r] = @ \ {s}]
          /\ \/ UNCHANGED <<pc, target>>
             \/ target' = [target EXCEPT ![r] = s] /\ Goto(r, "fix_state")
    BY <1>3 DEF Examine
  <2>2. todo[r] \subseteq Runs
    BY DEF TypeOK
  <2>3. todo' \in [Runs -> SUBSET Runs]
    BY <2>1, <2>2 DEF TypeOK
  <2>5. s \in Runs
    BY <2>1, <2>2
  <2>6. target' \in [Runs -> Runs]
    BY <2>1, <2>5 DEF TypeOK
  <2>4. pc' \in [Runs -> {"idle"} \cup Recovering \cup Working \cup Over]
    BY <2>1 DEF TypeOK, Goto, Recovering
  <2>. QED
    BY <1>3, <2>3, <2>4, <2>6 DEF Examine, TypeOK
<1>4. ASSUME NEW r \in Runs, FixState(r) \/ FixProvenance(r) PROVE TypeOK'
  BY <1>4 DEF FixState, FixProvenance, Goto, TypeOK, Recovering, Status, Final
<1>5. ASSUME NEW r \in Runs, Create(r) PROVE TypeOK'
  <2>1. "running" \in Status /\ "work" \in Working
    BY DEF Status, Working
  <2>2. token' \in [Runs -> 0..MaxStarts]
    BY <1>5, TokenType DEF Create, TypeOK
  <2>. QED
    BY <1>5, <2>1, <2>2, PersistType DEF Create, TypeOK
<1>6. ASSUME NEW r \in Runs, WriteState(r) \/ WriteProvenance(r) \/ WriteFails(r) PROVE TypeOK'
  <2>1. then[r].label \in Working /\ "fail" \in Working /\ "write_prov" \in Working
    BY DEF TypeOK, Working
  <2>2. \E l \in Working : pc' = [pc EXCEPT ![r] = l]
    BY <1>6, <2>1 DEF WriteState, WriteProvenance, WriteFails, Goto
  <2>3. pc' \in [Runs -> {"idle"} \cup Recovering \cup Working \cup Over]
    BY <2>2 DEF TypeOK
  <2>4. state' \in [Runs -> Status] /\ prov' \in [Runs -> Status]
    BY <1>6 DEF WriteState, WriteProvenance, WriteFails, TypeOK
  <2>. QED
    BY <1>6, <2>3, <2>4 DEF WriteState, WriteProvenance, WriteFails, TypeOK
<1>7. ASSUME NEW r \in Runs, Dispatch(r) PROVE TypeOK'
  <2>1. "running" \in Status /\ "turn" \in Working
    BY DEF Status, Working
  <2>2. phases' \in [Runs -> Nat]
    BY <1>7 DEF Dispatch, TypeOK
  <2>. QED
    BY <1>7, <2>1, <2>2, PersistType DEF Dispatch, TypeOK
<1>8. ASSUME NEW r \in Runs, TurnEnds(r) \/ Fails(r) \/ Block(r) \/ Finish(r) PROVE TypeOK'
  <2>1. \A s \in {"running", "failed", "interrupted", "blocked", "completed"} : s \in Status
    BY DEF Status, Final
  <2>2. \A l \in {"work", "fail", "end", "report"} : l \in Working
    BY DEF Working
  <2>3. \E s \in Status, l \in Working : Persist(r, s, l, FALSE)
    BY <1>8, <2>1, <2>2 DEF TurnEnds, Fails, Block, Finish
  <2>4. UNCHANGED <<process, users, identity, phases, recovery, records>>
    BY <1>8 DEF TurnEnds, Fails, Block, Finish
  <2>. QED
    BY <2>3, <2>4, PersistType DEF TypeOK
<1>9. ASSUME NEW r \in Runs, Report(r) \/ End(r) PROVE TypeOK'
  <2>1. pc' = [pc EXCEPT ![r] = "end"] \/ pc' = [pc EXCEPT ![r] = "ended"]
    BY <1>9 DEF Report, End, Goto
  <2>2. users' \subseteq Runs
    BY <1>9 DEF Report, End, Lock!Leave, TypeOK
  <2>. QED
    BY <1>9, <2>1, <2>2 DEF Report, End, TypeOK, Working, Over
<1>10. ASSUME NEW p \in Pids, ProcessDies(p) PROVE TypeOK'
  BY <1>10 DEF ProcessDies, TypeOK, Over
<1>11. ASSUME NEW p \in Pids, ProcessStarts(p) PROVE TypeOK'
  BY <1>11, RecoveryAssumption DEF ProcessStarts, TypeOK
<1>. QED
  BY <1>1, <1>2, <1>3, <1>4, <1>5, <1>6, <1>7, <1>8, <1>9, <1>10, <1>11 DEF Next, Run

-----------------------------------------------------------------------------
(* The use of the repository.                                              *)

LEMMA UseInit == Init => UseInv
BY DEF Init, UseInv, Using, Recovering, Working

(* A run that recovers or works and goes on doing so, or is persisting.    *)
LEMMA GoesOn ==
  ASSUME TypeOK, UseInv, NEW r \in Runs, pc[r] \in Using,
         NEW l \in Using, pc' = [pc EXCEPT ![r] = l], UNCHANGED <<users, alive, home>>
  PROVE  UseInv'
BY DEF TypeOK, UseInv

LEMMA UseStep == TypeOK /\ UseInv /\ [Next]_vars => UseInv'
<1>. SUFFICES ASSUME TypeOK, UseInv, [Next]_vars PROVE UseInv'
  OBVIOUS
<1>. USE DEF process, identity, recovery, records
<1>1. CASE UNCHANGED vars
  BY <1>1 DEF vars, UseInv
<1>2. ASSUME NEW r \in Runs, Begin(r) PROVE UseInv'
  BY <1>2 DEF Begin, Goto, Lock!Enter, TypeOK, UseInv, Using, Recovering
<1>3. ASSUME NEW r \in Runs, Examine(r) \/ FixState(r) \/ FixProvenance(r) PROVE UseInv'
  <2>1. pc[r] \in Using /\ UNCHANGED <<users, alive, home>>
    BY <1>3 DEF Examine, FixState, FixProvenance, Using, Recovering
  <2>2. pc' = pc \/ \E l \in Using : pc' = [pc EXCEPT ![r] = l]
    BY <1>3 DEF Examine, FixState, FixProvenance, Goto, Using, Recovering
  <2>. QED
    BY <2>1, <2>2, GoesOn DEF UseInv
<1>4. ASSUME NEW r \in Runs,
             WriteState(r) \/ WriteProvenance(r) \/ WriteFails(r) \/ Report(r) PROVE UseInv'
  <2>1. then[r].label \in Using /\ "fail" \in Using /\ "write_prov" \in Using /\ "end" \in Using
    BY DEF TypeOK, Using, Working
  <2>2. pc[r] \in Using /\ UNCHANGED <<users, alive, home>>
    BY <1>4 DEF WriteState, WriteProvenance, WriteFails, Report, Using, Working
  <2>3. \E l \in Using : pc' = [pc EXCEPT ![r] = l]
    BY <1>4, <2>1 DEF WriteState, WriteProvenance, WriteFails, Report, Goto
  <2>. QED
    BY <2>2, <2>3, GoesOn
<1>5. ASSUME NEW r \in Runs,
             Create(r) \/ Dispatch(r) \/ TurnEnds(r) \/ Fails(r) \/ Block(r) \/ Finish(r)
      PROVE  UseInv'
  <2>1. pc[r] \in Using /\ UNCHANGED <<users, alive, home>>
    BY <1>5 DEF Create, Dispatch, TurnEnds, Fails, Block, Finish, Using, Recovering, Working
  <2>2. pc' = [pc EXCEPT ![r] = "write_state"] /\ "write_state" \in Using
    BY <1>5 DEF Create, Dispatch, TurnEnds, Fails, Block, Finish, Persist, Goto, Using, Working
  <2>. QED
    BY <2>1, <2>2, GoesOn
<1>6. ASSUME NEW r \in Runs, End(r) PROVE UseInv'
  BY <1>6 DEF End, Lock!Leave, Goto, TypeOK, UseInv, Using, Recovering, Working
<1>7. ASSUME NEW p \in Pids, ProcessDies(p) PROVE UseInv'
  BY <1>7 DEF ProcessDies, TypeOK, UseInv, Using, Recovering, Working
<1>8. ASSUME NEW p \in Pids, ProcessStarts(p) PROVE UseInv'
  BY <1>8 DEF ProcessStarts, TypeOK, UseInv
<1>. QED
  BY <1>1, <1>2, <1>3, <1>4, <1>5, <1>6, <1>7, <1>8 DEF Next, Run

(* Only the run at work writes its records.                                *)
LEMMA WriterStep ==
  ASSUME TypeOK, UseInv, [Next]_vars, NEW s \in Runs, pc[s] \in Working
  PROVE  /\ state'[s] # state[s] => pc[s] = "write_state"
         /\ prov'[s] # prov[s] => pc[s] = "write_prov"
<1>. USE DEF process, identity, recovery, records
<1>1. CASE \E r \in Runs : FixState(r) \/ FixProvenance(r)
  <2>1. PICK r \in Runs : FixState(r) \/ FixProvenance(r)
    BY <1>1
  <2>2. r # s /\ r \in users /\ s \in users
    BY <2>1 DEF FixState, FixProvenance, UseInv, Using, Recovering, Working
  <2>. QED
    BY <2>2 DEF UseInv
<1>2. CASE \E r \in Runs : WriteState(r) \/ WriteProvenance(r)
  BY <1>2 DEF WriteState, WriteProvenance, TypeOK
<1>3. CASE UNCHANGED <<state, prov>>
  BY <1>3
<1>4. \/ UNCHANGED <<state, prov>>
      \/ \E r \in Runs : FixState(r) \/ FixProvenance(r)
      \/ \E r \in Runs : WriteState(r) \/ WriteProvenance(r)
  BY DEF Next, Run, vars, Begin, Examine, Create, WriteFails, Dispatch, TurnEnds, Fails, Block,
         Finish, Report, End, ProcessDies, ProcessStarts
<1>. QED
  BY <1>1, <1>2, <1>3, <1>4

-----------------------------------------------------------------------------
(* The records.                                                            *)

LEMMA OrderInit == Init => OrderInv
BY DEF Init, OrderInv, Recorded, ClosedInv, Closing, OwnerInv, RecoveryInv,
       Recovering, Working, Writing

LEMMA AloneAtWork ==
  ASSUME UseInv, NEW r \in Runs, pc[r] \in Using
  PROVE  alive[home[r]] /\ \A s \in Runs : s # r => pc[s] \notin Using
BY DEF UseInv

(* Recovery judges every run rightly: its own pid apart, an owner that is  *)
(* up was started later.                                                   *)
LEMMA DeadAreFound ==
  ASSUME TypeOK, UseInv, OrderInv, ~Faults, NEW r \in Runs, pc[r] \in Recovering,
         NEW s \in Runs, state[s] = "running"
  PROVE  pc[s] = "dead" /\ OwnerActive(r, s) = {FALSE}
<1>1. s # r /\ pc[s] \notin Using
  BY AloneAtWork DEF OrderInv, Recorded, Using
<1>2. pc[s] \notin {"idle", "ended"}
  <2>1. pc[s] = "ended" => state[s] \in Final
    BY DEF OrderInv, Recorded, ClosedInv, Closing, Writing
  <2>. QED
    BY <2>1 DEF OrderInv, Recorded, Final
<1>3. pc[s] = "dead"
  BY <1>1, <1>2 DEF TypeOK, Over, Using
<1>4. /\ token[s] \in 1..start[home[s]]
      /\ alive[home[s]] => token[s] < start[home[s]]
  BY <1>3 DEF OrderInv, OwnerInv
<1>5. home[s] \in Pids /\ start[home[s]] \in Nat \ {0} /\ alive[home[s]] \in BOOLEAN
  BY RecoveryAssumption DEF TypeOK
<1>6. Tokens(home[s]) = {start[home[s]]}
  BY DEF Tokens
<1>7. ASSUME alive[home[s]] PROVE start[home[s]] # NoToken /\ token[s] \notin {NoToken, start[home[s]]}
  BY <1>4, <1>5, <1>7 DEF NoToken
<1>8. OwnerActive(r, s) = {FALSE}
  BY <1>5, <1>6, <1>7 DEF OwnerActive
<1>. QED
  BY <1>3, <1>8

LEMMA OrderStep == TypeOK /\ UseInv /\ ~Faults /\ OrderInv /\ [Next]_vars => OrderInv'
<1>. SUFFICES ASSUME TypeOK, UseInv, ~Faults, OrderInv, [Next]_vars PROVE OrderInv'
  OBVIOUS
<1>. USE DEF process, identity, recovery, records
<1>0. CASE UNCHANGED vars
  BY <1>0 DEF vars, OrderInv, Recorded, ClosedInv, Closing, OwnerInv, RecoveryInv
<1>1. ASSUME NEW r \in Runs, Begin(r) PROVE OrderInv'
  <2>. SUFFICES ASSUME NEW q \in Runs
                PROVE  (Recorded(q) /\ ClosedInv(q) /\ OwnerInv(q) /\ RecoveryInv(q))'
    BY DEF OrderInv
  <2>1. /\ \A s \in Runs : pc[s] \notin Using
        /\ state[r] = "none"
        /\ pc' = [pc EXCEPT ![r] = "recover"]
    BY <1>1 DEF Begin, Lock!Enter, Goto, UseInv, OrderInv, Recorded
  <2>2. Recorded(q)' /\ ClosedInv(q)' /\ OwnerInv(q)'
    BY <1>1, <2>1 DEF Begin, OrderInv, Recorded, ClosedInv, Closing, OwnerInv, TypeOK,
                      Recovering, Working, Writing
  <2>3. RecoveryInv(q)'
    BY <1>1, <2>1 DEF Begin, OrderInv, RecoveryInv, TypeOK, Using, Recovering, Working
  <2>. QED
    BY <2>2, <2>3
<1>2. ASSUME NEW r \in Runs, Examine(r) PROVE OrderInv'
  <2>. SUFFICES ASSUME NEW q \in Runs
                PROVE  (Recorded(q) /\ ClosedInv(q) /\ OwnerInv(q) /\ RecoveryInv(q))'
    BY DEF OrderInv
  <2>1. pc[r] = "recover" /\ \A s \in Runs : s # r => pc[s] \notin Using
    BY <1>2, AloneAtWork DEF Examine, Using, Recovering
  <2>2. PICK s \in todo[r] :
          /\ todo' = [todo EXCEPT ![r] = @ \ {s}]
          /\ \/ state[s] # "running" /\ UNCHANGED <<pc, target>>
             \/ /\ state[s] = "running" /\ pc[s] = "dead"
                /\ target' = [target EXCEPT ![r] = s] /\ pc' = [pc EXCEPT ![r] = "fix_state"]
    <3>1. PICK s \in todo[r] :
          /\ todo' = [todo EXCEPT ![r] = @ \ {s}]
          /\ \E active \in OwnerActive(r, s) :
                IF state[s] # "running" \/ active THEN UNCHANGED <<pc, target>>
                ELSE target' = [target EXCEPT ![r] = s] /\ Goto(r, "fix_state")
      BY <1>2 DEF Examine
    <3>2. s \in Runs
      BY <3>1 DEF TypeOK
    <3>3. CASE state[s] = "running"
      <4>1. pc[s] = "dead" /\ OwnerActive(r, s) = {FALSE}
        BY <2>1, <3>2, <3>3, DeadAreFound DEF Recovering
      <4>. QED
        BY <3>1, <3>3, <4>1 DEF Goto
    <3>. QED
      BY <3>1, <3>3
  <2>3. Recorded(q)' /\ ClosedInv(q)' /\ OwnerInv(q)'
    BY <1>2, <2>1, <2>2 DEF Examine, OrderInv, Recorded, ClosedInv, Closing, OwnerInv, TypeOK,
                      Recovering, Working, Writing
  <2>4. RecoveryInv(q)'
    BY <1>2, <2>1, <2>2 DEF Examine, OrderInv, RecoveryInv, TypeOK, Using, Recovering, Working
  <2>. QED
    BY <2>3, <2>4
<1>3. ASSUME NEW r \in Runs, FixState(r) PROVE OrderInv'
  <2>. SUFFICES ASSUME NEW q \in Runs
                PROVE  (Recorded(q) /\ ClosedInv(q) /\ OwnerInv(q) /\ RecoveryInv(q))'
    BY DEF OrderInv
  <2>1. /\ pc[r] = "fix_state"
        /\ \A s \in Runs : s # r => pc[s] \notin Using
        /\ pc[target[r]] = "dead"
        /\ pc' = [pc EXCEPT ![r] = "fix_prov"]
        /\ target[r] \in Runs
        /\ state' = [state EXCEPT ![target[r]] = "interrupted"]
    BY <1>3, AloneAtWork DEF FixState, Goto, OrderInv, RecoveryInv, TypeOK, Using, Recovering
  <2>2. Recorded(q)' /\ ClosedInv(q)'
    BY <1>3, <2>1 DEF FixState, OrderInv, Recorded, ClosedInv, Closing, TypeOK, Recovering, Working, Writing, Final
  <2>3. OwnerInv(q)'
    BY <1>3, <2>1 DEF FixState, OrderInv, OwnerInv, TypeOK, Using, Recovering, Working
  <2>4. RecoveryInv(q)'
    BY <1>3, <2>1 DEF FixState, OrderInv, Recorded, RecoveryInv, TypeOK, Using, Recovering, Working
  <2>. QED
    BY <2>2, <2>3, <2>4
<1>4. ASSUME NEW r \in Runs, FixProvenance(r) PROVE OrderInv'
  <2>. SUFFICES ASSUME NEW q \in Runs
                PROVE  (Recorded(q) /\ ClosedInv(q) /\ OwnerInv(q) /\ RecoveryInv(q))'
    BY DEF OrderInv
  <2>1. /\ pc[r] = "fix_prov"
        /\ \A s \in Runs : s # r => pc[s] \notin Using
        /\ pc[target[r]] = "dead"
        /\ pc' = [pc EXCEPT ![r] = "recover"]
        /\ target[r] \in Runs
    BY <1>4, AloneAtWork DEF FixProvenance, Goto, OrderInv, RecoveryInv, TypeOK, Using, Recovering
  <2>2. Recorded(q)' /\ ClosedInv(q)'
    BY <1>4, <2>1 DEF FixProvenance, OrderInv, Recorded, ClosedInv, Closing, TypeOK, Recovering, Working, Writing, Final
  <2>3. OwnerInv(q)'
    BY <1>4, <2>1 DEF FixProvenance, OrderInv, OwnerInv, TypeOK, Using, Recovering, Working
  <2>4. RecoveryInv(q)'
    BY <1>4, <2>1 DEF FixProvenance, OrderInv, Recorded, RecoveryInv, TypeOK, Using, Recovering, Working
  <2>. QED
    BY <2>2, <2>3, <2>4
<1>5. ASSUME NEW r \in Runs, Create(r) PROVE OrderInv'
  <2>. SUFFICES ASSUME NEW q \in Runs
                PROVE  (Recorded(q) /\ ClosedInv(q) /\ OwnerInv(q) /\ RecoveryInv(q))'
    BY DEF OrderInv
  <2>5. pc[r] = "recover" /\ todo[r] = {}
    BY <1>5 DEF Create
  <2>6. alive[home[r]] /\ \A s \in Runs : s # r => pc[s] \notin Using
    BY <2>5, AloneAtWork DEF Using, Recovering
  <2>7. \A s \in Runs : state[s] # "running"
    BY <2>5 DEF OrderInv, RecoveryInv, Recovering
  <2>8. token' = [token EXCEPT ![r] = start[home[r]]]
    BY <1>5 DEF Create, Tokens
  <2>9. /\ pc' = [pc EXCEPT ![r] = "write_state"]
        /\ mem' = [mem EXCEPT ![r] = "running"]
        /\ then'[r].label = "work" /\ \A s \in Runs : s # r => then'[s] = then[s]
    BY <1>5 DEF Create, Persist, Goto, TypeOK
  <2>2. Recorded(q)' /\ ClosedInv(q)'
    BY <1>5, <2>5, <2>6, <2>7, <2>8, <2>9 DEF Create, OrderInv, Recorded, ClosedInv, Closing, TypeOK, Recovering, Working, Writing, Final
  <2>3. OwnerInv(q)'
    BY <1>5, <2>5, <2>6, <2>7, <2>8, <2>9 DEF Create, OrderInv, OwnerInv, TypeOK, Using, Recovering, Working
  <2>4. RecoveryInv(q)'
    BY <1>5, <2>5, <2>6, <2>7, <2>8, <2>9 DEF Create, OrderInv, Recorded, RecoveryInv, TypeOK, Using, Recovering, Working
  <2>. QED
    BY <2>2, <2>3, <2>4
<1>6. ASSUME NEW r \in Runs, WriteState(r) PROVE OrderInv'
  <2>. SUFFICES ASSUME NEW q \in Runs
                PROVE  (Recorded(q) /\ ClosedInv(q) /\ OwnerInv(q) /\ RecoveryInv(q))'
    BY DEF OrderInv
  <2>1. /\ pc[r] = "write_state"
        /\ \A s \in Runs : s # r => pc[s] \notin Using
        /\ pc' = [pc EXCEPT ![r] = "write_prov"]
    BY <1>6, AloneAtWork DEF WriteState, Goto, Using, Working
  <2>2. Recorded(q)' /\ ClosedInv(q)'
    BY <1>6, <2>1 DEF WriteState, OrderInv, Recorded, ClosedInv, Closing, TypeOK, Recovering, Working, Writing, Final
  <2>3. OwnerInv(q)'
    BY <1>6, <2>1 DEF WriteState, OrderInv, OwnerInv, TypeOK, Using, Recovering, Working
  <2>4. RecoveryInv(q)'
    BY <1>6, <2>1 DEF WriteState, OrderInv, Recorded, RecoveryInv, TypeOK, Using, Recovering, Working
  <2>. QED
    BY <2>2, <2>3, <2>4
<1>7. ASSUME NEW r \in Runs, WriteProvenance(r) PROVE OrderInv'
  <2>. SUFFICES ASSUME NEW q \in Runs
                PROVE  (Recorded(q) /\ ClosedInv(q) /\ OwnerInv(q) /\ RecoveryInv(q))'
    BY DEF OrderInv
  <2>1. /\ pc[r] = "write_prov"
        /\ \A s \in Runs : s # r => pc[s] \notin Using
        /\ then[r].label \in Working
        /\ pc' = [pc EXCEPT ![r] = then[r].label]
    BY <1>7, AloneAtWork DEF WriteProvenance, Goto, TypeOK, Using, Working
  <2>2. Recorded(q)' /\ ClosedInv(q)'
    BY <1>7, <2>1 DEF WriteProvenance, OrderInv, Recorded, ClosedInv, Closing, TypeOK, Recovering, Working, Writing, Final
  <2>3. OwnerInv(q)'
    BY <1>7, <2>1 DEF WriteProvenance, OrderInv, OwnerInv, TypeOK, Using, Recovering, Working
  <2>4. RecoveryInv(q)'
    BY <1>7, <2>1 DEF WriteProvenance, OrderInv, Recorded, RecoveryInv, TypeOK, Using, Recovering, Working
  <2>. QED
    BY <2>2, <2>3, <2>4
<1>8. ASSUME NEW r \in Runs,
             Dispatch(r) \/ TurnEnds(r) \/ Fails(r) \/ Block(r) \/ Finish(r)
      PROVE OrderInv'
  <2>. SUFFICES ASSUME NEW q \in Runs
                PROVE  (Recorded(q) /\ ClosedInv(q) /\ OwnerInv(q) /\ RecoveryInv(q))'
    BY DEF OrderInv
  <2>5. PICK m \in Status, l \in {"work", "turn", "fail", "report", "end"}, required \in BOOLEAN :
          Persist(r, m, l, required) /\ (l \in {"report", "end"} => m \in Final)
    BY <1>8 DEF Dispatch, TurnEnds, Fails, Block, Finish, Status, Final
  <2>1. /\ pc[r] \in Working \ Writing
        /\ \A s \in Runs : s # r => pc[s] \notin Using
        /\ pc' = [pc EXCEPT ![r] = "write_state"]
        /\ mem' = [mem EXCEPT ![r] = m]
        /\ then'[r].label = l /\ \A s \in Runs : s # r => then'[s] = then[s]
        /\ UNCHANGED <<process, users, identity, recovery, records>>
    BY <1>8, <2>5, AloneAtWork DEF Dispatch, TurnEnds, Fails, Block, Finish, Persist, Goto, TypeOK, Using, Working, Writing
  <2>2. Recorded(q)' /\ ClosedInv(q)'
    BY <1>8, <2>1, <2>5 DEF Writing, OrderInv, Recorded, ClosedInv, Closing, TypeOK, Recovering, Working, Writing, Final
  <2>3. OwnerInv(q)'
    BY <1>8, <2>1, <2>5 DEF Writing, OrderInv, OwnerInv, TypeOK, Using, Recovering, Working
  <2>4. RecoveryInv(q)'
    BY <1>8, <2>1, <2>5 DEF Writing, OrderInv, Recorded, RecoveryInv, TypeOK, Using, Recovering, Working
  <2>. QED
    BY <2>2, <2>3, <2>4
<1>9. ASSUME NEW r \in Runs, Report(r) PROVE OrderInv'
  <2>. SUFFICES ASSUME NEW q \in Runs
                PROVE  (Recorded(q) /\ ClosedInv(q) /\ OwnerInv(q) /\ RecoveryInv(q))'
    BY DEF OrderInv
  <2>1. /\ pc[r] = "report"
        /\ \A s \in Runs : s # r => pc[s] \notin Using
        /\ pc' = [pc EXCEPT ![r] = "end"]
    BY <1>9, AloneAtWork DEF Report, Goto, Using, Working
  <2>2. Recorded(q)' /\ ClosedInv(q)'
    BY <1>9, <2>1 DEF Report, OrderInv, Recorded, ClosedInv, Closing, TypeOK, Recovering, Working, Writing, Final
  <2>3. OwnerInv(q)'
    BY <1>9, <2>1 DEF Report, OrderInv, OwnerInv, TypeOK, Using, Recovering, Working
  <2>4. RecoveryInv(q)'
    BY <1>9, <2>1 DEF Report, OrderInv, Recorded, RecoveryInv, TypeOK, Using, Recovering, Working
  <2>. QED
    BY <2>2, <2>3, <2>4
<1>10. ASSUME NEW r \in Runs, End(r) PROVE OrderInv'
  <2>. SUFFICES ASSUME NEW q \in Runs
                PROVE  (Recorded(q) /\ ClosedInv(q) /\ OwnerInv(q) /\ RecoveryInv(q))'
    BY DEF OrderInv
  <2>1. /\ pc[r] = "end"
        /\ \A s \in Runs : s # r => pc[s] \notin Using
        /\ pc' = [pc EXCEPT ![r] = "ended"]
    BY <1>10, AloneAtWork DEF End, Goto, Using, Working
  <2>2. Recorded(q)' /\ ClosedInv(q)'
    BY <1>10, <2>1 DEF End, OrderInv, Recorded, ClosedInv, Closing, TypeOK, Recovering, Working, Writing, Final
  <2>3. OwnerInv(q)'
    BY <1>10, <2>1 DEF End, OrderInv, OwnerInv, TypeOK, Using, Recovering, Working
  <2>4. RecoveryInv(q)'
    BY <1>10, <2>1 DEF End, OrderInv, Recorded, RecoveryInv, TypeOK, Using, Recovering, Working
  <2>. QED
    BY <2>2, <2>3, <2>4
<1>11. ASSUME NEW p \in Pids, ProcessDies(p) PROVE OrderInv'
  <2>. SUFFICES ASSUME NEW q \in Runs
                PROVE  (Recorded(q) /\ ClosedInv(q) /\ OwnerInv(q) /\ RecoveryInv(q))'
    BY DEF OrderInv
  <2>1. /\ alive' = [alive EXCEPT ![p] = FALSE]
        /\ pc' = [r \in Runs |-> IF home[r] = p /\ pc[r] \in Using THEN "dead" ELSE pc[r]]
    BY <1>11 DEF ProcessDies, Using
  <2>2. Recorded(q)' /\ ClosedInv(q)'
    BY <1>11, <2>1 DEF ProcessDies, Status, Final, OrderInv, Recorded, ClosedInv, Closing, TypeOK, Recovering, Working, Writing, Final
  <2>5. start[home[q]] \in 1..start[home[q]]
    BY RecoveryAssumption DEF TypeOK
  <2>6. pc[q] \in Recovering => state[q] # "running"
    BY DEF OrderInv, Recorded
  <2>7. alive'[home[q]] => alive[home[q]] /\ home[q] # p
    BY <2>1 DEF TypeOK
  <2>3. OwnerInv(q)'
    BY <1>11, <2>1, <2>5, <2>6, <2>7 DEF ProcessDies, OrderInv, OwnerInv, TypeOK, Using, Working
  <2>4. RecoveryInv(q)'
    BY <1>11, <2>1 DEF ProcessDies, Status, Final, OrderInv, Recorded, RecoveryInv, TypeOK, Using, Recovering, Working
  <2>. QED
    BY <2>2, <2>3, <2>4
<1>12. ASSUME NEW p \in Pids, ProcessStarts(p) PROVE OrderInv'
  <2>. SUFFICES ASSUME NEW q \in Runs
                PROVE  (Recorded(q) /\ ClosedInv(q) /\ OwnerInv(q) /\ RecoveryInv(q))'
    BY DEF OrderInv
  <2>1. /\ alive' = [alive EXCEPT ![p] = TRUE]
        /\ start' = [start EXCEPT ![p] = start[p] + 1]
        /\ ~alive[p]
        /\ \A r \in Runs : pc[r] \in Using => home[r] # p
        /\ pc' = pc
    BY <1>12, AloneAtWork DEF ProcessStarts
  <2>2. Recorded(q)' /\ ClosedInv(q)'
    BY <1>12, <2>1 DEF ProcessStarts, OrderInv, Recorded, ClosedInv, Closing, TypeOK, Recovering, Working, Writing, Final
  <2>3. OwnerInv(q)'
    BY <1>12, <2>1 DEF ProcessStarts, OrderInv, OwnerInv, TypeOK, Using, Recovering, Working
  <2>4. RecoveryInv(q)'
    BY <1>12, <2>1 DEF ProcessStarts, OrderInv, Recorded, RecoveryInv, TypeOK, Using, Recovering, Working
  <2>. QED
    BY <2>2, <2>3, <2>4
<1>13. ASSUME NEW r \in Runs, WriteFails(r) PROVE OrderInv'
  BY <1>13 DEF WriteFails
<1>. QED
  BY <1>0, <1>1, <1>2, <1>3, <1>4, <1>5, <1>6, <1>7, <1>8, <1>9, <1>10, <1>11, <1>12, <1>13
     DEF Next, Run

-----------------------------------------------------------------------------
(* The theorems.                                                           *)

(* The inductive invariant holds in every reachable state.                 *)
THEOREM Invariant == Spec => []IInv
<1>1. Init => IInv
  BY TypeInit, UseInit, OrderInit DEF IInv
<1>2. IInv /\ [Next]_vars => IInv'
  <2>1. [Next]_vars => setting' = setting
    BY DEF Next, Run, vars, process, Begin, Examine, FixState, FixProvenance, Create, WriteState,
           WriteProvenance, WriteFails, Dispatch, TurnEnds, Fails, Block, Finish, Report, End,
           ProcessDies, ProcessStarts
  <2>2. [Next]_vars => (Faults' <=> Faults)
    BY <2>1 DEF Faults
  <2>. QED
    BY <2>2, TypeStep, UseStep, OrderStep DEF IInv
<1>. QED
  BY <1>1, <1>2, PTL DEF Spec

(* Every variable keeps its type.                                          *)
THEOREM TypeCorrect == Spec => []TypeOK
BY Invariant, PTL DEF IInv

(* The records of a run that executes are written by that run alone,       *)
(* whatever fails, however often pids are reused and however many runs     *)
(* recover at the same time: the lock alone rules it out.                  *)
THEOREM OwnRecords == Spec => LiveRunNotFinalised
<1>1. IInv /\ [Next]_vars =>
        [\A s \in Runs : pc[s] \in Working =>
           /\ state'[s] # state[s] => pc[s] = "write_state"
           /\ prov'[s] # prov[s] => pc[s] = "write_prov"]_vars
  BY WriterStep DEF IInv
<1>. QED
  BY <1>1, Invariant, PTL DEF Spec, LiveRunNotFinalised

(* Where nothing fails, no two runs are "running" on record once one       *)
(* works, and the outcome a run returned is never rewritten.               *)
THEOREM RecordsAreFinal == Spec => []RecordsFinal
<1>1. IInv => RecordsFinal
  BY DEF IInv, OrderInv, Recorded, RecoveryInv, Writing, RecordsFinal
<1>. QED
  BY <1>1, Invariant, PTL
=============================================================================
