--------------------------- MODULE DelegationProofs ---------------------------
(* Theorems about Delegation, for any requests, paths, settings and number *)
(* of commits: who works on the repository, what a success rests on, and   *)
(* that journal and result file agree.                                     *)
EXTENDS Delegation, SequenceTheorems, TLAPS

-----------------------------------------------------------------------------
(* The inductive invariant                                                 *)

(* Stages before the first attempt, from the second look to the last,      *)
(* after it, and before the judgement.                                     *)
Unstarted == {"new", "status", "head", "task"}
Looking == {"head", "task", "start", "working", "ended"}
Captured == {"publish", "write", "leave"}
Unjudged == Under \ {"write", "leave"}

(* The lock is held by the request that is between Enter and the end of    *)
(* the "with" block.                                                       *)
LockInv ==
  /\ \A r \in Requests : r \in users <=> pc[r] \in Under
  /\ \A r, s \in users : r = s

(* Nobody works for a request that has started no attempt; where attempts  *)
(* are contained, an actor at work is one that its delegation waits for.   *)
WorkInv ==
  /\ \A r \in Requests, n \in {1, 2} : pc[r] \in Unstarted => <<r, n>> \notin working
  /\ Contained => \A a \in working : pc[a[1]] = "working" /\ a[2] = attempt[a[1]]

(* What is remembered of those who changed the repository.                 *)
TouchInv ==
  /\ \A r \in Requests : pc[r] = "new" => touched[r] = {}
  /\ Contained => \A r \in Requests : pc[r] \in Under =>
       \A a \in Attempts : a \in touched[r] => a[1] = r

(* Attempts are contained, and nobody else uses the repository.            *)
Private == Contained /\ ~setting.crowd

(* A change since the first look is remembered, and in private it is of    *)
(* the request's own attempts.                                             *)
Visible(r) ==
  /\ pc[r] \in Looking /\ seen[r].status = {} /\ Status # {} => touched[r] # {}
  /\ Private /\ pc[r] \in Looking \cup Captured /\ seen[r].status = {} =>
       \A p \in Status : tree[p] \in Own(r)

(* What the last look at Git has found was somebody's change, and in       *)
(* private it still is so.                                                 *)
Found(r) ==
  pc[r] \in Captured =>
    /\ seen[r].status = {} /\ found[r].status # {} => touched[r] # {}
    /\ ~found[r].ok => found[r].status = {}
    /\ Private /\ found[r].ok => Status = found[r].status /\ head = found[r].head

(* What "completed" rests on.                                              *)
Proven(r) ==
  /\ Kind(r) \in IF seen[r].status = {} /\ found[r].status = {}
                   THEN {"probe"} ELSE {"applied", "claimed", "probe"}
  /\ seen[r].status = {} /\ found[r].status # {} => touched[r] # {}

Judged(r) ==
  /\ pc[r] \in {"write", "leave"} /\ ended[r] = "completed" =>
       Proven(r) /\ found[r].ok /\ found[r].head = seen[r].head
  /\ result[r].status = "completed" =>
       /\ pc[r] \in {"leave", "done", "cancelling", "raised", "dead"}
       /\ result[r].actor = attempt[r]
       /\ Proven(r)

(* The last event is that of the outcome, and the result will be or is; or *)
(* it was lost, and what came before it was overtaken.                     *)
LastEvent(r) == events[r][Len(events[r])]

Agreed(r) ==
  /\ r \notin journal => events[r] = <<>>
  /\ pc[r] = "new" => events[r] = <<>> /\ result[r] = NoResult
  /\ pc[r] \in Unjudged /\ events[r] # <<>> => LastEvent(r) = "started"
  /\ pc[r] \in {"write", "leave"} =>
       /\ ended[r] \in {"completed", "failed"}
       /\ events[r] # <<>> =>
            LastEvent(r) = ended[r] \/ (r \in missed /\ LastEvent(r) = "started")
  /\ pc[r] = "leave" => result[r].status = ended[r]
  /\ pc[r] \in {"failing", "cancelling"} /\ events[r] # <<>> =>
       LastEvent(r) = "started" \/ setting.faults \/ setting.stops
  /\ pc[r] = "done" /\ events[r] # <<>> =>
       \/ LastEvent(r) = Ending(result[r].status)
       \/ r \in missed /\ (LastEvent(r) = "started" \/ setting.faults \/ setting.stops)

IInv ==
  /\ TypeOK /\ LockInv /\ WorkInv /\ TouchInv
  /\ \A r \in Requests : Visible(r) /\ Found(r) /\ Judged(r) /\ Agreed(r)

-----------------------------------------------------------------------------
(* Typing                                                                  *)

Labels == {"new", "failing", "cancelling"} \cup Under \cup Over

(* The steps that move one request, and nothing that is written in common. *)
LEMMA GotoTyped ==
  ASSUME TypeOK, NEW r \in Requests, NEW label \in Labels, Goto(r, label)
  PROVE  pc' \in [Requests -> Labels]
BY DEF TypeOK, Goto, Labels

LEMMA RaiseTyped ==
  ASSUME TypeOK, NEW r \in Requests, Raise(r)
  PROVE  pc' \in [Requests -> Labels] /\ users' \subseteq Requests
BY DEF TypeOK, Raise, Goto, Labels

(* What the journal is told is an event more, or nothing.                  *)
LEMMA PublishTyped ==
  ASSUME TypeOK, NEW r \in Requests, NEW s \in {"started", "completed", "failed", "cancelled"},
         journal' = journal \/ journal' = journal \cup {r}, Publish(r, s)
  PROVE  /\ events' \in [Requests -> Seq({"started", "completed", "failed", "cancelled"})]
         /\ journal' \subseteq Requests /\ missed' \subseteq journal'
<1> DEFINE Event == {"started", "completed", "failed", "cancelled"}
<1>1. events \in [Requests -> Seq(Event)] /\ journal \subseteq Requests /\ missed \subseteq journal
  BY DEF TypeOK
<1>2. Append(events[r], s) \in Seq(Event)
  BY <1>1
<1>3. /\ UNCHANGED events \/ events' = [events EXCEPT ![r] = Append(events[r], s)]
      /\ missed' \subseteq missed \cup ({r} \cap journal')
  BY DEF Publish
<1>4. events' \in [Requests -> Seq(Event)]
  BY <1>1, <1>2, <1>3
<1> QED
  BY <1>1, <1>3, <1>4

LEMMA StatusTyped ==
  ASSUME TypeOK
  PROVE  Status \in SUBSET Paths /\ head \in 0..MaxHead /\ head \in Nat
BY DelegationAssumption DEF TypeOK, Status

LEMMA LookTyped ==
  ASSUME TypeOK, NEW r \in Requests
  PROVE  /\ seen[r] \in Looks
         /\ [seen[r] EXCEPT !.status = Status] \in Looks
         /\ [seen[r] EXCEPT !.head = head, !.ok = TRUE] \in Looks
         /\ [status |-> Status, head |-> head, ok |-> TRUE] \in Looks
         /\ [Nothing EXCEPT !.head = seen[r].head] \in Looks
<1>1. Status \in SUBSET Paths /\ head \in 0..MaxHead
  BY StatusTyped
<1>2. seen[r] \in Looks
  BY DEF TypeOK
<1> QED
  BY <1>1, <1>2 DEF Looks, Nothing

LEMMA AttemptTyped ==
  ASSUME TypeOK, NEW r \in Requests
  PROVE  /\ attempt[r] \in {1, 2}
         /\ <<r, attempt[r]>> \in Attempts
<1>1. attempt[r] \in 1..(IF setting.spare = "none" THEN 1 ELSE 2)
  BY DEF TypeOK
<1>2. attempt[r] \in {1, 2}
  <2>1. CASE setting.spare = "none"
    BY <1>1, <2>1
  <2>2. CASE setting.spare # "none"
    BY <1>1, <2>2
  <2> QED
    BY <2>1, <2>2
<1> QED
  BY <1>2 DEF Attempts

LEMMA WriteTyped ==
  ASSUME TypeOK, NEW r \in Requests, NEW s \in {"none", "completed", "failed", "cancelled"}, Write(r, s)
  PROVE  result' \in [Requests -> Results]
<1>1. attempt[r] \in 0..2
  <2>1. attempt[r] \in {1, 2}
    BY AttemptTyped
  <2> QED
    BY <2>1
<1>2. [status |-> s, actor |-> attempt[r]] \in Results
  BY <1>1 DEF Results
<1> QED
  BY <1>2 DEF TypeOK, Write

LEMMA TypeInit ==
  ASSUME Init
  PROVE  TypeOK
BY DelegationAssumption
   DEF Init, TypeOK, Looks, Results, Nothing, NoResult, Outcomes, Reports, Attempts, Writers,
       Under, Over

LEMMA TypeStep ==
  ASSUME TypeOK, [Next]_vars
  PROVE  TypeOK'
<1> USE DelegationAssumption
<1>1. ASSUME NEW r \in Requests, Request(r)
      PROVE  TypeOK'
  <2>1. CASE Invalid(r) \/ Unavailable(r)
    <3>1. PICK s \in {"invalid_request", "executor_unavailable"} : Decline(r, s)
      BY <2>1 DEF Invalid, Unavailable
    <3>2. [status |-> s, actor |-> 0] \in Results
      BY DEF Results
    <3>3. result' \in [Requests -> Results]
      BY <3>1, <3>2 DEF Decline, TypeOK
    <3>4. pc' \in [Requests -> Labels]
      BY <3>1, GotoTyped DEF Decline, Labels, Over
    <3> QED
      BY <3>1, <3>3, <3>4 DEF Decline, TypeOK, repository, actors, judging, told, Labels
  <2>2. CASE Enter(r)
    <3>1. pc' \in [Requests -> Labels] /\ users' \subseteq Requests
      BY <2>2, RaiseTyped, GotoTyped DEF Enter, Lock!Enter, Labels, Under
    <3> QED
      BY <2>2, <3>1 DEF Enter, TypeOK, repository, actors, judging, telling, told, Labels
  <2>3. CASE LookAtStatus(r)
    <3>1. pc' \in [Requests -> Labels] /\ users' \subseteq Requests
      BY <2>3, RaiseTyped, GotoTyped DEF LookAtStatus, Labels, Under, TypeOK
    <3>2. seen' \in [Requests -> Looks]
      <4>1. \/ UNCHANGED seen
            \/ seen' = [seen EXCEPT ![r] = [seen[r] EXCEPT !.status = Status]]
        BY <2>3 DEF LookAtStatus, TypeOK
      <4> QED
        BY <4>1, LookTyped DEF TypeOK
    <3>3. /\ events' \in [Requests -> Seq({"started", "completed", "failed", "cancelled"})]
          /\ journal' \subseteq Requests /\ missed' \subseteq journal'
      <4>1. CASE UNCHANGED told
        BY <4>1 DEF told, TypeOK
      <4>2. CASE journal' \in {journal, journal \cup {r}} /\ Publish(r, "started")
        BY <4>2, PublishTyped
      <4> QED
        BY <2>3, <4>1, <4>2 DEF LookAtStatus
    <3>4. touched' \in [Requests -> SUBSET Writers]
      BY <2>3 DEF LookAtStatus, TypeOK
    <3> QED
      BY <2>3, <3>1, <3>2, <3>3, <3>4 DEF LookAtStatus, TypeOK, actors, Labels
  <2>4. CASE LookAtHead(r)
    <3>1. pc' \in [Requests -> Labels] /\ users' \subseteq Requests
      BY <2>4, RaiseTyped, GotoTyped DEF LookAtHead, Labels, Under, TypeOK
    <3>2. seen' \in [Requests -> Looks]
      BY <2>4, LookTyped DEF LookAtHead, TypeOK
    <3> QED
      BY <2>4, <3>1, <3>2 DEF LookAtHead, TypeOK, actors, repository, telling, told, Labels
  <2>5. CASE WriteTask(r)
    <3>1. pc' \in [Requests -> Labels] /\ users' \subseteq Requests
      BY <2>5, RaiseTyped, GotoTyped DEF WriteTask, Labels, Under, TypeOK
    <3> QED
      BY <2>5, <3>1 DEF WriteTask, TypeOK, actors, repository, telling, told, judging, Labels
  <2>6. CASE Start(r)
    <3>1. pc' \in [Requests -> Labels] /\ users' \subseteq Requests
      BY <2>6, RaiseTyped, GotoTyped DEF Start, Labels, Under, TypeOK
    <3>2. <<r, attempt[r]>> \in Attempts
      BY AttemptTyped
    <3>3. working' \subseteq Attempts
      BY <2>6, <3>2 DEF Start, TypeOK
    <3>4. report' \in [Attempts -> Reports]
      BY <2>6 DEF Start, TypeOK, Reports
    <3> QED
      BY <2>6, <3>1, <3>3, <3>4 DEF Start, TypeOK, repository, telling, told, judging, Labels
  <2>7. CASE TurnEnds(r)
    <3>1. setting.reports \subseteq Reports
      BY DEF TypeOK
    <3>2. PICK out \in Outcomes, k \in Reports :
            /\ outcome' = [outcome EXCEPT ![r] = out]
            /\ report' = [report EXCEPT ![<<r, attempt[r]>>] = k]
            /\ working' \subseteq working
      BY <2>7, <3>1 DEF TurnEnds
    <3>3. /\ outcome' \in [Requests -> Outcomes]
          /\ report' \in [Attempts -> Reports]
          /\ working' \subseteq Attempts
      BY <3>2 DEF TypeOK
    <3> QED
      BY <2>7, <3>3 DEF TurnEnds, TypeOK, Goto, repository, telling, told, judging, Under
  <2>8. CASE Fallback(r)
    BY <2>8 DEF Fallback, FallsBack, TypeOK, Goto, repository, telling, told, judging, Under
  <2>9. CASE Capture(r)
    <3>1. pc' \in [Requests -> Labels] /\ users' \subseteq Requests
      BY <2>9, RaiseTyped, GotoTyped DEF Capture, Labels, Under, TypeOK
    <3>2. found' \in [Requests -> Looks]
      BY <2>9, LookTyped DEF Capture, TypeOK
    <3> QED
      BY <2>9, <3>1, <3>2 DEF Capture, TypeOK, actors, repository, telling, told, Labels
  <2>10. CASE Judge(r)
    <3>1. /\ events' \in [Requests -> Seq({"started", "completed", "failed", "cancelled"})]
          /\ journal' \subseteq Requests /\ missed' \subseteq journal'
      BY <2>10, PublishTyped DEF Judge
    <3> QED
      BY <2>10, <3>1 DEF Judge, TypeOK, Goto, actors, repository, Under
  <2>11. CASE WriteResult(r)
    <3>1. pc' \in [Requests -> Labels] /\ users' \subseteq Requests
      BY <2>11, RaiseTyped, GotoTyped DEF WriteResult, Labels, Under, TypeOK
    <3>2. ended[r] = "none" \/ ended[r] \in {"completed", "failed", "cancelled"}
      BY DEF TypeOK
    <3>3. result' \in [Requests -> Results]
      BY <2>11, <3>2, WriteTyped DEF WriteResult, TypeOK
    <3> QED
      BY <2>11, <3>1, <3>3 DEF WriteResult, TypeOK, actors, repository, judging, told, Labels
  <2>12. CASE Leave(r)
    BY <2>12 DEF Leave, Lock!Leave, TypeOK, Goto, actors, repository, judging, telling, told, Over
  <2>13. CASE Answer(r)
    <3>1. PICK s \in {"failed", "cancelled"} :
            /\ ended' = [ended EXCEPT ![r] = s]
            /\ Publish(r, s)
            /\ (Write(r, s) /\ Goto(r, "done")) \/ (Goto(r, "raised") /\ UNCHANGED result)
      BY <2>13 DEF Answer
    <3>2. result' \in [Requests -> Results]
      BY <3>1, WriteTyped DEF TypeOK
    <3>3. pc' \in [Requests -> Labels]
      BY <3>1, GotoTyped DEF Labels, Over
    <3>4. /\ events' \in [Requests -> Seq({"started", "completed", "failed", "cancelled"})]
          /\ journal' \subseteq Requests /\ missed' \subseteq journal'
      BY <2>13, <3>1, PublishTyped DEF Answer
    <3> QED
      BY <2>13, <3>1, <3>2, <3>3, <3>4 DEF Answer, TypeOK, actors, repository, Labels
  <2> QED
    BY <1>1, <2>1, <2>2, <2>3, <2>4, <2>5, <2>6, <2>7, <2>8, <2>9, <2>10, <2>11, <2>12, <2>13
       DEF Request
<1>2. ASSUME NEW r \in Requests, Interrupt(r) \/ Dies(r)
      PROVE  TypeOK'
  BY <1>2 DEF Interrupt, Dies, TypeOK, Goto, repository, judging, telling, told, Under, Over
<1>3. ASSUME NEW a \in working, StragglerEnds(a)
      PROVE  TypeOK'
  BY <1>3 DEF StragglerEnds, TypeOK, repository, judging, telling, told
<1>4. ASSUME NEW w \in Writers, Uses(w)
      PROVE  TypeOK'
  <2>1. setting.paths \subseteq Paths
    BY DEF TypeOK
  <2>2. touched' \in [Requests -> SUBSET Writers]
    <3>1. Touch(w)
      BY <1>4 DEF Uses, Edit, Restore, Commit, Checkout
    <3> QED
      BY <3>1 DEF Touch, TypeOK
  <2>3. tree' \in [Paths -> Writers \cup {Clean}]
    BY <1>4, <2>1 DEF Uses, Edit, Restore, Commit, Checkout, TypeOK
  <2>4. commits' \in 0..MaxHead /\ head' \in 0..commits'
    BY <1>4 DEF Uses, Edit, Restore, Commit, Checkout, TypeOK
  <2>5. UNCHANGED <<setting, users, pc, actors, judging, telling>>
    BY <1>4 DEF Uses, Edit, Restore, Commit, Checkout
  <2> QED
    BY <2>2, <2>3, <2>4, <2>5 DEF TypeOK, actors, judging, telling, told
<1>6. CASE UNCHANGED vars
  BY <1>6 DEF vars, TypeOK, actors, repository, judging, telling, told
<1>7. working \subseteq Writers /\ Someone \in Writers
  BY DEF TypeOK, Writers
<1> QED
  BY <1>1, <1>2, <1>3, <1>4, <1>6, <1>7 DEF Next

-----------------------------------------------------------------------------
(* Who holds the lock                                                      *)

LEMMA LockInit ==
  ASSUME Init
  PROVE  LockInv
BY DEF Init, LockInv, Under

(* A request under way goes on, or it gives the lock up and is over.       *)
LEMMA LockMove ==
  ASSUME TypeOK, LockInv, NEW r \in Requests, NEW label,
         Goto(r, label),
         \/ pc[r] \in Under /\ label \in Under /\ UNCHANGED users
         \/ label \notin Under /\ users' = users \ {r}
  PROVE  LockInv'
<1>1. pc' = [pc EXCEPT ![r] = label] /\ pc \in [Requests -> Labels]
  BY DEF Goto, TypeOK, Labels
<1> QED
  BY <1>1 DEF LockInv

LEMMA LockRaise ==
  ASSUME TypeOK, LockInv, NEW r \in Requests, Raise(r)
  PROVE  LockInv'
<1>1. Goto(r, "failing") /\ users' = users \ {r} /\ "failing" \notin Under
  BY DEF Raise, Under
<1> QED
  BY <1>1, LockMove

LEMMA LockStep ==
  ASSUME TypeOK, LockInv, [Next]_vars
  PROVE  LockInv'
<1>1. ASSUME NEW r \in Requests, Request(r)
      PROVE  LockInv'
  <2>1. CASE Invalid(r) \/ Unavailable(r)
    BY <2>1 DEF Invalid, Unavailable, Decline, TypeOK, LockInv, Goto, Under
  <2>2. CASE Enter(r)
    BY <2>2, LockRaise DEF Enter, Lock!Enter, TypeOK, LockInv, Goto, Under
  <2>3. CASE LookAtStatus(r)
    BY <2>3, LockRaise, LockMove DEF LookAtStatus, Under
  <2>4. CASE LookAtHead(r)
    BY <2>4, LockRaise, LockMove DEF LookAtHead, Under
  <2>5. CASE WriteTask(r)
    BY <2>5, LockRaise, LockMove DEF WriteTask, Under
  <2>6. CASE Start(r)
    BY <2>6, LockRaise, LockMove DEF Start, Under
  <2>7. CASE TurnEnds(r)
    BY <2>7 DEF TurnEnds, TypeOK, LockInv, Goto, Under
  <2>8. CASE Fallback(r)
    BY <2>8 DEF Fallback, TypeOK, LockInv, Goto, Under
  <2>9. CASE Capture(r)
    BY <2>9, LockRaise, LockMove DEF Capture, Under
  <2>10. CASE Judge(r)
    BY <2>10 DEF Judge, TypeOK, LockInv, Goto, Under
  <2>11. CASE WriteResult(r)
    BY <2>11 DEF WriteResult, Raise, TypeOK, LockInv, Goto, Under
  <2>12. CASE Leave(r)
    BY <2>12 DEF Leave, Lock!Leave, TypeOK, LockInv, Goto, Under
  <2>13. CASE Answer(r)
    BY <2>13 DEF Answer, TypeOK, LockInv, Goto, Under
  <2> QED
    BY <1>1, <2>1, <2>2, <2>3, <2>4, <2>5, <2>6, <2>7, <2>8, <2>9, <2>10, <2>11, <2>12, <2>13
       DEF Request
<1>2. ASSUME NEW r \in Requests, Interrupt(r) \/ Dies(r)
      PROVE  LockInv'
  BY <1>2 DEF Interrupt, Dies, TypeOK, LockInv, Goto, Under
<1>3. CASE UNCHANGED <<users, pc>>
  BY <1>3 DEF LockInv
<1> QED
  BY <1>1, <1>2, <1>3 DEF Next, vars, StragglerEnds, Uses, Edit, Restore, Commit, Checkout

-----------------------------------------------------------------------------
(* Who is at work                                                          *)

LEMMA WorkInit ==
  ASSUME Init
  PROVE  WorkInv
BY DEF Init, WorkInv

LEMMA ContainedStep ==
  ASSUME [Next]_vars
  PROVE  /\ setting' = setting
         /\ Contained' = Contained
<1>1. setting' = setting
  BY DEF Next, Request, vars, Invalid, Unavailable, Decline, Enter, LookAtStatus, LookAtHead,
         WriteTask, Start, TurnEnds, Fallback, Capture, Judge, WriteResult, Leave, Answer,
         Interrupt, Dies, StragglerEnds, Uses, Edit, Restore, Commit, Checkout
<1> QED
  BY <1>1 DEF Contained

(* A request moves on without its Executor being called or returning.      *)
LEMMA WorkMove ==
  ASSUME TypeOK, WorkInv, [Next]_vars, NEW r \in Requests, NEW label,
         Goto(r, label), UNCHANGED <<attempt, working>>,
         pc[r] # "working", label \in Unstarted => pc[r] \in Unstarted
  PROVE  WorkInv'
<1>1. pc' = [pc EXCEPT ![r] = label] /\ pc \in [Requests -> Labels]
  BY DEF Goto, TypeOK, Labels
<1>2. \A s \in Requests, n \in {1, 2} : pc'[s] \in Unstarted => <<s, n>> \notin working
  BY <1>1 DEF WorkInv
<1>3. Contained' => \A a \in working : pc'[a[1]] = "working" /\ a[2] = attempt[a[1]]
  <2> SUFFICES ASSUME Contained, NEW a \in working
               PROVE  pc'[a[1]] = "working" /\ a[2] = attempt[a[1]]
    BY ContainedStep
  <2>1. pc[a[1]] = "working" /\ a[2] = attempt[a[1]]
    BY DEF WorkInv
  <2>2. a[1] # r /\ a[1] \in Requests
    BY <2>1 DEF TypeOK, Attempts
  <2> QED
    BY <1>1, <2>1, <2>2
<1> QED
  BY <1>2, <1>3 DEF WorkInv

LEMMA WorkRaise ==
  ASSUME TypeOK, WorkInv, [Next]_vars, NEW r \in Requests, Raise(r), pc[r] # "working",
         UNCHANGED <<attempt, working>>
  PROVE  WorkInv'
<1>1. Goto(r, "failing") /\ "failing" \notin Unstarted
  BY DEF Raise, Unstarted
<1> QED
  BY <1>1, WorkMove

LEMMA WorkStart ==
  ASSUME TypeOK, WorkInv, [Next]_vars, NEW r \in Requests, Start(r)
  PROVE  WorkInv'
<1>1. CASE Raise(r) /\ UNCHANGED working
  BY <1>1, WorkRaise DEF Start
<1>2. CASE working' = working \cup {<<r, attempt[r]>>} /\ Goto(r, "working")
  <2>1. /\ pc' = [pc EXCEPT ![r] = "working"] /\ pc \in [Requests -> Labels]
        /\ UNCHANGED attempt
    BY <1>2 DEF Start, Goto, TypeOK, Labels
  <2>2. \A s \in Requests, n \in {1, 2} : pc'[s] \in Unstarted => <<s, n>> \notin working'
    BY <1>2, <2>1 DEF WorkInv, Unstarted
  <2>4. Contained' => \A a \in working' : pc'[a[1]] = "working" /\ a[2] = attempt[a[1]]
    <3> SUFFICES ASSUME Contained, NEW a \in working'
                 PROVE  pc'[a[1]] = "working" /\ a[2] = attempt[a[1]]
      BY ContainedStep
    <3>1. CASE a = <<r, attempt[r]>>
      BY <2>1, <3>1
    <3>2. CASE a \in working
      BY <2>1, <3>2 DEF WorkInv, TypeOK, Attempts
    <3> QED
      BY <1>2, <3>1, <3>2
  <2> QED
    BY <2>1, <2>2, <2>4 DEF WorkInv
<1> QED
  BY <1>1, <1>2 DEF Start

(* Only a terminal goes on when its turn is given up.                      *)
LEMMA WorkTurnEnds ==
  ASSUME TypeOK, WorkInv, [Next]_vars, NEW r \in Requests, TurnEnds(r)
  PROVE  WorkInv'
<1> DEFINE me == <<r, attempt[r]>>
<1>1. PICK out \in Outcomes : \E linger \in Lingers(attempt[r], out) :
        working' = IF linger THEN working ELSE working \ {me}
  BY DEF TurnEnds
<1>2. /\ pc' = [pc EXCEPT ![r] = "ended"] /\ pc \in [Requests -> Labels]
      /\ pc[r] = "working" /\ UNCHANGED attempt
  BY DEF TurnEnds, Goto, TypeOK, Labels
<1>3. Contained => working' = working \ {me}
  BY <1>1 DEF Lingers, Backend, Contained
<1>4. working' \subseteq working
  BY <1>1
<1>5. \A s \in Requests, n \in {1, 2} : pc'[s] \in Unstarted => <<s, n>> \notin working'
  BY <1>2, <1>4 DEF WorkInv, Unstarted
<1>7. Contained' => \A a \in working' : pc'[a[1]] = "working" /\ a[2] = attempt[a[1]]
  <2> SUFFICES ASSUME Contained, NEW a \in working'
               PROVE  pc'[a[1]] = "working" /\ a[2] = attempt[a[1]]
    BY ContainedStep
  <2>1. /\ pc[a[1]] = "working" /\ a[2] = attempt[a[1]]
        /\ a = <<a[1], a[2]>> /\ a[1] \in Requests
    BY <1>4 DEF WorkInv, TypeOK, Attempts
  <2>2. a[1] # r
    BY <1>3, <2>1
  <2> QED
    BY <1>2, <2>1, <2>2
<1> QED
  BY <1>2, <1>5, <1>7 DEF WorkInv

LEMMA WorkFallback ==
  ASSUME TypeOK, WorkInv, [Next]_vars, NEW r \in Requests, Fallback(r)
  PROVE  WorkInv'
<1>1. /\ pc' = [pc EXCEPT ![r] = "start"] /\ pc \in [Requests -> Labels] /\ pc[r] = "ended"
      /\ attempt' = [attempt EXCEPT ![r] = 2] /\ UNCHANGED working
  BY DEF Fallback, Goto, TypeOK, Labels
<1>2. \A s \in Requests, n \in {1, 2} : pc'[s] \in Unstarted => <<s, n>> \notin working
  BY <1>1 DEF WorkInv, Unstarted
<1>4. Contained' => \A a \in working : pc'[a[1]] = "working" /\ a[2] = attempt'[a[1]]
  <2> SUFFICES ASSUME Contained, NEW a \in working
               PROVE  pc'[a[1]] = "working" /\ a[2] = attempt'[a[1]]
    BY ContainedStep
  <2>1. pc[a[1]] = "working" /\ a[2] = attempt[a[1]]
    BY DEF WorkInv
  <2>2. a[1] # r /\ a[1] \in Requests
    BY <1>1, <2>1 DEF TypeOK, Attempts
  <2> QED
    BY <1>1, <2>1, <2>2 DEF TypeOK
<1> QED
  BY <1>1, <1>2, <1>4 DEF WorkInv

LEMMA WorkStep ==
  ASSUME TypeOK, WorkInv, [Next]_vars
  PROVE  WorkInv'
<1>1. ASSUME NEW r \in Requests, Request(r)
      PROVE  WorkInv'
  <2>1. CASE Invalid(r) \/ Unavailable(r)
    BY <2>1, WorkMove DEF Invalid, Unavailable, Decline, Unstarted, actors
  <2>2. CASE Enter(r)
    BY <2>2, WorkRaise, WorkMove DEF Enter, Unstarted, actors
  <2>3. CASE LookAtStatus(r)
    BY <2>3, WorkRaise, WorkMove DEF LookAtStatus, Unstarted, actors
  <2>4. CASE LookAtHead(r)
    BY <2>4, WorkRaise, WorkMove DEF LookAtHead, Unstarted, actors
  <2>5. CASE WriteTask(r)
    BY <2>5, WorkRaise, WorkMove DEF WriteTask, Unstarted, actors
  <2>6. CASE Start(r)
    BY <2>6, WorkStart
  <2>7. CASE TurnEnds(r)
    BY <2>7, WorkTurnEnds
  <2>8. CASE Fallback(r)
    BY <2>8, WorkFallback
  <2>9. CASE Capture(r)
    BY <2>9, WorkRaise, WorkMove DEF Capture, Unstarted, actors
  <2>10. CASE Judge(r)
    BY <2>10, WorkMove DEF Judge, Unstarted, actors
  <2>11. CASE WriteResult(r)
    BY <2>11, WorkRaise, WorkMove DEF WriteResult, Unstarted, actors
  <2>12. CASE Leave(r)
    BY <2>12, WorkMove DEF Leave, Unstarted, actors
  <2>13. CASE Answer(r)
    BY <2>13, WorkMove DEF Answer, Unstarted, actors
  <2> QED
    BY <1>1, <2>1, <2>2, <2>3, <2>4, <2>5, <2>6, <2>7, <2>8, <2>9, <2>10, <2>11, <2>12, <2>13
       DEF Request
<1>2. ASSUME NEW r \in Requests, Interrupt(r) \/ Dies(r)
      PROVE  WorkInv'
  <2>1. ~Contained' /\ working' \subseteq working /\ UNCHANGED attempt
    BY <1>2, ContainedStep DEF Interrupt, Dies, Contained
  <2>2. PICK label \in {"cancelling", "dead"} : pc' = [pc EXCEPT ![r] = label]
    BY <1>2 DEF Interrupt, Dies, Goto
  <2>3. pc \in [Requests -> Labels]
    BY DEF TypeOK, Labels
  <2> QED
    BY <2>1, <2>2, <2>3 DEF WorkInv, Unstarted
<1>3. CASE working' \subseteq working /\ UNCHANGED <<setting, pc, attempt>>
  BY <1>3, ContainedStep DEF WorkInv
<1> QED
  BY <1>1, <1>2, <1>3 DEF Next, vars, StragglerEnds, Uses, Edit, Restore, Commit, Checkout, actors

-----------------------------------------------------------------------------
(* What a step of a request leaves alone                                   *)

Acts(r) == Request(r) \/ Interrupt(r) \/ Dies(r)

(* It moves that request, never back to its beginning.                     *)
LEMMA FramePc ==
  ASSUME TypeOK, NEW r \in Requests, Acts(r)
  PROVE  \E label \in Labels \ {"new"} :
           /\ pc' = [pc EXCEPT ![r] = label]
           /\ label \in Under => pc[r] \in Under \cup {"new"}
<1>1. CASE Invalid(r) \/ Unavailable(r) \/ Enter(r)
  BY <1>1 DEF Invalid, Unavailable, Decline, Enter, Raise, Goto, Labels, Under, Over
<1>2. CASE LookAtStatus(r) \/ LookAtHead(r) \/ WriteTask(r)
  BY <1>2 DEF LookAtStatus, LookAtHead, WriteTask, Raise, Goto, Labels, Under, Over
<1>3. CASE Start(r) \/ TurnEnds(r) \/ Fallback(r) \/ Capture(r)
  BY <1>3 DEF Start, TurnEnds, Fallback, Capture, Raise, Goto, Labels, Under, Over
<1>4. CASE Judge(r) \/ WriteResult(r) \/ Leave(r) \/ Answer(r)
  BY <1>4 DEF Judge, WriteResult, Leave, Answer, Raise, Goto, Labels, Under, Over
<1>5. CASE Interrupt(r) \/ Dies(r)
  BY <1>5 DEF Interrupt, Dies, Goto, Labels, Under, Over
<1> QED
  BY <1>1, <1>2, <1>3, <1>4, <1>5 DEF Acts, Request

(* It changes nothing in the repository.                                   *)
LEMMA FrameRepository ==
  ASSUME NEW r \in Requests, Acts(r)
  PROVE  /\ UNCHANGED <<setting, commits, head, tree>>
         /\ UNCHANGED touched \/ touched' = [touched EXCEPT ![r] = {}]
BY DEF Acts, Request, Invalid, Unavailable, Decline, Enter, LookAtStatus, LookAtHead, WriteTask,
       Start, TurnEnds, Fallback, Capture, Judge, WriteResult, Leave, Answer, Interrupt, Dies,
       repository

(* It changes nothing that is another request's.                           *)
LEMMA FrameActors ==
  ASSUME TypeOK, NEW r \in Requests, Acts(r), NEW s \in Requests \ {r}
  PROVE  /\ attempt'[s] = attempt[s] /\ outcome'[s] = outcome[s]
         /\ report'[<<s, attempt[s]>>] = report[<<s, attempt[s]>>]
<1>1. CASE Start(r) \/ TurnEnds(r) \/ Fallback(r)
  <2>1. attempt'[s] = attempt[s] /\ outcome'[s] = outcome[s]
    BY <1>1 DEF Start, TurnEnds, Fallback, TypeOK
  <2>2. report'[<<s, attempt[s]>>] = report[<<s, attempt[s]>>]
    <3>1. \/ UNCHANGED report
          \/ \E k : report' = [report EXCEPT ![<<r, attempt[r]>>] = k]
      BY <1>1 DEF Start, TurnEnds, Fallback
    <3>2. <<s, attempt[s]>> \in Attempts /\ <<s, attempt[s]>> # <<r, attempt[r]>>
      BY AttemptTyped
    <3> QED
      BY <3>1, <3>2 DEF TypeOK
  <2> QED
    BY <2>1, <2>2
<1>2. CASE UNCHANGED <<attempt, outcome, report>>
  BY <1>2
<1> QED
  BY <1>1, <1>2
     DEF Acts, Request, Invalid, Unavailable, Decline, Enter, LookAtStatus, LookAtHead, WriteTask,
         Capture, Judge, WriteResult, Leave, Answer, Interrupt, Dies, actors

LEMMA FrameJudging ==
  ASSUME TypeOK, NEW r \in Requests, Acts(r), NEW s \in Requests \ {r}
  PROVE  seen'[s] = seen[s] /\ found'[s] = found[s] /\ ended'[s] = ended[s]
<1>1. CASE LookAtStatus(r) \/ LookAtHead(r) \/ Capture(r) \/ Judge(r) \/ Answer(r)
  BY <1>1 DEF LookAtStatus, LookAtHead, Capture, Judge, Answer, TypeOK
<1>2. CASE UNCHANGED judging
  BY <1>2 DEF judging
<1> QED
  BY <1>1, <1>2
     DEF Acts, Request, Invalid, Unavailable, Decline, Enter, WriteTask, Start, TurnEnds, Fallback,
         WriteResult, Leave, Interrupt, Dies

LEMMA FrameTelling ==
  ASSUME TypeOK, NEW r \in Requests, Acts(r), NEW s \in Requests \ {r}
  PROVE  /\ events'[s] = events[s] /\ result'[s] = result[s]
         /\ (s \in missed' <=> s \in missed) /\ (s \in journal' <=> s \in journal)
<1>1. CASE LookAtStatus(r) \/ Judge(r) \/ Answer(r) \/ WriteResult(r) \/ Invalid(r) \/ Unavailable(r)
  BY <1>1
     DEF LookAtStatus, Judge, Answer, WriteResult, Invalid, Unavailable, Decline, Publish, Write,
         told, TypeOK
<1>2. CASE UNCHANGED telling
  BY <1>2 DEF telling, told
<1> QED
  BY <1>1, <1>2
     DEF Acts, Request, Enter, LookAtHead, WriteTask, Start, TurnEnds, Fallback, Capture, Leave,
         Interrupt, Dies

-----------------------------------------------------------------------------
(* Who changed the repository                                              *)

LEMMA TouchInit ==
  ASSUME Init
  PROVE  TouchInv
BY DEF Init, TouchInv, Under

LEMMA TouchStep ==
  ASSUME TypeOK, LockInv, WorkInv, TouchInv, [Next]_vars
  PROVE  TouchInv'
<1>1. setting' = setting /\ Contained' = Contained
  BY ContainedStep
<1>2. ASSUME NEW r \in Requests, Acts(r)
      PROVE  TouchInv'
  <2>1. PICK label \in Labels \ {"new"} :
          /\ pc' = [pc EXCEPT ![r] = label]
          /\ label \in Under => pc[r] \in Under \cup {"new"}
    BY <1>2, FramePc
  <2>2. UNCHANGED touched \/ touched' = [touched EXCEPT ![r] = {}]
    BY <1>2, FrameRepository
  <2>3. pc \in [Requests -> Labels] /\ touched \in [Requests -> SUBSET Writers]
    BY DEF TypeOK, Labels
  <2> QED
    BY <1>1, <2>1, <2>2, <2>3 DEF TouchInv
<1>3. ASSUME NEW w \in Writers, Touch(w), UNCHANGED pc,
             w \in working \/ (setting.crowd /\ w = Someone)
      PROVE  TouchInv'
  <2>1. touched' = [r \in Requests |-> IF pc[r] \in Under THEN touched[r] \cup {w} ELSE touched[r]]
    BY <1>3 DEF Touch
  <2>2. \A r \in Requests : pc'[r] = "new" => touched'[r] = {}
    BY <1>3, <2>1 DEF TouchInv, Under
  <2>4. Contained' => \A r \in Requests : pc'[r] \in Under =>
          \A a \in Attempts : a \in touched'[r] => a[1] = r
    <3> SUFFICES ASSUME Contained, NEW r \in Requests, pc[r] \in Under,
                        NEW a \in Attempts, a \in touched'[r]
                 PROVE  a[1] = r
      BY <1>1, <1>3
    <3>1. CASE a \in touched[r]
      BY <3>1 DEF TouchInv
    <3>2. CASE a = w
      <4>1. a \in working
        BY <1>3, <3>2, SentinelAssumption DEF Attempts
      <4>2. pc[a[1]] \in Under /\ a[1] \in Requests
        BY <4>1 DEF WorkInv, Under, Attempts
      <4> QED
        BY <4>2 DEF LockInv
    <3> QED
      BY <2>1, <3>1, <3>2
  <2> QED
    BY <2>2, <2>4 DEF TouchInv
<1>4. CASE UNCHANGED <<pc, touched>>
  BY <1>1, <1>4 DEF TouchInv
<1>5. ASSUME NEW w \in Writers, Uses(w)
      PROVE  Touch(w) /\ UNCHANGED pc
  BY <1>5 DEF Uses, Edit, Restore, Commit, Checkout
<1>6. working \subseteq Writers /\ Someone \in Writers
  BY DEF TypeOK, Writers
<1> QED
  BY <1>2, <1>3, <1>4, <1>5, <1>6 DEF Next, Acts, vars, StragglerEnds, repository

-----------------------------------------------------------------------------
(* What holds of each request                                              *)

Parts(r) == Visible(r) /\ Found(r) /\ Judged(r) /\ Agreed(r)

LEMMA PartsInit ==
  ASSUME Init, NEW r \in Requests
  PROVE  Parts(r)
BY DEF Init, Parts, Visible, Found, Judged, Agreed, Looking, Captured, NoResult

(* A step of one request is nothing to another.                            *)
LEMMA PartsOfOthers ==
  ASSUME TypeOK, [Next]_vars, NEW r \in Requests, Acts(r), NEW s \in Requests \ {r}, Parts(s)
  PROVE  Parts(s)'
<1>1. pc'[s] = pc[s]
  BY FramePc DEF TypeOK
<1>2. touched'[s] = touched[s] /\ UNCHANGED <<setting, head, tree>> /\ Status' = Status
  BY FrameRepository DEF TypeOK, Status
<1>3. /\ attempt'[s] = attempt[s] /\ outcome'[s] = outcome[s]
      /\ report'[<<s, attempt[s]>>] = report[<<s, attempt[s]>>]
  BY FrameActors
<1>4. seen'[s] = seen[s] /\ found'[s] = found[s] /\ ended'[s] = ended[s]
  BY FrameJudging
<1>5. events'[s] = events[s] /\ result'[s] = result[s]
      /\ (s \in missed' <=> s \in missed) /\ (s \in journal' <=> s \in journal)
  BY FrameTelling
<1>6. Private' = Private
  BY <1>2, ContainedStep DEF Private
<1>7. Visible(s)' /\ Found(s)'
  BY <1>1, <1>2, <1>4, <1>6 DEF Parts, Visible, Found
<1>8. Kind(s)' = Kind(s)
  BY <1>3 DEF Kind
<1>9. Judged(s)'
  BY <1>1, <1>2, <1>3, <1>4, <1>5, <1>8 DEF Parts, Judged, Proven
<1>10. Agreed(s)'
  BY <1>1, <1>2, <1>4, <1>5 DEF Parts, Agreed, LastEvent
<1> QED
  BY <1>7, <1>9, <1>10 DEF Parts

(* A change of the repository                                              *)

(* Who changes it is at work, or one of the others.                        *)
Changes(w) ==
  /\ w \in working \/ (setting.crowd /\ w = Someone)
  /\ Uses(w)

LEMMA FrameChange ==
  ASSUME TypeOK, NEW w, Uses(w), NEW r \in Requests
  PROVE  /\ UNCHANGED <<setting, users, pc, actors, judging, telling>>
         /\ touched'[r] = IF pc[r] \in Under THEN touched[r] \cup {w} ELSE touched[r]
BY DEF Uses, Edit, Restore, Commit, Checkout, Touch

(* What is changed in private is changed by an attempt of the request that *)
(* holds the lock.                                                         *)
LEMMA PrivateChange ==
  ASSUME TypeOK, LockInv, WorkInv, Private, NEW w, Changes(w), NEW r \in Requests, pc[r] \in Under
  PROVE  w \in Own(r) /\ pc[r] = "working"
<1>1. w \in working
  BY DEF Changes, Private
<1>2. /\ w[1] \in Requests /\ w[2] \in {1, 2} /\ w = <<w[1], w[2]>>
      /\ pc[w[1]] = "working"
  BY <1>1 DEF WorkInv, TypeOK, Attempts, Private
<1>3. w[1] = r
  BY <1>2 DEF LockInv, Under
<1> QED
  BY <1>2, <1>3 DEF Own

LEMMA VisibleChange ==
  ASSUME TypeOK, LockInv, WorkInv, NEW w, Changes(w), [Next]_vars, NEW r \in Requests, Visible(r)
  PROVE  Visible(r)'
<1>1. /\ UNCHANGED <<setting, pc, seen>> /\ Private' = Private
      /\ pc[r] \in Under => touched'[r] # {}
  <2>1. Uses(w)
    BY DEF Changes
  <2>2. /\ UNCHANGED <<setting, pc, judging>>
        /\ touched'[r] = IF pc[r] \in Under THEN touched[r] \cup {w} ELSE touched[r]
    BY <2>1, FrameChange
  <2>3. Private' = Private
    BY ContainedStep DEF Private
  <2> QED
    BY <2>2, <2>3 DEF judging
<1>2. Looking \cup Captured \subseteq Under
  BY DEF Looking, Captured, Under
<1>3. ASSUME Private, pc[r] \in Looking \cup Captured, seen[r].status = {}, NEW p \in Status'
      PROVE  tree'[p] \in Own(r)
  <2>1. \A q \in Status : tree[q] \in Own(r)
    BY <1>3 DEF Visible
  <2>2. w \in Own(r)
    BY <1>2, <1>3, PrivateChange
  <2>3. p \in Paths /\ tree'[p] # Clean /\ tree \in [Paths -> Writers \cup {Clean}]
    BY <1>3 DEF Status, TypeOK
  <2>4. tree'[p] = w \/ tree'[p] = tree[p] \/ tree'[p] = Clean
    BY <2>3 DEF Changes, Uses, Edit, Restore, Commit, Checkout
  <2> QED
    BY <2>1, <2>2, <2>3, <2>4 DEF Status
<1> QED
  BY <1>1, <1>2, <1>3 DEF Visible, Own

LEMMA PartsChange ==
  ASSUME TypeOK, LockInv, WorkInv, NEW w, Changes(w), [Next]_vars,
         NEW r \in Requests, Parts(r)
  PROVE  Parts(r)'
<1>1. /\ UNCHANGED <<setting, pc, actors, judging, telling>> /\ Private' = Private
      /\ touched[r] # {} => touched'[r] # {}
  <2>1. Uses(w)
    BY DEF Changes
  <2>2. /\ UNCHANGED <<setting, pc, actors, judging, telling>>
        /\ touched'[r] = IF pc[r] \in Under THEN touched[r] \cup {w} ELSE touched[r]
    BY <2>1, FrameChange
  <2>3. Private' = Private
    BY ContainedStep DEF Private
  <2> QED
    BY <2>2, <2>3
<1>2. Visible(r)'
  BY VisibleChange DEF Parts
<1>3. Agreed(r)'
  BY <1>1 DEF Parts, Agreed, LastEvent, judging, telling, told
<1>4. Kind(r)' = Kind(r)
  BY <1>1 DEF Kind, actors
<1>5. Found(r)'
  <2>1. ~(Private /\ pc[r] \in Captured)
    BY PrivateChange DEF Captured, Under
  <2> QED
    BY <1>1, <2>1 DEF Parts, Found, judging
<1>6. Judged(r)'
  BY <1>1, <1>4 DEF Parts, Judged, Proven, actors, judging, telling
<1> QED
  BY <1>2, <1>3, <1>5, <1>6 DEF Parts

(* A step of the request itself                                            *)

LEMMA VisibleOwn ==
  ASSUME TypeOK, [Next]_vars, NEW r \in Requests, Acts(r), Visible(r)
  PROVE  Visible(r)'
<1> USE DEF Looking, Captured
<1>1. Private' = Private
  BY ContainedStep DEF Private
<1>2. UNCHANGED tree /\ Status' = Status
  BY FrameRepository DEF Status
<1>3. CASE pc'[r] \notin Looking \cup Captured
  BY <1>3 DEF Visible
<1>4. CASE LookAtStatus(r) /\ pc'[r] \in Looking \cup Captured
  <2>1. seen' = [seen EXCEPT ![r] = [seen[r] EXCEPT !.status = Status]]
    BY <1>4 DEF LookAtStatus, Raise, Goto, TypeOK
  <2>2. seen'[r].status = Status
    BY <2>1 DEF TypeOK, Looks
  <2> QED
    BY <1>2, <2>2 DEF Visible
<1>5. CASE LookAtHead(r) /\ pc'[r] \in Looking \cup Captured
  <2>1. /\ pc[r] = "head" /\ UNCHANGED touched
        /\ seen' = [seen EXCEPT ![r] = [seen[r] EXCEPT !.head = head, !.ok = TRUE]]
    BY <1>5 DEF LookAtHead, Raise, Goto, TypeOK, repository
  <2>2. seen'[r].status = seen[r].status
    BY <2>1 DEF TypeOK, Looks
  <2> QED
    BY <1>1, <1>2, <2>1, <2>2 DEF Visible
<1>6. CASE /\ WriteTask(r) \/ Start(r) \/ TurnEnds(r) \/ Fallback(r)
           /\ pc'[r] \in Looking \cup Captured
  <2>1. pc[r] \in Looking /\ UNCHANGED <<touched, seen>>
    BY <1>6 DEF WriteTask, Start, TurnEnds, Fallback, Raise, Goto, TypeOK, repository, judging
  <2> QED
    BY <1>1, <1>2, <2>1 DEF Visible
<1>7. CASE /\ Capture(r) \/ Judge(r) \/ WriteResult(r)
           /\ pc'[r] \in Looking \cup Captured
  <2>1. /\ pc[r] \in Looking \cup Captured /\ pc'[r] \in Captured
        /\ UNCHANGED <<touched, seen>>
    BY <1>7 DEF Capture, Judge, WriteResult, Raise, Goto, TypeOK, repository, judging
  <2> QED
    BY <1>1, <1>2, <2>1 DEF Visible
<1>8. CASE \/ Invalid(r) \/ Unavailable(r) \/ Enter(r) \/ Leave(r) \/ Answer(r)
           \/ Interrupt(r) \/ Dies(r)
  <2>1. pc'[r] \notin Looking \cup Captured
    BY <1>8
       DEF Invalid, Unavailable, Decline, Enter, Leave, Answer, Interrupt, Dies, Raise, Goto, TypeOK
  <2> QED
    BY <1>3, <2>1
<1> QED
  BY <1>3, <1>4, <1>5, <1>6, <1>7, <1>8 DEF Acts, Request

LEMMA FoundOwn ==
  ASSUME TypeOK, [Next]_vars, NEW r \in Requests, Acts(r), Visible(r), Found(r)
  PROVE  Found(r)'
<1>1. CASE pc'[r] \notin Captured
  BY <1>1 DEF Found
<1>2. Private' = Private /\ UNCHANGED head /\ Status' = Status
  BY FrameRepository, ContainedStep DEF Private, Status
<1>3. CASE Capture(r) /\ pc'[r] \in Captured
  <2>1. pc[r] = "ended" /\ UNCHANGED <<touched, seen>>
    BY <1>3 DEF Capture, repository
  <2>2. \/ found'[r] = [status |-> Status, head |-> head, ok |-> TRUE]
        \/ found'[r].status = {} /\ ~found'[r].ok
    <3>1. Goto(r, "failing") => pc'[r] \notin Captured
      BY DEF Goto, TypeOK, Captured
    <3>2. \/ found' = [found EXCEPT ![r] = [status |-> Status, head |-> head, ok |-> TRUE]]
          \/ found' = [found EXCEPT ![r] = [Nothing EXCEPT !.head = seen[r].head]]
      BY <1>3, <3>1 DEF Capture, Raise
    <3> QED
      BY <3>2 DEF TypeOK, Nothing
  <2>3. seen[r].status = {} /\ Status # {} => touched[r] # {}
    BY <2>1 DEF Visible, Looking
  <2> QED
    BY <1>2, <2>1, <2>2, <2>3 DEF Found
<1>4. CASE (Judge(r) \/ WriteResult(r)) /\ pc'[r] \in Captured
  <2>1. pc[r] \in Captured /\ UNCHANGED <<touched, seen, found>>
    BY <1>4 DEF Judge, WriteResult, Captured, repository, judging
  <2> QED
    BY <1>2, <2>1 DEF Found
<1>5. CASE \/ Invalid(r) \/ Unavailable(r) \/ Enter(r) \/ LookAtStatus(r) \/ LookAtHead(r)
           \/ WriteTask(r) \/ Start(r) \/ TurnEnds(r) \/ Fallback(r) \/ Leave(r) \/ Answer(r)
           \/ Interrupt(r) \/ Dies(r)
  <2>1. pc'[r] \notin Captured
    BY <1>5
       DEF Invalid, Unavailable, Decline, Enter, LookAtStatus, LookAtHead, WriteTask, Start,
           TurnEnds, Fallback, Leave, Answer, Interrupt, Dies, Raise, Goto, TypeOK, Captured
  <2> QED
    BY <1>1, <2>1
<1> QED
  BY <1>1, <1>3, <1>4, <1>5 DEF Acts, Request

LEMMA JudgedOwn ==
  ASSUME TypeOK, [Next]_vars, NEW r \in Requests, Acts(r), Found(r), Judged(r)
  PROVE  Judged(r)'
<1> DEFINE Late == {"leave", "done", "cancelling", "raised", "dead"}
<1>2. UNCHANGED <<touched, attempt, report, seen, found>> => (Proven(r)' <=> Proven(r))
  BY DEF Proven, Kind
<1>3. CASE Judge(r)
  <2>1. /\ pc[r] = "publish" /\ pc'[r] = "write"
        /\ ended'[r] = "completed" => Completed(r)
        /\ UNCHANGED <<touched, actors, seen, found, result>>
    BY <1>3 DEF Judge, Goto, TypeOK, repository
  <2>2. Completed(r) => Proven(r) /\ found[r].ok /\ found[r].head = seen[r].head
    BY <2>1 DEF Completed, Unchanged, Proven, Found, Captured
  <2> QED
    BY <1>2, <2>1, <2>2 DEF Judged, actors
<1>4. CASE WriteResult(r)
  <2>1. /\ pc[r] = "write" /\ pc'[r] \in {"leave", "failing"}
        /\ UNCHANGED <<touched, actors, seen, found, ended>>
        /\ \/ UNCHANGED result
           \/ /\ result'[r] = [status |-> ended[r], actor |-> attempt[r]]
              /\ pc'[r] = "leave"
    BY <1>4 DEF WriteResult, Write, Raise, Goto, TypeOK, repository, judging
  <2> QED
    BY <1>2, <2>1 DEF Judged, actors
<1>5. CASE Answer(r)
  <2>1. /\ pc[r] \in {"failing", "cancelling"} /\ pc'[r] \in {"done", "raised"}
        /\ UNCHANGED <<touched, actors, seen, found>>
        /\ UNCHANGED result \/ result'[r].status \in {"failed", "cancelled"}
    BY <1>5 DEF Answer, Write, Goto, TypeOK, repository
  <2> QED
    BY <1>2, <2>1 DEF Judged, actors
<1>6. CASE Leave(r) \/ Interrupt(r) \/ Dies(r)
  <2>1. /\ pc'[r] \in {"done", "cancelling", "dead"}
        /\ UNCHANGED <<touched, attempt, outcome, report, seen, found, result>>
    BY <1>6 DEF Leave, Interrupt, Dies, Goto, TypeOK, repository, actors, judging, telling, told
  <2> QED
    BY <1>2, <2>1 DEF Judged
<1>7. CASE Invalid(r) \/ Unavailable(r)
  <2>1. /\ pc'[r] = "done"
        /\ result'[r].status \in {"invalid_request", "executor_unavailable"}
    BY <1>7 DEF Invalid, Unavailable, Decline, Goto, TypeOK
  <2> QED
    BY <2>1 DEF Judged
<1>8. CASE \/ Enter(r) \/ LookAtStatus(r) \/ LookAtHead(r) \/ WriteTask(r) \/ Start(r)
           \/ TurnEnds(r) \/ Fallback(r) \/ Capture(r)
  <2>1. /\ pc[r] \notin Late /\ pc'[r] \notin {"write", "leave"}
        /\ UNCHANGED result
    BY <1>8
       DEF Enter, LookAtStatus, LookAtHead, WriteTask, Start, TurnEnds, Fallback, Capture, Raise,
           Goto, TypeOK, telling
  <2> QED
    BY <2>1 DEF Judged
<1> QED
  BY <1>3, <1>4, <1>5, <1>6, <1>7, <1>8 DEF Acts, Request

(* The last of the events is the one told last.                            *)
LEMMA ToldLast ==
  ASSUME TypeOK, NEW r \in Requests, NEW s \in {"started", "completed", "failed", "cancelled"},
         Publish(r, s), events'[r] # <<>>
  PROVE  \/ LastEvent(r)' = s
         \/ events'[r] = events[r] /\ (r \in missed' \/ r \notin journal')
<1> DEFINE Event == {"started", "completed", "failed", "cancelled"}
<1>1. events[r] \in Seq(Event)
  BY DEF TypeOK
<1>2. events'[r] = Append(events[r], s) => LastEvent(r)' = s
  <2>1. Append(events[r], s)[Len(Append(events[r], s))] = s
    BY <1>1
  <2> QED
    BY <2>1 DEF LastEvent
<1>3. \/ events'[r] = Append(events[r], s)
      \/ events'[r] = events[r] /\ (r \in missed' \/ r \notin journal')
  BY DEF Publish, TypeOK
<1> QED
  BY <1>2, <1>3

LEMMA AgreedOwn ==
  ASSUME TypeOK, [Next]_vars, NEW r \in Requests, Acts(r), Agreed(r)
  PROVE  Agreed(r)'
<1> USE DEF Unjudged, Under
<1>0. UNCHANGED setting
  BY ContainedStep
<1>1. CASE Judge(r)
  <2>1. PICK s \in {"completed", "failed"} :
          /\ pc[r] = "publish" /\ pc'[r] = "write" /\ ended'[r] = s /\ Publish(r, s)
          /\ UNCHANGED journal
    BY <1>1 DEF Judge, Goto, TypeOK
  <2>2. events[r] # <<>> => LastEvent(r) = "started"
    BY <2>1 DEF Agreed
  <2>3. events'[r] # <<>> => LastEvent(r)' = s \/ (r \in missed' /\ LastEvent(r)' = "started")
    <3>1. events'[r] # <<>> =>
            LastEvent(r)' = s \/ (events'[r] = events[r] /\ (r \in missed' \/ r \notin journal'))
      BY <2>1, ToldLast
    <3> QED
      BY <2>1, <2>2, <3>1 DEF Agreed, LastEvent
  <2>4. r \notin journal' => events'[r] = <<>>
    BY <2>1 DEF Agreed, Publish
  <2> QED
    BY <2>1, <2>3, <2>4 DEF Agreed
<1>2. CASE WriteResult(r)
  <2>1. /\ pc[r] = "write" /\ UNCHANGED <<ended, told>>
        /\ \/ pc'[r] = "failing" /\ setting.faults
           \/ pc'[r] = "leave" /\ result'[r].status = ended[r]
    BY <1>2 DEF WriteResult, Write, Raise, Goto, TypeOK, judging
  <2> QED
    BY <1>0, <2>1 DEF Agreed, LastEvent, told
<1>3. CASE Leave(r)
  BY <1>0, <1>3 DEF Leave, Agreed, LastEvent, Ending, Goto, TypeOK, judging, telling, told
<1>4. CASE Answer(r)
  <2>1. PICK s \in {"failed", "cancelled"} :
          /\ Publish(r, s) /\ UNCHANGED journal /\ pc[r] \in {"failing", "cancelling"}
          /\ pc'[r] = "raised" \/ (pc'[r] = "done" /\ result'[r].status = s)
    BY <1>4 DEF Answer, Write, Goto, TypeOK
  <2>2. events[r] # <<>> => LastEvent(r) = "started" \/ setting.faults \/ setting.stops
    BY <2>1 DEF Agreed
  <2>3. events'[r] # <<>> =>
          \/ LastEvent(r)' = s
          \/ r \in missed' /\ (LastEvent(r)' = "started" \/ setting.faults \/ setting.stops)
    <3>1. events'[r] # <<>> =>
            LastEvent(r)' = s \/ (events'[r] = events[r] /\ (r \in missed' \/ r \notin journal'))
      BY <2>1, ToldLast
    <3> QED
      BY <2>1, <2>2, <3>1 DEF Agreed, LastEvent
  <2>4. r \notin journal' => events'[r] = <<>>
    BY <2>1 DEF Agreed, Publish
  <2> QED
    BY <1>0, <2>1, <2>3, <2>4 DEF Agreed, Ending
<1>5. CASE Invalid(r) \/ Unavailable(r)
  BY <1>5 DEF Invalid, Unavailable, Decline, Agreed, Goto, TypeOK, told
<1>6. CASE LookAtStatus(r)
  <2>1. \/ pc'[r] = "failing" /\ UNCHANGED told
        \/ pc'[r] = "head" /\ Publish(r, "started")
    BY <1>6 DEF LookAtStatus, Raise, Goto, TypeOK
  <2>2. pc[r] = "status" /\ (r \in journal => r \in journal')
    BY <1>6 DEF LookAtStatus, told
  <2>3. r \notin journal' => events'[r] = <<>>
    BY <2>1, <2>2 DEF Agreed, Publish, told
  <2>4. events'[r] # <<>> => LastEvent(r)' = "started"
    BY <2>1, <2>2, ToldLast DEF Agreed, LastEvent, told
  <2> QED
    BY <1>0, <2>1, <2>2, <2>3, <2>4 DEF Agreed
<1>7. CASE \/ LookAtHead(r) \/ WriteTask(r) \/ Start(r) \/ TurnEnds(r) \/ Fallback(r) \/ Capture(r)
           \/ Enter(r)
  <2>1. pc[r] \in {"new"} \cup Unjudged /\ pc'[r] \in Unjudged \cup {"failing"} /\ UNCHANGED told
    BY <1>7
       DEF Enter, LookAtHead, WriteTask, Start, TurnEnds, Fallback, Capture, Raise, Goto, TypeOK,
           telling
  <2> QED
    BY <1>0, <2>1 DEF Agreed, LastEvent, told
<1>8. CASE Interrupt(r) \/ Dies(r)
  <2>1. /\ (pc'[r] = "cancelling" /\ setting.stops) \/ pc'[r] = "dead"
        /\ UNCHANGED told
    BY <1>8 DEF Interrupt, Dies, Goto, TypeOK, telling
  <2> QED
    BY <1>0, <2>1 DEF Agreed, told
<1> QED
  BY <1>1, <1>2, <1>3, <1>4, <1>5, <1>6, <1>7, <1>8 DEF Acts, Request

-----------------------------------------------------------------------------
(* The invariant                                                           *)

LEMMA InvInit ==
  ASSUME Init
  PROVE  IInv
BY TypeInit, LockInit, WorkInit, TouchInit, PartsInit DEF IInv, Parts

LEMMA InvStep ==
  ASSUME IInv, [Next]_vars
  PROVE  IInv'
<1>1. TypeOK /\ LockInv /\ WorkInv /\ TouchInv /\ \A r \in Requests : Parts(r)
  BY DEF IInv, Parts
<1>2. TypeOK' /\ LockInv' /\ WorkInv' /\ TouchInv'
  BY <1>1, TypeStep, LockStep, WorkStep, TouchStep
<1>3. ASSUME NEW r \in Requests, Acts(r), NEW s \in Requests
      PROVE  Parts(s)'
  <2>1. CASE s = r
    BY <1>1, <1>3, <2>1, VisibleOwn, FoundOwn, JudgedOwn, AgreedOwn DEF Parts
  <2>2. CASE s # r
    BY <1>1, <1>3, <2>2, PartsOfOthers
  <2> QED
    BY <2>1, <2>2
<1>4. ASSUME NEW w, Changes(w), NEW s \in Requests
      PROVE  Parts(s)'
  BY <1>1, <1>4, PartsChange
<1>5. CASE UNCHANGED <<setting, repository, pc, attempt, outcome, report, judging, telling>>
  <2> SUFFICES ASSUME NEW s \in Requests
               PROVE  Parts(s)'
    BY <1>2 DEF IInv, Parts
  <2>1. Private' = Private /\ Kind(s)' = Kind(s) /\ Status' = Status
    BY <1>5 DEF Private, Contained, Kind, Status, repository
  <2>2. Visible(s)' /\ Found(s)'
    BY <1>1, <1>5, <2>1 DEF Parts, Visible, Found, repository, judging
  <2>3. Judged(s)' /\ Agreed(s)'
    BY <1>1, <1>5, <2>1
       DEF Parts, Judged, Proven, Agreed, LastEvent, repository, judging, telling, told
  <2> QED
    BY <2>2, <2>3 DEF Parts
<1>6. \/ \E r \in Requests : Acts(r)
      \/ \E w : Changes(w)
      \/ UNCHANGED <<setting, repository, pc, attempt, outcome, report, judging, telling>>
  BY DEF Next, Acts, Changes, StragglerEnds, vars, actors
<1> QED
  BY <1>2, <1>3, <1>4, <1>5, <1>6 DEF IInv, Parts

-----------------------------------------------------------------------------
(* Theorems                                                                *)

(* Whatever the requests, the settings and the number of commits, every    *)
(* variable keeps its type, and the request's lock, its actors, what it    *)
(* has seen and what it tells fit together as IInv says.                   *)
THEOREM Invariant == Spec => []IInv
<1> QED
  BY InvInit, InvStep, PTL DEF Spec

(* The variables of delegate() have their types.                           *)
THEOREM TypeCorrect == Spec => []TypeOK
<1>1. IInv => TypeOK
  BY DEF IInv
<1> QED
  BY <1>1, Invariant, PTL

(* Where nobody interrupts or kills delegations and no terminal is used,   *)
(* one Executor at a time works on the repository, for the delegation that *)
(* holds the lock, and what that delegation will find there was not done   *)
(* by the Executor of another, whichever fails, falls back or gives up.    *)
THEOREM ActorsKeptApart == Spec => []ActorsApart
<1>1. IInv => ActorsApart
  <2> SUFFICES ASSUME IInv, Contained
               PROVE  /\ working \subseteq {<<r, attempt[r]>> : r \in users}
                      /\ \A r \in users, a \in Attempts : a \in touched[r] => a[1] = r
    BY DEF ActorsApart
  <2>1. ASSUME NEW a \in working
        PROVE  a \in {<<r, attempt[r]>> : r \in users}
    <3>1. /\ a[1] \in Requests /\ a = <<a[1], a[2]>>
          /\ pc[a[1]] = "working" /\ a[2] = attempt[a[1]]
      BY DEF IInv, WorkInv, TypeOK, Attempts
    <3>2. a[1] \in users
      BY <3>1 DEF IInv, LockInv, Under
    <3> QED
      BY <3>1, <3>2
  <2>2. ASSUME NEW r \in users, NEW a \in Attempts, a \in touched[r]
        PROVE  a[1] = r
    BY <2>2 DEF IInv, TypeOK, LockInv, TouchInv
  <2> QED
    BY <2>1, <2>2
<1> QED
  BY <1>1, Invariant, PTL

(* A delegation that says "completed" has an accepted report by the actor  *)
(* it names and, where the worktree was clean, changes made while it was   *)
(* at work or a report of a read-only validation; and where attempts are   *)
(* contained and nobody else uses the repository, what was judged is what  *)
(* is there, and of its own attempts, when the lock is about to be given   *)
(* up.                                                                     *)
THEOREM CompletionIsEarned == Spec => []CompletionEarned
<1>1. ASSUME IInv, NEW r \in Requests, result[r].status = "completed"
      PROVE  /\ report[<<r, result[r].actor>>] \in
                  IF seen[r].status = {} /\ found[r].status = {}
                    THEN {"probe"} ELSE {"applied", "claimed", "probe"}
             /\ seen[r].status = {} /\ found[r].status # {} => touched[r] # {}
  <2>1. result[r].actor = attempt[r] /\ Proven(r)
    BY <1>1 DEF IInv, Judged
  <2> QED
    BY <2>1 DEF Proven, Kind
<1>2. ASSUME IInv, NEW r \in Requests, result[r].status = "completed",
             Contained, ~setting.crowd, pc[r] = "leave"
      PROVE  /\ Status = found[r].status /\ head = seen[r].head
             /\ seen[r].status = {} => \A p \in Status : tree[p] \in Own(r)
  <2>1. ended[r] = "completed" /\ Private
    BY <1>2 DEF IInv, Agreed, Private
  <2>2. found[r].ok /\ found[r].head = seen[r].head
    BY <1>2, <2>1 DEF IInv, Judged
  <2> QED
    BY <1>2, <2>1, <2>2 DEF IInv, Found, Visible, Captured
<1>3. IInv => CompletionEarned
  BY <1>1, <1>2 DEF CompletionEarned
<1> QED
  BY <1>3, Invariant, PTL

(* The last event in the journal of a delegation that has returned is that *)
(* of its result, however often its end was told, unless that event was    *)
(* lost; then it tells of no end, or of one that a failure or an           *)
(* interruption has overtaken.                                             *)
THEOREM OutcomeIsTold == Spec => []OutcomeTold
<1>1. IInv => OutcomeTold
  BY DEF IInv, Agreed, OutcomeTold, LastEvent
<1> QED
  BY <1>1, Invariant, PTL
=============================================================================
