------------------------- MODULE PublicationProofs -------------------------
(* What holds of Publication for every number of brokers, every commit     *)
(* graph and every number of changes by others.                            *)
(*                                                                         *)
(* The argument: a command under way was a fast-forward of the head it     *)
(* names, and the server replaces no other head (WireForward); while a     *)
(* broker waits for its command, "heads" holds the branch's present head   *)
(* (Watching); and a result that was computed before the command leaves    *)
(* nothing that could still land (Admitted).                               *)
EXTENDS Publication, TLAPS

Waits(p) == pc[p] \in {"sent", "after"}
Early(p) == pc[p] \in {"parse", "scope", "inputs", "before", "auth", "send"}
Checked(p) == pc[p] \in {"before", "auth", "send", "sent", "after"}

(* A command is the one of its request; a push fast-forwards what it names.*)
WireForward(p) ==
  wire[p] # Nothing =>
    /\ wire[p].kind = "push" <=> Pushes(p)
    /\ wire[p].kind = "push" => wire[p].old = Absent \/ wire[p].old \in Below[wire[p].new]

(* Nothing has been sent before the command, nor answered before the end.  *)
Untouched(p) == wire[p] = Nothing /\ landed[p] = {}
InOrder(p) ==
  /\ Early(p) => Untouched(p) /\ reply[p] = "none"
  /\ outcome[p] # Nothing => pc[p] \in {"deliver", "done"}
  /\ told[p] # Nothing => pc[p] = "done"

Watching(p) == Waits(p) => remote \in heads[p]

Descends(p) == Request(p).op = "normal_push" => Request(p).old \in Below[Request(p).new]
InputsChecked(p) == Checked(p) => (Pushes(p) => Descends(p))

(* What the server did to a pull request when its command was answered.    *)
Changed(p) == \E c \in landed[p] : c.kind \in {"edit", "open"}
AnswerMeans(p) == (reply[p] = "ok" \/ pc[p] = "after") /\ ~Pushes(p) => Changed(p)

Earned(p) ==
  /\ Pushes(p) => Request(p).new \in heads[p]
  /\ Request(p).op = "normal_push" => Request(p).old \in Below[Request(p).new]
  /\ ~Pushes(p) => Changed(p)

Admits(r) ==
  \/ r.status = "completed"
  \/ r.remoteState \in {"unchanged_or_unknown", "post_verify_failed", "unsaid"}
  \/ r.remoteState = "not_mutated" /\ r.stage = "after"

Sound(p, r) ==
  r # Nothing =>
    /\ r.status = "completed" => Earned(p)
    /\ Admits(r) \/ Untouched(p)

PInv(p) ==
  /\ WireForward(p)
  /\ InOrder(p)
  /\ Watching(p)
  /\ InputsChecked(p)
  /\ AnswerMeans(p)
  /\ Sound(p, outcome[p])
  /\ Sound(p, told[p])

IInv == TypeOK /\ \A p \in Publishers : PInv(p)

-----------------------------------------------------------------------------
(* Typing                                                                  *)

(* The request of a broker is one, and the setting never changes.          *)
LEMMA RequestTyped ==
  ASSUME TypeOK, NEW p \in Publishers
  PROVE  Request(p) \in Requests
BY SettingsAssumption DEF TypeOK, Request

(* An answer is a result; whoever goes on has none.                        *)
LEMMA AnswerTyped ==
  ASSUME TypeOK, NEW p \in Publishers,
         NEW status \in {"completed", "blocked"}, NEW remoteState \in RemoteStates,
         NEW observed \in Commits \cup {Unsaid}, NEW created \in BOOLEAN,
         Answer(p, status, remoteState, observed, created)
  PROVE  /\ pc' \in [Publishers -> Stages]
         /\ outcome' \in [Publishers -> Results \cup {Nothing}]
         /\ told' \in [Publishers -> Results \cup {Nothing}]
<1> DEFINE r == [status |-> status, remoteState |-> remoteState, observed |-> observed,
                 created |-> created, stage |-> pc[p]]
<1>1. pc[p] \in Stages
  BY DEF TypeOK
<1>2. r \in Results
  BY <1>1 DEF Results
<1>3. outcome' = [outcome EXCEPT ![p] = r]
  BY DEF Answer
<1>4. outcome' \in [Publishers -> Results \cup {Nothing}]
  BY <1>2, <1>3 DEF TypeOK
<1>5. pc' = [pc EXCEPT ![p] = "deliver"] /\ told' = told
  BY DEF Answer
<1> QED
  BY <1>4, <1>5 DEF TypeOK, Stages

LEMMA BlockedTyped ==
  ASSUME TypeOK, NEW p \in Publishers, NEW remoteState \in RemoteStates,
         NEW observed \in Commits \cup {Unsaid}, Blocked(p, remoteState, observed)
  PROVE  /\ pc' \in [Publishers -> Stages]
         /\ outcome' \in [Publishers -> Results \cup {Nothing}]
         /\ told' \in [Publishers -> Results \cup {Nothing}]
BY AnswerTyped DEF Blocked

LEMMA RaiseTyped ==
  ASSUME TypeOK, NEW p \in Publishers, Raise(p)
  PROVE  /\ pc' \in [Publishers -> Stages]
         /\ outcome' \in [Publishers -> Results \cup {Nothing}]
         /\ told' \in [Publishers -> Results \cup {Nothing}]
BY BlockedTyped DEF Raise, RemoteStates

LEMMA GoTyped ==
  ASSUME TypeOK, NEW p \in Publishers, NEW stage \in Stages, Go(p, stage)
  PROVE  /\ pc' \in [Publishers -> Stages]
         /\ outcome' \in [Publishers -> Results \cup {Nothing}]
         /\ told' \in [Publishers -> Results \cup {Nothing}]
BY DEF Go, TypeOK

(* Of a step that only moves one broker, its stage and its answer are left *)
(* to show.                                                                *)
LEMMA StageTyped ==
  ASSUME TypeOK, UNCHANGED <<world, server, wire, reply>>,
         seen' \in [Publishers -> Commits \cup {Absent, Unsaid}],
         pc' \in [Publishers -> Stages],
         outcome' \in [Publishers -> Results \cup {Nothing}],
         told' \in [Publishers -> Results \cup {Nothing}]
  PROVE  TypeOK'
BY DEF TypeOK, world, server

LEMMA BeforeTyped ==
  ASSUME TypeOK, NEW p \in Publishers, Before(p)
  PROVE  TypeOK'
<1>1. /\ Request(p) \in Requests
      /\ UNCHANGED <<world, server, wire, reply>>
  BY RequestTyped DEF Before
<1>2. CASE Raise(p) /\ UNCHANGED seen
  BY <1>1, <1>2, RaiseTyped, StageTyped DEF TypeOK
<1>3. CASE BranchBefore(p)
  <2>1. UNCHANGED seen
    BY <1>3 DEF BranchBefore
  <2>2. Raise(p) \/ Go(p, "auth") \/ Blocked(p, "unchanged", Unsaid)
    BY <1>3 DEF BranchBefore
  <2>3. "auth" \in Stages /\ "unchanged" \in RemoteStates
    BY DEF Stages, RemoteStates
  <2> QED
    BY <1>1, <2>1, <2>2, <2>3, RaiseTyped, GoTyped, BlockedTyped, StageTyped DEF TypeOK
<1>4. CASE PullBefore(p)
  <2>1. CASE Go(p, "send") /\ seen' = [seen EXCEPT ![p] = remote]
    <3>1. "send" \in Stages
      BY DEF Stages
    <3>2. seen' \in [Publishers -> Commits \cup {Absent, Unsaid}]
      BY <2>1 DEF TypeOK
    <3> QED
      BY <1>1, <2>1, <3>1, <3>2, GoTyped, StageTyped
  <2>2. CASE Raise(p) /\ UNCHANGED seen
    BY <1>1, <2>2, RaiseTyped, StageTyped DEF TypeOK
  <2> QED
    BY <1>4, <2>1, <2>2 DEF PullBefore
<1> QED
  BY <1>2, <1>3, <1>4 DEF Before

(* The stages before the command.                                          *)
LEMMA EarlyTyped ==
  ASSUME TypeOK, NEW p \in Publishers, Parse(p) \/ Scope(p) \/ Inputs(p) \/ Auth(p)
  PROVE  TypeOK'
<1>1. UNCHANGED <<world, server, seen, wire, reply>>
  BY DEF Parse, Scope, Inputs, Auth
<1>2. \/ \E stage \in {"scope", "inputs", "auth", "before", "send"} : Go(p, stage)
      \/ Blocked(p, "unsaid", Unsaid)
      \/ Raise(p)
  BY DEF Parse, Scope, Inputs, Auth
<1>3. {"scope", "inputs", "auth", "before", "send"} \subseteq Stages /\ "unsaid" \in RemoteStates
  BY DEF Stages, RemoteStates
<1> QED
  BY <1>1, <1>2, <1>3, GoTyped, BlockedTyped, RaiseTyped, StageTyped DEF TypeOK

LEMMA SendTyped ==
  ASSUME TypeOK, NEW p \in Publishers, Send(p)
  PROVE  TypeOK'
<1>1. /\ UNCHANGED <<world, remote, pull, landed, seen>>
      /\ heads' = [heads EXCEPT ![p] = {remote}]
      /\ Go(p, "sent")
  BY DEF Send
<1>2. /\ pc' \in [Publishers -> Stages]
      /\ UNCHANGED <<outcome, told>>
  BY <1>1, GoTyped DEF Go, Stages
<1>3. heads' \in [Publishers -> SUBSET (Commits \cup {Absent})]
  BY <1>1 DEF TypeOK
<1>4. /\ wire' \in [Publishers -> Commands \cup {Nothing}]
      /\ reply' \in [Publishers -> {"none", "ok", "no"}]
  <2>1. CASE Push(p)
    <3>1. CASE UNCHANGED wire /\ reply' = [reply EXCEPT ![p] = "ok"]
      BY <3>1 DEF TypeOK
    <3>2. CASE /\ Source(p) \notin {Absent, remote}
               /\ wire' = [wire EXCEPT ![p] =
                             [kind |-> "push", old |-> remote, new |-> Source(p)]]
               /\ UNCHANGED reply
      <4>1. Source(p) \in Commits
        BY <3>2, RequestTyped DEF Source, Requests, TypeOK
      <4>2. [kind |-> "push", old |-> remote, new |-> Source(p)] \in Commands
        BY <4>1 DEF Commands, TypeOK
      <4> QED
        BY <3>2, <4>2 DEF TypeOK
    <3> QED
      BY <2>1, <3>1, <3>2 DEF Push
  <2>2. CASE CallApi(p)
    <3>1. \A k \in {"edit", "open"} : [kind |-> k] \in Commands
      BY DEF Commands
    <3>2. \E k \in {"edit", "open"} : wire' = [wire EXCEPT ![p] = [kind |-> k]]
      BY <2>2 DEF CallApi
    <3> QED
      BY <2>2, <3>1, <3>2 DEF CallApi, TypeOK
  <2>3. CASE Refused(p)
    BY <2>3 DEF Refused, TypeOK
  <2> QED
    BY <2>1, <2>2, <2>3 DEF Send
<1> QED
  BY <1>1, <1>2, <1>3, <1>4 DEF TypeOK, world

LEMMA LandTyped ==
  ASSUME TypeOK, NEW p \in Publishers, Land(p)
  PROVE  TypeOK'
<1>1. /\ wire[p] \in Commands
      /\ Finish(p, "ok")
      /\ UNCHANGED <<world, pc, seen, outcome, told>>
  BY DEF Land, TypeOK
<1>2. /\ wire' \in [Publishers -> Commands \cup {Nothing}]
      /\ reply' \in [Publishers -> {"none", "ok", "no"}]
  BY <1>1 DEF Finish, TypeOK
<1>3. landed' \in [Publishers -> SUBSET Commands]
  <2>1. landed' = [landed EXCEPT ![p] = @ \cup {wire[p]}]
    BY DEF Land, LandPush, LandEdit, LandOpen
  <2> QED
    BY <1>1, <2>1 DEF TypeOK
<1>4. /\ remote' \in Commits \cup {Absent}
      /\ pull' \in PullRequests
      /\ heads' \in [Publishers -> SUBSET (Commits \cup {Absent})]
  <2>1. CASE LandPush(p)
    <3>1. wire[p].new \in Commits
      BY <1>1, <2>1 DEF LandPush, Commands
    <3> QED
      BY <2>1, <3>1 DEF LandPush, SetRemote, TypeOK
  <2>2. CASE LandEdit(p)
    BY <2>2 DEF LandEdit, TypeOK
  <2>3. CASE LandOpen(p)
    <3>1. pull' \in PullRequests
      BY <2>3 DEF LandOpen, PullRequests
    <3> QED
      BY <2>3, <3>1 DEF LandOpen, TypeOK
  <2> QED
    BY <2>1, <2>2, <2>3 DEF Land
<1> QED
  BY <1>1, <1>2, <1>3, <1>4 DEF TypeOK, world

(* The stages after the command.                                           *)
LEMMA LateTyped ==
  ASSUME TypeOK, NEW p \in Publishers, GiveUp(p) \/ Replied(p) \/ After(p)
  PROVE  TypeOK'
<1>1. UNCHANGED <<world, server, seen, wire, reply>>
  BY DEF GiveUp, Replied, After
<1>2. {"unchanged_or_unknown", "post_verify_failed", "updated", "created"} \subseteq RemoteStates
  BY DEF RemoteStates
<1>3. CASE GiveUp(p)
  BY <1>1, <1>2, <1>3, BlockedTyped, StageTyped DEF GiveUp, TypeOK
<1>4. CASE Replied(p)
  <2>1. \/ Go(p, "after")
        \/ Answer(p, "completed", "created", Unsaid, FALSE)
        \/ Blocked(p, "post_verify_failed", Unsaid)
    BY <1>4 DEF Replied
  <2>2. "after" \in Stages
    BY DEF Stages
  <2> QED
    BY <1>1, <1>2, <2>1, <2>2, GoTyped, AnswerTyped, BlockedTyped, StageTyped DEF TypeOK
<1>5. CASE After(p)
  <2>1. CASE VerifyPush(p)
    <3>1. PICK head \in Commits :
            \/ \E state \in {"updated", "created"}, created \in BOOLEAN :
                 Answer(p, "completed", state, head, created)
            \/ Blocked(p, "post_verify_failed", head)
      BY <2>1 DEF VerifyPush, RemoteSha, TypeOK
    <3> QED
      BY <1>1, <1>2, <3>1, AnswerTyped, BlockedTyped, StageTyped DEF TypeOK
  <2>2. CASE VerifyPull(p)
    BY <1>1, <1>2, <2>2, AnswerTyped, BlockedTyped, StageTyped DEF VerifyPull, TypeOK
  <2>3. CASE Raise(p)
    BY <1>1, <2>3, RaiseTyped, StageTyped DEF TypeOK
  <2> QED
    BY <1>5, <2>1, <2>2, <2>3 DEF After
<1> QED
  BY <1>3, <1>4, <1>5

LEMMA DeliverTyped ==
  ASSUME TypeOK, NEW p \in Publishers, Deliver(p)
  PROVE  TypeOK'
<1>1. NoState \in Results
  BY DEF NoState, Results, RemoteStates, Stages
<1>2. told' \in [Publishers -> Results \cup {Nothing}]
  BY <1>1 DEF Deliver, TypeOK
<1>3. pc' \in [Publishers -> Stages]
  BY DEF Deliver, TypeOK, Stages
<1> QED
  BY <1>2, <1>3, StageTyped DEF Deliver, TypeOK

(* Others change the branch, the pull request or the repository.           *)
LEMMA OthersTyped ==
  ASSUME TypeOK, OthersPush \/ OthersEdit \/ LocalMoves
  PROVE  TypeOK'
<1>1. /\ moves' \in 0..MaxMoves
      /\ UNCHANGED <<setting, pc, seen, wire, reply, outcome, told, landed>>
  BY MaxMovesAssumption DEF OthersPush, OthersEdit, LocalMoves, Moved, TypeOK
<1>2. CASE OthersPush
  <2>1. PICK head \in Commits \cup {Absent} :
          /\ SetRemote(head)
          /\ pull' = IF head = Absent /\ pull.state = "open"
                       THEN [pull EXCEPT !.state = "closed"] ELSE pull
    BY <1>2 DEF OthersPush
  <2>2. pull' \in PullRequests
    BY <2>1 DEF TypeOK, PullRequests
  <2>3. /\ remote' \in Commits \cup {Absent}
        /\ heads' \in [Publishers -> SUBSET (Commits \cup {Absent})]
    BY <2>1 DEF SetRemote, TypeOK
  <2> QED
    BY <1>1, <1>2, <2>2, <2>3 DEF OthersPush, TypeOK
<1>3. CASE OthersEdit
  <2>1. pull' \in PullRequests
    BY <1>3 DEF OthersEdit, TypeOK, PullRequests
  <2> QED
    BY <1>1, <1>3, <2>1 DEF OthersEdit, TypeOK
<1>4. CASE LocalMoves
  BY <1>1, <1>4 DEF LocalMoves, TypeOK
<1> QED
  BY <1>2, <1>3, <1>4

LEMMA NextTyped ==
  ASSUME TypeOK, [Next]_vars
  PROVE  TypeOK'
<1>1. CASE UNCHANGED vars
  BY <1>1 DEF vars, TypeOK
<1>2. ASSUME NEW p \in Publishers, Refuse(p) \/ Die(p)
      PROVE  TypeOK'
  <2>1. CASE Refuse(p)
    BY <2>1 DEF Refuse, Finish, TypeOK, world, server
  <2>2. CASE Die(p)
    BY <2>2 DEF Die, TypeOK, Stages, world, server
  <2> QED
    BY <1>2, <2>1, <2>2
<1> QED
  BY <1>1, <1>2, EarlyTyped, BeforeTyped, SendTyped, LandTyped, LateTyped, DeliverTyped,
     OthersTyped DEF Next

(* Every state has its type: what a broker read, sent, was answered and    *)
(* reports stays within what publication.py puts into a PublicationResult. *)
THEOREM TypeCorrect == Spec => []TypeOK
<1>1. Init => TypeOK
  <2> SUFFICES ASSUME Init PROVE TypeOK
    OBVIOUS
  <2>1. /\ setting.local \in Commits \cup {Absent}
        /\ setting.remote \in Commits \cup {Absent}
        /\ setting.pull \in PullRequests
    BY SettingsAssumption DEF Init
  <2> QED
    BY <2>1, MaxMovesAssumption DEF Init, TypeOK, Stages
<1>2. TypeOK /\ [Next]_vars => TypeOK'
  BY NextTyped
<1> QED
  BY <1>1, <1>2, PTL DEF Spec

-----------------------------------------------------------------------------
(* The invariant                                                           *)

(* What is left alone by a step stays sound: the broker itself does not    *)
(* move, its heads only grow, and while it waits they hold the present one.*)
LEMMA Frame ==
  ASSUME NEW p \in Publishers, PInv(p), setting' = setting,
         wire'[p] = wire[p], reply'[p] = reply[p], pc'[p] = pc[p],
         outcome'[p] = outcome[p], told'[p] = told[p], landed'[p] = landed[p],
         heads[p] \subseteq heads'[p],
         Waits(p) => remote' \in heads'[p]
  PROVE  PInv(p)'
<1>1. /\ (Request(p))' = Request(p)
      /\ Pushes(p)' <=> Pushes(p)
  BY DEF Request, Pushes
<1>2. WireForward(p)' /\ InOrder(p)' /\ Watching(p)'
  BY <1>1 DEF PInv, WireForward, InOrder, Watching, Early, Waits, Untouched
<1>3. InputsChecked(p)' /\ AnswerMeans(p)'
  BY <1>1 DEF PInv, InputsChecked, AnswerMeans, Checked, Descends, Changed
<1>4. Earned(p) => Earned(p)'
  BY <1>1 DEF Earned, Changed
<1>5. Sound(p, outcome[p])' /\ Sound(p, told[p])'
  BY <1>4 DEF PInv, Sound, Admits, Untouched
<1> QED
  BY <1>2, <1>3, <1>5 DEF PInv

(* An answer of a broker, which changes nothing else.                      *)
LEMMA AnswerKeeps ==
  ASSUME TypeOK, NEW p \in Publishers, PInv(p), pc[p] \notin {"deliver", "done"},
         NEW status, NEW remoteState, NEW observed, NEW created,
         Answer(p, status, remoteState, observed, created),
         UNCHANGED <<world, server, wire, reply>>,
         status = "completed" => Earned(p),
         \/ status = "completed"
         \/ remoteState \in {"unchanged_or_unknown", "post_verify_failed", "unsaid"}
         \/ remoteState = "not_mutated" /\ pc[p] = "after"
         \/ Untouched(p)
  PROVE  \A q \in Publishers : PInv(q) => PInv(q)'
<1> DEFINE r == [status |-> status, remoteState |-> remoteState, observed |-> observed,
                 created |-> created, stage |-> pc[p]]
<1>1. /\ pc' = [pc EXCEPT ![p] = "deliver"]
      /\ outcome' = [outcome EXCEPT ![p] = r]
      /\ told' = told
  BY DEF Answer
<1>2. /\ pc'[p] = "deliver" /\ outcome'[p] = r
      /\ \A q \in Publishers \ {p} : pc'[q] = pc[q] /\ outcome'[q] = outcome[q]
  BY <1>1 DEF TypeOK
<1>3. UNCHANGED <<setting, remote, landed, heads, wire, reply, told>>
  BY <1>1 DEF world, server
<1>4. ASSUME NEW q \in Publishers \ {p}, PInv(q)
      PROVE  PInv(q)'
  <2>1. Waits(q) => remote \in heads[q]
    BY <1>4 DEF PInv, Watching
  <2> QED
    BY <1>2, <1>3, <1>4, <2>1, Frame
<1>5. PInv(p)'
  <2>1. /\ (Request(p))' = Request(p)
        /\ Pushes(p)' <=> Pushes(p)
    BY <1>3 DEF Request, Pushes
  <2>2. told[p] = Nothing
    BY DEF PInv, InOrder
  <2>3. WireForward(p)'
    BY <1>3, <2>1 DEF PInv, WireForward
  <2>4. InOrder(p)' /\ Watching(p)' /\ InputsChecked(p)'
    BY <1>2, <1>3, <2>2 DEF InOrder, Watching, InputsChecked, Early, Waits, Checked
  <2>5. AnswerMeans(p)'
    BY <1>2, <1>3, <2>1 DEF PInv, AnswerMeans, Changed
  <2>6. Earned(p) => Earned(p)'
    BY <1>3, <2>1 DEF Earned, Changed
  <2>7. /\ r.status = "completed" => Earned(p)'
        /\ Admits(r) \/ Untouched(p)'
    BY <1>3, <2>6 DEF Admits, Untouched
  <2>8. Sound(p, outcome[p])' /\ Sound(p, told[p])'
    BY <1>2, <1>3, <2>2, <2>7 DEF Sound, Admits
  <2> QED
    BY <2>3, <2>4, <2>5, <2>8 DEF PInv
<1> QED
  BY <1>4, <1>5

(* A broker that goes on to another stage than the one it sends from.      *)
LEMMA GoKeeps ==
  ASSUME TypeOK, NEW p \in Publishers, PInv(p), pc[p] \notin {"deliver", "done"},
         NEW stage \in Stages, Go(p, stage),
         UNCHANGED <<world, server, wire, reply>>,
         stage # "after" => Early(p) /\ stage \notin {"sent", "deliver", "done"},
         stage = "after" => Waits(p) /\ (~Pushes(p) => Changed(p)),
         stage \in {"before", "auth", "send", "after"} => (Pushes(p) => Descends(p))
  PROVE  \A q \in Publishers : PInv(q) => PInv(q)'
<1>1. /\ pc' = [pc EXCEPT ![p] = stage]
      /\ UNCHANGED <<outcome, told>>
  BY DEF Go
<1>2. /\ pc'[p] = stage
      /\ \A q \in Publishers \ {p} : pc'[q] = pc[q]
  BY <1>1 DEF TypeOK
<1>3. UNCHANGED <<setting, remote, landed, heads, wire, reply, outcome, told>>
  BY <1>1 DEF world, server
<1>4. ASSUME NEW q \in Publishers \ {p}, PInv(q)
      PROVE  PInv(q)'
  <2>1. Waits(q) => remote \in heads[q]
    BY <1>4 DEF PInv, Watching
  <2> QED
    BY <1>2, <1>3, <1>4, <2>1, Frame
<1>5. PInv(p)'
  <2>1. /\ (Request(p))' = Request(p)
        /\ Pushes(p)' <=> Pushes(p)
    BY <1>3 DEF Request, Pushes
  <2>2. told[p] = Nothing /\ outcome[p] = Nothing
    BY DEF PInv, InOrder
  <2>3. WireForward(p)'
    BY <1>3, <2>1 DEF PInv, WireForward
  <2>4. InOrder(p)'
    BY <1>2, <1>3, <2>2 DEF PInv, InOrder, Early, Waits, Untouched
  <2>5. Watching(p)'
    BY <1>2, <1>3 DEF PInv, Watching, Waits
  <2>6. InputsChecked(p)'
    BY <1>2, <2>1 DEF InputsChecked, Checked, Descends
  <2>7. AnswerMeans(p)'
    BY <1>2, <1>3, <2>1 DEF PInv, AnswerMeans, Changed
  <2>8. Sound(p, outcome[p])' /\ Sound(p, told[p])'
    BY <1>3, <2>2 DEF Sound
  <2> QED
    BY <2>3, <2>4, <2>5, <2>6, <2>7, <2>8 DEF PInv
<1> QED
  BY <1>4, <1>5

LEMMA EarlyKeeps ==
  ASSUME IInv, NEW p \in Publishers,
         Parse(p) \/ Scope(p) \/ Inputs(p) \/ Before(p) \/ Auth(p)
  PROVE  \A q \in Publishers : PInv(q)'
<1>1. /\ TypeOK /\ PInv(p)
      /\ Early(p) /\ pc[p] \notin {"deliver", "done"}
      /\ UNCHANGED <<world, server, wire, reply>>
  BY DEF IInv, Parse, Scope, Inputs, Before, Auth, Early
<1>2. Untouched(p) /\ (Pushes(p) /\ Checked(p) => Descends(p))
  BY <1>1 DEF PInv, InOrder, InputsChecked
<1>3. ASSUME NEW remoteState, NEW observed, Blocked(p, remoteState, observed)
      PROVE  \A q \in Publishers : PInv(q) => PInv(q)'
  BY <1>1, <1>2, <1>3, AnswerKeeps DEF Blocked
<1>4. CASE Raise(p) \/ Blocked(p, "unsaid", Unsaid) \/ Blocked(p, "unchanged", Unsaid)
  BY <1>3, <1>4 DEF Raise, IInv
<1>5. ASSUME NEW stage \in {"scope", "inputs", "before", "auth", "send"}, Go(p, stage),
             stage \in {"before", "auth", "send"} => (Pushes(p) => Descends(p))
      PROVE  \A q \in Publishers : PInv(q) => PInv(q)'
  <2>1. stage \in Stages
    BY DEF Stages
  <2> QED
    BY <1>1, <1>5, <2>1, GoKeeps
<1>6. ASSUME Parse(p), Go(p, "scope")
      PROVE  \A q \in Publishers : PInv(q) => PInv(q)'
  BY <1>5, <1>6
<1>7. CASE Parse(p)
  BY <1>4, <1>6, <1>7 DEF Parse, IInv
<1>8. CASE Scope(p)
  <2>1. Go(p, "inputs") \/ (Go(p, "auth") /\ ~Pushes(p)) \/ Raise(p)
    BY <1>8 DEF Scope
  <2> QED
    BY <1>4, <1>5, <2>1 DEF IInv
<1>9. CASE Inputs(p)
  <2>1. Raise(p) \/ (Go(p, "before") /\ InputsHold(p))
    BY <1>9 DEF Inputs
  <2>2. InputsHold(p) => Descends(p)
    BY DEF InputsHold, Descends
  <2> QED
    BY <1>4, <1>5, <2>1, <2>2 DEF IInv
<1>10. CASE Before(p)
  <2>1. Checked(p)
    BY <1>10 DEF Before, Checked
  <2>2. \/ Raise(p) \/ Blocked(p, "unchanged", Unsaid)
        \/ Go(p, "auth") \/ Go(p, "send")
    BY <1>10 DEF Before, BranchBefore, PullBefore
  <2> QED
    BY <1>2, <1>4, <1>5, <2>1, <2>2 DEF IInv
<1>11. CASE Auth(p)
  <2>1. Checked(p)
    BY <1>11 DEF Auth, Checked
  <2>2. Raise(p) \/ Go(p, "before") \/ Go(p, "send")
    BY <1>11 DEF Auth
  <2> QED
    BY <1>2, <1>4, <1>5, <2>1, <2>2 DEF IInv
<1> QED
  BY <1>7, <1>8, <1>9, <1>10, <1>11

(* The command that is sent is a fast-forward of the head it names.        *)
LEMMA SendKeeps ==
  ASSUME IInv, NEW p \in Publishers, Send(p)
  PROVE  \A q \in Publishers : PInv(q)'
<1>1. /\ TypeOK /\ PInv(p) /\ pc[p] = "send"
      /\ heads' = [heads EXCEPT ![p] = {remote}]
      /\ pc' = [pc EXCEPT ![p] = "sent"]
      /\ UNCHANGED <<setting, remote, landed, outcome, told>>
      /\ Push(p) \/ CallApi(p) \/ Refused(p)
  BY DEF IInv, Send, Go, world
<1>2. /\ Untouched(p) /\ reply[p] = "none"
      /\ outcome[p] = Nothing /\ told[p] = Nothing
      /\ Pushes(p) => Descends(p)
  BY <1>1 DEF PInv, InOrder, InputsChecked, Early, Checked
<1>3. /\ (Request(p))' = Request(p)
      /\ Pushes(p)' <=> Pushes(p)
  BY <1>1 DEF Request, Pushes
<1>4. /\ pc'[p] = "sent" /\ heads'[p] = {remote}
      /\ \A q \in Publishers \ {p} : pc'[q] = pc[q] /\ heads'[q] = heads[q]
  BY <1>1 DEF TypeOK
<1>5. \A q \in Publishers \ {p} : wire'[q] = wire[q] /\ reply'[q] = reply[q]
  BY <1>1 DEF Push, CallApi, Refused, TypeOK
<1>6. ASSUME NEW q \in Publishers \ {p}
      PROVE  PInv(q)'
  <2>1. PInv(q) /\ (Waits(q) => remote \in heads[q])
    BY DEF IInv, PInv, Watching
  <2> QED
    BY <1>1, <1>4, <1>5, <2>1, Frame
<1>7. /\ WireForward(p)'
      /\ reply'[p] = "ok" => Pushes(p)
  <2>1. CASE Push(p)
    <3>1. CASE wire' = wire
      BY <1>2, <1>3, <2>1, <3>1 DEF WireForward, Untouched, Push
    <3>2. CASE /\ FastForward(remote, Source(p))
               /\ wire' = [wire EXCEPT ![p] =
                             [kind |-> "push", old |-> remote, new |-> Source(p)]]
      <4>1. wire'[p] = [kind |-> "push", old |-> remote, new |-> Source(p)]
        BY <3>2 DEF IInv, TypeOK
      <4>2. remote = Absent \/ remote \in Below[Source(p)]
        BY <3>2 DEF FastForward
      <4>3. Pushes(p)
        BY <2>1 DEF Push
      <4> QED
        BY <1>3, <4>1, <4>2, <4>3 DEF WireForward
    <3> QED
      BY <2>1, <3>1, <3>2 DEF Push
  <2>2. CASE CallApi(p)
    <3>1. PICK k \in {"edit", "open"} : wire' = [wire EXCEPT ![p] = [kind |-> k]]
      BY <2>2 DEF CallApi
    <3>2. wire'[p] = [kind |-> k]
      BY <3>1 DEF IInv, TypeOK
    <3>3. ~Pushes(p) /\ reply'[p] = "none"
      BY <1>2, <2>2 DEF CallApi
    <3> QED
      BY <1>3, <3>2, <3>3 DEF WireForward
  <2>3. CASE Refused(p)
    <3>1. reply'[p] = "no" /\ wire' = wire
      BY <2>3 DEF Refused, IInv, TypeOK
    <3> QED
      BY <1>2, <1>3, <3>1 DEF WireForward, Untouched
  <2> QED
    BY <1>1, <2>1, <2>2, <2>3
<1>8. PInv(p)'
  <2>1. InOrder(p)' /\ Watching(p)'
    BY <1>1, <1>2, <1>4 DEF InOrder, Watching, Early, Waits
  <2>2. InputsChecked(p)' /\ AnswerMeans(p)'
    BY <1>2, <1>3, <1>4, <1>7 DEF InputsChecked, AnswerMeans, Descends
  <2>3. Sound(p, outcome[p])' /\ Sound(p, told[p])'
    BY <1>1, <1>2 DEF Sound
  <2> QED
    BY <1>7, <2>1, <2>2, <2>3 DEF PInv
<1> QED
  BY <1>6, <1>8

(* A change of the branch is seen by every broker that waits.              *)
LEMMA RemoteSeen ==
  ASSUME IInv, NEW head, SetRemote(head), NEW q \in Publishers
  PROVE  /\ heads[q] \subseteq heads'[q]
         /\ Waits(q) => remote' \in heads'[q]
BY DEF IInv, TypeOK, SetRemote, Waits

LEMMA LandKeeps ==
  ASSUME IInv, NEW p \in Publishers, Land(p)
  PROVE  \A q \in Publishers : PInv(q)'
<1>1. /\ TypeOK /\ PInv(p) /\ wire[p] \in Commands /\ wire[p] # Nothing
      /\ LandPush(p) \/ LandEdit(p) \/ LandOpen(p)
      /\ wire' = [wire EXCEPT ![p] = Nothing]
      /\ reply' = [reply EXCEPT ![p] = "ok"]
      /\ landed' = [landed EXCEPT ![p] = @ \cup {wire[p]}]
      /\ UNCHANGED <<setting, pc, outcome, told>>
  BY DEF IInv, TypeOK, Land, Finish, LandPush, LandEdit, LandOpen, world
<1>2. /\ wire'[p] = Nothing /\ landed'[p] = landed[p] \cup {wire[p]}
      /\ \A q \in Publishers \ {p} :
           wire'[q] = wire[q] /\ reply'[q] = reply[q] /\ landed'[q] = landed[q]
  BY <1>1 DEF TypeOK
<1>3. ASSUME NEW q \in Publishers
      PROVE  /\ heads[q] \subseteq heads'[q]
             /\ Waits(q) => remote' \in heads'[q]
  <2>1. CASE LandPush(p)
    BY <2>1, RemoteSeen DEF LandPush
  <2>2. CASE LandEdit(p) \/ LandOpen(p)
    <3>1. UNCHANGED <<remote, heads>>
      BY <2>2 DEF LandEdit, LandOpen
    <3>2. Waits(q) => remote \in heads[q]
      BY DEF IInv, PInv, Watching
    <3> QED
      BY <3>1, <3>2
  <2> QED
    BY <1>1, <2>1, <2>2
<1>4. ASSUME NEW q \in Publishers \ {p}
      PROVE  PInv(q)'
  <2>1. PInv(q)
    BY DEF IInv
  <2> QED
    BY <1>1, <1>2, <1>3, <2>1, Frame
<1>5. PInv(p)'
  <2>1. /\ (Request(p))' = Request(p)
        /\ Pushes(p)' <=> Pushes(p)
    BY <1>1 DEF Request, Pushes
  <2>2. ~Early(p) /\ ~Untouched(p)
    BY <1>1 DEF PInv, InOrder, Untouched
  <2>3. WireForward(p)' /\ InOrder(p)' /\ Watching(p)' /\ InputsChecked(p)'
    BY <1>1, <1>2, <1>3, <2>1, <2>2
       DEF PInv, WireForward, InOrder, Watching, InputsChecked, Early, Waits, Checked, Descends
  <2>4. ~Pushes(p) => Changed(p)'
    <3>1. ~Pushes(p) => wire[p].kind \in {"edit", "open"}
      BY <1>1 DEF PInv, WireForward, Commands
    <3> QED
      BY <1>2, <3>1 DEF Changed
  <2>5. Earned(p) => Earned(p)'
    BY <1>3, <2>1, <2>4 DEF Earned
  <2>6. AnswerMeans(p)'
    BY <2>1, <2>4 DEF AnswerMeans
  <2>7. Sound(p, outcome[p])' /\ Sound(p, told[p])'
    BY <1>1, <2>2, <2>5 DEF PInv, Sound, Admits
  <2> QED
    BY <2>3, <2>6, <2>7 DEF PInv
<1> QED
  BY <1>4, <1>5

LEMMA RefuseKeeps ==
  ASSUME IInv, NEW p \in Publishers, Refuse(p)
  PROVE  \A q \in Publishers : PInv(q)'
<1>1. /\ TypeOK /\ PInv(p) /\ wire[p] # Nothing
      /\ wire' = [wire EXCEPT ![p] = Nothing]
      /\ reply' = [reply EXCEPT ![p] = "no"]
      /\ UNCHANGED <<setting, remote, landed, heads, pc, outcome, told>>
  BY DEF IInv, Refuse, Finish, world, server
<1>2. /\ wire'[p] = Nothing /\ reply'[p] = "no"
      /\ \A q \in Publishers \ {p} : wire'[q] = wire[q] /\ reply'[q] = reply[q]
  BY <1>1 DEF TypeOK
<1>3. ASSUME NEW q \in Publishers \ {p}
      PROVE  PInv(q)'
  <2>1. PInv(q) /\ (Waits(q) => remote \in heads[q])
    BY DEF IInv, PInv, Watching
  <2> QED
    BY <1>1, <1>2, <2>1, Frame
<1>4. PInv(p)'
  <2>1. /\ (Request(p))' = Request(p)
        /\ Pushes(p)' <=> Pushes(p)
    BY <1>1 DEF Request, Pushes
  <2>2. ~Early(p) /\ ~Untouched(p)
    BY <1>1 DEF PInv, InOrder, Untouched
  <2>3. WireForward(p)' /\ InOrder(p)' /\ Watching(p)' /\ InputsChecked(p)' /\ AnswerMeans(p)'
    BY <1>1, <1>2, <2>1, <2>2
       DEF PInv, WireForward, InOrder, Watching, InputsChecked, AnswerMeans, Early, Waits,
           Checked, Descends, Changed
  <2>4. Earned(p)' <=> Earned(p)
    BY <1>1, <2>1 DEF Earned, Changed
  <2>5. Sound(p, outcome[p])' /\ Sound(p, told[p])'
    BY <1>1, <2>2, <2>4 DEF PInv, Sound, Admits
  <2> QED
    BY <2>3, <2>5 DEF PInv
<1> QED
  BY <1>3, <1>4

LEMMA LateKeeps ==
  ASSUME IInv, NEW p \in Publishers, GiveUp(p) \/ Replied(p) \/ After(p)
  PROVE  \A q \in Publishers : PInv(q)'
<1>1. /\ TypeOK /\ PInv(p) /\ Waits(p) /\ pc[p] \notin {"deliver", "done"}
      /\ UNCHANGED <<world, server, wire, reply>>
  BY DEF IInv, GiveUp, Replied, After, Waits
<1>2. /\ remote \in heads[p]
      /\ Pushes(p) => Descends(p)
      /\ (reply[p] = "ok" \/ pc[p] = "after") /\ ~Pushes(p) => Changed(p)
  BY <1>1 DEF PInv, Watching, InputsChecked, AnswerMeans, Waits, Checked
<1>3. \A q \in Publishers : PInv(q)
  BY DEF IInv
<1>4. ASSUME NEW remoteState \in {"unchanged_or_unknown", "post_verify_failed"}, NEW observed,
             Blocked(p, remoteState, observed)
      PROVE  \A q \in Publishers : PInv(q)'
  BY <1>1, <1>3, <1>4, AnswerKeeps DEF Blocked
<1>5. ASSUME NEW remoteState, NEW observed, NEW created, Earned(p),
             Answer(p, "completed", remoteState, observed, created)
      PROVE  \A q \in Publishers : PInv(q)'
  BY <1>1, <1>3, <1>5, AnswerKeeps
<1>6. CASE GiveUp(p)
  BY <1>4, <1>6 DEF GiveUp
<1>7. CASE Replied(p)
  <2>1. CASE Request(p).op = "draft_pr_create"
    <3>1. ~Pushes(p) /\ Earned(p)
      BY <1>2, <1>7, <2>1 DEF Earned, Pushes, Replied
    <3> QED
      BY <1>4, <1>5, <1>7, <2>1, <3>1 DEF Replied
  <2>2. CASE Request(p).op # "draft_pr_create"
    <3>1. Go(p, "after") /\ "after" \in Stages /\ (~Pushes(p) => Changed(p))
      BY <1>2, <1>7, <2>2 DEF Replied, Stages
    <3> QED
      BY <1>1, <1>2, <1>3, <3>1, GoKeeps
  <2> QED
    BY <2>1, <2>2
<1>8. CASE After(p)
  <2>1. CASE VerifyPush(p)
    <3>1. PICK head \in RemoteSha(remote) :
            IF Verified(p, head)
              THEN Answer(p, "completed",
                          IF Request(p).op = "normal_push" THEN "updated" ELSE "created",
                          head, Request(p).op = "create_branch")
              ELSE Blocked(p, "post_verify_failed", head)
      BY <2>1 DEF VerifyPush
    <3>2. CASE Verified(p, head)
      <4>1. Earned(p)
        BY <1>2, <2>1, <3>1, <3>2 DEF Earned, Verified, RemoteSha, VerifyPush, Descends
      <4> QED
        BY <1>5, <3>1, <3>2, <4>1
    <3>3. CASE ~Verified(p, head)
      BY <1>4, <3>1, <3>3
    <3> QED
      BY <3>2, <3>3
  <2>2. CASE VerifyPull(p)
    <3>1. Earned(p)
      BY <1>2, <1>8, <2>2 DEF After, VerifyPull, Earned, Pushes
    <3> QED
      BY <1>4, <1>5, <2>2, <3>1 DEF VerifyPull
  <2>3. CASE Raise(p)
    <3>1. pc[p] = "after" /\ Answer(p, "blocked", "not_mutated", Unsaid, FALSE)
      BY <1>8, <2>3 DEF After, Raise, Blocked
    <3> QED
      BY <1>1, <1>3, <3>1, AnswerKeeps
  <2> QED
    BY <1>8, <2>1, <2>2, <2>3 DEF After
<1> QED
  BY <1>6, <1>7, <1>8

(* What is written is what was computed, or says nothing of the remote.    *)
LEMMA EndKeeps ==
  ASSUME IInv, NEW p \in Publishers, Deliver(p) \/ Die(p)
  PROVE  \A q \in Publishers : PInv(q)'
<1>1. /\ TypeOK /\ PInv(p)
      /\ pc' = [pc EXCEPT ![p] = "done"]
      /\ UNCHANGED <<setting, remote, landed, heads, wire, reply, outcome>>
      /\ \E r \in {outcome[p], NoState, told[p]} : told' = [told EXCEPT ![p] = r]
  BY DEF IInv, TypeOK, Deliver, Die, world, server
<1>2. /\ pc'[p] = "done" /\ told'[p] \in {outcome[p], NoState, told[p]}
      /\ \A q \in Publishers \ {p} : pc'[q] = pc[q] /\ told'[q] = told[q]
  BY <1>1 DEF TypeOK
<1>3. ASSUME NEW q \in Publishers \ {p}
      PROVE  PInv(q)'
  <2>1. PInv(q) /\ (Waits(q) => remote \in heads[q])
    BY DEF IInv, PInv, Watching
  <2> QED
    BY <1>1, <1>2, <2>1, Frame
<1>4. PInv(p)'
  <2>1. /\ (Request(p))' = Request(p)
        /\ Pushes(p)' <=> Pushes(p)
    BY <1>1 DEF Request, Pushes
  <2>2. WireForward(p)' /\ InOrder(p)' /\ Watching(p)' /\ InputsChecked(p)' /\ AnswerMeans(p)'
    BY <1>1, <1>2, <2>1
       DEF PInv, WireForward, InOrder, Watching, InputsChecked, AnswerMeans, Early, Waits,
           Checked, Changed
  <2>3. Earned(p)' <=> Earned(p)
    BY <1>1, <2>1 DEF Earned, Changed
  <2>4. \A r \in {outcome[p], NoState, told[p]} : Sound(p, r)
    <3>1. NoState.status = "blocked" /\ NoState.remoteState = "unsaid"
      BY DEF NoState
    <3> QED
      BY <1>1, <3>1 DEF PInv, Sound, Admits
  <2>5. Sound(p, outcome[p])' /\ Sound(p, told[p])'
    BY <1>1, <1>2, <2>3, <2>4 DEF Sound, Admits, Untouched
  <2> QED
    BY <2>2, <2>5 DEF PInv
<1> QED
  BY <1>3, <1>4

LEMMA OthersKeep ==
  ASSUME IInv, OthersPush \/ OthersEdit \/ LocalMoves
  PROVE  \A q \in Publishers : PInv(q)'
<1> SUFFICES ASSUME NEW q \in Publishers
             PROVE  PInv(q)'
  OBVIOUS
<1>1. /\ PInv(q)
      /\ UNCHANGED <<setting, pc, wire, reply, outcome, told, landed>>
  BY DEF IInv, OthersPush, OthersEdit, LocalMoves, Moved
<1>2. /\ heads[q] \subseteq heads'[q]
      /\ Waits(q) => remote' \in heads'[q]
  <2>1. CASE OthersPush
    BY <2>1, RemoteSeen DEF OthersPush
  <2>2. CASE UNCHANGED <<remote, heads>>
    BY <1>1, <2>2 DEF PInv, Watching
  <2> QED
    BY <2>1, <2>2 DEF OthersEdit, LocalMoves
<1> QED
  BY <1>1, <1>2, Frame

(* The invariant that the safety theorems rest on.                         *)
THEOREM Invariant == Spec => []IInv
<1>1. Init => IInv
  <2> SUFFICES ASSUME Init PROVE IInv
    OBVIOUS
  <2>1. TypeOK
    <3>1. /\ setting.local \in Commits \cup {Absent}
          /\ setting.remote \in Commits \cup {Absent}
          /\ setting.pull \in PullRequests
      BY SettingsAssumption DEF Init
    <3> QED
      BY <3>1, MaxMovesAssumption DEF Init, TypeOK, Stages
  <2>2. ASSUME NEW p \in Publishers
        PROVE  PInv(p)
    BY DEF Init, PInv, WireForward, InOrder, Watching, InputsChecked, AnswerMeans, Sound,
           Untouched, Early, Waits, Checked
  <2> QED
    BY <2>1, <2>2 DEF IInv
<1>2. IInv /\ [Next]_vars => IInv'
  <2> SUFFICES ASSUME IInv, [Next]_vars PROVE IInv'
    OBVIOUS
  <2>1. TypeOK'
    BY NextTyped DEF IInv
  <2>2. CASE UNCHANGED vars
    <3>1. ASSUME NEW p \in Publishers
          PROVE  PInv(p)'
      <4>1. PInv(p) /\ (Waits(p) => remote \in heads[p])
        BY DEF IInv, PInv, Watching
      <4> QED
        BY <2>2, <4>1, Frame DEF vars
    <3> QED
      BY <2>1, <3>1 DEF IInv
  <2>3. CASE Next
    BY <2>1, <2>3, EarlyKeeps, SendKeeps, LandKeeps, RefuseKeeps, LateKeeps, EndKeeps,
       OthersKeep DEF Next, IInv
  <2> QED
    BY <2>2, <2>3
<1> QED
  BY <1>1, <1>2, PTL DEF Spec

(* A broker's push never takes a commit away from the branch, whatever was *)
(* pushed, forced or deleted between its reads and its push.               *)
THEOREM NothingIsLost == Spec => NothingLost
<1>1. IInv /\ [Next]_vars => [landed' # landed => remote = Absent \/ remote \in Below[remote']]_vars
  <2> SUFFICES ASSUME IInv, [Next]_vars, landed' # landed
               PROVE  remote = Absent \/ remote \in Below[remote']
    OBVIOUS
  <2>1. PICK p \in Publishers : Land(p)
    BY DEF Next, vars, Parse, Scope, Inputs, Before, Auth, Send, Refuse, GiveUp, Replied,
           After, Deliver, Die, OthersPush, OthersEdit, LocalMoves, Moved, server
  <2>2. CASE LandPush(p)
    BY <2>1, <2>2 DEF Land, LandPush, SetRemote, IInv, PInv, WireForward
  <2>3. CASE LandEdit(p) \/ LandOpen(p)
    BY <2>3, BelowAssumption DEF LandEdit, LandOpen, IInv, TypeOK
  <2> QED
    BY <2>1, <2>2, <2>3 DEF Land
<1> QED
  BY <1>1, Invariant, PTL DEF Spec, NothingLost

(* A completed push had the requested commit at the head after it was sent,*)
(* and a completed pull request was changed by this request.               *)
THEOREM CompletedIsEarned == Spec => []CompletedIsVerified
<1>1. IInv => CompletedIsVerified
  BY DEF IInv, PInv, Sound, Earned, Changed, CompletedIsVerified
<1> QED
  BY <1>1, Invariant, PTL

(* A change that was made, or may still be made, is never denied outright. *)
THEOREM ChangesAdmitted == Spec => []ChangeAdmitted
<1>1. IInv => ChangeAdmitted
  BY DEF IInv, PInv, Sound, Admits, Untouched, ChangeAdmitted
<1> QED
  BY <1>1, Invariant, PTL
=============================================================================
