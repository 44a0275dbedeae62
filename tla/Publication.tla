---------------------------- MODULE Publication ----------------------------
(* The host-side broker of publication.py: a typed request is checked, the *)
(* remote branch or the pull request is read, one command changes it, and  *)
(* a second read verifies the change before the request is "completed".    *)
(*                                                                         *)
(* Nothing is locked between those commands.  Other users push, force and  *)
(* delete the branch and edit the pull request; the repository's own       *)
(* branch moves; a second broker serves the same or another request; a     *)
(* command fails, or is given up while the server still carries it out.    *)
(*                                                                         *)
(* Git and GitHub are external.  A push reads the heads the server         *)
(* advertises, refuses on the client what is no fast-forward, and asks the *)
(* server to replace exactly the head that was advertised.                 *)
EXTENDS Naturals

CONSTANTS
  Publishers,  \* executions of `dual-codex publish`
  Commits,     \* the commits of the repository
  Below,       \* Below[c]: c and its ancestors
  Absent,      \* no such branch
  Unsaid,      \* a field the result leaves out
  Nothing,     \* no command under way, no result
  MaxMoves,    \* bound: how often others change the branch, the pull request
  Settings     \* the initial states: see Init

ASSUME BelowAssumption ==
  /\ Below \in [Commits -> SUBSET Commits]
  /\ \A c \in Commits : c \in Below[c]
  /\ \A c \in Commits : \A d \in Below[c] : Below[d] \subseteq Below[c]

ASSUME SentinelAssumption ==
  /\ Absent \notin Commits
  /\ Unsaid \notin Commits \cup {Absent}

ASSUME MaxMovesAssumption == MaxMoves \in Nat

Operations == {"normal_push", "create_branch", "draft_pr_update", "draft_pr_create"}

(* A request: the operation and those the mission allows, whether it is    *)
(* bound to the mission, the commit to publish, the head expected (or      *)
(* "absent", for a new branch), an ancestor asked for, and what is         *)
(* expected of the pull request.                                           *)
Requests ==
  [op : Operations, allowed : SUBSET Operations, bound : BOOLEAN,
   new : Commits, old : Commits \cup {Absent}, base : Commits \cup {Unsaid},
   head : Commits \cup {Unsaid}, prBase : {"main", "other", "any"}]

(* PublicationRequest.__post_init__: the operation is allowed, the request *)
(* is bound to its mission, and a head is expected of an existing branch   *)
(* and of no other.                                                        *)
WellFormed(r) ==
  /\ r.op \in r.allowed
  /\ r.bound
  /\ r.op = "normal_push" => r.old # Absent
  /\ r.op = "create_branch" => r.old = Absent

Stages == {"parse", "scope", "inputs", "before", "auth", "send", "sent", "after",
           "deliver", "done"}

(* PublicationResult; "stage" names where it was decided.                  *)
RemoteStates == {"unsaid", "not_mutated", "unchanged", "unchanged_or_unknown",
                 "post_verify_failed", "updated", "created"}
Results ==
  [status : {"completed", "blocked"}, remoteState : RemoteStates,
   observed : Commits \cup {Unsaid}, created : BOOLEAN, stage : Stages]

(* A command on its way to the server, which may outlive the client.       *)
Commands ==
  [kind : {"push"}, old : Commits \cup {Absent}, new : Commits]
    \cup [kind : {"edit", "open"}]

PullRequests ==
  [state : {"none", "open", "closed"}, draft : BOOLEAN, base : {"main", "other"}]

ASSUME SettingsAssumption ==
  Settings \subseteq
    [requests : [Publishers -> Requests], local : Commits \cup {Absent},
     remote : Commits \cup {Absent}, pull : PullRequests]

VARIABLES
  setting,  \* the requests and the initial state, rigid
  local,    \* refs/heads/b in the repository
  remote,   \* refs/heads/b on GitHub
  pull,     \* the pull request whose head is b
  moves,    \* changes of others so far
  pc,       \* the stage of each publisher
  seen,     \* the head of the pull request its first read showed
  wire,     \* its command, while the server has not dealt with it
  reply,    \* what the command returned
  outcome,  \* the result it computed
  told,     \* the result in its file
  landed,   \* the commands of each publisher that the server carried out
  heads     \* the heads of the branch since each publisher sent its command

vars == <<setting, local, remote, pull, moves, pc, seen, wire, reply, outcome, told,
          landed, heads>>
world == <<setting, local, moves>>
server == <<remote, pull, landed, heads>>

-----------------------------------------------------------------------------

Request(p) == setting.requests[p]
Pushes(p) == Request(p).op \in {"normal_push", "create_branch"}

Init ==
  /\ setting \in Settings
  /\ local = setting.local
  /\ remote = setting.remote
  /\ pull = setting.pull
  /\ moves = 0
  /\ pc = [p \in Publishers |-> "parse"]
  /\ seen = [p \in Publishers |-> Unsaid]
  /\ wire = [p \in Publishers |-> Nothing]
  /\ reply = [p \in Publishers |-> "none"]
  /\ outcome = [p \in Publishers |-> Nothing]
  /\ told = [p \in Publishers |-> Nothing]
  /\ landed = [p \in Publishers |-> {}]
  /\ heads = [p \in Publishers |-> {}]

Go(p, stage) ==
  /\ pc' = [pc EXCEPT ![p] = stage]
  /\ UNCHANGED <<outcome, told>>

Answer(p, status, remoteState, observed, created) ==
  /\ outcome' = [outcome EXCEPT ![p] =
       [status |-> status, remoteState |-> remoteState, observed |-> observed,
        created |-> created, stage |-> pc[p]]]
  /\ pc' = [pc EXCEPT ![p] = "deliver"]
  /\ UNCHANGED told

Blocked(p, remoteState, observed) == Answer(p, "blocked", remoteState, observed, FALSE)

(* execute_publication answers every PublicationError in the same way.     *)
Raise(p) == Blocked(p, "not_mutated", Unsaid)

-----------------------------------------------------------------------------
(* What precedes the command                                               *)

(* The request is parsed; one that is not well formed, or that cannot be   *)
(* read, is answered without a remote state.                               *)
Parse(p) ==
  /\ pc[p] = "parse"
  /\ \/ WellFormed(Request(p)) /\ Go(p, "scope")
     \/ Blocked(p, "unsaid", Unsaid)
  /\ UNCHANGED <<world, server, seen, wire, reply>>

(* _safe_repository_scope: the path is a repository of the named remote.   *)
Scope(p) ==
  /\ pc[p] = "scope"
  /\ \/ Go(p, IF Pushes(p) THEN "inputs" ELSE "auth")
     \/ Raise(p)
  /\ UNCHANGED <<world, server, seen, wire, reply>>

(* _verify_push_inputs, _verify_create_inputs: the branch of the repository*)
(* is at the requested commit, which descends from what is expected.       *)
InputsHold(p) ==
  LET r == Request(p) IN
  /\ local = r.new
  /\ IF r.op = "normal_push"
       THEN r.old \in Below[r.new]
       ELSE r.base # Unsaid => r.base \in Below[r.new]

Inputs(p) ==
  /\ pc[p] = "inputs"
  /\ IF InputsHold(p) THEN Go(p, "before") ELSE Raise(p)
  /\ UNCHANGED <<world, server, seen, wire, reply>>

(* _gh_pr: the pull request is open, a draft, and as the request expects.  *)
PullFits(p) ==
  LET r == Request(p) IN
  /\ pull.state = "open"
  /\ pull.draft
  /\ r.prBase \in {"any", pull.base}
  /\ r.head \in {Unsaid, remote}

(* _remote_sha: a branch to push to must be there.                         *)
Unreadable(p) == Request(p).op = "normal_push" /\ remote = Absent

(* The read before the command: of the branch for a push, of the pull      *)
(* request for its update.  A new pull request is not read.                *)
BranchBefore(p) ==
  /\ Pushes(p)
  /\ \/ remote = Request(p).old /\ Go(p, "auth")
     \/ remote # Request(p).old /\ Unreadable(p) /\ Raise(p)
     \/ remote # Request(p).old /\ ~Unreadable(p) /\ Blocked(p, "unchanged", Unsaid)
  /\ UNCHANGED seen

PullBefore(p) ==
  /\ Request(p).op = "draft_pr_update"
  /\ IF PullFits(p)
       THEN Go(p, "send") /\ seen' = [seen EXCEPT ![p] = remote]
       ELSE Raise(p) /\ UNCHANGED seen

Before(p) ==
  /\ pc[p] = "before"
  /\ \/ BranchBefore(p)
     \/ PullBefore(p)
     \/ Raise(p) /\ UNCHANGED seen
  /\ UNCHANGED <<world, server, wire, reply>>

(* _host_authentication: the account of the host may write.                *)
Auth(p) ==
  /\ pc[p] = "auth"
  /\ \/ Go(p, IF Request(p).op = "draft_pr_update" THEN "before" ELSE "send")
     \/ Raise(p)
  /\ UNCHANGED <<world, server, seen, wire, reply>>

-----------------------------------------------------------------------------
(* The command                                                             *)

(* What the refspec of the operation names: the branch, whatever commit it *)
(* is at by now, or the requested commit itself.                           *)
Source(p) == IF Request(p).op = "normal_push" THEN local ELSE Request(p).new

(* Mutant: git push --force.                                               *)
Forced(old, new) == TRUE

(* git push --no-force: nothing to do, a fast-forward, or a refusal.       *)
FastForward(old, new) == old = Absent \/ old \in Below[new]

Push(p) ==
  /\ Pushes(p)
  /\ \/ /\ Source(p) = remote /\ remote # Absent
        /\ reply' = [reply EXCEPT ![p] = "ok"]
        /\ UNCHANGED wire
     \/ /\ Source(p) \notin {Absent, remote}
        /\ FastForward(remote, Source(p))
        /\ wire' = [wire EXCEPT ![p] = [kind |-> "push", old |-> remote, new |-> Source(p)]]
        /\ UNCHANGED reply

(* gh api --method PATCH, --method POST.                                   *)
CallApi(p) ==
  /\ ~Pushes(p)
  /\ wire' = [wire EXCEPT ![p] =
       [kind |-> IF Request(p).op = "draft_pr_update" THEN "edit" ELSE "open"]]
  /\ UNCHANGED reply

(* The client cannot reach the server, or has nothing that it may send.    *)
Refused(p) == reply' = [reply EXCEPT ![p] = "no"] /\ UNCHANGED wire

Send(p) ==
  /\ pc[p] = "send"
  /\ Push(p) \/ CallApi(p) \/ Refused(p)
  /\ heads' = [heads EXCEPT ![p] = {remote}]
  /\ Go(p, "sent")
  /\ UNCHANGED <<world, remote, pull, landed, seen>>

(* A change of the branch, as those that wait for their command see it.    *)
SetRemote(head) ==
  /\ remote' = head
  /\ heads' = [p \in Publishers |-> IF pc[p] \in {"sent", "after"}
                                      THEN heads[p] \cup {head} ELSE heads[p]]

(* The server replaces the advertised head if the branch is still there.   *)
LandPush(p) ==
  /\ wire[p].kind = "push"
  /\ remote = wire[p].old
  /\ SetRemote(wire[p].new)
  /\ landed' = [landed EXCEPT ![p] = @ \cup {wire[p]}]
  /\ UNCHANGED pull

(* An existing pull request is edited, whatever its state is by now.       *)
LandEdit(p) ==
  /\ wire[p].kind = "edit"
  /\ pull.state # "none"
  /\ landed' = [landed EXCEPT ![p] = @ \cup {wire[p]}]
  /\ UNCHANGED <<remote, pull, heads>>

(* A pull request for a branch that has one, or for no branch, is refused. *)
LandOpen(p) ==
  /\ wire[p].kind = "open"
  /\ pull.state # "open"
  /\ remote # Absent
  /\ pull' = [state |-> "open", draft |-> TRUE, base |-> "main"]
  /\ landed' = [landed EXCEPT ![p] = @ \cup {wire[p]}]
  /\ UNCHANGED <<remote, heads>>

Finish(p, answer) ==
  /\ wire' = [wire EXCEPT ![p] = Nothing]
  /\ reply' = [reply EXCEPT ![p] = answer]

Land(p) ==
  /\ wire[p] # Nothing
  /\ LandPush(p) \/ LandEdit(p) \/ LandOpen(p)
  /\ Finish(p, "ok")
  /\ UNCHANGED <<world, pc, seen, outcome, told>>

(* The server refuses (a moved branch, a rule), or never gets the command. *)
Refuse(p) ==
  /\ wire[p] # Nothing
  /\ Finish(p, "no")
  /\ UNCHANGED <<world, server, pc, seen, outcome, told>>

-----------------------------------------------------------------------------
(* What follows the command                                                *)

(* Mutant: a failed command is taken to have done nothing.                 *)
GiveUpUnchanged(p) ==
  /\ pc[p] = "sent"
  /\ Blocked(p, "unchanged", Unsaid)
  /\ UNCHANGED <<world, server, seen, wire, reply>>

(* The command failed, or its time or its connection was lost: from that   *)
(* moment the client does not know what the server does with it.           *)
GiveUp(p) ==
  /\ pc[p] = "sent"
  /\ Blocked(p, "unchanged_or_unknown", Unsaid)
  /\ UNCHANGED <<world, server, seen, wire, reply>>

(* The answer to a new pull request is its verification.                   *)
Replied(p) ==
  /\ pc[p] = "sent"
  /\ reply[p] = "ok"
  /\ IF Request(p).op = "draft_pr_create"
       THEN \/ Answer(p, "completed", "created", Unsaid, FALSE)
            \/ Blocked(p, "post_verify_failed", Unsaid)
       ELSE Go(p, "after")
  /\ UNCHANGED <<world, server, seen, wire, reply>>

(* Mutant: _remote_ref_sha, for which an absent branch is no error.        *)
RemoteShaOrNone(head) == {head}

(* _remote_sha after the push: a branch that is gone cannot be read.       *)
RemoteSha(head) == IF head = Absent THEN {} ELSE {head}

(* Mutant: the exit code of the push is believed.                          *)
VerifiedByCode(p, head) == TRUE

(* The head is compared with the requested commit.                         *)
Verified(p, head) == head = Request(p).new

VerifyPush(p) ==
  /\ Pushes(p)
  /\ \E head \in RemoteSha(remote) :
       IF Verified(p, head)
         THEN Answer(p, "completed",
                     IF Request(p).op = "normal_push" THEN "updated" ELSE "created",
                     head, Request(p).op = "create_branch")
         ELSE Blocked(p, "post_verify_failed", head)

(* The second read raises for a pull request that no longer fits, so that  *)
(* only a head that moved between the two is a failed verification.        *)
VerifyPull(p) ==
  /\ ~Pushes(p)
  /\ PullFits(p)
  /\ IF seen[p] = remote
       THEN Answer(p, "completed", "updated", Unsaid, FALSE)
       ELSE Blocked(p, "post_verify_failed", Unsaid)

(* Any second read may fail, and fails where the first would have.         *)
After(p) ==
  /\ pc[p] = "after"
  /\ VerifyPush(p) \/ VerifyPull(p) \/ Raise(p)
  /\ UNCHANGED <<world, server, seen, wire, reply>>

(* The command line writes the result.  When that fails it writes, in the  *)
(* same handler as for a malformed request, a "blocked" without a state.   *)
NoState == [status |-> "blocked", remoteState |-> "unsaid", observed |-> Unsaid,
            created |-> FALSE, stage |-> "deliver"]

Deliver(p) ==
  /\ pc[p] = "deliver"
  /\ \/ told' = [told EXCEPT ![p] = outcome[p]]
     \/ told' = [told EXCEPT ![p] = NoState]
     \/ UNCHANGED told
  /\ pc' = [pc EXCEPT ![p] = "done"]
  /\ UNCHANGED <<world, server, seen, wire, reply, outcome>>

(* The process ends; its command, if one is under way, does not.           *)
Die(p) ==
  /\ pc[p] # "done"
  /\ pc' = [pc EXCEPT ![p] = "done"]
  /\ UNCHANGED <<world, server, seen, wire, reply, outcome, told>>

-----------------------------------------------------------------------------
(* Everyone else                                                           *)

Moved ==
  /\ moves < MaxMoves
  /\ moves' = moves + 1
  /\ UNCHANGED <<setting, pc, seen, wire, reply, outcome, told, landed>>

(* Another user pushes or forces the branch, or deletes it; a pull request *)
(* whose branch is gone is closed.                                         *)
OthersPush ==
  /\ Moved
  /\ \E head \in (Commits \cup {Absent}) \ {remote} :
       /\ SetRemote(head)
       /\ pull' = IF head = Absent /\ pull.state = "open"
                    THEN [pull EXCEPT !.state = "closed"] ELSE pull
  /\ UNCHANGED local

(* The pull request is closed, made ready for review or given a new base.  *)
OthersEdit ==
  /\ Moved
  /\ pull.state = "open"
  /\ pull' \in {[pull EXCEPT !.state = "closed"], [pull EXCEPT !.draft = ~@],
                [pull EXCEPT !.base = IF @ = "main" THEN "other" ELSE "main"]}
  /\ UNCHANGED <<local, remote, heads>>

(* Work goes on in the repository: its branch moves or goes away.          *)
LocalMoves ==
  /\ Moved
  /\ local' \in (Commits \cup {Absent}) \ {local}
  /\ UNCHANGED <<remote, pull, heads>>

Next ==
  \/ \E p \in Publishers :
       \/ Parse(p) \/ Scope(p) \/ Inputs(p) \/ Before(p) \/ Auth(p) \/ Send(p)
       \/ Land(p) \/ Refuse(p) \/ GiveUp(p) \/ Replied(p) \/ After(p)
       \/ Deliver(p) \/ Die(p)
  \/ OthersPush \/ OthersEdit \/ LocalMoves

Spec == Init /\ [][Next]_vars

-----------------------------------------------------------------------------
(* Properties                                                              *)

(* Typing.  A result names an observed head only where one was read.       *)
TypeOK ==
  /\ setting \in Settings
  /\ local \in Commits \cup {Absent}
  /\ remote \in Commits \cup {Absent}
  /\ pull \in PullRequests
  /\ moves \in 0..MaxMoves
  /\ pc \in [Publishers -> Stages]
  /\ seen \in [Publishers -> Commits \cup {Absent, Unsaid}]
  /\ wire \in [Publishers -> Commands \cup {Nothing}]
  /\ reply \in [Publishers -> {"none", "ok", "no"}]
  /\ outcome \in [Publishers -> Results \cup {Nothing}]
  /\ told \in [Publishers -> Results \cup {Nothing}]
  /\ landed \in [Publishers -> SUBSET Commands]
  /\ heads \in [Publishers -> SUBSET (Commits \cup {Absent})]

(* Whatever others do between its reads and its push, the broker never     *)
(* takes a commit away from the branch: a head it replaces is an ancestor  *)
(* of the one it puts there (no forced update, publication.py:397-411).    *)
NothingLost ==
  [][landed' # landed => remote = Absent \/ remote \in Below[remote']]_vars

(* "completed" is earned: the requested commit was the head of the branch  *)
(* at some moment after the push was sent, the head the request expected   *)
(* is among its ancestors, and a pull request was edited or opened by this *)
(* very request (_execute_push 430-451, _execute_create_branch 531-560).   *)
CompletedIsVerified ==
  \A p \in Publishers :
    told[p] # Nothing /\ told[p].status = "completed" =>
      LET r == Request(p) IN
      /\ Pushes(p) => r.new \in heads[p]
      /\ r.op = "normal_push" => r.old \in Below[r.new]
      /\ ~Pushes(p) => \E c \in landed[p] : c.kind \in {"edit", "open"}

(* A change that was made, or may still be made by a command under way, is *)
(* not denied: the result says completed, unknown, unverified or nothing   *)
(* at all, and "not_mutated" only where it was the verifying read that     *)
(* failed (execute_publication, publication.py:664-665).                   *)
ChangeAdmitted ==
  \A p \in Publishers :
    told[p] # Nothing /\ (wire[p] # Nothing \/ landed[p] # {}) =>
      \/ told[p].status = "completed"
      \/ told[p].remoteState \in {"unchanged_or_unknown", "post_verify_failed", "unsaid"}
      \/ told[p].remoteState = "not_mutated" /\ told[p].stage = "after"

(* A new branch is only ever created: the push of a create_branch never    *)
(* moves a branch that exists.  The comment at publication.py:398-400 and  *)
(* docs/CLI.md:106-107 promise it; the code does not keep it, because the  *)
(* push advertises heads again after the read that found the branch absent.*)
CreatesOnlyNew ==
  \A p \in Publishers :
    Request(p).op = "create_branch" => \A c \in landed[p] : c.old = Absent
=============================================================================
