---------------------------- MODULE MCDelegation ----------------------------
(* Settings of Delegation for TLC.                                         *)
EXTENDS Delegation, TLC

CONSTANTS q1, q2

(* Two requests whose App Server or codex exec Executor is replaced by the *)
(* other.                                                                  *)
Quiet ==
  [requests |-> {q1, q2}, executor |-> "app_server", spare |-> "exec", allowDirty |-> FALSE,
   reports |-> {"none", "applied", "probe"}, paths |-> {"a"},
   crowd |-> FALSE, faults |-> FALSE, losses |-> FALSE, stops |-> FALSE]

(* One of them, with any report, whose events may be lost.                 *)
Unheard(r) ==
  [Quiet EXCEPT !.requests = {r}, !.reports = Reports, !.paths = Paths, !.losses = TRUE]

(* One request in a dirty worktree that others use, with failing files.    *)
Crowded(r) ==
  [Quiet EXCEPT !.requests = {r}, !.executor = "exec", !.spare = "app_server",
                !.allowDirty = TRUE, !.reports = {"none", "claimed", "probe"},
                !.crowd = TRUE, !.faults = TRUE, !.losses = TRUE]

(* Terminals, which are not stopped, interruptions and deaths.             *)
Stopped ==
  [Quiet EXCEPT !.executor = "windows", !.spare = "none", !.stops = TRUE,
                !.losses = TRUE, !.reports = {"applied"}]

(* One request whose terminal Executor may fail and go on, with nobody to  *)
(* replace it or beside its fallback.                                      *)
Alone(r) == [Stopped EXCEPT !.requests = {r}, !.reports = {"none", "invalid", "applied"}]
Relieved(r) == [Alone(r) EXCEPT !.spare = "exec", !.reports = {"none", "declined", "applied", "probe"}]

Symmetry == Permutations(Requests)

AllSettings ==
  {Quiet, Stopped} \cup UNION {{Unheard(r), Crowded(r), Alone(r), Relieved(r)} : r \in Requests}
=============================================================================
