---------------------------- MODULE ExclusiveUse ----------------------------
(***************************************************************************)
(* What the repository lock promises its callers, with no lock file, no    *)
(* process identifiers and no retries: a repository is used by at most one *)
(* request at a time.  A request enters only an unused repository; requests *)
(* leave by releasing the lock or because their process died.              *)
(***************************************************************************)
CONSTANT Requests

VARIABLE users      \* the requests executing the body of their "with" block

Init == users = {}

Enter(r) == users = {} /\ users' = {r}

Leave == users # {} /\ users' = {}

Next == (\E r \in Requests : Enter(r)) \/ Leave

Spec == Init /\ [][Next]_users

=============================================================================
