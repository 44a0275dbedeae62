--------------------------- MODULE MCPublication ---------------------------
(* Settings of Publication for TLC.                                        *)
EXTENDS Publication, TLC

CONSTANTS p1, p2, c1, c2, c3, c4

(* c1 <- c2 <- c3, and c4 beside c2.                                       *)
History ==
  [c \in {c1, c2, c3, c4} |->
    CASE c = c1 -> {c1} [] c = c2 -> {c1, c2} [] c = c3 -> {c1, c2, c3} [] c = c4 -> {c1, c4}]

NoPull == [state |-> "none", draft |-> FALSE, base |-> "main"]
Draft == [state |-> "open", draft |-> TRUE, base |-> "main"]

PushTo(old, new) ==
  [op |-> "normal_push", allowed |-> {"normal_push"}, bound |-> TRUE, new |-> new,
   old |-> old, base |-> Unsaid, head |-> Unsaid, prBase |-> "any"]
Create(new, base) ==
  [PushTo(Absent, new) EXCEPT !.op = "create_branch", !.allowed = {"create_branch"},
                              !.base = base]
Update(head) ==
  [PushTo(Absent, c2) EXCEPT !.op = "draft_pr_update", !.allowed = {"draft_pr_update"},
                             !.head = head, !.prBase = "main"]
Open == [Update(Unsaid) EXCEPT !.op = "draft_pr_create", !.allowed = {"draft_pr_create"}]
Denied == [PushTo(c1, c2) EXCEPT !.allowed = {"draft_pr_create"}]

Two(r1, r2) == (p1 :> r1) @@ (p2 :> r2)

Place(requests, l, r, q) == [requests |-> requests, local |-> l, remote |-> r, pull |-> q]

(* The same push twice (a retry beside its original), a push beside the    *)
(* creation of the same branch, a new branch twice, and pull requests      *)
(* beside pushes.                                                          *)
AllSettings ==
  {Place(Two(PushTo(c1, c2), PushTo(c1, c2)), c2, c1, NoPull),
   Place(Two(PushTo(c1, c2), PushTo(c2, c3)), c2, c1, Draft),
   Place(Two(Create(c2, c1), PushTo(c1, c2)), c2, Absent, NoPull),
   Place(Two(Create(c2, Unsaid), Create(c2, c4)), c2, Absent, NoPull),
   Place(Two(PushTo(c1, c2), Update(c1)), c2, c1, Draft),
   Place(Two(Update(Unsaid), Open), c2, c2, Draft),
   Place(Two(Denied, Open), c2, c1, NoPull)}
=============================================================================
