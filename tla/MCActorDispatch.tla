---------------------------- MODULE MCActorDispatch ----------------------------
(* Settings of ActorDispatch for TLC: for every role its backends, each    *)
(* with a fallback of another kind.                                        *)
EXTENDS ActorDispatch, TLC

CONSTANTS r1, r2

With(role, actor, spare) ==
  [role |-> role, actor |-> actor, spare |-> spare, faults |-> FALSE]

Faulty(s) == [s EXCEPT !.faults = TRUE]

AllSettings ==
  {With("reviewer", "claude_code", "api"),
   Faulty(With("reviewer", "api", "claude_code")),
   With("executor", "antigravity", "app_server"),
   Faulty(With("architect", "windows", "app_server"))}

Symmetry == Permutations(Runs)
=============================================================================
