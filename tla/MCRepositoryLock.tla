-------------------------- MODULE MCRepositoryLock --------------------------
(* The repository lock on small instances.                                 *)
EXTENDS RepositoryLock, TLC

(* Requests and pids are interchangeable.  Used by safety runs only.       *)
Symmetry == Permutations(Requests) \cup Permutations(Pids)
=============================================================================
