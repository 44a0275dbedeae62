---------------------------- MODULE MCRunRecovery ----------------------------
(* Settings of RunRecovery for TLC: runs and pids are interchangeable.     *)
EXTENDS RunRecovery, FiniteSets, TLC

CONSTANTS r1, r2, r3, p1, p2

(* Three runs that crash at every step, or two whose files and queries     *)
(* fail as well.                                                           *)
AllSettings ==
  [runs : {Runs}, phases : {1}, faults : {FALSE}]
    \cup [runs : {S \in SUBSET Runs : Cardinality(S) = 2}, phases : {1}, faults : {TRUE}]

Symmetry == Permutations(Runs) \cup Permutations(Pids)
=============================================================================
