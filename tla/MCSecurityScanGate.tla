-------------------------- MODULE MCSecurityScanGate --------------------------
(* Settings of SecurityScanGate for TLC. *)
EXTENDS SecurityScanGate

(* Everybody does as he pleases and anything may fail.                     *)
Adversarial ==
  [corrections |-> 0, scans |-> 2, edits |-> 2,
   compliant |-> FALSE, others |-> TRUE, faults |-> TRUE, reverting |-> FALSE]

(* The same with snapshots that come back.                                 *)
Reverts == [Adversarial EXCEPT !.scans = 1, !.edits = 1, !.faults = FALSE, !.reverting = TRUE]

(* Nobody but an Executor that keeps to its policy.                        *)
Quiet ==
  [corrections |-> 2, scans |-> 5, edits |-> 4,
   compliant |-> TRUE, others |-> FALSE, faults |-> FALSE, reverting |-> FALSE]

AllSettings == {Adversarial, Reverts, Quiet}
=============================================================================
