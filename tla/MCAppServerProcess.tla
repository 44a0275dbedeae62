-------------------------- MODULE MCAppServerProcess --------------------------
(* Modes of AppServerProcess for TLC. *)
EXTENDS AppServerProcess

CONSTANTS t1, t2, r1, x1

Shared == [overlap |-> TRUE, faults |-> FALSE]
Apart == [overlap |-> FALSE, faults |-> TRUE]

Working == {Shared, Apart}
===============================================================================
