------------------------- MODULE MCAppServerSessions ------------------------
(* Instances of AppServerSessions: who shares a host with whom, and under    *)
(* which settings.                                                           *)
EXTENDS AppServerSessions

CONSTANTS a1, a2, a3, d1, hA, hB

\* Runs under a policy that changes between them and a dashboard read that
\* follows the last one, all in one process.
Shared ==
  [callers |-> {a1, a2, d1}, host |-> [c \in Callers |-> hA],
   policy |-> [c \in Callers |-> IF c = a1 THEN 1 ELSE 2],
   serial |-> FALSE, shutdowns |-> FALSE, escapes |-> FALSE]

\* The two runs in a process that shuts down meanwhile.
Closing == [Shared EXCEPT !.callers = {a1, a2}, !.shutdowns = TRUE]

\* Runs one at a time, all in one process.
Serial ==
  [callers |-> {a1, a2, a3}, host |-> [c \in Callers |-> hA],
   policy |-> [c \in Callers |-> 1], serial |-> TRUE, shutdowns |-> FALSE,
   escapes |-> FALSE]

\* The same with the second in another process, which shares the mapping file.
Apart == [Serial EXCEPT !.host = [c \in Callers |-> IF c = a2 THEN hB ELSE hA]]

\* Two runs at once in two processes.
Divided == [Apart EXCEPT !.callers = {a1, a2}, !.serial = FALSE]

\* Runs one at a time that Ctrl-C may end.
Interrupted == [Apart EXCEPT !.callers = {a1, a2}, !.escapes = TRUE]

AllSettings == {Shared, Closing, Serial, Apart, Divided, Interrupted}
=============================================================================
