--------------------------- MODULE MCTerminalInput ---------------------------
(* Situations of TerminalInput for TLC: delegated turns, a follow-up, a human. *)
EXTENDS TerminalInput

CONSTANTS d1, d2, s1, h1

(* Nothing fails and the human waits for the prompt; there may be a         *)
(* follow-up from another program.                                         *)
Careful ==
  [automations |-> {d1, d2}, keys |-> 2, hasty |-> FALSE, leaves |-> FALSE,
   configures |-> FALSE, edits |-> FALSE, composer |-> 4, longTurns |-> FALSE, faults |-> FALSE]
Followup == [Careful EXCEPT !.automations = {d1, s1}]

(* A human who has time for a second command, or for one after a           *)
(* configuration command.                                                  *)
Again(a) == [Careful EXCEPT !.automations = {a}, !.keys = 4]
Configuring(a) == [Again(a) EXCEPT !.configures = TRUE]

(* The human types ahead, and may leave text behind.                       *)
Ahead == [Followup EXCEPT !.keys = 3, !.hasty = TRUE]
Eager == [Followup EXCEPT !.hasty = TRUE, !.leaves = TRUE]

(* The human uses cursor keys and the history, or writes more than the     *)
(* host's composer holds.                                                  *)
Editing(a) == [Careful EXCEPT !.automations = {a}, !.keys = 3, !.edits = TRUE]
Verbose == [Again(s1) EXCEPT !.composer = 1]

(* Waits time out and automations die as well, with two automations and a  *)
(* single key, or with one of them and two keys.                           *)
Faulty == [Eager EXCEPT !.keys = 1, !.faults = TRUE]
FaultyAlone(a) == [Eager EXCEPT !.automations = {a}, !.faults = TRUE]

(* A delegated turn that outlasts its lease, and a human who configures.   *)
Long == [Configuring(d1) EXCEPT !.keys = 3, !.longTurns = TRUE]

AllSituations ==
  {Careful, Followup, Ahead, Eager, Faulty, Long, Verbose}
    \cup UNION {{Again(a), Configuring(a), Editing(a), FaultyAlone(a)} : a \in {d1, s1}}
=============================================================================
