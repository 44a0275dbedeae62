--------------------------- MODULE MCLiveEvents -----------------------------
(* Settings of LiveEvents for TLC. *)
EXTENDS LiveEvents

\* Two runs one after the other with nobody watching: their publishers, dead
\* or alive, and their late failures write at the same time.
Writing == [runs |-> 2, turns |-> 1, mishaps |-> 1, watched |-> FALSE]

\* A browser watches a run; one process dies, or one write or connection fails.
Crashing == [runs |-> 1, turns |-> 1, mishaps |-> 1, watched |-> TRUE]

\* A browser watches two runs.
Following == [runs |-> 2, turns |-> 0, mishaps |-> 0, watched |-> TRUE]

AllSettings == {Writing, Crashing, Following}
=============================================================================
