------------------------------ MODULE EventLog ------------------------------
(***************************************************************************)
(* What the live event journal promises its readers, with no lock file, no *)
(* temporary files and no writers: records are numbered without a gap in   *)
(* the order they arrive, grow at the end and are lost at the front only.  *)
(***************************************************************************)
EXTENDS Naturals, Sequences

CONSTANTS Events,  \* what a record may say
          Keep     \* how many records are kept

VARIABLE log

Latest == IF log = <<>> THEN 0 ELSE log[Len(log)].seq

Cut(s) == IF Len(s) > Keep THEN SubSeq(s, Len(s) - Keep + 1, Len(s)) ELSE s

Init == log = <<>>

Record(e) == log' = Cut(Append(log, [seq |-> Latest + 1, event |-> e]))

Next == \E e \in Events : Record(e)

Spec == Init /\ [][Next]_log

=============================================================================
