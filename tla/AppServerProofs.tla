--------------------------- MODULE AppServerProofs ---------------------------
(***************************************************************************)
(* Machine-checked proofs about the App Server: the process that turns,    *)
(* dashboard reads and closers share, and the pool of such processes with  *)
(* its mapping of threads; for any number of callers, hosts, children,     *)
(* notifications, modes and settings and any size of the queue.            *)
(***************************************************************************)
EXTENDS AppServerProcess, AppServerSessions, TLAPS

-----------------------------------------------------------------------------
(* The inductive invariant of a process                                      *)

\* Whoever is inside the process has its lock.
Inside(c) == at[c] \in {"asked", "turn", "drain", "sentinel", "join"}
OwnerInv ==
  \A c \in ProcessCallers :
    /\ Inside(c) <=> owner = c
    /\ at[c] = "turn" => c \in Turns
    /\ at[c] \in {"asked", "turn"} => c \notin Closers

\* The journal context is that of the turn inside.
ContextInv ==
  /\ context # NoOne => at[context] \in {"asked", "turn"}
  /\ \A c \in Turns : at[c] \in {"asked", "turn"} => context = c

\* A process that is closed has no more calls inside, and is closed once.
ClosedInv ==
  /\ child = "stopped" => closed
  /\ \A c \in ProcessCallers :
       /\ at[c] \in {"drain", "sentinel", "join"} => closed /\ child # "stopped"
       /\ closed => at[c] \notin {"asked", "turn"}

\* One caller at a time where they do not overlap.
ApartInv ==
  ~Overlap => \A c, d \in ProcessCallers :
    at[c] \notin {"idle", "done", "gone"} /\ at[d] \notin {"idle", "done", "gone"} => c = d

\* What was accepted has been journaled, is in the publisher's hand or waits, in
\* this order; and after the drain nothing is left but the sentinel.
Draining == child = "stopped" \/ \E c \in ProcessCallers : at[c] \in {"sentinel", "join"}
Handed == IF publisher = "append" THEN 1 ELSE 0
AcceptedInv ==
  /\ \A i \in 1..Len(accepted) : accepted[i].run # NoOne
  /\ \A i \in 1..Len(journal) : i <= Len(accepted) /\ journal[i].entry = accepted[i]
  /\ ~Draining =>
       /\ Len(accepted) = Len(journal) + Handed + Len(publications)
       /\ publisher = "append" => holding = accepted[Len(journal) + 1]
       /\ \A i \in 1..Len(publications) : publications[i] = accepted[Len(journal) + Handed + i]
  /\ Draining =>
       /\ Len(accepted) = Len(journal)
       /\ publisher # "append"
       /\ publications \in {<<>>, <<Sentinel>>}
       /\ \A c \in ProcessCallers : at[c] = "sentinel" => publications = <<>>

\* Lines that tell of a turn; after the turn's completion there is none.
Within(s) == {s[i] : i \in 1..Len(s)}
Tells(l) == l.kind \in {"note", "completed"}
CompletedLast(s) ==
  \A i, j \in 1..Len(s) : i < j /\ s[i].kind = "completed" /\ Tells(s[j]) => s[i].of # s[j].of
Unread == Within(pending) \cup Within(messages)
LinesInv ==
  /\ \A c \in ProcessCallers : sent[c].answered \/ sent[c].completed => c \in asked
  /\ \A l \in Unread : Tells(l) => l.of \in Turns
  /\ \A l \in Unread : l.kind = "completed" => sent[l.of].completed
  /\ CompletedLast(pending) /\ CompletedLast(messages)
  /\ \A l \in Within(pending), m \in Within(messages) :
       l.kind = "completed" /\ Tells(m) => l.of # m.of

\* Where nothing fails or callers come one at a time, a turn that has not been
\* seen to complete, and one of which there are lines to read, has its caller
\* still inside, or nobody reads any more.
Attended(c) == closed \/ at[c] \in {"asked", "turn"} \/ (Faults /\ at[c] = "failed")
TurnsInv ==
  ~(Overlap /\ Faults) =>
    /\ \A c \in asked \cap Turns : ~sent[c].completed => Attended(c)
    /\ \A l \in Unread : Tells(l) => Attended(l.of)
    /\ ~Faults => child # "exited" /\ \A l \in Unread : l.kind # "eof"

Control == OwnerInv /\ ContextInv /\ ClosedInv /\ ApartInv

ProcessInv ==
  ProcessTypeOK /\ Control /\ AcceptedInv /\ LinesInv /\ TurnsInv /\ KeepsItsRun

-----------------------------------------------------------------------------
(* Sequences of lines                                                        *)

USE DEF Stages

LEMMA AppendLine ==
  ASSUME NEW S, NEW s \in Seq(S), NEW x \in S
  PROVE  /\ Append(s, x) \in Seq(S) /\ Len(Append(s, x)) = Len(s) + 1 /\ Len(s) \in Nat
         /\ Append(s, x)[Len(s) + 1] = x
         /\ \A i \in 1..Len(s) : Append(s, x)[i] = s[i]
         /\ Within(Append(s, x)) = Within(s) \cup {x}
<1>1. /\ Append(s, x) \in Seq(S) /\ Len(Append(s, x)) = Len(s) + 1 /\ Len(s) \in Nat
      /\ Append(s, x)[Len(s) + 1] = x
      /\ \A i \in 1..Len(s) : Append(s, x)[i] = s[i]
  OBVIOUS
<1>2. \A i : i \in 1..(Len(s) + 1) <=> i \in 1..Len(s) \/ i = Len(s) + 1
  BY <1>1
<1>3. Within(Append(s, x)) = Within(s) \cup {x}
  BY <1>1, <1>2 DEF Within
<1> QED
  BY <1>1, <1>3

LEMMA TailLine ==
  ASSUME NEW S, NEW s \in Seq(S), s # <<>>
  PROVE  /\ Tail(s) \in Seq(S) /\ Head(s) \in S /\ Head(s) = s[1]
         /\ Len(s) \in Nat \ {0} /\ Len(Tail(s)) = Len(s) - 1
         /\ \A i \in 1..Len(Tail(s)) : Tail(s)[i] = s[i + 1]
         /\ Within(s) = {Head(s)} \cup Within(Tail(s))
<1>1. /\ Tail(s) \in Seq(S) /\ Head(s) \in S /\ Head(s) = s[1]
      /\ Len(s) \in Nat \ {0} /\ Len(Tail(s)) = Len(s) - 1
      /\ \A i \in 1..Len(Tail(s)) : Tail(s)[i] = s[i + 1]
  OBVIOUS
<1>2. \A i \in 1..Len(s) : i = 1 \/ i - 1 \in 1..Len(Tail(s))
  BY <1>1
<1>3. \A i \in 1..Len(Tail(s)) : i + 1 \in 1..Len(s)
  BY <1>1
<1>4. 1 \in 1..Len(s)
  BY <1>1
<1>5. Within(s) \subseteq {Head(s)} \cup Within(Tail(s))
  <2> SUFFICES ASSUME NEW i \in 1..Len(s), i # 1 PROVE s[i] \in Within(Tail(s))
    BY <1>1 DEF Within
  <2>1. i - 1 \in 1..Len(Tail(s)) /\ (i - 1) + 1 = i
    BY <1>2
  <2> QED
    BY <1>1, <2>1 DEF Within
<1>6. {Head(s)} \cup Within(Tail(s)) \subseteq Within(s)
  BY <1>1, <1>3, <1>4 DEF Within
<1> QED
  BY <1>1, <1>5, <1>6

(* A line behind the others leaves a completed turn's completion the last of *)
(* its lines if it is not of that turn.                                      *)
LEMMA LastAppended ==
  ASSUME NEW S, NEW s \in Seq(S), NEW x \in S, CompletedLast(s),
         Tells(x) => \A l \in Within(s) : l.kind = "completed" => l.of # x.of
  PROVE  CompletedLast(Append(s, x))
<1> DEFINE t == Append(s, x)
<1>1. /\ Len(t) = Len(s) + 1 /\ Len(s) \in Nat /\ t[Len(s) + 1] = x
      /\ \A i \in 1..Len(s) : t[i] = s[i]
  BY AppendLine
<1> SUFFICES ASSUME NEW i \in 1..Len(t), NEW j \in 1..Len(t), i < j,
                    t[i].kind = "completed", Tells(t[j])
             PROVE  t[i].of # t[j].of
  BY DEF CompletedLast
<1>2. i \in 1..Len(s) /\ t[i] = s[i] /\ s[i] \in Within(s)
  BY <1>1 DEF Within
<1>3. CASE j = Len(s) + 1
  BY <1>1, <1>2, <1>3
<1>4. CASE j \in 1..Len(s)
  BY <1>1, <1>2, <1>4 DEF CompletedLast
<1> QED
  BY <1>1, <1>3, <1>4

LEMMA LastTail ==
  ASSUME NEW S, NEW s \in Seq(S), s # <<>>, CompletedLast(s)
  PROVE  /\ CompletedLast(Tail(s))
         /\ Head(s).kind = "completed" =>
              \A l \in Within(Tail(s)) : Tells(l) => l.of # Head(s).of
<1> DEFINE t == Tail(s)
<1>1. /\ Head(s) = s[1] /\ Len(s) \in Nat \ {0} /\ Len(t) = Len(s) - 1
      /\ \A i \in 1..Len(t) : t[i] = s[i + 1]
  BY TailLine
<1>2. \A i \in 1..Len(t) : i + 1 \in 1..Len(s) /\ 1 < i + 1
  BY <1>1
<1>3. CompletedLast(t)
  <2> SUFFICES ASSUME NEW i \in 1..Len(t), NEW j \in 1..Len(t), i < j,
                      t[i].kind = "completed", Tells(t[j])
               PROVE  t[i].of # t[j].of
    BY DEF CompletedLast
  <2>1. i + 1 < j + 1
    OBVIOUS
  <2> QED
    BY <1>1, <1>2, <2>1 DEF CompletedLast
<1>4. ASSUME Head(s).kind = "completed", NEW i \in 1..Len(t), Tells(t[i])
      PROVE  t[i].of # Head(s).of
  <2>1. 1 \in 1..Len(s)
    BY <1>1
  <2> QED
    BY <1>1, <1>2, <1>4, <2>1 DEF CompletedLast
<1> QED
  BY <1>3, <1>4 DEF Within

-----------------------------------------------------------------------------
(* The callers and nobody                                                    *)

LEMMA Apart ==
  /\ NoOne \notin ProcessCallers /\ NoOne \notin Turns
  /\ Turns \subseteq ProcessCallers
BY ProcessAssumption DEF ProcessCallers

LEMMA ProcessInitInv == ProcessInit => ProcessInv
<1> SUFFICES ASSUME ProcessInit PROVE ProcessInv
  OBVIOUS
<1>1. ProcessTypeOK
  <2>1. Sentinel \in Entries /\ 0 \in 0..NotesPerTurn /\ 0 <= QueueSize
    BY ProcessAssumption DEF Entries, Sentinel
  <2>2. sent \in [ProcessCallers -> [answered : BOOLEAN, notes : 0..NotesPerTurn, completed : BOOLEAN]]
    BY <2>1 DEF ProcessInit
  <2>3. publications \in Seq(Entries) /\ Len(publications) <= QueueSize
    BY <2>1 DEF ProcessInit
  <2>4. stop \in BOOLEAN /\ closed \in BOOLEAN
    BY DEF ProcessInit
  <2>5. messages \in Seq(Lines) /\ pending \in Seq(Lines) /\ accepted \in Seq(Entries)
    BY DEF ProcessInit
  <2>6. journal \in Seq([entry : Entries, written : BOOLEAN])
    BY DEF ProcessInit
  <2>7. at \in [ProcessCallers -> Stages]
    BY DEF ProcessInit
  <2> QED
    BY <2>1, <2>2, <2>3, <2>4, <2>5, <2>6, <2>7 DEF ProcessInit, ProcessTypeOK
<1>2. Control
  BY Apart DEF ProcessInit, Control, OwnerInv, Inside, ContextInv, ClosedInv, ApartInv
<1>3. AcceptedInv
  <2>1. ~Draining /\ Handed = 0
    BY DEF ProcessInit, Draining, Handed
  <2> QED
    BY <2>1 DEF ProcessInit, AcceptedInv
<1>4. Unread = {}
  BY DEF ProcessInit, Unread, Within
<1>5. CompletedLast(pending) /\ CompletedLast(messages) /\ Within(pending) = {} /\ Within(messages) = {}
  BY DEF ProcessInit, CompletedLast, Within
<1>6. LinesInv /\ TurnsInv
  BY <1>4, <1>5 DEF ProcessInit, LinesInv, TurnsInv
<1>7. KeepsItsRun
  BY DEF ProcessInit, KeepsItsRun
<1> QED
  BY <1>1, <1>2, <1>3, <1>6, <1>7 DEF ProcessInv

-----------------------------------------------------------------------------
(* What most steps leave as it is                                            *)

LEMMA SameControl ==
  ASSUME Control, UNCHANGED <<callVars, closeVars, mode>>
  PROVE  Control'
BY DEF Control, OwnerInv, Inside, ContextInv, ClosedInv, ApartInv, Overlap, callVars, closeVars

LEMMA SameOrder ==
  ASSUME AcceptedInv, UNCHANGED journalVars, Draining' = Draining,
         \A c \in ProcessCallers : at'[c] = "sentinel" => at[c] = "sentinel"
  PROVE  AcceptedInv'
BY DEF AcceptedInv, Handed, journalVars

LEMMA SameLines ==
  ASSUME LinesInv, UNCHANGED <<inputVars, asked, sent>>
  PROVE  LinesInv' /\ Unread' = Unread
BY DEF LinesInv, Unread, inputVars, Within, CompletedLast

\* Who attends a turn goes on attending it.
LEMMA SameTurns ==
  ASSUME LinesInv, TurnsInv, UNCHANGED <<inputVars, asked, sent, mode>>,
         \A c \in Turns : Attended(c) => Attended(c)',
         ~Faults => child' = child \/ child' # "exited"
  PROVE  TurnsInv'
<1>1. Unread' = Unread
  BY DEF Unread, inputVars, Within
<1>2. Overlap' = Overlap /\ Faults' = Faults
  BY DEF Overlap, Faults
<1>. SUFFICES ASSUME ~(Overlap /\ Faults)
              PROVE  /\ \A c \in asked \cap Turns : ~sent[c].completed => Attended(c)'
                     /\ \A l \in Unread : Tells(l) => Attended(l.of)'
                     /\ ~Faults => child' # "exited" /\ \A l \in Unread : l.kind # "eof"
  BY <1>1, <1>2 DEF TurnsInv
<1> QED
  BY DEF LinesInv, TurnsInv
-----------------------------------------------------------------------------
(* The child                                                                 *)

\* The child writes a line: nothing else changes but its own account of it.
LEMMA NewLine ==
  ASSUME ProcessInv, NEW x \in Lines, NEW c \in ProcessCallers,
         messages' = Append(messages, x),
         sent' \in [ProcessCallers -> [answered : BOOLEAN, notes : 0..NotesPerTurn, completed : BOOLEAN]],
         \A d \in ProcessCallers : d # c => sent'[d] = sent[d],
         sent'[c].answered \/ sent'[c].completed => c \in asked,
         sent[c].completed => sent'[c].completed,
         x.kind # "eof" /\ x.of = c,
         Tells(x) => c \in asked \cap Turns /\ ~sent[c].completed,
         x.kind = "completed" => sent'[c].completed,
         UNCHANGED <<callVars, pending, journalVars, closeVars, mode, asked>>
  PROVE  ProcessInv'
<1>1. ProcessTypeOK /\ Control /\ AcceptedInv /\ LinesInv /\ TurnsInv /\ KeepsItsRun
  BY DEF ProcessInv
<1>2. messages \in Seq(Lines) /\ messages' \in Seq(Lines) /\ Within(messages') = Within(messages) \cup {x}
  BY <1>1, AppendLine DEF ProcessTypeOK
<1>3. Within(pending)' = Within(pending) /\ Within(messages)' = Within(messages) \cup {x}
      /\ Unread' = Unread \cup {x}
  BY <1>2 DEF Unread, Within
<1>4. ProcessTypeOK'
  BY <1>1, <1>2 DEF ProcessTypeOK, callVars, journalVars, closeVars
<1>5. Control'
  BY <1>1, SameControl
<1>6. AcceptedInv'
  BY <1>1, SameOrder DEF Draining, callVars, closeVars
<1>7. Tells(x) => \A l \in Unread : l.kind = "completed" => l.of # x.of
  BY <1>1 DEF LinesInv
<1>8. LinesInv'
  <2>1. \A l \in Unread : Tells(l) => l.of \in ProcessCallers
    BY <1>1, Apart DEF LinesInv
  <2>2. \A l \in Unread' : l.kind = "completed" => sent'[l.of].completed
    BY <1>1, <1>3, <2>1 DEF LinesInv, Tells
  <2>3. CompletedLast(messages')
    BY <1>1, <1>2, <1>7, LastAppended DEF LinesInv, Unread
  <2>4. CompletedLast(messages)' /\ CompletedLast(pending)'
    BY <1>1, <2>3 DEF LinesInv, CompletedLast
  <2>5. \A d \in ProcessCallers : sent'[d].answered \/ sent'[d].completed => d \in asked
    BY <1>1 DEF LinesInv
  <2>6. \A l \in Unread' : Tells(l) => l.of \in Turns
    BY <1>1, <1>3 DEF LinesInv
  <2>7. \A l \in Within(pending)', m \in Within(messages)' :
          l.kind = "completed" /\ Tells(m) => l.of # m.of
    BY <1>1, <1>3, <1>7 DEF LinesInv, Unread
  <2> QED
    BY <2>2, <2>4, <2>5, <2>6, <2>7 DEF LinesInv
<1>9. TurnsInv'
  <2>1. \A d : Attended(d)' <=> Attended(d)
    BY DEF Attended, Faults, callVars, closeVars
  <2>2. Overlap' = Overlap /\ Faults' = Faults /\ child' = child
    BY DEF Overlap, Faults, closeVars
  <2>3. SUFFICES ASSUME ~(Overlap /\ Faults)
                 PROVE  /\ \A d \in asked \cap Turns : ~sent'[d].completed => Attended(d)
                        /\ \A l \in Unread \cup {x} : Tells(l) => Attended(l.of)
                        /\ ~Faults => child # "exited" /\ \A l \in Unread \cup {x} : l.kind # "eof"
    BY <1>3, <2>1, <2>2 DEF TurnsInv
  <2>4. \A d \in asked \cap Turns : ~sent'[d].completed => ~sent[d].completed
    BY Apart
  <2> QED
    BY <1>1, <2>3, <2>4 DEF TurnsInv
<1>10. KeepsItsRun'
  BY <1>1 DEF KeepsItsRun, Overlap, Faults, journalVars
<1> QED
  BY <1>4, <1>5, <1>6, <1>8, <1>9, <1>10 DEF ProcessInv

LEMMA ChildStep ==
  ASSUME ProcessInv, NEW c \in ProcessCallers, Child(c)
  PROVE  ProcessInv'
<1>1. /\ sent \in [ProcessCallers -> [answered : BOOLEAN, notes : 0..NotesPerTurn, completed : BOOLEAN]]
      /\ sent[c].answered \/ sent[c].completed => c \in asked
      /\ NotesPerTurn \in Nat
  BY ProcessAssumption DEF ProcessInv, ProcessTypeOK, LinesInv
<1>2. CASE ChildAnswers(c)
  <2>1. Response(c) \in Lines /\ Response(c).kind = "response" /\ Response(c).of = c
    BY <1>1 DEF Response, Lines
  <2> QED
    BY <1>1, <1>2, <2>1, NewLine DEF ChildAnswers, Tells
<1>3. CASE ChildNotifies(c)
  <2>1. sent[c].notes + 1 \in 0..NotesPerTurn
    BY <1>1, <1>3 DEF ChildNotifies
  <2>2. Note(c, sent[c].notes + 1) \in Lines /\ Note(c, sent[c].notes + 1).kind = "note"
        /\ Note(c, sent[c].notes + 1).of = c
    BY <2>1 DEF Note, Lines
  <2> QED
    BY <1>1, <1>3, <2>1, <2>2, NewLine DEF ChildNotifies, Tells
<1>4. CASE ChildCompletes(c)
  <2>1. Completed(c) \in Lines /\ Completed(c).kind = "completed" /\ Completed(c).of = c
    BY <1>1 DEF Completed, Lines
  <2> QED
    BY <1>1, <1>4, <2>1, NewLine DEF ChildCompletes, Tells
<1> QED
  BY <1>2, <1>3, <1>4 DEF Child

LEMMA ExitStep ==
  ASSUME ProcessInv, ProcessExits
  PROVE  ProcessInv'
<1>1. ProcessTypeOK /\ Control /\ AcceptedInv /\ LinesInv /\ TurnsInv /\ KeepsItsRun
  BY DEF ProcessInv
<1>2. /\ Faults /\ child = "up" /\ child' = "exited" /\ messages' = Append(messages, EOF)
      /\ UNCHANGED <<callVars, pending, journalVars, stop, closed, mode, asked, sent>>
  BY DEF ProcessExits, childVars
<1>3. EOF \in Lines /\ EOF.kind = "eof"
  BY ProcessAssumption DEF EOF, Lines
<1>4. messages \in Seq(Lines) /\ messages' \in Seq(Lines) /\ Within(messages') = Within(messages) \cup {EOF}
  BY <1>1, <1>2, <1>3, AppendLine DEF ProcessTypeOK
<1>5. Within(pending)' = Within(pending) /\ Within(messages)' = Within(messages) \cup {EOF}
      /\ Unread' = Unread \cup {EOF}
  BY <1>2, <1>4 DEF Unread, Within
<1>6. ProcessTypeOK'
  BY <1>1, <1>2, <1>4 DEF ProcessTypeOK, callVars, journalVars
<1>7. Control'
  BY <1>1, <1>2 DEF Control, OwnerInv, Inside, ContextInv, ClosedInv, ApartInv, Overlap, callVars
<1>8. AcceptedInv'
  BY <1>1, <1>2, SameOrder DEF Draining, callVars
<1>9. LinesInv'
  <2>1. CompletedLast(messages')
    BY <1>1, <1>2, <1>3, <1>4, LastAppended DEF LinesInv, Tells
  <2>2. CompletedLast(messages)' /\ CompletedLast(pending)'
    BY <1>1, <1>2, <2>1 DEF LinesInv, CompletedLast
  <2> QED
    BY <1>1, <1>2, <1>3, <1>5, <2>2 DEF LinesInv, Tells
<1>10. TurnsInv'
  <2>1. \A d : Attended(d)' <=> Attended(d)
    BY <1>2 DEF Attended, Faults, callVars
  <2>2. Overlap' = Overlap /\ Faults' = Faults
    BY <1>2 DEF Overlap, Faults
  <2> QED
    BY <1>1, <1>2, <1>3, <1>5, <2>1, <2>2 DEF TurnsInv, Tells
<1>11. KeepsItsRun'
  BY <1>1, <1>2 DEF KeepsItsRun, Overlap, Faults, journalVars
<1> QED
  BY <1>6, <1>7, <1>8, <1>9, <1>10, <1>11 DEF ProcessInv
-----------------------------------------------------------------------------
(* Callers that come, give up and close                                      *)

LEMMA AcquireStep ==
  ASSUME ProcessInv, NEW c \in ProcessCallers, Acquire(c)
  PROVE  ProcessInv'
<1>1. ProcessTypeOK /\ Control /\ AcceptedInv /\ LinesInv /\ TurnsInv /\ KeepsItsRun
  BY DEF ProcessInv
<1>2. /\ at[c] = "idle" /\ c \notin Closers /\ owner = NoOne /\ Free(c)
      /\ UNCHANGED <<inputVars, journalVars, closeVars, mode, sent>>
      /\ \/ (closed \/ child # "up") /\ at' = [at EXCEPT ![c] = "failed"] /\ UNCHANGED <<owner, context, asked>>
         \/ /\ ~closed /\ child = "up" /\ at' = [at EXCEPT ![c] = "asked"] /\ owner' = c
            /\ context' = (IF c \in Turns THEN c ELSE NoOne) /\ asked' = asked \cup {c}
  BY DEF Acquire
<1>3. \A d \in ProcessCallers : at'[d] = IF d = c THEN at'[c] ELSE at[d]
  BY <1>1, <1>2 DEF ProcessTypeOK
<1>4. at'[c] \in {"failed", "asked"} /\ (at'[c] = "asked" <=> ~closed /\ child = "up")
  BY <1>1, <1>2 DEF ProcessTypeOK
<1>5. ProcessTypeOK'
  BY <1>1, <1>2 DEF ProcessTypeOK, inputVars, journalVars, closeVars
<1>6. \A d \in ProcessCallers : ~Inside(d)
  BY <1>1, <1>2, Apart DEF Control, OwnerInv
<1>7. Control'
  <2>1. OwnerInv'
    BY <1>1, <1>2, <1>3, <1>4, <1>6, Apart DEF Control, OwnerInv, Inside
  <2>2. ContextInv'
    BY <1>1, <1>2, <1>3, <1>4, <1>6, Apart DEF Control, ContextInv, Inside, ProcessTypeOK
  <2>3. ClosedInv'
    BY <1>1, <1>2, <1>3, <1>4 DEF Control, ClosedInv, closeVars
  <2>4. ApartInv'
    BY <1>1, <1>2, <1>3 DEF Control, ApartInv, Free, Overlap
  <2> QED
    BY <2>1, <2>2, <2>3, <2>4 DEF Control
<1>8. AcceptedInv'
  <2>1. Draining' = Draining
    BY <1>2, <1>3, <1>4 DEF Draining, closeVars
  <2> QED
    BY <1>1, <1>2, <1>3, <1>4, <2>1, SameOrder
<1>9. Unread' = Unread /\ Within(pending)' = Within(pending) /\ Within(messages)' = Within(messages)
  BY <1>2 DEF Unread, Within, inputVars
<1>10. LinesInv'
  <2>1. asked \subseteq asked'
    BY <1>2
  <2> QED
    BY <1>1, <1>2, <1>9, <2>1 DEF LinesInv, inputVars, CompletedLast
<1>11. TurnsInv'
  <2>1. \A d \in ProcessCallers : Attended(d) => Attended(d)'
    BY <1>2, <1>3 DEF Attended, Faults, closeVars
  <2>2. \A d \in asked' : d \in asked \/ (d = c /\ Attended(d)')
    BY <1>1, <1>2, <1>3, <1>4 DEF Attended, ProcessTypeOK
  <2>3. Overlap' = Overlap /\ Faults' = Faults /\ child' = child /\ sent' = sent
    BY <1>2 DEF Overlap, Faults, closeVars
  <2>4. \A l \in Unread : Tells(l) => l.of \in ProcessCallers
    BY <1>1, Apart DEF LinesInv
  <2>5. SUFFICES ASSUME ~(Overlap /\ Faults)
                 PROVE  /\ \A d \in asked' \cap Turns : ~sent[d].completed => Attended(d)'
                        /\ \A l \in Unread : Tells(l) => Attended(l.of)'
                        /\ ~Faults => child # "exited" /\ \A l \in Unread : l.kind # "eof"
    BY <1>9, <2>3 DEF TurnsInv
  <2> QED
    BY <1>1, <2>1, <2>2, <2>4, <2>5, Apart DEF TurnsInv
<1>12. KeepsItsRun'
  BY <1>1, <1>2 DEF KeepsItsRun, Overlap, Faults, journalVars
<1> QED
  BY <1>5, <1>7, <1>8, <1>10, <1>11, <1>12 DEF ProcessInv

\* A caller that is inside leaves.
LEMMA LeaveControl ==
  ASSUME ProcessInv, NEW c \in ProcessCallers, at[c] \in {"asked", "turn"},
         NEW how \in {"failed", "done"}, Leave(c, how), UNCHANGED <<closeVars, mode>>
  PROVE  /\ Control' /\ Draining' = Draining
         /\ \A d \in ProcessCallers : at'[d] = IF d = c THEN how ELSE at[d]
         /\ at' \in [ProcessCallers -> Stages]
         /\ owner' = NoOne /\ context' = NoOne
<1>1. ProcessTypeOK /\ Control
  BY DEF ProcessInv
<1>2. /\ at' = [at EXCEPT ![c] = how] /\ owner' = NoOne /\ context' = NoOne
      /\ \A d \in ProcessCallers : at'[d] = IF d = c THEN how ELSE at[d]
      /\ at' \in [ProcessCallers -> Stages]
  BY <1>1 DEF Leave, ProcessTypeOK
<1>3. owner = c /\ \A d \in ProcessCallers : Inside(d) => d = c
  BY <1>1 DEF Control, OwnerInv, Inside
<1>4. OwnerInv'
  BY <1>1, <1>2, <1>3, Apart DEF Control, OwnerInv, Inside
<1>5. ContextInv'
  BY <1>2, <1>3, Apart DEF ContextInv, Inside
<1>6. ClosedInv'
  BY <1>1, <1>2 DEF Control, ClosedInv, closeVars
<1>7. ApartInv'
  BY <1>1, <1>2 DEF Control, ApartInv, Overlap
<1>8. Draining' = Draining
  BY <1>2 DEF Draining, closeVars
<1> QED
  BY <1>2, <1>4, <1>5, <1>6, <1>7, <1>8 DEF Control

LEMMA TimesOutStep ==
  ASSUME ProcessInv, NEW c \in ProcessCallers, TimesOut(c)
  PROVE  ProcessInv'
<1>1. ProcessTypeOK /\ Control /\ AcceptedInv /\ LinesInv /\ TurnsInv /\ KeepsItsRun
  BY DEF ProcessInv
<1>2. /\ Faults /\ at[c] \in {"asked", "turn"} /\ Leave(c, "failed")
      /\ UNCHANGED <<inputVars, journalVars, closeVars, mode, asked, sent>>
  BY DEF TimesOut, childVars
<1>3. /\ Control' /\ Draining' = Draining
      /\ \A d \in ProcessCallers : at'[d] = IF d = c THEN "failed" ELSE at[d]
      /\ at' \in [ProcessCallers -> Stages]
      /\ owner' = NoOne /\ context' = NoOne
  BY <1>2, LeaveControl
<1>4. ProcessTypeOK'
  BY <1>1, <1>2, <1>3 DEF ProcessTypeOK, inputVars, journalVars, closeVars
<1>5. AcceptedInv'
  BY <1>1, <1>2, <1>3, SameOrder
<1>6. LinesInv'
  BY <1>1, <1>2, SameLines
<1>7. \A d \in ProcessCallers : Attended(d) => Attended(d)'
  BY <1>2, <1>3 DEF Attended, Faults, closeVars
<1>8. TurnsInv'
  BY <1>1, <1>2, <1>7, Apart, SameTurns DEF closeVars
<1>9. KeepsItsRun'
  BY <1>1, <1>2 DEF KeepsItsRun, Overlap, Faults, journalVars
<1> QED
  BY <1>3, <1>4, <1>5, <1>6, <1>8, <1>9 DEF ProcessInv

LEMMA CloseBeginsStep ==
  ASSUME ProcessInv, NEW c \in ProcessCallers, CloseBegins(c)
  PROVE  ProcessInv'
<1>1. ProcessTypeOK /\ Control /\ AcceptedInv /\ LinesInv /\ TurnsInv /\ KeepsItsRun
  BY DEF ProcessInv
<1>2. /\ at[c] = "failed" \/ (c \in Closers /\ at[c] = "idle" /\ Free(c))
      /\ owner = NoOne
      /\ UNCHANGED <<context, inputVars, journalVars, stop, child, mode, asked, sent>>
      /\ \/ closed /\ at' = [at EXCEPT ![c] = "gone"] /\ UNCHANGED <<owner, closed>>
         \/ ~closed /\ at' = [at EXCEPT ![c] = "drain"] /\ owner' = c /\ closed' = TRUE
  BY DEF CloseBegins, childVars
<1>3. closed' = TRUE
  BY <1>1, <1>2 DEF ProcessTypeOK
<1>4. \A d \in ProcessCallers : at'[d] = IF d = c THEN at'[c] ELSE at[d]
  BY <1>1, <1>2 DEF ProcessTypeOK
<1>5. at'[c] = (IF closed THEN "gone" ELSE "drain")
  BY <1>1, <1>2 DEF ProcessTypeOK
<1>6. \A d \in ProcessCallers : ~Inside(d)
  BY <1>1, <1>2, Apart DEF Control, OwnerInv
<1>7. ProcessTypeOK'
  BY <1>1, <1>2, <1>3 DEF ProcessTypeOK, inputVars, journalVars
<1>8. Control'
  <2>1. OwnerInv'
    BY <1>1, <1>2, <1>4, <1>5, <1>6, Apart DEF Control, OwnerInv, Inside
  <2>2. ContextInv'
    BY <1>1, <1>2, <1>4, <1>5, <1>6, Apart DEF Control, ContextInv, Inside, ProcessTypeOK
  <2>3. ClosedInv'
    BY <1>1, <1>2, <1>3, <1>4, <1>5, <1>6 DEF Control, ClosedInv, Inside
  <2>4. ApartInv'
    BY <1>1, <1>2, <1>4 DEF Control, ApartInv, Free, Overlap
  <2> QED
    BY <2>1, <2>2, <2>3, <2>4 DEF Control
<1>9. AcceptedInv'
  <2>1. Draining' = Draining
    BY <1>2, <1>4, <1>5 DEF Draining
  <2> QED
    BY <1>1, <1>2, <1>4, <1>5, <2>1, SameOrder
<1>10. LinesInv'
  BY <1>1, <1>2, SameLines
<1>11. TurnsInv'
  BY <1>1, <1>2, <1>3, SameTurns DEF Attended
<1>12. KeepsItsRun'
  BY <1>1, <1>2 DEF KeepsItsRun, Overlap, Faults, journalVars
<1> QED
  BY <1>7, <1>8, <1>9, <1>10, <1>11, <1>12 DEF ProcessInv
\* A caller goes on to close what it has closed to others.
LEMMA ClosingControl ==
  ASSUME ProcessInv, NEW c \in ProcessCallers, NEW there \in {"sentinel", "join"},
         at[c] \in {"drain", "sentinel"}, at' = [at EXCEPT ![c] = there],
         UNCHANGED <<owner, context, closed, child, mode>>
  PROVE  /\ Control' /\ Draining' /\ closed
         /\ at' \in [ProcessCallers -> Stages]
         /\ \A d \in ProcessCallers : at'[d] = IF d = c THEN there ELSE at[d]
<1>1. ProcessTypeOK /\ Control
  BY DEF ProcessInv
<1>2. /\ \A d \in ProcessCallers : at'[d] = IF d = c THEN there ELSE at[d]
      /\ at' \in [ProcessCallers -> Stages]
  BY <1>1 DEF ProcessTypeOK
<1>3. OwnerInv'
  BY <1>1, <1>2 DEF Control, OwnerInv, Inside
<1>4. ContextInv'
  BY <1>1, <1>2, Apart DEF Control, ContextInv, ProcessTypeOK
<1>5. ClosedInv' /\ closed
  BY <1>1, <1>2 DEF Control, ClosedInv
<1>6. ApartInv'
  BY <1>1, <1>2 DEF Control, ApartInv, Overlap
<1>7. Draining'
  BY <1>2 DEF Draining
<1> QED
  BY <1>2, <1>3, <1>4, <1>5, <1>6, <1>7 DEF Control

LEMMA CloseDrainsStep ==
  ASSUME ProcessInv, NEW c \in ProcessCallers, CloseDrains(c)
  PROVE  ProcessInv'
<1>1. ProcessTypeOK /\ Control /\ AcceptedInv /\ LinesInv /\ TurnsInv /\ KeepsItsRun
  BY DEF ProcessInv
<1>2. /\ at[c] = "drain" /\ publications = <<>> /\ publisher # "append"
      /\ stop' = TRUE /\ at' = [at EXCEPT ![c] = "sentinel"]
      /\ UNCHANGED <<owner, context, inputVars, journalVars, closed, child, mode, asked, sent>>
  BY DEF CloseDrains, Drained, childVars
<1>3. /\ Control' /\ Draining' /\ closed
      /\ at' \in [ProcessCallers -> Stages]
      /\ \A d \in ProcessCallers : at'[d] = IF d = c THEN "sentinel" ELSE at[d]
  BY <1>2, ClosingControl
<1>4. ProcessTypeOK'
  BY <1>1, <1>2, <1>3 DEF ProcessTypeOK, inputVars, journalVars
<1>5. AcceptedInv'
  <2>1. Len(publications) = 0 /\ Handed = 0
    BY <1>2 DEF Handed
  <2>2. ~Draining
    BY <1>1, <1>2 DEF Draining, Control, ClosedInv, OwnerInv, Inside
  <2>3. Len(accepted) = Len(journal)
    BY <1>1, <2>1, <2>2 DEF AcceptedInv, ProcessTypeOK
  <2> QED
    BY <1>1, <1>2, <1>3, <2>3 DEF AcceptedInv, journalVars
<1>6. LinesInv'
  BY <1>1, <1>2, SameLines
<1>7. TurnsInv'
  BY <1>1, <1>2, <1>3, SameTurns DEF Attended
<1>8. KeepsItsRun'
  BY <1>1, <1>2 DEF KeepsItsRun, Overlap, Faults, journalVars
<1> QED
  BY <1>3, <1>4, <1>5, <1>6, <1>7, <1>8 DEF ProcessInv

LEMMA ClosePutsSentinelStep ==
  ASSUME ProcessInv, NEW c \in ProcessCallers, ClosePutsSentinel(c)
  PROVE  ProcessInv'
<1>1. ProcessTypeOK /\ Control /\ AcceptedInv /\ LinesInv /\ TurnsInv /\ KeepsItsRun
  BY DEF ProcessInv
<1>2. /\ at[c] = "sentinel" /\ at' = [at EXCEPT ![c] = "join"]
      /\ publications' = Append(publications, Sentinel)
      /\ UNCHANGED <<owner, context, inputVars, publisher, holding, journal, accepted, closeVars, mode, asked, sent>>
  BY DEF ClosePutsSentinel, childVars
<1>3. /\ Control' /\ Draining' /\ closed
      /\ at' \in [ProcessCallers -> Stages]
      /\ \A d \in ProcessCallers : at'[d] = IF d = c THEN "join" ELSE at[d]
  BY <1>2, ClosingControl DEF closeVars
<1>4. Draining /\ publications = <<>>
  BY <1>1, <1>2 DEF Draining, AcceptedInv
<1>5. publications' = <<Sentinel>> /\ Sentinel \in Entries
  BY <1>2, <1>4, ProcessAssumption DEF Sentinel, Entries
<1>6. ProcessTypeOK'
  <2>1. publications' \in Seq(Entries) /\ Len(publications') <= QueueSize
    BY <1>5, ProcessAssumption
  <2> QED
    BY <1>1, <1>2, <1>3, <2>1 DEF ProcessTypeOK, inputVars, closeVars
<1>7. AcceptedInv'
  <2>1. \A d \in ProcessCallers : at'[d] # "sentinel"
    BY <1>1, <1>2, <1>3 DEF Control, OwnerInv, Inside
  <2> QED
    BY <1>1, <1>2, <1>3, <1>4, <1>5, <2>1 DEF AcceptedInv
<1>8. LinesInv'
  BY <1>1, <1>2, SameLines
<1>9. TurnsInv'
  BY <1>1, <1>2, <1>3, SameTurns DEF Attended, closeVars
<1>10. KeepsItsRun'
  BY <1>1, <1>2 DEF KeepsItsRun, Overlap, Faults
<1> QED
  BY <1>3, <1>6, <1>7, <1>8, <1>9, <1>10 DEF ProcessInv

LEMMA CloseStopsChildStep ==
  ASSUME ProcessInv, NEW c \in ProcessCallers, CloseStopsChild(c)
  PROVE  ProcessInv'
<1>1. ProcessTypeOK /\ Control /\ AcceptedInv /\ LinesInv /\ TurnsInv /\ KeepsItsRun
  BY DEF ProcessInv
<1>2. /\ at[c] = "join" /\ at' = [at EXCEPT ![c] = "gone"] /\ owner' = NoOne /\ child' = "stopped"
      /\ UNCHANGED <<context, inputVars, journalVars, stop, closed, mode, asked, sent>>
  BY DEF CloseStopsChild, childVars
<1>3. /\ at' \in [ProcessCallers -> Stages]
      /\ \A d \in ProcessCallers : at'[d] = IF d = c THEN "gone" ELSE at[d]
  BY <1>1, <1>2 DEF ProcessTypeOK
<1>4. owner = c /\ (\A d \in ProcessCallers : Inside(d) => d = c) /\ closed /\ Draining
  BY <1>1, <1>2 DEF Control, OwnerInv, ClosedInv, Inside, Draining
<1>5. ProcessTypeOK'
  BY <1>1, <1>2, <1>3 DEF ProcessTypeOK, inputVars, journalVars
<1>6. Control'
  <2>1. OwnerInv'
    BY <1>1, <1>2, <1>3, <1>4, Apart DEF Control, OwnerInv, Inside
  <2>2. ContextInv'
    BY <1>1, <1>2, <1>3, <1>4, Apart DEF Control, ContextInv, Inside, ProcessTypeOK
  <2>3. ClosedInv'
    BY <1>1, <1>2, <1>3, <1>4 DEF Control, ClosedInv, Inside
  <2>4. ApartInv'
    BY <1>1, <1>2, <1>3 DEF Control, ApartInv, Overlap
  <2> QED
    BY <2>1, <2>2, <2>3, <2>4 DEF Control
<1>7. AcceptedInv'
  <2>1. Draining' = Draining
    BY <1>2, <1>4 DEF Draining
  <2> QED
    BY <1>1, <1>2, <1>3, <2>1, SameOrder
<1>8. LinesInv'
  BY <1>1, <1>2, SameLines
<1>9. TurnsInv'
  BY <1>1, <1>2, <1>4, SameTurns DEF Attended
<1>10. KeepsItsRun'
  BY <1>1, <1>2 DEF KeepsItsRun, Overlap, Faults, journalVars
<1> QED
  BY <1>5, <1>6, <1>7, <1>8, <1>9, <1>10 DEF ProcessInv

-----------------------------------------------------------------------------
(* The publisher                                                             *)

LEMMA PublisherStep ==
  ASSUME ProcessInv, Publisher
  PROVE  ProcessInv'
<1>1. ProcessTypeOK /\ Control /\ AcceptedInv /\ LinesInv /\ TurnsInv /\ KeepsItsRun
  BY DEF ProcessInv
<1>2. UNCHANGED <<callVars, inputVars, accepted, closeVars, mode, asked, sent>>
  BY DEF Publisher, PublisherTakes, PublisherWaitsInVain, PublisherTestsStop, PublisherAppends,
     childVars
<1>3. Control'
  BY <1>1, <1>2, SameControl
<1>4. LinesInv'
  BY <1>1, <1>2, SameLines
<1>5. TurnsInv'
  BY <1>1, <1>2, SameTurns DEF Attended, Faults, callVars, closeVars
<1>6. KeepsItsRun'
  BY <1>1, <1>2 DEF KeepsItsRun, Overlap, Faults
<1>7. Draining' = Draining /\ at' = at
  BY <1>2 DEF Draining, callVars, closeVars
<1>8. Len(journal) \in Nat /\ Len(accepted) \in Nat /\ Len(publications) \in Nat /\ Handed \in Nat
  BY <1>1 DEF ProcessTypeOK, Handed
<1>9. Sentinel \in Entries /\ Sentinel.run = NoOne
  BY ProcessAssumption DEF Sentinel, Entries
<1>10. ProcessTypeOK' /\ AcceptedInv'
  <2>1. CASE PublisherWaitsInVain \/ PublisherTestsStop
    <3>1. /\ UNCHANGED <<publications, holding, journal>>
          /\ publisher # "append" /\ publisher' \in {"get", "empty", "ended"}
      BY <2>1 DEF PublisherWaitsInVain, PublisherTestsStop
    <3>2. ProcessTypeOK'
      BY <1>1, <1>2, <3>1 DEF ProcessTypeOK, callVars, inputVars, closeVars
    <3> QED
      BY <1>1, <1>2, <1>7, <3>1, <3>2 DEF AcceptedInv, Handed
  <2>2. CASE PublisherTakes
    <3> DEFINE t == Tail(publications)
    <3>1. /\ publisher = "get" /\ publications # <<>> /\ publications' = t /\ UNCHANGED journal
          /\ \/ Head(publications) = Sentinel /\ publisher' = "ended" /\ UNCHANGED holding
             \/ Head(publications) # Sentinel /\ publisher' = "append" /\ holding' = Head(publications)
      BY <2>2 DEF PublisherTakes
    <3>2. /\ t \in Seq(Entries) /\ Head(publications) \in Entries /\ Head(publications) = publications[1]
          /\ Len(publications) \in Nat \ {0} /\ Len(t) = Len(publications) - 1
          /\ \A i \in 1..Len(t) : t[i] = publications[i + 1]
      BY <1>1, <3>1, TailLine DEF ProcessTypeOK
    <3>3. ProcessTypeOK'
      <4>1. Len(t) <= QueueSize /\ QueueSize \in Nat
        BY <1>1, <3>2, ProcessAssumption DEF ProcessTypeOK
      <4> QED
        BY <1>1, <1>2, <3>1, <3>2, <4>1 DEF ProcessTypeOK, callVars, inputVars, closeVars
    <3>4. CASE Draining
      <4>1. publications = <<Sentinel>>
        BY <1>1, <3>1, <3>4 DEF AcceptedInv
      <4>2. t = <<>> /\ Head(publications) = Sentinel
        BY <4>1
      <4>3. publications' = <<>> /\ publisher' = "ended" /\ journal' = journal /\ accepted' = accepted
        BY <1>2, <3>1, <4>2
      <4> QED
        BY <1>1, <1>7, <3>3, <3>4, <4>3 DEF AcceptedInv
    <3>5. CASE ~Draining
      <4>1. /\ Len(accepted) = Len(journal) + Len(publications) /\ Handed = 0
            /\ \A i \in 1..Len(publications) : publications[i] = accepted[Len(journal) + i]
        BY <1>1, <1>8, <3>1, <3>5 DEF AcceptedInv, Handed
      <4>2. 1 \in 1..Len(publications) /\ Len(journal) + 1 \in 1..Len(accepted)
        BY <1>8, <3>2, <4>1
      <4>3. Head(publications) = accepted[Len(journal) + 1] /\ Head(publications) # Sentinel
        BY <1>1, <1>9, <3>2, <4>1, <4>2 DEF AcceptedInv
      <4>4. publisher' = "append" /\ holding' = accepted[Len(journal) + 1] /\ Handed' = 1
        BY <3>1, <4>3 DEF Handed
      <4>5. Len(accepted) = Len(journal) + 1 + Len(t)
        BY <1>8, <3>2, <4>1
      <4>6. \A i \in 1..Len(t) : t[i] = accepted[Len(journal) + 1 + i]
        <5> SUFFICES ASSUME NEW i \in 1..Len(t) PROVE t[i] = accepted[Len(journal) + 1 + i]
          OBVIOUS
        <5>1. i + 1 \in 1..Len(publications) /\ Len(journal) + (i + 1) = Len(journal) + 1 + i
          BY <1>8, <3>2
        <5> QED
          BY <3>2, <4>1, <5>1
      <4>7. publications' = t /\ journal' = journal /\ accepted' = accepted
        BY <1>2, <3>1
      <4> HIDE DEF t
      <4>8. /\ Len(accepted') = Len(journal') + Handed' + Len(publications')
            /\ \A i \in 1..Len(publications') : publications'[i] = accepted'[Len(journal') + Handed' + i]
        BY <4>4, <4>5, <4>6, <4>7
      <4> QED
        BY <1>1, <1>7, <3>3, <3>5, <4>4, <4>7, <4>8 DEF AcceptedInv
    <3> QED
      BY <3>3, <3>4, <3>5
  <2>3. ASSUME NEW written \in BOOLEAN, PublisherAppends(written)
        PROVE  ProcessTypeOK' /\ AcceptedInv'
    <3> DEFINE rec == [entry |-> holding, written |-> written]
               J == [entry : Entries, written : BOOLEAN]
    <3>1. /\ publisher = "append" /\ journal' = Append(journal, rec) /\ publisher' = "get"
          /\ holding' = Sentinel /\ UNCHANGED publications
      BY <2>3 DEF PublisherAppends
    <3>2. rec \in J /\ rec.entry = holding /\ journal \in Seq(J)
      BY <1>1 DEF ProcessTypeOK
    <3>3. /\ journal' \in Seq(J) /\ Len(journal') = Len(journal) + 1 /\ journal'[Len(journal) + 1] = rec
          /\ \A i \in 1..Len(journal) : journal'[i] = journal[i]
      BY <3>1, <3>2
    <3>4. ProcessTypeOK'
      BY <1>1, <1>2, <1>9, <3>1, <3>3 DEF ProcessTypeOK, callVars, inputVars, closeVars
    <3>5. ~Draining
      BY <1>1, <3>1 DEF AcceptedInv
    <3>6. /\ Len(accepted) = Len(journal) + 1 + Len(publications) /\ holding = accepted[Len(journal) + 1]
          /\ \A i \in 1..Len(publications) : publications[i] = accepted[Len(journal) + 1 + i]
      BY <1>1, <3>1, <3>5 DEF AcceptedInv, Handed
    <3>7. \A i \in 1..Len(journal') : i <= Len(accepted) /\ journal'[i].entry = accepted[i]
      <4> HIDE DEF rec
      <4> SUFFICES ASSUME NEW i \in 1..Len(journal') PROVE i <= Len(accepted) /\ journal'[i].entry = accepted[i]
        OBVIOUS
      <4>1. i \in 1..Len(journal) \/ i = Len(journal) + 1
        BY <1>8, <3>3
      <4> QED
        BY <1>1, <1>8, <3>2, <3>3, <3>6, <4>1 DEF AcceptedInv
    <3>8. Handed' = 0 /\ Len(journal') + 0 = Len(journal) + 1
      BY <1>8, <3>1, <3>3 DEF Handed
    <3>9. /\ Len(accepted) = Len(journal') + Handed' + Len(publications)
          /\ \A i \in 1..Len(publications) : publications[i] = accepted[Len(journal') + Handed' + i]
      BY <1>8, <3>6, <3>8
    <3> QED
      BY <1>1, <1>2, <1>7, <3>1, <3>4, <3>5, <3>7, <3>9 DEF AcceptedInv
  <2> QED
    BY <2>1, <2>2, <2>3 DEF Publisher
<1> QED
  BY <1>3, <1>4, <1>5, <1>6, <1>10 DEF ProcessInv
-----------------------------------------------------------------------------
(* Reading                                                                   *)

\* Lines have been taken away or moved.
LEMMA FewerTurns ==
  ASSUME LinesInv, TurnsInv, Unread' \subseteq Unread, UNCHANGED <<asked, sent, mode, child>>,
         ~(Overlap /\ Faults) =>
           \A c \in Turns : Attended(c) =>
             \/ Attended(c)'
             \/ sent[c].completed /\ \A l \in Unread' : Tells(l) => l.of # c
  PROVE  TurnsInv'
<1>1. Overlap' = Overlap /\ Faults' = Faults
  BY DEF Overlap, Faults
<1> SUFFICES ASSUME ~(Overlap /\ Faults)
             PROVE  /\ \A c \in asked \cap Turns : ~sent[c].completed => Attended(c)'
                    /\ \A l \in Unread' : Tells(l) => Attended(l.of)'
                    /\ ~Faults => child # "exited" /\ \A l \in Unread' : l.kind # "eof"
  BY <1>1 DEF TurnsInv
<1> QED
  BY DEF LinesInv, TurnsInv

\* A line is read from the queue of the reader thread, and is over.
LEMMA MessageRead ==
  ASSUME ProcessTypeOK, LinesInv, messages # <<>>, messages' = Tail(messages),
         UNCHANGED <<pending, asked, sent>>
  PROVE  /\ LinesInv' /\ Unread' \subseteq Unread
         /\ messages' \in Seq(Lines) /\ pending' \in Seq(Lines)
         /\ Head(messages) \in Lines /\ Head(messages) \in Unread
         /\ Head(messages).kind = "completed" /\ pending = <<>> =>
              \A l \in Unread' : Tells(l) => l.of # Head(messages).of
<1>1. /\ Tail(messages) \in Seq(Lines) /\ Head(messages) \in Lines
      /\ Within(messages) = {Head(messages)} \cup Within(Tail(messages))
  BY TailLine DEF ProcessTypeOK
<1>2. /\ CompletedLast(Tail(messages))
      /\ Head(messages).kind = "completed" =>
           \A l \in Within(Tail(messages)) : Tells(l) => l.of # Head(messages).of
  BY LastTail DEF ProcessTypeOK, LinesInv
<1>3. /\ Within(messages)' = Within(Tail(messages)) /\ Within(pending)' = Within(pending)
      /\ CompletedLast(messages)' /\ CompletedLast(pending)'
  BY <1>2 DEF Within, CompletedLast, LinesInv
<1>4. pending = <<>> => Within(pending) = {}
  BY DEF Within
<1>5. Unread' \subseteq Unread /\ Head(messages) \in Unread
  BY <1>1, <1>3 DEF Unread
<1>6. LinesInv'
  BY <1>1, <1>3, <1>5 DEF LinesInv
<1> QED
  BY <1>1, <1>2, <1>3, <1>4, <1>5, <1>6 DEF Unread, ProcessTypeOK

\* A line is read from there and kept for later.
LEMMA MessageKept ==
  ASSUME ProcessTypeOK, LinesInv, messages # <<>>, messages' = Tail(messages),
         pending' = Append(pending, Head(messages)),
         UNCHANGED <<asked, sent>>
  PROVE  /\ LinesInv' /\ Unread' \subseteq Unread
         /\ messages' \in Seq(Lines) /\ pending' \in Seq(Lines)
         /\ Head(messages) \in Lines /\ Head(messages) \in Unread
<1> DEFINE m == Head(messages)
<1>1. /\ Tail(messages) \in Seq(Lines) /\ m \in Lines
      /\ Within(messages) = {m} \cup Within(Tail(messages))
  BY TailLine DEF ProcessTypeOK
<1>2. /\ CompletedLast(Tail(messages))
      /\ m.kind = "completed" => \A l \in Within(Tail(messages)) : Tells(l) => l.of # m.of
  BY LastTail DEF ProcessTypeOK, LinesInv
<1>3. /\ Append(pending, m) \in Seq(Lines)
      /\ Within(Append(pending, m)) = Within(pending) \cup {m}
  BY <1>1, AppendLine DEF ProcessTypeOK
<1>4. Tells(m) => \A l \in Within(pending) : l.kind = "completed" => l.of # m.of
  BY <1>1 DEF LinesInv
<1>5. CompletedLast(Append(pending, m))
  BY <1>1, <1>4, LastAppended DEF ProcessTypeOK, LinesInv
<1>6. /\ Within(messages)' = Within(Tail(messages)) /\ Within(pending)' = Within(pending) \cup {m}
      /\ CompletedLast(messages)' /\ CompletedLast(pending)'
  BY <1>2, <1>3, <1>5 DEF Within, CompletedLast
<1>7. Unread' = Unread /\ m \in Unread
  BY <1>1, <1>6 DEF Unread
<1>8. \A l \in Within(pending)', k \in Within(messages)' :
        l.kind = "completed" /\ Tells(k) => l.of # k.of
  BY <1>1, <1>2, <1>6 DEF LinesInv
<1>9. LinesInv'
  BY <1>6, <1>7, <1>8 DEF LinesInv
<1> QED
  BY <1>1, <1>3, <1>7, <1>9

\* A line that was kept is read, and is over.
LEMMA KeptRead ==
  ASSUME ProcessTypeOK, LinesInv, pending # <<>>, pending' = Tail(pending),
         UNCHANGED <<messages, asked, sent>>
  PROVE  /\ LinesInv' /\ Unread' \subseteq Unread
         /\ messages' \in Seq(Lines) /\ pending' \in Seq(Lines)
         /\ Head(pending) \in Lines /\ Head(pending) \in Unread
         /\ Head(pending).kind = "completed" =>
              \A l \in Unread' : Tells(l) => l.of # Head(pending).of
<1>1. /\ Tail(pending) \in Seq(Lines) /\ Head(pending) \in Lines
      /\ Within(pending) = {Head(pending)} \cup Within(Tail(pending))
  BY TailLine DEF ProcessTypeOK
<1>2. /\ CompletedLast(Tail(pending))
      /\ Head(pending).kind = "completed" =>
           \A l \in Within(Tail(pending)) : Tells(l) => l.of # Head(pending).of
  BY LastTail DEF ProcessTypeOK, LinesInv
<1>3. /\ Within(pending)' = Within(Tail(pending)) /\ Within(messages)' = Within(messages)
      /\ CompletedLast(messages)' /\ CompletedLast(pending)'
  BY <1>2 DEF Within, CompletedLast, LinesInv
<1>4. Unread' \subseteq Unread /\ Head(pending) \in Unread
  BY <1>1, <1>3 DEF Unread
<1>5. LinesInv'
  BY <1>1, <1>3, <1>4 DEF LinesInv
<1>6. Head(pending).kind = "completed" =>
        \A l \in Unread' : Tells(l) => l.of # Head(pending).of
  <2>1. Head(pending) \in Within(pending)
    BY <1>1
  <2> QED
    BY <1>2, <1>3, <2>1 DEF Unread, LinesInv
<1> QED
  BY <1>1, <1>4, <1>5, <1>6 DEF ProcessTypeOK

\* A response that was kept is read and kept again.
LEMMA KeptAgain ==
  ASSUME ProcessTypeOK, LinesInv, pending # <<>>, Head(pending).kind = "response",
         pending' = Append(Tail(pending), Head(pending)),
         UNCHANGED <<messages, asked, sent>>
  PROVE  /\ LinesInv' /\ Unread' \subseteq Unread
         /\ messages' \in Seq(Lines) /\ pending' \in Seq(Lines)
<1> DEFINE m == Head(pending)
           t == Tail(pending)
<1>1. t \in Seq(Lines) /\ m \in Lines /\ Within(pending) = {m} \cup Within(t)
  BY TailLine DEF ProcessTypeOK
<1>2. CompletedLast(t) /\ ~Tells(m)
  BY LastTail DEF ProcessTypeOK, LinesInv, Tells
<1>3. Append(t, m) \in Seq(Lines) /\ Within(Append(t, m)) = Within(t) \cup {m}
  <2> HIDE DEF t, m
  <2> QED
    BY <1>1, AppendLine
<1>4. CompletedLast(Append(t, m))
  <2> HIDE DEF t, m
  <2> QED
    BY <1>1, <1>2, LastAppended
<1>5. /\ Within(messages)' = Within(messages) /\ Within(pending)' = Within(pending)
      /\ CompletedLast(messages)' /\ CompletedLast(pending)'
  <2> DEFINE p == Append(t, m)
  <2>1. pending' = p /\ UNCHANGED messages
    OBVIOUS
  <2> HIDE DEF p
  <2>2. Within(messages)' = Within(messages) /\ Within(pending)' = Within(p)
    BY <2>1 DEF Within
  <2>3. CompletedLast(messages)' /\ (CompletedLast(p) => CompletedLast(pending)')
    BY <2>1 DEF CompletedLast, LinesInv
  <2> QED
    BY <1>1, <1>3, <1>4, <2>2, <2>3 DEF p
<1>6. Unread' = Unread
  BY <1>5 DEF Unread
<1>7. LinesInv'
  BY <1>5, <1>6 DEF LinesInv
<1> QED
  BY <1>3, <1>6, <1>7 DEF ProcessTypeOK

\* What a caller inside reads it publishes for the turn it is of.
LEMMA PublishFacts ==
  ASSUME ProcessInv, NEW c \in ProcessCallers, at[c] \in {"asked", "turn"},
         NEW m \in Unread, m \in Lines, m.kind # "eof", Publish(m), UNCHANGED mode,
         Draining' = Draining
  PROVE  /\ AcceptedInv' /\ KeepsItsRun'
         /\ publications' \in Seq(Entries) /\ Len(publications') <= QueueSize
         /\ accepted' \in Seq(Entries) /\ UNCHANGED <<publisher, holding, journal>>
<1> DEFINE entry == [of |-> m.of, note |-> m.note, run |-> context]
           room == m.kind # "response" /\ context # NoOne /\ Len(publications) < QueueSize
<1>1. ProcessTypeOK /\ Control /\ AcceptedInv /\ LinesInv /\ TurnsInv /\ KeepsItsRun
  BY DEF ProcessInv
<1>2. /\ publications' = (IF room THEN Append(publications, entry) ELSE publications)
      /\ accepted' = (IF room THEN Append(accepted, entry) ELSE accepted)
      /\ UNCHANGED <<publisher, holding, journal>>
  BY DEF Publish
<1>3. ~Draining
  BY <1>1 DEF Draining, Control, OwnerInv, ClosedInv, Inside
<1>4. /\ Len(journal) \in Nat /\ Len(accepted) \in Nat /\ Len(publications) \in Nat
      /\ Handed \in Nat /\ Handed' = Handed /\ QueueSize \in Nat
  BY <1>1, <1>2, ProcessAssumption DEF ProcessTypeOK, Handed
<1>5. CASE ~room
  <2>1. UNCHANGED <<publications, accepted>>
    BY <1>2, <1>5
  <2> HIDE DEF entry, room
  <2>2. AcceptedInv'
    BY <1>1, <1>2, <1>3, <1>4, <2>1 DEF AcceptedInv
  <2>3. KeepsItsRun'
    BY <1>1, <2>1 DEF KeepsItsRun, Overlap, Faults
  <2> QED
    BY <1>1, <1>2, <2>1, <2>2, <2>3 DEF ProcessTypeOK
<1>6. CASE room
  <2>1. Tells(m) /\ m.of \in Turns /\ context \in Turns
    BY <1>1, <1>6 DEF Lines, Tells, LinesInv, ProcessTypeOK
  <2>2. entry \in Entries /\ entry.run = context /\ entry.of = m.of
    BY <2>1 DEF Entries, Lines
  <2>3. ~(Overlap /\ Faults) => m.of = context
    <3> SUFFICES ASSUME ~(Overlap /\ Faults) PROVE m.of = context
      OBVIOUS
    <3>1. Attended(m.of) /\ ~closed
      BY <1>1, <2>1 DEF TurnsInv, Control, ClosedInv
    <3>2. at[m.of] # "failed" \/ ~Faults
      BY <1>1, <2>1, Apart DEF Control, ApartInv
    <3>3. at[m.of] \in {"asked", "turn"}
      BY <3>1, <3>2 DEF Attended
    <3> QED
      BY <1>1, <2>1, <3>3 DEF Control, ContextInv
  <2> HIDE DEF entry
  <2>4. /\ publications' = Append(publications, entry) /\ accepted' = Append(accepted, entry)
        /\ Len(publications) < QueueSize
    BY <1>2, <1>6
  <2> HIDE DEF room
  <2>5. /\ publications' \in Seq(Entries) /\ Len(publications') = Len(publications) + 1
        /\ publications'[Len(publications) + 1] = entry
        /\ \A i \in 1..Len(publications) : publications'[i] = publications[i]
    BY <1>1, <2>2, <2>4 DEF ProcessTypeOK
  <2>6. /\ accepted' \in Seq(Entries) /\ Len(accepted') = Len(accepted) + 1
        /\ accepted'[Len(accepted) + 1] = entry
        /\ \A i \in 1..Len(accepted) : accepted'[i] = accepted[i]
    BY <1>1, <2>2, <2>4 DEF ProcessTypeOK
  <2>7. \A i \in 1..Len(accepted') : i \in 1..Len(accepted) \/ i = Len(accepted) + 1
    BY <1>4, <2>6
  <2>8. KeepsItsRun'
    BY <1>1, <2>2, <2>3, <2>6, <2>7 DEF KeepsItsRun, Overlap, Faults
  <2>9. /\ Len(accepted) = Len(journal) + Handed + Len(publications)
        /\ publisher = "append" => holding = accepted[Len(journal) + 1] /\ Handed = 1
        /\ \A i \in 1..Len(publications) : publications[i] = accepted[Len(journal) + Handed + i]
    BY <1>1, <1>3 DEF AcceptedInv, Handed
  <2>10. /\ \A i \in 1..Len(accepted') : accepted'[i].run # NoOne
         /\ \A i \in 1..Len(journal) : i <= Len(accepted') /\ journal[i].entry = accepted'[i]
    <3>1. \A i \in 1..Len(accepted') : accepted'[i].run # NoOne
      BY <1>1, <2>1, <2>2, <2>6, <2>7, Apart DEF AcceptedInv
    <3>2. \A i \in 1..Len(journal) : i \in 1..Len(accepted) /\ journal[i].entry = accepted[i]
      BY <1>1, <1>4 DEF AcceptedInv
    <3> QED
      BY <1>4, <2>6, <3>1, <3>2
  <2>11. Len(accepted') = Len(journal) + Handed + Len(publications')
    BY <1>4, <2>5, <2>6, <2>9
  <2>12. publisher = "append" => holding = accepted'[Len(journal) + 1]
    <3> SUFFICES ASSUME publisher = "append" PROVE holding = accepted'[Len(journal) + 1]
      OBVIOUS
    <3>1. Len(journal) + 1 \in 1..Len(accepted)
      BY <1>4, <2>9
    <3> QED
      BY <2>6, <2>9, <3>1
  <2>13. \A i \in 1..Len(publications') : publications'[i] = accepted'[Len(journal) + Handed + i]
    <3> SUFFICES ASSUME NEW i \in 1..Len(publications')
                 PROVE  publications'[i] = accepted'[Len(journal) + Handed + i]
      OBVIOUS
    <3>1. CASE i = Len(publications) + 1
      <4>1. Len(journal) + Handed + i = Len(accepted) + 1
        BY <1>4, <2>9, <3>1
      <4> QED
        BY <2>5, <2>6, <3>1, <4>1
    <3>2. CASE i \in 1..Len(publications)
      <4>1. Len(journal) + Handed + i \in 1..Len(accepted)
        BY <1>4, <2>9, <3>2
      <4> QED
        BY <2>5, <2>6, <2>9, <3>2, <4>1
    <3> QED
      BY <1>4, <2>5, <3>1, <3>2
  <2>14. AcceptedInv'
    BY <1>2, <1>3, <1>4, <2>10, <2>11, <2>12, <2>13 DEF AcceptedInv
  <2>15. Len(publications') <= QueueSize
    BY <1>4, <2>4, <2>5
  <2> QED
    BY <1>2, <2>5, <2>6, <2>8, <2>14, <2>15
<1> QED
  BY <1>5, <1>6
LEMMA ReadResponseStep ==
  ASSUME ProcessInv, NEW c \in ProcessCallers, ReadResponse(c)
  PROVE  ProcessInv'
<1> DEFINE m == Head(messages)
<1>1. ProcessTypeOK /\ Control /\ AcceptedInv /\ LinesInv /\ TurnsInv /\ KeepsItsRun
  BY DEF ProcessInv
<1>2. /\ at[c] = "asked" /\ messages # <<>> /\ messages' = Tail(messages)
      /\ UNCHANGED <<closeVars, mode, asked, sent>>
      /\ \/ m.kind = "eof" /\ Leave(c, "failed") /\ UNCHANGED <<pending, journalVars>>
         \/ /\ c \in Turns /\ at' = [at EXCEPT ![c] = "turn"]
            /\ UNCHANGED <<owner, context, pending, journalVars>>
         \/ c \notin Turns /\ Leave(c, "done") /\ UNCHANGED <<pending, journalVars>>
         \/ /\ m.kind # "eof" /\ Publish(m) /\ pending' = Append(pending, m) /\ UNCHANGED callVars
  BY DEF ReadResponse, childVars
<1>3. child' = child /\ closed' = closed /\ mode' = mode /\ sent' = sent /\ asked' = asked
  BY <1>2 DEF closeVars
<1>4. CASE m.kind = "eof" /\ Leave(c, "failed") /\ UNCHANGED <<pending, journalVars>>
  <2>1. LinesInv' /\ Unread' \subseteq Unread /\ messages' \in Seq(Lines) /\ pending' \in Seq(Lines) /\ m \in Unread
    BY <1>1, <1>2, <1>4, MessageRead
  <2>2. /\ Control' /\ Draining' = Draining
        /\ \A d \in ProcessCallers : at'[d] = IF d = c THEN "failed" ELSE at[d]
        /\ at' \in [ProcessCallers -> Stages]
        /\ owner' = NoOne /\ context' = NoOne
    BY <1>2, <1>4, LeaveControl
  <2>3. ~(Overlap /\ Faults) => Faults
    BY <1>1, <1>4, <2>1 DEF TurnsInv
  <2>4. TurnsInv'
    BY <1>1, <1>2, <1>3, <2>1, <2>2, <2>3, Apart, FewerTurns DEF Attended, Faults
  <2>5. ProcessTypeOK'
    BY <1>1, <1>2, <1>4, <2>1, <2>2 DEF ProcessTypeOK, journalVars, closeVars
  <2>6. AcceptedInv' /\ KeepsItsRun'
    BY <1>1, <1>2, <1>3, <1>4, <2>2, SameOrder DEF KeepsItsRun, Overlap, Faults, journalVars
  <2> QED
    BY <2>1, <2>2, <2>4, <2>5, <2>6 DEF ProcessInv
<1>5. CASE /\ c \in Turns /\ at' = [at EXCEPT ![c] = "turn"]
           /\ UNCHANGED <<owner, context, pending, journalVars>>
  <2>1. LinesInv' /\ Unread' \subseteq Unread /\ messages' \in Seq(Lines) /\ pending' \in Seq(Lines)
    BY <1>1, <1>2, <1>5, MessageRead
  <2>2. /\ \A d \in ProcessCallers : at'[d] = IF d = c THEN "turn" ELSE at[d]
        /\ at' \in [ProcessCallers -> Stages]
    BY <1>1, <1>5 DEF ProcessTypeOK
  <2>3. Control'
    <3>1. OwnerInv'
      BY <1>1, <1>2, <1>5, <2>2 DEF Control, OwnerInv, Inside
    <3>2. ContextInv'
      BY <1>1, <1>2, <1>5, <2>2, Apart DEF Control, ContextInv, ProcessTypeOK
    <3>3. ClosedInv' /\ ApartInv'
      BY <1>1, <1>2, <1>3, <2>2 DEF Control, ClosedInv, ApartInv, Overlap
    <3> QED
      BY <3>1, <3>2, <3>3 DEF Control
  <2>4. Draining' = Draining
    BY <1>2, <1>3, <2>2 DEF Draining
  <2>5. TurnsInv'
    BY <1>1, <1>2, <1>3, <2>1, <2>2, Apart, FewerTurns DEF Attended, Faults
  <2>6. ProcessTypeOK'
    BY <1>1, <1>2, <1>5, <2>1, <2>2 DEF ProcessTypeOK, journalVars, closeVars
  <2>7. AcceptedInv' /\ KeepsItsRun'
    BY <1>1, <1>2, <1>3, <1>5, <2>2, <2>4, SameOrder DEF KeepsItsRun, Overlap, Faults, journalVars
  <2> QED
    BY <2>1, <2>3, <2>5, <2>6, <2>7 DEF ProcessInv
<1>6. CASE c \notin Turns /\ Leave(c, "done") /\ UNCHANGED <<pending, journalVars>>
  <2>1. LinesInv' /\ Unread' \subseteq Unread /\ messages' \in Seq(Lines) /\ pending' \in Seq(Lines)
    BY <1>1, <1>2, <1>6, MessageRead
  <2>2. /\ Control' /\ Draining' = Draining
        /\ \A d \in ProcessCallers : at'[d] = IF d = c THEN "done" ELSE at[d]
        /\ at' \in [ProcessCallers -> Stages]
        /\ owner' = NoOne /\ context' = NoOne
    BY <1>2, <1>6, LeaveControl
  <2>3. TurnsInv'
    BY <1>1, <1>2, <1>3, <1>6, <2>1, <2>2, Apart, FewerTurns DEF Attended, Faults
  <2>4. ProcessTypeOK'
    BY <1>1, <1>2, <1>6, <2>1, <2>2 DEF ProcessTypeOK, journalVars, closeVars
  <2>5. AcceptedInv' /\ KeepsItsRun'
    BY <1>1, <1>2, <1>3, <1>6, <2>2, SameOrder DEF KeepsItsRun, Overlap, Faults, journalVars
  <2> QED
    BY <2>1, <2>2, <2>3, <2>4, <2>5 DEF ProcessInv
<1>7. CASE m.kind # "eof" /\ Publish(m) /\ pending' = Append(pending, m) /\ UNCHANGED callVars
  <2>1. /\ LinesInv' /\ Unread' \subseteq Unread /\ messages' \in Seq(Lines) /\ pending' \in Seq(Lines)
        /\ m \in Lines /\ m \in Unread
    BY <1>1, <1>2, <1>7, MessageKept
  <2>2. Draining' = Draining /\ at' = at
    BY <1>2, <1>7 DEF Draining, callVars, closeVars
  <2> HIDE DEF m
  <2>3. /\ AcceptedInv' /\ KeepsItsRun'
        /\ publications' \in Seq(Entries) /\ Len(publications') <= QueueSize
        /\ accepted' \in Seq(Entries) /\ UNCHANGED <<publisher, holding, journal>>
    BY <1>2, <1>3, <1>7, <2>1, <2>2, PublishFacts
  <2>4. Control'
    BY <1>1, <1>2, <1>7, SameControl
  <2>5. TurnsInv'
    BY <1>1, <1>2, <1>3, <2>1, <2>2, FewerTurns DEF Attended, Faults
  <2>6. ProcessTypeOK'
    BY <1>1, <1>2, <1>7, <2>1, <2>3 DEF ProcessTypeOK, callVars, closeVars
  <2> QED
    BY <2>1, <2>3, <2>4, <2>5, <2>6 DEF ProcessInv
<1> QED
  BY <1>2, <1>4, <1>5, <1>6, <1>7

LEMMA ReadEventStep ==
  ASSUME ProcessInv, NEW c \in ProcessCallers, ReadEvent(c)
  PROVE  ProcessInv'
<1> DEFINE m == Head(pending \o messages)
           kept == IF pending = <<>> THEN <<>> ELSE Tail(pending)
<1>1. ProcessTypeOK /\ Control /\ AcceptedInv /\ LinesInv /\ TurnsInv /\ KeepsItsRun
  BY DEF ProcessInv
<1>2. /\ at[c] = "turn" /\ pending \o messages # <<>>
      /\ messages' = (IF pending = <<>> THEN Tail(messages) ELSE messages)
      /\ UNCHANGED <<closeVars, mode, asked, sent>>
      /\ \/ m.kind = "eof" /\ Leave(c, "failed") /\ pending' = kept /\ UNCHANGED journalVars
         \/ m.kind = "response" /\ pending' = Append(kept, m) /\ UNCHANGED <<callVars, journalVars>>
         \/ /\ m.kind \notin {"eof", "response"} /\ Publish(m) /\ pending' = kept
            /\ (m = Completed(c) /\ Leave(c, "done")) \/ (m # Completed(c) /\ UNCHANGED callVars)
  <2>1. /\ at[c] = "turn" /\ pending \o messages # <<>>
        /\ messages' = (IF pending = <<>> THEN Tail(messages) ELSE messages)
        /\ UNCHANGED <<closeVars, mode, asked, sent>>
    BY DEF ReadEvent, childVars
  <2>2. CASE m.kind = "eof"
    BY <2>1, <2>2 DEF ReadEvent
  <2>3. CASE m.kind = "response"
    BY <2>1, <2>3 DEF ReadEvent
  <2>4. CASE m.kind \notin {"eof", "response"}
    <3>1. Publish(m) /\ pending' = kept /\ (IF m = Completed(c) THEN Leave(c, "done") ELSE UNCHANGED callVars)
      BY <2>4 DEF ReadEvent
    <3> HIDE DEF m, kept
    <3> QED
      BY <2>1, <2>4, <3>1
  <2> QED
    BY <2>2, <2>3, <2>4
<1>3. child' = child /\ closed' = closed /\ mode' = mode /\ sent' = sent /\ asked' = asked
  BY <1>2 DEF closeVars
<1>4. pending = <<>> => messages # <<>> /\ m = Head(messages)
  BY <1>1, <1>2 DEF ProcessTypeOK
<1>5. pending # <<>> => m = Head(pending)
  BY <1>1 DEF ProcessTypeOK
<1>6. ASSUME pending' = kept
      PROVE  /\ LinesInv' /\ Unread' \subseteq Unread /\ messages' \in Seq(Lines) /\ pending' \in Seq(Lines)
             /\ m \in Lines /\ m \in Unread
             /\ m.kind = "completed" => \A l \in Unread' : Tells(l) => l.of # m.of
  <2>1. CASE pending = <<>>
    BY <1>1, <1>2, <1>3, <1>4, <1>6, <2>1, MessageRead
  <2>2. CASE pending # <<>>
    BY <1>1, <1>2, <1>3, <1>5, <1>6, <2>2, KeptRead
  <2> QED
    BY <2>1, <2>2
<1>7. CASE m.kind = "eof" /\ Leave(c, "failed") /\ pending' = kept /\ UNCHANGED journalVars
  <2>1. LinesInv' /\ Unread' \subseteq Unread /\ messages' \in Seq(Lines) /\ pending' \in Seq(Lines) /\ m \in Unread
    BY <1>6, <1>7
  <2> HIDE DEF m, kept
  <2>2. /\ Control' /\ Draining' = Draining
        /\ \A d \in ProcessCallers : at'[d] = IF d = c THEN "failed" ELSE at[d]
        /\ at' \in [ProcessCallers -> Stages]
        /\ owner' = NoOne /\ context' = NoOne
    BY <1>2, <1>7, LeaveControl
  <2>3. ~(Overlap /\ Faults) => Faults
    BY <1>1, <1>7, <2>1 DEF TurnsInv
  <2>4. TurnsInv'
    BY <1>1, <1>2, <1>3, <2>1, <2>2, <2>3, Apart, FewerTurns DEF Attended, Faults
  <2>5. ProcessTypeOK'
    BY <1>1, <1>2, <1>7, <2>1, <2>2 DEF ProcessTypeOK, journalVars, closeVars
  <2>6. AcceptedInv' /\ KeepsItsRun'
    BY <1>1, <1>2, <1>3, <1>7, <2>2, SameOrder DEF KeepsItsRun, Overlap, Faults, journalVars
  <2> QED
    BY <2>1, <2>2, <2>4, <2>5, <2>6 DEF ProcessInv
<1>8. CASE m.kind = "response" /\ pending' = Append(kept, m) /\ UNCHANGED <<callVars, journalVars>>
  <2>1. LinesInv' /\ Unread' \subseteq Unread /\ messages' \in Seq(Lines) /\ pending' \in Seq(Lines)
    <3>1. CASE pending = <<>>
      BY <1>1, <1>2, <1>3, <1>4, <1>8, <3>1, MessageKept
    <3>2. CASE pending # <<>>
      BY <1>1, <1>2, <1>3, <1>5, <1>8, <3>2, KeptAgain
    <3> QED
      BY <3>1, <3>2
  <2> HIDE DEF m, kept
  <2>2. Draining' = Draining /\ at' = at
    BY <1>2, <1>8 DEF Draining, callVars, closeVars
  <2>3. Control'
    BY <1>1, <1>2, <1>8, SameControl
  <2>4. TurnsInv'
    BY <1>1, <1>2, <1>3, <2>1, <2>2, FewerTurns DEF Attended, Faults
  <2>5. ProcessTypeOK'
    BY <1>1, <1>2, <1>8, <2>1 DEF ProcessTypeOK, callVars, journalVars, closeVars
  <2>6. AcceptedInv' /\ KeepsItsRun'
    BY <1>1, <1>2, <1>3, <1>8, <2>2, SameOrder DEF KeepsItsRun, Overlap, Faults, journalVars
  <2> QED
    BY <2>1, <2>3, <2>4, <2>5, <2>6 DEF ProcessInv
<1>9. CASE /\ m.kind \notin {"eof", "response"} /\ Publish(m) /\ pending' = kept
           /\ (m = Completed(c) /\ Leave(c, "done")) \/ (m # Completed(c) /\ UNCHANGED callVars)
  <2>1. /\ LinesInv' /\ Unread' \subseteq Unread /\ messages' \in Seq(Lines) /\ pending' \in Seq(Lines)
        /\ m \in Lines /\ m \in Unread
        /\ m.kind = "completed" => \A l \in Unread' : Tells(l) => l.of # m.of
    BY <1>6, <1>9
  <2> HIDE DEF m, kept
  <2>2. /\ Control' /\ Draining' = Draining
        /\ \A d \in ProcessCallers : at'[d] = at[d] \/ (d = c /\ m = Completed(c))
        /\ at' \in [ProcessCallers -> Stages]
        /\ owner' \in ProcessCallers \cup {NoOne} /\ context' \in Turns \cup {NoOne}
    <3>1. CASE m = Completed(c) /\ Leave(c, "done")
      BY <1>2, <3>1, LeaveControl
    <3>2. CASE UNCHANGED callVars
      BY <1>1, <1>2, <3>2, SameControl DEF ProcessTypeOK, Draining, callVars, closeVars
    <3> QED
      BY <1>9, <3>1, <3>2
  <2>3. /\ AcceptedInv' /\ KeepsItsRun'
        /\ publications' \in Seq(Entries) /\ Len(publications') <= QueueSize
        /\ accepted' \in Seq(Entries) /\ UNCHANGED <<publisher, holding, journal>>
    BY <1>2, <1>3, <1>9, <2>1, <2>2, PublishFacts
  <2>4. TurnsInv'
    <3>1. m = Completed(c) => /\ sent[c].completed
                              /\ \A l \in Unread' : Tells(l) => l.of # c
      BY <1>1, <2>1 DEF Completed, LinesInv
    <3>2. \A d \in Turns : Attended(d) => Attended(d)' \/ (d = c /\ m = Completed(c))
      BY <1>3, <2>2, Apart DEF Attended, Faults
    <3>3. \A d \in Turns : Attended(d) =>
            \/ Attended(d)'
            \/ sent[d].completed /\ \A l \in Unread' : Tells(l) => l.of # d
      BY <3>1, <3>2
    <3> QED
      BY <1>1, <1>3, <2>1, <3>3, FewerTurns
  <2>5. ProcessTypeOK'
    BY <1>1, <1>2, <1>3, <2>1, <2>2, <2>3 DEF ProcessTypeOK, closeVars
  <2> QED
    BY <2>1, <2>2, <2>3, <2>4, <2>5 DEF ProcessInv
<1> QED
  BY <1>2, <1>7, <1>8, <1>9

-----------------------------------------------------------------------------
(* Theorems                                                                  *)

LEMMA ProcessStep ==
  ASSUME ProcessInv, [ProcessNext]_processVars
  PROVE  ProcessInv'
<1>1. CASE UNCHANGED processVars
  <2>1. UNCHANGED <<callVars, inputVars, journalVars, closeVars, mode, asked, sent>>
    BY <1>1 DEF processVars, callVars, inputVars, journalVars, closeVars
  <2>2. ProcessTypeOK /\ Control /\ AcceptedInv /\ LinesInv /\ TurnsInv /\ KeepsItsRun
    BY DEF ProcessInv
  <2>3. ProcessTypeOK'
    BY <2>1, <2>2 DEF ProcessTypeOK, callVars, inputVars, journalVars, closeVars
  <2>4. Draining' = Draining /\ at' = at /\ child' = child /\ mode' = mode
    BY <2>1 DEF Draining, callVars, closeVars
  <2>5. Control' /\ AcceptedInv' /\ LinesInv'
    BY <2>1, <2>2, <2>4, SameControl, SameOrder, SameLines
  <2>6. TurnsInv'
    BY <2>1, <2>2, <2>4, SameTurns DEF Attended, Faults, closeVars
  <2>7. KeepsItsRun'
    BY <2>1, <2>2 DEF KeepsItsRun, Overlap, Faults, journalVars
  <2> QED
    BY <2>3, <2>5, <2>6, <2>7 DEF ProcessInv
<1>2. ASSUME NEW c \in ProcessCallers, Caller(c)
      PROVE  ProcessInv'
  BY <1>2, AcquireStep, ReadResponseStep, ReadEventStep, CloseBeginsStep, CloseDrainsStep,
     ClosePutsSentinelStep, CloseStopsChildStep
     DEF Caller
<1> QED
  BY <1>1, <1>2, ChildStep, TimesOutStep, ExitStep, PublisherStep DEF ProcessNext

\* Whatever its callers, its child and its publisher do: the process keeps the
\* invariant.
THEOREM ProcessInvariant == ProcessSpec => []ProcessInv
<1> QED
  BY ProcessInitInv, ProcessStep, PTL DEF ProcessSpec

\* Every variable of a process keeps its type; the queue of notifications never
\* holds more than _EVENT_PUBLICATION_QUEUE_SIZE, the sentinel of close() included.
THEOREM ProcessTypeCorrect == ProcessSpec => []ProcessTypeOK
<1>1. ProcessInv => ProcessTypeOK
  BY DEF ProcessInv
<1> QED
  BY <1>1, ProcessInvariant, PTL

\* A notification is journaled for the run whose turn it is of, as long as nothing
\* fails or callers come one at a time; and whatever fails, when close() stops the
\* child the journal has been handed everything that was accepted, in order.
THEOREM JournalIsTrue == ProcessSpec => []JournalTells
<1>1. ProcessInv => JournalTells
  <2> SUFFICES ASSUME ProcessInv PROVE JournalTells
    OBVIOUS
  <2>1. KeepsItsRun /\ AcceptedInv /\ ProcessTypeOK
    BY DEF ProcessInv
  <2>2. child = "stopped" => Draining
    BY DEF Draining
  <2>3. DrainedBeforeStop
    BY <2>1, <2>2 DEF DrainedBeforeStop, AcceptedInv
  <2> QED
    BY <2>1, <2>3 DEF JournalTells
<1> QED
  BY <1>1, ProcessInvariant, PTL

-----------------------------------------------------------------------------
HIDE DEF Stages

(* The inductive invariant.  NoLeakedChild is not inductive: which child may *)
(* be closed by whom depends on who holds the slot lock and on what a caller *)
(* has in its hands.                                                         *)

\* A caller that replaces, launches or closes holds the slot lock of its host.
SlotInv ==
  \A c \in Callers : pc[c] \in {"replace", "launch", "close"} => slot[HostOf[c]] = c

\* A caller that has a child has one that its own host has started.
MineInv ==
  \A c \in Callers :
    pc[c] \in {"replace", "bind", "turn", "ask", "discard", "close"} =>
      /\ mine[c] \in Children
      /\ state[mine[c]] # "none"
      /\ origin[mine[c]].host = HostOf[c]

\* A turn has a thread.
ThreadInv == \A c \in Callers : pc[c] = "turn" => thread[c] \in Runs

\* The child in the table of a host is its own, and the one a host closes at
\* the end has been started.
TableInv ==
  \A h \in Hosts :
    /\ table[h] \in Children => state[table[h]] # "none" /\ origin[table[h]].host = h
    /\ shutdown[h] \in Children => state[shutdown[h]] # "none"

\* While a child is replaced, there is no other in the table.
LaunchInv ==
  \A c \in Callers : pc[c] \in {"replace", "launch"} => table[HostOf[c]] = None

\* While a child that runs is discarded, there is no other in the table.
CloseInv ==
  \A c \in Callers :
    (pc[c] = "close" /\ state[mine[c]] = "up" /\ shutdown[HostOf[c]] = Running)
      => table[HostOf[c]] = None

\* There is an origin for every child (TypeOK speaks of each of them only).
OriginInv == DOMAIN origin = Children

SessionsInv ==
  /\ TypeOK
  /\ SlotInv
  /\ MineInv
  /\ ThreadInv
  /\ TableInv
  /\ LaunchInv
  /\ CloseInv
  /\ NoLeakedChild

-----------------------------------------------------------------------------
(* None and Running are no children and no callers.                          *)
LEMMA Distinct ==
  /\ None \notin Children /\ Running \notin Children
  /\ None \notin Callers /\ Running # None
BY SessionsAssumption DEF Callers

(* Every setting says on which host each caller runs.                        *)
LEMMA HostFacts == setting \in Settings => \A c \in Callers : HostOf[c] \in Hosts
BY SessionsAssumption DEF HostOf

LEMMA InitSessionsInv == Init => SessionsInv
<1> SUFFICES ASSUME Init PROVE SessionsInv
  OBVIOUS
<1>1. TypeOK
  BY DEF Init, TypeOK
<1>2. SlotInv /\ MineInv /\ ThreadInv /\ LaunchInv /\ CloseInv
  BY DEF Init, SlotInv, MineInv, ThreadInv, LaunchInv, CloseInv
<1>3. TableInv /\ NoLeakedChild
  BY Distinct DEF Init, TableInv, NoLeakedChild
<1> QED
  BY <1>1, <1>2, <1>3 DEF SessionsInv

(* Only Launch changes an origin, that of one child.                         *)
LEMMA OriginStep == OriginInv /\ [Next]_vars => OriginInv'
<1> SUFFICES ASSUME OriginInv, [Next]_vars PROVE OriginInv'
  OBVIOUS
<1>1. ASSUME NEW c \in Callers, Launch(c) PROVE OriginInv'
  BY <1>1 DEF Launch, OriginInv
<1>2. ASSUME origin' = origin PROVE OriginInv'
  BY <1>2 DEF OriginInv
<1>3. ASSUME NEW c \in Callers, Begin(c) \/ (Progress(c) /\ ~Launch(c)) PROVE origin' = origin
  BY <1>3 DEF Progress, Begin, Get, CloseReplaced, NotReady, Refused, Bind, TurnCompletes,
              TurnFails, Ask, Answered, Discard, CloseMine
<1> QED
  BY <1>1, <1>2, <1>3 DEF Next, vars, TurnEscapes, CloseHangs, ChildExits, ShutdownClears,
                          ShutdownCloses, ShutdownHangs

LEMMA BeginStep ==
  ASSUME SessionsInv, NEW c \in Callers, Begin(c)
  PROVE  SessionsInv'
<1> USE Distinct, HostFacts DEF SessionsInv
<1>1. HostOf' = HostOf /\ Policy' = Policy /\ setting \in Settings /\ HostOf[c] \in Hosts
  BY DEF Begin, HostOf, Policy, TypeOK
<1>2. TypeOK'
  BY <1>1 DEF Begin, AfterLoad, Loaded, TypeOK
<1>3. SlotInv'
  BY <1>1 DEF Begin, SlotInv, TypeOK
<1>4. MineInv'
  BY <1>1 DEF Begin, MineInv, TableInv, TypeOK
<1>9. ThreadInv'
  BY <1>1 DEF Begin, ThreadInv, TypeOK
<1>5. TableInv'
  BY <1>1 DEF Begin, TableInv, MineInv, TypeOK
<1>6. LaunchInv'
  BY <1>1 DEF Begin, LaunchInv, SlotInv, TypeOK
<1>7. CloseInv'
  BY <1>1 DEF Begin, CloseInv, SlotInv, NoLeakedChild, MineInv, TableInv, TypeOK
<1>8. NoLeakedChild'
  BY <1>1 DEF Begin, NoLeakedChild, MineInv, TableInv, SlotInv, LaunchInv, TypeOK
<1> QED
  BY <1>2, <1>3, <1>4, <1>5, <1>6, <1>7, <1>8, <1>9

LEMMA GetStep ==
  ASSUME SessionsInv, NEW c \in Callers, Get(c)
  PROVE  SessionsInv'
<1> USE Distinct, HostFacts DEF SessionsInv
<1>1. HostOf' = HostOf /\ Policy' = Policy /\ setting \in Settings /\ HostOf[c] \in Hosts
  BY DEF Get, Live, Matches, HostOf, Policy, TypeOK
<1>2. TypeOK'
  BY <1>1 DEF Get, Live, Matches, TypeOK
<1>3. SlotInv'
  BY <1>1 DEF Get, Live, Matches, SlotInv, TypeOK
<1>4. MineInv'
  BY <1>1 DEF Get, Live, Matches, MineInv, TableInv, TypeOK
<1>9. ThreadInv'
  BY <1>1 DEF Get, Live, Matches, ThreadInv, TypeOK
<1>5. TableInv'
  BY <1>1 DEF Get, Live, Matches, TableInv, MineInv, TypeOK
<1>6. LaunchInv'
  BY <1>1 DEF Get, Live, Matches, LaunchInv, SlotInv, TypeOK
<1>7. CloseInv'
  BY <1>1 DEF Get, Live, Matches, CloseInv, SlotInv, NoLeakedChild, MineInv, TableInv, TypeOK
<1>8. NoLeakedChild'
  BY <1>1 DEF Get, Live, Matches, NoLeakedChild, MineInv, TableInv, SlotInv, LaunchInv, TypeOK
<1> QED
  BY <1>2, <1>3, <1>4, <1>5, <1>6, <1>7, <1>8, <1>9

LEMMA CloseReplacedStep ==
  ASSUME SessionsInv, NEW c \in Callers, CloseReplaced(c)
  PROVE  SessionsInv'
<1> USE Distinct, HostFacts DEF SessionsInv
<1>1. HostOf' = HostOf /\ Policy' = Policy /\ setting \in Settings /\ HostOf[c] \in Hosts
  BY DEF CloseReplaced, Close, HostOf, Policy, TypeOK
<1>2. TypeOK'
  BY <1>1 DEF CloseReplaced, Close, MineInv, TypeOK
<1>3. SlotInv'
  BY <1>1 DEF CloseReplaced, Close, SlotInv, TypeOK
<1>4. MineInv'
  BY <1>1 DEF CloseReplaced, Close, MineInv, TableInv, TypeOK
<1>9. ThreadInv'
  BY <1>1 DEF CloseReplaced, Close, ThreadInv, TypeOK
<1>5. TableInv'
  BY <1>1 DEF CloseReplaced, Close, TableInv, MineInv, TypeOK
<1>6. LaunchInv'
  BY <1>1 DEF CloseReplaced, Close, LaunchInv, SlotInv, TypeOK
<1>7. CloseInv'
  BY <1>1 DEF CloseReplaced, Close, CloseInv, SlotInv, NoLeakedChild, MineInv, TableInv, TypeOK
<1>8. NoLeakedChild'
  BY <1>1 DEF CloseReplaced, Close, NoLeakedChild, MineInv, TableInv, SlotInv, LaunchInv, TypeOK
<1> QED
  BY <1>2, <1>3, <1>4, <1>5, <1>6, <1>7, <1>8, <1>9

(* The started child becomes the host's, and no other one of it runs.         *)
LEMMA LaunchStep ==
  ASSUME SessionsInv, OriginInv, NEW c \in Callers, Launch(c)
  PROVE  SessionsInv'
<1> USE Distinct, HostFacts DEF SessionsInv
<1>1. HostOf' = HostOf /\ Policy' = Policy /\ setting \in Settings /\ HostOf[c] \in Hosts
  BY DEF Launch, HostOf, Policy, TypeOK
<1>2. /\ pc[c] = "launch" /\ table[HostOf[c]] = None
      /\ UNCHANGED <<setting, lock, mapping, shutdown, broken>>
  BY DEF Launch, LaunchInv
<1>3. CASE /\ pc' = [pc EXCEPT ![c] = "done"]
           /\ mine' = [mine EXCEPT ![c] = None]
           /\ thread' = [thread EXCEPT ![c] = None]
           /\ slot' = [slot EXCEPT ![HostOf[c]] = None]
           /\ UNCHANGED <<table, state, origin>>
  <2>1. TypeOK'
    BY <1>1, <1>2, <1>3 DEF TypeOK
  <2>2. SlotInv' /\ MineInv' /\ ThreadInv'
    BY <1>1, <1>2, <1>3 DEF SlotInv, MineInv, ThreadInv, TypeOK
  <2>3. TableInv' /\ LaunchInv' /\ CloseInv'
    BY <1>1, <1>2, <1>3 DEF TableInv, LaunchInv, CloseInv, TypeOK
  <2>4. NoLeakedChild'
    BY <1>1, <1>2, <1>3 DEF NoLeakedChild, TypeOK
  <2> QED
    BY <2>1, <2>2, <2>3, <2>4
<1>4. ASSUME NEW p \in Children,
             state[p] = "none",
             state' = [state EXCEPT ![p] = "up"],
             origin' = [origin EXCEPT ![p] = [host |-> HostOf[c], settings |-> Policy[c]]],
             table' = [table EXCEPT ![HostOf[c]] = p],
             slot' = [slot EXCEPT ![HostOf[c]] = None],
             mine' = [mine EXCEPT ![c] = p],
             pc' = [pc EXCEPT ![c] = "bind"],
             thread' = thread
      PROVE  SessionsInv'
  <2>1. /\ state'[p] = "up" /\ origin'[p].host = HostOf[c] /\ origin'[p].settings = Policy[c]
        /\ \A q \in Children \ {p} : state'[q] = state[q] /\ origin'[q] = origin[q]
    <3>1. origin'[p] = [host |-> HostOf[c], settings |-> Policy[c]]
      BY <1>4 DEF OriginInv
    <3>2. \A q \in Children \ {p} : origin'[q] = origin[q]
      BY <1>4 DEF OriginInv
    <3>3. state'[p] = "up" /\ \A q \in Children \ {p} : state'[q] = state[q]
      BY <1>4 DEF TypeOK
    <3> QED
      BY <3>1, <3>2, <3>3
  <2>2. TypeOK'
    <3>1. \A q \in Children : IF state'[q] = "none" THEN origin'[q] = None
            ELSE origin'[q].host \in Hosts /\ \E d \in Callers : origin'[q].settings = Policy[d]
      BY <1>1, <1>4, <2>1 DEF TypeOK
    <3>2. /\ pc' \in [Callers -> {"idle", "get", "replace", "launch", "bind", "turn", "ask",
                                   "discard", "close", "done"}]
          /\ mine' \in [Callers -> Children \cup {None}]
          /\ table' \in [Hosts -> Children \cup {None}]
          /\ slot' \in [Hosts -> Callers \cup {None}]
          /\ state' \in [Children -> {"none", "up", "exited", "closed"}]
      BY <1>1, <1>2, <1>4 DEF TypeOK
    <3> QED
      BY <1>1, <1>2, <1>4, <3>1, <3>2 DEF TypeOK
  <2>3. SlotInv' /\ ThreadInv'
    BY <1>1, <1>2, <1>4 DEF SlotInv, ThreadInv, TypeOK
  <2>4. MineInv'
    BY <1>1, <1>2, <1>4, <2>1 DEF MineInv, TypeOK
  <2>5. TableInv'
    BY <1>1, <1>2, <1>4, <2>1 DEF TableInv, TypeOK
  <2>6. \A d \in Callers \ {c} :
          HostOf[d] = HostOf[c] => pc[d] \notin {"replace", "launch", "close"}
    BY <1>1, <1>2 DEF SlotInv
  <2>7. LaunchInv'
    BY <1>1, <1>2, <1>4, <2>6 DEF LaunchInv, TypeOK
  <2>8. CloseInv'
    BY <1>1, <1>2, <1>4, <2>1, <2>6 DEF CloseInv, MineInv, TypeOK
  <2>9. NoLeakedChild'
    <3> SUFFICES ASSUME NEW q \in Children, state'[q] = "up"
                 PROVE  \/ table'[origin'[q].host] = q
                        \/ shutdown'[origin'[q].host] = q
                        \/ \E d \in Callers : mine'[d] = q /\ HostOf'[d] = origin'[q].host
                                             /\ pc'[d] \in {"replace", "close"}
      BY DEF NoLeakedChild
    <3>1. CASE q = p
      BY <1>1, <1>4, <2>1, <3>1 DEF TypeOK
    <3>2. CASE q # p
      <4>1. \/ table[origin[q].host] = q
            \/ shutdown[origin[q].host] = q
            \/ \E d \in Callers : mine[d] = q /\ HostOf[d] = origin[q].host
                                 /\ pc[d] \in {"replace", "close"}
        BY <2>1, <3>2 DEF NoLeakedChild
      <4>2. table[HostOf[c]] = None
        BY <1>2
      <4>3. CASE table[origin[q].host] = q
        BY <1>1, <1>4, <2>1, <3>2, <4>2, <4>3 DEF TypeOK
      <4>4. CASE shutdown[origin[q].host] = q
        BY <1>2, <2>1, <3>2, <4>4
      <4>5. ASSUME NEW d \in Callers, mine[d] = q, HostOf[d] = origin[q].host,
                   pc[d] \in {"replace", "close"}
            PROVE  mine'[d] = q /\ HostOf'[d] = origin'[q].host /\ pc'[d] \in {"replace", "close"}
        BY <1>1, <1>2, <1>4, <2>1, <3>2, <4>5 DEF TypeOK
      <4> QED
        BY <4>1, <4>3, <4>4, <4>5
    <3> QED
      BY <3>1, <3>2
  <2> QED
    BY <2>2, <2>3, <2>4, <2>5, <2>7, <2>8, <2>9
<1>5. ASSUME NEW p \in Children,
             state[p] = "none",
             state' = [state EXCEPT ![p] = "up"],
             origin' = [origin EXCEPT ![p] = [host |-> HostOf[c], settings |-> Policy[c]]],
             mine' = [mine EXCEPT ![c] = p],
             pc' = [pc EXCEPT ![c] = "close"],
             UNCHANGED <<table, slot, thread>>
      PROVE  SessionsInv'
  <2>1. /\ state'[p] = "up" /\ origin'[p].host = HostOf[c] /\ origin'[p].settings = Policy[c]
        /\ \A q \in Children \ {p} : state'[q] = state[q] /\ origin'[q] = origin[q]
    <3>1. origin'[p] = [host |-> HostOf[c], settings |-> Policy[c]]
      BY <1>5 DEF OriginInv
    <3>2. \A q \in Children \ {p} : origin'[q] = origin[q]
      BY <1>5 DEF OriginInv
    <3>3. state'[p] = "up" /\ \A q \in Children \ {p} : state'[q] = state[q]
      BY <1>5 DEF TypeOK
    <3> QED
      BY <3>1, <3>2, <3>3
  <2>2. /\ \A d \in Callers \ {c} : pc'[d] = pc[d] /\ mine'[d] = mine[d]
        /\ pc'[c] = "close" /\ mine'[c] = p
    BY <1>5 DEF TypeOK
  <2>3. TypeOK'
    <3>1. \A q \in Children : IF state'[q] = "none" THEN origin'[q] = None
            ELSE origin'[q].host \in Hosts /\ \E d \in Callers : origin'[q].settings = Policy[d]
      BY <1>1, <1>5, <2>1 DEF TypeOK
    <3>2. /\ pc' \in [Callers -> {"idle", "get", "replace", "launch", "bind", "turn", "ask",
                                   "discard", "close", "done"}]
          /\ mine' \in [Callers -> Children \cup {None}]
          /\ state' \in [Children -> {"none", "up", "exited", "closed"}]
      BY <1>5 DEF TypeOK
    <3> QED
      BY <1>1, <1>2, <1>5, <3>1, <3>2 DEF TypeOK
  <2>4. SlotInv' /\ ThreadInv' /\ LaunchInv'
    BY <1>1, <1>2, <1>5, <2>2 DEF SlotInv, ThreadInv, LaunchInv
  <2>5. MineInv' /\ TableInv'
    BY <1>1, <1>2, <1>5, <2>1, <2>2 DEF MineInv, TableInv, TypeOK
  <2>6. CloseInv'
    BY <1>1, <1>2, <1>5, <2>1, <2>2 DEF CloseInv, MineInv
  <2>7. NoLeakedChild'
    BY <1>1, <1>2, <1>5, <2>1, <2>2 DEF NoLeakedChild
  <2> QED
    BY <2>3, <2>4, <2>5, <2>6, <2>7
<1> QED
  BY <1>3, <1>4, <1>5 DEF Launch, Goto

LEMMA NotReadyStep ==
  ASSUME SessionsInv, NEW c \in Callers, NotReady(c)
  PROVE  SessionsInv'
<1> USE Distinct, HostFacts DEF SessionsInv
<1>1. HostOf' = HostOf /\ Policy' = Policy /\ setting \in Settings /\ HostOf[c] \in Hosts
  BY DEF NotReady, HostOf, Policy, TypeOK
<1>2. TypeOK'
  BY <1>1 DEF NotReady, TypeOK
<1>3. SlotInv'
  BY <1>1 DEF NotReady, SlotInv, TypeOK
<1>4. MineInv'
  BY <1>1 DEF NotReady, MineInv, TableInv, TypeOK
<1>9. ThreadInv'
  BY <1>1 DEF NotReady, ThreadInv, TypeOK
<1>5. TableInv'
  BY <1>1 DEF NotReady, TableInv, MineInv, TypeOK
<1>6. LaunchInv'
  BY <1>1 DEF NotReady, LaunchInv, SlotInv, TypeOK
<1>7. CloseInv'
  BY <1>1 DEF NotReady, CloseInv, SlotInv, NoLeakedChild, MineInv, TableInv, TypeOK
<1>8. NoLeakedChild'
  BY <1>1 DEF NotReady, NoLeakedChild, MineInv, TableInv, SlotInv, LaunchInv, TypeOK
<1> QED
  BY <1>2, <1>3, <1>4, <1>5, <1>6, <1>7, <1>8, <1>9

LEMMA RefusedStep ==
  ASSUME SessionsInv, NEW c \in Callers, Refused(c)
  PROVE  SessionsInv'
<1> USE Distinct, HostFacts DEF SessionsInv
<1>1. HostOf' = HostOf /\ Policy' = Policy /\ setting \in Settings /\ HostOf[c] \in Hosts
  BY DEF Refused, HostOf, Policy, TypeOK
<1>2. TypeOK'
  BY <1>1 DEF Refused, TypeOK
<1>3. SlotInv'
  BY <1>1 DEF Refused, SlotInv, TypeOK
<1>4. MineInv'
  BY <1>1 DEF Refused, MineInv, TableInv, TypeOK
<1>9. ThreadInv'
  BY <1>1 DEF Refused, ThreadInv, TypeOK
<1>5. TableInv'
  BY <1>1 DEF Refused, TableInv, MineInv, TypeOK
<1>6. LaunchInv'
  BY <1>1 DEF Refused, LaunchInv, SlotInv, TypeOK
<1>7. CloseInv'
  BY <1>1 DEF Refused, CloseInv, SlotInv, NoLeakedChild, MineInv, TableInv, TypeOK
<1>8. NoLeakedChild'
  BY <1>1 DEF Refused, NoLeakedChild, MineInv, TableInv, SlotInv, LaunchInv, TypeOK
<1> QED
  BY <1>2, <1>3, <1>4, <1>5, <1>6, <1>7, <1>8, <1>9

LEMMA BindStep ==
  ASSUME SessionsInv, NEW c \in Callers, Bind(c)
  PROVE  SessionsInv'
<1> USE Distinct, HostFacts DEF SessionsInv
<1>1. HostOf' = HostOf /\ Policy' = Policy /\ setting \in Settings /\ HostOf[c] \in Hosts
  BY DEF Bind, HostOf, Policy, TypeOK
<1>2. TypeOK'
  BY <1>1 DEF Bind, AfterLoad, Loaded, TypeOK
<1>3. SlotInv'
  BY <1>1 DEF Bind, SlotInv, TypeOK
<1>4. MineInv'
  BY <1>1 DEF Bind, MineInv, TableInv, TypeOK
<1>9. ThreadInv'
  BY <1>1 DEF Bind, Loaded, ThreadInv, TypeOK
<1>5. TableInv'
  BY <1>1 DEF Bind, TableInv, MineInv, TypeOK
<1>6. LaunchInv'
  BY <1>1 DEF Bind, LaunchInv, SlotInv, TypeOK
<1>7. CloseInv'
  BY <1>1 DEF Bind, CloseInv, SlotInv, NoLeakedChild, MineInv, TableInv, TypeOK
<1>8. NoLeakedChild'
  BY <1>1 DEF Bind, NoLeakedChild, MineInv, TableInv, SlotInv, LaunchInv, TypeOK
<1> QED
  BY <1>2, <1>3, <1>4, <1>5, <1>6, <1>7, <1>8, <1>9

LEMMA TurnFailsStep ==
  ASSUME SessionsInv, NEW c \in Callers, TurnFails(c)
  PROVE  SessionsInv'
<1> USE Distinct, HostFacts DEF SessionsInv
<1>1. HostOf' = HostOf /\ Policy' = Policy /\ setting \in Settings /\ HostOf[c] \in Hosts
  BY DEF TurnFails, HostOf, Policy, TypeOK
<1>2. TypeOK'
  BY <1>1 DEF TurnFails, ThreadInv, TypeOK
<1>3. SlotInv'
  BY <1>1 DEF TurnFails, SlotInv, TypeOK
<1>4. MineInv'
  BY <1>1 DEF TurnFails, MineInv, TableInv, TypeOK
<1>9. ThreadInv'
  BY <1>1 DEF TurnFails, ThreadInv, TypeOK
<1>5. TableInv'
  BY <1>1 DEF TurnFails, TableInv, MineInv, TypeOK
<1>6. LaunchInv'
  BY <1>1 DEF TurnFails, LaunchInv, SlotInv, TypeOK
<1>7. CloseInv'
  BY <1>1 DEF TurnFails, CloseInv, SlotInv, NoLeakedChild, MineInv, TableInv, TypeOK
<1>8. NoLeakedChild'
  BY <1>1 DEF TurnFails, NoLeakedChild, MineInv, TableInv, SlotInv, LaunchInv, TypeOK
<1> QED
  BY <1>2, <1>3, <1>4, <1>5, <1>6, <1>7, <1>8, <1>9

LEMMA AskStep ==
  ASSUME SessionsInv, NEW c \in Callers, Ask(c)
  PROVE  SessionsInv'
<1> USE Distinct, HostFacts DEF SessionsInv
<1>1. HostOf' = HostOf /\ Policy' = Policy /\ setting \in Settings /\ HostOf[c] \in Hosts
  BY DEF Ask, HostOf, Policy, TypeOK
<1>2. TypeOK'
  BY <1>1 DEF Ask, TypeOK
<1>3. SlotInv'
  BY <1>1 DEF Ask, SlotInv, TypeOK
<1>4. MineInv'
  BY <1>1 DEF Ask, MineInv, TableInv, TypeOK
<1>9. ThreadInv'
  BY <1>1 DEF Ask, ThreadInv, TypeOK
<1>5. TableInv'
  BY <1>1 DEF Ask, TableInv, MineInv, TypeOK
<1>6. LaunchInv'
  BY <1>1 DEF Ask, LaunchInv, SlotInv, TypeOK
<1>7. CloseInv'
  BY <1>1 DEF Ask, CloseInv, SlotInv, NoLeakedChild, MineInv, TableInv, TypeOK
<1>8. NoLeakedChild'
  BY <1>1 DEF Ask, NoLeakedChild, MineInv, TableInv, SlotInv, LaunchInv, TypeOK
<1> QED
  BY <1>2, <1>3, <1>4, <1>5, <1>6, <1>7, <1>8, <1>9

LEMMA AnsweredStep ==
  ASSUME SessionsInv, NEW c \in Callers, Answered(c)
  PROVE  SessionsInv'
<1> USE Distinct, HostFacts DEF SessionsInv
<1>1. HostOf' = HostOf /\ Policy' = Policy /\ setting \in Settings /\ HostOf[c] \in Hosts
  BY DEF Answered, Goto, HostOf, Policy, TypeOK
<1>2. TypeOK'
  <2>1. /\ pc' = [pc EXCEPT ![c] = "done"] \/ pc' = [pc EXCEPT ![c] = "discard"]
        /\ mine' = mine \/ mine' = [mine EXCEPT ![c] = None]
        /\ thread' = thread \/ thread' = [thread EXCEPT ![c] = None]
        /\ lock' = [lock EXCEPT ![mine[c]] = None]
        /\ UNCHANGED <<setting, table, slot, state, origin, mapping, shutdown, broken>>
    BY DEF Answered, Goto
  <2>2. pc' \in [Callers -> {"idle", "get", "replace", "launch", "bind", "turn", "ask",
                            "discard", "close", "done"}]
    BY <2>1 DEF TypeOK
  <2>3. mine' \in [Callers -> Children \cup {None}] /\ thread' \in [Callers -> Runs \cup {None}]
    BY <2>1 DEF TypeOK
  <2>4. lock' \in [Children -> Callers \cup Hosts \cup {None}]
    BY <2>1 DEF TypeOK
  <2> QED
    BY <1>1, <2>1, <2>2, <2>3, <2>4 DEF TypeOK
<1>3. SlotInv'
  BY <1>1 DEF Answered, Goto, SlotInv, TypeOK
<1>4. MineInv'
  BY <1>1 DEF Answered, Goto, MineInv, TableInv, TypeOK
<1>9. ThreadInv'
  BY <1>1 DEF Answered, Goto, ThreadInv, TypeOK
<1>5. TableInv'
  BY <1>1 DEF Answered, Goto, TableInv, MineInv, TypeOK
<1>6. LaunchInv'
  BY <1>1 DEF Answered, Goto, LaunchInv, SlotInv, TypeOK
<1>7. CloseInv'
  BY <1>1 DEF Answered, Goto, CloseInv, SlotInv, NoLeakedChild, MineInv, TableInv, TypeOK
<1>8. NoLeakedChild'
  BY <1>1 DEF Answered, Goto, NoLeakedChild, MineInv, TableInv, SlotInv, LaunchInv, TypeOK
<1> QED
  BY <1>2, <1>3, <1>4, <1>5, <1>6, <1>7, <1>8, <1>9

LEMMA DiscardStep ==
  ASSUME SessionsInv, NEW c \in Callers, Discard(c)
  PROVE  SessionsInv'
<1> USE Distinct, HostFacts DEF SessionsInv
<1>1. HostOf' = HostOf /\ Policy' = Policy /\ setting \in Settings /\ HostOf[c] \in Hosts
  BY DEF Discard, HostOf, Policy, TypeOK
<1>2. TypeOK'
  BY <1>1 DEF Discard, TypeOK
<1>3. SlotInv'
  BY <1>1 DEF Discard, SlotInv, TypeOK
<1>4. MineInv'
  BY <1>1 DEF Discard, MineInv, TableInv, TypeOK
<1>9. ThreadInv'
  BY <1>1 DEF Discard, ThreadInv, TypeOK
<1>5. TableInv'
  BY <1>1 DEF Discard, TableInv, MineInv, TypeOK
<1>6. LaunchInv'
  BY <1>1 DEF Discard, LaunchInv, SlotInv, TypeOK
<1>7. CloseInv'
  BY <1>1 DEF Discard, CloseInv, SlotInv, NoLeakedChild, MineInv, TableInv, TypeOK
<1>8. NoLeakedChild'
  BY <1>1 DEF Discard, NoLeakedChild, MineInv, TableInv, SlotInv, LaunchInv, TypeOK
<1> QED
  BY <1>2, <1>3, <1>4, <1>5, <1>6, <1>7, <1>8, <1>9

LEMMA CloseMineStep ==
  ASSUME SessionsInv, NEW c \in Callers, CloseMine(c)
  PROVE  SessionsInv'
<1> USE Distinct, HostFacts DEF SessionsInv
<1>1. HostOf' = HostOf /\ Policy' = Policy /\ setting \in Settings /\ HostOf[c] \in Hosts
  BY DEF CloseMine, Close, Goto, HostOf, Policy, TypeOK
<1>2. TypeOK'
  BY <1>1 DEF CloseMine, Close, Goto, MineInv, TypeOK
<1>3. SlotInv'
  BY <1>1 DEF CloseMine, Close, Goto, SlotInv, TypeOK
<1>4. MineInv'
  BY <1>1 DEF CloseMine, Close, Goto, MineInv, TableInv, TypeOK
<1>9. ThreadInv'
  BY <1>1 DEF CloseMine, Close, Goto, ThreadInv, TypeOK
<1>5. TableInv'
  BY <1>1 DEF CloseMine, Close, Goto, TableInv, MineInv, TypeOK
<1>6. LaunchInv'
  BY <1>1 DEF CloseMine, Close, Goto, LaunchInv, SlotInv, TypeOK
<1>7. CloseInv'
  BY <1>1 DEF CloseMine, Close, Goto, CloseInv, SlotInv, NoLeakedChild, MineInv, TableInv, TypeOK
<1>8. NoLeakedChild'
  BY <1>1 DEF CloseMine, Close, Goto, NoLeakedChild, MineInv, TableInv, SlotInv, LaunchInv, TypeOK
<1> QED
  BY <1>2, <1>3, <1>4, <1>5, <1>6, <1>7, <1>8, <1>9

LEMMA TurnCompletesStep ==
  ASSUME SessionsInv, NEW c \in Callers, NEW reported \in BOOLEAN, TurnCompletes(c, reported)
  PROVE  SessionsInv'
<1> USE Distinct, HostFacts DEF SessionsInv
<1>1. HostOf' = HostOf /\ Policy' = Policy /\ setting \in Settings
  BY DEF TurnCompletes, Goto, HostOf, Policy, TypeOK
<1>2. TypeOK'
  BY <1>1 DEF TurnCompletes, Goto, Mapped, ThreadInv, MineInv, TypeOK
<1>3. SlotInv' /\ ThreadInv'
  BY <1>1 DEF TurnCompletes, Goto, SlotInv, ThreadInv, TypeOK
<1>4. MineInv'
  BY <1>1 DEF TurnCompletes, Goto, MineInv, TableInv, TypeOK
<1>5. TableInv'
  BY <1>1 DEF TurnCompletes, Goto, TableInv, MineInv, TypeOK
<1>6. LaunchInv'
  BY <1>1 DEF TurnCompletes, Goto, LaunchInv, SlotInv, TypeOK
<1>7. CloseInv'
  BY <1>1 DEF TurnCompletes, Goto, CloseInv, MineInv, TypeOK
<1>8. NoLeakedChild'
  BY <1>1 DEF TurnCompletes, Goto, NoLeakedChild, MineInv, TableInv, TypeOK
<1> QED
  BY <1>2, <1>3, <1>4, <1>5, <1>6, <1>7, <1>8

LEMMA ChildExitsStep ==
  ASSUME SessionsInv, NEW p \in Children, ChildExits(p)
  PROVE  SessionsInv'
<1> USE Distinct, HostFacts DEF SessionsInv
<1>1. HostOf' = HostOf /\ Policy' = Policy /\ setting \in Settings
  BY DEF ChildExits, HostOf, Policy, TypeOK
<1>2. TypeOK'
  BY <1>1 DEF ChildExits, TypeOK
<1>3. SlotInv' /\ ThreadInv'
  BY <1>1 DEF ChildExits, SlotInv, ThreadInv, TypeOK
<1>4. MineInv'
  BY <1>1 DEF ChildExits, MineInv, TableInv, TypeOK
<1>5. TableInv'
  BY <1>1 DEF ChildExits, TableInv, MineInv, TypeOK
<1>6. LaunchInv'
  BY <1>1 DEF ChildExits, LaunchInv, SlotInv, TypeOK
<1>7. CloseInv'
  BY <1>1 DEF ChildExits, CloseInv, MineInv, TypeOK
<1>8. NoLeakedChild'
  BY <1>1 DEF ChildExits, NoLeakedChild, MineInv, TableInv, TypeOK
<1> QED
  BY <1>2, <1>3, <1>4, <1>5, <1>6, <1>7, <1>8

LEMMA ShutdownClearsStep ==
  ASSUME SessionsInv, NEW h \in Hosts, ShutdownClears(h)
  PROVE  SessionsInv'
<1> USE Distinct, HostFacts DEF SessionsInv
<1>1. HostOf' = HostOf /\ Policy' = Policy /\ setting \in Settings
  BY DEF ShutdownClears, HostOf, Policy, TypeOK
<1>2. TypeOK'
  BY <1>1 DEF ShutdownClears, TypeOK
<1>3. SlotInv' /\ ThreadInv'
  BY <1>1 DEF ShutdownClears, SlotInv, ThreadInv, TypeOK
<1>4. MineInv'
  BY <1>1 DEF ShutdownClears, MineInv, TableInv, TypeOK
<1>5. TableInv'
  BY <1>1 DEF ShutdownClears, TableInv, MineInv, TypeOK
<1>6. LaunchInv'
  BY <1>1 DEF ShutdownClears, LaunchInv, SlotInv, TypeOK
<1>7. CloseInv'
  BY <1>1 DEF ShutdownClears, CloseInv, MineInv, TypeOK
<1>8. NoLeakedChild'
  BY <1>1 DEF ShutdownClears, NoLeakedChild, MineInv, TableInv, TypeOK
<1> QED
  BY <1>2, <1>3, <1>4, <1>5, <1>6, <1>7, <1>8

LEMMA ShutdownClosesStep ==
  ASSUME SessionsInv, NEW h \in Hosts, ShutdownCloses(h)
  PROVE  SessionsInv'
<1> USE Distinct, HostFacts DEF SessionsInv
<1>1. HostOf' = HostOf /\ Policy' = Policy /\ setting \in Settings
  BY DEF ShutdownCloses, Close, HostOf, Policy, TypeOK
<1>2. TypeOK'
  BY <1>1 DEF ShutdownCloses, Close, TableInv, TypeOK
<1>3. SlotInv' /\ ThreadInv'
  BY <1>1 DEF ShutdownCloses, Close, SlotInv, ThreadInv, TypeOK
<1>4. MineInv'
  BY <1>1 DEF ShutdownCloses, Close, MineInv, TableInv, TypeOK
<1>5. TableInv'
  BY <1>1 DEF ShutdownCloses, Close, TableInv, MineInv, TypeOK
<1>6. LaunchInv'
  BY <1>1 DEF ShutdownCloses, Close, LaunchInv, SlotInv, TypeOK
<1>7. CloseInv'
  BY <1>1 DEF ShutdownCloses, Close, CloseInv, MineInv, TypeOK
<1>8. NoLeakedChild'
  BY <1>1 DEF ShutdownCloses, Close, NoLeakedChild, MineInv, TableInv, TypeOK
<1> QED
  BY <1>2, <1>3, <1>4, <1>5, <1>6, <1>7, <1>8

LEMMA TurnEscapesStep ==
  ASSUME SessionsInv, NEW c \in Callers, TurnEscapes(c)
  PROVE  SessionsInv'
<1> USE Distinct, HostFacts DEF SessionsInv
<1>1. HostOf' = HostOf /\ Policy' = Policy /\ setting \in Settings
  BY DEF TurnEscapes, Goto, HostOf, Policy, TypeOK
<1>2. TypeOK'
  BY <1>1 DEF TurnEscapes, Goto, MineInv, ThreadInv, TypeOK
<1>3. SlotInv' /\ ThreadInv'
  BY <1>1 DEF TurnEscapes, Goto, SlotInv, ThreadInv, TypeOK
<1>4. MineInv' /\ TableInv'
  BY <1>1 DEF TurnEscapes, Goto, MineInv, TableInv, TypeOK
<1>5. LaunchInv' /\ CloseInv'
  BY <1>1 DEF TurnEscapes, Goto, LaunchInv, CloseInv, MineInv, TypeOK
<1>6. NoLeakedChild'
  BY <1>1 DEF TurnEscapes, Goto, NoLeakedChild, MineInv, TableInv, TypeOK
<1> QED
  BY <1>2, <1>3, <1>4, <1>5, <1>6

LEMMA CloseHangsStep ==
  ASSUME SessionsInv, NEW c \in Callers, CloseHangs(c)
  PROVE  SessionsInv'
<1> USE Distinct, HostFacts DEF SessionsInv
<1>1. HostOf' = HostOf /\ Policy' = Policy /\ setting \in Settings
  BY DEF CloseHangs, HangsOn, HostOf, Policy, TypeOK
<1>2. TypeOK'
  BY <1>1 DEF CloseHangs, HangsOn, MineInv, ThreadInv, TypeOK
<1>3. SlotInv' /\ ThreadInv'
  BY <1>1 DEF CloseHangs, HangsOn, SlotInv, ThreadInv, TypeOK
<1>4. MineInv' /\ TableInv'
  BY <1>1 DEF CloseHangs, HangsOn, MineInv, TableInv, TypeOK
<1>5. LaunchInv' /\ CloseInv'
  BY <1>1 DEF CloseHangs, HangsOn, LaunchInv, CloseInv, MineInv, TypeOK
<1>6. NoLeakedChild'
  BY <1>1 DEF CloseHangs, HangsOn, NoLeakedChild, MineInv, TableInv, TypeOK
<1> QED
  BY <1>2, <1>3, <1>4, <1>5, <1>6

LEMMA ShutdownHangsStep ==
  ASSUME SessionsInv, NEW h \in Hosts, ShutdownHangs(h)
  PROVE  SessionsInv'
<1> USE Distinct, HostFacts DEF SessionsInv
<1>1. HostOf' = HostOf /\ Policy' = Policy /\ setting \in Settings
  BY DEF ShutdownHangs, HangsOn, HostOf, Policy, TypeOK
<1>2. TypeOK'
  BY <1>1 DEF ShutdownHangs, HangsOn, MineInv, ThreadInv, TypeOK
<1>3. SlotInv' /\ ThreadInv'
  BY <1>1 DEF ShutdownHangs, HangsOn, SlotInv, ThreadInv, TypeOK
<1>4. MineInv' /\ TableInv'
  BY <1>1 DEF ShutdownHangs, HangsOn, MineInv, TableInv, TypeOK
<1>5. LaunchInv' /\ CloseInv'
  BY <1>1 DEF ShutdownHangs, HangsOn, LaunchInv, CloseInv, MineInv, TypeOK
<1>6. NoLeakedChild'
  BY <1>1 DEF ShutdownHangs, HangsOn, NoLeakedChild, MineInv, TableInv, TypeOK
<1> QED
  BY <1>2, <1>3, <1>4, <1>5, <1>6

-----------------------------------------------------------------------------
LEMMA SessionsInvStep == SessionsInv /\ OriginInv /\ [Next]_vars => SessionsInv'
<1> SUFFICES ASSUME SessionsInv, OriginInv, [Next]_vars PROVE SessionsInv'
  OBVIOUS
<1>1. CASE UNCHANGED vars
  BY <1>1 DEF vars, SessionsInv, TypeOK, SlotInv, MineInv, ThreadInv, TableInv, LaunchInv, CloseInv,
              NoLeakedChild, HostOf, Policy
<1>2. ASSUME NEW c \in Callers, Begin(c) \/ Progress(c) PROVE SessionsInv'
  BY <1>2, BeginStep, GetStep, CloseReplacedStep, LaunchStep, NotReadyStep, RefusedStep, BindStep,
     TurnCompletesStep, TurnFailsStep, AskStep, AnsweredStep, DiscardStep, CloseMineStep DEF Progress
<1>3. ASSUME NEW p \in Children, ChildExits(p) PROVE SessionsInv'
  BY <1>3, ChildExitsStep
<1>4. ASSUME NEW h \in Hosts, ShutdownClears(h) \/ ShutdownCloses(h) \/ ShutdownHangs(h)
      PROVE  SessionsInv'
  BY <1>4, ShutdownClearsStep, ShutdownClosesStep, ShutdownHangsStep
<1>5. ASSUME NEW c \in Callers, TurnEscapes(c) \/ CloseHangs(c) PROVE SessionsInv'
  BY <1>5, TurnEscapesStep, CloseHangsStep
<1> QED
  BY <1>1, <1>2, <1>3, <1>4, <1>5 DEF Next

(* The invariant holds in every state of every behaviour.                    *)
THEOREM SessionsInvariant == Spec => []SessionsInv
<1>1. Init => OriginInv
  BY DEF Init, OriginInv
<1>2. Spec => []OriginInv
  BY <1>1, OriginStep, PTL DEF Spec
<1> QED
  BY <1>2, InitSessionsInv, SessionsInvStep, PTL DEF Spec

(* Every variable keeps its type.                                            *)
THEOREM SessionsTypeCorrect == Spec => []TypeOK
<1>1. SessionsInv => TypeOK
  BY DEF SessionsInv
<1> QED
  BY <1>1, SessionsInvariant, PTL

(* No child is lost: a child that runs is in its host's table or in the      *)
(* hands of somebody who is about to close it (_get_process,                 *)
(* _discard_process, _close_processes).                                      *)
THEOREM NoChildLeaks == Spec => []NoLeakedChild
<1>1. SessionsInv => NoLeakedChild
  BY DEF SessionsInv
<1> QED
  BY <1>1, SessionsInvariant, PTL

(* Two children of one host that run, one of them in the table, would be one *)
(* in the hands of the holder of the slot lock, which keeps the table empty. *)
LEMMA OneChild == SessionsInv => OneChildPerSlot
<1> SUFFICES ASSUME SessionsInv, NEW p \in Children, NEW q \in Children,
                    state[p] = "up", state[q] = "up", p # q,
                    origin[p].host = origin[q].host, shutdown[origin[p].host] = Running
             PROVE  FALSE
  BY DEF OneChildPerSlot
<1> USE Distinct, HostFacts DEF SessionsInv
<1> DEFINE h == origin[p].host
<1>1. h \in Hosts
  BY DEF TypeOK
<1> DEFINE InHand(x) == \E c \in Callers : mine[c] = x /\ HostOf[c] = h /\ pc[c] \in {"replace", "close"}
<1>2. (table[h] = p \/ InHand(p)) /\ (table[h] = q \/ InHand(q))
  BY DEF NoLeakedChild
<1>3. \A c, d \in Callers :
        (HostOf[c] = h /\ HostOf[d] = h /\ pc[c] \in {"replace", "close"} /\ pc[d] \in {"replace", "close"})
          => c = d
  BY DEF SlotInv
<1>4. \A x \in {p, q} : InHand(x) => table[h] = None
  BY DEF LaunchInv, CloseInv
<1> QED
  BY <1>2, <1>3, <1>4

(* Until it shuts down, a host never runs two children for one slot.         *)
THEOREM OneChildPerSlotHolds == Spec => []OneChildPerSlot
BY OneChild, SessionsInvariant, PTL

(* A host has at most one child for the slot and always knows it.            *)
THEOREM ChildrenAccountedFor == Spec => []ChildrenAccounted
<1>1. NoLeakedChild /\ OneChildPerSlot => ChildrenAccounted
  BY DEF ChildrenAccounted
<1> QED
  BY <1>1, NoChildLeaks, OneChildPerSlotHolds, PTL

-----------------------------------------------------------------------------
(* The mapping.  Children are started in order, and the one in the table of  *)
(* a host is the newest that host has started: who finds his child there     *)
(* forgets no session of a newer one.                                        *)
StartedInOrder ==
  \A p, q \in Children : (state[p] # "none" /\ q < p) => state[q] # "none"

NewestInTable ==
  \A h \in Hosts, q \in Children :
    (table[h] \in Children /\ state[q] # "none" /\ origin[q].host = h) => q <= table[h]

\* The child that recorded the mapping has been started.
MappedBy == mapping # None => state[mapping.by] # "none"

\* A run that has no thread yet has left its own nowhere.
FreshThreads ==
  \A c \in Runs : pc[c] \in {"idle", "get", "replace", "launch", "bind"} =>
    /\ c \notin broken
    /\ mapping # None => mapping.thread # c
    /\ \A d \in Callers : thread[d] # c

\* Callers that come one at a time: only one is at work, and it is a run.
OneWorks ==
  \A c \in Callers : Active(c) =>
    /\ c \in Runs
    /\ \A d \in Callers : Active(d) => d = c

\* The child it works with is in the table until it takes it out itself.
KeepsItsChild ==
  \A c \in Callers : pc[c] \in {"bind", "turn", "ask", "discard"} => table[HostOf[c]] = mine[c]

\* A broken thread is in the mapping only while the run that broke it is about
\* to forget it.
BrokenLeaves ==
  /\ mapping # None /\ mapping.thread \in broken => \E c \in Runs : pc[c] = "discard"
  /\ \A c \in Callers : pc[c] = "turn" => thread[c] \notin broken

OrderInv == StartedInOrder /\ NewestInTable /\ MappedBy
AloneInv == OneAtATime => OneWorks /\ KeepsItsChild /\ BrokenLeaves
MappingInv == OrderInv /\ FreshThreads /\ AloneInv

LEMMA InitMappingInv == Init => MappingInv
<1> SUFFICES ASSUME Init PROVE MappingInv
  OBVIOUS
<1>1. OrderInv
  BY Distinct DEF Init, OrderInv, StartedInOrder, NewestInTable, MappedBy
<1>2. FreshThreads
  BY Distinct DEF Init, FreshThreads, Callers
<1>3. AloneInv
  BY DEF Init, AloneInv, OneWorks, KeepsItsChild, BrokenLeaves, Active
<1> QED
  BY <1>1, <1>2, <1>3 DEF MappingInv

(* Without a launch no child is started and no table gets another child; the *)
(* mapping goes, stays, or comes from a turn.                                *)
LEMMA WithoutLaunch ==
  ASSUME SessionsInv, [Next]_vars, \A c \in Callers : ~Launch(c)
  PROVE  /\ origin' = origin
         /\ \A p \in Children : state'[p] = "none" <=> state[p] = "none"
         /\ \A h \in Hosts : table'[h] \in {table[h], None}
         /\ \/ mapping' \in {mapping, None}
            \/ \E c \in Callers : pc[c] = "turn" /\ mapping' = Mapped(thread[c], c)
<1> USE HostFacts DEF SessionsInv
<1>1. ASSUME NEW c \in Callers, Begin(c) PROVE UNCHANGED <<origin, state, table>> /\ mapping' \in {mapping, None}
  BY <1>1 DEF Begin, AfterLoad
<1>2. ASSUME NEW c \in Callers, Get(c)
      PROVE  UNCHANGED <<origin, state, mapping>> /\ \A h \in Hosts : table'[h] \in {table[h], None}
  BY <1>2 DEF Get, TypeOK
<1>3. ASSUME NEW c \in Callers, CloseReplaced(c) \/ CloseMine(c)
      PROVE  /\ UNCHANGED <<origin, table>> /\ mapping' \in {mapping, None}
             /\ \A p \in Children : state'[p] = "none" <=> state[p] = "none"
  BY <1>3 DEF CloseReplaced, CloseMine, Close, MineInv, TypeOK
<1>4. ASSUME NEW c \in Callers, NotReady(c) \/ Refused(c) \/ TurnFails(c) \/ Ask(c) \/ Answered(c)
      PROVE  UNCHANGED <<origin, state, table, mapping>>
  BY <1>4 DEF NotReady, Refused, TurnFails, Ask, Answered
<1>5. ASSUME NEW c \in Callers, Bind(c)
      PROVE  UNCHANGED <<origin, state, table>> /\ mapping' \in {mapping, None}
  BY <1>5 DEF Bind, AfterLoad
<1>6. ASSUME NEW c \in Callers, NEW reported \in BOOLEAN, TurnCompletes(c, reported)
      PROVE  UNCHANGED <<origin, state, table>> /\ pc[c] = "turn" /\ mapping' = Mapped(thread[c], c)
  BY <1>6 DEF TurnCompletes
<1>7. ASSUME NEW c \in Callers, Discard(c)
      PROVE  /\ UNCHANGED <<origin, state>> /\ mapping' \in {mapping, None}
             /\ \A h \in Hosts : table'[h] \in {table[h], None}
  BY <1>7 DEF Discard, TypeOK
<1>8. ASSUME NEW p \in Children, ChildExits(p)
      PROVE  /\ UNCHANGED <<origin, table, mapping>>
             /\ \A q \in Children : state'[q] = "none" <=> state[q] = "none"
  BY <1>8 DEF ChildExits, TypeOK
<1>9. ASSUME NEW h \in Hosts, ShutdownClears(h)
      PROVE  UNCHANGED <<origin, state, mapping>> /\ \A g \in Hosts : table'[g] \in {table[g], None}
  BY <1>9 DEF ShutdownClears, TypeOK
<1>10. ASSUME NEW h \in Hosts, ShutdownCloses(h)
       PROVE  /\ UNCHANGED <<origin, table, mapping>>
              /\ \A q \in Children : state'[q] = "none" <=> state[q] = "none"
  BY <1>10 DEF ShutdownCloses, Close, TableInv, TypeOK
<1>11. CASE UNCHANGED vars
  BY <1>11 DEF vars
<1>13. ASSUME NEW c \in Callers, TurnEscapes(c) \/ CloseHangs(c)
       PROVE  UNCHANGED <<origin, state, table, mapping>>
  BY <1>13 DEF TurnEscapes, CloseHangs
<1>14. ASSUME NEW h \in Hosts, ShutdownHangs(h)
       PROVE  UNCHANGED <<origin, state, table, mapping>>
  BY <1>14 DEF ShutdownHangs
<1>12. ASSUME NEW c \in Callers, Begin(c) \/ Progress(c)
       PROVE  /\ origin' = origin
              /\ \A p \in Children : state'[p] = "none" <=> state[p] = "none"
              /\ \A h \in Hosts : table'[h] \in {table[h], None}
              /\ \/ mapping' \in {mapping, None}
                 \/ pc[c] = "turn" /\ mapping' = Mapped(thread[c], c)
  BY <1>1, <1>2, <1>3, <1>4, <1>5, <1>6, <1>7, <1>12 DEF Progress
<1> QED
  BY <1>8, <1>9, <1>10, <1>11, <1>12, <1>13, <1>14 DEF Next

(* What a launch does, if it succeeds, to children and tables.               *)
LEMMA OrderStep ==
  ASSUME SessionsInv, OriginInv, OrderInv, [Next]_vars
  PROVE  OrderInv'
<1> USE Distinct, HostFacts DEF SessionsInv
<1>1. CASE \A c \in Callers : ~Launch(c)
  <2>1. StartedInOrder'
    BY <1>1, WithoutLaunch DEF OrderInv, StartedInOrder
  <2>2. NewestInTable'
    BY <1>1, WithoutLaunch DEF OrderInv, NewestInTable
  <2>3. MappedBy'
    <3>1. CASE mapping' \in {mapping, None}
      <4>1. mapping' # None => mapping' = mapping /\ mapping.by \in Children
        BY <3>1 DEF TypeOK
      <4> QED
        BY <1>1, <4>1, WithoutLaunch DEF OrderInv, MappedBy
    <3>2. ASSUME NEW c \in Callers, pc[c] = "turn", mapping' = Mapped(thread[c], c)
          PROVE  MappedBy'
      <4>1. mapping'.by = mine[c] /\ mine[c] \in Children /\ state[mine[c]] # "none"
        BY <3>2 DEF Mapped, MineInv
      <4> QED
        BY <1>1, <4>1, WithoutLaunch DEF MappedBy
    <3> QED
      BY <1>1, <3>1, <3>2, WithoutLaunch
  <2> QED
    BY <2>1, <2>2, <2>3 DEF OrderInv
<1>2. ASSUME NEW c \in Callers, Launch(c)
      PROVE  OrderInv'
  <2>1. mapping' = mapping /\ HostOf[c] \in Hosts
    BY <1>2 DEF Launch, TypeOK
  <2>2. CASE UNCHANGED <<table, state, origin>>
    BY <2>1, <2>2 DEF OrderInv, StartedInOrder, NewestInTable, MappedBy
  <2>3. ASSUME NEW p \in Children,
               state[p] = "none", \A q \in Children : q < p => state[q] # "none",
               state' = [state EXCEPT ![p] = "up"],
               origin' = [origin EXCEPT ![p] = [host |-> HostOf[c], settings |-> Policy[c]]],
               table' = table \/ table' = [table EXCEPT ![HostOf[c]] = p]
        PROVE  OrderInv'
    <3>1. /\ state'[p] = "up" /\ \A q \in Children \ {p} : state'[q] = state[q] /\ origin'[q] = origin[q]
          /\ origin'[p].host = HostOf[c]
      BY <2>1, <2>3 DEF OriginInv, TypeOK
    <3>7. /\ table'[HostOf[c]] \in {p, None}
          /\ \A h \in Hosts \ {HostOf[c]} : table'[h] = table[h]
      BY <1>2, <2>1, <2>3 DEF Launch, LaunchInv, TypeOK
    <3>2. p \in Nat /\ \A q \in Children : q \in Nat
      BY SessionsAssumption DEF Children
    <3>3. \A q \in Children : state[q] # "none" => q < p
      BY <2>3, <3>2 DEF OrderInv, StartedInOrder
    <3>4. StartedInOrder'
      BY <2>3, <3>1, <3>2 DEF OrderInv, StartedInOrder
    <3>5. NewestInTable'
      <4> SUFFICES ASSUME NEW h \in Hosts, NEW q \in Children,
                          table'[h] \in Children, state'[q] # "none", origin'[q].host = h
                   PROVE  q <= table'[h]
        BY DEF NewestInTable
      <4>1. CASE h = HostOf[c]
        <5>1. table'[h] = p
          BY <3>7, <4>1
        <5>2. q = p \/ q < p
          BY <3>1, <3>3
        <5> QED
          BY <3>2, <5>1, <5>2
      <4>2. CASE h # HostOf[c]
        BY <3>1, <3>7, <4>2 DEF OrderInv, NewestInTable
      <4> QED
        BY <4>1, <4>2
    <3>6. MappedBy'
      <4>1. mapping # None => mapping.by \in Children
        BY DEF TypeOK
      <4> QED
        BY <2>1, <3>1, <4>1 DEF OrderInv, MappedBy
    <3> QED
      BY <3>4, <3>5, <3>6 DEF OrderInv
  <2> QED
    BY <1>2, <2>2, <2>3 DEF Launch
<1> QED
  BY <1>1, <1>2

(* No step gives a run its thread but the one that begins its turn, and no   *)
(* thread is broken but by its turn.                                         *)
LEMMA ThreadStep ==
  ASSUME SessionsInv, [Next]_vars
  PROVE  /\ \A c \in Callers : pc'[c] \in {"idle", "get", "replace", "launch", "bind"}
              => pc[c] \in {"idle", "get", "replace", "launch", "bind"}
         /\ broken' = broken \/ \E c \in Callers : broken' = broken \cup {thread[c]}
         /\ \A c \in Callers :
              \/ thread'[c] \in {thread[c], None}
              \/ pc'[c] = "turn" /\ thread'[c] = c
              \/ mapping # None /\ thread'[c] = mapping.thread
<1> USE HostFacts DEF SessionsInv
<1> DEFINE Early == {"idle", "get", "replace", "launch", "bind"}
           Goal == /\ \A c \in Callers : pc'[c] \in Early => pc[c] \in Early
                   /\ broken' = broken \/ \E c \in Callers : broken' = broken \cup {thread[c]}
                   /\ \A c \in Callers :
                        \/ thread'[c] \in {thread[c], None}
                        \/ pc'[c] = "turn" /\ thread'[c] = c
                        \/ mapping # None /\ thread'[c] = mapping.thread
<1>1. ASSUME NEW c \in Callers, Begin(c) \/ Get(c) \/ CloseReplaced(c) \/ Launch(c) PROVE Goal
  BY <1>1 DEF Begin, Get, CloseReplaced, Launch, Goto, TypeOK
<1>2. ASSUME NEW c \in Callers, NotReady(c) \/ Refused(c) \/ Ask(c) \/ Answered(c) PROVE Goal
  BY <1>2 DEF NotReady, Refused, Ask, Answered, Goto, TypeOK
<1>3. ASSUME NEW c \in Callers, Bind(c) PROVE Goal
  <2>1. pc[c] = "bind" /\ broken' = broken /\ c \in Runs
    BY <1>3 DEF Bind
  <2>2. CASE pc' = [pc EXCEPT ![c] = "discard"] /\ thread' = thread
    BY <2>1, <2>2 DEF TypeOK
  <2>3. ASSUME NEW t \in {c, Loaded(c)} \ {None},
               pc' = [pc EXCEPT ![c] = "turn"], thread' = [thread EXCEPT ![c] = t]
        PROVE  Goal
    <3>1. t = c \/ (mapping # None /\ t = mapping.thread)
      BY <2>3 DEF Loaded
    <3> QED
      BY <2>1, <2>3, <3>1 DEF TypeOK
  <2> QED
    BY <1>3, <2>2, <2>3 DEF Bind
<1>4. ASSUME NEW c \in Callers, NEW reported \in BOOLEAN, TurnCompletes(c, reported) PROVE Goal
  BY <1>4 DEF TurnCompletes, Goto, TypeOK
<1>5. ASSUME NEW c \in Callers, TurnFails(c) PROVE Goal
  BY <1>5 DEF TurnFails, TypeOK
<1>6. ASSUME NEW c \in Callers, Discard(c) \/ CloseMine(c) PROVE Goal
  BY <1>6 DEF Discard, CloseMine, Goto, TypeOK
<1>7. CASE UNCHANGED <<pc, thread, broken>>
  BY <1>7
<1>8. ASSUME NEW p \in Children, ChildExits(p) PROVE Goal
  BY <1>7, <1>8 DEF ChildExits
<1>9. ASSUME NEW h \in Hosts, ShutdownClears(h) \/ ShutdownCloses(h) \/ ShutdownHangs(h) PROVE Goal
  BY <1>7, <1>9 DEF ShutdownClears, ShutdownCloses, ShutdownHangs
<1>13. ASSUME NEW c \in Callers, TurnEscapes(c) PROVE Goal
  BY <1>13 DEF TurnEscapes, Goto, TypeOK
<1>14. ASSUME NEW c \in Callers, CloseHangs(c) PROVE Goal
  BY <1>7, <1>14 DEF CloseHangs
<1>10. ASSUME UNCHANGED vars PROVE Goal
  BY <1>7, <1>10 DEF vars
<1>11. ASSUME NEW c \in Callers, Begin(c) \/ Progress(c) PROVE Goal
  BY <1>1, <1>2, <1>3, <1>4, <1>5, <1>6, <1>11 DEF Progress
<1> HIDE DEF Goal
<1>12. Goal
  BY <1>8, <1>9, <1>10, <1>11, <1>13, <1>14 DEF Next
<1> QED
  BY <1>12 DEF Goal

LEMMA FreshStep ==
  ASSUME SessionsInv, FreshThreads, [Next]_vars
  PROVE  FreshThreads'
<1> SUFFICES ASSUME NEW c \in Runs, pc'[c] \in {"idle", "get", "replace", "launch", "bind"}
             PROVE  /\ c \notin broken'
                    /\ mapping' # None => mapping'.thread # c
                    /\ \A d \in Callers : thread'[d] # c
  BY DEF FreshThreads
<1>1. c \in Callers /\ c # None
  BY Distinct DEF Callers
<1>2. /\ c \notin broken
      /\ mapping # None => mapping.thread # c
      /\ \A d \in Callers : thread[d] # c
  BY <1>1, ThreadStep DEF FreshThreads
<1>3. c \notin broken'
  BY <1>2, ThreadStep
<1>4. \A d \in Callers : thread'[d] # c
  BY <1>1, <1>2, ThreadStep
<1>5. mapping' \in {mapping, None} \/ \E d \in Callers : mapping' = Mapped(thread[d], d)
  <2>1. ASSUME NEW d \in Callers, Launch(d) PROVE mapping' = mapping
    BY <2>1 DEF Launch
  <2> QED
    BY <2>1, WithoutLaunch
<1>6. mapping' # None => mapping'.thread # c
  BY <1>2, <1>5 DEF Mapped
<1> QED
  BY <1>3, <1>4, <1>6

-----------------------------------------------------------------------------
(* Callers that come one at a time                                           *)

(* Nobody else is at work while somebody is.                                 *)
LEMMA AloneKept ==
  ASSUME SessionsInv, OneAtATime, OneWorks, [Next]_vars
  PROVE  OneAtATime' /\ OneWorks'
<1> USE HostFacts DEF SessionsInv
<1>1. setting' = setting
  BY DEF Next, Progress, Begin, Get, CloseReplaced, Launch, NotReady, Refused, Bind, TurnCompletes,
         TurnFails, TurnEscapes, Ask, Answered, Discard, CloseMine, CloseHangs, ChildExits,
         ShutdownClears, ShutdownCloses, ShutdownHangs, vars
<1>2. OneAtATime'
  BY <1>1 DEF OneAtATime
<1>3. ASSUME NEW c \in Callers, Begin(c) PROVE OneWorks'
  <2>1. c \in Runs /\ \A d \in Runs : ~Active(d)
    BY <1>3, SessionsAssumption DEF Begin, OneAtATime, Callers, TypeOK
  <2>2. \A d \in Callers : ~Active(d)
    BY <2>1 DEF OneWorks
  <2>3. pc' = [pc EXCEPT ![c] = "get"] \/ pc' = [pc EXCEPT ![c] = "done"]
    BY <1>3 DEF Begin
  <2> QED
    BY <2>1, <2>2, <2>3 DEF OneWorks, Active, TypeOK
<1>4. ASSUME NEW c \in Callers, Progress(c) PROVE OneWorks'
  <2>1. Active(c)
    BY <1>4 DEF Progress, Get, CloseReplaced, Launch, NotReady, Refused, Bind, TurnCompletes,
                TurnFails, Ask, Answered, Discard, CloseMine, Active
  <2>2. \A d \in Callers \ {c} : pc'[d] = pc[d]
    BY <1>4 DEF Progress, Get, CloseReplaced, Launch, NotReady, Refused, Bind, TurnCompletes,
                TurnFails, Ask, Answered, Discard, CloseMine, Goto, TypeOK
  <2> QED
    BY <2>1, <2>2 DEF OneWorks, Active
<1>5. CASE pc' = pc
  BY <1>2, <1>5 DEF OneWorks, Active
<1>6. ASSUME NEW c \in Callers, TurnEscapes(c) PROVE FALSE
  BY <1>6, SessionsAssumption DEF TurnEscapes, OneAtATime, TypeOK
<1>7. ASSUME ~\E c \in Callers : Begin(c) \/ Progress(c) PROVE pc' = pc
  BY <1>6, <1>7 DEF Next, CloseHangs, ChildExits, ShutdownClears, ShutdownCloses, ShutdownHangs, vars
<1> QED
  BY <1>2, <1>3, <1>4, <1>5, <1>7

(* The child in a caller's hands stays in the table, and a broken thread     *)
(* leaves the mapping with it.                                               *)
LEMMA AloneStep ==
  ASSUME SessionsInv, FreshThreads, OneAtATime, OneWorks, KeepsItsChild, BrokenLeaves, [Next]_vars
  PROVE  KeepsItsChild' /\ BrokenLeaves'
<1> USE HostFacts, Distinct DEF SessionsInv
<1> DEFINE Goal == KeepsItsChild' /\ BrokenLeaves'
<1>1. ASSUME NEW c \in Callers, Begin(c) PROVE Goal
  <2>1. c \in Runs /\ c \notin Readers /\ \A d \in Runs : ~Active(d)
    BY <1>1, SessionsAssumption DEF Begin, OneAtATime, Callers, TypeOK
  <2>2. \A d \in Callers : ~Active(d)
    BY <2>1 DEF OneWorks
  <2>3. pc' = [pc EXCEPT ![c] = "get"] /\ UNCHANGED <<setting, mine, thread, table, mapping, broken>>
    BY <1>1, <2>1 DEF Begin
  <2>4. \A d \in Callers : pc'[d] \in {"idle", "done", "get"} /\ pc[d] \in {"idle", "done"}
    BY <2>2, <2>3 DEF Active, TypeOK
  <2> QED
    BY <2>3, <2>4 DEF KeepsItsChild, BrokenLeaves, Callers
<1>2. ASSUME NEW c \in Callers, Progress(c) PROVE Goal
  <2>1. setting' = setting /\ HostOf' = HostOf /\ HostOf[c] \in Hosts
    BY <1>2 DEF Progress, Get, CloseReplaced, Launch, NotReady, Refused, Bind, TurnCompletes,
                TurnFails, Ask, Answered, Discard, CloseMine, HostOf, TypeOK
  <2>2. Active(c)
    BY <1>2 DEF Progress, Get, CloseReplaced, Launch, NotReady, Refused, Bind, TurnCompletes,
                TurnFails, Ask, Answered, Discard, CloseMine, Active
  <2>3. c \in Runs /\ \A d \in Callers \ {c} : pc[d] \in {"idle", "done"}
    BY <2>2 DEF OneWorks, Active
  <2>4. \A d \in Callers \ {c} : pc'[d] \in {"idle", "done"}
    BY <1>2, <2>3 DEF Progress, Get, CloseReplaced, Launch, NotReady, Refused, Bind, TurnCompletes,
                TurnFails, Ask, Answered, Discard, CloseMine, Goto, TypeOK
  <2>5. SUFFICES
          /\ pc'[c] \in {"bind", "turn", "ask", "discard"} => table'[HostOf[c]] = mine'[c]
          /\ mapping' # None /\ mapping'.thread \in broken' => pc'[c] = "discard"
          /\ pc'[c] = "turn" => thread'[c] \notin broken'
    BY <2>1, <2>3, <2>4 DEF KeepsItsChild, BrokenLeaves
  <2>6. pc[c] # "discard" /\ mapping # None => mapping.thread \notin broken
    BY <2>3 DEF BrokenLeaves, Callers
  <2>7. CASE Get(c)
    <3>1. UNCHANGED <<mapping, broken>> /\ pc[c] = "get" /\ pc'[c] \in {"bind", "launch", "replace"}
      BY <2>7 DEF Get, TypeOK
    <3>2. pc'[c] = "bind" => table' = table /\ mine'[c] = table[HostOf[c]]
      BY <2>7 DEF Get, TypeOK
    <3> QED
      BY <2>6, <3>1, <3>2
  <2>8. CASE CloseReplaced(c)
    BY <2>6, <2>8 DEF CloseReplaced, TypeOK
  <2>9. CASE Launch(c)
    BY <2>1, <2>6, <2>9 DEF Launch, Goto, TypeOK
  <2>10. CASE NotReady(c) \/ Refused(c) \/ Ask(c) \/ Answered(c)
    BY <2>6, <2>10 DEF NotReady, Refused, Ask, Answered, Goto, KeepsItsChild, TypeOK
  <2>11. CASE Bind(c)
    <3>1. /\ pc[c] = "bind" /\ UNCHANGED <<table, mine, broken>> /\ mapping' \in {mapping, None}
      BY <2>11 DEF Bind, AfterLoad
    <3>2. pc'[c] = "turn" => thread'[c] \notin broken
      <4>1. CASE pc' = [pc EXCEPT ![c] = "discard"]
        BY <4>1 DEF TypeOK
      <4>2. ASSUME NEW t \in {c, Loaded(c)} \ {None}, thread' = [thread EXCEPT ![c] = t]
            PROVE  thread'[c] \notin broken
        <5>1. c \notin broken
          BY <2>3, <3>1 DEF FreshThreads
        <5>2. t = c \/ (mapping # None /\ t = mapping.thread)
          BY <4>2 DEF Loaded
        <5> QED
          BY <2>6, <3>1, <4>2, <5>1, <5>2 DEF TypeOK
      <4> QED
        BY <2>11, <4>1, <4>2 DEF Bind
    <3> QED
      BY <2>6, <3>1, <3>2 DEF KeepsItsChild
  <2>12. ASSUME NEW reported \in BOOLEAN, TurnCompletes(c, reported)
         PROVE  /\ pc'[c] \in {"bind", "turn", "ask", "discard"} => table'[HostOf[c]] = mine'[c]
                /\ mapping' # None /\ mapping'.thread \in broken' => pc'[c] = "discard"
                /\ pc'[c] = "turn" => thread'[c] \notin broken'
    BY <2>12 DEF TurnCompletes, Goto, Mapped, KeepsItsChild, BrokenLeaves, TypeOK
  <2>13. CASE TurnFails(c)
    BY <2>13 DEF TurnFails, KeepsItsChild, TypeOK
  <2>14. CASE Discard(c)
    BY <2>14 DEF Discard, KeepsItsChild, TypeOK
  <2>15. CASE CloseMine(c)
    BY <2>6, <2>15 DEF CloseMine, Goto, TypeOK
  <2> QED
    BY <1>2, <2>7, <2>8, <2>9, <2>10, <2>11, <2>12, <2>13, <2>14, <2>15 DEF Progress
<1>3. ASSUME UNCHANGED <<setting, pc, mine, thread, table, mapping, broken>> PROVE Goal
  BY <1>3 DEF KeepsItsChild, BrokenLeaves, HostOf
<1>4. ASSUME NEW h \in Hosts, ShutdownClears(h) PROVE FALSE
  BY <1>4, SessionsAssumption DEF ShutdownClears, OneAtATime, TypeOK
<1>5. ASSUME \/ \E p \in Children : ChildExits(p)
             \/ \E h \in Hosts : ShutdownCloses(h) \/ ShutdownHangs(h)
             \/ \E c \in Callers : CloseHangs(c)
             \/ UNCHANGED vars
      PROVE  UNCHANGED <<setting, pc, mine, thread, table, mapping, broken>>
  BY <1>5 DEF ChildExits, ShutdownCloses, ShutdownHangs, CloseHangs, vars
<1>7. ASSUME NEW c \in Callers, TurnEscapes(c) PROVE FALSE
  BY <1>7, SessionsAssumption DEF TurnEscapes, OneAtATime, TypeOK
<1> HIDE DEF Goal
<1>6. Goal
  BY <1>1, <1>2, <1>3, <1>4, <1>5, <1>7 DEF Next
<1> QED
  BY <1>6 DEF Goal

LEMMA MappingStep ==
  ASSUME SessionsInv, OriginInv, MappingInv, [Next]_vars
  PROVE  MappingInv'
<1>1. OrderInv' /\ FreshThreads'
  BY OrderStep, FreshStep DEF MappingInv
<1>2. OneAtATime' => OneAtATime
  BY DEF OneAtATime, Next, Progress, Begin, Get, CloseReplaced, Launch, NotReady, Refused, Bind,
         TurnCompletes, TurnFails, TurnEscapes, Ask, Answered, Discard, CloseMine, CloseHangs,
         ChildExits, ShutdownClears, ShutdownCloses, ShutdownHangs, vars
<1>3. ASSUME OneAtATime PROVE OneWorks' /\ KeepsItsChild' /\ BrokenLeaves'
  BY <1>3, AloneKept, AloneStep DEF MappingInv, AloneInv
<1> QED
  BY <1>1, <1>2, <1>3 DEF MappingInv, AloneInv

(* Children are started in order, the newest is the one in the table; and    *)
(* where callers come one at a time a broken thread is in nobody's hands but *)
(* those of the run that is about to forget it.                              *)
THEOREM MappingInvariant == Spec => []MappingInv
<1>1. Init => OriginInv
  BY DEF Init, OriginInv
<1>2. Spec => []OriginInv
  BY <1>1, OriginStep, PTL DEF Spec
<1> QED
  BY <1>2, InitMappingInv, MappingStep, SessionsInvariant, PTL DEF Spec

(* A call that fails on a child its host has replaced since does not forget  *)
(* the session of the newer child; and where callers come one at a time no   *)
(* thread is resumed whose last turn did not complete (_discard_process,     *)
(* _load_thread_mapping).                                                    *)
THEOREM MappingFollowsItsChild == Spec => MappingFollowsChild
<1> DEFINE Late ==
             \A c \in Callers :
               (/\ mapping # None /\ mapping' = None
                /\ pc[c] = "discard" /\ pc'[c] = "close")
                 => ~(mine[c] < mapping.by /\ HostOf[c] = origin[mapping.by].host)
           Broken ==
             \A c \in Runs :
               (OneAtATime /\ pc[c] = "bind" /\ pc'[c] = "turn") => thread'[c] \notin broken
<1>1. ASSUME SessionsInv, MappingInv, [Next]_vars PROVE [Late]_vars
  <2> SUFFICES ASSUME NEW c \in Callers, mapping # None, mapping' = None,
                      pc[c] = "discard", pc'[c] = "close",
                      HostOf[c] = origin[mapping.by].host
               PROVE  ~(mine[c] < mapping.by)
    OBVIOUS
  <2> USE <1>1, HostFacts, Distinct DEF SessionsInv
  <2>1. \A d \in Callers \ {c} : Progress(d) \/ Begin(d) => pc'[c] = pc[c]
    BY DEF Begin, Progress, Get, CloseReplaced, Launch, NotReady, Refused, Bind, TurnCompletes,
           TurnFails, Ask, Answered, Discard, CloseMine, Goto, TypeOK
  <2>5. \A d \in Callers : TurnEscapes(d) \/ CloseHangs(d) => pc'[c] \in {pc[c], "done"}
    BY DEF TurnEscapes, CloseHangs, Goto, TypeOK
  <2>2. Begin(c) \/ Progress(c)
    BY <2>1, <2>5 DEF Next, ChildExits, ShutdownClears, ShutdownCloses, ShutdownHangs, vars
  <2>3. Discard(c)
    BY <2>2 DEF Begin, Progress, Get, CloseReplaced, Launch, NotReady, Refused, Bind, TurnCompletes,
                TurnFails, Ask, Answered, CloseMine
  <2>4. table[HostOf[c]] = mine[c] /\ mine[c] \in Children /\ HostOf[c] \in Hosts
    BY <2>3 DEF Discard, MineInv, TypeOK
  <2>6. mapping.by \in Children /\ state[mapping.by] # "none"
    BY DEF MappingInv, OrderInv, MappedBy, TypeOK
  <2>7. mapping.by <= mine[c]
    BY <2>4, <2>6 DEF MappingInv, OrderInv, NewestInTable
  <2> QED
    BY <2>4, <2>6, <2>7, SessionsAssumption DEF Children
<1>2. ASSUME SessionsInv, MappingInv, MappingInv', [Next]_vars PROVE [Broken]_vars
  <2> SUFFICES ASSUME NEW c \in Runs, OneAtATime, pc[c] = "bind", pc'[c] = "turn"
               PROVE  thread'[c] \notin broken
    OBVIOUS
  <2>1. c \in Callers
    BY DEF Callers
  <2>2. OneAtATime'
    BY <1>2, AloneKept DEF MappingInv, AloneInv
  <2>3. thread'[c] \notin broken'
    BY <1>2, <2>1, <2>2 DEF MappingInv, AloneInv, BrokenLeaves
  <2>4. broken \subseteq broken'
    BY <1>2, ThreadStep
  <2> QED
    BY <2>3, <2>4
<1>3. Spec => LateFailureKeepsSession
  BY <1>1, SessionsInvariant, MappingInvariant, PTL DEF Spec, LateFailureKeepsSession
<1>4. Spec => BrokenForgotten
  BY <1>2, SessionsInvariant, MappingInvariant, PTL DEF Spec, BrokenForgotten
<1> QED
  BY <1>3, <1>4 DEF MappingFollowsChild

==============================================================================
