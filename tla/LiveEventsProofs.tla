--------------------------- MODULE LiveEventsProofs ---------------------------
(* Theorems about LiveEvents, for any number of runs, turns, records kept, *)
(* mishaps and settings: the journal its writers share is the log that     *)
(* EventLog promises, its numbers have no gap, and a browser that watches  *)
(* it learns and keeps the end of a run.                                   *)
EXTENDS LiveEvents, SequenceTheorems, FiniteSetTheorems, WellFoundedInduction, TLAPS

-----------------------------------------------------------------------------
(* The inductive invariant                                                 *)

(* Records are numbered one after the other.                               *)
Gapless(s) == \A i, j \in DOMAIN s : s[i].seq + j = s[j].seq + i

(* Who has read the journal holds its lock, and has read what is there.    *)
DraftInv ==
  \A w \in Writers : draft[w] # NoDraft =>
    /\ ~setting.watched
    /\ jlock = w /\ draft[w].read = journal
    /\ w[2] = "publisher" => queue[w[1]] # <<>>

IInv == TypeOK /\ DraftInv /\ Gapless(journal)

-----------------------------------------------------------------------------
(* Numbers and sequences of records                                        *)

(* Every set of numbers has a least one.                                   *)
LEMMA Least ==
  ASSUME NEW T \in SUBSET Nat, T # {}
  PROVE  \E x \in T : \A y \in T : x <= y
<1> DEFINE R == {p \in Nat \X Nat : p[1] < p[2]}
<1>1. IsWellFoundedOn(R, Nat)
  BY NatLessThanWellFounded DEF OpToRel
<1>2. PICK x \in T : \A y \in T : <<y, x>> \notin R
  <2> HIDE DEF R
  <2> QED
    BY <1>1, WFMin
<1>3. ASSUME NEW y \in T PROVE ~(y < x)
  BY <1>2
<1>4. \A y \in T : x <= y
  BY <1>3
<1> QED
  BY <1>4

(* Finitely many numbers are bounded.                                      *)
LEMMA BoundedFunction ==
  ASSUME NEW n \in Nat, NEW f \in [1..n -> Nat]
  PROVE  \E b \in Nat : \A i \in 1..n : f[i] <= b
<1> DEFINE B(k) == \E b \in Nat : \A i \in 1..k : f[i] <= b
           T == {k \in Nat : k <= n /\ ~B(k)}
<1>1. SUFFICES ASSUME ~B(n) PROVE FALSE
  OBVIOUS
<1>2. T \in SUBSET Nat /\ n \in T
  BY <1>1
<1>3. PICK k \in T : \A m \in T : k <= m
  <2> HIDE DEF T
  <2> QED
    BY <1>2, Least
<1>4. B(0)
  <2>1. 0 \in Nat /\ \A i \in 1..0 : f[i] <= 0
    OBVIOUS
  <2> QED
    BY <2>1
<1>5. k \in Nat /\ k <= n /\ ~B(k) /\ k # 0
  BY <1>3, <1>4
<1>6. k - 1 \in Nat /\ k - 1 <= n /\ ~(k <= k - 1)
  BY <1>5
<1>7. PICK b \in Nat : \A i \in 1..(k - 1) : f[i] <= b
  BY <1>3, <1>6
<1>8. b + f[k] \in Nat /\ \A i \in 1..k : f[i] <= b + f[k]
  BY <1>5, <1>7
<1> QED
  BY <1>5, <1>8

(* Consecutive numbers stay so when the next is added or the first are cut. *)
Consecutive(n, f) == \A i, j \in 1..n : f[i] + j = f[j] + i

LEMMA ConsecutiveExtended ==
  ASSUME NEW n \in Nat, NEW f \in [1..n -> Nat], Consecutive(n, f),
         NEW g \in [1..(n + 1) -> Nat], \A i \in 1..n : g[i] = f[i],
         n # 0 => g[n + 1] = f[n] + 1
  PROVE  Consecutive(n + 1, g)
<1> SUFFICES ASSUME NEW i \in 1..(n + 1), NEW j \in 1..(n + 1)
             PROVE  g[i] + j = g[j] + i
  BY DEF Consecutive
<1>1. ASSUME NEW k \in 1..n
      PROVE  g[k] + (n + 1) = g[n + 1] + k
  <2>1. f[k] + n = f[n] + k /\ n \in 1..n
    BY DEF Consecutive
  <2>2. g[k] = f[k] /\ g[n + 1] = f[n] + 1
    BY <2>1
  <2>3. f[k] \in Nat /\ f[n] \in Nat /\ k \in Nat
    BY <2>1
  <2>4. ASSUME NEW a \in Nat, NEW b \in Nat, a + n = b + k
        PROVE  a + (n + 1) = (b + 1) + k
    BY <2>3, <2>4
  <2> QED
    BY <2>1, <2>2, <2>3, <2>4
<1>2. CASE i = n + 1
  <2>1. CASE j = n + 1
    BY <1>2, <2>1
  <2>2. CASE j \in 1..n
    BY <1>1, <1>2, <2>2
  <2> QED
    BY <2>1, <2>2
<1>3. CASE i \in 1..n /\ j = n + 1
  BY <1>1, <1>3
<1>4. CASE i \in 1..n /\ j \in 1..n
  BY <1>4 DEF Consecutive
<1> QED
  BY <1>2, <1>3, <1>4

LEMMA ConsecutiveCut ==
  ASSUME NEW n \in Nat, NEW f \in [1..n -> Nat], Consecutive(n, f),
         NEW d \in Nat, NEW m \in Nat, d + m = n,
         NEW g \in [1..m -> Nat], \A i \in 1..m : g[i] = f[d + i]
  PROVE  Consecutive(m, g)
<1> SUFFICES ASSUME NEW i \in 1..m, NEW j \in 1..m
             PROVE  g[i] + j = g[j] + i
  BY DEF Consecutive
<1>1. f[d + i] + (d + j) = f[d + j] + (d + i)
  BY DEF Consecutive
<1>2. g[i] = f[d + i] /\ g[j] = f[d + j] /\ f[d + i] \in Nat /\ f[d + j] \in Nat
  OBVIOUS
<1>3. ASSUME NEW a \in Nat, NEW b \in Nat, a + (d + j) = b + (d + i)
      PROVE  a + j = b + i
  BY <1>3
<1> QED
  BY <1>1, <1>2, <1>3

(* The last of consecutive numbers is the greatest.                        *)
LEMMA LastGreatest ==
  ASSUME NEW n \in Nat, NEW f \in [1..n -> Nat], Consecutive(n, f),
         NEW i \in 1..n, \A j \in 1..n : f[j] <= f[i]
  PROVE  i = n
BY DEF Consecutive

(* The numbers of a sequence of records.                                   *)
Numbers(s) == [i \in 1..Len(s) |-> s[i].seq]

LEMMA NumbersTyped ==
  ASSUME NEW s \in Seq(Record)
  PROVE  /\ Len(s) \in Nat /\ DOMAIN s = 1..Len(s)
         /\ \A i \in DOMAIN s : s[i] \in Record /\ s[i].seq \in Nat
         /\ Numbers(s) \in [1..Len(s) -> Nat]
<1>1. DOMAIN s = 1..Len(s) /\ \A i \in DOMAIN s : s[i] \in Record
  OBVIOUS
<1>2. \A r \in Record : r.seq \in Nat
  BY DEF Record
<1> QED
  BY <1>1, <1>2 DEF Numbers

LEMMA GaplessNumbers ==
  ASSUME NEW s \in Seq(Record)
  PROVE  Gapless(s) <=> Consecutive(Len(s), Numbers(s))
BY NumbersTyped DEF Gapless, Consecutive, Numbers

LEMMA BoundedNumbers ==
  ASSUME NEW s \in Seq(Record)
  PROVE  \E n \in Nat : \A i \in DOMAIN s : s[i].seq <= n
<1>1. PICK n \in Nat : \A i \in 1..Len(s) : Numbers(s)[i] <= n
  BY NumbersTyped, BoundedFunction
<1>2. \A i \in DOMAIN s : Numbers(s)[i] = s[i].seq
  BY NumbersTyped DEF Numbers
<1> QED
  BY <1>1, <1>2, NumbersTyped

(* The latest of some records of a sequence is one of them.                *)
LEMMA LatestThere ==
  ASSUME NEW s \in Seq(Record), NEW S \in SUBSET Records(s), S # {}
  PROVE  LatestOf(S) \in S /\ \A e \in S : e.seq <= LatestOf(S).seq
<1>1. \A e \in S : e.seq \in Nat
  BY NumbersTyped DEF Records
<1> DEFINE T == {n \in Nat : \A e \in S : e.seq <= n}
<1>2. T # {}
  <2>1. PICK n \in Nat : \A i \in DOMAIN s : s[i].seq <= n
    BY BoundedNumbers
  <2> QED
    BY <2>1 DEF Records
<1>3. PICK m \in T : \A n \in T : m <= n
  BY <1>2, Least
<1>4. \E e \in S : e.seq = m
  <2> SUFFICES ASSUME \A e \in S : e.seq # m PROVE FALSE
    OBVIOUS
  <2>1. m # 0 /\ m \in Nat
    BY <1>1, <1>3
  <2>2. m - 1 \in T
    BY <1>1, <1>3, <2>1
  <2> QED
    BY <1>3, <2>1, <2>2
<1>5. \E e \in S : \A f \in S : f.seq <= e.seq
  BY <1>3, <1>4
<1> QED
  BY <1>5 DEF LatestOf

LEMMA NewestTyped ==
  ASSUME NEW s \in Seq(Record)
  PROVE  Newest(s).seq \in Nat /\ RunOf(s) \in Runs \cup {None}
<1>1. CASE Records(s) = {}
  BY <1>1 DEF Newest, RunOf, LatestOf, NoRecord, NoEvent, Event, None
<1>2. CASE Records(s) # {}
  <2>1. Newest(s) \in Record
    BY <1>2, LatestThere DEF Newest, Records
  <2> QED
    BY <2>1 DEF Record, Events, RunOf
<1> QED
  BY <1>1, <1>2

(* In a gapless sequence the newest record is the last.                    *)
LEMMA NewestLast ==
  ASSUME NEW s \in Seq(Record), Gapless(s)
  PROVE  Newest(s).seq = IF s = <<>> THEN 0 ELSE s[Len(s)].seq
<1>1. CASE s = <<>>
  BY <1>1 DEF Newest, Records, LatestOf, NoRecord
<1>2. CASE s # <<>>
  <2>1. Len(s) \in DOMAIN s
    BY <1>2
  <2>2. Newest(s) \in Records(s) /\ \A e \in Records(s) : e.seq <= Newest(s).seq
    BY <2>1, LatestThere DEF Newest, Records
  <2>3. PICK i \in DOMAIN s : Newest(s) = s[i]
    BY <2>2 DEF Records
  <2>4. \A j \in DOMAIN s : Numbers(s)[j] <= Numbers(s)[i]
    BY <2>2, <2>3, NumbersTyped DEF Records, Numbers
  <2>5. i = Len(s)
    BY <2>4, NumbersTyped, GaplessNumbers, LastGreatest
  <2> QED
    BY <1>2, <2>3, <2>5
<1> QED
  BY <1>1, <1>2

(* A record more keeps the numbers gapless, and a cut at the front too.    *)
LEMMA NumberedGapless ==
  ASSUME NEW s \in Seq(Record), Gapless(s), NEW e \in Events
  PROVE  Numbered(s, e) \in Seq(Record) /\ Gapless(Numbered(s, e))
<1> DEFINE rec == [seq |-> Newest(s).seq + 1, event |-> e]
           t == Append(s, rec)
<1>1. rec \in Record
  <2>1. Newest(s).seq \in Nat
    BY NewestTyped
  <2> QED
    BY <2>1 DEF Record
<1>2. Numbered(s, e) = t
  BY DEF Numbered
<1>3. rec.seq = Newest(s).seq + 1
  OBVIOUS
<1> HIDE DEF rec
<1>4. /\ t \in Seq(Record) /\ Len(t) = Len(s) + 1
      /\ \A i \in 1..Len(s) : t[i] = s[i]
      /\ t[Len(s) + 1] = rec
  BY <1>1
<1> HIDE DEF t
<1>5. /\ Len(s) \in Nat /\ Numbers(s) \in [1..Len(s) -> Nat]
      /\ Numbers(t) \in [1..(Len(s) + 1) -> Nat]
  BY <1>4, NumbersTyped
<1>6. \A i \in 1..Len(s) : Numbers(t)[i] = Numbers(s)[i]
  BY <1>4, <1>5 DEF Numbers
<1>7. Len(s) # 0 => Numbers(t)[Len(s) + 1] = Numbers(s)[Len(s)] + 1
  <2> SUFFICES ASSUME Len(s) # 0
               PROVE  Numbers(t)[Len(s) + 1] = Numbers(s)[Len(s)] + 1
    OBVIOUS
  <2>1. Numbers(t)[Len(s) + 1] = rec.seq
    BY <1>4, <1>5 DEF Numbers
  <2>2. Numbers(s)[Len(s)] = Newest(s).seq
    BY <1>5, NewestLast DEF Numbers
  <2> QED
    BY <1>3, <2>1, <2>2
<1>8. Consecutive(Len(s), Numbers(s))
  BY GaplessNumbers
<1>9. Consecutive(Len(s) + 1, Numbers(t))
  BY <1>5, <1>6, <1>7, <1>8, ConsecutiveExtended
<1> QED
  BY <1>2, <1>4, <1>9, GaplessNumbers

LEMMA BoundedGapless ==
  ASSUME NEW s \in Seq(Record), Gapless(s)
  PROVE  Bounded(s) \in Seq(Record) /\ Gapless(Bounded(s)) /\ Len(Bounded(s)) <= Keep
<1>1. CASE ~(Len(s) > Keep)
  BY <1>1, LiveAssumption DEF Bounded
<1>2. CASE Len(s) > Keep
  <2> DEFINE t == SubSeq(s, Len(s) - Keep + 1, Len(s))
             d == Len(s) - Keep
  <2>1. /\ Len(s) \in Nat /\ Keep \in Nat /\ d \in Nat /\ d + Keep = Len(s)
    BY <1>2, LiveAssumption
  <2>2. /\ t \in Seq(Record) /\ Len(t) = Keep
        /\ \A i \in 1..Keep : t[i] = s[d + i]
    BY <2>1
  <2>3. Bounded(s) = t
    BY <1>2 DEF Bounded
  <2> HIDE DEF t, d
  <2>4. /\ Numbers(s) \in [1..Len(s) -> Nat] /\ Numbers(t) \in [1..Keep -> Nat]
    BY <2>2, NumbersTyped
  <2>5. \A i \in 1..Keep : Numbers(t)[i] = Numbers(s)[d + i]
    BY <2>1, <2>2 DEF Numbers
  <2>6. Consecutive(Len(s), Numbers(s))
    BY GaplessNumbers
  <2>7. Consecutive(Keep, Numbers(t))
    BY <2>1, <2>4, <2>5, <2>6, ConsecutiveCut
  <2> QED
    BY <2>1, <2>2, <2>3, <2>7, GaplessNumbers
<1> QED
  BY <1>1, <1>2

-----------------------------------------------------------------------------
(* Typing                                                                  *)

Labels ==
  {"idle", "marking", "begin", "work", "turn", "end", "ended", "late", "done", "dead"}

LEMMA PendingTyped ==
  ASSUME TypeOK, NEW w \in Writers, NEW e \in Pending(w)
  PROVE  e \in Events
<1>1. w[1] \in Runs /\ w[2] \in {"run", "publisher"}
  BY DEF Writers
<1>2. CASE w[2] = "publisher"
  <2>1. queue[w[1]] # <<>> /\ e = Head(queue[w[1]]) /\ queue[w[1]] \in Seq(Events)
    BY <1>1, <1>2 DEF Pending, TypeOK
  <2> QED
    BY <2>1
<1>3. CASE w[2] = "run"
  <2>1. PICK s \in Terminal \cup {"started"} : e = Event(w[1], "run", s)
    BY <1>3 DEF Pending, Terminal
  <2> QED
    BY <1>1, <2>1 DEF Events, Event
<1> QED
  BY <1>1, <1>2, <1>3

(* A notification waits until its publisher has tried to write it.         *)
LEMMA PendingWaits ==
  ASSUME NEW w \in Writers, Pending(w) # {}, w[2] = "publisher"
  PROVE  queue[w[1]] # <<>>
BY DEF Pending

LEMMA GoOnTyped ==
  ASSUME TypeOK, NEW w \in Writers, GoOn(w), w[2] = "publisher" => queue[w[1]] # <<>>
  PROVE  pc' \in [Runs -> Labels] /\ queue' \in [Runs -> Seq(Events)]
<1>1. w[1] \in Runs /\ pc \in [Runs -> Labels] /\ queue \in [Runs -> Seq(Events)]
  BY DEF Writers, TypeOK, Labels
<1>2. CASE w[2] = "publisher"
  <2>1. Tail(queue[w[1]]) \in Seq(Events)
    BY <1>1, <1>2
  <2> QED
    BY <1>1, <1>2, <2>1 DEF GoOn
<1>3. CASE w[2] # "publisher"
  <2>1. PICK label \in Labels : pc' = [pc EXCEPT ![w[1]] = label] /\ UNCHANGED queue
    BY <1>3 DEF GoOn, Labels
  <2> QED
    BY <1>1, <2>1
<1> QED
  BY <1>2, <1>3

(* What the journal is replaced by.                                        *)
LEMMA AddedTyped ==
  ASSUME NEW s \in Seq(Record), Gapless(s), NEW e \in Events
  PROVE  /\ Bounded(Numbered(s, e)) \in Seq(Record)
         /\ Len(Bounded(Numbered(s, e))) <= Keep
         /\ Gapless(Bounded(Numbered(s, e)))
BY NumberedGapless, BoundedGapless

(* What a snapshot and a replay hold.                                      *)
LEMMA SnapshotTyped ==
  ASSUME NEW view \in Seq(Record)
  PROVE  Snapshot(view) \in Shown(States)
<1>1. RunOf(view) \in Runs \cup {None} /\ Newest(view).seq \in Nat
  BY NewestTyped
<1>2. StateOf(view) \in States
  BY DEF StateOf, States
<1> QED
  BY <1>1, <1>2 DEF Snapshot, Shown

LEMMA HigherTyped ==
  ASSUME NEW a \in Nat, NEW b \in Int
  PROVE  Higher(a, b) \in Nat
BY DEF Higher

LEMMA AfterTyped ==
  ASSUME TypeOK, NEW cursor
  PROVE  After(cursor) \in Seq(Record)
<1> DEFINE old == {i \in DOMAIN journal : journal[i].seq <= cursor}
<1>1. journal \in Seq(Record) /\ Len(journal) \in Nat /\ DOMAIN journal = 1..Len(journal)
  BY DEF TypeOK
<1>2. Cardinality(old) \in Nat
  <2>1. IsFiniteSet(1..Len(journal))
    BY <1>1, FS_Interval
  <2>2. old \subseteq 1..Len(journal)
    BY <1>1
  <2>3. IsFiniteSet(old)
    BY <2>1, <2>2, FS_Subset
  <2> QED
    BY <2>3, FS_CardinalityType
<1>3. MaxReplay \in Nat
  BY LiveAssumption
<1>4. PICK n \in Nat : n = Higher(Cardinality(old), Len(journal) - MaxReplay)
  <2>1. Len(journal) - MaxReplay \in Int
    BY <1>1, <1>3
  <2> QED
    BY <1>2, <2>1, HigherTyped
<1>5. After(cursor) = SubSeq(journal, n + 1, Len(journal))
  BY <1>4 DEF After
<1> QED
  BY <1>1, <1>5

LEMMA ShowEventTyped ==
  ASSUME TypeOK, NEW rec \in Record, ShowEvent(rec)
  PROVE  client' \in Shown(States)
<1>1. rec.seq \in Nat /\ rec.event \in Events /\ rec.event.run \in Runs
  BY DEF Record, Events
<1>2. client.state \in States /\ client.run \in Runs \cup {None} /\ client.cursor \in Nat
  BY DEF TypeOK, Shown
<1>3. Higher(client.cursor, rec.seq) \in Nat
  <2>1. rec.seq \in Int
    BY <1>1
  <2> QED
    BY <1>2, <2>1, HigherTyped
<1>4. \A st \in States : Told(st, rec.event) \in States
  BY DEF Told, States
<1>5. "IDLE" \in States
  BY DEF States
<1>6. PICK st, r :
        /\ client' = [state |-> st, run |-> r, cursor |-> Higher(client.cursor, rec.seq)]
        /\ \/ st \in {"IDLE", client.state}
           \/ st \in {Told("IDLE", rec.event), Told(client.state, rec.event)}
        /\ r \in {rec.event.run, client.run}
  BY DEF ShowEvent
<1>7. st \in States /\ r \in Runs \cup {None}
  BY <1>1, <1>2, <1>4, <1>5, <1>6
<1> QED
  BY <1>3, <1>6, <1>7 DEF Shown

LEMMA TypeInit ==
  ASSUME Init
  PROVE  TypeOK
<1> USE DEF Init
<1>1. setting.turns \in Nat /\ Keep \in Nat
  BY LiveAssumption
<1>2. \A r \in Runs : turns[r] \in 0..setting.turns
  BY <1>1
<1>3. stream \in Stream /\ client \in Shown(States)
  BY DEF Stream, Shown, States, NoSnapshot, None
<1>4. journal \in Seq(Record) /\ Len(journal) <= Keep
  BY <1>1
<1>5. marker \in [run : Runs \cup {None}, written : BOOLEAN] /\ queue \in [Runs -> Seq(Events)]
  BY DEF None
<1>6. draft \in [Writers -> Draft \cup {NoDraft}]
  OBVIOUS
<1> QED
  BY <1>2, <1>3, <1>4, <1>5, <1>6 DEF TypeOK

(* A run goes on: nothing of the journal or the stream changes.            *)
LEMMA RunStepTyped ==
  ASSUME TypeOK, NEW r \in Runs, RunStep(r)
  PROVE  TypeOK'
<1>1. pc \in [Runs -> Labels] /\ setting.turns \in Nat
  BY LiveAssumption DEF TypeOK, Labels
<1>2. UNCHANGED <<setting, journal, jlock, draft, fresh, stream, client>>
  BY DEF RunStep, Acquire, Mark, TurnStarts, TurnEnds, BodyEnds, Release, journalVars
<1>3. pc' \in [Runs -> Labels]
  BY <1>1
     DEF RunStep, Acquire, Mark, TurnStarts, TurnEnds, BodyEnds, Release, Labels
<1>4. turns' \in [Runs -> 0..setting.turns]
  <2>1. CASE TurnStarts(r)
    <3>1. turns[r] \in 0..setting.turns /\ turns[r] < setting.turns
      BY <2>1 DEF TurnStarts, TypeOK
    <3>2. turns[r] + 1 \in 0..setting.turns
      BY <1>1, <3>1
    <3> QED
      BY <2>1, <3>2 DEF TurnStarts, TypeOK
  <2>2. CASE UNCHANGED turns
    BY <2>2 DEF TypeOK
  <2> QED
    BY <2>1, <2>2 DEF RunStep, Acquire, Mark, TurnEnds, BodyEnds, Release
<1>5. queue' \in [Runs -> Seq(Events)]
  <2>1. ASSUME NEW kind, NEW state, Event(r, kind, state) \in Events, Notify(r, kind, state)
        PROVE  queue' \in [Runs -> Seq(Events)]
    <3>1. queue \in [Runs -> Seq(Events)]
      BY DEF TypeOK
    <3>2. Append(queue[r], Event(r, kind, state)) \in Seq(Events)
      BY <2>1, <3>1
    <3> QED
      BY <2>1, <3>1, <3>2 DEF Notify
  <2>2. /\ Event(r, "turn", "started") \in Events
        /\ Event(r, "turn", "completed") \in Events
        /\ Event(r, "error", "failed") \in Events
    BY DEF Events, Event
  <2>3. CASE UNCHANGED queue
    BY <2>3 DEF TypeOK
  <2> QED
    BY <2>1, <2>2, <2>3 DEF RunStep, Acquire, Mark, TurnStarts, TurnEnds, BodyEnds, Release
<1>6. marker' \in [run : Runs \cup {None}, written : BOOLEAN]
  <2>1. \/ UNCHANGED marker
        \/ \E n \in {r, None} : marker' = [run |-> n, written |-> FALSE]
        \/ marker' = [marker EXCEPT !.written = TRUE]
    BY DEF RunStep, Acquire, Mark, TurnStarts, TurnEnds, BodyEnds, Release
  <2>2. marker \in [run : Runs \cup {None}, written : BOOLEAN] /\ r \in Runs
    BY DEF TypeOK
  <2>3. ASSUME NEW n \in {r, None}
        PROVE  [run |-> n, written |-> FALSE] \in [run : Runs \cup {None}, written : BOOLEAN]
    BY <2>2
  <2>4. [marker EXCEPT !.written = TRUE] \in [run : Runs \cup {None}, written : BOOLEAN]
    BY <2>2
  <2> QED
    BY <2>1, <2>2, <2>3, <2>4
<1> QED
  BY <1>2, <1>3, <1>4, <1>5, <1>6 DEF TypeOK, Labels

LEMMA DiesTyped ==
  ASSUME TypeOK, NEW r \in Runs, Dies(r)
  PROVE  TypeOK'
<1>1. UNCHANGED <<setting, turns, marker, journal, fresh, stream, client>>
  BY DEF Dies
<1>2. pc' \in [Runs -> Labels] /\ queue' \in [Runs -> Seq(Events)]
  BY DEF Dies, TypeOK, Labels
<1>3. jlock' \in Writers \cup {Nobody}
  BY DEF Dies, TypeOK
<1>4. draft' \in [Writers -> Draft \cup {NoDraft}]
  BY DEF Dies, TypeOK
<1> QED
  BY <1>1, <1>2, <1>3, <1>4 DEF TypeOK, Labels

LEMMA WriteTyped ==
  ASSUME IInv, NEW w \in Writers, Write(w)
  PROVE  TypeOK'
<1>1. UNCHANGED <<setting, turns, marker, stream, client>>
  BY DEF Write, ReadRecords, ReplaceJournal, AppendAtOnce, AppendFails, runVars
<1>2. /\ journal \in Seq(Record) /\ Gapless(journal)
      /\ draft \in [Writers -> Draft \cup {NoDraft}]
      /\ jlock \in Writers \cup {Nobody} /\ fresh \in BOOLEAN
      /\ pc \in [Runs -> Labels] /\ queue \in [Runs -> Seq(Events)]
      /\ \A e \in Pending(w) : e \in Events
      /\ TypeOK
  BY PendingTyped DEF IInv, TypeOK, Labels
<1>3. CASE ReadRecords(w)
  <2>1. PICK e \in Pending(w) : draft' = [draft EXCEPT ![w] = [event |-> e, read |-> journal]]
    BY <1>3 DEF ReadRecords
  <2>2. [event |-> e, read |-> journal] \in Draft
    BY <1>2 DEF Draft
  <2>3. draft' \in [Writers -> Draft \cup {NoDraft}] /\ jlock' \in Writers \cup {Nobody}
    BY <1>2, <1>3, <2>1, <2>2 DEF ReadRecords
  <2> QED
    BY <1>2, <1>3, <2>3 DEF ReadRecords, runVars, TypeOK
<1>4. CASE ReplaceJournal(w)
  <2>1. draft[w].read = journal /\ draft[w].event \in Events
    BY <1>2, <1>4 DEF ReplaceJournal, IInv, DraftInv, Draft
  <2>2. journal' \in Seq(Record) /\ Len(journal') <= Keep
    BY <1>2, <1>4, <2>1, AddedTyped DEF ReplaceJournal
  <2>3. pc' \in [Runs -> Labels] /\ queue' \in [Runs -> Seq(Events)]
    BY <1>2, <1>4, GoOnTyped DEF ReplaceJournal, IInv, DraftInv
  <2>4. draft' \in [Writers -> Draft \cup {NoDraft}] /\ jlock' \in Writers \cup {Nobody} /\ fresh' \in BOOLEAN
    BY <1>2, <1>4 DEF ReplaceJournal
  <2> QED
    BY <1>1, <1>2, <2>2, <2>3, <2>4 DEF TypeOK, Labels
<1>5. CASE AppendAtOnce(w)
  <2>1. PICK e \in Pending(w) : journal' = Bounded(Numbered(journal, e))
    BY <1>5 DEF AppendAtOnce
  <2>2. journal' \in Seq(Record) /\ Len(journal') <= Keep
    BY <1>2, <2>1, AddedTyped
  <2>3. pc' \in [Runs -> Labels] /\ queue' \in [Runs -> Seq(Events)]
    BY <1>2, <1>5, <2>1, GoOnTyped, PendingWaits DEF AppendAtOnce
  <2>4. UNCHANGED <<draft, jlock>> /\ fresh' \in BOOLEAN
    BY <1>5 DEF AppendAtOnce
  <2> QED
    BY <1>1, <1>2, <2>2, <2>3, <2>4 DEF TypeOK, Labels
<1>6. CASE AppendFails(w)
  <2>1. w[2] = "publisher" => queue[w[1]] # <<>>
    BY <1>6, PendingWaits DEF AppendFails, IInv, DraftInv
  <2>2. pc' \in [Runs -> Labels] /\ queue' \in [Runs -> Seq(Events)]
    BY <1>2, <1>6, <2>1, GoOnTyped DEF AppendFails
  <2>3. draft' \in [Writers -> Draft \cup {NoDraft}] /\ jlock' \in Writers \cup {Nobody}
        /\ UNCHANGED <<journal, fresh>>
    BY <1>2, <1>6 DEF AppendFails
  <2> QED
    BY <1>1, <1>2, <2>2, <2>3 DEF TypeOK, Labels
<1> QED
  BY <1>3, <1>4, <1>5, <1>6 DEF Write

(* The stream serves the browser: nothing of the runs or the journal       *)
(* changes.                                                                *)
LEMMA ServeTyped ==
  ASSUME TypeOK, Serve \/ ConnectionLost
  PROVE  TypeOK'
<1>1. /\ stream \in Stream /\ client \in Shown(States) /\ journal \in Seq(Record)
      /\ stream.cursor \in Nat /\ stream.batch \in Seq(Record) /\ stream.view \in Seq(Record)
      /\ client.cursor \in Nat
  BY DEF TypeOK, Stream, Shown
<1>2. SUFFICES stream' \in Stream /\ client' \in Shown(States)
  BY DEF TypeOK, Serve, Connect, ReadJournal, ReadMarker, Replay, Poll, Send, ConnectionLost,
         Quiet, runVars, journalVars
<1>3. CASE Connect
  BY <1>1, <1>3 DEF Connect, Stream
<1>4. CASE ReadJournal
  BY <1>1, <1>4 DEF ReadJournal, Stream
<1>5. CASE ReadMarker
  <2>1. Snapshot(stream.view) \in Shown(States)
    BY <1>1, SnapshotTyped
  <2> DEFINE s == Snapshot(stream.view)
  <2>2. PICK p \in {"replay", "loop"}, c \in {stream.cursor, Higher(stream.cursor, s.cursor)} :
          /\ stream' = [stream EXCEPT !.phase = p, !.cursor = c, !.shown = s, !.view = <<>>]
          /\ \/ UNCHANGED client
             \/ client' = [state |-> s.state, run |-> s.run, cursor |-> Higher(client.cursor, s.cursor)]
    BY <1>5 DEF ReadMarker, ShowSnapshot
  <2> HIDE DEF s
  <2>3. s.cursor \in Nat /\ s.cursor \in Int /\ s.state \in States /\ s.run \in Runs \cup {None}
    BY <2>1 DEF Shown, s
  <2>4. c \in Nat /\ Higher(client.cursor, s.cursor) \in Nat
    BY <1>1, <2>2, <2>3, HigherTyped
  <2>5. s \in Shown(States \cup {"none"}) /\ <<>> \in Seq(Record)
    BY <2>1 DEF Shown, s
  <2>6. stream' \in Stream
    BY <1>1, <2>2, <2>4, <2>5 DEF Stream
  <2> QED
    BY <1>1, <2>2, <2>3, <2>4, <2>6 DEF Shown
<1>6. CASE Replay
  <2>1. After(stream.cursor) \in Seq(Record)
    BY AfterTyped
  <2> QED
    BY <1>1, <1>6, <2>1 DEF Replay, Stream
<1>7. CASE Poll
  <2>1. After(stream.cursor) \in Seq(Record)
    BY AfterTyped
  <2>2. \/ stream' = [stream EXCEPT !.batch = After(stream.cursor), !.phase = "send", !.why = "events"]
        \/ stream' = [stream EXCEPT !.phase = "read", !.why = "beat"]
    BY <1>7 DEF Poll
  <2> QED
    BY <1>1, <1>7, <2>1, <2>2 DEF Poll, Stream
<1>8. CASE Send /\ stream.batch = <<>>
  <2>1. PICK p \in {"loop", "read"} : stream' = [stream EXCEPT !.phase = p]
    BY <1>8 DEF Send
  <2> QED
    BY <1>1, <1>8, <2>1 DEF Send, Stream
<1>9. CASE Send /\ stream.batch # <<>>
  <2>1. /\ ShowEvent(Head(stream.batch))
        /\ stream' = [stream EXCEPT !.batch = Tail(stream.batch),
                                    !.cursor = Higher(stream.cursor, Head(stream.batch).seq)]
    BY <1>9 DEF Send
  <2>2. Head(stream.batch) \in Record /\ Tail(stream.batch) \in Seq(Record)
    BY <1>1, <1>9
  <2>3. Head(stream.batch).seq \in Int
    BY <2>2 DEF Record
  <2>4. Higher(stream.cursor, Head(stream.batch).seq) \in Nat
    BY <1>1, <2>3, HigherTyped
  <2> QED
    BY <1>1, <2>1, <2>2, <2>4, ShowEventTyped DEF Stream
<1>10. CASE ConnectionLost
  <2>1. NoSnapshot \in Shown(States \cup {"none"}) /\ <<>> \in Seq(Record)
    BY DEF NoSnapshot, Shown
  <2> QED
    BY <1>1, <1>10, <2>1 DEF ConnectionLost, Stream
<1> QED
  BY <1>3, <1>4, <1>5, <1>6, <1>7, <1>8, <1>9, <1>10 DEF Serve

-----------------------------------------------------------------------------
(* Who writes                                                              *)

LEMMA DraftInit ==
  ASSUME Init
  PROVE  DraftInv /\ Gapless(journal)
BY DEF Init, DraftInv, Gapless

LEMMA DraftStep ==
  ASSUME IInv, [Next]_vars
  PROVE  DraftInv'
<1>1. /\ draft \in [Writers -> Draft \cup {NoDraft}] /\ DraftInv
      /\ queue \in [Runs -> Seq(Events)]
      /\ \A w \in Writers : w = <<w[1], w[2]>> /\ w[1] \in Runs
      /\ Nobody \notin Writers
  BY DEF IInv, TypeOK, Writers, Nobody
<1>2. ASSUME NEW r \in Runs, RunStep(r)
      PROVE  DraftInv'
  <2>1. UNCHANGED <<setting, journal, jlock, draft>>
    BY <1>2 DEF RunStep, Acquire, Mark, TurnStarts, TurnEnds, BodyEnds, Release, journalVars
  <2>2. \A s \in Runs : queue[s] # <<>> => queue'[s] # <<>>
    <3>1. \/ UNCHANGED queue
          \/ \E e \in Events : queue' = [queue EXCEPT ![r] = Append(queue[r], e)]
      BY <1>2
         DEF RunStep, Acquire, Mark, TurnStarts, TurnEnds, BodyEnds, Release, Notify, Event, Events
    <3>2. ASSUME NEW e \in Events PROVE Append(queue[r], e) # <<>>
      <4>1. queue[r] \in Seq(Events)
        BY <1>1
      <4> QED
        BY <4>1, AppendProperties
    <3> QED
      BY <1>1, <3>1, <3>2
  <2> QED
    BY <1>1, <2>1, <2>2 DEF DraftInv
<1>3. ASSUME NEW r \in Runs, Dies(r)
      PROVE  DraftInv'
  <2>1. /\ UNCHANGED <<setting, journal>>
        /\ queue' = [queue EXCEPT ![r] = <<>>]
        /\ jlock' = IF jlock[1] = r THEN Nobody ELSE jlock
        /\ draft' = [w \in Writers |-> IF w[1] = r THEN NoDraft ELSE draft[w]]
    BY <1>3 DEF Dies
  <2> QED
    BY <1>1, <2>1 DEF DraftInv
<1>4. ASSUME NEW w \in Writers, ReadRecords(w)
      PROVE  DraftInv'
  <2>1. PICK e \in Pending(w) : draft' = [draft EXCEPT ![w] = [event |-> e, read |-> journal]]
    BY <1>4 DEF ReadRecords
  <2>2. ~setting.watched /\ jlock = Nobody /\ jlock' = w /\ UNCHANGED <<setting, journal, queue>>
    BY <1>4 DEF ReadRecords, runVars
  <2>3. ASSUME NEW v \in Writers, draft'[v] # NoDraft
        PROVE  v = w
    BY <1>1, <2>1, <2>2, <2>3 DEF DraftInv
  <2> QED
    BY <1>1, <2>1, <2>2, <2>3, PendingWaits DEF DraftInv
<1>5. ASSUME NEW w \in Writers, ReplaceJournal(w) \/ (AppendFails(w) /\ draft[w] # NoDraft)
      PROVE  DraftInv'
  <2>1. draft[w] # NoDraft /\ draft' = [draft EXCEPT ![w] = NoDraft]
    BY <1>5 DEF ReplaceJournal, AppendFails
  <2>2. ASSUME NEW v \in Writers PROVE draft'[v] = NoDraft
    BY <1>1, <2>1 DEF DraftInv
  <2> QED
    BY <2>2 DEF DraftInv
<1>6. ASSUME NEW w \in Writers, AppendAtOnce(w) \/ (AppendFails(w) /\ draft[w] = NoDraft)
      PROVE  DraftInv'
  <2>1. setting.watched /\ UNCHANGED draft
    <3>1. AppendFails(w) /\ draft[w] = NoDraft =>
            setting.watched /\ draft' = [draft EXCEPT ![w] = NoDraft]
      BY DEF AppendFails
    <3> QED
      BY <1>1, <1>6, <3>1 DEF AppendAtOnce
  <2>2. ASSUME NEW v \in Writers PROVE draft'[v] = NoDraft
    BY <1>1, <2>1 DEF DraftInv
  <2> QED
    BY <2>2 DEF DraftInv
<1>7. CASE UNCHANGED <<setting, jlock, draft, queue, journal>>
  <2>1. setting' = setting /\ jlock' = jlock /\ draft' = draft /\ queue' = queue /\ journal' = journal
    BY <1>7
  <2> QED
    BY <1>1, <2>1 DEF DraftInv
<1>8. TimePasses \/ Serve \/ ConnectionLost => UNCHANGED <<setting, jlock, draft, queue, journal>>
  BY DEF TimePasses, Serve, Connect, ReadJournal, ReadMarker, Replay, Poll, Send, ConnectionLost,
         Quiet, runVars, journalVars
<1> QED
  BY <1>2, <1>3, <1>4, <1>5, <1>6, <1>7, <1>8 DEF Next, Write, vars, runVars, journalVars

(* The journal changes by a record more, or not at all.                    *)
LEMMA JournalStep ==
  ASSUME IInv, [Next]_vars
  PROVE  \/ UNCHANGED journal
         \/ \E e \in Events : journal' = Bounded(Numbered(journal, e))
<1>1. ASSUME NEW w \in Writers, ReplaceJournal(w)
      PROVE  \E e \in Events : journal' = Bounded(Numbered(journal, e))
  <2>1. draft[w] # NoDraft /\ journal' = Bounded(Numbered(draft[w].read, draft[w].event))
    BY <1>1 DEF ReplaceJournal
  <2>2. draft[w].read = journal /\ draft[w].event \in Events
    BY <2>1 DEF IInv, DraftInv, TypeOK, Draft
  <2> QED
    BY <2>1, <2>2
<1>2. ASSUME NEW w \in Writers, AppendAtOnce(w)
      PROVE  \E e \in Events : journal' = Bounded(Numbered(journal, e))
  BY <1>2, PendingTyped DEF AppendAtOnce, IInv
<1>3. ASSUME NEW w \in Writers, ReadRecords(w) \/ AppendFails(w)
      PROVE  UNCHANGED journal
  BY <1>3 DEF ReadRecords, AppendFails
<1>4. ASSUME NEW r \in Runs, RunStep(r) \/ Dies(r)
      PROVE  UNCHANGED journal
  BY <1>4
     DEF RunStep, Acquire, Mark, TurnStarts, TurnEnds, BodyEnds, Release, Dies, journalVars
<1>5. CASE TimePasses \/ Serve \/ ConnectionLost \/ UNCHANGED vars
  BY <1>5
     DEF TimePasses, Serve, Connect, ReadJournal, ReadMarker, Replay, Poll, Send, ConnectionLost,
         Quiet, vars, journalVars
<1> QED
  BY <1>1, <1>2, <1>3, <1>4, <1>5 DEF Next, Write

LEMMA InvInit ==
  ASSUME Init
  PROVE  IInv
BY TypeInit, DraftInit DEF IInv

LEMMA InvStep ==
  ASSUME IInv, [Next]_vars
  PROVE  IInv'
<1>1. TypeOK'
  <2>1. CASE UNCHANGED vars \/ TimePasses
    BY <2>1 DEF IInv, TypeOK, vars, runVars, journalVars, TimePasses
  <2> QED
    BY <2>1, RunStepTyped, DiesTyped, WriteTyped, ServeTyped DEF Next, IInv
<1>2. DraftInv'
  BY DraftStep
<1>3. Gapless(journal)'
  <2>1. journal \in Seq(Record) /\ Gapless(journal)
    BY DEF IInv, TypeOK
  <2>2. CASE UNCHANGED journal
    BY <2>1, <2>2 DEF Gapless
  <2>3. ASSUME NEW e \in Events, journal' = Bounded(Numbered(journal, e))
        PROVE  Gapless(journal')
    BY <2>1, <2>3, AddedTyped
  <2>4. Gapless(journal') => Gapless(journal)'
    BY DEF Gapless
  <2> QED
    BY <2>2, <2>3, <2>4, JournalStep
<1> QED
  BY <1>1, <1>2, <1>3 DEF IInv

-----------------------------------------------------------------------------
(* Theorems                                                                *)

(* Whoever holds the journal's lock has read what is there, and the        *)
(* records in it are numbered without a gap.                               *)
THEOREM Invariant == Spec => []IInv
<1> QED
  BY InvInit, InvStep, PTL DEF Spec

(* Runs, journal, stream and browser keep their types; the journal never   *)
(* holds more than it may.                                                 *)
THEOREM TypeCorrect == Spec => []TypeOK
<1>1. IInv => TypeOK
  BY DEF IInv
<1> QED
  BY <1>1, Invariant, PTL

(* Between records that are in the journal at the same time, no number is  *)
(* missing, whoever failed or died while writing.                          *)
THEOREM NoGaps == Spec => []Gapless(journal)
<1>1. IInv => Gapless(journal)
  BY DEF IInv
<1> QED
  BY <1>1, Invariant, PTL

(* Every change of the journal, whoever makes it in whatever process and   *)
(* whoever fails or dies half way, is one of EventLog: the record gets the *)
(* number after the latest, and only the oldest are cut.                   *)
THEOREM Refinement == Spec => ImplementsEventLog
<1>1. Init => Log!Init
  BY DEF Init, Log!Init
<1>2. ASSUME IInv, [Next]_vars
      PROVE  [Log!Next]_journal
  <2>1. journal \in Seq(Record) /\ Gapless(journal)
    BY <1>2 DEF IInv, TypeOK
  <2>2. Newest(journal).seq = Log!Latest
    BY <2>1, NewestLast DEF Log!Latest
  <2>3. ASSUME NEW e \in Events, journal' = Bounded(Numbered(journal, e))
        PROVE  Log!Record(e)
    BY <2>2, <2>3 DEF Log!Record, Log!Cut, Bounded, Numbered
  <2> QED
    BY <1>2, <2>3, JournalStep DEF Log!Next
<1> QED
  BY <1>1, <1>2, Invariant, PTL DEF Spec, ImplementsEventLog, Log!Spec

-----------------------------------------------------------------------------
(* What the browser shows: sequences of records by their numbers           *)

Top(s) == Newest(s).seq

LEMMA TopFacts ==
  ASSUME NEW s \in Seq(Record), Gapless(s)
  PROVE  /\ Top(s) \in Nat
         /\ \A f \in Records(s) : f \in Record /\ f.seq \in Nat /\ f.seq <= Top(s)
         /\ \A f, g \in Records(s) : f.seq = g.seq => f = g
         /\ s = <<>> => Top(s) = 0 /\ Records(s) = {}
         /\ s # <<>> => /\ Newest(s) \in Records(s) /\ s[Len(s)] \in Records(s)
                        /\ s[Len(s)].seq = Top(s)
                        /\ Head(s) \in Records(s) /\ \A f \in Records(s) : Head(s).seq <= f.seq
<1>1. Top(s) \in Nat
  BY NewestTyped DEF Top
<1>2. /\ Len(s) \in Nat /\ DOMAIN s = 1..Len(s)
      /\ \A i \in DOMAIN s : s[i] \in Record /\ s[i].seq \in Nat /\ i \in Nat
  BY NumbersTyped
<1>3. \A f \in Records(s) : f \in Record /\ f.seq \in Nat
  BY <1>2 DEF Records
<1>4. \A f \in Records(s) : f.seq <= Top(s)
  <2>1. Records(s) # {} => \A f \in Records(s) : f.seq <= LatestOf(Records(s)).seq
    BY LatestThere
  <2> QED
    BY <2>1 DEF Newest, Top
<1>5. ASSUME NEW i \in DOMAIN s, NEW j \in DOMAIN s, s[i].seq = s[j].seq PROVE i = j
  <2>1. s[i].seq + j = s[j].seq + i
    BY DEF Gapless
  <2> QED
    BY <1>2, <1>5, <2>1
<1>6. \A f, g \in Records(s) : f.seq = g.seq => f = g
  BY <1>5 DEF Records
<1>7. s = <<>> => Top(s) = 0 /\ Records(s) = {}
  <2>1. s = <<>> => Records(s) = {}
    BY DEF Records
  <2> QED
    BY <2>1, NewestLast DEF Top
<1>8. ASSUME s # <<>>
      PROVE  /\ Newest(s) \in Records(s) /\ s[Len(s)] \in Records(s)
             /\ s[Len(s)].seq = Top(s)
             /\ Head(s) \in Records(s) /\ \A f \in Records(s) : Head(s).seq <= f.seq
  <2>1. 1 \in DOMAIN s /\ Len(s) \in DOMAIN s /\ Head(s) = s[1]
    BY <1>2, <1>8
  <2>2. s[Len(s)].seq = Top(s)
    BY <1>8, NewestLast DEF Top
  <2>3. Newest(s) \in Records(s)
    <3>1. Records(s) # {}
      BY <2>1 DEF Records
    <3> QED
      BY <3>1, LatestThere DEF Newest
  <2>4. ASSUME NEW i \in DOMAIN s PROVE s[1].seq <= s[i].seq
    <3>1. s[1].seq + i = s[i].seq + 1
      BY <2>1 DEF Gapless
    <3>2. i \in Nat /\ i >= 1 /\ s[i].seq \in Nat /\ s[1].seq \in Nat
      BY <1>2, <2>1
    <3> QED
      BY <3>1, <3>2
  <2>5. s[Len(s)] \in Records(s) /\ s[1] \in Records(s)
    BY <2>1 DEF Records
  <2>6. \A f \in Records(s) : s[1].seq <= f.seq
    BY <2>4 DEF Records
  <2> QED
    BY <2>1, <2>2, <2>3, <2>5, <2>6
<1> QED
  BY <1>1, <1>3, <1>4, <1>6, <1>7, <1>8

(* What is left when the first records go.                                 *)
LEMMA SuffixFacts ==
  ASSUME NEW s \in Seq(Record), Gapless(s), NEW t \in Seq(Record),
         NEW d \in Nat, NEW m \in Nat, Len(s) = d + m, Len(t) = m,
         \A i \in 1..m : t[i] = s[d + i]
  PROVE  /\ Gapless(t)
         /\ Records(t) \subseteq Records(s)
         /\ \A f \in Records(s), g \in Records(t) : g.seq <= f.seq => f \in Records(t)
         /\ m # 0 => Top(t) = Top(s)
         /\ \A f \in Records(s) : f \notin Records(t) => f.seq + m <= Top(s)
<1>1. DOMAIN t = 1..m /\ DOMAIN s = 1..(d + m)
  BY NumbersTyped
<1>2. \A i \in 1..m : d + i \in 1..(d + m)
  OBVIOUS
<1>3. \A i \in 1..(d + m) : s[i] \in Record /\ s[i].seq \in Nat
  BY <1>1, NumbersTyped
<1>4. Gapless(t)
  <2>1. ASSUME NEW i \in 1..m, NEW j \in 1..m PROVE t[i].seq + j = t[j].seq + i
    <3>1. s[d + i].seq + (d + j) = s[d + j].seq + (d + i)
      BY <1>1, <1>2 DEF Gapless
    <3>2. s[d + i].seq \in Nat /\ s[d + j].seq \in Nat
      BY <1>2, <1>3
    <3>3. t[i].seq = s[d + i].seq /\ t[j].seq = s[d + j].seq
      OBVIOUS
    <3>4. i \in Nat /\ j \in Nat
      OBVIOUS
    <3>5. \A a, b \in Nat : a + (d + j) = b + (d + i) => a + j = b + i
      BY <3>4
    <3>6. s[d + i].seq + j = s[d + j].seq + i
      BY <3>1, <3>2, <3>5
    <3> QED
      BY <3>3, <3>6
  <2> QED
    BY <1>1, <2>1 DEF Gapless
<1>5. Records(t) \subseteq Records(s)
  BY <1>1, <1>2 DEF Records
<1>6. \A i \in 1..(d + m) : i <= d \/ \E k \in 1..m : i = d + k
  <2>1. ASSUME NEW i \in 1..(d + m), ~(i <= d) PROVE \E k \in 1..m : i = d + k
    <3>1. i - d \in 1..m /\ i = d + (i - d)
      BY <2>1
    <3> QED
      BY <3>1
  <2> QED
    BY <2>1
<1>7. ASSUME NEW i \in 1..(d + m), i <= d
      PROVE  /\ s[i].seq + m <= Top(s)
             /\ \A k \in 1..m : s[i].seq < t[k].seq
  <2>1. s # <<>> /\ d + m \in 1..(d + m) /\ s[d + m].seq = Top(s) /\ Top(s) \in Nat
    <3>1. s # <<>>
      BY <1>1
    <3> QED
      BY <3>1, TopFacts
  <2>2. s[i].seq + (d + m) = Top(s) + i
    BY <1>1, <2>1 DEF Gapless
  <2>3. ASSUME NEW k \in 1..m PROVE s[i].seq < t[k].seq
    <3>1. s[i].seq + (d + k) = s[d + k].seq + i
      BY <1>1, <1>2 DEF Gapless
    <3>2. s[d + k].seq \in Nat /\ s[i].seq \in Nat /\ t[k] = s[d + k] /\ k \in Nat /\ k > 0
      BY <1>2, <1>3
    <3> QED
      BY <1>7, <3>1, <3>2
  <2>4. s[i].seq \in Nat /\ i \in Nat
    BY <1>3
  <2> QED
    BY <1>7, <2>1, <2>2, <2>3, <2>4
<1>8. ASSUME NEW f \in Records(s), f \notin Records(t)
       PROVE  f.seq + m <= Top(s) /\ \A g \in Records(t) : f.seq < g.seq
  <2>1. PICK i \in 1..(d + m) : f = s[i]
    BY <1>1 DEF Records
  <2>2. \A k \in 1..m : s[d + k] \in Records(t)
    BY <1>1 DEF Records
  <2>3. i <= d
    BY <1>6, <1>8, <2>1, <2>2
  <2> QED
    BY <1>1, <1>7, <2>1, <2>3 DEF Records
<1>9. \A f \in Records(s), g \in Records(t) : g.seq <= f.seq => f \in Records(t)
  <2>1. \A f \in Records(s) : f.seq \in Nat
    BY TopFacts
  <2> QED
    BY <1>5, <1>8, <2>1
<1>10. m # 0 => Top(t) = Top(s)
  <2> SUFFICES ASSUME m # 0 PROVE Top(t) = Top(s)
    OBVIOUS
  <2>1. m \in 1..m /\ t[m] = s[d + m] /\ s # <<>> /\ t # <<>>
    BY <1>1
  <2> QED
    BY <1>4, <2>1, TopFacts
<1> QED
  BY <1>4, <1>5, <1>8, <1>9, <1>10

(* A set of positions that has with every position those before it.        *)
LEMMA InitialPart ==
  ASSUME NEW n \in Nat, NEW S \in SUBSET (1..n),
         \A i, j \in 1..n : (i <= j /\ j \in S) => i \in S
  PROVE  \E k \in 0..n : S = 1..k
<1>1. CASE S = {}
  <2>1. S = 1..0 /\ 0 \in 0..n
    BY <1>1
  <2> QED
    BY <2>1
<1>2. CASE S # {}
  <2> DEFINE T == {k \in 0..n : \A i \in S : i <= k}
  <2>1. n \in T /\ T \subseteq Nat
    OBVIOUS
  <2>2. PICK k \in T : \A l \in T : k <= l
    BY <2>1, Least
  <2>3. k \in S
    <3> SUFFICES ASSUME k \notin S PROVE FALSE
      OBVIOUS
    <3>1. PICK i \in S : TRUE
      BY <1>2
    <3>2. i \in Nat /\ i # 0 /\ i <= k /\ k \in Nat
      BY <2>2
    <3>3. k # 0
      BY <3>2
    <3>4. \A j \in S : j \in Nat /\ j <= k /\ j # k
      BY <2>2
    <3>5. \A j \in S : j <= k - 1
      BY <3>2, <3>4
    <3>6. k - 1 \in 0..n
      BY <2>2, <3>3
    <3>7. k - 1 \in T
      BY <3>5, <3>6
    <3>8. k <= k - 1
      BY <2>2, <3>7
    <3> QED
      BY <3>2, <3>8
  <2>4. k \in 0..n /\ \A i \in S : i \in 1..k
    BY <2>2
  <2>5. \A i \in 1..k : i \in S
    BY <2>3, <2>4
  <2>6. S = 1..k
    BY <2>4, <2>5
  <2> QED
    BY <2>4, <2>6
<1> QED
  BY <1>1, <1>2

(* The journal after a record more.                                        *)
LEMMA AddedFacts ==
  ASSUME NEW s \in Seq(Record), Gapless(s), NEW e \in Events,
         NEW t, t = Bounded(Numbered(s, e))
  PROVE  /\ Records(t) \subseteq Records(s) \cup {[seq |-> Top(s) + 1, event |-> e]}
         /\ [seq |-> Top(s) + 1, event |-> e] \in Records(t)
         /\ Top(t) = Top(s) + 1
         /\ \A f \in Records(s), g \in Records(t) : g.seq <= f.seq => f \in Records(t)
<1> DEFINE rec == [seq |-> Top(s) + 1, event |-> e]
           u == Numbered(s, e)
<1>1. u = Append(s, rec) /\ u \in Seq(Record) /\ Gapless(u)
  BY NumberedGapless DEF Numbered, Top
<1>2. t = Bounded(u)
  OBVIOUS
<1>3. rec \in Record /\ rec.seq = Top(s) + 1 /\ Top(s) \in Nat
  <2>1. Top(s) \in Nat
    BY TopFacts
  <2> QED
    BY <2>1 DEF Record
<1> HIDE DEF u, rec
<1>4. Len(s) \in Nat /\ Len(u) = Len(s) + 1 /\ u[Len(s) + 1] = rec /\ \A i \in 1..Len(s) : u[i] = s[i]
  BY <1>1, <1>3
<1>5. Records(u) = Records(s) \cup {rec} /\ Top(u) = rec.seq /\ u # <<>>
  <2>1. DOMAIN u = 1..(Len(s) + 1) /\ DOMAIN s = 1..Len(s)
    BY <1>1, <1>4
  <2>2. \A i \in 1..(Len(s) + 1) : i \in 1..Len(s) \/ i = Len(s) + 1
    BY <1>4
  <2>3. 1..Len(s) \subseteq 1..(Len(s) + 1) /\ Len(s) + 1 \in 1..(Len(s) + 1)
    BY <1>4
  <2>4. Records(u) = Records(s) \cup {rec}
    BY <1>4, <2>1, <2>2, <2>3 DEF Records
  <2>5. u # <<>>
    BY <2>1, <2>3
  <2> QED
    BY <1>1, <1>4, <2>4, <2>5, TopFacts
<1>6. Keep \in Nat \ {0}
  BY LiveAssumption
<1>7. PICK d \in Nat, m \in Nat :
        /\ m # 0 /\ Len(u) = d + m /\ t \in Seq(Record) /\ Len(t) = m
        /\ \A i \in 1..m : t[i] = u[d + i]
  <2>1. CASE Len(u) > Keep
    <3> DEFINE d == Len(u) - Keep
    <3>1. d \in Nat /\ Len(u) = d + Keep
      BY <1>4, <1>6, <2>1
    <3>2. t = SubSeq(u, d + 1, Len(u))
      BY <1>2, <2>1 DEF Bounded
    <3> HIDE DEF d
    <3>3. t \in Seq(Record) /\ Len(t) = Keep /\ \A i \in 1..Keep : t[i] = u[d + i]
      BY <1>1, <1>6, <3>1, <3>2
    <3> QED
      BY <1>6, <3>1, <3>3
  <2>2. CASE ~(Len(u) > Keep)
    <3>1. t = u /\ Len(u) \in Nat /\ Len(u) # 0 /\ Len(u) = 0 + Len(u)
      BY <1>2, <1>4, <2>2 DEF Bounded
    <3>2. \A i \in 1..Len(u) : t[i] = u[0 + i]
      BY <3>1
    <3>3. t \in Seq(Record) /\ Len(t) = Len(u)
      BY <1>1, <3>1
    <3> QED
      BY <3>1, <3>2, <3>3
  <2> QED
    BY <2>1, <2>2
<1>8. /\ Records(t) \subseteq Records(u)
      /\ \A f \in Records(u), g \in Records(t) : g.seq <= f.seq => f \in Records(t)
      /\ Top(t) = Top(u)
  <2>1. /\ u \in Seq(Record) /\ Gapless(u) /\ t \in Seq(Record)
        /\ Len(u) = d + m /\ Len(t) = m /\ \A i \in 1..m : t[i] = u[d + i]
    BY <1>1, <1>7
  <2> QED
    BY <1>7, <2>1, SuffixFacts
<1>9. rec \in Records(t)
  <2>1. m \in DOMAIN t /\ t[m] = u[d + m]
    BY <1>7
  <2>2. t[m] = rec
    BY <1>4, <1>7, <2>1
  <2> QED
    BY <2>1, <2>2 DEF Records
<1>10. /\ Records(t) \subseteq Records(s) \cup {rec}
       /\ Top(t) = Top(s) + 1
       /\ \A f \in Records(s), g \in Records(t) : g.seq <= f.seq => f \in Records(t)
  BY <1>3, <1>5, <1>8
<1> QED
  BY <1>9, <1>10 DEF rec

(* What a replay sends: all that is beyond the cursor, or the newest of    *)
(* it.                                                                     *)
LEMMA AfterFacts ==
  ASSUME TypeOK, Gapless(journal), NEW c \in Nat, NEW t, t = After(c)
  PROVE  /\ t \in Seq(Record) /\ Gapless(t)
         /\ Records(t) \subseteq Records(journal)
         /\ t # <<>> => Top(t) = Top(journal)
         /\ \A f \in Records(journal), g \in Records(t) : g.seq <= f.seq => f \in Records(t)
         /\ \A f \in Records(t) : c < f.seq
         /\ \A f \in Records(journal) :
              (c < f.seq /\ f \notin Records(t)) => f.seq + MaxReplay <= Top(journal)
<1> DEFINE n == Len(journal)
           old == {i \in DOMAIN journal : journal[i].seq <= c}
<1>1. /\ journal \in Seq(Record) /\ n \in Nat /\ DOMAIN journal = 1..n
      /\ \A i \in 1..n : journal[i].seq \in Nat /\ i \in Nat
  BY NumbersTyped DEF TypeOK
<1>2. \A i, j \in 1..n : i <= j /\ j \in old => i \in old
  <2> SUFFICES ASSUME NEW i \in 1..n, NEW j \in 1..n, i <= j, journal[j].seq <= c
               PROVE  journal[i].seq <= c
    BY <1>1
  <2>1. journal[i].seq + j = journal[j].seq + i
    BY <1>1 DEF Gapless
  <2>2. journal[i].seq \in Nat /\ journal[j].seq \in Nat
    BY <1>1
  <2> QED
    BY <2>1, <2>2
<1>3. old \subseteq 1..n
  BY <1>1
<1>4. \A i \in 1..n : i \in old <=> journal[i].seq <= c
  BY <1>1
<1> HIDE DEF old
<1>5. PICK k \in 0..n : old = 1..k
  BY <1>1, <1>2, <1>3, InitialPart
<1>6. Cardinality(old) = k
  BY <1>5, FS_Interval
<1>7. MaxReplay \in Nat \ {0}
  BY LiveAssumption
<1> DEFINE h == Higher(Cardinality(old), n - MaxReplay)
<1>8. t = SubSeq(journal, h + 1, n)
  BY DEF After, old
<1>9. h \in Nat /\ h <= n /\ k <= h /\ (h = k \/ h = n - MaxReplay)
  BY <1>1, <1>5, <1>6, <1>7 DEF Higher
<1> HIDE DEF h
<1>10. PICK m \in Nat : n = h + m
  <2>1. n - h \in Nat /\ n = h + (n - h)
    BY <1>1, <1>9
  <2> QED
    BY <2>1
<1>11. t \in Seq(Record) /\ Len(t) = m /\ \A i \in 1..m : t[i] = journal[h + i]
  BY <1>1, <1>8, <1>9, <1>10
<1>12. /\ Gapless(t)
       /\ Records(t) \subseteq Records(journal)
       /\ \A f \in Records(journal), g \in Records(t) : g.seq <= f.seq => f \in Records(t)
       /\ m # 0 => Top(t) = Top(journal)
       /\ \A f \in Records(journal) : f \notin Records(t) => f.seq + m <= Top(journal)
  BY <1>1, <1>9, <1>10, <1>11, SuffixFacts
<1>13. t # <<>> => m # 0
  BY <1>11
<1>14. DOMAIN t = 1..m
  BY <1>11
<1>15. \A f \in Records(t) : c < f.seq
  <2> SUFFICES ASSUME NEW i \in 1..m PROVE c < journal[h + i].seq
    BY <1>11, <1>14 DEF Records
  <2>1. h + i \in 1..n /\ ~(h + i <= k)
    BY <1>5, <1>9, <1>10
  <2>2. h + i \notin old
    BY <1>5, <2>1
  <2> QED
    BY <1>1, <1>4, <2>1, <2>2
<1>16. ASSUME NEW f \in Records(journal), c < f.seq, f \notin Records(t)
       PROVE  f.seq + MaxReplay <= Top(journal)
  <2>1. CASE h = n - MaxReplay
    <3>1. m = MaxReplay
      BY <1>1, <1>7, <1>9, <1>10, <2>1
    <3> QED
      BY <1>12, <1>16, <3>1
  <2>2. CASE h = k
    <3>1. PICK i \in 1..n : f = journal[i]
      BY <1>1 DEF Records
    <3>2. i \notin old
      BY <1>1, <1>4, <1>16, <3>1
    <3>3. i - k \in 1..m /\ k + (i - k) = i
      BY <1>1, <1>5, <1>10, <2>2, <3>2
    <3>4. t[i - k] = journal[i]
      BY <1>11, <2>2, <3>3
    <3>5. f \in Records(t)
      BY <1>14, <3>1, <3>3, <3>4 DEF Records
    <3> QED
      BY <1>16, <3>5
  <2> QED
    BY <1>9, <2>1, <2>2
<1> QED
  BY <1>11, <1>12, <1>13, <1>15, <1>16

(* What is left of a batch when its first record has been sent.            *)
LEMMA TailFacts ==
  ASSUME NEW s \in Seq(Record), Gapless(s), s # <<>>
  PROVE  /\ Tail(s) \in Seq(Record) /\ Gapless(Tail(s))
         /\ Head(s) \in Records(s)
         /\ Records(s) = Records(Tail(s)) \cup {Head(s)}
         /\ Tail(s) # <<>> => Top(Tail(s)) = Top(s) /\ Head(Tail(s)).seq = Head(s).seq + 1
         /\ Tail(s) = <<>> => Top(s) = Head(s).seq
<1>1. PICK m \in Nat : Len(s) = 1 + m
  <2>1. Len(s) \in Nat /\ Len(s) # 0
    OBVIOUS
  <2>2. Len(s) - 1 \in Nat /\ Len(s) = 1 + (Len(s) - 1)
    BY <2>1
  <2> QED
    BY <2>2
<1>2. /\ Tail(s) \in Seq(Record) /\ Len(Tail(s)) = m
      /\ \A i \in 1..m : Tail(s)[i] = s[1 + i]
  BY <1>1
<1>3. /\ Gapless(Tail(s)) /\ Records(Tail(s)) \subseteq Records(s)
      /\ m # 0 => Top(Tail(s)) = Top(s)
  <2>1. 1 \in Nat
    OBVIOUS
  <2> QED
    BY <1>1, <1>2, <2>1, SuffixFacts
<1>4. DOMAIN s = 1..(1 + m) /\ DOMAIN Tail(s) = 1..m /\ Head(s) = s[1]
  BY <1>1, <1>2
<1>5. Head(s) \in Records(s)
  BY <1>4 DEF Records
<1>6. Records(s) = Records(Tail(s)) \cup {Head(s)}
  <2>1. ASSUME NEW i \in 1..(1 + m), i # 1
        PROVE  s[i] \in Records(Tail(s))
    <3>1. i - 1 \in 1..m /\ i = 1 + (i - 1)
      BY <2>1
    <3>2. Tail(s)[i - 1] = s[i]
      BY <1>2, <3>1
    <3> QED
      BY <1>4, <3>1, <3>2 DEF Records
  <2>2. \A f \in Records(s) : f = s[1] \/ f \in Records(Tail(s))
    BY <1>4, <2>1 DEF Records
  <2> QED
    BY <1>3, <1>4, <1>5, <2>2
<1>7. ASSUME Tail(s) # <<>>
      PROVE  m # 0 /\ Head(Tail(s)).seq = Head(s).seq + 1
  <2>1. m # 0
    BY <1>2, <1>7
  <2>2. Head(Tail(s)) = s[2] /\ 1 \in DOMAIN s /\ 2 \in DOMAIN s
    BY <1>2, <1>4, <2>1
  <2>3. s[1].seq + 2 = s[2].seq + 1 /\ s[1].seq \in Nat /\ s[2].seq \in Nat
    BY <2>2, NumbersTyped DEF Gapless
  <2> QED
    BY <1>4, <2>1, <2>2, <2>3
<1>8. Tail(s) = <<>> => Top(s) = Head(s).seq
  <2>1. Tail(s) = <<>> => m = 0
    BY <1>2
  <2>2. Tail(s) = <<>> => Len(s) = 1
    BY <1>1, <2>1
  <2> QED
    BY <1>4, <2>2, TopFacts
<1> QED
  BY <1>2, <1>3, <1>5, <1>6, <1>7, <1>8

(* No number is missing between the first and the last.                    *)
LEMMA HasNumber ==
  ASSUME NEW s \in Seq(Record), Gapless(s), s # <<>>,
         NEW n \in Nat, Head(s).seq <= n, n <= Top(s)
  PROVE  \E f \in Records(s) : f.seq = n
<1>1. Len(s) \in Nat /\ Len(s) # 0 /\ DOMAIN s = 1..Len(s) /\ Head(s) = s[1]
  OBVIOUS
<1>2. 1 \in DOMAIN s /\ Len(s) \in DOMAIN s /\ s[Len(s)].seq = Top(s)
  BY <1>1, TopFacts
<1>3. PICK a \in Nat : a = s[1].seq
  BY <1>2, NumbersTyped
<1>4. \A i \in DOMAIN s : s[i].seq \in Nat /\ a + i = s[i].seq + 1
  BY <1>2, <1>3, NumbersTyped DEF Gapless
<1>5. a + Len(s) = Top(s) + 1 /\ Top(s) \in Nat
  BY <1>2, <1>4
<1>6. PICK i \in 1..Len(s) : a + i = n + 1
  <2>1. n + 1 - a \in 1..Len(s) /\ a + (n + 1 - a) = n + 1
    BY <1>1, <1>3, <1>5
  <2> QED
    BY <2>1
<1>7. s[i].seq \in Nat /\ a + i = s[i].seq + 1
  BY <1>1, <1>4
<1>8. s[i].seq = n
  BY <1>6, <1>7
<1> QED
  BY <1>1, <1>8 DEF Records

-----------------------------------------------------------------------------
(* What the browser shows: the invariants                                  *)

Over == {"COMPLETE", "FAILED"}

(* A connection that has not yet sent its snapshot.                        *)
Beginning == stream.phase = "off" \/ (stream.phase \in {"read", "judge"} /\ stream.why = "connect")

(* Nobody knows of a run that has not begun.                               *)
BegunInv ==
  /\ \A f \in Records(journal) : pc[f.event.run] # "idle"
  /\ marker.run # None => pc[marker.run] # "idle"
  /\ \A r \in Runs : queue[r] # <<>> => pc[r] # "idle"

(* A publisher writes of the turns of its run, not of the run.             *)
QueueInv ==
  \A r \in Runs : \A i \in DOMAIN queue[r] : queue[r][i].run = r /\ queue[r][i].kind # "run"

(* The record of a run's start comes before that of its end.               *)
EndsInv ==
  /\ \A r \in Runs, e \in Records(journal) : Ends(e, r) => pc[r] \notin {"idle", "marking", "begin"}
  /\ \A r \in Runs, e, f \in Records(journal) :
       Ends(e, r) /\ f.event = Event(r, "run", "started") => f.seq < e.seq

RunsInv == BegunInv /\ QueueInv /\ EndsInv

SeenInv ==
  /\ \A f \in Records(stream.batch) : pc[f.event.run] # "idle"
  /\ \A f \in Records(stream.view) : pc[f.event.run] # "idle"
  /\ client.run # None => pc[client.run] # "idle"

(* Nobody is ahead of the journal, nor the stream of the browser.          *)
CursorsInv ==
  /\ client.cursor <= Top(journal) /\ stream.shown.cursor <= Top(journal)
  /\ stream.cursor <= client.cursor

(* What the reader has read is what the journal was.                       *)
ViewInv ==
  stream.phase = "judge" =>
    /\ Gapless(stream.view)
    /\ client.cursor <= Top(stream.view) /\ Top(stream.view) <= Top(journal)
    /\ \A f \in Records(journal) : f.seq <= Top(stream.view) => f \in Records(stream.view)

(* What is being sent is the end of what the journal was.                  *)
BatchInv ==
  /\ stream.phase # "send" => stream.batch = <<>>
  /\ stream.phase = "send" => stream.why # "beat"
  /\ stream.phase = "replay" => stream.why = "connect"
  /\ Gapless(stream.batch)
  /\ \A f \in Records(stream.batch) : f.seq <= Top(journal)
  /\ \A f \in Records(stream.batch), g \in Records(journal) : g.seq <= f.seq => f \in Records(journal)
  /\ stream.batch # <<>> => client.cursor <= Top(stream.batch)

StreamInv == SeenInv /\ CursorsInv /\ ViewInv /\ BatchInv

(* The browser shows the run of the last record it has been sent.          *)
Shows(n) == \A f \in Records(journal) : f.seq = n => f.event.run = client.run
ShowsRun ==
  client.run # None /\ ~Beginning =>
    \/ Shows(client.cursor)
    \/ /\ stream.batch # <<>> /\ Head(stream.batch).seq <= client.cursor
       /\ Shows(Head(stream.batch).seq - 1)

(* A browser that has gone back to "IDLE" is about to be sent the end again. *)
IdleInv ==
  client.run # None /\ client.state = "IDLE" /\ ~Beginning =>
    \A e \in Records(journal) :
      /\ Ends(e, client.run) /\ e.seq <= client.cursor
      /\ \A f \in Records(journal) : f.seq > e.seq => f.event.run = client.run
      => e \in Records(stream.batch)

(* The end of the only run, once told, stays; and a replay does not skip it. *)
Recent(e) == Top(journal) < e.seq + MaxReplay
EndTold ==
  \A r \in Runs : Only(r) /\ client.run = r =>
    \A e \in Records(journal) :
      Ends(e, r) /\ Recent(e) /\ e.seq <= client.cursor => client.state \in Over
NoSkip ==
  stream.batch # <<>> =>
    \A f \in Records(journal) :
      client.cursor < f.seq /\ f.seq < Head(stream.batch).seq => ~Recent(f)

(* A heartbeat's last snapshot is not ahead of the browser.                *)
BeatInv ==
  stream.why = "beat" /\ stream.phase \in {"read", "judge"} => stream.shown.cursor <= client.cursor

(* If the last record the browser was sent is the end of its run, it shows *)
(* it: after events, and when its last snapshot says so.                   *)
ShowsEnd ==
  \A f \in Records(journal) :
    f.seq = client.cursor /\ Ends(f, client.run) => client.state \in Over
AfterEvents ==
  stream.why = "events" /\ (stream.phase \in {"read", "judge"} \/ (stream.phase = "send" /\ stream.batch = <<>>))
    => ShowsEnd
Settled ==
  \/ stream.phase \in {"loop", "replay"}
  \/ stream.phase \in {"read", "judge"} /\ stream.why # "connect"
  \/ stream.phase = "send" /\ stream.why = "connect" /\ stream.batch = <<>>
AfterSnapshot ==
  /\ Settled
  /\ stream.shown.state \in Over /\ stream.shown.run = client.run /\ stream.shown.cursor = client.cursor
  => ShowsEnd

BrowserInv ==
  ShowsRun /\ IdleInv /\ EndTold /\ NoSkip /\ BeatInv /\ AfterEvents /\ AfterSnapshot

WatchInv ==
  IF setting.watched THEN RunsInv /\ StreamInv /\ BrowserInv ELSE stream.phase = "off"
-----------------------------------------------------------------------------
(* What the browser shows: what the runs and the journal do meanwhile      *)

Early == {"idle", "marking", "begin"}

(* No run goes back to where it had not begun.                             *)
Onward ==
  \A s \in Runs :
    /\ pc'[s] = "idle" => pc[s] = "idle"
    /\ pc'[s] \in Early => pc[s] \in Early

(* The journal keeps its end, and what is added comes behind it.           *)
Grows ==
  /\ Top(journal') \in Nat /\ Top(journal) <= Top(journal')
  /\ \A g \in Records(journal') :
       g.seq \in Nat /\ (g.seq <= Top(journal) => g \in Records(journal))
  /\ \A f \in Records(journal), g \in Records(journal') : g.seq <= f.seq => f \in Records(journal')

LEMMA JournalPrimed ==
  Records(journal)' = Records(journal') /\ Top(journal)' = Top(journal')
BY DEF Records, Top, Newest, LatestOf, NoRecord, NoEvent, Event, None

LEMMA JournalTyped ==
  ASSUME IInv
  PROVE  /\ journal \in Seq(Record) /\ Gapless(journal) /\ Top(journal) \in Nat
         /\ \A f \in Records(journal) : f \in Record /\ f.seq \in Nat /\ f.seq <= Top(journal)
         /\ \A f, g \in Records(journal) : f.seq = g.seq => f = g
  BY TopFacts DEF IInv, TypeOK

LEMMA PendingOwn ==
  ASSUME TypeOK, BegunInv, QueueInv, NEW w \in Writers, NEW e \in Pending(w)
  PROVE  /\ e.run = w[1] /\ pc[w[1]] # "idle"
         /\ e.kind = "run" =>
              /\ w[2] = "run"
              /\ e.state = "started" => pc[w[1]] = "begin"
              /\ e.state \in Terminal => pc[w[1]] \in {"end", "late"}
<1>1. w[1] \in Runs /\ w[2] \in {"run", "publisher"}
  BY DEF Writers
<1>2. CASE w[2] = "publisher"
  <2>1. queue[w[1]] # <<>> /\ e = Head(queue[w[1]]) /\ queue[w[1]] \in Seq(Events)
    BY <1>1, <1>2 DEF Pending, TypeOK
  <2>2. 1 \in DOMAIN queue[w[1]] /\ e = queue[w[1]][1]
    BY <2>1
  <2> QED
    BY <1>1, <2>1, <2>2 DEF QueueInv, BegunInv
<1>3. CASE w[2] = "run"
  <2>1. \/ pc[w[1]] = "begin" /\ e = Event(w[1], "run", "started")
        \/ pc[w[1]] \in {"end", "late"} /\ \E s \in Terminal : e = Event(w[1], "run", s)
    BY <1>3 DEF Pending
  <2> QED
    BY <1>3, <2>1 DEF Event, Terminal
<1> QED
  BY <1>1, <1>2, <1>3

LEMMA GoOnOnward ==
  ASSUME TypeOK, NEW w \in Writers, Pending(w) # {}, GoOn(w)
  PROVE  /\ Onward
         /\ w[2] = "run" => pc'[w[1]] \notin Early
         /\ \A r \in Runs : queue'[r] = queue[r] \/ (queue[r] # <<>> /\ queue'[r] = Tail(queue[r]))
<1>1. w[1] \in Runs /\ w[2] \in {"run", "publisher"} /\ pc \in [Runs -> Labels] /\ queue \in [Runs -> Seq(Events)]
  BY DEF Writers, TypeOK, Labels
<1>2. CASE w[2] = "publisher"
  <2>1. queue' = [queue EXCEPT ![w[1]] = Tail(queue[w[1]])] /\ pc' = pc /\ queue[w[1]] # <<>>
    BY <1>2, PendingWaits DEF GoOn
  <2> QED
    BY <1>1, <1>2, <2>1 DEF Onward
<1>3. CASE w[2] = "run"
  <2>1. PICK label \in {"work", "ended", "done"} : pc' = [pc EXCEPT ![w[1]] = label] /\ queue' = queue
    BY <1>3 DEF GoOn
  <2> QED
    BY <1>1, <1>3, <2>1 DEF Onward, Early
<1> QED
  BY <1>1, <1>2, <1>3

(* A record is added, the writer goes on.                                  *)
LEMMA AppendStep ==
  ASSUME IInv, RunsInv, NEW w \in Writers, AppendAtOnce(w)
  PROVE  RunsInv' /\ Onward /\ Grows
<1>1. PICK e \in Pending(w) : journal' = Bounded(Numbered(journal, e))
  BY DEF AppendAtOnce
<1>2. GoOn(w) /\ Pending(w) # {} /\ marker' = marker
  BY DEF AppendAtOnce
<1>3. TypeOK /\ BegunInv /\ QueueInv /\ EndsInv /\ w[1] \in Runs
  BY DEF IInv, RunsInv, Writers
<1>4. /\ Onward
      /\ w[2] = "run" => pc'[w[1]] \notin Early
      /\ \A r \in Runs : queue'[r] = queue[r] \/ (queue[r] # <<>> /\ queue'[r] = Tail(queue[r]))
  BY <1>2, <1>3, GoOnOnward
<1>5. /\ e \in Events /\ e.run = w[1] /\ pc[w[1]] # "idle"
      /\ e.kind = "run" =>
           /\ w[2] = "run"
           /\ e.state = "started" => pc[w[1]] = "begin"
           /\ e.state \in Terminal => pc[w[1]] \in {"end", "late"}
  BY <1>1, <1>3, PendingOwn, PendingTyped
<1> DEFINE new == [seq |-> Top(journal) + 1, event |-> e]
<1>6. /\ Records(journal') \subseteq Records(journal) \cup {new}
      /\ Top(journal') = Top(journal) + 1
      /\ \A f \in Records(journal), g \in Records(journal') : g.seq <= f.seq => f \in Records(journal')
  BY <1>1, <1>5, JournalTyped, AddedFacts
<1>7. new.seq = Top(journal) + 1 /\ new.event = e
  OBVIOUS
<1> HIDE DEF new
<1>8. Grows
  BY <1>6, <1>7, JournalTyped DEF Grows
<1>9. BegunInv'
  <2>1. \A f \in Records(journal') : pc'[f.event.run] # "idle"
    <3>1. \A f \in Records(journal) : pc[f.event.run] # "idle" /\ f.event.run \in Runs
      BY <1>3, JournalTyped DEF BegunInv, Record, Events
    <3> QED
      BY <1>3, <1>4, <1>5, <1>6, <1>7, <3>1 DEF Onward
  <2>2. marker.run # None => marker.run \in Runs /\ pc[marker.run] # "idle"
    BY <1>3 DEF BegunInv, TypeOK
  <2>3. \A r \in Runs : queue'[r] # <<>> => pc'[r] # "idle"
    <3>1. \A r \in Runs : queue'[r] # <<>> => queue[r] # <<>>
      BY <1>4
    <3> QED
      BY <1>3, <1>4, <3>1 DEF BegunInv, Onward
  <2> QED
    BY <1>2, <1>4, <2>1, <2>2, <2>3, JournalPrimed DEF BegunInv, Onward
<1>10. QueueInv'
  <2> SUFFICES ASSUME NEW r \in Runs, NEW i \in DOMAIN queue'[r]
               PROVE  queue'[r][i].run = r /\ queue'[r][i].kind # "run"
    BY DEF QueueInv
  <2>1. CASE queue'[r] = queue[r]
    BY <1>3, <2>1 DEF QueueInv
  <2>2. CASE queue[r] # <<>> /\ queue'[r] = Tail(queue[r])
    <3>1. queue[r] \in Seq(Events)
      BY <1>3 DEF TypeOK
    <3>2. i + 1 \in DOMAIN queue[r] /\ queue'[r][i] = queue[r][i + 1]
      BY <2>2, <3>1
    <3> QED
      BY <1>3, <3>2 DEF QueueInv
  <2> QED
    BY <1>4, <2>1, <2>2
<1>11. EndsInv'
  <2>1. ASSUME NEW r \in Runs, NEW f \in Records(journal'), Ends(f, r)
        PROVE  pc'[r] \notin Early
    <3>1. CASE f \in Records(journal)
      BY <1>3, <1>4, <2>1, <3>1 DEF EndsInv, Onward, Early
    <3>2. CASE f = new
      BY <1>4, <1>5, <1>7, <2>1, <3>2 DEF Ends
    <3> QED
      BY <1>6, <3>1, <3>2
  <2>2. ASSUME NEW r \in Runs, NEW f \in Records(journal'), NEW g \in Records(journal'),
               Ends(f, r), g.event = Event(r, "run", "started")
        PROVE  g.seq < f.seq
    <3>1. CASE g = new
      <4>1. r = w[1] /\ pc[r] = "begin" /\ f # new
        BY <1>5, <1>7, <2>2, <3>1 DEF Event, Ends, Terminal
      <4>2. f \in Records(journal)
        BY <1>6, <4>1
      <4> QED
        BY <1>3, <2>2, <4>1, <4>2 DEF EndsInv
    <3>2. CASE g \in Records(journal) /\ f = new
      BY <1>7, <3>2, JournalTyped
    <3>3. CASE g \in Records(journal) /\ f \in Records(journal)
      BY <1>3, <2>2, <3>3 DEF EndsInv
    <3> QED
      BY <1>6, <3>1, <3>2, <3>3
  <2> QED
    BY <2>1, <2>2, JournalPrimed DEF EndsInv, Early
<1> QED
  BY <1>4, <1>8, <1>9, <1>10, <1>11 DEF RunsInv

(* Without a record more the journal is as it was.                         *)
LEMMA StillGrows ==
  ASSUME IInv, UNCHANGED journal
  PROVE  Grows
BY JournalTyped DEF Grows, Top, Records, Newest

LEMMA SameJournal ==
  ASSUME RunsInv, UNCHANGED journal, Onward,
         marker'.run = marker.run \/ marker'.run = None \/ (marker'.run \in Runs /\ pc'[marker'.run] # "idle"),
         \A r \in Runs :
           \/ queue'[r] = queue[r] \/ queue'[r] = <<>>
           \/ pc'[r] # "idle" /\ \A i \in DOMAIN queue'[r] :
                queue'[r][i].run = r /\ queue'[r][i].kind # "run",
         TypeOK
  PROVE  RunsInv'
<1>1. BegunInv /\ QueueInv /\ EndsInv
  BY DEF RunsInv
<1>2. Records(journal)' = Records(journal)
  BY JournalPrimed
<1>3. \A f \in Records(journal) : f.event.run \in Runs
  <2>1. \A i \in DOMAIN journal : journal[i] \in Record
    BY NumbersTyped DEF TypeOK
  <2> QED
    BY <2>1 DEF Records, Record, Events
<1>4. BegunInv'
  <2>1. \A f \in Records(journal) : pc'[f.event.run] # "idle"
    BY <1>1, <1>3 DEF BegunInv, Onward
  <2>2. marker'.run # None => pc'[marker'.run] # "idle"
    BY <1>1 DEF BegunInv, Onward, TypeOK
  <2>3. \A r \in Runs : queue'[r] # <<>> => pc'[r] # "idle"
    BY <1>1 DEF BegunInv, Onward
  <2> QED
    BY <1>2, <2>1, <2>2, <2>3 DEF BegunInv
<1>5. QueueInv'
  <2> SUFFICES ASSUME NEW r \in Runs, NEW i \in DOMAIN queue'[r]
               PROVE  queue'[r][i].run = r /\ queue'[r][i].kind # "run"
    BY DEF QueueInv
  <2>1. queue'[r] # <<>>
    OBVIOUS
  <2> QED
    BY <1>1, <2>1 DEF QueueInv
<1>6. EndsInv'
  BY <1>1, <1>2 DEF EndsInv, Onward, Early
<1> QED
  BY <1>4, <1>5, <1>6 DEF RunsInv

LEMMA RunStepRuns ==
  ASSUME TypeOK, RunsInv, NEW r \in Runs, RunStep(r)
  PROVE  RunsInv' /\ Onward
<1>1. BegunInv /\ QueueInv /\ pc \in [Runs -> Labels] /\ queue \in [Runs -> Seq(Events)]
  BY DEF RunsInv, TypeOK, Labels
<1>2. UNCHANGED journal
  BY DEF RunStep, Acquire, Mark, TurnStarts, TurnEnds, BodyEnds, Release, journalVars
<1>3. PICK label \in Labels \ {"idle"} :
        /\ pc' = [pc EXCEPT ![r] = label]
        /\ label \in Early => pc[r] \in Early
  BY <1>1 DEF RunStep, Acquire, Mark, TurnStarts, TurnEnds, BodyEnds, Release, Labels, Early
<1>4. Onward
  BY <1>1, <1>3 DEF Onward
<1>5. marker'.run = marker.run \/ marker'.run = None \/ marker'.run = r
  BY DEF RunStep, Acquire, Mark, TurnStarts, TurnEnds, BodyEnds, Release, TypeOK
<1>6. \/ queue' = queue
      \/ \E e \in Events :
           e.run = r /\ e.kind # "run" /\ queue' = [queue EXCEPT ![r] = Append(queue[r], e)]
  BY DEF RunStep, Acquire, Mark, TurnStarts, TurnEnds, BodyEnds, Release, Notify, Event, Events
<1>7. ASSUME NEW e \in Events, e.run = r, e.kind # "run",
             queue' = [queue EXCEPT ![r] = Append(queue[r], e)],
             NEW i \in DOMAIN queue'[r]
      PROVE  queue'[r][i].run = r /\ queue'[r][i].kind # "run"
  <2>1. queue'[r] = Append(queue[r], e) /\ queue[r] \in Seq(Events)
    BY <1>1, <1>7
  <2>2. (i \in DOMAIN queue[r] /\ queue'[r][i] = queue[r][i]) \/ queue'[r][i] = e
    BY <1>7, <2>1
  <2> QED
    BY <1>1, <1>7, <2>2 DEF QueueInv
<1>8. \A s \in Runs :
        \/ queue'[s] = queue[s]
        \/ pc'[s] # "idle" /\ \A i \in DOMAIN queue'[s] :
             queue'[s][i].run = s /\ queue'[s][i].kind # "run"
  <2>1. \A s \in Runs : s # r => queue'[s] = queue[s]
    BY <1>1, <1>6
  <2>2. \/ queue'[r] = queue[r]
        \/ \A i \in DOMAIN queue'[r] : queue'[r][i].run = r /\ queue'[r][i].kind # "run"
    BY <1>6, <1>7
  <2>3. pc'[r] # "idle"
    BY <1>1, <1>3
  <2> QED
    BY <2>1, <2>2, <2>3
<1>9. pc'[r] # "idle"
  BY <1>1, <1>3
<1> QED
  BY <1>2, <1>4, <1>5, <1>8, <1>9, SameJournal

LEMMA DiesRuns ==
  ASSUME TypeOK, RunsInv, NEW r \in Runs, Dies(r)
  PROVE  RunsInv' /\ Onward
<1>1. /\ UNCHANGED <<journal, marker>>
      /\ pc' = [pc EXCEPT ![r] = "dead"] /\ queue' = [queue EXCEPT ![r] = <<>>]
  BY DEF Dies
<1>2. Onward
  BY <1>1 DEF Onward, Early, TypeOK
<1>3. \A s \in Runs : queue'[s] = queue[s] \/ queue'[s] = <<>>
  BY <1>1 DEF TypeOK
<1> QED
  BY <1>1, <1>2, <1>3, SameJournal

LEMMA AppendFailsRuns ==
  ASSUME TypeOK, RunsInv, NEW w \in Writers, AppendFails(w), Pending(w) # {}
  PROVE  RunsInv' /\ Onward
<1>1. UNCHANGED <<journal, marker>> /\ GoOn(w)
  BY DEF AppendFails
<1>2. /\ Onward
      /\ \A r \in Runs : queue'[r] = queue[r] \/ (queue[r] # <<>> /\ queue'[r] = Tail(queue[r]))
  BY <1>1, GoOnOnward
<1>3. ASSUME NEW r \in Runs, queue[r] # <<>>, queue'[r] = Tail(queue[r])
      PROVE  pc'[r] # "idle" /\ \A i \in DOMAIN queue'[r] : queue'[r][i].run = r /\ queue'[r][i].kind # "run"
  <2>1. queue[r] \in Seq(Events)
    BY DEF TypeOK
  <2>2. \A i \in DOMAIN queue'[r] : i + 1 \in DOMAIN queue[r] /\ queue'[r][i] = queue[r][i + 1]
    BY <1>3, <2>1
  <2> QED
    BY <1>2, <1>3, <2>2 DEF RunsInv, BegunInv, QueueInv, Onward
<1> QED
  BY <1>1, <1>2, <1>3, SameJournal

(* Every step of runs and writers, and what of it the stream may rely on.  *)
LEMMA RunsStep ==
  ASSUME IInv, RunsInv, setting.watched, [Next]_vars
  PROVE  /\ RunsInv' /\ Onward /\ Grows /\ UNCHANGED setting
         /\ \/ UNCHANGED <<stream, client>>
            \/ (Serve \/ ConnectionLost) /\ UNCHANGED <<runVars, journalVars>>
<1>1. TypeOK
  BY DEF IInv
<1>2. ASSUME NEW r \in Runs, RunStep(r)
      PROVE  /\ RunsInv' /\ Onward /\ Grows /\ UNCHANGED <<setting, stream, client>>
  <2>1. UNCHANGED <<setting, stream, client, journal>>
    BY <1>2 DEF RunStep, Acquire, Mark, TurnStarts, TurnEnds, BodyEnds, Release, journalVars
  <2> QED
    BY <1>1, <1>2, <2>1, RunStepRuns, StillGrows
<1>3. ASSUME NEW r \in Runs, Dies(r)
      PROVE  /\ RunsInv' /\ Onward /\ Grows /\ UNCHANGED <<setting, stream, client>>
  BY <1>1, <1>3, DiesRuns, StillGrows DEF Dies
<1>4. ASSUME NEW w \in Writers, Write(w)
      PROVE  /\ RunsInv' /\ Onward /\ Grows /\ UNCHANGED <<setting, stream, client>>
  <2>1. draft[w] = NoDraft
    BY DEF IInv, DraftInv
  <2>2. AppendAtOnce(w) \/ (AppendFails(w) /\ Pending(w) # {})
    BY <1>4, <2>1 DEF Write, ReadRecords, ReplaceJournal, AppendFails
  <2>3. UNCHANGED <<setting, stream, client>>
    BY <2>2 DEF AppendAtOnce, AppendFails
  <2>4. AppendFails(w) => UNCHANGED journal
    BY DEF AppendFails
  <2> QED
    BY <1>1, <2>2, <2>3, <2>4, AppendStep, AppendFailsRuns, StillGrows
<1>5. ASSUME UNCHANGED <<setting, pc, queue, marker, journal>>
      PROVE  RunsInv' /\ Onward /\ Grows /\ UNCHANGED setting
  <2>1. Onward
    BY <1>5 DEF Onward
  <2> QED
    BY <1>1, <1>5, <2>1, SameJournal, StillGrows
<1>6. CASE TimePasses \/ UNCHANGED vars
  <2>1. UNCHANGED <<setting, pc, queue, marker, journal>> /\ UNCHANGED <<stream, client>>
    BY <1>6 DEF TimePasses, vars, runVars, journalVars
  <2> QED
    BY <1>5, <2>1
<1>7. CASE Serve \/ ConnectionLost
  <2>1. UNCHANGED <<runVars, journalVars>>
    BY <1>7 DEF Serve, Connect, ReadJournal, ReadMarker, Replay, Poll, Send, ConnectionLost, Quiet
  <2>2. UNCHANGED <<setting, pc, queue, marker, journal>>
    BY <2>1 DEF runVars, journalVars
  <2> QED
    BY <1>5, <1>7, <2>1, <2>2
<1> QED
  BY <1>2, <1>3, <1>4, <1>6, <1>7 DEF Next

LEMMA StreamPrimed ==
  /\ Records(stream.batch)' = Records(stream'.batch) /\ Top(stream.batch)' = Top(stream'.batch)
  /\ Records(stream.view)' = Records(stream'.view) /\ Top(stream.view)' = Top(stream'.view)
  /\ Gapless(stream.batch)' <=> Gapless(stream'.batch)
  /\ Gapless(stream.view)' <=> Gapless(stream'.view)
BY DEF Gapless, Records, Top, Newest, LatestOf, NoRecord, NoEvent, Event, None

(* The types of what stream and browser hold, and what comes with them.    *)
LEMMA StreamTyped ==
  ASSUME TypeOK
  PROVE  /\ stream.batch \in Seq(Record) /\ stream.view \in Seq(Record)
         /\ \A f \in Records(stream.batch) : f \in Record /\ f.seq \in Nat /\ f.event.run \in Runs
         /\ \A f \in Records(stream.view) : f \in Record /\ f.seq \in Nat /\ f.event.run \in Runs
         /\ \A f \in Records(journal) : f \in Record /\ f.seq \in Nat /\ f.event.run \in Runs
         /\ client.cursor \in Nat /\ stream.cursor \in Nat /\ stream.shown.cursor \in Nat
         /\ client.run \in Runs \cup {None}
<1>1. ASSUME NEW s \in Seq(Record), NEW f \in Records(s)
      PROVE  f \in Record /\ f.seq \in Nat /\ f.event.run \in Runs
  <2>1. f \in Record
    BY NumbersTyped DEF Records
  <2> QED
    BY <2>1 DEF Record, Events
<1>2. /\ stream.batch \in Seq(Record) /\ stream.view \in Seq(Record) /\ journal \in Seq(Record)
      /\ client.cursor \in Nat /\ stream.cursor \in Nat /\ stream.shown.cursor \in Nat
      /\ client.run \in Runs \cup {None}
  BY DEF TypeOK, Stream, Shown
<1> QED
  BY <1>1, <1>2

(* While nothing is served, runs and writers disturb none of it.           *)
LEMMA GrownStream ==
  ASSUME IInv, StreamInv, Onward, Grows, UNCHANGED <<stream, client>>
  PROVE  StreamInv'
<1>1. TypeOK /\ SeenInv /\ CursorsInv /\ ViewInv /\ BatchInv
  BY DEF IInv, StreamInv
<1>2. /\ Records(stream.batch)' = Records(stream.batch) /\ Top(stream.batch)' = Top(stream.batch)
      /\ Records(stream.view)' = Records(stream.view) /\ Top(stream.view)' = Top(stream.view)
      /\ Gapless(stream.batch)' <=> Gapless(stream.batch)
      /\ Gapless(stream.view)' <=> Gapless(stream.view)
  BY StreamPrimed
<1>3. Top(journal) \in Nat /\ \A f \in Records(journal') : f.seq <= Top(journal) => f \in Records(journal)
  BY JournalTyped DEF Grows
<1>4. Top(journal)' = Top(journal') /\ Records(journal)' = Records(journal')
  BY JournalPrimed
<1>5. SeenInv'
  BY <1>1, <1>2, StreamTyped DEF SeenInv, Onward
<1>6. CursorsInv'
  BY <1>1, <1>3, <1>4, StreamTyped DEF CursorsInv, Grows
<1>7. ViewInv'
  <2> SUFFICES ASSUME stream.phase = "judge"
               PROVE  /\ client.cursor <= Top(stream.view) /\ Top(stream.view) <= Top(journal')
                      /\ \A f \in Records(journal') : f.seq <= Top(stream.view) => f \in Records(stream.view)
                      /\ Gapless(stream.view)
    BY <1>2, <1>4 DEF ViewInv
  <2>1. Gapless(stream.view) /\ Top(stream.view) <= Top(journal) /\ Top(stream.view) \in Nat
    BY <1>1, StreamTyped, TopFacts DEF ViewInv
  <2>2. \A f \in Records(journal') : f.seq \in Nat
    BY DEF Grows
  <2> QED
    BY <1>1, <1>3, <2>1, <2>2 DEF ViewInv, Grows
<1>8. BatchInv'
  <2>1. \A f \in Records(stream.batch) : f.seq <= Top(journal')
    BY <1>1, <1>3, StreamTyped DEF BatchInv, Grows
  <2>2. ASSUME NEW f \in Records(stream.batch), NEW g \in Records(journal'), g.seq <= f.seq
        PROVE  f \in Records(journal')
    <3>1. g \in Records(journal)
      <4>1. f.seq <= Top(journal) /\ f.seq \in Nat /\ g.seq \in Nat
        BY <1>1, StreamTyped DEF BatchInv, Grows
      <4> QED
        BY <1>3, <2>2, <4>1
    <3>2. f \in Records(journal)
      BY <1>1, <2>2, <3>1 DEF BatchInv
    <3> QED
      BY <2>2, <3>2 DEF Grows
  <2> QED
    BY <1>1, <1>2, <1>4, <2>1, <2>2 DEF BatchInv
<1> QED
  BY <1>5, <1>6, <1>7, <1>8 DEF StreamInv
LEMMA GrownBrowser ==
  ASSUME IInv, StreamInv, BrowserInv, Onward, Grows, UNCHANGED <<stream, client>>
  PROVE  BrowserInv'
<1>1. /\ TypeOK /\ CursorsInv /\ BatchInv
      /\ ShowsRun /\ IdleInv /\ EndTold /\ NoSkip /\ BeatInv /\ AfterEvents /\ AfterSnapshot
  BY DEF IInv, StreamInv, BrowserInv
<1>2. Records(stream.batch)' = Records(stream.batch) /\ Records(journal)' = Records(journal') /\ Top(journal)' = Top(journal')
  BY StreamPrimed, JournalPrimed
<1>3. /\ Top(journal) \in Nat /\ Top(journal') \in Nat /\ Top(journal) <= Top(journal')
      /\ client.cursor \in Nat /\ client.cursor <= Top(journal)
  BY <1>1, JournalTyped, StreamTyped DEF Grows, CursorsInv
<1>4. \A f \in Records(journal') : f.seq \in Nat /\ (f.seq <= Top(journal) => f \in Records(journal))
  BY DEF Grows
<1>5. \A f \in Records(journal') : f.seq <= client.cursor => f \in Records(journal)
  BY <1>3, <1>4
<1>6. Beginning' <=> Beginning
  BY DEF Beginning
<1>7. stream.batch # <<>> =>
        Head(stream.batch).seq \in Nat /\ Head(stream.batch).seq <= Top(journal)
  <2>1. stream.batch # <<>> => Head(stream.batch) \in Records(stream.batch)
    BY <1>1, StreamTyped, TailFacts DEF BatchInv
  <2> QED
    BY <1>1, <2>1, StreamTyped DEF BatchInv
<1>8. ShowsRun'
  <2>1. Shows(client.cursor) => \A f \in Records(journal') : f.seq = client.cursor => f.event.run = client.run
    BY <1>3, <1>5 DEF Shows
  <2>2. ASSUME stream.batch # <<>>, Head(stream.batch).seq <= client.cursor, Shows(Head(stream.batch).seq - 1)
        PROVE  \A f \in Records(journal') : f.seq = Head(stream.batch).seq - 1 => f.event.run = client.run
    <3>1. Head(stream.batch).seq - 1 <= client.cursor
      BY <1>3, <1>7, <2>2
    <3> QED
      BY <1>5, <2>2, <3>1 DEF Shows
  <2> QED
    BY <1>1, <1>2, <1>6, <2>1, <2>2 DEF ShowsRun, Shows
<1>9. IdleInv'
  <2> SUFFICES ASSUME client.run # None, client.state = "IDLE", ~Beginning,
                      NEW e \in Records(journal'), Ends(e, client.run), e.seq <= client.cursor,
                      \A f \in Records(journal') : f.seq > e.seq => f.event.run = client.run
               PROVE  e \in Records(stream.batch)
    BY <1>2, <1>6 DEF IdleInv, Ends
  <2>1. e \in Records(journal)
    BY <1>5
  <2>2. \A f \in Records(journal) : f.seq > e.seq => f \in Records(journal')
    BY <1>1, <1>4, StreamTyped DEF Grows
  <2> QED
    BY <1>1, <2>1, <2>2 DEF IdleInv
<1>10. EndTold'
  <2> SUFFICES ASSUME NEW r \in Runs, Only(r)', client.run = r, NEW e \in Records(journal'),
                      Ends(e, r), Recent(e)', e.seq <= client.cursor
               PROVE  client.state \in Over
    BY <1>2 DEF EndTold, Ends
  <2>1. Only(r)
    BY DEF Only, Onward
  <2>2. e \in Records(journal) /\ e.seq \in Nat
    BY <1>4, <1>5
  <2>3. Recent(e)
    BY <1>2, <1>3, <2>2, LiveAssumption DEF Recent
  <2> QED
    BY <1>1, <2>1, <2>2, <2>3 DEF EndTold
<1>11. NoSkip'
  <2> SUFFICES ASSUME stream.batch # <<>>, NEW f \in Records(journal'), client.cursor < f.seq,
                      f.seq < Head(stream.batch).seq, Recent(f)'
               PROVE  FALSE
    BY <1>2 DEF NoSkip
  <2>1. f \in Records(journal) /\ f.seq \in Nat
    BY <1>3, <1>4, <1>7
  <2>2. Recent(f)
    BY <1>2, <1>3, <2>1, LiveAssumption DEF Recent
  <2> QED
    BY <1>1, <2>1, <2>2 DEF NoSkip
<1>12. BeatInv'
  BY <1>1 DEF BeatInv
<1>13. ShowsEnd => ShowsEnd'
  BY <1>2, <1>3, <1>5 DEF ShowsEnd, Ends
<1>14. AfterEvents' /\ AfterSnapshot'
  BY <1>1, <1>13 DEF AfterEvents, AfterSnapshot, Settled
<1> QED
  BY <1>8, <1>9, <1>10, <1>11, <1>12, <1>14 DEF BrowserInv

-----------------------------------------------------------------------------
(* What the browser shows: what the stream does                            *)

LEMMA ServeQuiet ==
  ASSUME Serve \/ ConnectionLost
  PROVE  /\ UNCHANGED <<journal, pc, marker, setting>>
         /\ Records(journal)' = Records(journal) /\ Top(journal)' = Top(journal)
         /\ \A r \in Runs : Only(r)' <=> Only(r)
         /\ \A e : Recent(e)' <=> Recent(e)
<1>1. UNCHANGED <<journal, pc, marker, setting>>
  BY DEF Serve, Connect, ReadJournal, ReadMarker, Replay, Poll, Send, ConnectionLost, Quiet, runVars, journalVars
<1>2. Records(journal)' = Records(journal) /\ Top(journal)' = Top(journal)
  BY <1>1, JournalPrimed
<1> QED
  BY <1>1, <1>2 DEF Only, Recent

(* What the browser shows is as it was when nothing is shown to it.        *)
LEMMA NothingShown ==
  ASSUME Serve \/ ConnectionLost, UNCHANGED client
  PROVE  /\ EndTold => EndTold'
         /\ ShowsEnd => ShowsEnd'
         /\ Shows(client.cursor) => Shows(client.cursor)'
<1>1. /\ Records(journal)' = Records(journal)
      /\ \A r \in Runs : Only(r)' <=> Only(r)
      /\ \A e : Recent(e)' <=> Recent(e)
  BY ServeQuiet
<1> QED
  BY <1>1 DEF EndTold, ShowsEnd, Shows, Ends

LEMMA ConnectStep ==
  ASSUME TypeOK, StreamInv, BrowserInv, Connect
  PROVE  StreamInv' /\ BrowserInv'
<1>1. /\ stream.phase = "off" /\ UNCHANGED client /\ UNCHANGED pc
      /\ stream'.phase = "read" /\ stream'.why = "connect" /\ stream'.cursor = client.cursor
      /\ stream'.batch = stream.batch /\ stream'.view = stream.view /\ stream'.shown = stream.shown
  BY DEF Connect, TypeOK, Stream, Quiet, runVars
<1>2. Records(journal)' = Records(journal) /\ Top(journal)' = Top(journal)
  BY ServeQuiet DEF Serve
<1>3. SeenInv /\ CursorsInv /\ BatchInv /\ stream.batch = <<>>
  BY <1>1 DEF StreamInv, BatchInv
<1>4. SeenInv'
  BY <1>1, <1>3, StreamPrimed DEF SeenInv
<1>5. CursorsInv' /\ ViewInv'
  BY <1>1, <1>2, <1>3, StreamTyped DEF CursorsInv, ViewInv
<1>6. BatchInv'
  BY <1>1, <1>2, <1>3, StreamPrimed DEF BatchInv
<1>7. Beginning' /\ ~Settled'
  BY <1>1 DEF Beginning, Settled
<1>8. EndTold'
  BY <1>1, NothingShown DEF BrowserInv, Serve
<1>9. ShowsRun' /\ IdleInv' /\ AfterSnapshot'
  BY <1>7 DEF ShowsRun, IdleInv, AfterSnapshot
<1>10. NoSkip' /\ BeatInv' /\ AfterEvents'
  BY <1>1, <1>3 DEF NoSkip, BeatInv, AfterEvents
<1> QED
  BY <1>4, <1>5, <1>6, <1>8, <1>9, <1>10 DEF StreamInv, BrowserInv

LEMMA ReadJournalStep ==
  ASSUME IInv, RunsInv, StreamInv, BrowserInv, ReadJournal
  PROVE  StreamInv' /\ BrowserInv'
<1>1. /\ stream.phase = "read" /\ UNCHANGED client /\ UNCHANGED pc
      /\ stream'.phase = "judge" /\ stream'.why = stream.why /\ stream'.cursor = stream.cursor
      /\ stream'.batch = stream.batch /\ stream'.view = journal /\ stream'.shown = stream.shown
  BY DEF IInv, ReadJournal, TypeOK, Stream, Quiet, runVars
<1>2. Records(journal)' = Records(journal) /\ Top(journal)' = Top(journal)
  BY ServeQuiet DEF Serve
<1>3. /\ SeenInv /\ CursorsInv /\ BatchInv /\ stream.batch = <<>>
      /\ BrowserInv /\ BegunInv
  BY <1>1 DEF StreamInv, BatchInv, RunsInv
<1>4. SeenInv'
  BY <1>1, <1>3, StreamPrimed DEF SeenInv, BegunInv
<1>5. CursorsInv' /\ ViewInv'
  BY <1>1, <1>2, <1>3, StreamPrimed, JournalTyped DEF CursorsInv, ViewInv
<1>6. BatchInv'
  BY <1>1, <1>2, <1>3, StreamPrimed DEF BatchInv
<1>7. (Beginning' <=> Beginning) /\ (Settled' <=> Settled)
  BY <1>1 DEF Beginning, Settled
<1>8. /\ EndTold => EndTold'
      /\ ShowsEnd => ShowsEnd'
      /\ Shows(client.cursor) => Shows(client.cursor)'
  BY <1>1, NothingShown DEF Serve
<1>9. ShowsRun'
  BY <1>1, <1>3, <1>7, <1>8 DEF BrowserInv, ShowsRun
<1>10. IdleInv'
  BY <1>1, <1>2, <1>3, <1>7, StreamPrimed DEF BrowserInv, IdleInv, Ends
<1>11. NoSkip' /\ BeatInv' /\ AfterEvents'
  BY <1>1, <1>3, <1>8 DEF BrowserInv, NoSkip, BeatInv, AfterEvents
<1>12. AfterSnapshot'
  BY <1>1, <1>3, <1>7, <1>8 DEF BrowserInv, AfterSnapshot
<1>13. EndTold'
  BY <1>3, <1>8 DEF BrowserInv
<1> QED
  BY <1>4, <1>5, <1>6, <1>9, <1>10, <1>11, <1>12, <1>13 DEF StreamInv, BrowserInv

LEMMA ConnectionLostStep ==
  ASSUME IInv, StreamInv, BrowserInv, ConnectionLost
  PROVE  StreamInv' /\ BrowserInv'
<1>1. /\ UNCHANGED client /\ UNCHANGED pc
      /\ stream'.phase = "off" /\ stream'.cursor = stream.cursor
      /\ stream'.batch = <<>> /\ stream'.view = <<>> /\ stream'.shown.cursor = 0
  BY DEF IInv, ConnectionLost, TypeOK, Stream, Quiet, runVars, NoSnapshot
<1>2. Records(journal)' = Records(journal) /\ Top(journal)' = Top(journal)
  BY ServeQuiet
<1>3. SeenInv /\ CursorsInv /\ EndTold
  BY DEF StreamInv, BrowserInv
<1>4. Records(<<>>) = {} /\ Gapless(<<>>)
  BY DEF Records, Gapless
<1>5. SeenInv'
  BY <1>1, <1>3, <1>4, StreamPrimed DEF SeenInv
<1>6. CursorsInv' /\ ViewInv'
  BY <1>1, <1>2, <1>3, JournalTyped DEF CursorsInv, ViewInv
<1>7. BatchInv'
  BY <1>1, <1>4, StreamPrimed DEF BatchInv
<1>8. EndTold'
  BY <1>1, <1>3, NothingShown
<1>9. ShowsRun' /\ IdleInv' /\ NoSkip' /\ BeatInv' /\ AfterEvents' /\ AfterSnapshot'
  BY <1>1 DEF ShowsRun, IdleInv, NoSkip, BeatInv, AfterEvents, AfterSnapshot, Beginning, Settled
<1> QED
  BY <1>5, <1>6, <1>7, <1>8, <1>9 DEF StreamInv, BrowserInv

(* A batch made of what is beyond the stream's cursor.                     *)
LEMMA NewBatch ==
  ASSUME IInv, RunsInv, StreamInv, NEW b, b = After(stream.cursor)
  PROVE  /\ b \in Seq(Record) /\ Gapless(b) /\ Records(b) \subseteq Records(journal)
         /\ \A f \in Records(b), g \in Records(journal) : g.seq <= f.seq => f \in Records(journal)
         /\ \A f \in Records(b) : f.seq <= Top(journal) /\ pc[f.event.run] # "idle"
         /\ b # <<>> => client.cursor <= Top(b)
         /\ b # <<>> => \A f \in Records(journal) :
              client.cursor < f.seq /\ f.seq < Head(b).seq => ~Recent(f)
         /\ b = <<>> => Top(journal) <= stream.cursor
<1>1. TypeOK /\ CursorsInv /\ BegunInv /\ stream.cursor \in Nat /\ client.cursor \in Nat
  BY StreamTyped DEF IInv, StreamInv, RunsInv
<1>2. /\ journal \in Seq(Record) /\ Gapless(journal) /\ Top(journal) \in Nat
      /\ \A f \in Records(journal) : f \in Record /\ f.seq \in Nat /\ f.seq <= Top(journal)
  BY JournalTyped
<1>3. /\ b \in Seq(Record) /\ Gapless(b)
      /\ Records(b) \subseteq Records(journal)
      /\ b # <<>> => Top(b) = Top(journal)
      /\ \A f \in Records(journal) :
           (stream.cursor < f.seq /\ f \notin Records(b)) => f.seq + MaxReplay <= Top(journal)
  BY <1>1, <1>2, AfterFacts
<1>4. MaxReplay \in Nat /\ MaxReplay > 0
  BY LiveAssumption
<1>5. ASSUME b # <<>>, NEW f \in Records(journal), client.cursor < f.seq, f.seq < Head(b).seq
      PROVE  ~Recent(f)
  <2>1. f \notin Records(b)
    <3>1. \A g \in Records(b) : Head(b).seq <= g.seq /\ g.seq \in Nat
      BY <1>3, <1>5, TopFacts
    <3>2. Head(b).seq \in Nat
      BY <1>3, <1>5, TopFacts
    <3> QED
      BY <1>2, <1>5, <3>1, <3>2
  <2>2. stream.cursor < f.seq
    BY <1>1, <1>2, <1>5 DEF CursorsInv
  <2> QED
    BY <1>2, <1>3, <1>4, <2>1, <2>2 DEF Recent
<1>6. b = <<>> => Top(journal) <= stream.cursor
  <2> SUFFICES ASSUME b = <<>>, stream.cursor < Top(journal) PROVE FALSE
    BY <1>1, <1>2
  <2>1. journal # <<>>
    BY <1>1, <1>2, TopFacts
  <2>2. Newest(journal) \in Records(journal) /\ Newest(journal).seq = Top(journal)
    BY <1>2, <2>1, TopFacts DEF Top
  <2>3. Newest(journal) \notin Records(b)
    BY DEF Records
  <2> QED
    BY <1>2, <1>3, <1>4, <2>2, <2>3
<1> QED
  BY <1>1, <1>2, <1>3, <1>5, <1>6 DEF CursorsInv, BegunInv

LEMMA ReplayStep ==
  ASSUME IInv, RunsInv, StreamInv, BrowserInv, Replay
  PROVE  StreamInv' /\ BrowserInv'
<1> DEFINE b == After(stream.cursor)
<1>1. /\ stream.phase = "replay" /\ UNCHANGED client /\ UNCHANGED pc
      /\ stream'.phase = "send" /\ stream'.why = stream.why /\ stream'.cursor = stream.cursor
      /\ stream'.batch = b /\ stream'.view = stream.view /\ stream'.shown = stream.shown
  BY DEF IInv, Replay, TypeOK, Stream, Quiet, runVars
<1> HIDE DEF b
<1>2. /\ Records(journal)' = Records(journal) /\ Top(journal)' = Top(journal)
      /\ \A e : Recent(e)' <=> Recent(e)
  BY ServeQuiet DEF Serve
<1>3. /\ b \in Seq(Record) /\ Gapless(b)
      /\ \A f \in Records(b), g \in Records(journal) : g.seq <= f.seq => f \in Records(journal)
      /\ \A f \in Records(b) : f.seq <= Top(journal) /\ pc[f.event.run] # "idle"
      /\ b # <<>> => client.cursor <= Top(b)
      /\ b # <<>> => \A f \in Records(journal) :
           client.cursor < f.seq /\ f.seq < Head(b).seq => ~Recent(f)
  BY NewBatch DEF b
<1>4. /\ SeenInv /\ CursorsInv /\ BatchInv /\ stream.batch = <<>> /\ stream.why = "connect"
      /\ BrowserInv
  BY <1>1 DEF StreamInv, BatchInv
<1>5. SeenInv'
  BY <1>1, <1>3, <1>4, StreamPrimed DEF SeenInv
<1>6. CursorsInv' /\ ViewInv'
  BY <1>1, <1>2, <1>4 DEF CursorsInv, ViewInv
<1>7. BatchInv'
  BY <1>1, <1>2, <1>3, <1>4, StreamPrimed DEF BatchInv
<1>8. ~Beginning /\ Settled
  BY <1>1 DEF Beginning, Settled
<1>9. /\ EndTold => EndTold'
      /\ ShowsEnd => ShowsEnd'
      /\ Shows(client.cursor) => Shows(client.cursor)'
  BY <1>1, NothingShown DEF Serve
<1>10. ShowsRun'
  BY <1>1, <1>4, <1>8, <1>9 DEF BrowserInv, ShowsRun
<1>11. IdleInv'
  <2>1. Records(stream.batch) = {}
    BY <1>4 DEF Records
  <2> QED
    BY <1>1, <1>2, <1>4, <1>8, <2>1, StreamPrimed DEF BrowserInv, IdleInv, Ends
<1>12. NoSkip'
  BY <1>1, <1>2, <1>3 DEF NoSkip
<1>13. EndTold' /\ BeatInv' /\ AfterEvents'
  BY <1>1, <1>4, <1>9 DEF BrowserInv, BeatInv, AfterEvents
<1>14. AfterSnapshot'
  BY <1>1, <1>4, <1>8, <1>9 DEF BrowserInv, AfterSnapshot
<1> QED
  BY <1>5, <1>6, <1>7, <1>10, <1>11, <1>12, <1>13, <1>14 DEF StreamInv, BrowserInv

LEMMA PollStep ==
  ASSUME IInv, RunsInv, StreamInv, BrowserInv, Poll
  PROVE  StreamInv' /\ BrowserInv'
<1> DEFINE b == After(stream.cursor)
<1>1. /\ stream.phase = "loop" /\ UNCHANGED client /\ UNCHANGED pc
      /\ stream'.cursor = stream.cursor /\ stream'.view = stream.view /\ stream'.shown = stream.shown
      /\ \/ b # <<>> /\ stream'.phase = "send" /\ stream'.why = "events" /\ stream'.batch = b
         \/ b = <<>> /\ stream'.phase = "read" /\ stream'.why = "beat" /\ stream'.batch = stream.batch
  BY DEF IInv, Poll, TypeOK, Stream, Quiet, runVars
<1> HIDE DEF b
<1>2. /\ Records(journal)' = Records(journal) /\ Top(journal)' = Top(journal)
      /\ \A e : Recent(e)' <=> Recent(e)
  BY ServeQuiet DEF Serve
<1>3. /\ b \in Seq(Record) /\ Gapless(b)
      /\ \A f \in Records(b), g \in Records(journal) : g.seq <= f.seq => f \in Records(journal)
      /\ \A f \in Records(b) : f.seq <= Top(journal) /\ pc[f.event.run] # "idle"
      /\ b # <<>> => client.cursor <= Top(b)
      /\ b # <<>> => \A f \in Records(journal) :
           client.cursor < f.seq /\ f.seq < Head(b).seq => ~Recent(f)
      /\ b = <<>> => Top(journal) <= stream.cursor
  BY NewBatch DEF b
<1>4. SeenInv /\ CursorsInv /\ BatchInv /\ stream.batch = <<>> /\ BrowserInv
  BY <1>1 DEF StreamInv, BatchInv
<1>5. SeenInv'
  BY <1>1, <1>3, <1>4, StreamPrimed DEF SeenInv
<1>6. CursorsInv' /\ ViewInv'
  BY <1>1, <1>2, <1>4 DEF CursorsInv, ViewInv
<1>7. BatchInv'
  BY <1>1, <1>2, <1>3, <1>4, StreamPrimed DEF BatchInv
<1>8. ~Beginning /\ Settled
  BY <1>1 DEF Beginning, Settled
<1>9. /\ EndTold => EndTold'
      /\ ShowsEnd => ShowsEnd'
      /\ Shows(client.cursor) => Shows(client.cursor)'
  BY <1>1, NothingShown DEF Serve
<1>10. ShowsRun'
  BY <1>1, <1>4, <1>8, <1>9 DEF BrowserInv, ShowsRun
<1>11. IdleInv'
  <2>1. Records(stream.batch) = {}
    BY <1>4 DEF Records
  <2> QED
    BY <1>1, <1>2, <1>4, <1>8, <2>1, StreamPrimed DEF BrowserInv, IdleInv, Ends
<1>12. NoSkip'
  BY <1>1, <1>2, <1>3, <1>4 DEF NoSkip
<1>13. BeatInv'
  <2>1. b = <<>> => stream.shown.cursor <= client.cursor
    BY <1>3, <1>4, JournalTyped, StreamTyped DEF CursorsInv, IInv
  <2> QED
    BY <1>1, <2>1 DEF BeatInv
<1>14. EndTold' /\ AfterEvents'
  BY <1>1, <1>4, <1>9 DEF BrowserInv, AfterEvents
<1>15. AfterSnapshot'
  BY <1>1, <1>4, <1>8, <1>9 DEF BrowserInv, AfterSnapshot, Settled
<1> QED
  BY <1>5, <1>6, <1>7, <1>10, <1>11, <1>12, <1>13, <1>14, <1>15 DEF StreamInv, BrowserInv

(* What a snapshot says of the journal it was made of, if no newer run has *)
(* taken the repository.                                                   *)
LEMMA SnapshotFacts ==
  ASSUME IInv, StreamInv, stream.phase = "judge", NEW s, s = Snapshot(stream.view)
  PROVE  /\ s.cursor = Top(stream.view) /\ s.run = RunOf(stream.view)
         /\ s.state = "IDLE" => s.run = None
         /\ s.state = "WORKING" => ~NewerMarker(stream.view)
         /\ \A f \in Records(journal) : f.seq = s.cursor => f.event.run = s.run
         /\ s.run # None => pc[s.run] # "idle"
         /\ ~NewerMarker(stream.view) => \A e \in Records(journal) :
              Ends(e, s.run) /\ e.seq <= s.cursor => s.state \in Over
<1> DEFINE view == stream.view
<1>1. /\ view \in Seq(Record) /\ Gapless(view)
      /\ \A f \in Records(journal) : f.seq <= Top(view) => f \in Records(view)
      /\ \A f \in Records(view) : pc[f.event.run] # "idle"
      /\ \A f \in Records(journal) : f.seq \in Nat
  BY StreamTyped DEF IInv, StreamInv, SeenInv, ViewInv
<1> HIDE DEF view
<1>2. s.cursor = Top(view) /\ s.run = RunOf(view) /\ s.state = StateOf(view)
  BY DEF Snapshot, Top, view
<1>3. view = <<>> => RunOf(view) = None
  BY DEF RunOf, Newest, LatestOf, Records, NoRecord, NoEvent, Event
<1>4. /\ Top(view) \in Nat
      /\ \A f, g \in Records(view) : f.seq = g.seq => f = g
      /\ view # <<>> => Newest(view) \in Records(view)
      /\ view = <<>> => Records(view) = {}
  BY <1>1, TopFacts
<1>5. s.state = "IDLE" => s.run = None
  BY <1>2, <1>3 DEF StateOf
<1>6. s.state = "WORKING" => ~NewerMarker(view)
  BY <1>2 DEF StateOf, NewerMarker
<1>7. ASSUME NEW f \in Records(journal), f.seq = s.cursor PROVE f.event.run = s.run
  <2>1. f \in Records(view) /\ Newest(view) \in Records(view) /\ f.seq = Newest(view).seq
    BY <1>1, <1>2, <1>4, <1>7 DEF Top
  <2>2. f = Newest(view)
    BY <1>4, <2>1
  <2> QED
    BY <1>2, <2>2 DEF RunOf
<1>8. s.run # None => pc[s.run] # "idle"
  BY <1>1, <1>2, <1>3, <1>4 DEF RunOf
<1>9. ASSUME ~NewerMarker(view), NEW e \in Records(journal), Ends(e, s.run), e.seq <= s.cursor
      PROVE  s.state \in Over
  <2> DEFINE S == {f \in OfRun(view) : f.event.kind \in {"run"} /\ f.event.state \in Terminal}
  <2>1. e \in S
    BY <1>1, <1>2, <1>9 DEF OfRun, Ends
  <2>2. S \in SUBSET Records(view)
    BY DEF OfRun
  <2>3. RunEnd(view) = LatestOf(S)
    BY DEF RunEnd, LastOf
  <2>4. RunEnd(view) \in S
    BY <1>1, <2>1, <2>2, <2>3, LatestThere
  <2>5. RunEnd(view).event.kind = "run" /\ RunEnd(view).event.state \in Terminal
    BY <2>4
  <2>6. RunEnd(view) # NoRecord
    BY <2>5 DEF NoRecord, NoEvent, Event
  <2>7. EndRecord(view) = RunEnd(view)
    BY <1>9, <2>6 DEF EndRecord
  <2> QED
    BY <1>2, <2>5, <2>6, <2>7 DEF StateOf, Over
<1> QED
  BY <1>2, <1>5, <1>6, <1>7, <1>8, <1>9 DEF view

LEMMA ReadMarkerStep ==
  ASSUME IInv, RunsInv, StreamInv, BrowserInv, ReadMarker
  PROVE  StreamInv' /\ BrowserInv'
<1> DEFINE s == Snapshot(stream.view)
           shown == stream.why = "connect" \/ (stream.why = "beat" /\ Differs(s, stream.shown))
<1>1. /\ stream.phase = "judge" /\ UNCHANGED pc
      /\ stream'.phase = IF stream.why = "connect" THEN "replay" ELSE "loop"
      /\ stream'.why = stream.why /\ stream'.batch = stream.batch /\ stream'.view = <<>>
      /\ stream'.shown = s
      /\ \/ stream'.cursor = stream.cursor
         \/ shown /\ stream'.cursor = Higher(stream.cursor, s.cursor)
      /\ IF shown
         THEN client'.state = s.state /\ client'.run = s.run /\ client'.cursor = Higher(client.cursor, s.cursor)
         ELSE UNCHANGED client /\ stream'.cursor = stream.cursor
      /\ stream.why \in {"connect", "beat", "events"}
  BY DEF IInv, ReadMarker, ShowSnapshot, TypeOK, Stream, Quiet, runVars
<1> HIDE DEF s, shown
<1>2. /\ s.cursor = Top(stream.view) /\ s.run = RunOf(stream.view)
      /\ s.state = "IDLE" => s.run = None
      /\ \A f \in Records(journal) : f.seq = s.cursor => f.event.run = s.run
      /\ s.run # None => pc[s.run] # "idle"
      /\ ~NewerMarker(stream.view) => \A e \in Records(journal) :
           Ends(e, s.run) /\ e.seq <= s.cursor => s.state \in Over
  BY <1>1, SnapshotFacts DEF s
<1>3. /\ Records(journal)' = Records(journal) /\ Top(journal)' = Top(journal)
      /\ \A r \in Runs : Only(r)' <=> Only(r)
  BY ServeQuiet DEF Serve
<1>4. /\ TypeOK /\ SeenInv /\ CursorsInv /\ ViewInv /\ BatchInv /\ BrowserInv /\ BegunInv
      /\ stream.batch = <<>>
  BY <1>1 DEF IInv, StreamInv, BatchInv, RunsInv
<1>5. /\ client.cursor \in Nat /\ stream.cursor \in Nat /\ Top(journal) \in Nat /\ s.cursor \in Nat
      /\ client.cursor <= s.cursor /\ s.cursor <= Top(journal) /\ stream.cursor <= client.cursor
  BY <1>1, <1>2, <1>4, StreamTyped, JournalTyped, TopFacts DEF ViewInv, CursorsInv
<1>6. client'.cursor = IF shown THEN s.cursor ELSE client.cursor
  BY <1>1, <1>5 DEF Higher
<1>7. stream'.cursor <= client'.cursor
  BY <1>1, <1>5, <1>6 DEF Higher
<1>8. Records(<<>>) = {} /\ Gapless(<<>>)
  BY DEF Records, Gapless
<1>9. SeenInv'
  BY <1>1, <1>2, <1>4, <1>8, StreamPrimed DEF SeenInv
<1>10. CursorsInv' /\ ViewInv'
  BY <1>1, <1>3, <1>5, <1>6, <1>7 DEF CursorsInv, ViewInv
<1>11. BatchInv'
  BY <1>1, <1>4, <1>8, StreamPrimed DEF BatchInv
<1>12. NoSkip' /\ BeatInv' /\ AfterEvents' /\ ~Beginning'
  BY <1>1, <1>4 DEF NoSkip, BeatInv, AfterEvents, Beginning
<1>13. CASE shown
  <2>1. ShowsRun'
    BY <1>1, <1>2, <1>3, <1>6, <1>13 DEF ShowsRun, Shows
  <2>2. IdleInv'
    BY <1>1, <1>2, <1>13 DEF IdleInv
  <2>3. EndTold'
    <3> SUFFICES ASSUME NEW r \in Runs, Only(r), s.run = r, NEW e \in Records(journal),
                        Ends(e, r), e.seq <= s.cursor
                 PROVE  s.state \in Over
      BY <1>1, <1>3, <1>6, <1>13 DEF EndTold, Ends
    <3>1. ~NewerMarker(stream.view)
      BY <1>2, <1>4 DEF NewerMarker, BegunInv, Only, TypeOK
    <3> QED
      BY <1>2, <3>1
  <2>4. AfterSnapshot'
    BY <1>1, <1>13 DEF AfterSnapshot, ShowsEnd
  <2> QED
    BY <1>9, <1>10, <1>11, <1>12, <2>1, <2>2, <2>3, <2>4 DEF StreamInv, BrowserInv
<1>14. CASE ~shown
  <2>1. UNCHANGED client /\ stream.why # "connect" /\ ~Beginning /\ Settled
    BY <1>1, <1>14 DEF shown, Beginning, Settled
  <2>2. /\ EndTold => EndTold'
        /\ ShowsEnd => ShowsEnd'
        /\ Shows(client.cursor) => Shows(client.cursor)'
    BY <2>1, NothingShown DEF Serve
  <2>3. ShowsRun'
    BY <1>4, <2>1, <2>2 DEF BrowserInv, ShowsRun
  <2>4. IdleInv'
    <3>1. Records(stream.batch) = {}
      BY <1>4, <1>8
    <3> QED
      BY <1>1, <1>3, <1>4, <2>1, <3>1, StreamPrimed DEF BrowserInv, IdleInv, Ends
  <2>5. AfterSnapshot'
    <3>1. CASE stream.why = "events"
      BY <1>1, <1>4, <2>2, <3>1 DEF BrowserInv, AfterEvents, AfterSnapshot
    <3>2. CASE stream.why = "beat"
      <4>1. s = stream.shown
        BY <1>14, <3>2 DEF shown, Differs
      <4> QED
        BY <1>1, <1>4, <2>1, <2>2, <4>1 DEF BrowserInv, AfterSnapshot
    <3> QED
      BY <1>1, <2>1, <3>1, <3>2
  <2>6. EndTold'
    BY <1>4, <2>2 DEF BrowserInv
  <2> QED
    BY <1>9, <1>10, <1>11, <1>12, <2>3, <2>4, <2>5, <2>6 DEF StreamInv, BrowserInv
<1> QED
  BY <1>13, <1>14

LEMMA SendNothingStep ==
  ASSUME IInv, StreamInv, BrowserInv, Send, stream.batch = <<>>
  PROVE  StreamInv' /\ BrowserInv'
<1>1. /\ stream.phase = "send" /\ UNCHANGED client /\ UNCHANGED pc
      /\ stream'.phase = IF stream.why = "connect" THEN "loop" ELSE "read"
      /\ stream'.why = stream.why /\ stream'.cursor = stream.cursor
      /\ stream'.batch = stream.batch /\ stream'.view = stream.view /\ stream'.shown = stream.shown
      /\ stream.why \in {"connect", "beat", "events"}
  BY DEF IInv, Send, TypeOK, Stream, Quiet, runVars
<1>2. Records(journal)' = Records(journal) /\ Top(journal)' = Top(journal)
  BY ServeQuiet DEF Serve
<1>3. SeenInv /\ CursorsInv /\ BatchInv /\ BrowserInv /\ stream.why # "beat"
  BY <1>1 DEF StreamInv, BatchInv
<1>4. SeenInv'
  BY <1>1, <1>3, StreamPrimed DEF SeenInv
<1>5. CursorsInv' /\ ViewInv'
  BY <1>1, <1>2, <1>3 DEF CursorsInv, ViewInv
<1>6. BatchInv'
  BY <1>1, <1>2, <1>3, StreamPrimed DEF BatchInv
<1>7. ~Beginning
  BY <1>1 DEF Beginning
<1>8. /\ EndTold => EndTold'
      /\ ShowsEnd => ShowsEnd'
      /\ Shows(client.cursor) => Shows(client.cursor)'
  BY <1>1, NothingShown DEF Serve
<1>9. ShowsRun'
  BY <1>1, <1>3, <1>7, <1>8 DEF BrowserInv, ShowsRun
<1>10. IdleInv'
  BY <1>1, <1>2, <1>3, <1>7, StreamPrimed DEF BrowserInv, IdleInv, Ends
<1>11. NoSkip' /\ BeatInv' /\ EndTold'
  BY <1>1, <1>3, <1>8 DEF BrowserInv, NoSkip, BeatInv
<1>12. AfterEvents'
  BY <1>1, <1>3, <1>8 DEF BrowserInv, AfterEvents
<1>13. AfterSnapshot'
  BY <1>1, <1>3, <1>8 DEF BrowserInv, AfterSnapshot, AfterEvents, Settled
<1> QED
  BY <1>4, <1>5, <1>6, <1>9, <1>10, <1>11, <1>12, <1>13 DEF StreamInv, BrowserInv

(* What the browser makes of a record.                                     *)
LEMMA ShowEventFacts ==
  ASSUME TypeOK, NEW rec \in Record, ShowEvent(rec)
  PROVE  /\ client'.cursor = Higher(client.cursor, rec.seq)
         /\ client.run = None => client'.run = None
         /\ client.run # None => client'.run = rec.event.run
         /\ client'.run # None /\ client'.state = "IDLE" =>
              \/ rec.seq > client.cursor /\ rec.event = Event(rec.event.run, "run", "started")
              \/ /\ ~(rec.seq > client.cursor) /\ ~Ends(rec, rec.event.run)
                 /\ client.run # rec.event.run \/ client.state = "IDLE"
         /\ client.run = rec.event.run /\ client.state \in Over => client'.state \in Over
         /\ Ends(rec, rec.event.run) => client'.state \in Over
         /\ client.run = rec.event.run /\ client.state # "WORKING" /\ client'.state = "WORKING" =>
              rec.seq > client.cursor /\ client.state = "IDLE"
<1> DEFINE e == rec.event
           other == client.run \notin {None, e.run}
           before == IF other THEN "IDLE" ELSE client.state
           late == /\ client.state \notin {"IDLE", "WORKING"} /\ client.run \in {None, e.run}
                   /\ e.kind = "turn" /\ e.state = "started"
           new == rec.seq > client.cursor
           ends == e.kind = "run" /\ e.state \in Terminal
<1>1. /\ client'.state = IF late \/ ~(new \/ ends) THEN before ELSE Told(before, e)
      /\ client'.run = IF other THEN e.run ELSE client.run
      /\ client'.cursor = Higher(client.cursor, rec.seq)
  BY DEF ShowEvent
<1>2. /\ e \in Events /\ e.run \in Runs /\ e.run # None
      /\ e.kind = "run" /\ e.state \notin Terminal => e = Event(e.run, "run", "started")
      /\ \/ e.kind = "run" /\ e.state \in Terminal \cup {"started"}
         \/ e.kind = "turn" /\ e.state \in {"started", "completed"}
         \/ e.kind = "error" /\ e.state = "failed"
  BY LiveAssumption DEF Record, Events, Event, Runs, None
<1>3. Ends(rec, e.run) <=> ends
  BY DEF Ends
<1> HIDE DEF e
<1>4. client.run # None => client'.run = e.run
  BY <1>1
<1>5. ASSUME client'.run # None, client'.state = "IDLE"
      PROVE  \/ new /\ e = Event(e.run, "run", "started")
             \/ ~new /\ ~ends /\ (client.run # e.run \/ client.state = "IDLE")
  <2>1. ~late
    BY <1>1, <1>5
  <2>2. CASE new \/ ends
    <3>1. e.state \notin {"failed", "completed"} /\ ~(e.kind = "turn" /\ e.state = "started")
      BY <1>1, <1>5, <2>1, <2>2 DEF Told
    <3>2. e.kind = "run" /\ e.state \notin Terminal
      BY <1>2, <3>1 DEF Terminal
    <3> QED
      BY <1>2, <2>2, <3>2
  <2>3. CASE ~(new \/ ends)
    BY <1>1, <1>5, <2>1, <2>3
  <2> QED
    BY <2>2, <2>3
<1>6. ASSUME client.run = e.run, client.state \in Over
      PROVE  client'.state \in Over
  BY <1>1, <1>2, <1>6 DEF Told, Over
<1>7. ASSUME ends PROVE client'.state \in Over
  BY <1>1, <1>7 DEF Told, Over, Terminal
<1>8. ASSUME client.run = e.run, client.state # "WORKING", client'.state = "WORKING"
      PROVE  new /\ client.state = "IDLE"
  BY <1>1, <1>2, <1>8 DEF Told, Terminal
<1> QED
  BY <1>1, <1>3, <1>4, <1>5, <1>6, <1>7, <1>8 DEF e

(* What sending the next record changes.                                   *)
SendsRecord(rec) ==
  /\ stream.phase = "send" /\ stream.batch # <<>> /\ rec = Head(stream.batch)
  /\ UNCHANGED pc
  /\ stream'.phase = "send" /\ stream'.why = stream.why
  /\ stream'.cursor = Higher(stream.cursor, rec.seq)
  /\ stream'.batch = Tail(stream.batch) /\ stream'.view = stream.view /\ stream'.shown = stream.shown
  /\ client'.cursor = Higher(client.cursor, rec.seq)
  /\ client.run = None => client'.run = None
  /\ client.run # None => client'.run = rec.event.run

LEMMA SendFacts ==
  ASSUME IInv, StreamInv, Send, stream.batch # <<>>, NEW rec, rec = Head(stream.batch)
  PROVE  /\ SendsRecord(rec) /\ ShowEvent(rec)
         /\ rec \in Record /\ rec.seq \in Nat /\ rec \in Records(stream.batch)
         /\ \A f \in Records(stream.batch) : rec.seq <= f.seq
         /\ \A g \in Records(journal) : g.seq <= rec.seq => rec \in Records(journal)
         /\ \A f \in Records(journal) : f.seq = rec.seq => f = rec
         /\ client.cursor \in Nat /\ client'.cursor \in Nat
         /\ client.cursor <= client'.cursor /\ rec.seq <= client'.cursor
         /\ client'.cursor \in {client.cursor, rec.seq}
<1>1. TypeOK /\ BatchInv /\ stream.batch \in Seq(Record) /\ client.cursor \in Nat
  BY StreamTyped DEF IInv, StreamInv
<1>2. /\ rec \in Record /\ rec.seq \in Nat /\ rec \in Records(stream.batch)
      /\ \A f \in Records(stream.batch) : rec.seq <= f.seq
  <2>1. Gapless(stream.batch)
    BY <1>1 DEF BatchInv
  <2> QED
    BY <1>1, <2>1, TopFacts
<1>3. ShowEvent(rec)
  BY DEF Send
<1>4. SendsRecord(rec)
  <2>1. /\ stream.phase = "send" /\ UNCHANGED pc
        /\ stream'.phase = "send" /\ stream'.why = stream.why
        /\ stream'.cursor = Higher(stream.cursor, rec.seq)
        /\ stream'.batch = Tail(stream.batch) /\ stream'.view = stream.view /\ stream'.shown = stream.shown
    BY <1>1 DEF Send, TypeOK, Stream, Quiet, runVars
  <2> QED
    BY <1>1, <1>2, <1>3, <2>1, ShowEventFacts DEF SendsRecord
<1>5. \A g \in Records(journal) : g.seq <= rec.seq => rec \in Records(journal)
  BY <1>1, <1>2 DEF BatchInv
<1>6. \A f \in Records(journal) : f.seq = rec.seq => f = rec
  BY <1>2, <1>5, JournalTyped
<1>7. /\ client'.cursor \in Nat /\ client.cursor <= client'.cursor /\ rec.seq <= client'.cursor
      /\ client'.cursor \in {client.cursor, rec.seq}
  BY <1>1, <1>2, <1>4 DEF SendsRecord, Higher
<1> QED
  BY <1>1, <1>2, <1>3, <1>4, <1>5, <1>6, <1>7

LEMMA SendRecordStream ==
  ASSUME IInv, StreamInv, Send, stream.batch # <<>>
  PROVE  StreamInv'
<1> DEFINE rec == Head(stream.batch)
           rest == Tail(stream.batch)
<1>1. /\ SendsRecord(rec) /\ rec \in Record /\ rec.seq \in Nat /\ rec \in Records(stream.batch)
      /\ \A f \in Records(stream.batch) : rec.seq <= f.seq
      /\ client.cursor \in Nat /\ client'.cursor \in Nat
      /\ client.cursor <= client'.cursor /\ rec.seq <= client'.cursor
      /\ client'.cursor \in {client.cursor, rec.seq}
  BY SendFacts
<1>2. /\ TypeOK /\ SeenInv /\ CursorsInv /\ BatchInv /\ stream.batch \in Seq(Record) /\ Gapless(stream.batch)
      /\ stream.cursor \in Nat /\ Top(journal) \in Nat
  BY StreamTyped, JournalTyped DEF IInv, StreamInv, BatchInv
<1>3. /\ rest \in Seq(Record) /\ Gapless(rest) /\ Records(rest) \subseteq Records(stream.batch)
      /\ rest # <<>> => Top(rest) = Top(stream.batch)
      /\ Top(stream.batch) \in Nat /\ rec.seq <= Top(stream.batch)
  BY <1>1, <1>2, TailFacts, TopFacts
<1>4. Records(journal)' = Records(journal) /\ Top(journal)' = Top(journal)
  BY ServeQuiet DEF Serve
<1> HIDE DEF rec, rest
<1>5. /\ stream.phase = "send" /\ stream'.phase = "send" /\ stream'.why = stream.why
      /\ stream'.batch = rest /\ stream'.view = stream.view /\ stream'.shown = stream.shown
      /\ stream'.cursor = Higher(stream.cursor, rec.seq) /\ UNCHANGED pc
      /\ client'.run = None \/ client'.run = rec.event.run
  BY <1>1 DEF SendsRecord, rest
<1>6. SeenInv'
  BY <1>1, <1>2, <1>3, <1>5, StreamPrimed DEF SeenInv
<1>7. CursorsInv' /\ ViewInv'
  <2>1. rec.seq <= Top(journal)
    BY <1>1, <1>2 DEF BatchInv
  <2>2. stream'.cursor <= client'.cursor
    BY <1>1, <1>2, <1>5 DEF CursorsInv, Higher
  <2> QED
    BY <1>1, <1>2, <1>4, <1>5, <2>1, <2>2 DEF CursorsInv, ViewInv
<1>8. BatchInv'
  <2>1. client'.cursor <= Top(stream.batch)
    BY <1>1, <1>2, <1>3 DEF BatchInv, rec
  <2>2. /\ \A f \in Records(rest) : f.seq <= Top(journal)
        /\ \A f \in Records(rest), g \in Records(journal) : g.seq <= f.seq => f \in Records(journal)
        /\ stream.why # "beat"
    BY <1>2, <1>3, <1>5 DEF BatchInv
  <2> QED
    BY <1>3, <1>4, <1>5, <2>1, <2>2, StreamPrimed DEF BatchInv
<1> QED
  BY <1>6, <1>7, <1>8 DEF StreamInv

LEMMA SendRecordBrowser ==
  ASSUME IInv, RunsInv, StreamInv, BrowserInv, Send, stream.batch # <<>>
  PROVE  BrowserInv'
<1> DEFINE rec == Head(stream.batch)
           rest == Tail(stream.batch)
<1>1. /\ SendsRecord(rec) /\ ShowEvent(rec)
      /\ rec \in Record /\ rec.seq \in Nat /\ rec \in Records(stream.batch)
      /\ \A f \in Records(stream.batch) : rec.seq <= f.seq
      /\ \A g \in Records(journal) : g.seq <= rec.seq => rec \in Records(journal)
      /\ \A f \in Records(journal) : f.seq = rec.seq => f = rec
      /\ client.cursor \in Nat /\ client'.cursor \in Nat
      /\ client.cursor <= client'.cursor /\ rec.seq <= client'.cursor
      /\ client'.cursor \in {client.cursor, rec.seq}
  BY SendFacts
<1>2. /\ TypeOK /\ SeenInv /\ CursorsInv /\ BatchInv /\ EndsInv
      /\ stream.batch \in Seq(Record) /\ Gapless(stream.batch)
      /\ ShowsRun /\ IdleInv /\ EndTold /\ NoSkip
      /\ client.cursor <= Top(journal) /\ client.cursor <= Top(stream.batch)
      /\ rec.event.run \in Runs /\ pc[rec.event.run] # "idle"
      /\ client.run # None => client.run \in Runs /\ pc[client.run] # "idle"
  <2>1. TypeOK /\ SeenInv /\ CursorsInv /\ BatchInv /\ EndsInv /\ BrowserInv
    BY DEF IInv, RunsInv, StreamInv
  <2> QED
    BY <1>1, <2>1, StreamTyped DEF BrowserInv, SeenInv, CursorsInv, BatchInv
<1>3. /\ journal \in Seq(Record) /\ Gapless(journal) /\ Top(journal) \in Nat
      /\ \A f \in Records(journal) : f \in Record /\ f.seq \in Nat /\ f.seq <= Top(journal)
      /\ \A f, g \in Records(journal) : f.seq = g.seq => f = g
  BY JournalTyped
<1>4. /\ Records(stream.batch) = Records(rest) \cup {rec}
      /\ rest # <<>> => Head(rest).seq = rec.seq + 1
      /\ rest = <<>> => Top(stream.batch) = rec.seq
  BY <1>2, TailFacts
<1>5. /\ Records(journal)' = Records(journal) /\ Top(journal)' = Top(journal)
      /\ \A r \in Runs : Only(r)' <=> Only(r)
      /\ \A e : Recent(e)' <=> Recent(e)
  BY ServeQuiet DEF Serve
<1>6. rec = Head(stream.batch) /\ stream.batch # <<>>
  OBVIOUS
<1> HIDE DEF rec, rest
<1>7. /\ stream.phase = "send" /\ stream'.phase = "send" /\ stream'.batch = rest
      /\ client.run = None => client'.run = None
      /\ client.run # None => client'.run = rec.event.run
      /\ ~Beginning
  BY <1>1 DEF SendsRecord, Beginning, rest
<1>8. /\ client'.run # None /\ client'.state = "IDLE" =>
           \/ rec.seq > client.cursor /\ rec.event = Event(rec.event.run, "run", "started")
           \/ /\ ~(rec.seq > client.cursor) /\ ~Ends(rec, rec.event.run)
              /\ client.run # rec.event.run \/ client.state = "IDLE"
      /\ client.run = rec.event.run /\ client.state \in Over => client'.state \in Over
      /\ Ends(rec, rec.event.run) => client'.state \in Over
  BY <1>1, <1>2, ShowEventFacts
<1>9. ShowsRun'
  <2> SUFFICES ASSUME client'.run # None
               PROVE  \/ \A f \in Records(journal) : f.seq = client'.cursor => f.event.run = client'.run
                      \/ /\ rest # <<>> /\ Head(rest).seq <= client'.cursor
                         /\ \A f \in Records(journal) :
                              f.seq = Head(rest).seq - 1 => f.event.run = client'.run
    BY <1>5, <1>7 DEF ShowsRun, Shows
  <2>1. client'.run = rec.event.run
    BY <1>7
  <2>2. CASE client'.cursor = rec.seq
    BY <1>1, <2>1, <2>2
  <2>3. CASE client'.cursor # rec.seq
    <3>1. client'.cursor = client.cursor /\ rec.seq < client.cursor
      BY <1>1, <2>3
    <3>2. rest # <<>> /\ Head(rest).seq = rec.seq + 1
      BY <1>1, <1>2, <1>4, <3>1
    <3>3. Head(rest).seq <= client'.cursor /\ Head(rest).seq - 1 = rec.seq
      BY <1>1, <3>1, <3>2
    <3> QED
      BY <1>1, <2>1, <3>2, <3>3
  <2> QED
    BY <2>2, <2>3
<1>10. IdleInv'
  <2> SUFFICES ASSUME client'.run # None, client'.state = "IDLE",
                      NEW e \in Records(journal), Ends(e, client'.run), e.seq <= client'.cursor,
                      \A f \in Records(journal) : f.seq > e.seq => f.event.run = client'.run
               PROVE  e \in Records(rest)
    BY <1>5, <1>7, StreamPrimed DEF IdleInv, Ends
  <2>1. client'.run = rec.event.run /\ client.run # None /\ e.seq \in Nat
    BY <1>3, <1>7
  <2>2. ~(rec.seq > client.cursor /\ rec.event = Event(rec.event.run, "run", "started"))
    <3> SUFFICES ASSUME rec.seq > client.cursor, rec.event = Event(rec.event.run, "run", "started")
                 PROVE  FALSE
      OBVIOUS
    <3>1. e.seq <= rec.seq
      BY <1>1
    <3>2. rec \in Records(journal)
      BY <1>1, <3>1
    <3>3. rec.seq < e.seq
      BY <1>2, <2>1, <3>2 DEF EndsInv
    <3> QED
      BY <1>1, <2>1, <3>1, <3>3
  <2>3. /\ ~(rec.seq > client.cursor) /\ ~Ends(rec, rec.event.run)
        /\ client.run # rec.event.run \/ client.state = "IDLE"
    BY <1>8, <2>2
  <2>4. client'.cursor = client.cursor /\ rec.seq <= client.cursor
    BY <1>1, <2>3
  <2>5. e # rec
    BY <2>1, <2>3
  <2>6. ~(e.seq < rec.seq)
    <3> SUFFICES ASSUME e.seq < rec.seq PROVE FALSE
      OBVIOUS
    <3>1. CASE client.run = rec.event.run
      <4>1. e \in Records(stream.batch)
        BY <1>2, <1>7, <2>1, <2>3, <2>4, <3>1 DEF IdleInv
      <4> QED
        BY <1>1, <2>1, <4>1
    <3>2. CASE client.run # rec.event.run
      <4>1. journal # <<>> /\ Head(journal).seq <= e.seq /\ Head(journal).seq \in Nat
        BY <1>3, TopFacts
      <4>2. ASSUME NEW n \in Nat, e.seq <= n, n <= client.cursor
            PROVE  \E f \in Records(journal) : f.seq = n /\ f.event.run = rec.event.run
        <5>1. Head(journal).seq <= n /\ n <= Top(journal)
          BY <1>1, <1>2, <1>3, <2>1, <4>1, <4>2
        <5>2. PICK f \in Records(journal) : f.seq = n
          BY <1>3, <4>1, <5>1, HasNumber
        <5>3. f.event.run = rec.event.run
          <6>1. CASE f.seq = e.seq
            BY <1>3, <2>1, <6>1 DEF Ends
          <6>2. CASE f.seq > e.seq
            BY <2>1, <6>2
          <6> QED
            BY <2>1, <4>2, <5>2, <6>1, <6>2
        <5> QED
          BY <5>2, <5>3
      <4>3. ~Shows(client.cursor)
        BY <1>1, <2>1, <2>4, <3>2, <4>2 DEF Shows
      <4>4. ~Shows(rec.seq - 1)
        <5>1. rec.seq - 1 \in Nat /\ e.seq <= rec.seq - 1 /\ rec.seq - 1 <= client.cursor
          BY <1>1, <2>1, <2>4
        <5> QED
          BY <3>2, <4>2, <5>1 DEF Shows
      <4> QED
        BY <1>2, <1>6, <1>7, <2>1, <4>3, <4>4 DEF ShowsRun
    <3> QED
      BY <3>1, <3>2
  <2>7. e \in Records(stream.batch)
    <3>1. PICK g \in Records(stream.batch) : g.seq = e.seq
      <4>1. rec.seq <= e.seq /\ e.seq <= Top(stream.batch)
        BY <1>1, <1>2, <2>1, <2>4, <2>6, TopFacts
      <4> QED
        BY <1>2, <1>6, <2>1, <4>1, HasNumber
    <3>2. g \in Records(journal)
      BY <1>2, <2>1, <3>1 DEF BatchInv
    <3> QED
      BY <1>3, <3>1, <3>2
  <2> QED
    BY <1>4, <2>5, <2>7
<1>11. EndTold'
  <2> SUFFICES ASSUME NEW r \in Runs, Only(r), client'.run = r, NEW e \in Records(journal),
                      Ends(e, r), Recent(e), e.seq <= client'.cursor
               PROVE  client'.state \in Over
    BY <1>5 DEF EndTold, Ends
  <2>1. r # None /\ e.seq \in Nat
    BY <1>3, LiveAssumption DEF Runs, None
  <2>2. client.run = r /\ rec.event.run = r
    BY <1>2, <1>7, <2>1 DEF Only
  <2>3. CASE e.seq <= client.cursor
    BY <1>2, <1>8, <2>2, <2>3 DEF EndTold
  <2>4. CASE ~(e.seq <= client.cursor)
    <3>1. client.cursor < e.seq /\ e.seq <= rec.seq
      BY <1>1, <2>1, <2>4
    <3>2. ~(e.seq < rec.seq)
      BY <1>2, <1>6, <3>1 DEF NoSkip
    <3>3. e = rec
      BY <1>1, <2>1, <3>1, <3>2
    <3> QED
      BY <1>8, <2>2, <3>3
  <2> QED
    BY <2>3, <2>4
<1>12. NoSkip'
  <2> SUFFICES ASSUME rest # <<>>, NEW f \in Records(journal),
                      client'.cursor < f.seq, f.seq < Head(rest).seq
               PROVE  FALSE
    BY <1>5, <1>7 DEF NoSkip
  <2> QED
    BY <1>1, <1>3, <1>4
<1>13. rest = <<>> => ShowsEnd'
  <2> SUFFICES ASSUME rest = <<>>, NEW f \in Records(journal), f.seq = client'.cursor, Ends(f, client'.run)
               PROVE  client'.state \in Over
    BY <1>5 DEF ShowsEnd, Ends
  <2>1. client'.cursor = rec.seq
    BY <1>1, <1>2, <1>4
  <2>2. f = rec
    BY <1>1, <2>1
  <2> QED
    BY <1>8, <2>2 DEF Ends
<1>14. BeatInv' /\ AfterEvents' /\ AfterSnapshot'
  BY <1>7, <1>13 DEF BeatInv, AfterEvents, AfterSnapshot, Settled
<1> QED
  BY <1>9, <1>10, <1>11, <1>12, <1>14 DEF BrowserInv

-----------------------------------------------------------------------------
(* What the browser shows: the invariant of the specification              *)

LEMMA WatchInit ==
  ASSUME Init
  PROVE  WatchInv
<1>1. /\ journal = <<>> /\ stream.phase = "off" /\ stream.batch = <<>> /\ stream.view = <<>>
      /\ stream.cursor = 0 /\ stream.shown.cursor = 0 /\ stream.why = "connect"
      /\ client.cursor = 0 /\ client.run = None /\ marker.run = None
      /\ queue = [r \in Runs |-> <<>>]
  BY DEF Init, NoSnapshot
<1>2. Records(<<>>) = {} /\ Gapless(<<>>) /\ Top(<<>>) = 0
  <2>1. <<>> \in Seq(Record) /\ Gapless(<<>>)
    BY DEF Gapless
  <2> QED
    BY <2>1, TopFacts DEF Records
<1>3. RunsInv
  BY <1>1, <1>2 DEF RunsInv, BegunInv, QueueInv, EndsInv
<1>4. StreamInv
  BY <1>1, <1>2 DEF StreamInv, SeenInv, CursorsInv, ViewInv, BatchInv
<1>5. BrowserInv
  BY <1>1, <1>2
     DEF BrowserInv, ShowsRun, IdleInv, EndTold, NoSkip, BeatInv, AfterEvents, AfterSnapshot, Beginning, Settled
<1> QED
  BY <1>1, <1>3, <1>4, <1>5 DEF WatchInv

(* Where nobody watches nothing is served.                                 *)
LEMMA Unwatched ==
  ASSUME ~setting.watched, stream.phase = "off", [Next]_vars
  PROVE  UNCHANGED <<setting, stream, client>>
<1>1. ASSUME NEW r \in Runs, RunStep(r) \/ Dies(r)
      PROVE  UNCHANGED <<setting, stream, client>>
  BY <1>1 DEF RunStep, Acquire, Mark, TurnStarts, TurnEnds, BodyEnds, Release, Dies
<1>2. ASSUME NEW w \in Writers, Write(w)
      PROVE  UNCHANGED <<setting, stream, client>>
  BY <1>2 DEF Write, ReadRecords, ReplaceJournal, AppendAtOnce, AppendFails, runVars
<1>3. TimePasses \/ UNCHANGED vars => UNCHANGED <<setting, stream, client>>
  BY DEF TimePasses, vars, runVars
<1>4. ~Serve /\ ~ConnectionLost
  BY DEF Serve, Connect, ReadJournal, ReadMarker, Replay, Poll, Send, ConnectionLost
<1> QED
  BY <1>1, <1>2, <1>3, <1>4 DEF Next

LEMMA WatchStep ==
  ASSUME IInv, WatchInv, [Next]_vars
  PROVE  WatchInv'
<1>1. CASE ~setting.watched
  <2>1. UNCHANGED <<setting, stream, client>>
    BY <1>1, Unwatched DEF WatchInv
  <2> QED
    BY <1>1, <2>1 DEF WatchInv
<1>2. CASE setting.watched
  <2>1. RunsInv /\ StreamInv /\ BrowserInv /\ TypeOK
    BY <1>2 DEF WatchInv, IInv
  <2>2. /\ RunsInv' /\ Onward /\ Grows /\ UNCHANGED setting
        /\ UNCHANGED <<stream, client>> \/ Serve \/ ConnectionLost
    BY <1>2, <2>1, RunsStep
  <2>3. ASSUME UNCHANGED <<stream, client>>
        PROVE  StreamInv' /\ BrowserInv'
    BY <2>1, <2>2, <2>3, GrownStream, GrownBrowser
  <2>4. ASSUME Serve \/ ConnectionLost
        PROVE  StreamInv' /\ BrowserInv'
    BY <2>1, <2>4, ConnectStep, ReadJournalStep, ReadMarkerStep, ReplayStep, PollStep, SendNothingStep,
       SendRecordStream, SendRecordBrowser, ConnectionLostStep
       DEF Serve
  <2>5. StreamInv' /\ BrowserInv'
    BY <2>2, <2>3, <2>4
  <2> QED
    BY <1>2, <2>2, <2>5 DEF WatchInv
<1> QED
  BY <1>1, <1>2

(* Only a snapshot and a record change what the browser shows.             *)
LEMMA ClientChanges ==
  ASSUME IInv, WatchInv, [Next]_vars, ~UNCHANGED <<stream, client>>
  PROVE  RunsInv /\ StreamInv /\ BrowserInv /\ (Serve \/ ConnectionLost)
<1>1. setting.watched
  BY Unwatched DEF WatchInv
<1> QED
  BY <1>1, RunsStep DEF WatchInv

LEMMA EndedStays ==
  ASSUME IInv, WatchInv, [Next]_vars, NEW r \in Runs,
         ToldEnd(r), client.run = r, client.state # "WORKING", client'.run = r
  PROVE  client'.state # "WORKING"
<1> SUFFICES ASSUME client'.state = "WORKING" PROVE FALSE
  OBVIOUS
<1>1. /\ RunsInv /\ StreamInv /\ BrowserInv /\ TypeOK
      /\ ReadMarker \/ Send
  <2>1. ~UNCHANGED <<stream, client>>
    OBVIOUS
  <2>2. RunsInv /\ StreamInv /\ BrowserInv /\ (Serve \/ ConnectionLost)
    BY <2>1, ClientChanges
  <2> QED
    BY <2>2 DEF Serve, Connect, ReadJournal, Replay, Poll, ConnectionLost, IInv
<1>2. PICK e \in Records(journal) :
        /\ Ends(e, r) /\ e.seq <= client.cursor
        /\ \/ \A f \in Records(journal) : f.seq > e.seq => f.event.run = r
           \/ \A f \in Records(journal) : f.seq > e.seq => f.event.run # r
  BY DEF ToldEnd
<1>3. r # None /\ e.seq \in Nat /\ client.cursor \in Nat
  BY <1>1, StreamTyped, LiveAssumption DEF Runs, None
<1>4. CASE ReadMarker
  <2> DEFINE s == Snapshot(stream.view)
  <2>1. stream.phase = "judge" /\ s.state = "WORKING" /\ s.run = r
    BY <1>4 DEF ReadMarker, ShowSnapshot
  <2> HIDE DEF s
  <2>2. /\ s.cursor = Top(stream.view) /\ ~NewerMarker(stream.view)
        /\ \A f \in Records(journal) : Ends(f, s.run) /\ f.seq <= s.cursor => s.state \in Over
    BY <1>1, <2>1, SnapshotFacts DEF s
  <2>3. client.cursor <= Top(stream.view) /\ Top(stream.view) \in Nat
    BY <1>1, <2>1, StreamTyped, TopFacts DEF StreamInv, ViewInv
  <2>4. e.seq <= s.cursor
    BY <1>2, <1>3, <2>2, <2>3
  <2> QED
    BY <1>2, <2>1, <2>2, <2>4 DEF Over
<1>5. CASE Send
  <2> DEFINE rec == Head(stream.batch)
  <2>1. stream.batch # <<>>
    BY <1>5 DEF Send
  <2>2. /\ SendsRecord(rec) /\ ShowEvent(rec)
        /\ rec \in Record /\ rec.seq \in Nat /\ rec \in Records(stream.batch)
        /\ \A f \in Records(stream.batch) : rec.seq <= f.seq
        /\ \A g \in Records(journal) : g.seq <= rec.seq => rec \in Records(journal)
    BY <1>1, <1>5, <2>1, SendFacts
  <2> HIDE DEF rec
  <2>3. rec.event.run = r /\ ~Beginning
    BY <1>3, <2>2 DEF SendsRecord, Beginning
  <2>4. rec.seq > client.cursor /\ client.state = "IDLE"
    BY <1>1, <2>2, <2>3, ShowEventFacts
  <2>5. rec \in Records(journal) /\ rec.seq > e.seq
    BY <1>2, <1>3, <2>2, <2>4
  <2>6. \A f \in Records(journal) : f.seq > e.seq => f.event.run = r
    BY <1>2, <2>3, <2>5
  <2>7. e \in Records(stream.batch)
    BY <1>1, <1>2, <1>3, <2>3, <2>4, <2>6 DEF BrowserInv, IdleInv
  <2>8. rec.seq <= e.seq
    BY <2>2, <2>7
  <2> QED
    BY <1>3, <2>2, <2>5, <2>8
<1> QED
  BY <1>1, <1>4, <1>5

LEMMA EndShows ==
  ASSUME IInv, WatchInv, [Next]_vars, NEW r \in Runs,
         Heartbeat, marker.run \in {None, r}, LastWord(r) \/ (Only(r) /\ RecentEnd(r)),
         client'.run = r
  PROVE  client'.state \in Over
<1>1. /\ RunsInv /\ StreamInv /\ BrowserInv /\ TypeOK /\ ReadMarker
      /\ stream.phase = "judge" /\ stream.why = "beat" /\ stream.view = journal
  <2>1. stream.phase = "judge" /\ stream.why = "beat" /\ stream.view = journal /\ stream'.phase = "loop"
    BY DEF Heartbeat
  <2>2. RunsInv /\ StreamInv /\ BrowserInv /\ (Serve \/ ConnectionLost)
    BY <2>1, ClientChanges
  <2> QED
    BY <2>1, <2>2 DEF Serve, Connect, ReadJournal, Replay, Poll, Send, ConnectionLost, IInv, TypeOK, Stream
<1> DEFINE s == Snapshot(stream.view)
           shown == Differs(s, stream.shown)
<1>2. IF shown THEN client'.state = s.state /\ client'.run = s.run ELSE UNCHANGED client
  BY <1>1 DEF ReadMarker, ShowSnapshot
<1> HIDE DEF s, shown
<1>3. /\ s.cursor = Top(journal) /\ s.run = RunOf(journal)
      /\ ~NewerMarker(journal) => \A e \in Records(journal) :
           Ends(e, s.run) /\ e.seq <= s.cursor => s.state \in Over
  BY <1>1, SnapshotFacts DEF s
<1>4. /\ journal \in Seq(Record) /\ Gapless(journal) /\ Top(journal) \in Nat
      /\ \A f \in Records(journal) : f \in Record /\ f.seq \in Nat /\ f.seq <= Top(journal)
      /\ \A f, g \in Records(journal) : f.seq = g.seq => f = g
  BY JournalTyped
<1>5. PICK e \in Records(journal) :
        /\ Ends(e, r)
        /\ \/ \A f \in Records(journal) : f.event.run = r => f.seq <= e.seq
           \/ Only(r) /\ Recent(e)
  BY DEF LastWord, RecentEnd, Recent, Top
<1>6. r # None
  BY LiveAssumption DEF Runs, None
<1>7. RunOf(journal) = r => s.state \in Over
  <2>1. RunOf(journal) = r => ~NewerMarker(journal)
    BY DEF NewerMarker
  <2> QED
    BY <1>3, <1>4, <1>5, <2>1
<1>8. CASE shown
  BY <1>2, <1>3, <1>7, <1>8
<1>9. CASE ~shown
  <2>1. client' = client /\ s = stream.shown
    BY <1>2, <1>9 DEF shown, Differs
  <2>2. client.run = r /\ ~Beginning /\ Settled /\ stream.batch = <<>>
    BY <1>1, <2>1 DEF Beginning, Settled, StreamInv, BatchInv
  <2>3. client.cursor = Top(journal)
    <3>1. client.cursor <= Top(journal) /\ client.cursor \in Nat
      BY <1>1, StreamTyped DEF StreamInv, CursorsInv
    <3>2. Top(journal) <= client.cursor
      BY <1>1, <1>3, <2>1 DEF BrowserInv, BeatInv
    <3> QED
      BY <1>4, <3>1, <3>2
  <2>4. CASE Only(r) /\ Recent(e)
    BY <1>1, <1>4, <1>5, <2>1, <2>2, <2>3, <2>4 DEF BrowserInv, EndTold
  <2>5. CASE \A f \in Records(journal) : f.event.run = r => f.seq <= e.seq
    <3>1. Newest(journal) \in Records(journal) /\ Newest(journal).seq = Top(journal)
      BY <1>4, <1>5, TopFacts DEF Top
    <3>2. Newest(journal).event.run = r
      BY <1>1, <1>6, <2>2, <2>3, <3>1 DEF BrowserInv, ShowsRun, Shows
    <3>3. e.seq = client.cursor
      BY <1>4, <2>3, <2>5, <3>1, <3>2
    <3>4. RunOf(journal) = r
      BY <3>2 DEF RunOf
    <3>5. stream.shown.state \in Over /\ stream.shown.run = client.run /\ stream.shown.cursor = client.cursor
      BY <1>3, <1>7, <2>1, <2>2, <2>3, <3>4
    <3>6. ShowsEnd
      BY <1>1, <2>2, <3>5 DEF BrowserInv, AfterSnapshot
    <3> QED
      BY <1>5, <2>1, <2>2, <3>3, <3>6 DEF ShowsEnd
  <2> QED
    BY <1>5, <2>4, <2>5
<1> QED
  BY <1>8, <1>9

(* Where a browser watches: nobody knows more than the journal has, what   *)
(* is being sent is its end, and the browser shows the run, and the end of *)
(* the run, of the last record it has been sent.                           *)
THEOREM WatchInvariant == Spec => []WatchInv
<1> QED
  BY Invariant, WatchInit, WatchStep, PTL DEF Spec

(* Whatever is published late, sent again or lost with a connection: the   *)
(* browser never shows a run at work whose end it has been told, and a     *)
(* heartbeat that has just looked leaves it showing the end (the run       *)
(* events' precedence in snapshot(), executorRecordLateEvent, the stream's *)
(* loop of events and heartbeats).                                         *)
THEOREM EndIsShownAndStays == Spec => EndShown
<1>1. IInv /\ WatchInv /\ [Next]_vars =>
        [\A r \in Runs :
           ToldEnd(r) /\ client.run = r /\ client.state # "WORKING" /\ client'.run = r
             => client'.state # "WORKING"]_vars
  BY EndedStays
<1>2. IInv /\ WatchInv /\ [Next]_vars =>
        [\A r \in Runs :
           /\ Heartbeat /\ marker.run \in {None, r}
           /\ LastWord(r) \/ (Only(r) /\ RecentEnd(r))
           => client'.run # r \/ client'.state \in {"COMPLETE", "FAILED"}]_vars
  BY EndShows DEF Over
<1>3. Spec => EndedStaysEnded
  BY <1>1, Invariant, WatchInvariant, PTL DEF Spec, EndedStaysEnded
<1>4. Spec => EndIsShown
  BY <1>2, Invariant, WatchInvariant, PTL DEF Spec, EndIsShown
<1> QED
  BY <1>3, <1>4 DEF EndShown
=============================================================================
