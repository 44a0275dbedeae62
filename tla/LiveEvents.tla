----------------------------- MODULE LiveEvents -----------------------------
(***************************************************************************)
(* Who sees what of an Executor at work: the journal its runs write        *)
(* (live_events.py), the snapshot the dashboard makes of the journal and   *)
(* of the repository's lock file (live_reader.py), the stream it sends     *)
(* (dashboard.py) and what the browser shows.                              *)
(*                                                                         *)
(* A run is one delegate() of delegation.py.  It publishes its own start   *)
(* and end; the App Server's publisher thread publishes the turn's         *)
(* notifications, out of step with it.  Runs follow each other under the   *)
(* repository lock, whose file is the marker the reader looks at; its      *)
(* protocol is RepositoryLock.                                             *)
(***************************************************************************)
EXTENDS Integers, Sequences, FiniteSets

CONSTANTS
  MaxRuns,   \* bound: runs
  Keep,      \* max_records
  MaxReplay, \* MAX_SSE_REPLAY
  Settings

ASSUME LiveAssumption ==
  /\ MaxRuns \in Nat /\ Keep \in Nat \ {0} /\ MaxReplay \in Nat \ {0}
  /\ \A s \in Settings :
       /\ s.runs \in 0..MaxRuns                    \* runs that may take place
       /\ s.turns \in Nat                          \* bound: turns of a run
       /\ s.mishaps \in Nat                        \* bound: processes that die, writes that
                                                   \* fail, connections that are lost
       /\ s.watched \in BOOLEAN                    \* is a browser open?

VARIABLES
  setting,  \* where this behaviour takes place
  pc,       \* where each run is
  turns,    \* turns each run has begun
  queue,    \* notifications the publisher of each run has still to write
  marker,   \* the lock file: whose it is, and whether it has been written
  journal,  \* the file of records
  jlock,    \* the writer that holds the journal's lock
  draft,    \* what each writer has read, and the event it is about to add
  fresh,    \* is the newest record younger than LIVE_EVENT_FRESH_SECONDS?
  stream,   \* the server's side of the connection
  client,   \* the browser's side
  mishaps   \* how many there have been

runVars == <<setting, pc, turns, queue, marker>>
journalVars == <<journal, jlock, draft, fresh>>
vars == <<runVars, journalVars, stream, client, mishaps>>

-----------------------------------------------------------------------------
Runs == 1..MaxRuns
None == 0
Writers == Runs \X {"run", "publisher"}
Nobody == <<None, "nobody">>

Event(r, kind, state) == [run |-> r, kind |-> kind, state |-> state]
Terminal == {"completed", "failed"}  \* "cancelled" is treated like "failed"
Events ==
  [run : Runs, kind : {"run"}, state : Terminal \cup {"started"}]
    \cup [run : Runs, kind : {"turn"}, state : {"started", "completed"}]
    \cup [run : Runs, kind : {"error"}, state : {"failed"}]

NoEvent == Event(None, "none", "none")
NoDraft == [event |-> NoEvent, read |-> <<>>]
NoSnapshot == [state |-> "none", run |-> None, cursor |-> 0]
NoRecord == [seq |-> 0, event |-> NoEvent]

LatestOf(S) == IF S = {} THEN NoRecord ELSE CHOOSE e \in S : \A f \in S : f.seq <= e.seq
Records(s) == {s[i] : i \in DOMAIN s}
Newest(s) == LatestOf(Records(s))

Init ==
  /\ setting \in Settings
  /\ pc = [r \in Runs |-> "idle"]
  /\ turns = [r \in Runs |-> 0]
  /\ queue = [r \in Runs |-> <<>>]
  /\ marker = [run |-> None, written |-> FALSE]
  /\ journal = <<>>
  /\ jlock = Nobody
  /\ draft = [w \in Writers |-> NoDraft]
  /\ fresh = FALSE
  /\ stream = [phase |-> "off", why |-> "connect", cursor |-> 0, batch |-> <<>>,
               view |-> <<>>, shown |-> NoSnapshot]
  /\ client = [state |-> "IDLE", run |-> None, cursor |-> 0]
  /\ mishaps = 0

Mishap == mishaps < setting.mishaps /\ mishaps' = mishaps + 1

-----------------------------------------------------------------------------
(* Runs                                                                    *)

Dead(r) == pc[r] = "dead"
Free == marker.run = None \/ (marker.written /\ Dead(marker.run))

\* RepositoryLock.__enter__ creates the file and then writes it.
Acquire(r) ==
  /\ pc[r] = "idle" /\ r <= setting.runs /\ Free
  /\ marker' = [run |-> r, written |-> FALSE]
  /\ pc' = [pc EXCEPT ![r] = "marking"]
  /\ UNCHANGED <<setting, turns, queue, journalVars, stream, client, mishaps>>

Mark(r) ==
  /\ pc[r] = "marking"
  /\ marker' = [marker EXCEPT !.written = TRUE]
  /\ pc' = [pc EXCEPT ![r] = "begin"]
  /\ UNCHANGED <<setting, turns, queue, journalVars, stream, client, mishaps>>

\* Notifications are queued for the publisher, not written.
Notify(r, kind, state) == queue' = [queue EXCEPT ![r] = Append(@, Event(r, kind, state))]

\* The turn of an attempt; a fallback has one more.
TurnStarts(r) ==
  /\ pc[r] = "work" /\ turns[r] < setting.turns
  /\ turns' = [turns EXCEPT ![r] = @ + 1]
  /\ Notify(r, "turn", "started")
  /\ pc' = [pc EXCEPT ![r] = "turn"]
  /\ UNCHANGED <<setting, marker, journalVars, stream, client, mishaps>>

TurnEnds(r) ==
  /\ pc[r] = "turn"
  /\ Notify(r, "turn", "completed") \/ Notify(r, "error", "failed")
  /\ pc' = [pc EXCEPT ![r] = "work"]
  /\ UNCHANGED <<setting, turns, marker, journalVars, stream, client, mishaps>>

\* The body of the "with" block is over: the run publishes its outcome.
BodyEnds(r) ==
  /\ pc[r] = "work"
  /\ pc' = [pc EXCEPT ![r] = "end"]
  /\ UNCHANGED <<setting, turns, queue, marker, journalVars, stream, client, mishaps>>

\* The result is written (or not: an error) and the lock released.  An error
\* anywhere in the block is caught outside of it, when the lock is released.
Release(r) ==
  /\ \/ pc[r] = "ended" /\ pc' = [pc EXCEPT ![r] = "done"]
     \/ pc[r] \in {"work", "turn", "ended"} /\ pc' = [pc EXCEPT ![r] = "late"]
  /\ marker' = [run |-> None, written |-> FALSE]
  /\ UNCHANGED <<setting, turns, queue, journalVars, stream, client, mishaps>>

\* The operating system drops the journal lock of a dead process.
Dies(r) ==
  /\ Mishap
  /\ pc[r] \notin {"idle", "dead"}
  /\ pc' = [pc EXCEPT ![r] = "dead"]
  /\ queue' = [queue EXCEPT ![r] = <<>>]
  /\ jlock' = IF jlock[1] = r THEN Nobody ELSE jlock
  /\ draft' = [w \in Writers |-> IF w[1] = r THEN NoDraft ELSE draft[w]]
  /\ UNCHANGED <<setting, turns, marker, journal, fresh, stream, client>>

-----------------------------------------------------------------------------
(* The journal: LiveEventJournal._append_payloads under _journal_lock      *)

\* What a writer has to say next.
Pending(w) ==
  LET r == w[1] IN
  IF w[2] = "publisher" THEN IF queue[r] = <<>> THEN {} ELSE {Head(queue[r])}
  ELSE CASE pc[r] = "begin" -> {Event(r, "run", "started")}
         [] pc[r] = "end" -> {Event(r, "run", s) : s \in Terminal}
         [] pc[r] = "late" -> {Event(r, "run", s) : s \in Terminal \ {"completed"}}
         [] OTHER -> {}

\* Once the attempt to publish is over, the writer goes on.
GoOn(w) ==
  LET r == w[1] IN
  IF w[2] = "publisher" THEN queue' = [queue EXCEPT ![r] = Tail(@)] /\ UNCHANGED pc
  ELSE /\ pc' = [pc EXCEPT ![r] = CASE @ = "begin" -> "work" [] @ = "end" -> "ended" [] OTHER -> "done"]
       /\ UNCHANGED queue

\* Mutant: the journal is read before its lock is taken.
ReadRecordsUnlocked(w) ==
  /\ ~setting.watched /\ draft[w] = NoDraft
  /\ \E e \in Pending(w) : draft' = [draft EXCEPT ![w] = [event |-> e, read |-> journal]]
  /\ jlock' = w
  /\ UNCHANGED <<runVars, journal, fresh, stream, client, mishaps>>

ReadRecords(w) ==
  /\ ~setting.watched /\ jlock = Nobody
  /\ \E e \in Pending(w) : draft' = [draft EXCEPT ![w] = [event |-> e, read |-> journal]]
  /\ jlock' = w
  /\ UNCHANGED <<runVars, journal, fresh, stream, client, mishaps>>

\* Mutant: the journal is never cut.
Unbounded(s) == s

Bounded(s) ==
  IF Len(s) > Keep THEN SubSeq(s, Len(s) - Keep + 1, Len(s)) ELSE s

\* Mutant: records are numbered by how many there are.
NumberedByCount(s, e) == Append(s, [seq |-> Len(s) + 1, event |-> e])

Numbered(s, e) == Append(s, [seq |-> Newest(s).seq + 1, event |-> e])

ReplaceJournal(w) ==
  /\ draft[w] # NoDraft
  /\ journal' = Bounded(Numbered(draft[w].read, draft[w].event))
  /\ fresh' = TRUE
  /\ jlock' = Nobody
  /\ draft' = [draft EXCEPT ![w] = NoDraft]
  /\ GoOn(w)
  /\ UNCHANGED <<setting, turns, marker, stream, client, mishaps>>

\* The two in one step.  The stream only sees the file change, so where it is
\* the subject nothing is lost by it.
AppendAtOnce(w) ==
  /\ setting.watched
  /\ \E e \in Pending(w) : journal' = Bounded(Numbered(journal, e))
  /\ fresh' = TRUE
  /\ GoOn(w)
  /\ UNCHANGED <<setting, turns, marker, jlock, draft, stream, client, mishaps>>

\* Telemetry that cannot be written is given up silently.
AppendFails(w) ==
  /\ Mishap
  /\ IF setting.watched THEN Pending(w) # {} ELSE draft[w] # NoDraft
  /\ jlock' = IF draft[w] = NoDraft THEN jlock ELSE Nobody
  /\ draft' = [draft EXCEPT ![w] = NoDraft]
  /\ GoOn(w)
  /\ UNCHANGED <<setting, turns, marker, journal, fresh, stream, client>>

TimePasses ==
  /\ setting.watched /\ fresh /\ fresh' = FALSE
  /\ UNCHANGED <<runVars, journal, jlock, draft, stream, client, mishaps>>

-----------------------------------------------------------------------------
(* The reader: LiveExecutorReader.snapshot                                 *)

\* The run the newest record belongs to, and its records.
RunOf(view) == Newest(view).event.run
OfRun(view) == {e \in Records(view) : e.event.run = RunOf(view)}
LastOf(view, kinds, states) ==
  LatestOf({e \in OfRun(view) : e.event.kind \in kinds /\ e.event.state \in states})

RunEnd(view) == LastOf(view, {"run"}, Terminal)
TurnStart(view) == LastOf(view, {"turn"}, {"started"})
TurnEnd(view) ==
  LatestOf({LastOf(view, {"turn"}, {"completed"}), LastOf(view, {"run", "error"}, {"failed"})})

\* The record that says how the run, or its turn, has ended.
NewerMarker(view) == marker.written /\ marker.run # None /\ marker.run # RunOf(view)

EndRecord(view) ==
  IF NewerMarker(view) THEN NoRecord
  ELSE IF RunEnd(view) # NoRecord THEN RunEnd(view)
  ELSE IF TurnEnd(view).seq < TurnStart(view).seq THEN NoRecord
  ELSE TurnEnd(view)

\* _lock_snapshot: is the process the marker names alive (unknown if the
\* marker cannot be read)?
MarkerLive == IF ~marker.written THEN "unknown" ELSE IF Dead(marker.run) THEN "no" ELSE "yes"

StateOf(view) ==
  LET end == EndRecord(view) IN
  IF end # NoRecord THEN IF end.event.state = "completed" THEN "COMPLETE" ELSE "FAILED"
  ELSE IF marker.run = RunOf(view) /\ marker.run # None /\ MarkerLive = "yes" /\ fresh THEN "WORKING"
  ELSE IF view = <<>> THEN "IDLE"
  ELSE IF marker.run # None /\ MarkerLive # "no" THEN "DISCONNECTED"
  ELSE "STALE"

Snapshot(view) == [state |-> StateOf(view), run |-> RunOf(view), cursor |-> Newest(view).seq]

\* Mutant: only another cursor makes another snapshot.
DiffersInCursor(s, t) == s.cursor # t.cursor

\* _live_snapshot_key: the elapsed time of a run at work always differs.
Differs(s, t) == s # t \/ s.state = "WORKING"

Higher(a, b) == IF a > b THEN a ELSE b

\* events_after: the newest records beyond a cursor.  Records are in order, so
\* they are the end of the journal.
After(cursor) ==
  LET old == {i \in DOMAIN journal : journal[i].seq <= cursor} IN
  SubSeq(journal, Higher(Cardinality(old), Len(journal) - MaxReplay) + 1, Len(journal))

-----------------------------------------------------------------------------
(* The browser: LIVE_EXECUTOR_SCRIPT and the scripts that wrap it          *)

ShowSnapshot(s) ==
  client' = [state |-> s.state, run |-> s.run, cursor |-> Higher(client.cursor, s.cursor)]

\* executorAddEvent: what a new event says of the state.
Told(state, e) ==
  CASE e.state = "failed" -> "FAILED"
    [] e.state = "completed" -> "COMPLETE"
    [] e.kind = "turn" /\ e.state = "started" -> "WORKING"
    [] OTHER -> state

\* A turn that starts in a run already over is only noted.
ShowEvent(rec) ==
  LET e == rec.event
      other == client.run \notin {None, e.run}
      before == IF other THEN "IDLE" ELSE client.state
      late == /\ client.state \notin {"IDLE", "WORKING"} /\ client.run \in {None, e.run}
              /\ e.kind = "turn" /\ e.state = "started"
      new == rec.seq > client.cursor
      ends == e.kind = "run" /\ e.state \in Terminal
  IN client' = [state |-> IF late \/ ~(new \/ ends) THEN before ELSE Told(before, e),
                run |-> IF other THEN e.run ELSE client.run,
                cursor |-> Higher(client.cursor, rec.seq)]

-----------------------------------------------------------------------------
(* The stream: _stream_live_executor                                       *)

Quiet == UNCHANGED <<runVars, journalVars>>

Connect ==
  /\ setting.watched /\ stream.phase = "off"
  /\ stream' = [stream EXCEPT !.phase = "read", !.why = "connect", !.cursor = client.cursor]
  /\ Quiet /\ UNCHANGED <<client, mishaps>>

\* A snapshot reads the journal first, the marker later.
ReadJournal ==
  /\ stream.phase = "read"
  /\ stream' = [stream EXCEPT !.phase = "judge", !.view = journal]
  /\ Quiet /\ UNCHANGED <<client, mishaps>>

\* It is sent on connection, and by a heartbeat if it has changed; after
\* events it is only remembered.
ReadMarker ==
  /\ stream.phase = "judge"
  /\ LET s == Snapshot(stream.view)
         beat == stream.why = "beat" /\ Differs(s, stream.shown)
     IN /\ stream' = [stream EXCEPT
              !.phase = IF stream.why = "connect" THEN "replay" ELSE "loop",
              !.cursor = IF beat THEN Higher(@, s.cursor) ELSE @,
              !.shown = s, !.view = <<>>]
        /\ IF stream.why = "connect" \/ beat THEN ShowSnapshot(s) ELSE UNCHANGED client
  /\ Quiet /\ UNCHANGED mishaps

Replay ==
  /\ stream.phase = "replay"
  /\ stream' = [stream EXCEPT !.batch = After(stream.cursor), !.phase = "send"]
  /\ Quiet /\ UNCHANGED <<client, mishaps>>

\* The loop: new events, or, if there are none, the heartbeat.
Poll ==
  /\ stream.phase = "loop"
  /\ stream' = IF After(stream.cursor) # <<>>
       THEN [stream EXCEPT !.batch = After(stream.cursor), !.phase = "send", !.why = "events"]
       ELSE [stream EXCEPT !.phase = "read", !.why = "beat"]
  /\ Quiet /\ UNCHANGED <<client, mishaps>>

Send ==
  /\ stream.phase = "send"
  /\ IF stream.batch = <<>>
     THEN /\ stream' = [stream EXCEPT !.phase = IF stream.why = "connect" THEN "loop" ELSE "read"]
          /\ UNCHANGED client
     ELSE /\ ShowEvent(Head(stream.batch))
          /\ stream' = [stream EXCEPT !.batch = Tail(@),
                                      !.cursor = Higher(@, Head(stream.batch).seq)]
  /\ Quiet /\ UNCHANGED mishaps

ConnectionLost ==
  /\ stream.phase # "off" /\ Mishap
  /\ stream' = [stream EXCEPT !.phase = "off", !.batch = <<>>, !.view = <<>>, !.shown = NoSnapshot]
  /\ Quiet /\ UNCHANGED client

-----------------------------------------------------------------------------
RunStep(r) ==
  Acquire(r) \/ Mark(r) \/ TurnStarts(r) \/ TurnEnds(r) \/ BodyEnds(r) \/ Release(r)
Write(w) == ReadRecords(w) \/ ReplaceJournal(w) \/ AppendAtOnce(w) \/ AppendFails(w)
Serve == Connect \/ ReadJournal \/ ReadMarker \/ Replay \/ Poll \/ Send

Next ==
  \/ \E r \in Runs : RunStep(r) \/ Dies(r)
  \/ \E w \in Writers : Write(w)
  \/ TimePasses
  \/ Serve \/ ConnectionLost

Spec == Init /\ [][Next]_vars

-----------------------------------------------------------------------------
(* Properties                                                              *)

States == {"IDLE", "WORKING", "COMPLETE", "FAILED", "STALE", "DISCONNECTED"}
Record == [seq : Nat, event : Events]
Draft == [event : Events, read : Seq(Record)]
Shown(states) == [state : states, run : Runs \cup {None}, cursor : Nat]
Stream ==
  [phase : {"off", "read", "judge", "replay", "loop", "send"}, why : {"connect", "beat", "events"},
   cursor : Nat, batch : Seq(Record), view : Seq(Record), shown : Shown(States \cup {"none"})]

\* The values every variable keeps.
TypeOK ==
  /\ setting \in Settings
  /\ pc \in [Runs -> {"idle", "marking", "begin", "work", "turn", "end", "ended", "late",
                      "done", "dead"}]
  /\ turns \in [Runs -> 0..setting.turns]
  /\ queue \in [Runs -> Seq(Events)]
  /\ marker \in [run : Runs \cup {None}, written : BOOLEAN]
  /\ journal \in Seq(Record) /\ Len(journal) <= Keep
  /\ jlock \in Writers \cup {Nobody}
  /\ draft \in [Writers -> Draft \cup {NoDraft}]
  /\ fresh \in BOOLEAN
  /\ stream \in Stream /\ client \in Shown(States)

\* Whoever writes, in whatever process, and dies half way: the journal is a
\* log that only grows at its end and is cut only at its front, and no number
\* is used twice (_append_payloads, _journal_lock, _write_dicts).
Log == INSTANCE EventLog WITH log <- journal
ImplementsEventLog == Log!Spec

Ends(e, r) == e.event.run = r /\ e.event.kind = "run" /\ e.event.state \in Terminal

\* The browser has been told that a run is over, and what the journal has beyond
\* that is all of the run (published late) or nothing.
ToldEnd(r) ==
  \E e \in Records(journal) :
    LET later == {f \in Records(journal) : f.seq > e.seq} IN
    /\ Ends(e, r) /\ e.seq <= client.cursor
    /\ (\A f \in later : f.event.run = r) \/ (\A f \in later : f.event.run # r)

\* Activity that is published late never brings a run back to work that the
\* browser has seen end (snapshot's precedence of run events; the browser's
\* executorRecordLateEvent).
EndedStaysEnded ==
  [][\A r \in Runs :
       ToldEnd(r) /\ client.run = r /\ client.state # "WORKING" /\ client'.run = r
         => client'.state # "WORKING"]_vars

\* A heartbeat has just looked at the journal as it now is.
Heartbeat ==
  stream.phase = "judge" /\ stream.why = "beat" /\ stream.view = journal /\ stream'.phase = "loop"

\* The run's end is the last it has on record.
LastWord(r) ==
  \E e \in Records(journal) :
    Ends(e, r) /\ \A f \in Records(journal) : f.event.run = r => f.seq <= e.seq

Only(r) == \A s \in Runs \ {r} : pc[s] = "idle"

\* A replay does not skip the run's end.
RecentEnd(r) == \E e \in Records(journal) : Ends(e, r) /\ Newest(journal).seq < e.seq + MaxReplay

\* Whatever was published late, sent or lost with a connection: after a heartbeat
\* the browser shows no run as at work, stale or disconnected whose end is in the
\* journal, unless a newer run has taken the repository and not yet said so.
\* (Late activity of a run behind the record of a newer one is left out: it takes
\* the browser back to the older run, and the snapshot made then is only
\* remembered.  So is an end with so much late activity behind it that the browser
\* may have been sent that activity alone.)
EndIsShown ==
  [][\A r \in Runs :
       /\ Heartbeat /\ marker.run \in {None, r}
       /\ LastWord(r) \/ (Only(r) /\ RecentEnd(r))
       => client'.run # r \/ client'.state \in {"COMPLETE", "FAILED"}]_vars

\* The browser learns of the end of a run and keeps it.
EndShown == EndedStaysEnded /\ EndIsShown

=============================================================================
