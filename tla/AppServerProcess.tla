-------------------------- MODULE AppServerProcess --------------------------
(* One persistent App Server child of src/src/dual_codex/app_server.py       *)
(* (class _AppServerProcess): the callers that share it through its _lock,   *)
(* the JSON-RPC messages it sends, the deque of messages read too early,     *)
(* the bounded queue of notifications to journal, the thread that drains     *)
(* it, and close().                                                          *)
(*                                                                           *)
(* A caller is a turn (run_turn_with_context), a dashboard read              *)
(* (request_without_event_journal) or somebody who closes the process.  The  *)
(* request ids are unique, so a response is named by the caller it answers.  *)
(* The requests a turn makes before turn/start are folded into that one.     *)
EXTENDS Naturals, Sequences, FiniteSets

CONSTANTS
  Turns, Reads, Closers,  \* the callers, by what they want of the process
  NotesPerTurn,           \* bound: notifications the child sends in a turn
  QueueSize,              \* _EVENT_PUBLICATION_QUEUE_SIZE
  Modes,               \* the modes the process may work in
  NoOne

ASSUME ProcessAssumption ==
  /\ NotesPerTurn \in Nat
  /\ QueueSize \in Nat \ {0}
  /\ Modes \subseteq
       [overlap : BOOLEAN,  \* may two callers use the process at a time?
        faults : BOOLEAN]   \* may requests and turns time out, the child exit?
  /\ Turns \cap Reads = {} /\ Turns \cap Closers = {} /\ Reads \cap Closers = {}
  /\ NoOne \notin Turns \cup Reads \cup Closers

ProcessCallers == Turns \cup Reads \cup Closers

VARIABLES
  mode,       \* where this process works; it never changes
  at,            \* where each caller is
  owner,          \* owner of _lock
  context,       \* _event_journal and _event_context: the run they name
  messages,      \* _messages: lines the reader thread has queued
  pending,       \* _pending: messages read while another one was awaited
  publications,  \* _event_publications
  publisher,     \* the thread of _publish_events
  holding,       \* what that thread took from the queue
  journal,       \* what it handed to append_notification, and to what effect
  accepted,      \* history: every notification put in the queue
  stop,          \* _event_publication_stop
  closed,        \* _closed
  child,         \* the child process
  asked,         \* requests the child has received
  sent           \* what the child has answered, per caller

processVars == <<mode, at, owner, context, messages, pending, publications, publisher, holding,
          journal, accepted, stop, closed, child, asked, sent>>

callVars == <<at, owner, context>>
inputVars == <<messages, pending>>
journalVars == <<publications, publisher, holding, journal, accepted>>
closeVars == <<stop, closed, child>>
childVars == <<mode, asked, sent>>

Sentinel == [of |-> NoOne, note |-> 0, run |-> NoOne]
Response(c) == [kind |-> "response", of |-> c, note |-> 0]
Note(c, n) == [kind |-> "note", of |-> c, note |-> n]
Completed(c) == [kind |-> "completed", of |-> c, note |-> 0]
EOF == [kind |-> "eof", of |-> NoOne, note |-> 0]

Overlap == mode.overlap
Faults == mode.faults

ProcessInit ==
  /\ mode \in Modes
  /\ at = [c \in ProcessCallers |-> "idle"]
  /\ owner = NoOne /\ context = NoOne
  /\ messages = <<>> /\ pending = <<>>
  /\ publications = <<>> /\ publisher = "get" /\ holding = Sentinel
  /\ journal = <<>> /\ accepted = <<>>
  /\ stop = FALSE /\ closed = FALSE /\ child = "up"
  /\ asked = {} /\ sent = [c \in ProcessCallers |-> [answered |-> FALSE, notes |-> 0, completed |-> FALSE]]

-----------------------------------------------------------------------------
(* The child.  A turn it has begun goes on whatever its caller does: nobody  *)
(* interrupts it but the end of the process.                                 *)

ChildAnswers(c) ==
  /\ child = "up" /\ c \in asked /\ ~sent[c].answered
  /\ sent' = [sent EXCEPT ![c].answered = TRUE]
  /\ messages' = Append(messages, Response(c))
  /\ UNCHANGED <<callVars, pending, journalVars, closeVars, mode, asked>>

\* Notifications of a turn may precede the response to turn/start.
ChildNotifies(c) ==
  /\ child = "up" /\ c \in asked \cap Turns /\ ~sent[c].completed
  /\ sent[c].notes < NotesPerTurn
  /\ sent' = [sent EXCEPT ![c].notes = @ + 1]
  /\ messages' = Append(messages, Note(c, sent[c].notes + 1))
  /\ UNCHANGED <<callVars, pending, journalVars, closeVars, mode, asked>>

\* turn/completed is the turn's last notification.
ChildCompletes(c) ==
  /\ child = "up" /\ c \in Turns /\ sent[c].answered /\ ~sent[c].completed
  /\ sent' = [sent EXCEPT ![c].completed = TRUE]
  /\ messages' = Append(messages, Completed(c))
  /\ UNCHANGED <<callVars, pending, journalVars, closeVars, mode, asked>>

\* The child exits and the reader thread queues the end of its output.
ProcessExits ==
  /\ Faults /\ child = "up"
  /\ child' = "exited"
  /\ messages' = Append(messages, EOF)
  /\ UNCHANGED <<callVars, pending, journalVars, stop, closed, childVars>>

-----------------------------------------------------------------------------
(* _record_notification: queue it for the journal in force, drop it if the   *)
(* queue is full.                                                            *)

\* Mutant: the queue has no bound.
PublishUnbounded(m) ==
  LET entry == [of |-> m.of, note |-> m.note, run |-> context]
      room == m.kind # "response" /\ context # NoOne
  IN /\ publications' = IF room THEN Append(publications, entry) ELSE publications
     /\ accepted' = IF room THEN Append(accepted, entry) ELSE accepted
     /\ UNCHANGED <<publisher, holding, journal>>

Publish(m) ==
  LET entry == [of |-> m.of, note |-> m.note, run |-> context]
      room == m.kind # "response" /\ context # NoOne /\ Len(publications) < QueueSize
  IN /\ publications' = IF room THEN Append(publications, entry) ELSE publications
     /\ accepted' = IF room THEN Append(accepted, entry) ELSE accepted
     /\ UNCHANGED <<publisher, holding, journal>>

\* With Overlap the callers queue for the lock; without it a caller comes only
\* when the one before has left the process or closed it.
Free(c) == Overlap \/ \A d \in ProcessCallers \ {c} : at[d] \in {"idle", "done", "gone"}

\* Mutant: the context set without waiting for the lock, as the code once did.
AcquireEarly(c) ==
  /\ at[c] = "idle" /\ c \notin Closers /\ Free(c)
  /\ context' = IF c \in Turns THEN c ELSE NoOne
  /\ IF closed \/ child # "up"
     THEN at' = [at EXCEPT ![c] = "failed"] /\ UNCHANGED <<owner, asked>>
     ELSE IF owner = NoOne
          THEN at' = [at EXCEPT ![c] = "asked"] /\ owner' = c /\ asked' = asked \cup {c}
          ELSE UNCHANGED <<at, owner, asked>>
  /\ UNCHANGED <<inputVars, journalVars, closeVars, mode, sent>>

\* run_turn_with_context / request_without_event_journal up to the request:
\* take the lock, switch the journal, send.
Acquire(c) ==
  /\ at[c] = "idle" /\ c \notin Closers
  /\ owner = NoOne /\ Free(c)
  /\ IF closed \/ child # "up"
     THEN /\ at' = [at EXCEPT ![c] = "failed"]
          /\ UNCHANGED <<owner, context, asked>>
     ELSE /\ at' = [at EXCEPT ![c] = "asked"]
          /\ owner' = c
          /\ context' = IF c \in Turns THEN c ELSE NoOne
          /\ asked' = asked \cup {c}
  /\ UNCHANGED <<inputVars, journalVars, closeVars, mode, sent>>

\* The caller leaves the process: the previous (empty) context comes back.
Leave(c, how) ==
  /\ at' = [at EXCEPT ![c] = how]
  /\ owner' = NoOne /\ context' = NoOne

\* request(): any other message is recorded and kept for later.
ReadResponse(c) ==
  /\ at[c] = "asked" /\ messages # <<>>
  /\ LET m == Head(messages)
     IN /\ messages' = Tail(messages)
        /\ CASE m.kind = "eof" ->
                  Leave(c, "failed") /\ UNCHANGED <<pending, journalVars>>
             [] m = Response(c) ->
                  /\ IF c \in Turns
                     THEN at' = [at EXCEPT ![c] = "turn"] /\ UNCHANGED <<owner, context>>
                     ELSE Leave(c, "done")
                  /\ UNCHANGED <<pending, journalVars>>
             [] OTHER ->
                  /\ Publish(m)
                  /\ pending' = Append(pending, m)
                  /\ UNCHANGED callVars
  /\ UNCHANGED <<closeVars, childVars>>

\* Mutant: a notification is kept for later, as request() keeps it.
ReadEventKeeping(c) ==
  /\ at[c] = "turn" /\ pending \o messages # <<>>
  /\ LET m == Head(pending \o messages)
         kept == IF pending = <<>> THEN <<>> ELSE Tail(pending)
     IN /\ messages' = IF pending = <<>> THEN Tail(messages) ELSE messages
        /\ IF m.kind = "eof" \/ m = Completed(c)
           THEN Leave(c, "done") /\ pending' = kept
           ELSE pending' = Append(kept, m) /\ UNCHANGED callVars
        /\ UNCHANGED journalVars
  /\ UNCHANGED <<closeVars, childVars>>

\* _turn_unlocked's loop over _read_event: _pending first, then _messages; a
\* response nobody waits for goes back to _pending.
ReadEvent(c) ==
  /\ at[c] = "turn" /\ pending \o messages # <<>>
  /\ LET m == Head(pending \o messages)
         kept == IF pending = <<>> THEN <<>> ELSE Tail(pending)
     IN /\ messages' = IF pending = <<>> THEN Tail(messages) ELSE messages
        /\ CASE m.kind = "eof" ->
                  Leave(c, "failed") /\ pending' = kept /\ UNCHANGED journalVars
             [] m.kind = "response" ->
                  pending' = Append(kept, m) /\ UNCHANGED <<callVars, journalVars>>
             [] OTHER ->
                  /\ Publish(m)
                  /\ pending' = kept
                  /\ IF m = Completed(c) THEN Leave(c, "done") ELSE UNCHANGED callVars
  /\ UNCHANGED <<closeVars, childVars>>

\* APP_SERVER_TRANSPORT_TIMEOUT or HOST_TURN_DEADLINE.
TimesOut(c) ==
  /\ Faults /\ at[c] \in {"asked", "turn"}
  /\ Leave(c, "failed")
  /\ UNCHANGED <<inputVars, journalVars, closeVars, childVars>>

-----------------------------------------------------------------------------
(* close(): by a caller that failed (_discard_process) or by a closer        *)
(* (_get_process replacing it, _close_processes).                            *)

CloseBegins(c) ==
  /\ at[c] = "failed" \/ (c \in Closers /\ at[c] = "idle" /\ Free(c))
  /\ owner = NoOne
  /\ IF closed
     THEN at' = [at EXCEPT ![c] = "gone"] /\ UNCHANGED <<owner, closed>>
     ELSE at' = [at EXCEPT ![c] = "drain"] /\ owner' = c /\ closed' = TRUE
  /\ UNCHANGED <<context, inputVars, journalVars, stop, child, childVars>>

\* Queue.join: every entry taken has been marked done.
Drained == publications = <<>> /\ publisher # "append"

CloseDrains(c) ==
  /\ at[c] = "drain" /\ Drained
  /\ stop' = TRUE
  /\ at' = [at EXCEPT ![c] = "sentinel"]
  /\ UNCHANGED <<owner, context, inputVars, journalVars, closed, child, childVars>>

ClosePutsSentinel(c) ==
  /\ at[c] = "sentinel"
  /\ publications' = Append(publications, Sentinel)
  /\ at' = [at EXCEPT ![c] = "join"]
  /\ UNCHANGED <<owner, context, inputVars, publisher, holding, journal, accepted, closeVars, childVars>>

CloseStopsChild(c) ==
  /\ at[c] = "join" /\ Drained
  /\ child' = "stopped"
  /\ at' = [at EXCEPT ![c] = "gone"]
  /\ owner' = NoOne
  /\ UNCHANGED <<context, inputVars, journalVars, stop, closed, childVars>>

-----------------------------------------------------------------------------
(* _publish_events.  The wait that ends empty and the test of the stop flag  *)
(* are two steps.                                                            *)

PublisherTakes ==
  /\ publisher = "get" /\ publications # <<>>
  /\ publications' = Tail(publications)
  /\ IF Head(publications) = Sentinel
     THEN publisher' = "ended" /\ UNCHANGED holding
     ELSE publisher' = "append" /\ holding' = Head(publications)
  /\ UNCHANGED <<callVars, inputVars, journal, accepted, closeVars, childVars>>

PublisherWaitsInVain ==
  /\ publisher = "get" /\ publications = <<>>
  /\ publisher' = "empty"
  /\ UNCHANGED <<callVars, inputVars, publications, holding, journal, accepted, closeVars, childVars>>

PublisherTestsStop ==
  /\ publisher = "empty"
  /\ publisher' = IF stop THEN "ended" ELSE "get"
  /\ UNCHANGED <<callVars, inputVars, publications, holding, journal, accepted, closeVars, childVars>>

\* A failed append is swallowed; the entry is marked done either way.
PublisherAppends(written) ==
  /\ publisher = "append"
  /\ journal' = Append(journal, [entry |-> holding, written |-> written])
  /\ publisher' = "get" /\ holding' = Sentinel
  /\ UNCHANGED <<callVars, inputVars, publications, accepted, closeVars, childVars>>

Publisher ==
  \/ PublisherTakes
  \/ PublisherWaitsInVain
  \/ PublisherTestsStop
  \/ \E written \in BOOLEAN : PublisherAppends(written)

Caller(c) ==
  \/ Acquire(c)
  \/ ReadResponse(c)
  \/ ReadEvent(c)
  \/ CloseBegins(c)
  \/ CloseDrains(c)
  \/ ClosePutsSentinel(c)
  \/ CloseStopsChild(c)

Child(c) == ChildAnswers(c) \/ ChildNotifies(c) \/ ChildCompletes(c)

ProcessNext ==
  \/ \E c \in ProcessCallers : Caller(c) \/ Child(c) \/ TimesOut(c)
  \/ ProcessExits
  \/ Publisher

ProcessSpec == ProcessInit /\ [][ProcessNext]_processVars

\* Threads run, and the child serves what it has received while it is up.  No
\* timeout has to expire and the child need not exit.
ProcessFairness ==
  /\ \A c \in ProcessCallers : WF_processVars(Caller(c)) /\ WF_processVars(Child(c))
  /\ WF_processVars(Publisher)

FairProcess == ProcessSpec /\ ProcessFairness

-----------------------------------------------------------------------------
(* Properties                                                                *)

Entries == [of : Turns \cup {NoOne}, note : 0..NotesPerTurn, run : Turns \cup {NoOne}]

Lines == [kind : {"response", "note", "completed", "eof"},
          of : ProcessCallers \cup {NoOne}, note : 0..NotesPerTurn]

\* Where a call can be.
Stages == {"idle", "asked", "turn", "done", "failed", "drain", "sentinel", "join", "gone"}

\* The values every variable keeps.
ProcessTypeOK ==
  /\ mode \in Modes
  /\ at \in [ProcessCallers -> Stages]
  /\ owner \in ProcessCallers \cup {NoOne} /\ context \in Turns \cup {NoOne}
  /\ messages \in Seq(Lines) /\ pending \in Seq(Lines)
  /\ publications \in Seq(Entries) /\ Len(publications) <= QueueSize
  /\ publisher \in {"get", "empty", "append", "ended"} /\ holding \in Entries
  /\ journal \in Seq([entry : Entries, written : BOOLEAN]) /\ accepted \in Seq(Entries)
  /\ stop \in BOOLEAN /\ closed \in BOOLEAN /\ child \in {"up", "exited", "stopped"}
  /\ asked \subseteq ProcessCallers
  /\ sent \in [ProcessCallers -> [answered : BOOLEAN, notes : 0..NotesPerTurn, completed : BOOLEAN]]

\* A notification of one turn is never journaled for another run (app_server.py
\* 2471-2473): callers may interleave as they like as long as nothing fails, and
\* anything may fail as long as they come one at a time.
KeepsItsRun ==
  ~(Overlap /\ Faults) => \A i \in 1..Len(accepted) : accepted[i].of = accepted[i].run

\* A turn in its event loop whose turn/completed the child has sent comes out
\* of the loop: it does not take its deadline to end it (2334-2343).  That the
\* responses it puts back are none left by an earlier caller rests on the
\* modes, as above.
CompletionSeen == \A c \in Turns : (at[c] = "turn" /\ sent[c].completed) ~> at[c] # "turn"

\* When close() stops the child, everything that was accepted for the journal
\* has been handed to it, in the order it was accepted (2514-2516).
DrainedBeforeStop ==
  child = "stopped" =>
    /\ Len(journal) = Len(accepted)
    /\ \A i \in 1..Len(journal) : journal[i].entry = accepted[i]

\* The journal has the notifications of each run under its name, and all of
\* them once the process is closed.
JournalTells == KeepsItsRun /\ DrainedBeforeStop

=============================================================================
