-------------------------- MODULE AppServerSessions -------------------------
(* The App Server children of one profile, role and repository: the table    *)
(* _PROCESSES and the slot lock of each operating-system process (a host     *)
(* here) of src/src/dual_codex/app_server.py, and the thread mapping file    *)
(* all hosts share, by which a later turn resumes the thread of an earlier   *)
(* one.  What happens inside a child is AppServerProcess; here a child has   *)
(* its lock and is up, exited or closed.                                     *)
(*                                                                           *)
(* A run is run_codex_app_server; a reader is the dashboard's                *)
(* collect_account.  Policy[c] is what _runtime_config_identity hashes: the  *)
(* policy the profile is configured with and the caller's own                *)
(* require_workspace_ready.                                                  *)
(*                                                                           *)
(* A behaviour runs under one of the Settings: which callers there are, the  *)
(* host of each, the policy each asks for, whether the runs hold the         *)
(* repository lock (one at a time), whether hosts may shut down, and whether *)
(* a run may end by an exception run_codex_app_server does not catch.        *)
EXTENDS Naturals, FiniteSets

CONSTANTS
  Runs, Readers,   \* the callers
  Hosts,           \* operating-system processes
  Settings,        \* the settings considered
  MaxChildren,     \* bound: children ever started
  None, Running

Callers == Runs \cup Readers
Children == 1..MaxChildren

ASSUME SessionsAssumption ==
  /\ \A s \in Settings :
       /\ s.callers \subseteq Callers
       /\ s.host \in [Callers -> Hosts] /\ DOMAIN s.policy = Callers
       /\ {s.serial, s.shutdowns, s.escapes} \subseteq BOOLEAN
  /\ MaxChildren \in Nat /\ Runs \cap Readers = {}
  /\ {None, Running} \cap (Hosts \cup Callers \cup Children) = {}
  /\ None # Running

VARIABLES
  setting,   \* the setting of this behaviour
  pc,        \* where each caller is
  mine,      \* the child each caller has got
  thread,    \* the thread each run works on; a fresh one is named by its run
  table,     \* _PROCESSES, per host
  slot,      \* owner of the slot lock, per host
  state,     \* each child: not started, up, exited or closed
  origin,    \* who started each child: its host and its settings
  lock,      \* owner of each child's _lock: a caller, or a host that shuts down
  mapping,   \* the thread mapping file
  shutdown,  \* Running, then the child _close_processes has still to close
  broken     \* history: threads whose last turn ended without completing

vars == <<setting, pc, mine, thread, table, slot, state, origin, lock, mapping, shutdown, broken>>

HostOf == setting.host
Policy == setting.policy

Live(p) == p # None /\ state[p] = "up"

Init ==
  /\ setting \in Settings
  /\ pc = [c \in Callers |-> "idle"]
  /\ mine = [c \in Callers |-> None] /\ thread = [c \in Callers |-> None]
  /\ table = [h \in Hosts |-> None] /\ slot = [h \in Hosts |-> None]
  /\ state = [p \in Children |-> "none"] /\ origin = [p \in Children |-> None]
  /\ lock = [p \in Children |-> None]
  /\ mapping = None
  /\ shutdown = [h \in Hosts |-> Running]
  /\ broken = {}

Active(c) == pc[c] \notin {"idle", "done"}

\* A call that ends has no child and no thread any more.
Goto(c, label) ==
  /\ pc' = [pc EXCEPT ![c] = label]
  /\ mine' = IF label = "done" THEN [mine EXCEPT ![c] = None] ELSE mine
  /\ thread' = IF label = "done" THEN [thread EXCEPT ![c] = None] ELSE thread

-----------------------------------------------------------------------------
(* The mapping file *)

Mapped(t, c) == [thread |-> t, settings |-> Policy[c], by |-> mine[c]]

\* _load_thread_mapping deletes a mapping recorded under other settings.
Loaded(c) == IF mapping = None \/ mapping.settings # Policy[c] THEN None ELSE mapping.thread
AfterLoad(c) == IF Loaded(c) = None THEN None ELSE mapping

-----------------------------------------------------------------------------
(* Getting a child *)

\* collect_account reads the account (no mapping involved) or, in _thread,
\* loads the mapping and asks about its thread, if there is one.
Begin(c) ==
  /\ pc[c] = "idle" /\ c \in setting.callers
  /\ \/ /\ c \in Runs
        /\ setting.serial => \A d \in Runs : ~Active(d)
        /\ pc' = [pc EXCEPT ![c] = "get"]
        /\ UNCHANGED mapping
     \/ /\ c \in Readers
        /\ pc' = [pc EXCEPT ![c] = "get"]
        /\ UNCHANGED mapping
     \/ /\ c \in Readers
        /\ pc' = [pc EXCEPT ![c] = IF Loaded(c) = None THEN "done" ELSE "get"]
        /\ mapping' = AfterLoad(c)
  /\ UNCHANGED <<setting, mine, thread, table, slot, state, origin, lock, shutdown, broken>>

Matches(p, c) == Live(p) /\ origin[p].settings = Policy[c]

\* _get_process under the slot lock: reuse, or take the old child out, or launch.
Get(c) ==
  LET h == HostOf[c]
      p == table[h]
  IN /\ pc[c] = "get" /\ slot[h] = None
     /\ IF p # None /\ Matches(p, c)
        THEN /\ mine' = [mine EXCEPT ![c] = p]
             /\ pc' = [pc EXCEPT ![c] = "bind"]
             /\ UNCHANGED <<table, slot>>
        ELSE /\ mine' = [mine EXCEPT ![c] = p]
             /\ pc' = [pc EXCEPT ![c] = IF p = None THEN "launch" ELSE "replace"]
             /\ table' = [table EXCEPT ![h] = None]
             /\ slot' = [slot EXCEPT ![h] = c]
     /\ UNCHANGED <<setting, thread, state, origin, lock, mapping, shutdown, broken>>

\* close() waits for whoever holds the child's lock.
Close(p) ==
  /\ lock[p] = None
  /\ state' = [state EXCEPT ![p] = "closed"]

\* The thread of a child with other settings is forgotten with it.
CloseReplaced(c) ==
  /\ pc[c] = "replace"
  /\ Close(mine[c])
  /\ mapping' = IF origin[mine[c]].settings # Policy[c] THEN None ELSE mapping
  /\ pc' = [pc EXCEPT ![c] = "launch"]
  /\ UNCHANGED <<setting, mine, thread, table, slot, origin, lock, shutdown, broken>>

\* The process does not start: the call ends.  Its initialisation fails: the
\* call closes it, with the slot lock still held, and ends.  Else it is the slot's.
Launch(c) ==
  LET h == HostOf[c]
  IN /\ pc[c] = "launch"
     /\ \/ /\ Goto(c, "done")
           /\ slot' = [slot EXCEPT ![h] = None]
           /\ UNCHANGED <<table, state, origin>>
        \/ \E p \in Children :
             /\ state[p] = "none" /\ \A q \in Children : q < p => state[q] # "none"
             /\ state' = [state EXCEPT ![p] = "up"]
             /\ origin' = [origin EXCEPT ![p] = [host |-> h, settings |-> Policy[c]]]
             /\ mine' = [mine EXCEPT ![c] = p]
             /\ \/ /\ pc' = [pc EXCEPT ![c] = "close"]
                   /\ UNCHANGED <<table, slot>>
                \/ /\ pc' = [pc EXCEPT ![c] = "bind"]
                   /\ table' = [table EXCEPT ![h] = p]
                   /\ slot' = [slot EXCEPT ![h] = None]
             /\ UNCHANGED thread
     /\ UNCHANGED <<setting, lock, mapping, shutdown, broken>>

-----------------------------------------------------------------------------
(* Using it *)

\* A hook that raises or a readiness check that fails, before the turn.
NotReady(c) ==
  /\ pc[c] = "bind" /\ c \in Runs
  /\ pc' = [pc EXCEPT ![c] = "discard"]
  /\ UNCHANGED <<setting, mine, thread, table, slot, state, origin, lock, mapping, shutdown, broken>>

Refused(c) ==
  /\ pc[c] = "bind" /\ lock[mine[c]] = None /\ ~Live(mine[c])
  /\ pc' = [pc EXCEPT ![c] = "discard"]
  /\ UNCHANGED <<setting, mine, thread, table, slot, state, origin, lock, mapping, shutdown, broken>>

\* Mutant: a mapping that is not there is resumed like any other.
BindBlindly(c) ==
  LET p == mine[c]
  IN /\ pc[c] = "bind" /\ c \in Runs /\ lock[p] = None /\ Live(p)
     /\ mapping' = AfterLoad(c)
     /\ pc' = [pc EXCEPT ![c] = "turn"]
     /\ lock' = [lock EXCEPT ![p] = c]
     /\ thread' = [thread EXCEPT ![c] = Loaded(c)]
     /\ UNCHANGED <<setting, mine, table, slot, state, origin, shutdown, broken>>

\* thread_id_for: resume the mapped thread, or start one if there is none or
\* the provider no longer knows it; any other answer fails the call.
Bind(c) ==
  LET p == mine[c]
  IN /\ pc[c] = "bind" /\ c \in Runs /\ lock[p] = None /\ Live(p)
     /\ mapping' = AfterLoad(c)
     /\ \/ /\ pc' = [pc EXCEPT ![c] = "discard"]
           /\ UNCHANGED <<thread, lock>>
        \/ /\ pc' = [pc EXCEPT ![c] = "turn"]
           /\ lock' = [lock EXCEPT ![p] = c]
           /\ \E t \in {c, Loaded(c)} \ {None} : thread' = [thread EXCEPT ![c] = t]
     /\ UNCHANGED <<setting, mine, table, slot, state, origin, shutdown, broken>>

\* Only a completed turn records its thread.  The report is written after the
\* lock is released; if that fails the call fails.
TurnCompletes(c, reported) ==
  LET p == mine[c]
  IN /\ pc[c] = "turn" /\ Live(p)
     /\ mapping' = Mapped(thread[c], c)
     /\ lock' = [lock EXCEPT ![p] = None]
     /\ Goto(c, IF reported THEN "done" ELSE "discard")
     /\ UNCHANGED <<setting, table, slot, state, origin, shutdown, broken>>

\* Deadline, provider error, or the end of the child's output.
TurnFails(c) ==
  LET p == mine[c]
  IN /\ pc[c] = "turn"
     /\ broken' = broken \cup {thread[c]}
     /\ lock' = [lock EXCEPT ![p] = None]
     /\ pc' = [pc EXCEPT ![c] = "discard"]
     /\ UNCHANGED <<setting, mine, thread, table, slot, state, origin, mapping, shutdown>>

\* An exception that is not caught (Ctrl-C, a RuntimeError) ends the call with
\* the child in its place and the mapping as it was.
TurnEscapes(c) ==
  /\ setting.escapes /\ c \in Runs
  /\ \/ /\ pc[c] = "bind"
        /\ UNCHANGED <<lock, broken>>
     \/ /\ pc[c] = "turn"
        /\ lock' = [lock EXCEPT ![mine[c]] = None]
        /\ broken' = broken \cup {thread[c]}
  /\ Goto(c, "done")
  /\ UNCHANGED <<setting, table, slot, state, origin, mapping, shutdown>>

Ask(c) ==
  LET p == mine[c]
  IN /\ pc[c] = "bind" /\ c \in Readers /\ lock[p] = None /\ Live(p)
     /\ lock' = [lock EXCEPT ![p] = c]
     /\ pc' = [pc EXCEPT ![c] = "ask"]
     /\ UNCHANGED <<setting, mine, thread, table, slot, state, origin, mapping, shutdown, broken>>

Answered(c) ==
  LET p == mine[c]
  IN /\ pc[c] = "ask"
     /\ lock' = [lock EXCEPT ![p] = None]
     /\ \/ Live(p) /\ Goto(c, "done")
        \/ Goto(c, "discard")
     /\ UNCHANGED <<setting, table, slot, state, origin, mapping, shutdown, broken>>

-----------------------------------------------------------------------------
(* Discarding it *)

\* Mutant: whatever child is in the table is taken out.
DiscardAny(c) ==
  /\ pc[c] = "discard" /\ slot[HostOf[c]] = None
  /\ slot' = [slot EXCEPT ![HostOf[c]] = c]
  /\ table' = [table EXCEPT ![HostOf[c]] = None]
  /\ mapping' = None
  /\ pc' = [pc EXCEPT ![c] = "close"]
  /\ UNCHANGED <<setting, mine, thread, state, origin, lock, shutdown, broken>>

\* Mutant: a failure leaves the mapping.
DiscardKeeps(c) ==
  LET h == HostOf[c]
  IN /\ pc[c] = "discard" /\ slot[h] = None
     /\ slot' = [slot EXCEPT ![h] = c]
     /\ table' = IF table[h] = mine[c] THEN [table EXCEPT ![h] = None] ELSE table
     /\ pc' = [pc EXCEPT ![c] = "close"]
     /\ UNCHANGED <<setting, mine, thread, state, origin, lock, mapping, shutdown, broken>>

\* _discard_process: out of the table, and its thread forgotten, only if it is
\* still the one there.
Discard(c) ==
  LET h == HostOf[c]
      current == table[h] = mine[c]
  IN /\ pc[c] = "discard" /\ slot[h] = None
     /\ slot' = [slot EXCEPT ![h] = c]
     /\ table' = IF current THEN [table EXCEPT ![h] = None] ELSE table
     /\ mapping' = IF current THEN None ELSE mapping
     /\ pc' = [pc EXCEPT ![c] = "close"]
     /\ UNCHANGED <<setting, mine, thread, state, origin, lock, shutdown, broken>>

\* Mutant: the slot lock is not released.
CloseMineHolding(c) ==
  /\ pc[c] = "close"
  /\ Close(mine[c])
  /\ Goto(c, "done")
  /\ UNCHANGED <<setting, table, slot, origin, lock, mapping, shutdown, broken>>

CloseMine(c) ==
  /\ pc[c] = "close"
  /\ Close(mine[c])
  /\ slot' = [slot EXCEPT ![HostOf[c]] = None]
  /\ Goto(c, "done")
  /\ UNCHANGED <<setting, table, origin, lock, mapping, shutdown, broken>>

\* The second join() of _close_unlocked waits for somebody to take the sentinel;
\* a publisher that has ended between stop.set() and put_nowait() takes nothing,
\* and close() stays there, with the locks it holds.
HangsOn(p, closer) ==
  /\ lock[p] = None /\ state[p] # "closed"
  /\ lock' = [lock EXCEPT ![p] = closer]

CloseHangs(c) ==
  /\ pc[c] \in {"replace", "close"}
  /\ HangsOn(mine[c], c)
  /\ UNCHANGED <<setting, pc, mine, thread, table, slot, state, origin, mapping, shutdown, broken>>

ChildExits(p) ==
  /\ state[p] = "up"
  /\ state' = [state EXCEPT ![p] = "exited"]
  /\ UNCHANGED <<setting, pc, mine, thread, table, slot, origin, lock, mapping, shutdown, broken>>

\* _close_processes takes no slot lock.
ShutdownClears(h) ==
  /\ setting.shutdowns /\ shutdown[h] = Running
  /\ shutdown' = [shutdown EXCEPT ![h] = table[h]]
  /\ table' = [table EXCEPT ![h] = None]
  /\ UNCHANGED <<setting, pc, mine, thread, slot, state, origin, lock, mapping, broken>>

ShutdownCloses(h) ==
  /\ shutdown[h] \in Children
  /\ Close(shutdown[h])
  /\ shutdown' = [shutdown EXCEPT ![h] = None]
  /\ UNCHANGED <<setting, pc, mine, thread, table, slot, origin, lock, mapping, broken>>

ShutdownHangs(h) ==
  /\ shutdown[h] \in Children
  /\ HangsOn(shutdown[h], h)
  /\ UNCHANGED <<setting, pc, mine, thread, table, slot, state, origin, mapping, shutdown, broken>>

-----------------------------------------------------------------------------
Progress(c) ==
  \/ Get(c) \/ CloseReplaced(c) \/ Launch(c)
  \/ NotReady(c) \/ Refused(c) \/ Bind(c)
  \/ (\E reported \in BOOLEAN : TurnCompletes(c, reported)) \/ TurnFails(c)
  \/ Ask(c) \/ Answered(c)
  \/ Discard(c) \/ CloseMine(c)

Next ==
  \/ \E c \in Callers : Begin(c) \/ Progress(c) \/ TurnEscapes(c) \/ CloseHangs(c)
  \/ \E p \in Children : ChildExits(p)
  \/ \E h \in Hosts : ShutdownClears(h) \/ ShutdownCloses(h) \/ ShutdownHangs(h)

Spec == Init /\ [][Next]_vars

\* Threads run; a turn and a request end at their deadline at the latest; the
\* locks are served in some order, so a caller that keeps finding its lock free
\* now and again gets it.  Nothing makes a close() that hangs go on.
Fairness ==
  /\ \A c \in Callers : SF_vars(Progress(c))
  /\ \A h \in Hosts : WF_vars(ShutdownCloses(h))

FairSpec == Spec /\ Fairness

-----------------------------------------------------------------------------
(* Properties *)

\* The values every variable keeps.
TypeOK ==
  /\ setting \in Settings
  /\ pc \in [Callers -> {"idle", "get", "replace", "launch", "bind", "turn", "ask",
                         "discard", "close", "done"}]
  /\ mine \in [Callers -> Children \cup {None}]
  /\ thread \in [Callers -> Runs \cup {None}]
  /\ table \in [Hosts -> Children \cup {None}]
  /\ slot \in [Hosts -> Callers \cup {None}]
  /\ state \in [Children -> {"none", "up", "exited", "closed"}]
  /\ \A p \in Children : IF state[p] = "none" THEN origin[p] = None
       ELSE origin[p].host \in Hosts /\ \E c \in Callers : origin[p].settings = Policy[c]
  /\ lock \in [Children -> Callers \cup Hosts \cup {None}]
  /\ mapping = None \/ (mapping.thread \in Runs /\ mapping.by \in Children)
  /\ shutdown \in [Hosts -> Children \cup {None, Running}]
  /\ broken \subseteq Runs

\* A child that runs is in its host's table or about to be closed by somebody
\* who took it out: replacing, discarding and shutting down lose none
\* (app_server.py 2604-2653).
NoLeakedChild ==
  \A p \in Children : state[p] = "up" =>
    \/ table[origin[p].host] = p
    \/ shutdown[origin[p].host] = p
    \/ \E c \in Callers : mine[c] = p /\ HostOf[c] = origin[p].host /\ pc[c] \in {"replace", "close"}

\* Until it shuts down a host never runs two children for the slot.
OneChildPerSlot ==
  \A p, q \in Children :
    (state[p] = "up" /\ state[q] = "up" /\ p # q /\ origin[p].host = origin[q].host)
      => shutdown[origin[p].host] # Running

\* A call that fails on a child its host has replaced since does not forget the
\* session the newer child recorded (244-247: "prevents an old in-flight turn
\* from deleting or resuming a session").
LateFailureKeepsSession ==
  [][\A c \in Callers :
       (/\ mapping # None /\ mapping' = None
        /\ pc[c] = "discard" /\ pc'[c] = "close")
         => ~(mine[c] < mapping.by /\ HostOf[c] = origin[mapping.by].host)]_vars

\* The runs hold the repository lock, nobody else uses the children, and a run
\* ends by an error it catches.
OneAtATime ==
  setting.serial /\ ~setting.shutdowns /\ ~setting.escapes /\ setting.callers \subseteq Runs

\* A thread whose last turn did not complete is not resumed: it "may contain an
\* unresolved client tool call" (2731-2732), where the callers come one at a time.
BrokenForgotten ==
  [][\A c \in Runs :
       (OneAtATime /\ pc[c] = "bind" /\ pc'[c] = "turn") => thread'[c] \notin broken]_vars

\* A close() of a child of this host hangs, in a call or in the shutdown.
Hung(h) ==
  \E p \in Children :
    /\ state[p] # "none" /\ origin[p].host = h
    /\ lock[p] = h \/ \E c \in Callers : lock[p] = c /\ pc[c] \in {"replace", "close"}

\* Every call ends unless a close() hangs in its own host (app_server.py 2521-2530):
\* the slot lock and the children's locks are never waited for in a circle, no
\* failure keeps one, and no other host's close() can hold a call up.
CallsEnd == \A c \in Callers : Active(c) ~> (~Active(c) \/ Hung(HostOf[c]))

\* A host has at most one child for the slot and always knows it.
ChildrenAccounted == NoLeakedChild /\ OneChildPerSlot

\* The mapping is forgotten with the child whose thread it names, and only then.
MappingFollowsChild == LateFailureKeepsSession /\ BrokenForgotten

=============================================================================
