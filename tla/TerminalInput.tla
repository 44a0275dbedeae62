---------------------------- MODULE TerminalInput ----------------------------
(***************************************************************************)
(* Who may type into a Codex terminal.  The host of the terminal           *)
(* (src/scripts/pty-host.js) serves one request at a time and grants one   *)
(* input lease; its clients are delegated turns (run_codex_terminal of     *)
(* codex.py), follow-ups (TerminalManager.send of terminal.py) and the     *)
(* interactive attach of a human (_interactive_attach of cli.py).          *)
(*                                                                         *)
(* The Codex TUI behind it has one line of input, whoever writes into it,  *)
(* and works off the commands submitted to it one after the other.         *)
(*                                                                         *)
(* Time is not counted: a lease that expires soon (5 s after a human's     *)
(* last key, 15 s after the last output of a configuration command) may    *)
(* lapse at any moment, the others (an hour, or the 900 s of an            *)
(* automation) lapse only where the situation and the code's own timeouts  *)
(* allow for it.                                                           *)
(***************************************************************************)
EXTENDS Naturals, Sequences

CONSTANTS
  Delegates,   \* turns of run_codex_terminal
  Senders,     \* TerminalManager.send without a lease of the caller's
  Humans,      \* interactive attaches
  Situations,  \* the situations considered
  Nobody

Automations == Delegates \cup Senders
Writers == Automations \cup Humans

ASSUME TerminalAssumption ==
  /\ Situations \subseteq
       [automations : SUBSET Automations,
        keys : Nat,            \* bound: keys a human presses
        hasty : BOOLEAN,       \* do humans type ahead of the prompt?
        leaves : BOOLEAN,      \* do they leave text behind, or before their turn has ended?
        configures : BOOLEAN,  \* do humans use /model and /reasoning?
        edits : BOOLEAN,       \* do humans use keys other than characters, Backspace and Enter?
        composer : Nat \ {0},  \* bound: characters the host remembers of a composition
        longTurns : BOOLEAN,   \* may a delegated turn outlast the 900 s of its lease?
        faults : BOOLEAN]      \* may waits time out and automations die?
  /\ Delegates \cap Senders = {} /\ Automations \cap Humans = {}
  /\ Nobody \notin Writers

VARIABLES
  situation,       \* the situation of this behaviour
  pc,              \* where each client is
  outcome,         \* of an automation
  cursor,          \* turns an automation had seen begin before it wrote
  base,            \* turns that had ended at a delegate's turn cursor
  associated,      \* has the session record the id of the Codex session?
  mine,            \* generation a human's attach remembers, 0 for none
  humanTurnSeen,   \* human_turn_seen of a human's attach
  keys,            \* keys pressed
  lease,           \* the input lease
  nextGeneration,  \* nextLeaseGeneration
  implicitWriter,  \* the writer of a submit that names none
  line, caret,     \* what stands in the TUI's composer, and how much of it before the caret
  dialog,          \* the TUI shows the dialog of a configuration command
  commands,        \* everything submitted, in order
  begun, active    \* commands whose turn has begun; is the last one running?

clientVars == <<situation, pc, outcome, cursor, base, associated>>
humanVars == <<mine, humanTurnSeen, keys>>
hostVars == <<lease, nextGeneration, implicitWriter>>
tuiVars == <<line, caret, dialog, commands, begun, active>>
inputVars == <<clientVars, humanVars, hostVars, tuiVars>>

NoLease == [owner |-> Nobody, generation |-> 0, chars |-> 0, config |-> FALSE,
            prompt |-> FALSE, reason |-> "none", short |-> FALSE]

MaxKeys == situation.keys
Hasty == situation.hasty
Leaves == situation.leaves
Configures == situation.configures
Edits == situation.edits
LongTurns == situation.longTurns
Faults == situation.faults
FollowUps == situation.automations \cap Senders

InputInit ==
  /\ situation \in Situations
  /\ pc = [w \in Writers |-> "idle"]
  /\ outcome = [a \in Automations |-> "none"]
  /\ cursor = [a \in Automations |-> 0]
  /\ base = [a \in Automations |-> 0] /\ associated = FALSE
  /\ mine = [h \in Humans |-> 0]
  /\ humanTurnSeen = [h \in Humans |-> FALSE]
  /\ keys = [h \in Humans |-> 0]
  /\ lease = NoLease
  /\ nextGeneration = 1
  /\ implicitWriter = Nobody
  /\ line = <<>> /\ caret = 0 /\ dialog = FALSE
  /\ commands = <<>> /\ begun = 0 /\ active = FALSE

Goto(w, label) == pc' = [pc EXCEPT ![w] = label]

-----------------------------------------------------------------------------
(* The lease                                                               *)

Free == lease.owner = Nobody

(* Mutant: the host does not look whose lease it is.                       *)
NeverBusy(w) == FALSE

(* requireLease: another writer's lease refuses.                           *)
Busy(w) == ~Free /\ lease.owner # w

(* createLease; a human's lasts five seconds at first.                     *)
NewLease(w) == [NoLease EXCEPT !.owner = w, !.generation = nextGeneration,
                               !.reason = "granted", !.short = (w \in Humans)]

(* acquireLease for a writer that is not refused.                          *)
Grant(w) ==
  /\ lease' = IF Free THEN NewLease(w) ELSE lease
  /\ nextGeneration' = IF Free THEN nextGeneration + 1 ELSE nextGeneration

(* dropLease                                                               *)
Drop ==
  /\ lease' = NoLease
  /\ implicitWriter' = IF implicitWriter = lease.owner THEN Nobody ELSE implicitWriter
  /\ UNCHANGED nextGeneration

Over(w) == pc[w] \in {"done", "dead"}

(* Mutant: only the leases of humans expire.                               *)
LapseShort ==
  /\ ~Free /\ lease.short
  /\ Drop
  /\ UNCHANGED <<clientVars, humanVars, tuiVars>>

(* The sweep of leaseSnapshot.                                             *)
Lapse ==
  /\ ~Free
  /\ \/ lease.short
     \/ Over(lease.owner)
     \/ LongTurns /\ lease.owner \in Delegates /\ pc[lease.owner] = "wait"
  /\ Drop
  /\ UNCHANGED <<clientVars, humanVars, tuiVars>>

(* scheduleConfigurationRelease: the prompt has been back for 750 ms.      *)
ConfigurationReleases ==
  /\ lease.config /\ lease.prompt
  /\ Drop
  /\ UNCHANGED <<clientVars, humanVars, tuiVars>>

-----------------------------------------------------------------------------
(* The TUI                                                                 *)

By(w) == [by |-> w, config |-> FALSE]
Writes(w) == \E i \in DOMAIN line : line[i].by = w

(* The line with what stands between two places of it replaced.            *)
Spliced(i, j, text) == SubSeq(line, 1, i) \o text \o SubSeq(line, j + 1, Len(line))

(* A character goes in where the caret is.                                 *)
Inserted(token) == line' = Spliced(caret, caret, <<token>>) /\ caret' = caret + 1

(* Enter; an empty line and a configuration command start no turn.         *)
Submitted(w) ==
  /\ line' = <<>> /\ caret' = 0
  /\ dialog' = (dialog \/ (line # <<>> /\ line[1].config))
  /\ commands' = IF line = <<>> \/ line[1].config THEN commands
                 ELSE Append(commands, [line |-> line, by |-> w])
  /\ UNCHANGED <<begun, active>>

(* Mutant: a turn begins without a command.                                *)
TurnStartsUnasked ==
  /\ ~active /\ begun <= Len(commands)
  /\ active' = TRUE /\ begun' = begun + 1
  /\ UNCHANGED <<clientVars, humanVars, hostVars, line, caret, dialog, commands>>

TurnStarts ==
  /\ ~active /\ begun < Len(commands)
  /\ active' = TRUE /\ begun' = begun + 1
  /\ UNCHANGED <<clientVars, humanVars, hostVars, line, caret, dialog, commands>>

TurnEnds ==
  /\ active
  /\ active' = FALSE
  /\ UNCHANGED <<clientVars, humanVars, hostVars, line, caret, dialog, commands, begun>>

(* The idle prompt is back; observeConfigurationOutput recognises it.      *)
PromptReturns ==
  /\ dialog \/ (lease.config /\ ~lease.prompt)
  /\ dialog' = FALSE
  /\ lease' = IF lease.config THEN [lease EXCEPT !.prompt = TRUE] ELSE lease
  /\ UNCHANGED <<clientVars, humanVars, nextGeneration, implicitWriter>>
  /\ UNCHANGED <<line, caret, commands, begun, active>>

-----------------------------------------------------------------------------
(* Automations                                                             *)

(* ensure waits for an idle prompt.  A delegate holds the repository's      *)
(* lock, so there is one at a time.                                        *)
Ensure(a) ==
  /\ a \in Delegates /\ pc[a] = "idle" /\ a \in situation.automations
  /\ \A d \in Delegates : pc[d] \in {"idle", "done", "dead"}
  /\ ~active /\ ~dialog
  /\ Goto(a, "cursor")
  /\ UNCHANGED <<situation, outcome, cursor, base, associated, humanVars, hostVars, tuiVars>>

(* Turns that have ended.                                                  *)
Finished == IF active THEN begun - 1 ELSE begun

(* turn_cursor: the end of the session's rollout file.  A session that no  *)
(* automation has used yet has no file of its own, and one that was last   *)
(* written more than 30 s ago is not found: the cursor is then its start.  *)
Cursor(a) ==
  /\ pc[a] = "cursor"
  /\ Goto(a, "begin")
  /\ \E n \in IF associated THEN {Finished} ELSE {Finished, 0} :
       base' = [base EXCEPT ![a] = n]
  /\ UNCHANGED <<situation, outcome, cursor, associated, humanVars, hostVars, tuiVars>>

(* begin_automation_turn takes the lease; a follow-up has none yet.        *)
BeginTurn(a) ==
  /\ pc[a] = (IF a \in Delegates THEN "begin" ELSE "idle") /\ a \in situation.automations
  /\ IF a \in Delegates /\ Busy(a)
       THEN Goto(a, "done") /\ outcome' = [outcome EXCEPT ![a] = "failed"] /\ UNCHANGED hostVars
       ELSE /\ Goto(a, "ready")
            /\ IF a \in Delegates THEN Grant(a) ELSE UNCHANGED <<lease, nextGeneration>>
            /\ UNCHANGED <<outcome, implicitWriter>>
  /\ UNCHANGED <<situation, cursor, base, associated, humanVars, tuiVars>>

(* wait_until_ready: an idle prompt and no active turn.  Whether there is  *)
(* text in the composer does not matter.                                   *)
IsReady(a) ==
  /\ pc[a] = "ready" /\ ~active /\ ~dialog
  /\ Goto(a, "text")
  /\ cursor' = [cursor EXCEPT ![a] = begun]
  /\ UNCHANGED <<situation, outcome, base, associated, humanVars, hostVars, tuiVars>>

Fail(a) ==
  /\ Goto(a, IF a \in Senders /\ pc[a] \in {"ready", "text"} THEN "done" ELSE "return")
  /\ outcome' = [outcome EXCEPT ![a] = "failed"]

(* send_text: under the caller's lease, or with auto_lease.                *)
SendText(a) ==
  /\ pc[a] = "text"
  /\ IF Busy(a) \/ (Free /\ a \in Delegates)
       THEN Fail(a) /\ UNCHANGED <<hostVars, line, caret>>
       ELSE /\ Goto(a, "ack")
            /\ Grant(a)
            /\ implicitWriter' = IF a \in Senders THEN a ELSE implicitWriter
            /\ Inserted(By(a))
            /\ UNCHANGED outcome
  /\ UNCHANGED <<situation, cursor, base, associated, humanVars, dialog, commands, begun, active>>

(* submit: a delegated turn names its writer, a follow-up does not.        *)
Submit(a) ==
  LET w == IF a \in Delegates THEN a ELSE implicitWriter IN
  /\ pc[a] = "ack" /\ Writes(a)
  /\ IF w = Nobody \/ Free \/ Busy(w)
       THEN Fail(a) /\ UNCHANGED tuiVars
       ELSE Goto(a, "start") /\ Submitted(a) /\ UNCHANGED outcome
  /\ UNCHANGED <<situation, cursor, base, associated, humanVars, hostVars>>

(* Mutant: a turn that ran before the text was written is evidence too.    *)
TurnSeenEarlier(a) == begun >= cursor[a]

(* A turn that began after the text was written.                           *)
TurnSeen(a) == begun > cursor[a]

(* wait_until_turn_started, by the rollout, which associates the session,  *)
(* or by the screen.                                                       *)
Started(a) ==
  /\ pc[a] = "start" /\ TurnSeen(a)
  /\ Goto(a, IF a \in Delegates THEN "wait" ELSE "return")
  /\ outcome' = IF a \in Delegates THEN outcome ELSE [outcome EXCEPT ![a] = "ok"]
  /\ associated' \in {associated, TRUE}
  /\ UNCHANGED <<situation, cursor, base, humanVars, hostVars, tuiVars>>

(* wait_for_turn: a turn that has ended since the turn cursor, whosever.   *)
Completed(a) ==
  /\ pc[a] = "wait" /\ Finished > base[a]
  /\ Goto(a, "return")
  /\ outcome' = [outcome EXCEPT ![a] = "ok"]
  /\ UNCHANGED <<situation, cursor, base, associated, humanVars, hostVars, tuiVars>>

TimesOut(a) ==
  /\ Faults
  /\ pc[a] \in {"ready", "ack", "start", "wait"}
  /\ Fail(a)
  /\ UNCHANGED <<situation, cursor, base, associated, humanVars, hostVars, tuiVars>>

(* release_input_lease; an error replaces the result.                      *)
Return(a) ==
  /\ pc[a] = "return"
  /\ Goto(a, "done")
  /\ IF Busy(a) THEN outcome' = [outcome EXCEPT ![a] = "failed"] /\ UNCHANGED hostVars
     ELSE UNCHANGED outcome /\ IF Free THEN UNCHANGED hostVars ELSE Drop
  /\ UNCHANGED <<situation, cursor, base, associated, humanVars, tuiVars>>

Dies(a) ==
  /\ Faults
  /\ pc[a] \notin {"idle", "done", "dead"}
  /\ Goto(a, "dead")
  /\ UNCHANGED <<situation, outcome, cursor, base, associated, humanVars, hostVars, tuiVars>>

-----------------------------------------------------------------------------
(* Humans                                                                  *)

Ended(i) == i < begun \/ (i = begun /\ ~active)
Settled(h) == \A i \in DOMAIN commands : commands[i].by = h => Ended(i)

(* attach_interactive and register_viewer: one viewer at a time, with the  *)
(* lease or watching only.                                                 *)
Attach(h) ==
  /\ pc[h] = "idle"
  /\ \A g \in Humans : pc[g] # "attached"
  /\ Goto(h, "attached")
  /\ IF Busy(h) THEN UNCHANGED <<mine, hostVars>>
     ELSE Grant(h) /\ mine' = [mine EXCEPT ![h] = lease'.generation] /\ UNCHANGED implicitWriter
  /\ UNCHANGED <<situation, outcome, cursor, base, associated, humanTurnSeen, keys, tuiVars>>

(* The host has a composer of its own, the end of what was typed under the *)
(* lease, and does not know the TUI's: it follows it only while humans     *)
(* press no other keys and do not outgrow it.                              *)
Counted(n) == IF n < situation.composer THEN n + 1 ELSE n
Shadowed == ~Edits /\ MaxKeys <= situation.composer

(* Mutant: typing does not prolong a human's lease.                        *)
TypedIdle(l) == [l EXCEPT !.chars = Counted(@), !.reason = "human_input"]

(* recordHumanInput for a character, a backspace, Enter and any other key. *)
(* While a configuration command is pending no composition is noticed.     *)
Typed(l) == [l EXCEPT !.chars = Counted(@), !.reason = "human_input", !.short = l.config]

Erased(l) ==
  LET left == IF l.chars = 0 THEN 0 ELSE l.chars - 1 IN
  [l EXCEPT !.chars = left, !.reason = "human_input", !.short = (l.config \/ left = 0)]

Moved(l) == [l EXCEPT !.reason = "human_input", !.short = (l.config \/ l.chars = 0)]

Entered(l, config) ==
  IF l.config \/ config
    THEN [l EXCEPT !.chars = 0, !.config = TRUE, !.prompt = FALSE, !.short = TRUE,
                   !.reason = "configuration_command_submitted"]
    ELSE [l EXCEPT !.chars = 0, !.short = (l.chars = 0), !.reason = "human_command_submitted"]

(* A human who does not type ahead waits until nothing runs or waits and   *)
(* the attach has given the input of his last command back.                *)
Prompt(h) ==
  /\ ~active /\ begun = Len(commands)
  /\ lease.owner = h =>
       lease.reason \notin {"human_command_submitted", "configuration_command_submitted"}

(* write_input with auto_lease: refused while another one has the lease.   *)
Key(h) ==
  /\ pc[h] = "attached" /\ keys[h] < MaxKeys
  /\ Hasty \/ Prompt(h)
  /\ ~dialog
  /\ ~Busy(h)
  /\ Free \/ mine[h] \in {0, lease.generation}
  /\ keys' = [keys EXCEPT ![h] = @ + 1]
  /\ mine' = [mine EXCEPT ![h] = IF Free THEN nextGeneration ELSE lease.generation]
  /\ nextGeneration' = IF Free THEN nextGeneration + 1 ELSE nextGeneration
  /\ implicitWriter' = IF Free THEN h ELSE implicitWriter
  /\ UNCHANGED <<clientVars, humanTurnSeen>>

Held(h) == IF Free THEN NewLease(h) ELSE lease

Type(h, config) ==
  /\ config => Configures /\ line = <<>>
  /\ Key(h)
  /\ Inserted([by |-> h, config |-> config])
  /\ lease' = Typed(Held(h))
  /\ UNCHANGED <<dialog, commands, begun, active>>

Erase(h) ==
  /\ Key(h)
  /\ \/ caret = 0 /\ UNCHANGED <<line, caret>>
     \/ caret > 0 /\ line' = Spliced(caret - 1, caret, <<>>) /\ caret' = caret - 1
  /\ lease' = Erased(Held(h))
  /\ UNCHANGED <<dialog, commands, begun, active>>

(* A key that is an escape sequence or a control character to the host:    *)
(* in the TUI it moves the caret, cuts something out of the line or puts a *)
(* command of the past into it.                                            *)
Edit(h) ==
  /\ Edits /\ Key(h)
  /\ \/ \E i, j \in 0..Len(line) :
          i <= j /\ line' = Spliced(i, j, <<>>) /\ caret' = i
     \/ commands # <<>> /\ line' = <<By(h)>> /\ caret' = 1
  /\ lease' = Moved(Held(h))
  /\ UNCHANGED <<dialog, commands, begun, active>>

(* A configuration command, to the host: what it remembers, which is the   *)
(* line only while it has followed it.                                     *)
Recognised(h, config) ==
  IF Shadowed
    THEN config <=> /\ line # <<>> /\ line[1] = [by |-> h, config |-> TRUE]
                    /\ Held(h).chars = Len(line)
    ELSE config => Configures /\ Held(h).chars > 0

Enter(h) ==
  /\ Key(h)
  /\ \E config \in BOOLEAN : Recognised(h, config) /\ lease' = Entered(Held(h), config)
  /\ Submitted(h)

(* The attach loop looks at the lease and at the turn's activity, and      *)
(* release_completed_human_command gives the lease back.                   *)
Poll(h) ==
  LET waiting == lease.owner = h /\ lease.reason = "human_command_submitted"
      release == waiting /\ ~active /\ humanTurnSeen[h]
  IN /\ pc[h] = "attached"
     /\ humanTurnSeen' = [humanTurnSeen EXCEPT ![h] =
          IF waiting THEN active \/ (@ /\ ~release) ELSE @ /\ lease.owner = h]
     /\ IF release
          THEN Drop /\ mine' = [mine EXCEPT ![h] = 0]
          ELSE UNCHANGED <<hostVars, mine>>
     /\ UNCHANGED <<clientVars, keys, tuiVars>>

(* Ctrl-] or a closed window; what stands in the composer stays there.     *)
Detach(h) ==
  /\ pc[h] = "attached"
  /\ Leaves \/ (Settled(h) /\ ~Writes(h))
  /\ Goto(h, "done")
  /\ IF lease.owner = h THEN Drop ELSE UNCHANGED hostVars
  /\ UNCHANGED <<situation, outcome, cursor, base, associated, humanVars, tuiVars>>

-----------------------------------------------------------------------------
Automation(a) ==
  \/ Ensure(a) \/ Cursor(a) \/ BeginTurn(a) \/ IsReady(a) \/ SendText(a) \/ Submit(a)
  \/ Started(a) \/ Completed(a) \/ Return(a)

Human(h) ==
  \/ Attach(h) \/ Erase(h) \/ Edit(h) \/ Enter(h) \/ Poll(h) \/ Detach(h)
  \/ \E config \in BOOLEAN : Type(h, config)

InputNext ==
  \/ \E a \in Automations : Automation(a) \/ TimesOut(a) \/ Dies(a)
  \/ \E h \in Humans : Human(h)
  \/ Lapse \/ ConfigurationReleases
  \/ TurnStarts \/ TurnEnds \/ PromptReturns

InputSpec == InputInit /\ [][InputNext]_inputVars

(* Automations run, what they wait for comes or their wait times out;      *)
(* turns and dialogs end, and every lease has a deadline.  Nobody need     *)
(* come, type, leave or die.                                               *)
InputFairness ==
  /\ \A a \in Automations : WF_inputVars(Automation(a) \/ TimesOut(a))
  /\ WF_inputVars(Lapse)
  /\ WF_inputVars(TurnStarts) /\ WF_inputVars(TurnEnds) /\ WF_inputVars(PromptReturns)

FairInput == InputSpec /\ InputFairness

-----------------------------------------------------------------------------
(* Properties                                                              *)

Places == {"idle", "cursor", "begin", "ready", "text", "ack", "start", "wait", "return",
           "attached", "done", "dead"}
Reasons == {"none", "granted", "human_input", "human_command_submitted",
            "configuration_command_submitted"}
Leases == [owner : Writers \cup {Nobody}, generation : Nat, chars : 0..MaxKeys,
           config : BOOLEAN, prompt : BOOLEAN, reason : Reasons, short : BOOLEAN]
Tokens == [by : Writers, config : BOOLEAN]

(* Types of the variables.                                                 *)
InputTypeOK ==
  /\ situation \in Situations
  /\ pc \in [Writers -> Places]
  /\ outcome \in [Automations -> {"none", "ok", "failed"}]
  /\ cursor \in [Automations -> Nat] /\ base \in [Automations -> 0..begun]
  /\ associated \in BOOLEAN
  /\ mine \in [Humans -> Nat] /\ humanTurnSeen \in [Humans -> BOOLEAN]
  /\ keys \in [Humans -> 0..MaxKeys]
  /\ lease \in Leases
  /\ nextGeneration \in Nat /\ implicitWriter \in Writers \cup {Nobody}
  /\ line \in Seq(Tokens) /\ caret \in 0..Len(line) /\ dialog \in BOOLEAN
  /\ commands \in Seq([line : Seq(Tokens), by : Writers])
  /\ begun \in 0..Len(commands) /\ active \in BOOLEAN

(* What an automation submits is its own text and nothing else, although   *)
(* text and Enter are two requests with waits in between and a follow-up's *)
(* Enter does not say whose it is; where no wait fails, humans take their  *)
(* text with them, do not type ahead after a configuration command and do  *)
(* with the keys by which the host follows their line.                     *)
SentAlone ==
  ~(Faults \/ Leaves \/ (Configures /\ Hasty)) /\ Shadowed =>
    \A i \in DOMAIN commands : commands[i].by \in Automations =>
      \A j \in DOMAIN commands[i].line : commands[i].line[j].by = commands[i].by

(* "Confirm one submitted prompt created a real Codex turn": once a        *)
(* delegate waits for its turn to end, or has reported it, the turn of its *)
(* own text has begun; that a turn began is taken from a file and a screen *)
(* that all writers share.  Where no wait fails, humans wait for the       *)
(* prompt, leave nothing behind and do with the keys by which the host     *)
(* follows their line, and no follow-up, which takes no lease for its      *)
(* turn, is about.                                                         *)
StartedOwnTurn ==
  ~(Faults \/ Hasty \/ Leaves) /\ Shadowed /\ FollowUps = {} =>
    \A d \in Delegates : pc[d] = "wait" \/ outcome[d] = "ok" =>
      \E i \in DOMAIN commands : commands[i].by = d /\ i <= begun

(* "Durante delegate, o lease de entrada e exclusivo da automacao,         *)
(* portanto o humano anexado fica watch-only": between a delegate's text   *)
(* and the end of its turn no key of a human reaches the terminal, as long *)
(* as the turn keeps within the 900 s of the lease.                        *)
HumanWatchesOnly ==
  [][\A h \in Humans : keys'[h] # keys[h] => LongTurns \/
       \A d \in Delegates : pc[d] \notin {"ack", "start", "wait"}]_inputVars

(* An automation writes into a line that an attached human has begun.      *)
WritesIntoComposition ==
  \E a \in Automations, h \in Humans :
    pc[a] = "text" /\ pc'[a] = "ack" /\ pc[h] = "attached" /\ Writes(h)

(* No automation writes into a line that an attached human has begun to    *)
(* type, whatever fails and however long he hesitates; but for what he     *)
(* types ahead after a configuration command, and where he uses other keys *)
(* than characters, Backspace and Enter or outgrows the host's composer.   *)
PlainCompositionProtected ==
  [][(Configures /\ Hasty) \/ ~Shadowed \/ ~WritesIntoComposition]_inputVars

(* Input comes free again: an automation's lease ends even if its process  *)
(* dies in the middle of a turn.                                           *)
InputReturns == \A a \in Automations : lease.owner = a ~> lease.owner # a

(* Keys of a human and text of an automation never meet in one line.       *)
HandsOff == HumanWatchesOnly /\ PlainCompositionProtected

=============================================================================
