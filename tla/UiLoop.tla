-------------------------------- MODULE UiLoop --------------------------------
(***************************************************************************)
(* The event loop of the application (tui_loop::run) against one agent on  *)
(* a runtime thread.  They share an event bus, a channel that carries the  *)
(* reply half of each confirmation, and nothing else: the dialog comes     *)
(* from the bus, the slot its answer goes to from the channel, and the     *)
(* same dialog and slot serve the terminal panel and the file editor.      *)
(*                                                                         *)
(* A turn of the loop folds every event, takes every reply half, draws,    *)
(* and handles at most one key; the agent may run between any two of       *)
(* those.  The registry behind the panels follows the AI mode, the agent's *)
(* own keeps the policy of the configuration file.                         *)
(***************************************************************************)
EXTENDS Policy, Sequences, FiniteSets

CONSTANTS
  UserConfig,    \* the permissions of the user's config file
  MaxQuestions,  \* bound: questions the agent asks
  MaxLocals,     \* bound: terminal commands and saves
  MaxTasks,      \* bound: tasks submitted
  MaxModes       \* bound: changes of the AI mode

ASSUME UiAssumption ==
  /\ UserConfig \in Configs
  /\ MaxQuestions \in Nat /\ MaxLocals \in Nat /\ MaxTasks \in Nat /\ MaxModes \in Nat

VARIABLES
  \* The user's thread.
  phase,     \* where the turn of the loop is: "events", "queries" or "input"
  dialog,    \* App.permission: the request the dialog shows
  pending,   \* Option<Pending>: the request the next answer goes to
  busy,      \* is a run believed to be active?
  mode,      \* workspace.mode, the mode of the panels' registry
  grants,    \* the grants of the panels' registry
  \* Shared.
  bus,       \* events emitted and not yet folded
  queries,   \* reply halves sent and not yet taken
  reply,     \* the oneshot of the current question
  \* The agent.
  agent,     \* off, spawned, at work, asking (event emitted), waiting (reply half sent)
  question,  \* the number of its last question

  \* History, read by the properties only.
  consent,   \* the dialog on which the current reply was given
  acted,     \* requests that got past a question, each with that dialog
  yeses,     \* times the user said yes
  wrote,     \* modes in force while the agent edited a file unasked
  locals,    \* terminal commands and saves so far
  tasks,     \* tasks submitted
  modes      \* changes of the AI mode

uiVars == <<phase, dialog, pending, busy, mode, grants>>
sharedVars == <<bus, queries, reply>>
agentVars == <<agent, question>>
history == <<consent, acted, yeses, wrote, locals, tasks, modes>>
vars == <<uiVars, sharedVars, agentVars, history>>

Panels == {"terminal", "save"}

KindOf(panel) == IF panel = "save" THEN "edit" ELSE "shell"

Request(who, n) == [who |-> who, n |-> n]

Nobody == Request("none", 0)

Init ==
  /\ phase = "events"
  /\ dialog = Nobody
  /\ pending = Nobody
  /\ busy = FALSE
  /\ mode = "Mentor"
  /\ grants = {}
  /\ bus = <<>>
  /\ queries = <<>>
  /\ reply = "none"
  /\ agent = "off"
  /\ question = 0
  /\ consent = Nobody
  /\ acted = {}
  /\ yeses = 0
  /\ wrote = {}
  /\ locals = 0
  /\ tasks = 0
  /\ modes = 0

-----------------------------------------------------------------------------
(* The agent's thread. *)

Emit(kind) == bus' = Append(bus, [kind |-> kind, n |-> question'])

(* The runtime polls the spawned run for the first time. *)
AgentStarts ==
  /\ agent = "spawned"
  /\ agent' = "work"
  /\ UNCHANGED question
  /\ Emit("started")
  /\ UNCHANGED <<uiVars, queries, reply, history>>

(* An edit that needs no question. *)
AgentEdits ==
  /\ agent = "work"
  /\ Evaluate("edit", UserConfig) = "Allowed"
  /\ wrote' = wrote \cup {mode}
  /\ UNCHANGED <<uiVars, sharedVars, agentVars, consent, acted, yeses, locals, tasks, modes>>

(* confirm_interactively for an edit or a command, up to the send of the   *)
(* reply half.                                                             *)
AgentAsks ==
  /\ agent = "work"
  /\ \E kind \in {"edit", "shell"} : Evaluate(kind, UserConfig) = "AskUser"
  /\ question < MaxQuestions
  /\ question' = question + 1
  /\ agent' = "asking"
  /\ Emit("requested")
  /\ UNCHANGED <<uiVars, queries, reply, history>>

(* UiResponder::ask. *)
AgentSends ==
  /\ agent = "asking"
  /\ queries' = Append(queries, question)
  /\ reply' = "none"
  /\ agent' = "waiting"
  /\ UNCHANGED <<uiVars, bus, question, history>>

AgentHears ==
  /\ agent = "waiting"
  /\ reply # "none"
  /\ agent' = "work"
  /\ UNCHANGED question
  /\ Emit("resolved")
  /\ IF reply = "yes"
     THEN acted' = acted \cup {[request |-> Request("agent", question), shown |-> consent]}
     ELSE UNCHANGED acted
  /\ UNCHANGED <<uiVars, queries, reply, consent, yeses, wrote, locals, tasks, modes>>

(* The run ends, or times out waiting for the provider or the user. *)
AgentFinishes ==
  /\ agent \in {"work", "waiting"}
  /\ agent' = "off"
  /\ UNCHANGED question
  /\ Emit("finished")
  /\ UNCHANGED <<uiVars, queries, reply, history>>

-----------------------------------------------------------------------------
(* The user's thread: one turn of the loop. *)

(* Mutant of ReplaceBy: a dropped reply half is an answer of a third kind. *)
ReplaceAsError(request) ==
  /\ pending' = request
  /\ reply' = IF /\ pending = Request("agent", question)
                 /\ agent = "waiting" /\ reply = "none"
              THEN "closed" ELSE reply

(* The reply half in the slot is dropped with whatever replaces it, and    *)
(* the question it belonged to hears no.                                   *)
ReplaceBy(request) ==
  /\ pending' = request
  /\ reply' = IF /\ pending = Request("agent", question)
                 /\ agent = "waiting" /\ reply = "none"
              THEN "no" ELSE reply

FoldEvent ==
  /\ phase = "events"
  /\ bus # <<>>
  /\ bus' = Tail(bus)
  /\ LET event == Head(bus) IN
     /\ dialog' = IF event.kind = "requested" THEN Request("agent", event.n)
                  ELSE IF event.kind = "resolved" THEN Nobody ELSE dialog
     /\ busy' = IF event.kind = "finished" THEN FALSE
                ELSE IF event.kind = "started" THEN TRUE ELSE busy
  /\ UNCHANGED <<phase, pending, mode, grants, queries, reply, agentVars, history>>

EventsFolded ==
  /\ phase = "events"
  /\ bus = <<>>
  /\ phase' = "queries"
  /\ UNCHANGED <<dialog, pending, busy, mode, grants, sharedVars, agentVars, history>>

TakeQueries ==
  /\ phase = "queries"
  /\ IF queries = <<>>
     THEN UNCHANGED <<pending, reply>>
     ELSE ReplaceBy(Request("agent", queries[Len(queries)]))
  /\ queries' = <<>>
  /\ phase' = "input"
  /\ UNCHANGED <<dialog, busy, mode, grants, bus, agentVars, history>>

NoInput ==
  /\ phase = "input"
  /\ phase' = "events"
  /\ UNCHANGED <<dialog, pending, busy, mode, grants, sharedVars, agentVars, history>>

(* A task is handed to the agent, unless a run is believed to be active;   *)
(* a dialog would have taken the key.                                      *)
Submit ==
  /\ phase = "input" /\ phase' = "events"
  /\ dialog = Nobody
  /\ ~busy
  /\ tasks < MaxTasks
  /\ tasks' = tasks + 1
  /\ busy' = TRUE
  /\ agent' = "spawned"
  /\ UNCHANGED <<dialog, pending, mode, grants, sharedVars, question, consent, acted, yeses, wrote,
                 locals, modes>>

Verdict(panel) == Evaluate(KindOf(panel), ApplyTo(mode, UserConfig))

(* Mutant of Dispatch: a grant is not used up. *)
DispatchKeepsGrant(request, store, shown) ==
  LET asks == Verdict(request.who) = "AskUser"
      granted == request.who \in store
      next == IF asks /\ ~granted THEN request ELSE Nobody IN
  /\ dialog' = next
  /\ ReplaceBy(next)
  /\ grants' = store
  /\ acted' = IF asks /\ granted THEN acted \cup {[request |-> request, shown |-> shown]} ELSE acted

(* dispatch through the panels' registry, as run_terminal and run_save use *)
(* it: a question opens the dialog and takes the slot, anything else       *)
(* leaves the slot empty.                                                  *)
Dispatch(request, store, shown) ==
  LET asks == Verdict(request.who) = "AskUser"
      granted == request.who \in store
      next == IF asks /\ ~granted THEN request ELSE Nobody IN
  /\ dialog' = next
  /\ ReplaceBy(next)
  /\ grants' = IF asks THEN store \ {request.who} ELSE store
  /\ acted' = IF asks /\ granted THEN acted \cup {[request |-> request, shown |-> shown]} ELSE acted

(* A terminal command or a save; a dialog would have taken the key. *)
PanelRequest(panel) ==
  /\ phase = "input" /\ phase' = "events"
  /\ dialog = Nobody
  /\ locals < MaxLocals
  /\ locals' = locals + 1
  /\ Dispatch(Request(panel, locals'), grants, Nobody)
  /\ UNCHANGED <<busy, mode, bus, queries, agentVars, consent, yeses, wrote, tasks, modes>>

(* The user answers the dialog, and the answer goes to whatever is in the  *)
(* slot: to the agent, if it still waits for it, ...                       *)
AnswerAgent(allowed) ==
  /\ phase = "input" /\ phase' = "events"
  /\ dialog # Nobody
  /\ pending.who = "agent"
  /\ dialog' = Nobody
  /\ pending' = Nobody
  /\ IF pending.n = question /\ agent = "waiting" /\ reply = "none"
     THEN /\ reply' = IF allowed THEN "yes" ELSE "no"
          /\ consent' = dialog
     ELSE UNCHANGED <<reply, consent>>
  /\ yeses' = IF allowed THEN yeses + 1 ELSE yeses
  /\ UNCHANGED <<busy, mode, grants, bus, queries, agentVars, acted, wrote, locals, tasks, modes>>

(* ... to a panel, whose request is granted and dispatched again, ...      *)
AnswerPanel(allowed) ==
  /\ phase = "input" /\ phase' = "events"
  /\ dialog # Nobody
  /\ pending.who \in Panels
  /\ IF allowed
     THEN Dispatch(pending, grants \cup {pending.who}, dialog)
     ELSE /\ dialog' = Nobody
          /\ pending' = Nobody
          /\ UNCHANGED <<reply, grants, acted>>
  /\ yeses' = IF allowed THEN yeses + 1 ELSE yeses
  /\ UNCHANGED <<busy, mode, bus, queries, agentVars, consent, wrote, locals, tasks, modes>>

(* ... or to nobody. *)
AnswerNobody(allowed) ==
  /\ phase = "input" /\ phase' = "events"
  /\ dialog # Nobody
  /\ pending = Nobody
  /\ dialog' = Nobody
  /\ yeses' = IF allowed THEN yeses + 1 ELSE yeses
  /\ UNCHANGED <<pending, busy, mode, grants, sharedVars, agentVars, consent, acted, wrote, locals,
                 tasks, modes>>

NextMode(m) == IF m = "Mentor" THEN "Assist" ELSE IF m = "Assist" THEN "Autonomous" ELSE "Mentor"

(* Mutant of CycleMode: the grants of the panels' registry survive. *)
CycleModeKeepsGrants ==
  /\ phase = "input" /\ phase' = "events"
  /\ modes < MaxModes
  /\ modes' = modes + 1
  /\ mode' = NextMode(mode)
  /\ UNCHANGED <<dialog, pending, busy, grants, sharedVars, agentVars, consent, acted, yeses, wrote,
                 locals, tasks>>

(* cycle_ai_mode, which the loop looks for before any dialog: the panels'  *)
(* registry gets the policy of the next mode and loses its grants.         *)
CycleMode ==
  /\ phase = "input" /\ phase' = "events"
  /\ modes < MaxModes
  /\ modes' = modes + 1
  /\ mode' = NextMode(mode)
  /\ grants' = {}
  /\ UNCHANGED <<dialog, pending, busy, sharedVars, agentVars, consent, acted, yeses, wrote, locals,
                 tasks>>

Agent == AgentStarts \/ AgentEdits \/ AgentAsks \/ AgentSends \/ AgentHears \/ AgentFinishes

Input ==
  \/ NoInput \/ Submit \/ CycleMode
  \/ \E panel \in Panels : PanelRequest(panel)
  \/ \E allowed \in BOOLEAN : AnswerAgent(allowed) \/ AnswerPanel(allowed) \/ AnswerNobody(allowed)

Turn == FoldEvent \/ EventsFolded \/ TakeQueries \/ Input

Next == Agent \/ Turn

Spec == Init /\ [][Next]_vars

-----------------------------------------------------------------------------
TypeOK ==
  /\ phase \in {"events", "queries", "input"}
  /\ dialog \in [who : Panels \cup {"agent", "none"}, n : Nat]
  /\ pending \in [who : Panels \cup {"agent", "none"}, n : Nat]
  /\ busy \in BOOLEAN
  /\ mode \in AiModes
  /\ grants \subseteq Panels
  /\ bus \in Seq([kind : {"started", "requested", "resolved", "finished"}, n : Nat])
  /\ queries \in Seq(Nat)
  /\ reply \in {"none", "yes", "no"}
  /\ agent \in {"off", "spawned", "work", "asking", "waiting"}
  /\ question \in Nat
  /\ consent \in [who : Panels \cup {"agent", "none"}, n : Nat]
  /\ IsFiniteSet(acted)
  /\ yeses \in Nat /\ locals \in Nat /\ tasks \in Nat /\ modes \in Nat
  /\ wrote \subseteq AiModes

(* Nothing gets past a question without a yes of its own: however answers, *)
(* timeouts, mode changes and events cross, the agent and the panels       *)
(* together are let through at most as often as the user said yes.         *)
EachYesSpentOnce == Cardinality(acted) <= yeses

(* Grants are keyed by tool and target, not by content: no confirmation is *)
(* ever left in the panels' registry where policy would ask, for a later   *)
(* request with the same key to use.  One given just after the mode        *)
(* forbade the request is left there, and goes before policy asks again.   *)
NoConsentLeftOver == \A panel \in grants : Verdict(panel) # "AskUser"

(* "Switching to Mentor must actually revoke write access".  False: the    *)
(* agent's own registry keeps the policy it was built with.                *)
MentorRevokesWrites == "Mentor" \notin wrote
=============================================================================
