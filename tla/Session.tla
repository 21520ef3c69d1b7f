------------------------------- MODULE Session -------------------------------
(***************************************************************************)
(* One session of the application: the user's loop (tui_loop::run), the    *)
(* runs of its one agent, the Supervisor in front of the runs submitted in *)
(* Autonomous mode, and the event bus between them.                        *)
(*                                                                         *)
(* The bus keeps the newest Capacity unread events; a reader that fell     *)
(* behind is told so once and goes on with the oldest event left.  What    *)
(* the loop believes (busy, the background indicator, the last requested   *)
(* tool, the state of the agent, the workspace it draws) is made of the    *)
(* events it folds.                                                        *)
(*                                                                         *)
(* The supervisor's state moves by the actions of Supervisor only: every   *)
(* task is a drive of a queue of one, and restart is never called.         *)
(***************************************************************************)
EXTENDS Policy, Sequences, FiniteSets

CONSTANTS
  Capacity,   \* of the event bus
  MaxTasks,   \* bound: tasks submitted
  MaxCalls,   \* bound: tool calls of all runs
  MaxModes,   \* bound: changes of the AI mode
  MaxStops    \* bound: uses of the kill-switch

ASSUME SessionAssumption ==
  /\ Capacity \in Nat \ {0}
  /\ MaxTasks \in Nat /\ MaxCalls \in Nat /\ MaxModes \in Nat /\ MaxStops \in Nat

VARIABLES
  \* The user's thread.
  phase,       \* of the turn: "fold", "input", or "announce" a mode change
  workspace,   \* App.workspace: the AI mode and whether git shows a repository
  policy,      \* the AI mode whose permissions the view registry holds
  panel,       \* what the Git panel shows: a status or an error
  busy,        \* is a run believed to be active?
  background,  \* App.background_active
  lastRequest, \* the call of the last ToolRequested folded
  agentState,  \* App.agent_state: the task it is the outcome of, 0 while it is none
  \* The bus, as its one reader finds it.
  bus,         \* unread events
  lagged,      \* an unread event was overwritten
  \* The agent and the disk.
  run,         \* where the run of each task is
  calls,       \* tool calls requested
  repo,        \* is the project a git repository?
  \* The supervisor.
  mode, stopped, done, user, pc, queue,
  announced, taken, late, begun, idles, modes, stops, restarts,
  \* History, read by the properties only.
  tasks,       \* tasks submitted
  recorded,    \* tool calls written to memory, each with the target it got
  decided,     \* decisions written to memory: a task, and whose outcome it got
  lost         \* the loop has missed an event

uiVars == <<phase, workspace, policy, panel, busy, background, lastRequest, agentState>>
busVars == <<bus, lagged>>
agentVars == <<run, calls, repo>>
driveVars == <<mode, stopped, done, user, pc, queue,
               announced, taken, late, begun, idles, modes, stops, restarts>>
history == <<tasks, recorded, decided, lost>>
vars == <<uiVars, busVars, agentVars, driveVars, history>>

Tasks == 1..MaxTasks

S == INSTANCE Supervisor
       WITH Drives <- Tasks, MaxQueue <- 1, InitialMode <- "Mentor", MaxRestarts <- 0

(* The call is the tool call the event is about or, of an outcome and the  *)
(* end of a run, the task; 0 if it is about none.                          *)
Event(kind, call, space) == [kind |-> kind, call |-> call, space |-> space]

NoSpace == [mode |-> "Mentor", git |-> FALSE]

Plain(kind) == Event(kind, 0, NoSpace)

Changed(space) == Event("workspace", 0, space)

(* The application starts in Mentor mode with a first look at the          *)
(* repository.                                                             *)
Init ==
  /\ phase = "fold"
  /\ repo \in BOOLEAN
  /\ workspace = [mode |-> "Mentor", git |-> repo]
  /\ policy = "Mentor"
  /\ panel = IF repo THEN "status" ELSE "error"
  /\ busy = FALSE
  /\ background = FALSE
  /\ lastRequest = 0
  /\ agentState = 0
  /\ bus = IF repo THEN <<Changed(workspace)>> ELSE <<>>
  /\ lagged = FALSE
  /\ run = [n \in Tasks |-> "none"]
  /\ calls = 0
  /\ S!Init
  /\ tasks = 0
  /\ recorded = {}
  /\ decided = {}
  /\ lost = FALSE

(* EventBus::emit never fails: a full channel gives up its oldest event. *)
EmitTo(unread, event) ==
  IF Len(unread) < Capacity
  THEN bus' = Append(unread, event) /\ UNCHANGED <<lagged, lost>>
  ELSE bus' = Append(Tail(unread), event) /\ lagged' = TRUE /\ lost' = TRUE

Emit(event) == EmitTo(bus, event)

-----------------------------------------------------------------------------
(* The run of a task, on a runtime thread. *)

RunStarts(n) ==
  /\ run[n] = "spawned"
  /\ run' = [run EXCEPT ![n] = "work"]
  /\ Emit(Plain("started"))
  /\ UNCHANGED <<uiVars, calls, repo, driveVars, tasks, recorded, decided>>

RequestTool(n) ==
  /\ run[n] = "work"
  /\ calls < MaxCalls
  /\ run' = [run EXCEPT ![n] = "tool"]
  /\ calls' = calls + 1
  /\ Emit(Event("requested", calls', NoSpace))
  /\ UNCHANGED <<uiVars, repo, driveVars, tasks, recorded, decided>>

(* The tool may have made or removed the repository. *)
CompleteTool(n) ==
  /\ run[n] = "tool"
  /\ run' = [run EXCEPT ![n] = "work"]
  /\ repo' \in BOOLEAN
  /\ Emit(Event("completed", calls, NoSpace))
  /\ UNCHANGED <<uiVars, calls, driveVars, tasks, recorded, decided>>

(* Any event on the way: a piece of the answer or, like all the others to   *)
(* the loop but for the state it draws, a change of state.                  *)
RunStreams(n) ==
  /\ run[n] \in {"work", "tool"}
  /\ Emit(Plain("state"))
  /\ UNCHANGED <<uiVars, agentVars, driveVars, tasks, recorded, decided>>

(* Every way a run ends, the timeout while the user is asked included,     *)
(* announces its outcome as the state of the agent and then its end.       *)
RunSettles(n) ==
  /\ run[n] \in {"work", "tool"}
  /\ run' = [run EXCEPT ![n] = "settled"]
  /\ Emit(Event("state", n, NoSpace))
  /\ UNCHANGED <<uiVars, calls, repo, driveVars, tasks, recorded, decided>>

(* Mutant of RunEnds: an early return that announces its end alone. *)
RunEndsUnsettled(n) ==
  /\ run[n] \in {"work", "tool", "settled"}
  /\ run' = [run EXCEPT ![n] = "ended"]
  /\ Emit(Event("finished", n, NoSpace))
  /\ UNCHANGED <<uiVars, calls, repo, driveVars, tasks, recorded, decided>>

RunEnds(n) ==
  /\ run[n] = "settled"
  /\ run' = [run EXCEPT ![n] = "ended"]
  /\ Emit(Event("finished", n, NoSpace))
  /\ UNCHANGED <<uiVars, calls, repo, driveVars, tasks, recorded, decided>>

RunStep(n) ==
  \/ RunStarts(n) \/ RequestTool(n) \/ CompleteTool(n) \/ RunStreams(n)
  \/ RunSettles(n) \/ RunEnds(n)

-----------------------------------------------------------------------------
(* The drive of a task submitted in Autonomous mode. *)

(* The gate opened: the task is announced and its run begins. *)
DriveBegins(n) ==
  /\ S!GateMode(n)
  /\ IF mode = "Autonomous"
     THEN run' = [run EXCEPT ![n] = "spawned"] /\ Emit(Plain("background"))
     ELSE UNCHANGED <<run, busVars, lost>>
  /\ UNCHANGED <<uiVars, calls, repo, tasks, recorded, decided>>

DriveHalts(n) ==
  /\ S!Halt(n)
  /\ Emit(Plain("halted"))
  /\ UNCHANGED <<uiVars, agentVars, tasks, recorded, decided>>

DriveRan(n) ==
  /\ run[n] = "ended"
  /\ S!TaskEnds(n)
  /\ UNCHANGED <<uiVars, busVars, agentVars, history>>

DriveDrained(n) ==
  /\ S!Drained(n)
  /\ IF stopped THEN UNCHANGED <<busVars, lost>> ELSE Emit(Plain("idle"))
  /\ UNCHANGED <<uiVars, agentVars, tasks, recorded, decided>>

DriveQuietly(n) ==
  /\ S!GateStopped(n) \/ S!CheckStopped(n) \/ S!BeatEnds(n)
  /\ UNCHANGED <<uiVars, busVars, agentVars, history>>

DriveStep(n) ==
  DriveBegins(n) \/ DriveHalts(n) \/ DriveRan(n) \/ DriveDrained(n) \/ DriveQuietly(n)

-----------------------------------------------------------------------------
(* The user's thread. *)

(* refresh_git, with the events that are left unread: a status is          *)
(* announced, a failure only resets the workspace.                         *)
RefreshGit(unread) ==
  /\ workspace' = [workspace EXCEPT !.git = repo]
  /\ IF repo
     THEN panel' = "status" /\ EmitTo(unread, Changed(workspace'))
     ELSE panel' = "error" /\ bus' = unread /\ UNCHANGED <<lagged, lost>>

(* Mutants of FoldEvent: one event in each turn, or the first request of a *)
(* session kept for the last.                                              *)
FoldOneEvent ==
  /\ phase = "fold" /\ phase' = "input"
  /\ ~lagged /\ bus # <<>>
  /\ LET event == Head(bus) IN
     /\ busy' = IF event.kind = "started" THEN TRUE
                ELSE IF event.kind = "finished" THEN FALSE ELSE busy
     /\ background' = IF event.kind = "background" THEN TRUE
                      ELSE IF event.kind \in {"halted", "idle"} THEN FALSE ELSE background
     /\ lastRequest' = IF event.kind = "requested" THEN event.call ELSE lastRequest
     /\ recorded' = IF event.kind = "completed" /\ lastRequest # 0
                    THEN recorded \cup {[call |-> event.call, target |-> lastRequest]}
                    ELSE recorded
     /\ agentState' = IF event.kind \in {"started", "state"} THEN event.call ELSE agentState
     /\ decided' = IF event.kind = "finished"
                   THEN decided \cup {[task |-> event.call, outcome |-> agentState]} ELSE decided
     /\ IF event.kind = "finished" THEN RefreshGit(Tail(bus))
        ELSE /\ workspace' = IF event.kind = "workspace" THEN event.space ELSE workspace
             /\ bus' = Tail(bus)
             /\ UNCHANGED <<panel, lagged, lost>>
  /\ UNCHANGED <<policy, agentVars, driveVars, tasks>>

FoldFirstRequest ==
  /\ phase = "fold"
  /\ ~lagged /\ bus # <<>>
  /\ LET event == Head(bus) IN
     /\ busy' = IF event.kind = "started" THEN TRUE
                ELSE IF event.kind = "finished" THEN FALSE ELSE busy
     /\ background' = IF event.kind = "background" THEN TRUE
                      ELSE IF event.kind \in {"halted", "idle"} THEN FALSE ELSE background
     /\ lastRequest' = IF event.kind = "requested" /\ lastRequest = 0
                       THEN event.call ELSE lastRequest
     /\ recorded' = IF event.kind = "completed" /\ lastRequest # 0
                    THEN recorded \cup {[call |-> event.call, target |-> lastRequest]}
                    ELSE recorded
     /\ agentState' = IF event.kind \in {"started", "state"} THEN event.call ELSE agentState
     /\ decided' = IF event.kind = "finished"
                   THEN decided \cup {[task |-> event.call, outcome |-> agentState]} ELSE decided
     /\ IF event.kind = "finished" THEN RefreshGit(Tail(bus))
        ELSE /\ workspace' = IF event.kind = "workspace" THEN event.space ELSE workspace
             /\ bus' = Tail(bus)
             /\ UNCHANGED <<panel, lagged, lost>>
  /\ UNCHANGED <<phase, policy, agentVars, driveVars, tasks>>

(* One event folded: first by the loop, then by App::apply_event. *)
FoldEvent ==
  /\ phase = "fold"
  /\ ~lagged /\ bus # <<>>
  /\ LET event == Head(bus) IN
     /\ busy' = IF event.kind = "started" THEN TRUE
                ELSE IF event.kind = "finished" THEN FALSE ELSE busy
     /\ background' = IF event.kind = "background" THEN TRUE
                      ELSE IF event.kind \in {"halted", "idle"} THEN FALSE ELSE background
     /\ lastRequest' = IF event.kind = "requested" THEN event.call ELSE lastRequest
     /\ recorded' = IF event.kind = "completed" /\ lastRequest # 0
                    THEN recorded \cup {[call |-> event.call, target |-> lastRequest]}
                    ELSE recorded
     /\ agentState' = IF event.kind \in {"started", "state"} THEN event.call ELSE agentState
     /\ decided' = IF event.kind = "finished"
                   THEN decided \cup {[task |-> event.call, outcome |-> agentState]} ELSE decided
     /\ IF event.kind = "finished" THEN RefreshGit(Tail(bus))
        ELSE /\ workspace' = IF event.kind = "workspace" THEN event.space ELSE workspace
             /\ bus' = Tail(bus)
             /\ UNCHANGED <<panel, lagged, lost>>
  /\ UNCHANGED <<phase, policy, agentVars, driveVars, tasks>>

(* Mutant of FoldLagged: the loop starts over with the next event. *)
FoldResubscribes ==
  /\ phase = "fold"
  /\ lagged
  /\ lagged' = FALSE
  /\ bus' = <<>>
  /\ phase' = "input"
  /\ UNCHANGED <<workspace, policy, panel, busy, background, lastRequest, agentState, agentVars,
                 driveVars, history>>

(* "Lagged or closed: resync on the next tick." *)
FoldLagged ==
  /\ phase = "fold"
  /\ lagged
  /\ lagged' = FALSE
  /\ phase' = "input"
  /\ UNCHANGED <<workspace, policy, panel, busy, background, lastRequest, agentState, bus,
                 agentVars, driveVars, history>>

FoldEmpty ==
  /\ phase = "fold"
  /\ ~lagged /\ bus = <<>>
  /\ phase' = "input"
  /\ UNCHANGED <<workspace, policy, panel, busy, background, lastRequest, agentState, busVars,
                 agentVars, driveVars, history>>

NoInput ==
  /\ phase = "input" /\ phase' = "fold"
  /\ UNCHANGED <<workspace, policy, panel, busy, background, lastRequest, agentState, busVars,
                 agentVars, driveVars, history>>

(* Mutant of Submit: asks the runs, not whether the last was heard to end. *)
SubmitIfQuiet ==
  /\ phase = "input" /\ phase' = "fold"
  /\ \A n \in Tasks : run[n] \in {"none", "ended"}
  /\ tasks < MaxTasks
  /\ tasks' = tasks + 1
  /\ busy' = TRUE
  /\ IF ~stopped /\ mode = "Autonomous"
     THEN S!Drive(tasks', 1) /\ UNCHANGED run
     ELSE run' = [run EXCEPT ![tasks'] = "spawned"] /\ UNCHANGED driveVars
  /\ UNCHANGED <<workspace, policy, panel, background, lastRequest, agentState, busVars, calls,
                 repo, recorded, decided, lost>>

(* A task goes to the supervisor if it can run, else straight to the agent. *)
Submit ==
  /\ phase = "input" /\ phase' = "fold"
  /\ ~busy
  /\ tasks < MaxTasks
  /\ tasks' = tasks + 1
  /\ busy' = TRUE
  /\ IF ~stopped /\ mode = "Autonomous"
     THEN S!Drive(tasks', 1) /\ UNCHANGED run
     ELSE run' = [run EXCEPT ![tasks'] = "spawned"] /\ UNCHANGED driveVars
  /\ UNCHANGED <<workspace, policy, panel, background, lastRequest, agentState, busVars, calls,
                 repo, recorded, decided, lost>>

NextMode(m) == IF m = "Mentor" THEN "Assist" ELSE IF m = "Assist" THEN "Autonomous" ELSE "Mentor"

(* cycle_ai_mode, up to the supervisor's kill-switch; the mode that is     *)
(* cycled is the one in the workspace.                                     *)
CycleMode ==
  /\ phase = "input" /\ phase' = "announce"
  /\ LET next == NextMode(workspace.mode) IN
     /\ workspace' = [workspace EXCEPT !.mode = next]
     /\ policy' = next
     /\ S!SetMode(next)
  /\ UNCHANGED <<panel, busy, background, lastRequest, agentState, busVars, agentVars, history>>

CycleModeHalts ==
  /\ S!SetModeHalts
  /\ UNCHANGED <<uiVars, busVars, agentVars, history>>

AnnounceMode ==
  /\ phase = "announce" /\ phase' = "fold"
  /\ user = "idle"
  /\ Emit(Changed(workspace))
  /\ UNCHANGED <<workspace, policy, panel, busy, background, lastRequest, agentState, agentVars,
                 driveVars, tasks, recorded, decided>>

(* stop_background; the cancel of the run that goes with it only makes the *)
(* run end sooner.                                                         *)
StopBackground ==
  /\ phase = "input" /\ phase' = "fold"
  /\ S!Stop
  /\ UNCHANGED <<workspace, policy, panel, busy, background, lastRequest, agentState, busVars,
                 agentVars, history>>

Turn ==
  \/ FoldEvent \/ FoldLagged \/ FoldEmpty
  \/ NoInput \/ Submit \/ CycleMode \/ CycleModeHalts \/ AnnounceMode \/ StopBackground

Next == Turn \/ \E n \in Tasks : RunStep(n) \/ DriveStep(n)

Spec == Init /\ [][Next]_vars

-----------------------------------------------------------------------------
EventKinds ==
  {"started", "requested", "completed", "finished", "background", "halted", "idle", "workspace",
   "state"}

Spaces == [mode : AiModes, git : BOOLEAN]

TypeOK ==
  /\ phase \in {"fold", "input", "announce"}
  /\ workspace \in Spaces
  /\ policy \in AiModes
  /\ panel \in {"status", "error"}
  /\ busy \in BOOLEAN /\ background \in BOOLEAN
  /\ lastRequest \in Nat
  /\ bus \in Seq([kind : EventKinds, call : Nat, space : Spaces]) /\ Len(bus) <= Capacity
  /\ lagged \in BOOLEAN /\ lost \in BOOLEAN
  /\ run \in [Tasks -> {"none", "spawned", "work", "tool", "settled", "ended"}]
  /\ calls \in Nat /\ tasks \in 0..MaxTasks
  /\ repo \in BOOLEAN
  /\ recorded \subseteq [call : Nat, target : Nat]
  /\ agentState \in Nat
  /\ decided \subseteq [task : Nat, outcome : Nat]

Active == {n \in Tasks : run[n] \in {"spawned", "work", "tool", "settled"}}

(* "One agent at a time": whatever events are lost, however modes, stops,  *)
(* halts and the pause after a task cross, two tasks never run together.   *)
OneRunAtATime == \A m, n \in Active : m = n

(* "The App holds the same value, not a copy": as long as no event is      *)
(* lost, the mode on the screen when a key is handled is the mode whose    *)
(* policy is in force.                                                     *)
ModeShownIsInForce == phase = "input" /\ ~lost => workspace.mode = policy

(* As long as no event is lost, memory gets the target of each tool call   *)
(* that was made, across runs that time out in the middle of one.          *)
RecordsMatch == ~lost => \A record \in recorded : record.call = record.target

(* As long as no event is lost, the outcome written beside a decision is   *)
(* the one of the run that took it, though it is read off the screen, from *)
(* the state of the agent that was folded before the end.                  *)
OutcomesMatch == ~lost => \A decision \in decided : decision.task = decision.outcome

(* The drive of the task may still begin it. *)
MayBegin(n) == queue[n] = 1 /\ pc[n] \in {"next", "gate"}

(* No task runs or may still begin, every event left has been read, and    *)
(* the loop still believes a run is active.                                *)
BusyForNothing ==
  /\ phase = "input" /\ ~lagged /\ bus = <<>>
  /\ busy
  /\ \A n \in 1..tasks : n \notin Active /\ ~MayBegin(n)

(* However much the agent streams over the events of the bus, the last     *)
(* event of a run is heard: only as many mode changes and tasks as the bus *)
(* has room for could push it out.  The loop is then left busy for nothing *)
(* in one way only, by a task that never ran: its drive halted or was      *)
(* stopped before it began.                                                *)
FinishIsHeard ==
  modes + tasks < Capacity /\ BusyForNothing => \E n \in 1..tasks : run[n] = "none"

=============================================================================
