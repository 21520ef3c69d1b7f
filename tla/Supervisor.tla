------------------------------ MODULE Supervisor ------------------------------
(***************************************************************************)
(* The Supervisor of darb-agent: a gate made of two atomics, the AI mode   *)
(* and a kill-switch, in front of any number of drives that each work      *)
(* through a queue of tasks on a runtime thread of their own.              *)
(*                                                                         *)
(* Every load and store of an atomic that another thread may come between  *)
(* is a step: can_run is two loads, set_mode two stores.  One thread, the  *)
(* user's, calls set_mode, restart and drive; stop is also reachable from  *)
(* a running task, through its Handle.                                     *)
(***************************************************************************)
EXTENDS Policy, FiniteSets

CONSTANTS
  Drives,       \* calls of drive
  MaxQueue,     \* bound: tasks handed to one drive
  InitialMode,  \* the argument of Supervisor::new
  MaxModes,     \* bound: calls of set_mode
  MaxStops,     \* bound: calls of stop
  MaxRestarts   \* bound: calls of restart

ASSUME SupervisorAssumption ==
  /\ IsFiniteSet(Drives)
  /\ MaxQueue \in Nat /\ MaxModes \in Nat /\ MaxStops \in Nat /\ MaxRestarts \in Nat
  /\ InitialMode \in AiModes

VARIABLES
  mode,       \* Arc<AtomicU8>
  stopped,    \* Arc<AtomicBool>
  done,       \* Arc<AtomicU64>
  user,       \* the user's thread: idle, or between the stores of set_mode
  pc,         \* where each drive is
  queue,      \* tasks each drive has yet to begin

  \* History, read by the properties only.
  announced,  \* the last Background event, and the reason it gave
  taken,      \* power was taken back and not given again by restart
  late,       \* tasks each drive began with the power taken back
  begun,      \* tasks begun by all drives
  idles,      \* tasks left in each drive's queue when it announced BackgroundIdle
  modes,      \* calls of set_mode
  stops,      \* calls of stop
  restarts    \* calls of restart

sharedVars == <<mode, stopped, done, user, pc, queue>>
history == <<announced, taken, late, begun, idles, modes, stops, restarts>>
vars == <<sharedVars, history>>

Event(kind, reason) == [kind |-> kind, reason |-> reason]

Init ==
  /\ mode = InitialMode
  /\ stopped = FALSE
  /\ done = 0
  /\ user = "idle"
  /\ pc = [d \in Drives |-> "off"]
  /\ queue = [d \in Drives |-> 0]
  /\ announced = Event("none", "none")
  /\ taken = FALSE
  /\ late = [d \in Drives |-> 0]
  /\ begun = 0
  /\ idles = [d \in Drives |-> 0]
  /\ modes = 0
  /\ stops = 0
  /\ restarts = 0

-----------------------------------------------------------------------------
(* The user's thread. *)

(* Mutant of SetMode: going back to Autonomous resumes. *)
SetModeResumes(m) ==
  /\ user = "idle"
  /\ modes < MaxModes
  /\ mode' = m
  /\ stopped' = IF m = "Autonomous" THEN FALSE ELSE stopped
  /\ LET leaving == mode = "Autonomous" /\ m # "Autonomous" IN
     /\ user' = IF leaving THEN "halting" ELSE "idle"
     /\ taken' = (taken \/ leaving)
  /\ modes' = modes + 1
  /\ UNCHANGED <<done, pc, queue, announced, late, begun, idles, stops, restarts>>

(* set_mode, up to its first store: only leaving Autonomous goes on to the *)
(* kill-switch.                                                            *)
SetMode(m) ==
  /\ user = "idle"
  /\ modes < MaxModes
  /\ mode' = m
  /\ LET leaving == mode = "Autonomous" /\ m # "Autonomous" IN
     /\ user' = IF leaving THEN "halting" ELSE "idle"
     /\ taken' = (taken \/ leaving)
  /\ modes' = modes + 1
  /\ UNCHANGED <<stopped, done, pc, queue, announced, late, begun, idles, stops, restarts>>

SetModeHalts ==
  /\ user = "halting"
  /\ stopped' = TRUE
  /\ user' = "idle"
  /\ UNCHANGED <<mode, done, pc, queue, announced, taken, late, begun, idles, modes, stops,
                 restarts>>

Stop ==
  /\ user = "idle"
  /\ stops < MaxStops
  /\ stopped' = TRUE
  /\ taken' = TRUE
  /\ stops' = stops + 1
  /\ UNCHANGED <<mode, done, user, pc, queue, announced, late, begun, idles, modes, restarts>>

Restart ==
  /\ user = "idle"
  /\ restarts < MaxRestarts
  /\ stopped' = FALSE
  /\ taken' = FALSE
  /\ late' = [d \in Drives |-> 0]
  /\ restarts' = restarts + 1
  /\ UNCHANGED <<mode, done, user, pc, queue, announced, begun, idles, modes, stops>>

(* drive is called with a queue of n tasks. *)
Drive(d, n) ==
  /\ user = "idle"
  /\ pc[d] = "off"
  /\ pc' = [pc EXCEPT ![d] = "next"]
  /\ queue' = [queue EXCEPT ![d] = n]
  /\ UNCHANGED <<mode, stopped, done, user, history>>

-----------------------------------------------------------------------------
(* A drive. *)

Goto(d, place) == pc' = [pc EXCEPT ![d] = place]

(* can_run, first load. *)
GateStopped(d) ==
  /\ pc[d] = "next" /\ queue[d] > 0
  /\ Goto(d, IF stopped THEN "halt" ELSE "gate")
  /\ UNCHANGED <<mode, stopped, done, user, queue, history>>

(* can_run, second load: the task begins, or the drive halts. *)
GateMode(d) ==
  /\ pc[d] = "gate"
  /\ IF mode = "Autonomous"
     THEN /\ Goto(d, "run")
          /\ queue' = [queue EXCEPT ![d] = @ - 1]
          /\ announced' = Event("started", "none")
          /\ late' = IF taken THEN [late EXCEPT ![d] = @ + 1] ELSE late
          /\ begun' = begun + 1
     ELSE /\ Goto(d, "halt")
          /\ UNCHANGED <<queue, announced, late, begun>>
  /\ UNCHANGED <<mode, stopped, done, user, taken, idles, modes, stops, restarts>>

(* halt_label, and the event it goes into; the queue is dropped. *)
Halt(d) ==
  /\ pc[d] = "halt"
  /\ announced' = Event("halted", IF stopped THEN "stopped" ELSE "paused")
  /\ Goto(d, "ended")
  /\ UNCHANGED <<mode, stopped, done, user, queue, taken, late, begun, idles, modes, stops,
                 restarts>>

(* A task may use its Handle to pull the kill-switch. *)
TaskStops(d) ==
  /\ pc[d] = "run"
  /\ stops < MaxStops
  /\ stopped' = TRUE
  /\ taken' = TRUE
  /\ stops' = stops + 1
  /\ UNCHANGED <<mode, done, user, pc, queue, announced, late, begun, idles, modes, restarts>>

(* Mutant of TaskEnds: a task that was stopped is not counted. *)
TaskEndsCounted(d) ==
  /\ pc[d] = "run"
  /\ done' = IF stopped THEN done ELSE done + 1
  /\ Goto(d, "check")
  /\ UNCHANGED <<mode, stopped, user, queue, history>>

TaskEnds(d) ==
  /\ pc[d] = "run"
  /\ done' = done + 1
  /\ Goto(d, "check")
  /\ UNCHANGED <<mode, stopped, user, queue, history>>

(* No waiting out the beat once stopped. *)
CheckStopped(d) ==
  /\ pc[d] = "check"
  /\ Goto(d, IF stopped THEN "over" ELSE "beat")
  /\ UNCHANGED <<mode, stopped, done, user, queue, history>>

(* Mutant of BeatEnds: the beat goes on while the flag is set. *)
BeatWaitsForRestart(d) ==
  /\ pc[d] = "beat"
  /\ ~stopped
  /\ Goto(d, "next")
  /\ UNCHANGED <<mode, stopped, done, user, queue, history>>

BeatEnds(d) ==
  /\ pc[d] = "beat"
  /\ Goto(d, "next")
  /\ UNCHANGED <<mode, stopped, done, user, queue, history>>

(* The queue is empty or was abandoned: idle is announced unless stopped. *)
Drained(d) ==
  /\ pc[d] = "over" \/ (pc[d] = "next" /\ queue[d] = 0)
  /\ IF stopped
     THEN UNCHANGED <<announced, idles>>
     ELSE /\ announced' = Event("idle", "none")
          /\ idles' = [idles EXCEPT ![d] = queue[d]]
  /\ Goto(d, "ended")
  /\ UNCHANGED <<mode, stopped, done, user, queue, taken, late, begun, modes, stops, restarts>>

Step(d) ==
  \/ GateStopped(d) \/ GateMode(d) \/ Halt(d)
  \/ TaskEnds(d) \/ CheckStopped(d) \/ BeatEnds(d) \/ Drained(d)

Next ==
  \/ \E m \in AiModes : SetMode(m)
  \/ SetModeHalts \/ Stop \/ Restart
  \/ \E d \in Drives : Step(d) \/ TaskStops(d) \/ \E n \in 1..MaxQueue : Drive(d, n)

Spec == Init /\ [][Next]_vars

(* The runtime keeps polling every drive, and Agent::run ends (RunEnds of  *)
(* AgentLoop).                                                             *)
FairSpec == Spec /\ \A d \in Drives : WF_vars(Step(d))

-----------------------------------------------------------------------------
TypeOK ==
  /\ mode \in AiModes
  /\ stopped \in BOOLEAN
  /\ done \in Nat
  /\ user \in {"idle", "halting"}
  /\ pc \in [Drives -> {"off", "next", "gate", "halt", "run", "check", "beat", "over", "ended"}]
  /\ queue \in [Drives -> Nat]
  /\ announced \in [kind : {"none", "started", "halted", "idle"},
                    reason : {"none", "stopped", "paused"}]
  /\ taken \in BOOLEAN
  /\ late \in [Drives -> Nat]
  /\ begun \in Nat
  /\ idles \in [Drives -> Nat]
  /\ modes \in Nat /\ stops \in Nat /\ restarts \in Nat

(* "A mode change lands within one task rather than one session", and      *)
(* raising the mode never resumes: from the moment the user leaves         *)
(* Autonomous or pulls the kill-switch, and however the modes are cycled   *)
(* after that, a drive begins at most the one task it was already letting  *)
(* through, until restart.                                                 *)
LandsWithinOneTask == \A d \in Drives : late[d] <= 1

(* "The background queue drained": idle is announced only by a drive that   *)
(* began every task it was given.  A drive that breaks off reads the        *)
(* kill-switch a second time before it announces anything, so this holds    *)
(* only as long as nothing clears the switch in between: raising the mode   *)
(* does not; restart does and is left out.                                  *)
IdleMeansDrained == restarts = 0 => \A d \in Drives : idles[d] = 0

Running == {d \in Drives : pc[d] = "run"}

(* The running total shown as progress: a drive leaves its loop halted,     *)
(* broken off or drained, and each task it began is counted once on every   *)
(* way; the total is the tasks begun less those still running.              *)
CompletedCountsRuns == done + Cardinality(Running) = begun

(* Every drive comes to an end, stopped, paused or drained. *)
DrivesEnd == \A d \in Drives : (pc[d] # "off") ~> (pc[d] = "ended")
=============================================================================
