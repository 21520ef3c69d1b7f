--------------------------- MODULE SupervisorProofs ---------------------------
(***************************************************************************)
(* Proofs about Supervisor, for every finite set of drives, every queue,   *)
(* every initial mode and every bound.                                     *)
(***************************************************************************)
EXTENDS Supervisor, FiniteSetTheorems, TLAPS

(* Once power is taken back the gate refuses: the kill-switch is pulled,   *)
(* or set_mode is about to pull it and the mode refuses meanwhile.         *)
GateHolds ==
  /\ taken /\ user = "idle" => stopped
  /\ user = "halting" => taken /\ mode # "Autonomous"

(* A drive that began a task all the same is bound to find itself stopped  *)
(* after it: it never comes to the gate again.                             *)
LateDrivesLeave ==
  \A d \in Drives :
    late[d] > 0 => late[d] = 1 /\ stopped /\ pc[d] \in {"run", "check", "over", "ended"}

(* Without restart the flag that made a drive abandon its queue is still   *)
(* set when it looks again.                                                *)
AbandonedStayStopped ==
  restarts = 0 => \A d \in Drives : idles[d] = 0 /\ (pc[d] = "over" => stopped)

(* The gate is looked at for a task only. *)
GatedHaveTask == \A d \in Drives : pc[d] = "gate" => queue[d] > 0

IInv ==
  /\ TypeOK
  /\ GatedHaveTask
  /\ GateHolds
  /\ LateDrivesLeave
  /\ AbandonedStayStopped
  /\ CompletedCountsRuns

-----------------------------------------------------------------------------
LEMMA EventType ==
  /\ Event("none", "none") \in [kind : {"none", "started", "halted", "idle"},
                                reason : {"none", "stopped", "paused"}]
  /\ Event("started", "none") \in [kind : {"none", "started", "halted", "idle"},
                                   reason : {"none", "stopped", "paused"}]
  /\ Event("idle", "none") \in [kind : {"none", "started", "halted", "idle"},
                                reason : {"none", "stopped", "paused"}]
  /\ \A b \in BOOLEAN :
       Event("halted", IF b THEN "stopped" ELSE "paused")
         \in [kind : {"none", "started", "halted", "idle"},
              reason : {"none", "stopped", "paused"}]
BY DEF Event

LEMMA RunningFinite == IsFiniteSet(Running) /\ Cardinality(Running) \in Nat
<1>1. Running \in SUBSET Drives
  BY DEF Running
<1>. QED BY <1>1, SupervisorAssumption, FS_Subset, FS_CardinalityType

(* A drive that moves between two places other than "run" leaves the set   *)
(* of running drives alone.                                                *)
LEMMA RunningKept ==
  ASSUME NEW d \in Drives, NEW place, pc \in [Drives -> STRING],
         Goto(d, place), pc[d] # "run", place # "run"
  PROVE  Running' = Running
BY DEF Goto, Running

LEMMA InitIInv == Init => IInv
<1>. SUFFICES ASSUME Init PROVE IInv
  OBVIOUS
<1>1. TypeOK
  BY SupervisorAssumption, EventType DEF Init, TypeOK, AiModes
<1>2. GatedHaveTask /\ GateHolds /\ LateDrivesLeave /\ AbandonedStayStopped
  BY DEF Init, GatedHaveTask, GateHolds, LateDrivesLeave, AbandonedStayStopped
<1>3. CompletedCountsRuns
  <2>1. Running = {}
    BY DEF Init, Running
  <2>. QED BY <2>1, FS_EmptySet DEF Init, CompletedCountsRuns
<1>. QED BY <1>1, <1>2, <1>3 DEF IInv

LEMMA SetModeIInv ==
  ASSUME IInv, NEW m \in AiModes, SetMode(m)
  PROVE  IInv'
<1>0. TypeOK /\ GatedHaveTask /\ GateHolds /\ LateDrivesLeave /\ AbandonedStayStopped
      /\ CompletedCountsRuns
  BY DEF IInv
<1>1. TypeOK'
  BY <1>0, EventType DEF SetMode, TypeOK, history
<1>2. GateHolds'
  BY <1>0 DEF SetMode, TypeOK, GateHolds, history
<1>3. LateDrivesLeave'
  BY <1>0 DEF SetMode, TypeOK, LateDrivesLeave, GateHolds, history
<1>4. AbandonedStayStopped'
  BY <1>0 DEF SetMode, TypeOK, AbandonedStayStopped, history
<1>5. GatedHaveTask'
  BY <1>0 DEF SetMode, TypeOK, GatedHaveTask, history
<1>6. CompletedCountsRuns'
  <2>1. Running' = Running
    BY <1>0 DEF SetMode, TypeOK, Running, history
  <2>. QED BY <1>0, <2>1 DEF SetMode, CompletedCountsRuns, history
<1>. QED BY <1>1, <1>2, <1>3, <1>4, <1>5, <1>6 DEF IInv

LEMMA SetModeHaltsIInv ==
  ASSUME IInv, SetModeHalts
  PROVE  IInv'
<1>0. TypeOK /\ GatedHaveTask /\ GateHolds /\ LateDrivesLeave /\ AbandonedStayStopped
      /\ CompletedCountsRuns
  BY DEF IInv
<1>1. TypeOK'
  BY <1>0, EventType DEF SetModeHalts, TypeOK, history
<1>2. GateHolds'
  BY <1>0 DEF SetModeHalts, TypeOK, GateHolds, history
<1>3. LateDrivesLeave'
  BY <1>0 DEF SetModeHalts, TypeOK, LateDrivesLeave, GateHolds, history
<1>4. AbandonedStayStopped'
  BY <1>0 DEF SetModeHalts, TypeOK, AbandonedStayStopped, history
<1>5. GatedHaveTask'
  BY <1>0 DEF SetModeHalts, TypeOK, GatedHaveTask, history
<1>6. CompletedCountsRuns'
  <2>1. Running' = Running
    BY <1>0 DEF SetModeHalts, TypeOK, Running, history
  <2>. QED BY <1>0, <2>1 DEF SetModeHalts, CompletedCountsRuns, history
<1>. QED BY <1>1, <1>2, <1>3, <1>4, <1>5, <1>6 DEF IInv

LEMMA StopIInv ==
  ASSUME IInv, Stop
  PROVE  IInv'
<1>0. TypeOK /\ GatedHaveTask /\ GateHolds /\ LateDrivesLeave /\ AbandonedStayStopped
      /\ CompletedCountsRuns
  BY DEF IInv
<1>1. TypeOK'
  BY <1>0, EventType DEF Stop, TypeOK, history
<1>2. GateHolds'
  BY <1>0 DEF Stop, TypeOK, GateHolds, history
<1>3. LateDrivesLeave'
  BY <1>0 DEF Stop, TypeOK, LateDrivesLeave, GateHolds, history
<1>4. AbandonedStayStopped'
  BY <1>0 DEF Stop, TypeOK, AbandonedStayStopped, history
<1>5. GatedHaveTask'
  BY <1>0 DEF Stop, TypeOK, GatedHaveTask, history
<1>6. CompletedCountsRuns'
  <2>1. Running' = Running
    BY <1>0 DEF Stop, TypeOK, Running, history
  <2>. QED BY <1>0, <2>1 DEF Stop, CompletedCountsRuns, history
<1>. QED BY <1>1, <1>2, <1>3, <1>4, <1>5, <1>6 DEF IInv

LEMMA RestartIInv ==
  ASSUME IInv, Restart
  PROVE  IInv'
<1>0. TypeOK /\ GatedHaveTask /\ GateHolds /\ LateDrivesLeave /\ AbandonedStayStopped
      /\ CompletedCountsRuns
  BY DEF IInv
<1>1. TypeOK'
  <2>1. late' \in [Drives -> Nat]
    BY DEF Restart
  <2>2. /\ UNCHANGED <<mode, done, user, pc, queue, announced, begun, idles, modes, stops>>
        /\ stopped' = FALSE /\ taken' = FALSE /\ restarts' = restarts + 1
    BY DEF Restart
  <2>3. stopped' \in BOOLEAN /\ taken' \in BOOLEAN
    BY <2>2
  <2>4. restarts' \in Nat
    BY <1>0, <2>2 DEF TypeOK
  <2>5. UNCHANGED <<mode, done, user, pc, queue, announced, begun, idles, modes, stops>>
    BY <2>2
  <2>. QED BY <1>0, <2>1, <2>3, <2>4, <2>5 DEF TypeOK
<1>2. GateHolds'
  BY <1>0 DEF Restart, TypeOK, GateHolds, history
<1>3. LateDrivesLeave'
  BY <1>0 DEF Restart, TypeOK, LateDrivesLeave, GateHolds, history
<1>4. AbandonedStayStopped'
  BY <1>0 DEF Restart, TypeOK, AbandonedStayStopped, history
<1>5. GatedHaveTask'
  BY <1>0 DEF Restart, TypeOK, GatedHaveTask, history
<1>6. CompletedCountsRuns'
  <2>1. Running' = Running
    BY <1>0 DEF Restart, TypeOK, Running, history
  <2>. QED BY <1>0, <2>1 DEF Restart, CompletedCountsRuns, history
<1>. QED BY <1>1, <1>2, <1>3, <1>4, <1>5, <1>6 DEF IInv

LEMMA DriveIInv ==
  ASSUME IInv, NEW d \in Drives, NEW n \in 1..MaxQueue, Drive(d, n)
  PROVE  IInv'
<1>0. TypeOK /\ GatedHaveTask /\ GateHolds /\ LateDrivesLeave /\ AbandonedStayStopped
      /\ CompletedCountsRuns
  BY DEF IInv
<1>1. TypeOK'
  BY <1>0, EventType DEF Drive, TypeOK, history
<1>2. GateHolds'
  BY <1>0 DEF Drive, TypeOK, GateHolds, history
<1>3. LateDrivesLeave'
  BY <1>0 DEF Drive, TypeOK, LateDrivesLeave, GateHolds, history
<1>4. AbandonedStayStopped'
  BY <1>0 DEF Drive, TypeOK, AbandonedStayStopped, history
<1>5. GatedHaveTask'
  BY <1>0 DEF Drive, TypeOK, GatedHaveTask, history
<1>6. CompletedCountsRuns'
  <2>1. Running' = Running
    BY <1>0 DEF Drive, TypeOK, Running, history
  <2>. QED BY <1>0, <2>1 DEF Drive, CompletedCountsRuns, history
<1>. QED BY <1>1, <1>2, <1>3, <1>4, <1>5, <1>6 DEF IInv

LEMMA GateStoppedIInv ==
  ASSUME IInv, NEW d \in Drives, GateStopped(d)
  PROVE  IInv'
<1>0. TypeOK /\ GatedHaveTask /\ GateHolds /\ LateDrivesLeave /\ AbandonedStayStopped
      /\ CompletedCountsRuns
  BY DEF IInv
<1>1. TypeOK'
  BY <1>0, EventType DEF GateStopped, Goto, TypeOK, history
<1>2. GateHolds'
  BY <1>0 DEF GateStopped, Goto, TypeOK, GateHolds, history
<1>3. LateDrivesLeave'
  BY <1>0 DEF GateStopped, Goto, TypeOK, LateDrivesLeave, GateHolds, history
<1>4. AbandonedStayStopped'
  BY <1>0 DEF GateStopped, Goto, TypeOK, AbandonedStayStopped, history
<1>5. GatedHaveTask'
  BY <1>0 DEF GateStopped, Goto, TypeOK, GatedHaveTask, history
<1>6. CompletedCountsRuns'
  <2>1. Running' = Running
    BY <1>0 DEF GateStopped, Goto, TypeOK, Running, history
  <2>. QED BY <1>0, <2>1 DEF GateStopped, Goto, CompletedCountsRuns, history
<1>. QED BY <1>1, <1>2, <1>3, <1>4, <1>5, <1>6 DEF IInv

LEMMA GateModeIInv ==
  ASSUME IInv, NEW d \in Drives, GateMode(d)
  PROVE  IInv'
<1>0. TypeOK /\ GatedHaveTask /\ GateHolds /\ LateDrivesLeave /\ AbandonedStayStopped
      /\ CompletedCountsRuns
  BY DEF IInv
<1>1. TypeOK'
  <2>1. queue[d] - 1 \in Nat
    BY <1>0 DEF GateMode, TypeOK, GatedHaveTask
  <2>2. CASE mode = "Autonomous"
    <3>1. announced' \in [kind : {"none", "started", "halted", "idle"},
                        reason : {"none", "stopped", "paused"}]
      BY <2>2, EventType DEF GateMode
    <3>2. late' \in [Drives -> Nat] /\ begun' \in Nat
      BY <1>0, <2>2 DEF GateMode, TypeOK
    <3>3. queue' \in [Drives -> Nat]
      BY <1>0, <2>1, <2>2 DEF GateMode, TypeOK
    <3>. QED BY <1>0, <2>2, <3>1, <3>2, <3>3 DEF GateMode, Goto, TypeOK
  <2>3. CASE mode # "Autonomous"
    BY <1>0, <2>3 DEF GateMode, Goto, TypeOK
  <2>. QED BY <2>2, <2>3
<1>2. GateHolds'
  BY <1>0 DEF GateMode, Goto, TypeOK, GateHolds, history
<1>3. LateDrivesLeave'
  BY <1>0 DEF GateMode, Goto, TypeOK, LateDrivesLeave, GateHolds, history
<1>4. AbandonedStayStopped'
  BY <1>0 DEF GateMode, Goto, TypeOK, AbandonedStayStopped, history
<1>5. GatedHaveTask'
  BY <1>0 DEF GateMode, Goto, TypeOK, GatedHaveTask, history
<1>6. CompletedCountsRuns'
  <2>1. CASE mode = "Autonomous"
    <3>1. Running' = Running \cup {d} /\ d \notin Running
      BY <1>0, <2>1 DEF GateMode, Goto, TypeOK, Running
    <3>2. Cardinality(Running') = Cardinality(Running) + 1
      BY <3>1, RunningFinite, FS_AddElement
    <3>. QED BY <1>0, <2>1, <3>2, RunningFinite DEF GateMode, TypeOK, CompletedCountsRuns
  <2>2. CASE mode # "Autonomous"
    <3>1. Running' = Running
      BY <1>0, <2>2 DEF GateMode, Goto, TypeOK, Running
    <3>. QED BY <1>0, <2>2, <3>1 DEF GateMode, CompletedCountsRuns
  <2>. QED BY <2>1, <2>2
<1>. QED BY <1>1, <1>2, <1>3, <1>4, <1>5, <1>6 DEF IInv

LEMMA HaltIInv ==
  ASSUME IInv, NEW d \in Drives, Halt(d)
  PROVE  IInv'
<1>0. TypeOK /\ GatedHaveTask /\ GateHolds /\ LateDrivesLeave /\ AbandonedStayStopped
      /\ CompletedCountsRuns
  BY DEF IInv
<1>1. TypeOK'
  BY <1>0, EventType DEF Halt, Goto, TypeOK, history
<1>2. GateHolds'
  BY <1>0 DEF Halt, Goto, TypeOK, GateHolds, history
<1>3. LateDrivesLeave'
  BY <1>0 DEF Halt, Goto, TypeOK, LateDrivesLeave, GateHolds, history
<1>4. AbandonedStayStopped'
  BY <1>0 DEF Halt, Goto, TypeOK, AbandonedStayStopped, history
<1>5. GatedHaveTask'
  BY <1>0 DEF Halt, Goto, TypeOK, GatedHaveTask, history
<1>6. CompletedCountsRuns'
  <2>1. Running' = Running
    BY <1>0 DEF Halt, Goto, TypeOK, Running, history
  <2>. QED BY <1>0, <2>1 DEF Halt, Goto, CompletedCountsRuns, history
<1>. QED BY <1>1, <1>2, <1>3, <1>4, <1>5, <1>6 DEF IInv

LEMMA TaskStopsIInv ==
  ASSUME IInv, NEW d \in Drives, TaskStops(d)
  PROVE  IInv'
<1>0. TypeOK /\ GatedHaveTask /\ GateHolds /\ LateDrivesLeave /\ AbandonedStayStopped
      /\ CompletedCountsRuns
  BY DEF IInv
<1>1. TypeOK'
  BY <1>0, EventType DEF TaskStops, TypeOK, history
<1>2. GateHolds'
  BY <1>0 DEF TaskStops, TypeOK, GateHolds, history
<1>3. LateDrivesLeave'
  BY <1>0 DEF TaskStops, TypeOK, LateDrivesLeave, GateHolds, history
<1>4. AbandonedStayStopped'
  BY <1>0 DEF TaskStops, TypeOK, AbandonedStayStopped, history
<1>5. GatedHaveTask'
  BY <1>0 DEF TaskStops, TypeOK, GatedHaveTask, history
<1>6. CompletedCountsRuns'
  <2>1. Running' = Running
    BY <1>0 DEF TaskStops, TypeOK, Running, history
  <2>. QED BY <1>0, <2>1 DEF TaskStops, CompletedCountsRuns, history
<1>. QED BY <1>1, <1>2, <1>3, <1>4, <1>5, <1>6 DEF IInv

LEMMA TaskEndsIInv ==
  ASSUME IInv, NEW d \in Drives, TaskEnds(d)
  PROVE  IInv'
<1>0. TypeOK /\ GatedHaveTask /\ GateHolds /\ LateDrivesLeave /\ AbandonedStayStopped
      /\ CompletedCountsRuns
  BY DEF IInv
<1>1. TypeOK'
  BY <1>0, EventType DEF TaskEnds, Goto, TypeOK, history
<1>2. GateHolds'
  BY <1>0 DEF TaskEnds, Goto, TypeOK, GateHolds, history
<1>3. LateDrivesLeave'
  BY <1>0 DEF TaskEnds, Goto, TypeOK, LateDrivesLeave, GateHolds, history
<1>4. AbandonedStayStopped'
  BY <1>0 DEF TaskEnds, Goto, TypeOK, AbandonedStayStopped, history
<1>5. GatedHaveTask'
  BY <1>0 DEF TaskEnds, Goto, TypeOK, GatedHaveTask, history
<1>6. CompletedCountsRuns'
  <2>1. Running' = Running \ {d} /\ d \in Running
    BY <1>0 DEF TaskEnds, Goto, TypeOK, Running
  <2>2. Cardinality(Running') = Cardinality(Running) - 1
    BY <2>1, RunningFinite, FS_RemoveElement
  <2>. QED BY <1>0, <2>2, RunningFinite DEF TaskEnds, TypeOK, CompletedCountsRuns, history
<1>. QED BY <1>1, <1>2, <1>3, <1>4, <1>5, <1>6 DEF IInv

LEMMA CheckStoppedIInv ==
  ASSUME IInv, NEW d \in Drives, CheckStopped(d)
  PROVE  IInv'
<1>0. TypeOK /\ GatedHaveTask /\ GateHolds /\ LateDrivesLeave /\ AbandonedStayStopped
      /\ CompletedCountsRuns
  BY DEF IInv
<1>1. TypeOK'
  BY <1>0, EventType DEF CheckStopped, Goto, TypeOK, history
<1>2. GateHolds'
  BY <1>0 DEF CheckStopped, Goto, TypeOK, GateHolds, history
<1>3. LateDrivesLeave'
  BY <1>0 DEF CheckStopped, Goto, TypeOK, LateDrivesLeave, GateHolds, history
<1>4. AbandonedStayStopped'
  BY <1>0 DEF CheckStopped, Goto, TypeOK, AbandonedStayStopped, history
<1>5. GatedHaveTask'
  BY <1>0 DEF CheckStopped, Goto, TypeOK, GatedHaveTask, history
<1>6. CompletedCountsRuns'
  <2>1. Running' = Running
    BY <1>0 DEF CheckStopped, Goto, TypeOK, Running, history
  <2>. QED BY <1>0, <2>1 DEF CheckStopped, Goto, CompletedCountsRuns, history
<1>. QED BY <1>1, <1>2, <1>3, <1>4, <1>5, <1>6 DEF IInv

LEMMA BeatEndsIInv ==
  ASSUME IInv, NEW d \in Drives, BeatEnds(d)
  PROVE  IInv'
<1>0. TypeOK /\ GatedHaveTask /\ GateHolds /\ LateDrivesLeave /\ AbandonedStayStopped
      /\ CompletedCountsRuns
  BY DEF IInv
<1>1. TypeOK'
  BY <1>0, EventType DEF BeatEnds, Goto, TypeOK, history
<1>2. GateHolds'
  BY <1>0 DEF BeatEnds, Goto, TypeOK, GateHolds, history
<1>3. LateDrivesLeave'
  BY <1>0 DEF BeatEnds, Goto, TypeOK, LateDrivesLeave, GateHolds, history
<1>4. AbandonedStayStopped'
  BY <1>0 DEF BeatEnds, Goto, TypeOK, AbandonedStayStopped, history
<1>5. GatedHaveTask'
  BY <1>0 DEF BeatEnds, Goto, TypeOK, GatedHaveTask, history
<1>6. CompletedCountsRuns'
  <2>1. Running' = Running
    BY <1>0 DEF BeatEnds, Goto, TypeOK, Running, history
  <2>. QED BY <1>0, <2>1 DEF BeatEnds, Goto, CompletedCountsRuns, history
<1>. QED BY <1>1, <1>2, <1>3, <1>4, <1>5, <1>6 DEF IInv

LEMMA DrainedIInv ==
  ASSUME IInv, NEW d \in Drives, Drained(d)
  PROVE  IInv'
<1>0. TypeOK /\ GatedHaveTask /\ GateHolds /\ LateDrivesLeave /\ AbandonedStayStopped
      /\ CompletedCountsRuns
  BY DEF IInv
<1>1. TypeOK'
  BY <1>0, EventType DEF Drained, Goto, TypeOK, history
<1>2. GateHolds'
  BY <1>0 DEF Drained, Goto, TypeOK, GateHolds, history
<1>3. LateDrivesLeave'
  BY <1>0 DEF Drained, Goto, TypeOK, LateDrivesLeave, GateHolds, history
<1>4. AbandonedStayStopped'
  BY <1>0 DEF Drained, Goto, TypeOK, AbandonedStayStopped, history
<1>5. GatedHaveTask'
  BY <1>0 DEF Drained, Goto, TypeOK, GatedHaveTask, history
<1>6. CompletedCountsRuns'
  <2>1. Running' = Running
    BY <1>0 DEF Drained, Goto, TypeOK, Running, history
  <2>. QED BY <1>0, <2>1 DEF Drained, Goto, CompletedCountsRuns, history
<1>. QED BY <1>1, <1>2, <1>3, <1>4, <1>5, <1>6 DEF IInv

-----------------------------------------------------------------------------
(* The invariant holds in every state of every behaviour. *)
THEOREM Inductive == Spec => []IInv
<1>1. IInv /\ [Next]_vars => IInv'
  <2>. SUFFICES ASSUME IInv, [Next]_vars PROVE IInv'
    OBVIOUS
  <2>1. ASSUME NEW m \in AiModes, SetMode(m) PROVE IInv'
    BY <2>1, SetModeIInv
  <2>2. CASE SetModeHalts
    BY <2>2, SetModeHaltsIInv
  <2>3. CASE Stop
    BY <2>3, StopIInv
  <2>4. CASE Restart
    BY <2>4, RestartIInv
  <2>5. ASSUME NEW d \in Drives, Step(d) PROVE IInv'
    BY <2>5, GateStoppedIInv, GateModeIInv, HaltIInv, TaskEndsIInv, CheckStoppedIInv, BeatEndsIInv,
       DrainedIInv DEF Step
  <2>6. ASSUME NEW d \in Drives, TaskStops(d) PROVE IInv'
    BY <2>6, TaskStopsIInv
  <2>7. ASSUME NEW d \in Drives, NEW n \in 1..MaxQueue, Drive(d, n) PROVE IInv'
    BY <2>7, DriveIInv
  <2>8. CASE UNCHANGED vars
    BY <2>8 DEF vars, sharedVars, history, IInv, TypeOK, GatedHaveTask, GateHolds,
                LateDrivesLeave, AbandonedStayStopped, CompletedCountsRuns, Running
  <2>. QED BY <2>1, <2>2, <2>3, <2>4, <2>5, <2>6, <2>7, <2>8 DEF Next
<1>. QED BY InitIInv, <1>1, PTL DEF Spec

(* Type correctness. *)
THEOREM Typed == Spec => []TypeOK
<1>1. IInv => TypeOK
  BY DEF IInv
<1>. QED BY <1>1, Inductive, PTL

(* Taking the power back lands within one task of every drive, whatever    *)
(* the number of drives, the length of their queues and the modes the user *)
(* goes through before restart.                                            *)
THEOREM WithinOneTask == Spec => []LandsWithinOneTask
<1>1. IInv => LandsWithinOneTask
  BY DEF IInv, TypeOK, LateDrivesLeave, LandsWithinOneTask
<1>. QED BY <1>1, Inductive, PTL

(* As long as nobody restarts, idle is announced of an empty queue only. *)
THEOREM IdleDrained == Spec => []IdleMeansDrained
<1>1. IInv => IdleMeansDrained
  BY DEF IInv, AbandonedStayStopped, IdleMeansDrained
<1>. QED BY <1>1, Inductive, PTL

(* The running total is exact, however many drives count at once. *)
THEOREM CountExact == Spec => []CompletedCountsRuns
<1>1. IInv => CompletedCountsRuns
  BY DEF IInv
<1>. QED BY <1>1, Inductive, PTL
=============================================================================
