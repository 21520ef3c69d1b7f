---------------------------- MODULE SessionProofs ----------------------------
(***************************************************************************)
(* Proofs about Session, for every capacity of the bus and every bound: no *)
(* two tasks run together; until an event is lost the mode on the screen   *)
(* is the one in force, memory gets the target of each call and each       *)
(* decision the outcome of its own run; and the end of a run is heard.     *)
(***************************************************************************)
EXTENDS Session, SequenceTheorems, FiniteSetTheorems, TLAPS

Events == [kind : EventKinds, call : Nat, space : Spaces]

(* A task that runs, or that its drive may still begin. *)
Live(n) ==
  \/ run[n] \in {"spawned", "work", "tool", "settled"}
  \/ queue[n] = 1 /\ pc[n] \in {"next", "gate"}

Hears(events) == \E i \in 1..Len(events) : events[i].kind = "finished"

HearsOnce(events) ==
  \A i, j \in 1..Len(events) :
    events[i].kind = "finished" /\ events[j].kind = "finished" => i = j

(* A drive holds one task, and none once it has begun it; a task has a run *)
(* while its drive is at it, or has no drive.                              *)
QueueOfOne ==
  /\ pc \in [Tasks -> {"off", "next", "gate", "halt", "run", "check", "beat", "over", "ended"}]
  /\ queue \in [Tasks -> {0, 1}]
  /\ \A n \in Tasks : pc[n] = "gate" => queue[n] = 1
  /\ \A n \in Tasks : pc[n] \in {"run", "check", "beat"} => queue[n] = 0
  /\ \A n \in Tasks : run[n] \in {"spawned", "work", "tool", "settled"} => pc[n] \in {"off", "run"}
  /\ \A n \in Tasks : n > tasks => pc[n] = "off" /\ run[n] = "none"

(* The loop is busy from the submission of a task to the fold of the event *)
(* that ends its run, and that event is sent once, after the run.          *)
OneLive ==
  /\ \A n \in Tasks : Live(n) => busy
  /\ \A m, n \in Tasks : Live(m) /\ Live(n) => m = n
  /\ Hears(bus) => busy /\ \A n \in Tasks : ~Live(n)
  /\ HearsOnce(bus)

IInv == TypeOK /\ QueueOfOne /\ OneLive

-----------------------------------------------------------------------------
LEMMA EventTypes ==
  /\ \A kind \in EventKinds : Plain(kind) \in Events /\ Plain(kind).kind = kind
  /\ \A kind \in EventKinds, call \in Nat :
       Event(kind, call, NoSpace) \in Events /\ Event(kind, call, NoSpace).kind = kind
  /\ \A space \in Spaces : Changed(space) \in Events /\ Changed(space).kind = "workspace"
BY DEF Plain, Event, Changed, NoSpace, Events, Spaces, EventKinds, AiModes

LEMMA NextModeType == ASSUME NEW m PROVE NextMode(m) \in AiModes
BY DEF NextMode, AiModes

LEMMA TailHears ==
  ASSUME NEW events \in Seq(Events), events # <<>>
  PROVE  /\ Tail(events) \in Seq(Events)
         /\ Len(Tail(events)) = Len(events) - 1
         /\ Hears(Tail(events)) => Hears(events)
         /\ HearsOnce(events) => HearsOnce(Tail(events))
         /\ HearsOnce(events) /\ Head(events).kind = "finished" => ~Hears(Tail(events))
         /\ Hears(events) /\ Head(events).kind # "finished" => Hears(Tail(events))
         /\ Head(events) \in Events
         /\ Head(events).kind = "finished" => Hears(events)
<1>1. /\ Tail(events) \in Seq(Events)
      /\ Len(Tail(events)) = Len(events) - 1
      /\ Len(events) \in Nat \ {0}
      /\ \A i \in 1..Len(Tail(events)) : Tail(events)[i] = events[i + 1]
      /\ Head(events) = events[1]
      /\ events[1] \in Events
  BY HeadTailProperties, EmptySeq, LenProperties, ElementOfSeq
<1>2. Hears(Tail(events)) => Hears(events)
  BY <1>1 DEF Hears
<1>3. HearsOnce(events) => HearsOnce(Tail(events))
  <2>. SUFFICES ASSUME HearsOnce(events),
                       NEW i \in 1..Len(Tail(events)), NEW j \in 1..Len(Tail(events)),
                       Tail(events)[i].kind = "finished", Tail(events)[j].kind = "finished"
                PROVE  i = j
    BY DEF HearsOnce
  <2>1. i + 1 = j + 1
    BY <1>1 DEF HearsOnce
  <2>. QED BY <2>1
<1>4. HearsOnce(events) /\ Head(events).kind = "finished" => ~Hears(Tail(events))
  <2>. SUFFICES ASSUME HearsOnce(events), events[1].kind = "finished",
                       NEW i \in 1..Len(Tail(events)), Tail(events)[i].kind = "finished"
                PROVE  FALSE
    BY <1>1 DEF Hears
  <2>1. i + 1 = 1
    BY <1>1 DEF HearsOnce
  <2>. QED BY <2>1
<1>5. Hears(events) /\ Head(events).kind # "finished" => Hears(Tail(events))
  <2>. SUFFICES ASSUME events[1].kind # "finished",
                       NEW i \in 1..Len(events), events[i].kind = "finished"
                PROVE  Hears(Tail(events))
    BY <1>1 DEF Hears
  <2>1. i # 1 /\ i - 1 \in 1..Len(Tail(events)) /\ Tail(events)[i - 1] = events[i]
    BY <1>1
  <2>. QED BY <2>1 DEF Hears
<1>6. Head(events).kind = "finished" => Hears(events)
  BY <1>1 DEF Hears
<1>. QED BY <1>1, <1>2, <1>3, <1>4, <1>5, <1>6

LEMMA AppendHears ==
  ASSUME NEW events \in Seq(Events), NEW event \in Events
  PROVE  /\ Append(events, event) \in Seq(Events)
         /\ Len(Append(events, event)) = Len(events) + 1
         /\ event.kind # "finished" /\ Hears(Append(events, event)) => Hears(events)
         /\ event.kind # "finished" /\ HearsOnce(events) => HearsOnce(Append(events, event))
         /\ ~Hears(events) => HearsOnce(Append(events, event))
<1>1. /\ Append(events, event) \in Seq(Events)
      /\ Len(events) \in Nat
      /\ Len(Append(events, event)) = Len(events) + 1
      /\ \A i \in 1..Len(events) : Append(events, event)[i] = events[i]
      /\ Append(events, event)[Len(events) + 1] = event
  BY AppendProperties, LenProperties
<1>2. event.kind # "finished" /\ Hears(Append(events, event)) => Hears(events)
  BY <1>1 DEF Hears
<1>3. event.kind # "finished" /\ HearsOnce(events) => HearsOnce(Append(events, event))
  BY <1>1 DEF HearsOnce
<1>4. ~Hears(events) => HearsOnce(Append(events, event))
  BY <1>1 DEF Hears, HearsOnce
<1>. QED BY <1>1, <1>2, <1>3, <1>4

(* What an emission does to the bus. *)
LEMMA EmitToBus ==
  ASSUME NEW unread \in Seq(Events), Len(unread) <= Capacity, NEW event \in Events,
         lagged \in BOOLEAN, lost \in BOOLEAN, EmitTo(unread, event)
  PROVE  /\ bus' \in Seq(Events) /\ Len(bus') <= Capacity
         /\ lagged' \in BOOLEAN /\ lost' \in BOOLEAN
         /\ event.kind # "finished" /\ Hears(bus') => Hears(unread)
         /\ event.kind # "finished" /\ HearsOnce(unread) => HearsOnce(bus')
         /\ ~Hears(unread) => HearsOnce(bus')
<1>. Capacity \in Nat \ {0} /\ Len(unread) \in Nat
  BY SessionAssumption, LenProperties
<1>1. CASE Len(unread) < Capacity
  <2>1. bus' = Append(unread, event) /\ lagged' = lagged /\ lost' = lost
    BY <1>1 DEF EmitTo
  <2>. QED BY <1>1, <2>1, AppendHears
<1>2. CASE ~(Len(unread) < Capacity)
  <2>1. unread # <<>>
    BY <1>2, EmptySeq
  <2>2. bus' = Append(Tail(unread), event) /\ lagged' = TRUE /\ lost' = TRUE
    BY <1>2 DEF EmitTo
  <2>3. /\ Tail(unread) \in Seq(Events) /\ Len(Tail(unread)) = Len(unread) - 1
        /\ Hears(Tail(unread)) => Hears(unread)
        /\ HearsOnce(unread) => HearsOnce(Tail(unread))
    BY <2>1, TailHears
  <2>. HIDE DEF Hears, HearsOnce
  <2>4. /\ bus' \in Seq(Events)
        /\ Len(bus') = Len(Tail(unread)) + 1
        /\ event.kind # "finished" /\ Hears(bus') => Hears(Tail(unread))
        /\ event.kind # "finished" /\ HearsOnce(Tail(unread)) => HearsOnce(bus')
        /\ ~Hears(Tail(unread)) => HearsOnce(bus')
    BY <2>2, <2>3, AppendHears
  <2>. QED BY <2>2, <2>3, <2>4
<1>. QED BY <1>1, <1>2

-----------------------------------------------------------------------------
(* A step that brings no task to life keeps OneLive, as long as the bus    *)
(* hears of no end it had not heard of.                                    *)
LEMMA NothingNewLives ==
  ASSUME OneLive, busy' = busy, \A n \in Tasks : Live(n)' => Live(n),
         Hears(bus') => Hears(bus), HearsOnce(bus')
  PROVE  OneLive'
BY DEF OneLive

LEMMA BusKept ==
  ASSUME OneLive, TypeOK, bus' = bus
  PROVE  /\ Hears(bus') => Hears(bus)
         /\ HearsOnce(bus')
BY DEF OneLive

LEMMA RunStartsIInv ==
  ASSUME IInv, NEW n \in Tasks, RunStarts(n)
  PROVE  IInv'
<1>. TypeOK /\ QueueOfOne /\ OneLive
  BY DEF IInv
<1>1. Plain("started") \in Events /\ Plain("started").kind = "started"
  BY EventTypes DEF EventKinds, TypeOK, RunStarts
<1>2. /\ bus' \in Seq(Events) /\ Len(bus') <= Capacity
      /\ lagged' \in BOOLEAN /\ lost' \in BOOLEAN
      /\ Hears(bus') => Hears(bus)
      /\ HearsOnce(bus')
  BY <1>1, EmitToBus DEF RunStarts, Emit, TypeOK, Events, OneLive
<1>3. TypeOK'
  BY <1>2 DEF TypeOK, RunStarts, uiVars, Events
<1>4. QueueOfOne'
  BY DEF QueueOfOne, RunStarts, driveVars, TypeOK
<1>5. busy' = busy /\ \A m \in Tasks : Live(m)' => Live(m)
  BY DEF Live, RunStarts, driveVars, uiVars, agentVars, TypeOK
<1>6. OneLive'
  BY <1>2, <1>5, NothingNewLives
<1>. QED BY <1>3, <1>4, <1>6 DEF IInv

LEMMA RequestToolIInv ==
  ASSUME IInv, NEW n \in Tasks, RequestTool(n)
  PROVE  IInv'
<1>. TypeOK /\ QueueOfOne /\ OneLive
  BY DEF IInv
<1>1. /\ Event("requested", calls', NoSpace) \in Events
      /\ Event("requested", calls', NoSpace).kind = "requested"
  BY EventTypes DEF EventKinds, TypeOK, RequestTool
<1>2. /\ bus' \in Seq(Events) /\ Len(bus') <= Capacity
      /\ lagged' \in BOOLEAN /\ lost' \in BOOLEAN
      /\ Hears(bus') => Hears(bus)
      /\ HearsOnce(bus')
  BY <1>1, EmitToBus DEF RequestTool, Emit, TypeOK, Events, OneLive
<1>3. TypeOK'
  BY <1>2 DEF TypeOK, RequestTool, uiVars, Events
<1>4. QueueOfOne'
  BY DEF QueueOfOne, RequestTool, driveVars, agentVars, TypeOK
<1>5. busy' = busy /\ \A m \in Tasks : Live(m)' => Live(m)
  BY DEF Live, RequestTool, driveVars, uiVars, agentVars, TypeOK
<1>6. OneLive'
  BY <1>2, <1>5, NothingNewLives
<1>. QED BY <1>3, <1>4, <1>6 DEF IInv

LEMMA CompleteToolIInv ==
  ASSUME IInv, NEW n \in Tasks, CompleteTool(n)
  PROVE  IInv'
<1>. TypeOK /\ QueueOfOne /\ OneLive
  BY DEF IInv
<1>1. /\ Event("completed", calls, NoSpace) \in Events
      /\ Event("completed", calls, NoSpace).kind = "completed"
  BY EventTypes DEF EventKinds, TypeOK, CompleteTool
<1>2. /\ bus' \in Seq(Events) /\ Len(bus') <= Capacity
      /\ lagged' \in BOOLEAN /\ lost' \in BOOLEAN
      /\ Hears(bus') => Hears(bus)
      /\ HearsOnce(bus')
  BY <1>1, EmitToBus DEF CompleteTool, Emit, TypeOK, Events, OneLive
<1>3. TypeOK'
  BY <1>2 DEF TypeOK, CompleteTool, uiVars, Events
<1>4. QueueOfOne'
  BY DEF QueueOfOne, CompleteTool, driveVars, agentVars, TypeOK
<1>5. busy' = busy /\ \A m \in Tasks : Live(m)' => Live(m)
  BY DEF Live, CompleteTool, driveVars, uiVars, agentVars, TypeOK
<1>6. OneLive'
  BY <1>2, <1>5, NothingNewLives
<1>. QED BY <1>3, <1>4, <1>6 DEF IInv

LEMMA RunStreamsIInv ==
  ASSUME IInv, NEW n \in Tasks, RunStreams(n)
  PROVE  IInv'
<1>. TypeOK /\ QueueOfOne /\ OneLive
  BY DEF IInv
<1>1. Plain("state") \in Events /\ Plain("state").kind = "state"
  BY EventTypes DEF EventKinds, TypeOK, RunStreams
<1>2. /\ bus' \in Seq(Events) /\ Len(bus') <= Capacity
      /\ lagged' \in BOOLEAN /\ lost' \in BOOLEAN
      /\ Hears(bus') => Hears(bus)
      /\ HearsOnce(bus')
  BY <1>1, EmitToBus DEF RunStreams, Emit, TypeOK, Events, OneLive
<1>3. TypeOK'
  BY <1>2 DEF TypeOK, RunStreams, uiVars, agentVars, Events
<1>4. QueueOfOne'
  BY DEF QueueOfOne, RunStreams, driveVars, agentVars, TypeOK
<1>5. busy' = busy /\ \A m \in Tasks : Live(m)' => Live(m)
  BY DEF Live, RunStreams, driveVars, uiVars, agentVars, TypeOK
<1>6. OneLive'
  BY <1>2, <1>5, NothingNewLives
<1>. QED BY <1>3, <1>4, <1>6 DEF IInv

LEMMA RunSettlesIInv ==
  ASSUME IInv, NEW n \in Tasks, RunSettles(n)
  PROVE  IInv'
<1>. TypeOK /\ QueueOfOne /\ OneLive
  BY DEF IInv
<1>1. Event("state", n, NoSpace) \in Events /\ Event("state", n, NoSpace).kind = "state"
  BY EventTypes DEF EventKinds, Tasks
<1>2. /\ bus' \in Seq(Events) /\ Len(bus') <= Capacity
      /\ lagged' \in BOOLEAN /\ lost' \in BOOLEAN
      /\ Hears(bus') => Hears(bus)
      /\ HearsOnce(bus')
  BY <1>1, EmitToBus DEF RunSettles, Emit, TypeOK, Events, OneLive
<1>3. TypeOK'
  BY <1>2 DEF TypeOK, RunSettles, uiVars, Events
<1>4. QueueOfOne'
  BY DEF QueueOfOne, RunSettles, driveVars, TypeOK
<1>5. busy' = busy /\ \A m \in Tasks : Live(m)' => Live(m)
  BY DEF Live, RunSettles, driveVars, uiVars, TypeOK
<1>6. OneLive'
  BY <1>2, <1>5, NothingNewLives
<1>. QED BY <1>3, <1>4, <1>6 DEF IInv

(* The end of a run is what the loop hears. *)
LEMMA RunEndsIInv ==
  ASSUME IInv, NEW n \in Tasks, RunEnds(n)
  PROVE  IInv'
<1>. TypeOK /\ QueueOfOne /\ OneLive
  BY DEF IInv
<1>1. Event("finished", n, NoSpace) \in Events
  BY EventTypes DEF EventKinds, Tasks
<1>2. Live(n) /\ ~Hears(bus) /\ busy
  BY DEF Live, OneLive, RunEnds
<1>3. /\ bus' \in Seq(Events) /\ Len(bus') <= Capacity
      /\ lagged' \in BOOLEAN /\ lost' \in BOOLEAN
      /\ HearsOnce(bus')
  BY <1>1, <1>2, EmitToBus DEF RunEnds, Emit, TypeOK, Events
<1>4. TypeOK'
  BY <1>3 DEF TypeOK, RunEnds, uiVars, Events
<1>5. QueueOfOne'
  BY DEF QueueOfOne, RunEnds, driveVars, agentVars, TypeOK
<1>6. busy' = busy /\ \A m \in Tasks : ~Live(m)'
  <2>1. \A m \in Tasks : m # n => ~Live(m)
    BY <1>2 DEF OneLive
  <2>2. pc[n] \in {"off", "run"}
    BY DEF QueueOfOne, RunEnds
  <2>. QED BY <2>1, <2>2 DEF Live, RunEnds, driveVars, uiVars, TypeOK
<1>7. OneLive'
  BY <1>2, <1>3, <1>6 DEF OneLive
<1>. QED BY <1>4, <1>5, <1>7 DEF IInv

(* The task its drive was bound to begin comes to life. *)
LEMMA DriveBeginsIInv ==
  ASSUME IInv, NEW n \in Tasks, DriveBegins(n)
  PROVE  IInv'
<1>. TypeOK /\ QueueOfOne /\ OneLive
  BY DEF IInv
<1>1. Plain("background") \in Events /\ Plain("background").kind = "background"
  BY EventTypes DEF EventKinds
<1>2. /\ bus' \in Seq(Events) /\ Len(bus') <= Capacity
      /\ lagged' \in BOOLEAN /\ lost' \in BOOLEAN
      /\ Hears(bus') => Hears(bus)
      /\ HearsOnce(bus')
  <2>1. CASE mode = "Autonomous"
    BY <1>1, <2>1, EmitToBus DEF DriveBegins, Emit, TypeOK, Events, OneLive
  <2>2. CASE mode # "Autonomous"
    BY <2>2 DEF DriveBegins, busVars, TypeOK, Events, OneLive
  <2>. QED BY <2>1, <2>2
<1>3. TypeOK'
  BY <1>2 DEF TypeOK, DriveBegins, uiVars, Events
<1>4. /\ pc[n] = "gate" /\ queue[n] = 1
      /\ IF mode = "Autonomous"
         THEN /\ pc' = [pc EXCEPT ![n] = "run"] /\ queue' = [queue EXCEPT ![n] = 0]
              /\ run' = [run EXCEPT ![n] = "spawned"]
         ELSE pc' = [pc EXCEPT ![n] = "halt"] /\ queue' = queue /\ run' = run
      /\ tasks' = tasks /\ busy' = busy
  BY DEF DriveBegins, S!GateMode, S!Goto, QueueOfOne, uiVars
<1>5. QueueOfOne'
  <2>1. CASE mode = "Autonomous"
    <3>1. /\ pc' = [pc EXCEPT ![n] = "run"] /\ queue' = [queue EXCEPT ![n] = 0]
          /\ run' = [run EXCEPT ![n] = "spawned"] /\ tasks' = tasks
      BY <1>4, <2>1
    <3>2. ~(n > tasks)
      BY <1>4 DEF QueueOfOne
    <3>. QED BY <3>1, <3>2 DEF QueueOfOne, TypeOK
  <2>2. CASE mode # "Autonomous"
    <3>1. /\ pc' = [pc EXCEPT ![n] = "halt"] /\ queue' = queue /\ run' = run /\ tasks' = tasks
      BY <1>4, <2>2
    <3>. QED BY <1>4, <3>1 DEF QueueOfOne, TypeOK
  <2>. QED BY <2>1, <2>2
<1>6. busy' = busy /\ \A m \in Tasks : Live(m)' => Live(m)
  BY <1>4 DEF Live, QueueOfOne, TypeOK
<1>7. OneLive'
  BY <1>2, <1>6, NothingNewLives
<1>. QED BY <1>3, <1>5, <1>7 DEF IInv

LEMMA DriveHaltsIInv ==
  ASSUME IInv, NEW n \in Tasks, DriveHalts(n)
  PROVE  IInv'
<1>. TypeOK /\ QueueOfOne /\ OneLive
  BY DEF IInv
<1>1. Plain("halted") \in Events /\ Plain("halted").kind = "halted"
  BY EventTypes DEF EventKinds
<1>2. /\ bus' \in Seq(Events) /\ Len(bus') <= Capacity
      /\ lagged' \in BOOLEAN /\ lost' \in BOOLEAN
      /\ Hears(bus') => Hears(bus)
      /\ HearsOnce(bus')
  BY <1>1, EmitToBus DEF DriveHalts, Emit, TypeOK, Events, OneLive
<1>3. TypeOK'
  BY <1>2 DEF TypeOK, DriveHalts, uiVars, agentVars, Events
<1>4. /\ pc' = [pc EXCEPT ![n] = "ended"] /\ queue' = queue /\ run' = run
      /\ pc[n] \notin {"off", "run"}
      /\ tasks' = tasks /\ busy' = busy
  BY DEF DriveHalts, S!Halt, S!Goto, uiVars, agentVars
<1>5. QueueOfOne'
  BY <1>4 DEF QueueOfOne, TypeOK
<1>6. busy' = busy /\ \A m \in Tasks : Live(m)' => Live(m)
  BY <1>4 DEF Live, QueueOfOne, TypeOK
<1>7. OneLive'
  BY <1>2, <1>6, NothingNewLives
<1>. QED BY <1>3, <1>5, <1>7 DEF IInv

LEMMA DriveDrainedIInv ==
  ASSUME IInv, NEW n \in Tasks, DriveDrained(n)
  PROVE  IInv'
<1>. TypeOK /\ QueueOfOne /\ OneLive
  BY DEF IInv
<1>1. Plain("idle") \in Events /\ Plain("idle").kind = "idle"
  BY EventTypes DEF EventKinds
<1>2. /\ bus' \in Seq(Events) /\ Len(bus') <= Capacity
      /\ lagged' \in BOOLEAN /\ lost' \in BOOLEAN
      /\ Hears(bus') => Hears(bus)
      /\ HearsOnce(bus')
  <2>1. CASE ~stopped
    BY <1>1, <2>1, EmitToBus DEF DriveDrained, Emit, TypeOK, Events, OneLive
  <2>2. CASE stopped
    BY <2>2 DEF DriveDrained, busVars, TypeOK, Events, OneLive
  <2>. QED BY <2>1, <2>2
<1>3. TypeOK'
  BY <1>2 DEF TypeOK, DriveDrained, uiVars, agentVars, Events
<1>4. /\ pc' = [pc EXCEPT ![n] = "ended"] /\ queue' = queue /\ run' = run
      /\ pc[n] \notin {"off", "run"}
      /\ tasks' = tasks /\ busy' = busy
  BY DEF DriveDrained, S!Drained, S!Goto, uiVars, agentVars
<1>5. QueueOfOne'
  BY <1>4 DEF QueueOfOne, TypeOK
<1>6. busy' = busy /\ \A m \in Tasks : Live(m)' => Live(m)
  BY <1>4 DEF Live, QueueOfOne, TypeOK
<1>7. OneLive'
  BY <1>2, <1>6, NothingNewLives
<1>. QED BY <1>3, <1>5, <1>7 DEF IInv

LEMMA DriveRanIInv ==
  ASSUME IInv, NEW n \in Tasks, DriveRan(n)
  PROVE  IInv'
<1>. TypeOK /\ QueueOfOne /\ OneLive
  BY DEF IInv
<1>1. TypeOK'
  BY DEF TypeOK, DriveRan, uiVars, busVars, agentVars, history
<1>2. /\ pc' = [pc EXCEPT ![n] = "check"] /\ queue' = queue /\ run' = run
      /\ pc[n] = "run" /\ run[n] = "ended"
      /\ tasks' = tasks /\ busy' = busy /\ bus' = bus
  BY DEF DriveRan, S!TaskEnds, S!Goto, uiVars, agentVars, busVars, history
<1>3. QueueOfOne'
  BY <1>2 DEF QueueOfOne, TypeOK
<1>4. \A m \in Tasks : Live(m)' => Live(m)
  BY <1>2 DEF Live, QueueOfOne, TypeOK
<1>5. OneLive'
  <2>1. Hears(bus') => Hears(bus)
    BY <1>2, BusKept
  <2>2. HearsOnce(bus')
    BY <1>2, BusKept
  <2>. QED BY <1>2, <1>4, <2>1, <2>2, NothingNewLives
<1>. QED BY <1>1, <1>3, <1>5 DEF IInv

LEMMA DriveQuietlyIInv ==
  ASSUME IInv, NEW n \in Tasks, DriveQuietly(n)
  PROVE  IInv'
<1>. TypeOK /\ QueueOfOne /\ OneLive
  BY DEF IInv
<1>1. TypeOK'
  BY DEF TypeOK, DriveQuietly, uiVars, busVars, agentVars, history
<1>2. PICK place \in {"halt", "gate", "over", "beat", "next"} :
        /\ pc' = [pc EXCEPT ![n] = place]
        /\ queue' = queue /\ run' = run
        /\ tasks' = tasks /\ busy' = busy /\ bus' = bus
        /\ \/ pc[n] = "next" /\ queue[n] > 0 /\ place \in {"halt", "gate"}
           \/ pc[n] = "check" /\ place \in {"over", "beat"}
           \/ pc[n] = "beat" /\ place = "next"
  BY DEF DriveQuietly, S!GateStopped, S!CheckStopped, S!BeatEnds, S!Goto, uiVars, agentVars,
         busVars, history
<1>3. QueueOfOne'
  BY <1>2 DEF QueueOfOne, TypeOK
<1>4. \A m \in Tasks : Live(m)' => Live(m)
  BY <1>2 DEF Live, QueueOfOne, TypeOK
<1>5. OneLive'
  <2>1. Hears(bus') => Hears(bus)
    BY <1>2, BusKept
  <2>2. HearsOnce(bus')
    BY <1>2, BusKept
  <2>. QED BY <1>2, <1>4, <2>1, <2>2, NothingNewLives
<1>. QED BY <1>1, <1>3, <1>5 DEF IInv

LEMMA FoldLaggedIInv ==
  ASSUME IInv, FoldLagged
  PROVE  IInv'
<1>. TypeOK /\ QueueOfOne /\ OneLive
  BY DEF IInv
<1>1. TypeOK'
  BY NextModeType DEF TypeOK, FoldLagged, uiVars, busVars, agentVars, driveVars, history
<1>2. /\ pc' = pc /\ queue' = queue /\ run' = run
      /\ tasks' = tasks /\ busy' = busy /\ bus' = bus
  BY DEF FoldLagged, uiVars, busVars, agentVars, driveVars, history
<1>3. QueueOfOne'
  BY <1>2 DEF QueueOfOne, TypeOK
<1>4. \A m \in Tasks : Live(m)' => Live(m)
  BY <1>2 DEF Live
<1>5. OneLive'
  <2>1. Hears(bus') => Hears(bus)
    BY <1>2, BusKept
  <2>2. HearsOnce(bus')
    BY <1>2, BusKept
  <2>. QED BY <1>2, <1>4, <2>1, <2>2, NothingNewLives
<1>. QED BY <1>1, <1>3, <1>5 DEF IInv

LEMMA FoldEmptyIInv ==
  ASSUME IInv, FoldEmpty
  PROVE  IInv'
<1>. TypeOK /\ QueueOfOne /\ OneLive
  BY DEF IInv
<1>1. TypeOK'
  BY NextModeType DEF TypeOK, FoldEmpty, uiVars, busVars, agentVars, driveVars, history
<1>2. /\ pc' = pc /\ queue' = queue /\ run' = run
      /\ tasks' = tasks /\ busy' = busy /\ bus' = bus
  BY DEF FoldEmpty, uiVars, busVars, agentVars, driveVars, history
<1>3. QueueOfOne'
  BY <1>2 DEF QueueOfOne, TypeOK
<1>4. \A m \in Tasks : Live(m)' => Live(m)
  BY <1>2 DEF Live
<1>5. OneLive'
  <2>1. Hears(bus') => Hears(bus)
    BY <1>2, BusKept
  <2>2. HearsOnce(bus')
    BY <1>2, BusKept
  <2>. QED BY <1>2, <1>4, <2>1, <2>2, NothingNewLives
<1>. QED BY <1>1, <1>3, <1>5 DEF IInv

LEMMA NoInputIInv ==
  ASSUME IInv, NoInput
  PROVE  IInv'
<1>. TypeOK /\ QueueOfOne /\ OneLive
  BY DEF IInv
<1>1. TypeOK'
  BY NextModeType DEF TypeOK, NoInput, uiVars, busVars, agentVars, driveVars, history
<1>2. /\ pc' = pc /\ queue' = queue /\ run' = run
      /\ tasks' = tasks /\ busy' = busy /\ bus' = bus
  BY DEF NoInput, uiVars, busVars, agentVars, driveVars, history
<1>3. QueueOfOne'
  BY <1>2 DEF QueueOfOne, TypeOK
<1>4. \A m \in Tasks : Live(m)' => Live(m)
  BY <1>2 DEF Live
<1>5. OneLive'
  <2>1. Hears(bus') => Hears(bus)
    BY <1>2, BusKept
  <2>2. HearsOnce(bus')
    BY <1>2, BusKept
  <2>. QED BY <1>2, <1>4, <2>1, <2>2, NothingNewLives
<1>. QED BY <1>1, <1>3, <1>5 DEF IInv

LEMMA CycleModeIInv ==
  ASSUME IInv, CycleMode
  PROVE  IInv'
<1>. TypeOK /\ QueueOfOne /\ OneLive
  BY DEF IInv
<1>1. TypeOK'
  BY NextModeType DEF TypeOK, CycleMode, S!SetMode, Spaces, AiModes, NextMode, busVars, agentVars, history
<1>2. /\ pc' = pc /\ queue' = queue /\ run' = run
      /\ tasks' = tasks /\ busy' = busy /\ bus' = bus
  BY DEF CycleMode, S!SetMode, Spaces, AiModes, NextMode, busVars, agentVars, history
<1>3. QueueOfOne'
  BY <1>2 DEF QueueOfOne, TypeOK
<1>4. \A m \in Tasks : Live(m)' => Live(m)
  BY <1>2 DEF Live
<1>5. OneLive'
  <2>1. Hears(bus') => Hears(bus)
    BY <1>2, BusKept
  <2>2. HearsOnce(bus')
    BY <1>2, BusKept
  <2>. QED BY <1>2, <1>4, <2>1, <2>2, NothingNewLives
<1>. QED BY <1>1, <1>3, <1>5 DEF IInv

LEMMA CycleModeHaltsIInv ==
  ASSUME IInv, CycleModeHalts
  PROVE  IInv'
<1>. TypeOK /\ QueueOfOne /\ OneLive
  BY DEF IInv
<1>1. TypeOK'
  BY NextModeType DEF TypeOK, CycleModeHalts, S!SetModeHalts, uiVars, busVars, agentVars, driveVars, history
<1>2. /\ pc' = pc /\ queue' = queue /\ run' = run
      /\ tasks' = tasks /\ busy' = busy /\ bus' = bus
  BY DEF CycleModeHalts, S!SetModeHalts, uiVars, busVars, agentVars, driveVars, history
<1>3. QueueOfOne'
  BY <1>2 DEF QueueOfOne, TypeOK
<1>4. \A m \in Tasks : Live(m)' => Live(m)
  BY <1>2 DEF Live
<1>5. OneLive'
  <2>1. Hears(bus') => Hears(bus)
    BY <1>2, BusKept
  <2>2. HearsOnce(bus')
    BY <1>2, BusKept
  <2>. QED BY <1>2, <1>4, <2>1, <2>2, NothingNewLives
<1>. QED BY <1>1, <1>3, <1>5 DEF IInv

LEMMA StopBackgroundIInv ==
  ASSUME IInv, StopBackground
  PROVE  IInv'
<1>. TypeOK /\ QueueOfOne /\ OneLive
  BY DEF IInv
<1>1. TypeOK'
  BY NextModeType DEF TypeOK, StopBackground, S!Stop, uiVars, busVars, agentVars, driveVars, history
<1>2. /\ pc' = pc /\ queue' = queue /\ run' = run
      /\ tasks' = tasks /\ busy' = busy /\ bus' = bus
  BY DEF StopBackground, S!Stop, uiVars, busVars, agentVars, driveVars, history
<1>3. QueueOfOne'
  BY <1>2 DEF QueueOfOne, TypeOK
<1>4. \A m \in Tasks : Live(m)' => Live(m)
  BY <1>2 DEF Live
<1>5. OneLive'
  <2>1. Hears(bus') => Hears(bus)
    BY <1>2, BusKept
  <2>2. HearsOnce(bus')
    BY <1>2, BusKept
  <2>. QED BY <1>2, <1>4, <2>1, <2>2, NothingNewLives
<1>. QED BY <1>1, <1>3, <1>5 DEF IInv

LEMMA AnnounceModeIInv ==
  ASSUME IInv, AnnounceMode
  PROVE  IInv'
<1>. TypeOK /\ QueueOfOne /\ OneLive
  BY DEF IInv
<1>1. Changed(workspace) \in Events /\ Changed(workspace).kind = "workspace"
  BY EventTypes DEF TypeOK
<1>2. /\ bus' \in Seq(Events) /\ Len(bus') <= Capacity
      /\ lagged' \in BOOLEAN /\ lost' \in BOOLEAN
      /\ Hears(bus') => Hears(bus)
      /\ HearsOnce(bus')
  BY <1>1, EmitToBus DEF AnnounceMode, Emit, TypeOK, Events, OneLive
<1>3. TypeOK'
  BY <1>2 DEF TypeOK, AnnounceMode, agentVars, Events
<1>4. /\ pc' = pc /\ queue' = queue /\ run' = run
      /\ tasks' = tasks /\ busy' = busy
  BY DEF AnnounceMode, agentVars, driveVars
<1>5. QueueOfOne'
  BY <1>4 DEF QueueOfOne, TypeOK
<1>6. \A m \in Tasks : Live(m)' => Live(m)
  BY <1>4 DEF Live
<1>7. OneLive'
  BY <1>2, <1>4, <1>6, NothingNewLives
<1>. QED BY <1>3, <1>5, <1>7 DEF IInv

(* The task submitted is the only one alive: the loop was not busy. *)
LEMMA SubmitIInv ==
  ASSUME IInv, Submit
  PROVE  IInv'
<1>. TypeOK /\ QueueOfOne /\ OneLive
  BY DEF IInv
<1>. DEFINE t == tasks + 1
<1>1. /\ ~busy /\ busy' = TRUE /\ tasks' = t /\ t \in Tasks /\ tasks < t
      /\ bus' = bus /\ lagged' = lagged /\ lost' = lost
  BY SessionAssumption DEF Submit, Tasks, TypeOK, busVars
<1>2. /\ ~Hears(bus) /\ HearsOnce(bus)
      /\ \A m \in Tasks : ~Live(m)
  BY <1>1 DEF OneLive
<1>3. /\ pc[t] = "off" /\ run[t] = "none"
  BY <1>1 DEF QueueOfOne
<1>4. \/ /\ pc' = [pc EXCEPT ![t] = "next"] /\ queue' = [queue EXCEPT ![t] = 1] /\ run' = run
      \/ /\ pc' = pc /\ queue' = queue /\ run' = [run EXCEPT ![t] = "spawned"]
  BY <1>1 DEF Submit, S!Drive, driveVars
<1>5. TypeOK'
  <2>1. run' \in [Tasks -> {"none", "spawned", "work", "tool", "settled", "ended"}]
    BY <1>1, <1>4 DEF TypeOK
  <2>2. tasks' \in 0..MaxTasks
    BY <1>1 DEF Tasks, TypeOK
  <2>. QED BY <1>1, <2>1, <2>2 DEF TypeOK, Submit
<1>6. QueueOfOne'
  <2>. HIDE DEF t
  <2>1. t \in Tasks /\ tasks < t /\ tasks' = t
    BY <1>1
  <2>2. /\ tasks \in Nat /\ Tasks \subseteq Nat
        /\ run \in [Tasks -> {"none", "spawned", "work", "tool", "settled", "ended"}]
    BY DEF TypeOK, Tasks
  <2>3. \A m \in Tasks : m > t => m # t /\ m > tasks
    BY <2>1, <2>2
  <2>4. CASE pc' = [pc EXCEPT ![t] = "next"] /\ queue' = [queue EXCEPT ![t] = 1] /\ run' = run
    BY <1>3, <2>1, <2>2, <2>3, <2>4 DEF QueueOfOne
  <2>5. CASE pc' = pc /\ queue' = queue /\ run' = [run EXCEPT ![t] = "spawned"]
    BY <1>3, <2>1, <2>2, <2>3, <2>5 DEF QueueOfOne
  <2>. QED BY <1>4, <2>4, <2>5
<1>7. \A m \in Tasks : Live(m)' => m = t
  BY <1>1, <1>2, <1>3, <1>4 DEF Live, QueueOfOne, TypeOK
<1>8. OneLive'
  <2>1. ~Hears(bus') /\ HearsOnce(bus')
    BY <1>1, <1>2
  <2>. QED BY <1>1, <1>7, <2>1 DEF OneLive
<1>. QED BY <1>5, <1>6, <1>8 DEF IInv

(* The loop is free again only by the event that ends the one live run. *)
LEMMA FoldEventIInv ==
  ASSUME IInv, FoldEvent
  PROVE  IInv'
<1>. TypeOK /\ QueueOfOne /\ OneLive
  BY DEF IInv
<1>. DEFINE event == Head(bus)
<1>1. /\ bus \in Seq(Events) /\ bus # <<>> /\ Len(bus) <= Capacity /\ Len(bus) \in Nat
      /\ Capacity \in Nat
  BY SessionAssumption, LenProperties DEF FoldEvent, TypeOK, Events
<1>2. /\ event \in Events
      /\ event.kind \in EventKinds /\ event.call \in Nat /\ event.space \in Spaces
  BY <1>1, TailHears DEF Events
<1>3. /\ Tail(bus) \in Seq(Events) /\ Len(Tail(bus)) <= Capacity
      /\ Hears(Tail(bus)) => Hears(bus)
      /\ HearsOnce(Tail(bus))
  BY <1>1, TailHears DEF OneLive
<1>4. /\ pc' = pc /\ queue' = queue /\ run' = run /\ calls' = calls /\ repo' = repo
      /\ tasks' = tasks /\ phase' = phase /\ policy' = policy
      /\ busy' = IF event.kind = "started" THEN TRUE
                 ELSE IF event.kind = "finished" THEN FALSE ELSE busy
  BY DEF FoldEvent, agentVars, driveVars
<1>5. /\ workspace' \in Spaces /\ panel' \in {"status", "error"}
      /\ bus' \in Seq(Events) /\ Len(bus') <= Capacity
      /\ lagged' \in BOOLEAN /\ lost' \in BOOLEAN
      /\ Hears(bus') => Hears(Tail(bus))
      /\ HearsOnce(bus')
  <2>1. CASE event.kind = "finished"
    <3>1. RefreshGit(Tail(bus))
      BY <2>1 DEF FoldEvent
    <3>2. workspace' \in Spaces /\ panel' \in {"status", "error"}
      BY <3>1 DEF RefreshGit, TypeOK, Spaces
    <3>3. Changed(workspace') \in Events /\ Changed(workspace').kind = "workspace"
      BY <3>2, EventTypes
    <3>4. CASE repo
      <4>1. EmitTo(Tail(bus), Changed(workspace'))
        BY <3>1, <3>4 DEF RefreshGit
      <4>. QED BY <1>3, <3>2, <3>3, <4>1, EmitToBus DEF TypeOK
    <3>5. CASE ~repo
      <4>1. bus' = Tail(bus) /\ lagged' = lagged /\ lost' = lost
        BY <3>1, <3>5 DEF RefreshGit
      <4>. QED BY <1>3, <3>2, <4>1 DEF TypeOK
    <3>. QED BY <3>4, <3>5
  <2>2. CASE event.kind # "finished"
    <3>1. /\ workspace' = IF event.kind = "workspace" THEN event.space ELSE workspace
          /\ bus' = Tail(bus) /\ panel' = panel /\ lagged' = lagged /\ lost' = lost
      BY <2>2 DEF FoldEvent
    <3>. QED BY <1>2, <1>3, <3>1 DEF TypeOK
  <2>. QED BY <2>1, <2>2
<1>6. TypeOK'
  <2>1. busy' \in BOOLEAN
    BY <1>4 DEF TypeOK
  <2>2. background' \in BOOLEAN
    BY DEF FoldEvent, TypeOK
  <2>3. lastRequest' \in Nat
    BY <1>2 DEF FoldEvent, TypeOK
  <2>4. recorded' \subseteq [call : Nat, target : Nat]
    BY <1>2 DEF FoldEvent, TypeOK
  <2>5. agentState' \in Nat
    BY <1>2 DEF FoldEvent, TypeOK
  <2>6. decided' \subseteq [task : Nat, outcome : Nat]
    BY <1>2 DEF FoldEvent, TypeOK
  <2>. QED BY <1>4, <1>5, <2>1, <2>2, <2>3, <2>4, <2>5, <2>6 DEF TypeOK, Events
<1>7. QueueOfOne'
  BY <1>4 DEF QueueOfOne, TypeOK
<1>8. \A m \in Tasks : Live(m)' = Live(m)
  BY <1>4 DEF Live
<1>9. OneLive'
  <2>1. CASE event.kind = "finished"
    <3>1. ~Hears(Tail(bus)) /\ Hears(bus)
      BY <1>1, <2>1, TailHears DEF OneLive
    <3>2. ~Hears(bus') /\ \A m \in Tasks : ~Live(m)
      BY <1>5, <3>1 DEF OneLive
    <3>. QED BY <1>5, <1>8, <3>2 DEF OneLive
  <2>2. CASE event.kind # "finished"
    <3>1. busy => busy'
      BY <1>4, <2>2 DEF TypeOK
    <3>2. Hears(bus') => Hears(bus)
      BY <1>3, <1>5
    <3>. QED BY <1>5, <1>8, <3>1, <3>2 DEF OneLive
  <2>. QED BY <2>1, <2>2
<1>. QED BY <1>6, <1>7, <1>9 DEF IInv

LEMMA InitIInv == Init => IInv
<1>. SUFFICES ASSUME Init PROVE IInv
  OBVIOUS
<1>1. workspace \in Spaces
  BY DEF Init, Spaces, AiModes
<1>2. /\ bus \in Seq(Events) /\ Len(bus) <= Capacity
      /\ ~Hears(bus) /\ HearsOnce(bus)
  <2>1. CASE repo
    <3>1. Changed(workspace) \in Events /\ Changed(workspace).kind = "workspace"
      BY <1>1, EventTypes
    <3>2. bus = <<Changed(workspace)>>
      BY <2>1 DEF Init
    <3>. QED BY <3>1, <3>2, SessionAssumption DEF Hears, HearsOnce
  <2>2. CASE ~repo
    <3>1. bus = <<>>
      BY <2>2 DEF Init
    <3>. QED BY <3>1, SessionAssumption DEF Hears, HearsOnce
  <2>. QED BY <2>1, <2>2
<1>3. TypeOK
  <2>1. tasks \in 0..MaxTasks
    BY SessionAssumption DEF Init
  <2>. QED BY <1>1, <1>2, <2>1 DEF Init, TypeOK, AiModes, Events
<1>4. QueueOfOne
  BY DEF Init, S!Init, QueueOfOne
<1>5. OneLive
  <2>1. \A n \in Tasks : ~Live(n)
    BY DEF Init, S!Init, Live
  <2>. QED BY <1>2, <2>1 DEF OneLive
<1>. QED BY <1>3, <1>4, <1>5 DEF IInv

-----------------------------------------------------------------------------
(* The inductive invariant of the session. *)
THEOREM Inductive == Spec => []IInv
<1>1. IInv /\ [Next]_vars => IInv'
  <2>. SUFFICES ASSUME IInv, [Next]_vars PROVE IInv'
    OBVIOUS
  <2>1. CASE Turn
    BY <2>1, FoldEventIInv, FoldLaggedIInv, FoldEmptyIInv, NoInputIInv, SubmitIInv, CycleModeIInv,
       CycleModeHaltsIInv, AnnounceModeIInv, StopBackgroundIInv DEF Turn
  <2>2. ASSUME NEW n \in Tasks, RunStep(n) PROVE IInv'
    BY <2>2, RunStartsIInv, RequestToolIInv, CompleteToolIInv, RunStreamsIInv, RunSettlesIInv,
       RunEndsIInv DEF RunStep
  <2>3. ASSUME NEW n \in Tasks, DriveStep(n) PROVE IInv'
    BY <2>3, DriveBeginsIInv, DriveHaltsIInv, DriveRanIInv, DriveDrainedIInv, DriveQuietlyIInv
       DEF DriveStep
  <2>4. CASE UNCHANGED vars
    <3>1. /\ pc' = pc /\ queue' = queue /\ run' = run /\ tasks' = tasks
          /\ busy' = busy /\ bus' = bus
      BY <2>4 DEF vars, uiVars, busVars, agentVars, driveVars, history
    <3>2. TypeOK'
      BY <2>4 DEF IInv, TypeOK, vars, uiVars, busVars, agentVars, driveVars, history
    <3>3. QueueOfOne'
      BY <3>1 DEF IInv, QueueOfOne
    <3>4. OneLive'
      BY <3>1 DEF IInv, OneLive, Live
    <3>. QED BY <3>2, <3>3, <3>4 DEF IInv
  <2>. QED BY <2>1, <2>2, <2>3, <2>4 DEF Next
<1>. QED BY InitIInv, <1>1, PTL DEF Spec

(* Type correctness, the bound on the events the bus holds included. *)
THEOREM Typed == Spec => []TypeOK
<1>1. IInv => TypeOK
  BY DEF IInv
<1>. QED BY <1>1, Inductive, PTL

(* One run at a time, however many events are lost and however modes,      *)
(* stops, halts and beats cross: busy is only put back to free by the one  *)
(* event that ends the one run.                                            *)
THEOREM OneRun == Spec => []OneRunAtATime
<1>1. IInv => OneRunAtATime
  BY DEF IInv, OneLive, OneRunAtATime, Active, Live
<1>. QED BY <1>1, Inductive, PTL

-----------------------------------------------------------------------------
(* What the loop learns from the bus: each part below is inductive with    *)
(* IInv.  The places of the events on the bus count here, where IInv only  *)
(* asks whether the end of a run is among them.                            *)

(* Until an event is lost, the screen shows the mode in force, and so does *)
(* every workspace on the bus; none is left there when a key is handled.   *)
ModeKept ==
  /\ lagged => lost
  /\ ~lost =>
       /\ workspace.mode = policy
       /\ \A i \in 1..Len(bus) : bus[i].kind = "workspace" =>
            phase = "fold" /\ bus[i].space.mode = policy

(* The call of the last event of these kinds when the one at i is folded.  *)
Target(kinds, events, last, i, call) ==
  \/ /\ last = call
     /\ \A k \in 1..(i - 1) : events[k].kind \notin kinds
  \/ \E j \in 1..(i - 1) :
       /\ events[j].kind \in kinds /\ events[j].call = call
       /\ \A k \in (j + 1)..(i - 1) : events[k].kind \notin kinds

Requests == {"requested"}

(* Until an event is lost, a call completes as the last one requested.     *)
TargetsKept ==
  ~lost =>
    /\ \A record \in recorded : record.call = record.target
    /\ \A i \in 1..Len(bus) :
         bus[i].kind = "completed" => Target(Requests, bus, lastRequest, i, bus[i].call)
    /\ \A n \in Tasks : run[n] = "tool" => Target(Requests, bus, lastRequest, Len(bus) + 1, calls)

States == {"started", "state"}

(* Until an event is lost, a run ends with its outcome as the last state   *)
(* of the agent announced.                                                 *)
OutcomesKept ==
  ~lost =>
    /\ \A decision \in decided : decision.task = decision.outcome
    /\ \A i \in 1..Len(bus) :
         bus[i].kind = "finished" => Target(States, bus, agentState, i, bus[i].call)
    /\ \A n \in Tasks : run[n] = "settled" => Target(States, bus, agentState, Len(bus) + 1, n)

(* The start of a run is folded before its end, so the end leaves the loop *)
(* free for good.                                                          *)
Starts(events) == \E i \in 1..Len(events) : events[i].kind = "started"

StartsBeforeEnds(events) ==
  \A i, j \in 1..Len(events) : events[i].kind = "finished" /\ events[j].kind = "started" => j < i

StartsFirst == (Starts(bus) => busy) /\ StartsBeforeEnds(bus)

(* Between the end of a run and the next submission only the mode that is  *)
(* being announced and the drives that have not ended emit, one event      *)
(* each: the end stays within the newest events of the bus.                *)
EndWithin(events, room) ==
  \E i \in 1..Len(events) : events[i].kind = "finished" /\ Len(events) - i <= room

Unfinished == {n \in Tasks : pc[n] \notin {"off", "ended"}}

Owed == Cardinality(Unfinished) + (IF phase = "announce" THEN 1 ELSE 0)

Over == \A n \in 1..tasks : run[n] = "ended"

EndHeard ==
  /\ modes \in Nat /\ (phase = "announce" => modes > 0)
  /\ modes + tasks < Capacity /\ busy /\ Over => EndWithin(bus, modes + tasks - Owed)

-----------------------------------------------------------------------------
LEMMA BusType ==
  ASSUME TypeOK
  PROVE  /\ bus \in Seq(Events) /\ Len(bus) \in Nat
         /\ Len(bus) <= Capacity /\ Capacity \in Nat \ {0}
         /\ \A i \in 1..Len(bus) : bus[i] \in Events
BY SessionAssumption, LenProperties, ElementOfSeq DEF TypeOK, Events

LEMMA TailAt ==
  ASSUME NEW events \in Seq(Events), events # <<>>
  PROVE  /\ Tail(events) \in Seq(Events)
         /\ Len(events) \in Nat \ {0}
         /\ Len(Tail(events)) = Len(events) - 1
         /\ \A i \in 1..(Len(events) - 1) : Tail(events)[i] = events[i + 1]
         /\ Head(events) = events[1] /\ events[1] \in Events
BY HeadTailProperties, EmptySeq, LenProperties, ElementOfSeq

LEMMA AppendAt ==
  ASSUME NEW events \in Seq(Events), NEW event \in Events
  PROVE  /\ Append(events, event) \in Seq(Events)
         /\ Len(events) \in Nat
         /\ Len(Append(events, event)) = Len(events) + 1
         /\ \A i \in 1..Len(events) : Append(events, event)[i] = events[i]
         /\ Append(events, event)[Len(events) + 1] = event
BY AppendProperties, LenProperties

(* An emission puts the event last; it moves the others by one place when  *)
(* the bus is full, and only then says that one was lost.                  *)
LEMMA EmitAt ==
  ASSUME NEW unread \in Seq(Events), Len(unread) <= Capacity, NEW event \in Events,
         EmitTo(unread, event)
  PROVE  \E d \in {0, 1} :
           /\ Len(bus') = Len(unread) + 1 - d /\ Len(unread) \in Nat
           /\ \A i \in 1..(Len(unread) - d) : bus'[i] = unread[i + d]
           /\ bus'[Len(unread) + 1 - d] = event
           /\ d = 0 => bus' = Append(unread, event) /\ lagged' = lagged /\ lost' = lost
           /\ d = 1 => Len(unread) = Capacity /\ lost' = TRUE
<1>. Capacity \in Nat \ {0} /\ Len(unread) \in Nat
  BY SessionAssumption, LenProperties
<1>1. CASE Len(unread) < Capacity
  <2>1. bus' = Append(unread, event) /\ lagged' = lagged /\ lost' = lost
    BY <1>1 DEF EmitTo
  <2>2. /\ Len(bus') = Len(unread) + 1 - 0
        /\ \A i \in 1..(Len(unread) - 0) : bus'[i] = unread[i + 0]
        /\ bus'[Len(unread) + 1 - 0] = event
    BY <2>1, AppendAt
  <2>. QED BY <2>1, <2>2
<1>2. CASE ~(Len(unread) < Capacity)
  <2>1. unread # <<>>
    BY <1>2, EmptySeq
  <2>2. bus' = Append(Tail(unread), event) /\ lost' = TRUE
    BY <1>2 DEF EmitTo
  <2>3. /\ Tail(unread) \in Seq(Events) /\ Len(Tail(unread)) = Len(unread) - 1
        /\ \A i \in 1..(Len(unread) - 1) : Tail(unread)[i] = unread[i + 1]
    BY <2>1, TailAt
  <2>4. /\ Len(bus') = Len(unread) + 1 - 1
        /\ \A i \in 1..(Len(unread) - 1) : bus'[i] = unread[i + 1]
        /\ bus'[Len(unread) + 1 - 1] = event
    BY <2>2, <2>3, AppendAt
  <2>5. Len(unread) = Capacity
    BY <1>2
  <2>. WITNESS 1 \in {0, 1}
  <2>. QED BY <2>2, <2>4, <2>5
<1>. QED BY <1>1, <1>2

-----------------------------------------------------------------------------
(* The mode on the screen *)

LEMMA EmitModeKept ==
  ASSUME TypeOK, ModeKept, NEW event \in Events, event.kind # "workspace", Emit(event),
         workspace' = workspace, policy' = policy, phase' = phase
  PROVE  ModeKept'
<1>1. PICK d \in {0, 1} :
        /\ d = 0 => bus' = Append(bus, event) /\ lagged' = lagged /\ lost' = lost
        /\ d = 1 => lost' = TRUE
  BY BusType, EmitAt DEF Emit
<1>2. CASE lost'
  BY <1>2 DEF ModeKept
<1>3. CASE ~lost'
  <2>1. bus' = Append(bus, event) /\ lagged' = lagged /\ lost' = lost
    BY <1>1, <1>3
  <2>2. \A i \in 1..Len(bus') : bus'[i].kind = "workspace" => i \in 1..Len(bus) /\ bus'[i] = bus[i]
    BY <2>1, BusType, AppendAt
  <2>. QED BY <1>3, <2>1, <2>2 DEF ModeKept
<1>. QED BY <1>2, <1>3

LEMMA FoldModeKept ==
  ASSUME TypeOK, ModeKept, FoldEvent
  PROVE  ModeKept'
<1>. DEFINE event == Head(bus)
<1>1. /\ bus \in Seq(Events) /\ bus # <<>> /\ Len(bus) <= Capacity
      /\ policy' = policy /\ phase = "fold" /\ phase' = "fold"
  BY BusType DEF FoldEvent
<1>2. /\ Tail(bus) \in Seq(Events) /\ Len(bus) \in Nat \ {0} /\ Len(Tail(bus)) = Len(bus) - 1
      /\ \A i \in 1..(Len(bus) - 1) : Tail(bus)[i] = bus[i + 1]
      /\ event = bus[1]
  BY <1>1, TailAt
<1>3. ~lost => \A i \in 1..Len(Tail(bus)) : Tail(bus)[i].kind = "workspace" =>
                 Tail(bus)[i].space.mode = policy
  BY <1>2 DEF ModeKept
<1>4. CASE event.kind = "finished"
  <2>1. RefreshGit(Tail(bus))
    BY <1>4 DEF FoldEvent
  <2>2. workspace' \in Spaces /\ workspace'.mode = workspace.mode
    BY <2>1 DEF RefreshGit, TypeOK, Spaces
  <2>3. CASE repo
    <3>1. EmitTo(Tail(bus), Changed(workspace'))
      BY <2>1, <2>3 DEF RefreshGit
    <3>2. /\ Changed(workspace') \in Events
          /\ Changed(workspace').space.mode = workspace.mode
      BY <2>2, EventTypes DEF Changed, Event
    <3>0. Len(Tail(bus)) <= Capacity
      BY <1>1, <1>2, BusType
    <3>3. PICK d \in {0, 1} :
            /\ d = 0 => bus' = Append(Tail(bus), Changed(workspace'))
                        /\ lagged' = lagged /\ lost' = lost
            /\ d = 1 => lost' = TRUE
      BY <1>2, <3>0, <3>1, <3>2, EmitAt
    <3>4. CASE lost'
      BY <3>4 DEF ModeKept
    <3>5. CASE ~lost'
      <4>1. bus' = Append(Tail(bus), Changed(workspace')) /\ lagged' = lagged /\ lost' = lost
        BY <3>3, <3>5
      <4>2. \A i \in 1..Len(bus') :
              \/ i \in 1..Len(Tail(bus)) /\ bus'[i] = Tail(bus)[i]
              \/ bus'[i] = Changed(workspace')
        <5>1. /\ Len(bus') = Len(Tail(bus)) + 1 /\ Len(Tail(bus)) \in Nat
              /\ \A i \in 1..Len(Tail(bus)) : bus'[i] = Tail(bus)[i]
              /\ bus'[Len(Tail(bus)) + 1] = Changed(workspace')
          BY <1>2, <3>2, <4>1, AppendAt
        <5>. QED BY <5>1
      <4>. QED BY <1>1, <1>3, <2>2, <3>2, <3>5, <4>1, <4>2 DEF ModeKept
    <3>. QED BY <3>4, <3>5
  <2>4. CASE ~repo
    <3>1. bus' = Tail(bus) /\ lagged' = lagged /\ lost' = lost
      BY <2>1, <2>4 DEF RefreshGit
    <3>. QED BY <1>1, <1>3, <2>2, <3>1 DEF ModeKept
  <2>. QED BY <2>3, <2>4
<1>5. CASE event.kind # "finished"
  <2>1. /\ workspace' = IF event.kind = "workspace" THEN event.space ELSE workspace
        /\ bus' = Tail(bus) /\ lagged' = lagged /\ lost' = lost
    BY <1>5 DEF FoldEvent
  <2>2. ~lost => workspace'.mode = policy
    BY <1>2, <2>1 DEF ModeKept
  <2>. QED BY <1>1, <1>3, <2>1, <2>2 DEF ModeKept
<1>. QED BY <1>4, <1>5

LEMMA AnnounceModeKept ==
  ASSUME TypeOK, ModeKept, AnnounceMode
  PROVE  ModeKept'
<1>1. /\ Changed(workspace) \in Events /\ Changed(workspace).space = workspace
      /\ Emit(Changed(workspace))
      /\ workspace' = workspace /\ policy' = policy /\ phase' = "fold"
  BY EventTypes DEF AnnounceMode, TypeOK, Changed, Event
<1>2. PICK d \in {0, 1} :
        /\ d = 0 => bus' = Append(bus, Changed(workspace)) /\ lagged' = lagged /\ lost' = lost
        /\ d = 1 => lost' = TRUE
  BY <1>1, BusType, EmitAt DEF Emit
<1>3. CASE lost'
  BY <1>3 DEF ModeKept
<1>4. CASE ~lost'
  <2>1. bus' = Append(bus, Changed(workspace)) /\ lagged' = lagged /\ lost' = lost
    BY <1>2, <1>4
  <2>2. \A i \in 1..Len(bus') :
          (i \in 1..Len(bus) /\ bus'[i] = bus[i]) \/ bus'[i] = Changed(workspace)
    BY <1>1, <2>1, BusType, AppendAt
  <2>. QED BY <1>1, <1>4, <2>1, <2>2 DEF ModeKept
<1>. QED BY <1>3, <1>4

LEMMA ModeStep == TypeOK /\ ModeKept /\ [Next]_vars => ModeKept'
<1>. SUFFICES ASSUME TypeOK, ModeKept, [Next]_vars PROVE ModeKept'
  OBVIOUS
<1>1. CASE FoldEvent
  BY <1>1, FoldModeKept
<1>2. CASE AnnounceMode
  BY <1>2, AnnounceModeKept
<1>3. CASE CycleMode
  <2>1. /\ workspace'.mode = policy' /\ phase = "input"
        /\ bus' = bus /\ lagged' = lagged /\ lost' = lost
    BY <1>3 DEF CycleMode, busVars, history, TypeOK, Spaces
  <2>. QED BY <2>1 DEF ModeKept
<1>4. CASE FoldLagged
  BY <1>4 DEF FoldLagged, ModeKept, history
<1>5. CASE FoldEmpty
  <2>1. Len(bus) = 0
    BY <1>5 DEF FoldEmpty
  <2>. QED BY <1>5, <2>1 DEF FoldEmpty, ModeKept, busVars, history
<1>6. CASE NoInput \/ Submit \/ StopBackground
  <2>1. /\ phase' = "fold" /\ workspace' = workspace /\ policy' = policy
        /\ bus' = bus /\ lagged' = lagged /\ lost' = lost
    BY <1>6 DEF NoInput, Submit, StopBackground, busVars, history
  <2>. QED BY <2>1 DEF ModeKept
<1>7. CASE CycleModeHalts \/ UNCHANGED vars
  <2>1. UNCHANGED <<phase, workspace, policy, bus, lagged, lost>>
    BY <1>7 DEF CycleModeHalts, vars, uiVars, busVars, history
  <2>. QED BY <2>1 DEF ModeKept
<1>8. ASSUME NEW n \in Tasks, RunStep(n) PROVE ModeKept'
  <2>1. PICK event \in Events : event.kind # "workspace" /\ Emit(event)
    <3>1. calls \in Nat /\ (RequestTool(n) => calls' \in Nat)
      BY DEF TypeOK, RequestTool
    <3>2. {"started", "requested", "completed", "state", "finished"} \subseteq EventKinds
      BY DEF EventKinds
    <3>. QED BY <1>8, <3>1, <3>2, EventTypes
             DEF RunStep, RunStarts, RequestTool, CompleteTool, RunStreams, RunSettles, RunEnds,
                 Tasks
  <2>2. workspace' = workspace /\ policy' = policy /\ phase' = phase
    BY <1>8 DEF RunStep, RunStarts, RequestTool, CompleteTool, RunStreams, RunSettles, RunEnds, uiVars
  <2>. QED BY <2>1, <2>2, EmitModeKept
<1>9. ASSUME NEW n \in Tasks, DriveStep(n) PROVE ModeKept'
  <2>1. workspace' = workspace /\ policy' = policy /\ phase' = phase
    BY <1>9 DEF DriveStep, DriveBegins, DriveHalts, DriveRan, DriveDrained, DriveQuietly, uiVars
  <2>2. \/ UNCHANGED <<bus, lagged, lost>>
        \/ \E event \in Events : event.kind # "workspace" /\ Emit(event)
    <3>1. {"background", "halted", "idle"} \subseteq EventKinds
      BY DEF EventKinds
    <3>. QED BY <1>9, <3>1, EventTypes DEF DriveStep, DriveBegins, DriveHalts, DriveRan,
                DriveDrained, DriveQuietly, busVars, history
  <2>. QED BY <2>1, <2>2, EmitModeKept DEF ModeKept
<1>. QED BY <1>1, <1>2, <1>3, <1>4, <1>5, <1>6, <1>7, <1>8, <1>9 DEF Next, Turn

(* "The App holds the same value, not a copy": as long as no event is      *)
(* lost, the mode on the screen when a key is handled is the one in force, *)
(* whatever workspaces are still on their way (cycle_ai_mode, apply_event).*)
THEOREM ModeShown == Spec => []ModeShownIsInForce
<1>1. Init => ModeKept
  <2>. SUFFICES ASSUME Init PROVE ModeKept
    OBVIOUS
  <2>1. \A i \in 1..Len(bus) : bus[i].space.mode = "Mentor"
    BY DEF Init, Changed, Event
  <2>. QED BY <2>1 DEF Init, ModeKept
<1>2. ModeKept => ModeShownIsInForce
  BY DEF ModeKept, ModeShownIsInForce
<1>. QED BY <1>1, <1>2, ModeStep, Typed, PTL DEF Spec

-----------------------------------------------------------------------------
(* The target of a call *)

LEMMA TargetAppend ==
  ASSUME NEW kinds, NEW events \in Seq(Events), NEW event \in Events, NEW last \in Nat,
         NEW call \in Nat
  PROVE  /\ \A i \in 1..(Len(events) + 1) :
              Target(kinds, events, last, i, call) =>
                Target(kinds, Append(events, event), last, i, call)
         /\ event.kind \notin kinds /\ Target(kinds, events, last, Len(events) + 1, call) =>
              Target(kinds, Append(events, event), last, Len(Append(events, event)) + 1, call)
         /\ event.kind \in kinds =>
              Target(kinds, Append(events, event), last, Len(Append(events, event)) + 1, event.call)
<1>. DEFINE more == Append(events, event)
<1>1. /\ Len(events) \in Nat /\ Len(more) = Len(events) + 1
      /\ \A k \in 1..Len(events) : more[k] = events[k]
      /\ more[Len(events) + 1] = event
  BY AppendAt
<1>. HIDE DEF more
<1>2. ASSUME NEW i \in 1..(Len(events) + 1), Target(kinds, events, last, i, call)
      PROVE  Target(kinds, more, last, i, call)
  <2>1. 1..(i - 1) \subseteq 1..Len(events)
    BY <1>1
  <2>2. CASE last = call /\ \A k \in 1..(i - 1) : events[k].kind \notin kinds
    BY <1>1, <2>1, <2>2 DEF Target
  <2>3. ASSUME NEW j \in 1..(i - 1), events[j].kind \in kinds, events[j].call = call,
               \A k \in (j + 1)..(i - 1) : events[k].kind \notin kinds
        PROVE  Target(kinds, more, last, i, call)
    <3>1. more[j] = events[j] /\ \A k \in (j + 1)..(i - 1) : more[k] = events[k]
      BY <1>1, <2>1
    <3>. QED BY <2>3, <3>1 DEF Target
  <2>. QED BY <1>2, <2>2, <2>3 DEF Target
<1>3. ASSUME event.kind \notin kinds, Target(kinds, events, last, Len(events) + 1, call)
      PROVE  Target(kinds, more, last, Len(more) + 1, call)
  <2>1. Target(kinds, more, last, Len(events) + 1, call)
    BY <1>1, <1>2, <1>3
  <2>2. /\ Len(more) + 1 - 1 = Len(events) + 1 /\ Len(events) + 1 - 1 = Len(events)
        /\ \A k \in 1..(Len(events) + 1) : k \in 1..Len(events) \/ more[k].kind \notin kinds
    BY <1>1, <1>3
  <2>3. CASE last = call /\ \A k \in 1..Len(events) : more[k].kind \notin kinds
    BY <2>2, <2>3 DEF Target
  <2>4. ASSUME NEW j \in 1..Len(events), more[j].kind \in kinds, more[j].call = call,
               \A k \in (j + 1)..Len(events) : more[k].kind \notin kinds
        PROVE  Target(kinds, more, last, Len(more) + 1, call)
    <3>1. \A k \in (j + 1)..(Len(events) + 1) : more[k].kind \notin kinds
      BY <1>1, <1>3, <2>4
    <3>2. j \in 1..(Len(events) + 1)
      BY <1>1
    <3>. QED BY <2>2, <2>4, <3>1, <3>2 DEF Target
  <2>. QED BY <2>1, <2>2, <2>3, <2>4 DEF Target
<1>4. ASSUME event.kind \in kinds
      PROVE  Target(kinds, more, last, Len(more) + 1, event.call)
  <2>1. /\ Len(events) + 1 \in 1..(Len(more) + 1 - 1)
        /\ (Len(events) + 1 + 1)..(Len(more) + 1 - 1) = {}
    BY <1>1
  <2>. QED BY <1>1, <1>4, <2>1 DEF Target
<1>. QED BY <1>2, <1>3, <1>4 DEF more

(* The fold of the first event moves every other one place forward. *)
LEMMA TargetTail ==
  ASSUME NEW kinds, NEW events \in Seq(Events), events # <<>>, NEW last \in Nat, NEW call \in Nat,
         NEW i \in 1..Len(events), Target(kinds, events, last, i + 1, call)
  PROVE  Target(kinds, Tail(events),
                IF Head(events).kind \in kinds THEN Head(events).call ELSE last, i, call)
<1>. DEFINE rest == Tail(events)
            head == events[1]
            next == IF head.kind \in kinds THEN head.call ELSE last
<1>1. /\ Len(events) \in Nat \ {0} /\ Head(events) = head
      /\ \A k \in 1..(Len(events) - 1) : rest[k] = events[k + 1]
      /\ i + 1 - 1 = i
  BY TailAt
<1>2. \A k \in 1..(i - 1) : rest[k] = events[k + 1]
  BY <1>1
<1>. HIDE DEF rest, next
<1>3. ASSUME last = call, \A k \in 1..i : events[k].kind \notin kinds
      PROVE  Target(kinds, rest, next, i, call)
  <2>1. head.kind \notin kinds /\ \A k \in 1..(i - 1) : k + 1 \in 1..i
    BY <1>3
  <2>2. next = call
    BY <1>3, <2>1 DEF next
  <2>. QED BY <1>1, <1>2, <1>3, <2>1, <2>2 DEF Target, rest, next
<1>4. ASSUME NEW j \in 1..i, events[j].kind \in kinds, events[j].call = call,
             \A k \in (j + 1)..i : events[k].kind \notin kinds
      PROVE  Target(kinds, rest, next, i, call)
  <2>1. CASE j = 1
    <3>1. \A k \in 1..(i - 1) : k + 1 \in (j + 1)..i
      BY <2>1
    <3>2. next = call
      BY <1>4, <2>1 DEF next
    <3>. QED BY <1>2, <1>4, <3>1, <3>2 DEF Target
  <2>2. CASE j # 1
    <3>1. j - 1 \in 1..(i - 1) /\ rest[j - 1] = events[j]
      BY <1>2, <2>2
    <3>2. \A k \in (j - 1 + 1)..(i - 1) : rest[k] = events[k + 1] /\ k + 1 \in (j + 1)..i
      BY <1>2, <2>2
    <3>. QED BY <1>4, <3>1, <3>2 DEF Target
  <2>. QED BY <2>1, <2>2
<1>5. Target(kinds, rest, next, i, call)
  <2>1. \/ last = call /\ \A k \in 1..i : events[k].kind \notin kinds
        \/ \E j \in 1..i : /\ events[j].kind \in kinds /\ events[j].call = call
                          /\ \A k \in (j + 1)..i : events[k].kind \notin kinds
    BY <1>1 DEF Target
  <2>. QED BY <1>3, <1>4, <2>1
<1>. QED BY <1>1, <1>5 DEF rest, next

LEMMA EventCall == \A event \in Events : event.call \in Nat
BY DEF Events

LEMMA TargetFirst ==
  ASSUME NEW kinds, NEW events, NEW last, NEW call, Target(kinds, events, last, 1, call)
  PROVE  last = call
BY DEF Target

(* Events that neither request nor complete a call, and that begin none.   *)
LEMMA EmitTargetsKept ==
  ASSUME TypeOK, TargetsKept, NEW event \in Events, event.kind \notin {"requested", "completed"},
         Emit(event), lastRequest' = lastRequest, recorded' = recorded, calls' = calls,
         \A n \in Tasks : run'[n] = "tool" => run[n] = "tool"
  PROVE  TargetsKept'
<1>. /\ lastRequest \in Nat /\ calls \in Nat
  BY DEF TypeOK
<1>1. PICK d \in {0, 1} :
        /\ d = 0 => bus' = Append(bus, event) /\ lost' = lost
        /\ d = 1 => lost' = TRUE
  BY BusType, EmitAt DEF Emit
<1>2. CASE lost'
  BY <1>2 DEF TargetsKept
<1>3. CASE ~lost'
  <2>1. /\ bus' = Append(bus, event) /\ lost' = lost /\ bus \in Seq(Events)
        /\ Len(bus) \in Nat /\ Len(bus') = Len(bus) + 1
        /\ \A i \in 1..Len(bus) : bus'[i] = bus[i] /\ bus[i].call \in Nat
        /\ bus'[Len(bus) + 1] = event
    BY <1>1, <1>3, BusType, AppendAt, EventCall
  <2>2. ASSUME NEW i \in 1..Len(bus'), bus'[i].kind = "completed"
        PROVE  Target(Requests, bus', lastRequest', i, bus'[i].call)
    <3>1. i \in 1..Len(bus) /\ i \in 1..(Len(bus) + 1) /\ bus'[i] = bus[i]
      BY <2>1, <2>2
    <3>2. Target(Requests, bus, lastRequest, i, bus[i].call) /\ bus[i].call \in Nat
      BY <1>3, <2>1, <2>2, <3>1 DEF TargetsKept
    <3>. QED BY <2>1, <3>1, <3>2, TargetAppend DEF Requests
  <2>3. ASSUME NEW n \in Tasks, run'[n] = "tool"
        PROVE  Target(Requests, bus', lastRequest', Len(bus') + 1, calls')
    <3>1. Target(Requests, bus, lastRequest, Len(bus) + 1, calls)
      BY <1>3, <2>1, <2>3 DEF TargetsKept
    <3>. QED BY <2>1, <3>1, TargetAppend DEF Requests
  <2>. QED BY <1>3, <2>1, <2>2, <2>3 DEF TargetsKept
<1>. QED BY <1>2, <1>3

(* The run that asks is the only one alive, so no other waits for a call.  *)
LEMMA RequestTargetsKept ==
  ASSUME IInv, TargetsKept, NEW n \in Tasks, RequestTool(n)
  PROVE  TargetsKept'
<1>. DEFINE event == Event("requested", calls', NoSpace)
<1>1. /\ TypeOK /\ OneLive /\ lastRequest \in Nat /\ calls \in Nat /\ calls' \in Nat
      /\ event \in Events /\ event.kind = "requested" /\ event.call = calls'
      /\ Emit(event) /\ lastRequest' = lastRequest /\ recorded' = recorded
      /\ run' = [run EXCEPT ![n] = "tool"] /\ run[n] = "work"
  BY EventTypes DEF IInv, TypeOK, RequestTool, EventKinds, Event, uiVars
<1>. HIDE DEF event
<1>2. PICK d \in {0, 1} :
        /\ d = 0 => bus' = Append(bus, event) /\ lost' = lost
        /\ d = 1 => lost' = TRUE
  BY <1>1, BusType, EmitAt DEF Emit
<1>3. CASE lost'
  BY <1>3 DEF TargetsKept
<1>4. CASE ~lost'
  <2>1. /\ bus' = Append(bus, event) /\ lost' = lost /\ bus \in Seq(Events)
        /\ Len(bus) \in Nat /\ Len(bus') = Len(bus) + 1
        /\ \A i \in 1..Len(bus) : bus'[i] = bus[i] /\ bus[i].call \in Nat
        /\ bus'[Len(bus) + 1] = event
    BY <1>1, <1>2, <1>4, BusType, AppendAt, EventCall
  <2>2. ASSUME NEW i \in 1..Len(bus'), bus'[i].kind = "completed"
        PROVE  Target(Requests, bus', lastRequest', i, bus'[i].call)
    <3>1. i \in 1..Len(bus) /\ i \in 1..(Len(bus) + 1) /\ bus'[i] = bus[i]
      BY <1>1, <2>1, <2>2
    <3>2. Target(Requests, bus, lastRequest, i, bus[i].call) /\ bus[i].call \in Nat
      BY <1>4, <2>1, <2>2, <3>1 DEF TargetsKept
    <3>. QED BY <1>1, <2>1, <3>1, <3>2, TargetAppend DEF Requests
  <2>3. Target(Requests, bus', lastRequest', Len(bus') + 1, calls')
    BY <1>1, <2>1, TargetAppend DEF Requests
  <2>. QED BY <1>1, <1>4, <2>1, <2>2, <2>3 DEF TargetsKept
<1>. QED BY <1>3, <1>4

LEMMA CompleteTargetsKept ==
  ASSUME IInv, TargetsKept, NEW n \in Tasks, CompleteTool(n)
  PROVE  TargetsKept'
<1>. DEFINE event == Event("completed", calls, NoSpace)
<1>1. /\ TypeOK /\ OneLive /\ lastRequest \in Nat /\ calls \in Nat
      /\ event \in Events /\ event.kind = "completed" /\ event.call = calls
      /\ Emit(event) /\ lastRequest' = lastRequest /\ recorded' = recorded
      /\ run[n] = "tool" /\ calls' = calls
  BY EventTypes DEF IInv, TypeOK, CompleteTool, EventKinds, Event, uiVars
<1>2. \A m \in Tasks : run'[m] # "tool"
  BY <1>1 DEF CompleteTool, OneLive, Live, TypeOK
<1>. HIDE DEF event
<1>3. PICK d \in {0, 1} :
        /\ d = 0 => bus' = Append(bus, event) /\ lost' = lost
        /\ d = 1 => lost' = TRUE
  BY <1>1, BusType, EmitAt DEF Emit
<1>4. CASE lost'
  BY <1>4 DEF TargetsKept
<1>5. CASE ~lost'
  <2>1. /\ bus' = Append(bus, event) /\ lost' = lost /\ bus \in Seq(Events)
        /\ Len(bus) \in Nat /\ Len(bus') = Len(bus) + 1
        /\ \A i \in 1..Len(bus) : bus'[i] = bus[i] /\ bus[i].call \in Nat
        /\ bus'[Len(bus) + 1] = event
    BY <1>1, <1>3, <1>5, BusType, AppendAt, EventCall
  <2>2. ASSUME NEW i \in 1..Len(bus'), bus'[i].kind = "completed"
        PROVE  Target(Requests, bus', lastRequest', i, bus'[i].call)
    <3>1. CASE i \in 1..Len(bus)
      <4>1. Target(Requests, bus, lastRequest, i, bus[i].call) /\ bus[i].call \in Nat
            /\ bus'[i] = bus[i] /\ i \in 1..(Len(bus) + 1)
        BY <1>5, <2>1, <2>2, <3>1 DEF TargetsKept
      <4>. QED BY <1>1, <2>1, <4>1, TargetAppend DEF Requests
    <3>2. CASE i = Len(bus) + 1
      <4>1. /\ Target(Requests, bus, lastRequest, i, calls) /\ bus'[i].call = calls
            /\ i \in 1..(Len(bus) + 1)
        BY <1>1, <1>5, <2>1, <3>2 DEF TargetsKept
      <4>. QED BY <1>1, <2>1, <4>1, TargetAppend DEF Requests
    <3>. QED BY <2>1, <3>1, <3>2
  <2>. QED BY <1>1, <1>2, <1>5, <2>1, <2>2 DEF TargetsKept
<1>. QED BY <1>4, <1>5

(* The call that completes is recorded with its own target. *)
LEMMA FoldTargetsKept ==
  ASSUME TypeOK, TargetsKept, FoldEvent
  PROVE  TargetsKept'
<1>. DEFINE event == Head(bus)
            rest == Tail(bus)
<1>1. /\ bus \in Seq(Events) /\ bus # <<>> /\ Len(bus) <= Capacity /\ Capacity \in Nat
      /\ run' = run /\ calls' = calls /\ lastRequest \in Nat /\ calls \in Nat
      /\ lastRequest' = IF event.kind = "requested" THEN event.call ELSE lastRequest
      /\ recorded' = IF event.kind = "completed" /\ lastRequest # 0
                     THEN recorded \cup {[call |-> event.call, target |-> lastRequest]}
                     ELSE recorded
  BY BusType DEF FoldEvent, agentVars, TypeOK
<1>2. /\ rest \in Seq(Events) /\ Len(bus) \in Nat \ {0} /\ Len(rest) = Len(bus) - 1
      /\ Len(rest) \in Nat /\ Len(rest) <= Capacity
      /\ \A i \in 1..(Len(bus) - 1) : rest[i] = bus[i + 1]
      /\ event = bus[1] /\ event \in Events /\ event.call \in Nat /\ lastRequest' \in Nat
  BY <1>1, TailAt, EventCall
<1>3. PICK space \in Spaces :
        \/ bus' = rest /\ lost' = lost
        \/ lost' = TRUE
        \/ bus' = Append(rest, Changed(space)) /\ lost' = lost
  <2>1. CASE event.kind = "finished"
    <3>1. RefreshGit(rest)
      BY <2>1 DEF FoldEvent
    <3>2. workspace' \in Spaces
      BY <3>1 DEF RefreshGit, TypeOK, Spaces
    <3>. QED BY <3>1, <3>2 DEF RefreshGit, EmitTo
  <2>2. CASE event.kind # "finished"
    BY <2>2 DEF FoldEvent, TypeOK
  <2>. QED BY <2>1, <2>2
<1>. HIDE DEF event, rest
<1>4. CASE lost'
  BY <1>4 DEF TargetsKept
<1>5. CASE ~lost'
  <2>1. ~lost /\ (bus' = rest \/ bus' = Append(rest, Changed(space)))
    BY <1>3, <1>5
  <2>2. \A record \in recorded' : record.call = record.target
    <3>1. event.kind = "completed" => lastRequest = event.call
      <4>1. 1 \in 1..Len(bus)
        BY <1>2
      <4>. QED BY <1>2, <2>1, <4>1, TargetFirst DEF TargetsKept
    <3>. QED BY <1>1, <2>1, <3>1 DEF TargetsKept
  <2>3. ASSUME NEW i \in 1..Len(rest), rest[i].kind = "completed"
        PROVE  rest[i].call \in Nat /\ Target(Requests, rest, lastRequest', i, rest[i].call)
    <3>1. /\ i + 1 \in 1..Len(bus) /\ i \in 1..Len(bus)
          /\ rest[i] = bus[i + 1] /\ bus[i + 1] \in Events
      BY <1>1, <1>2, BusType
    <3>2. Target(Requests, bus, lastRequest, i + 1, bus[i + 1].call) /\ bus[i + 1].call \in Nat
      BY <2>1, <2>3, <3>1 DEF TargetsKept, Events
    <3>. QED BY <1>1, <3>1, <3>2, TargetTail DEF event, rest, Requests
  <2>4. ASSUME NEW n \in Tasks, run'[n] = "tool"
        PROVE  Target(Requests, rest, lastRequest', Len(rest) + 1, calls)
    <3>1. Target(Requests, bus, lastRequest, Len(bus) + 1, calls) /\ Len(bus) \in 1..Len(bus)
          /\ Len(rest) + 1 = Len(bus)
      BY <1>1, <1>2, <2>1, <2>4 DEF TargetsKept
    <3>. QED BY <1>1, <3>1, TargetTail DEF event, rest, Requests
  <2>5. CASE bus' = rest
    BY <1>1, <2>2, <2>3, <2>4, <2>5 DEF TargetsKept
  <2>6. CASE bus' = Append(rest, Changed(space))
    <3>1. Changed(space) \in Events /\ Changed(space).kind = "workspace"
      BY EventTypes
    <3>2. /\ Len(bus') = Len(rest) + 1
          /\ \A i \in 1..Len(rest) : bus'[i] = rest[i]
          /\ bus'[Len(rest) + 1] = Changed(space)
      BY <1>2, <2>6, <3>1, AppendAt
    <3>3. ASSUME NEW i \in 1..Len(bus'), bus'[i].kind = "completed"
          PROVE  Target(Requests, bus', lastRequest', i, bus'[i].call)
      <4>1. i \in 1..Len(rest) /\ i \in 1..(Len(rest) + 1) /\ bus'[i] = rest[i]
        BY <1>2, <3>1, <3>2, <3>3
      <4>2. rest[i].call \in Nat /\ Target(Requests, rest, lastRequest', i, rest[i].call)
        BY <2>3, <3>3, <4>1
      <4>. QED BY <1>2, <2>6, <3>1, <4>1, <4>2, TargetAppend DEF Requests
    <3>4. ASSUME NEW n \in Tasks, run'[n] = "tool"
          PROVE  Target(Requests, bus', lastRequest', Len(bus') + 1, calls')
      <4>1. Target(Requests, rest, lastRequest', Len(rest) + 1, calls)
        BY <2>4, <3>4
      <4>. QED BY <1>1, <1>2, <2>6, <3>1, <4>1, TargetAppend DEF Requests
    <3>. QED BY <2>2, <3>3, <3>4 DEF TargetsKept
  <2>. QED BY <2>1, <2>5, <2>6
<1>. QED BY <1>4, <1>5

LEMMA TargetsStep == IInv /\ TargetsKept /\ [Next]_vars => TargetsKept'
<1>. SUFFICES ASSUME IInv, TargetsKept, [Next]_vars PROVE TargetsKept'
  OBVIOUS
<1>0. TypeOK
  BY DEF IInv
<1>1. CASE FoldEvent
  BY <1>0, <1>1, FoldTargetsKept
<1>2. CASE \/ NoInput \/ CycleMode \/ CycleModeHalts \/ StopBackground
           \/ FoldLagged \/ FoldEmpty \/ UNCHANGED vars
  <2>1. UNCHANGED <<bus, lastRequest, recorded, lost, run, calls>>
    BY <1>2 DEF NoInput, CycleMode, CycleModeHalts, StopBackground, FoldLagged, FoldEmpty, vars,
                uiVars, busVars, agentVars, history
  <2>. QED BY <2>1 DEF TargetsKept
<1>3. CASE Submit
  <2>1. /\ UNCHANGED <<bus, lastRequest, recorded, lost, calls>>
        /\ run' = run \/ run' = [run EXCEPT ![tasks'] = "spawned"]
    BY <1>3 DEF Submit, busVars
  <2>2. \A n \in Tasks : run'[n] = "tool" => run[n] = "tool"
    BY <1>0, <2>1 DEF TypeOK
  <2>. QED BY <2>1, <2>2 DEF TargetsKept
<1>4. CASE AnnounceMode
  <2>1. /\ Changed(workspace) \in Events /\ Changed(workspace).kind = "workspace"
        /\ Emit(Changed(workspace))
        /\ UNCHANGED <<lastRequest, recorded, calls, run>>
    BY <1>0, <1>4, EventTypes DEF AnnounceMode, TypeOK, agentVars
  <2>. QED BY <1>0, <2>1, EmitTargetsKept
<1>5. ASSUME NEW n \in Tasks, RunStep(n) PROVE TargetsKept'
  <2>1. CASE RequestTool(n)
    BY <2>1, RequestTargetsKept
  <2>2. CASE CompleteTool(n)
    BY <2>2, CompleteTargetsKept
  <2>3. CASE RunStarts(n) \/ RunStreams(n) \/ RunSettles(n) \/ RunEnds(n)
    <3>1. PICK event \in Events : event.kind \notin {"requested", "completed"} /\ Emit(event)
      <4>1. {"started", "state", "finished"} \subseteq EventKinds
        BY DEF EventKinds
      <4>. QED BY <2>3, <4>1, EventTypes DEF RunStarts, RunStreams, RunSettles, RunEnds, Tasks
    <3>2. /\ UNCHANGED <<lastRequest, recorded, calls>>
          /\ \A m \in Tasks : run'[m] = "tool" => run[m] = "tool"
      BY <1>0, <2>3 DEF RunStarts, RunStreams, RunSettles, RunEnds, uiVars, agentVars, TypeOK
    <3>. QED BY <1>0, <3>1, <3>2, EmitTargetsKept
  <2>. QED BY <1>5, <2>1, <2>2, <2>3 DEF RunStep
<1>6. ASSUME NEW n \in Tasks, DriveStep(n) PROVE TargetsKept'
  <2>1. /\ UNCHANGED <<lastRequest, recorded, calls>>
        /\ \A m \in Tasks : run'[m] = "tool" => run[m] = "tool"
    BY <1>0, <1>6 DEF DriveStep, DriveBegins, DriveHalts, DriveRan, DriveDrained, DriveQuietly,
                      uiVars, agentVars, history, TypeOK
  <2>2. \/ UNCHANGED <<bus, lost>>
        \/ \E event \in Events : event.kind \notin {"requested", "completed"} /\ Emit(event)
    <3>1. {"background", "halted", "idle"} \subseteq EventKinds
      BY DEF EventKinds
    <3>. QED BY <1>6, <3>1, EventTypes DEF DriveStep, DriveBegins, DriveHalts, DriveRan,
                DriveDrained, DriveQuietly, busVars, history
  <2>3. CASE UNCHANGED <<bus, lost>>
    BY <2>1, <2>3 DEF TargetsKept
  <2>. QED BY <1>0, <2>1, <2>2, <2>3, EmitTargetsKept
<1>. QED BY <1>1, <1>2, <1>3, <1>4, <1>5, <1>6 DEF Next, Turn

(* As long as no event is lost, memory gets the target of each tool call   *)
(* that was made, over runs that end in the middle of one                  *)
(* (tui_loop::run's fold of ToolRequested and ToolCompleted).              *)
THEOREM Records == Spec => []RecordsMatch
<1>1. Init => TargetsKept
  <2>. SUFFICES ASSUME Init PROVE TargetsKept
    OBVIOUS
  <2>1. \A i \in 1..Len(bus) : bus[i].kind # "completed"
    BY DEF Init, Changed, Event
  <2>. QED BY <2>1 DEF Init, TargetsKept
<1>2. TargetsKept => RecordsMatch
  BY DEF TargetsKept, RecordsMatch
<1>. QED BY <1>1, <1>2, TargetsStep, Inductive, PTL DEF Spec

-----------------------------------------------------------------------------
(* The outcome of a decision *)

(* A run ends from where its outcome was announced, and while one is there *)
(* no other announces a state.                                             *)
LEMMA EmitOutcomesKept ==
  ASSUME TypeOK, OutcomesKept, NEW event \in Events, Emit(event),
         agentState' = agentState, decided' = decided,
         event.kind = "finished" => event.call \in Tasks /\ run[event.call] = "settled",
         \A m \in Tasks : run'[m] = "settled" =>
           IF event.kind \in States THEN event.call = m ELSE run[m] = "settled"
  PROVE  OutcomesKept'
<1>. /\ agentState \in Nat /\ Tasks \subseteq Nat
  BY DEF TypeOK, Tasks
<1>1. PICK d \in {0, 1} :
        /\ d = 0 => bus' = Append(bus, event) /\ lost' = lost
        /\ d = 1 => lost' = TRUE
  BY BusType, EmitAt DEF Emit
<1>2. CASE lost'
  BY <1>2 DEF OutcomesKept
<1>3. CASE ~lost'
  <2>1. /\ bus' = Append(bus, event) /\ lost' = lost /\ bus \in Seq(Events)
        /\ Len(bus) \in Nat /\ Len(bus') = Len(bus) + 1
        /\ \A i \in 1..Len(bus) : bus'[i] = bus[i] /\ bus[i].call \in Nat
        /\ bus'[Len(bus) + 1] = event
    BY <1>1, <1>3, BusType, AppendAt, EventCall
  <2>2. ASSUME NEW i \in 1..Len(bus'), bus'[i].kind = "finished"
        PROVE  Target(States, bus', agentState', i, bus'[i].call)
    <3>1. CASE i \in 1..Len(bus)
      <4>1. /\ Target(States, bus, agentState, i, bus[i].call) /\ bus[i].call \in Nat
            /\ bus'[i] = bus[i] /\ i \in 1..(Len(bus) + 1)
        BY <1>3, <2>1, <2>2, <3>1 DEF OutcomesKept
      <4>. QED BY <2>1, <4>1, TargetAppend
    <3>2. CASE i = Len(bus) + 1
      <4>1. event.kind = "finished" /\ bus'[i].call = event.call /\ event.call \in Nat
        BY <2>1, <2>2, <3>2
      <4>2. Target(States, bus, agentState, i, event.call) /\ i \in 1..(Len(bus) + 1)
        BY <1>3, <2>1, <3>2, <4>1 DEF OutcomesKept
      <4>. QED BY <2>1, <4>1, <4>2, TargetAppend
    <3>. QED BY <2>1, <3>1, <3>2
  <2>3. ASSUME NEW m \in Tasks, run'[m] = "settled"
        PROVE  Target(States, bus', agentState', Len(bus') + 1, m)
    <3>1. CASE event.kind \in States
      <4>1. event.call = m
        BY <2>3, <3>1
      <4>. QED BY <2>1, <3>1, <4>1, TargetAppend
    <3>2. CASE event.kind \notin States
      <4>1. Target(States, bus, agentState, Len(bus) + 1, m)
        BY <1>3, <2>1, <2>3, <3>2 DEF OutcomesKept
      <4>. QED BY <2>1, <3>2, <4>1, TargetAppend
    <3>. QED BY <3>1, <3>2
  <2>. QED BY <1>3, <2>1, <2>2, <2>3 DEF OutcomesKept
<1>. QED BY <1>2, <1>3

(* The decision is recorded with the outcome of its own run. *)
LEMMA FoldOutcomesKept ==
  ASSUME TypeOK, OutcomesKept, FoldEvent
  PROVE  OutcomesKept'
<1>. DEFINE event == Head(bus)
            rest == Tail(bus)
<1>1. /\ bus \in Seq(Events) /\ bus # <<>> /\ Len(bus) <= Capacity /\ Capacity \in Nat
      /\ run' = run /\ agentState \in Nat /\ Tasks \subseteq Nat
      /\ agentState' = IF event.kind \in States THEN event.call ELSE agentState
      /\ decided' = IF event.kind = "finished"
                    THEN decided \cup {[task |-> event.call, outcome |-> agentState]} ELSE decided
  BY BusType DEF FoldEvent, agentVars, TypeOK, Tasks, States
<1>2. /\ rest \in Seq(Events) /\ Len(bus) \in Nat \ {0} /\ Len(rest) = Len(bus) - 1
      /\ Len(rest) \in Nat /\ Len(rest) <= Capacity
      /\ \A i \in 1..(Len(bus) - 1) : rest[i] = bus[i + 1]
      /\ event = bus[1] /\ event \in Events /\ event.call \in Nat /\ agentState' \in Nat
  BY <1>1, TailAt, EventCall
<1>3. PICK space \in Spaces :
        \/ bus' = rest /\ lost' = lost
        \/ lost' = TRUE
        \/ bus' = Append(rest, Changed(space)) /\ lost' = lost
  <2>1. CASE event.kind = "finished"
    <3>1. RefreshGit(rest)
      BY <2>1 DEF FoldEvent
    <3>2. workspace' \in Spaces
      BY <3>1 DEF RefreshGit, TypeOK, Spaces
    <3>. QED BY <3>1, <3>2 DEF RefreshGit, EmitTo
  <2>2. CASE event.kind # "finished"
    BY <2>2 DEF FoldEvent, TypeOK
  <2>. QED BY <2>1, <2>2
<1>. HIDE DEF event, rest
<1>4. CASE lost'
  BY <1>4 DEF OutcomesKept
<1>5. CASE ~lost'
  <2>1. ~lost /\ (bus' = rest \/ bus' = Append(rest, Changed(space)))
    BY <1>3, <1>5
  <2>2. \A decision \in decided' : decision.task = decision.outcome
    <3>1. event.kind = "finished" => agentState = event.call
      <4>1. 1 \in 1..Len(bus)
        BY <1>2
      <4>. QED BY <1>2, <2>1, <4>1, TargetFirst DEF OutcomesKept
    <3>. QED BY <1>1, <2>1, <3>1 DEF OutcomesKept
  <2>3. ASSUME NEW i \in 1..Len(rest), rest[i].kind = "finished"
        PROVE  rest[i].call \in Nat /\ Target(States, rest, agentState', i, rest[i].call)
    <3>1. /\ i + 1 \in 1..Len(bus) /\ i \in 1..Len(bus)
          /\ rest[i] = bus[i + 1] /\ bus[i + 1] \in Events
      BY <1>1, <1>2, BusType
    <3>2. Target(States, bus, agentState, i + 1, bus[i + 1].call) /\ bus[i + 1].call \in Nat
      BY <2>1, <2>3, <3>1 DEF OutcomesKept, Events
    <3>. QED BY <1>1, <3>1, <3>2, TargetTail DEF event, rest
  <2>4. ASSUME NEW n \in Tasks, run'[n] = "settled"
        PROVE  Target(States, rest, agentState', Len(rest) + 1, n)
    <3>1. /\ Target(States, bus, agentState, Len(bus) + 1, n) /\ Len(bus) \in 1..Len(bus)
          /\ Len(rest) + 1 = Len(bus)
      BY <1>1, <1>2, <2>1, <2>4 DEF OutcomesKept
    <3>. QED BY <1>1, <3>1, TargetTail DEF event, rest
  <2>5. CASE bus' = rest
    BY <1>1, <2>2, <2>3, <2>4, <2>5 DEF OutcomesKept
  <2>6. CASE bus' = Append(rest, Changed(space))
    <3>1. /\ Changed(space) \in Events /\ Changed(space).kind = "workspace"
          /\ Changed(space).kind \notin States
      BY EventTypes DEF States
    <3>2. /\ Len(bus') = Len(rest) + 1
          /\ \A i \in 1..Len(rest) : bus'[i] = rest[i]
          /\ bus'[Len(rest) + 1] = Changed(space)
      BY <1>2, <2>6, <3>1, AppendAt
    <3>3. ASSUME NEW i \in 1..Len(bus'), bus'[i].kind = "finished"
          PROVE  Target(States, bus', agentState', i, bus'[i].call)
      <4>1. i \in 1..Len(rest) /\ i \in 1..(Len(rest) + 1) /\ bus'[i] = rest[i]
        BY <1>2, <3>1, <3>2, <3>3
      <4>2. rest[i].call \in Nat /\ Target(States, rest, agentState', i, rest[i].call)
        BY <2>3, <3>3, <4>1
      <4>. QED BY <1>2, <2>6, <3>1, <4>1, <4>2, TargetAppend
    <3>4. ASSUME NEW n \in Tasks, run'[n] = "settled"
          PROVE  Target(States, bus', agentState', Len(bus') + 1, n)
      <4>1. Target(States, rest, agentState', Len(rest) + 1, n) /\ n \in Nat
        BY <1>1, <2>4, <3>4
      <4>. QED BY <1>1, <1>2, <2>6, <3>1, <4>1, TargetAppend
    <3>. QED BY <2>2, <3>3, <3>4 DEF OutcomesKept
  <2>. QED BY <2>1, <2>5, <2>6
<1>. QED BY <1>4, <1>5

LEMMA RunOutcomesKept ==
  ASSUME IInv, OutcomesKept, NEW n \in Tasks, RunStep(n)
  PROVE  OutcomesKept'
<1>1. /\ TypeOK /\ n \in Nat /\ calls \in Nat
      /\ agentState' = agentState /\ decided' = decided
  BY DEF IInv, TypeOK, Tasks, RunStep, RunStarts, RequestTool, CompleteTool, RunStreams, RunSettles,
         RunEnds, uiVars
(* No other run is alive. *)
<1>2. \A m \in Tasks : m # n => run[m] # "settled"
  BY DEF RunStep, RunStarts, RequestTool, CompleteTool, RunStreams, RunSettles, RunEnds, IInv,
         OneLive, Live
<1>3. CASE RunStarts(n) \/ RunStreams(n)
  <2>1. PICK event \in Events : event.kind \in States /\ Emit(event)
    BY <1>3, EventTypes DEF RunStarts, RunStreams, EventKinds, States
  <2>2. \A m \in Tasks : run'[m] # "settled"
    BY <1>1, <1>2, <1>3 DEF RunStarts, RunStreams, agentVars, TypeOK
  <2>. QED BY <1>1, <2>1, <2>2, EmitOutcomesKept DEF States
<1>4. CASE RequestTool(n) \/ CompleteTool(n)
  <2>1. PICK event \in Events : event.kind \in {"requested", "completed"} /\ Emit(event)
    <3>1. calls' \in Nat \/ CompleteTool(n)
      BY <1>1, <1>4 DEF RequestTool
    <3>. QED BY <1>1, <1>4, <3>1, EventTypes DEF RequestTool, CompleteTool, EventKinds
  <2>2. \A m \in Tasks : run'[m] # "settled"
    BY <1>1, <1>2, <1>4 DEF RequestTool, CompleteTool, TypeOK
  <2>. QED BY <1>1, <2>1, <2>2, EmitOutcomesKept
<1>5. CASE RunSettles(n)
  <2>. DEFINE event == Event("state", n, NoSpace)
  <2>1. event \in Events /\ event.kind = "state" /\ event.call = n /\ Emit(event)
    BY <1>1, <1>5, EventTypes DEF RunSettles, EventKinds, Event
  <2>2. \A m \in Tasks : run'[m] = "settled" => m = n
    BY <1>1, <1>2, <1>5 DEF RunSettles, TypeOK
  <2>. HIDE DEF event
  <2>. QED BY <1>1, <2>1, <2>2, EmitOutcomesKept DEF States
<1>6. CASE RunEnds(n)
  <2>. DEFINE event == Event("finished", n, NoSpace)
  <2>1. event \in Events /\ event.kind = "finished" /\ event.call = n /\ Emit(event)
    BY <1>1, <1>6, EventTypes DEF RunEnds, EventKinds, Event
  <2>2. run[n] = "settled" /\ \A m \in Tasks : run'[m] # "settled"
    BY <1>1, <1>2, <1>6 DEF RunEnds, TypeOK
  <2>. HIDE DEF event
  <2>. QED BY <1>1, <2>1, <2>2, EmitOutcomesKept DEF States
<1>. QED BY <1>3, <1>4, <1>5, <1>6 DEF RunStep

LEMMA OutcomesStep == IInv /\ OutcomesKept /\ [Next]_vars => OutcomesKept'
<1>. SUFFICES ASSUME IInv, OutcomesKept, [Next]_vars PROVE OutcomesKept'
  OBVIOUS
<1>0. TypeOK
  BY DEF IInv
<1>1. CASE FoldEvent
  BY <1>0, <1>1, FoldOutcomesKept
<1>2. CASE \/ NoInput \/ CycleMode \/ CycleModeHalts \/ StopBackground
           \/ FoldLagged \/ FoldEmpty \/ UNCHANGED vars
  <2>1. UNCHANGED <<bus, agentState, decided, lost, run>>
    BY <1>2 DEF NoInput, CycleMode, CycleModeHalts, StopBackground, FoldLagged, FoldEmpty, vars,
                uiVars, busVars, agentVars, history
  <2>. QED BY <2>1 DEF OutcomesKept
<1>3. CASE Submit
  <2>1. /\ UNCHANGED <<bus, agentState, decided, lost>>
        /\ run' = run \/ run' = [run EXCEPT ![tasks'] = "spawned"]
    BY <1>3 DEF Submit, busVars
  <2>2. \A n \in Tasks : run'[n] = "settled" => run[n] = "settled"
    BY <1>0, <2>1 DEF TypeOK
  <2>. QED BY <2>1, <2>2 DEF OutcomesKept
<1>4. CASE AnnounceMode
  <2>1. /\ Changed(workspace) \in Events /\ Changed(workspace).kind = "workspace"
        /\ Emit(Changed(workspace))
        /\ UNCHANGED <<agentState, decided, run>>
    BY <1>0, <1>4, EventTypes DEF AnnounceMode, TypeOK, agentVars
  <2>. QED BY <1>0, <2>1, EmitOutcomesKept DEF States
<1>5. ASSUME NEW n \in Tasks, RunStep(n) PROVE OutcomesKept'
  BY <1>5, RunOutcomesKept
<1>6. ASSUME NEW n \in Tasks, DriveStep(n) PROVE OutcomesKept'
  <2>1. /\ UNCHANGED <<agentState, decided>>
        /\ \A m \in Tasks : run'[m] = "settled" => run[m] = "settled"
    BY <1>0, <1>6 DEF DriveStep, DriveBegins, DriveHalts, DriveRan, DriveDrained, DriveQuietly,
                      uiVars, agentVars, history, TypeOK
  <2>2. \/ UNCHANGED <<bus, lost>>
        \/ \E event \in Events : event.kind \in {"background", "halted", "idle"} /\ Emit(event)
    <3>1. {"background", "halted", "idle"} \subseteq EventKinds
      BY DEF EventKinds
    <3>. QED BY <1>6, <3>1, EventTypes DEF DriveStep, DriveBegins, DriveHalts, DriveRan,
                DriveDrained, DriveQuietly, busVars, history
  <2>3. CASE UNCHANGED <<bus, lost>>
    BY <2>1, <2>3 DEF OutcomesKept
  <2>. QED BY <1>0, <2>1, <2>2, <2>3, EmitOutcomesKept DEF States
<1>. QED BY <1>1, <1>2, <1>3, <1>4, <1>5, <1>6 DEF Next, Turn

(* As long as no event is lost, each decision is written to memory with    *)
(* the outcome of its own run, though the loop reads it off the state it   *)
(* draws (tui_loop::run's fold of AgentFinished, Agent::finish).           *)
THEOREM Outcomes == Spec => []OutcomesMatch
<1>1. Init => OutcomesKept
  <2>. SUFFICES ASSUME Init PROVE OutcomesKept
    OBVIOUS
  <2>1. \A i \in 1..Len(bus) : bus[i].kind # "finished"
    BY DEF Init, Changed, Event
  <2>. QED BY <2>1 DEF Init, OutcomesKept
<1>2. OutcomesKept => OutcomesMatch
  BY DEF OutcomesKept, OutcomesMatch
<1>. QED BY <1>1, <1>2, OutcomesStep, Inductive, PTL DEF Spec

-----------------------------------------------------------------------------
(* The end of a run *)

LEMMA TailStarts ==
  ASSUME NEW events \in Seq(Events), events # <<>>, StartsBeforeEnds(events)
  PROVE  /\ StartsBeforeEnds(Tail(events))
         /\ Starts(Tail(events)) => Starts(events)
         /\ Head(events).kind = "started" => Starts(events)
         /\ Head(events).kind = "finished" => ~Starts(Tail(events))
<1>1. /\ Len(events) \in Nat \ {0} /\ Head(events) = events[1]
      /\ Len(Tail(events)) = Len(events) - 1
      /\ \A i \in 1..Len(Tail(events)) : i + 1 \in 1..Len(events) /\ Tail(events)[i] = events[i + 1]
  BY TailAt
<1>2. StartsBeforeEnds(Tail(events))
  <2>. SUFFICES ASSUME NEW i \in 1..Len(Tail(events)), NEW j \in 1..Len(Tail(events)),
                       Tail(events)[i].kind = "finished", Tail(events)[j].kind = "started"
                PROVE  j < i
    BY DEF StartsBeforeEnds
  <2>1. j + 1 < i + 1
    BY <1>1 DEF StartsBeforeEnds
  <2>. QED BY <1>1, <2>1
<1>3. Starts(Tail(events)) => Starts(events)
  BY <1>1 DEF Starts
<1>4. Head(events).kind = "started" => Starts(events)
  BY <1>1 DEF Starts
<1>5. Head(events).kind = "finished" => ~Starts(Tail(events))
  <2>. SUFFICES ASSUME events[1].kind = "finished",
                       NEW j \in 1..Len(Tail(events)), Tail(events)[j].kind = "started"
                PROVE  FALSE
    BY <1>1 DEF Starts
  <2>1. j + 1 < 1
    BY <1>1 DEF StartsBeforeEnds
  <2>. QED BY <1>1, <2>1
<1>. QED BY <1>2, <1>3, <1>4, <1>5

LEMMA EmitStarts ==
  ASSUME NEW unread \in Seq(Events), Len(unread) <= Capacity, NEW event \in Events,
         EmitTo(unread, event), StartsBeforeEnds(unread),
         event.kind = "started" => ~Hears(unread)
  PROVE  /\ StartsBeforeEnds(bus')
         /\ Starts(bus') => Starts(unread) \/ event.kind = "started"
<1>1. PICK d \in {0, 1} :
        /\ Len(bus') = Len(unread) + 1 - d /\ Len(unread) \in Nat
        /\ \A i \in 1..(Len(unread) - d) : bus'[i] = unread[i + d]
        /\ bus'[Len(unread) + 1 - d] = event
        /\ d = 1 => Len(unread) = Capacity
  BY EmitAt
<1>2. \A i \in 1..Len(bus') :
        \/ i < Len(bus') /\ i + d \in 1..Len(unread) /\ bus'[i] = unread[i + d]
        \/ i = Len(bus') /\ bus'[i] = event
  BY <1>1, SessionAssumption
<1>3. ASSUME NEW i \in 1..Len(bus'), NEW j \in 1..Len(bus'),
             bus'[i].kind = "finished", bus'[j].kind = "started"
      PROVE  j < i
  <2>1. CASE i = Len(bus')
    <3>1. j # i
      BY <1>3
    <3>. QED BY <1>1, <2>1, <3>1, SessionAssumption
  <2>2. CASE i # Len(bus')
    <3>1. i + d \in 1..Len(unread) /\ unread[i + d].kind = "finished"
      BY <1>2, <1>3, <2>2
    <3>2. j + d \in 1..Len(unread) /\ unread[j + d].kind = "started"
      BY <1>2, <1>3, <3>1 DEF Hears
    <3>3. j + d < i + d
      BY <3>1, <3>2 DEF StartsBeforeEnds
    <3>. QED BY <3>3
  <2>. QED BY <2>1, <2>2
<1>4. Starts(bus') => Starts(unread) \/ event.kind = "started"
  BY <1>2 DEF Starts
<1>. QED BY <1>3, <1>4 DEF StartsBeforeEnds

LEMMA EmitStartsFirst ==
  ASSUME TypeOK, StartsFirst, NEW event \in Events, Emit(event), busy' = busy,
         event.kind = "started" => busy /\ ~Hears(bus)
  PROVE  StartsFirst'
<1>1. /\ StartsBeforeEnds(bus')
      /\ Starts(bus') => Starts(bus) \/ event.kind = "started"
  BY BusType, EmitStarts DEF Emit, StartsFirst
<1>. QED BY <1>1 DEF StartsFirst

LEMMA FoldStartsFirst ==
  ASSUME TypeOK, StartsFirst, FoldEvent
  PROVE  StartsFirst'
<1>. DEFINE event == Head(bus)
            rest == Tail(bus)
<1>1. /\ bus \in Seq(Events) /\ bus # <<>> /\ Len(bus) <= Capacity /\ Len(bus) \in Nat
      /\ busy' = IF event.kind = "started" THEN TRUE
                 ELSE IF event.kind = "finished" THEN FALSE ELSE busy
  BY BusType DEF FoldEvent
<1>2. rest \in Seq(Events) /\ Len(rest) <= Capacity
  BY <1>1, TailAt, SessionAssumption
<1>3. /\ StartsBeforeEnds(rest)
      /\ Starts(rest) => busy /\ event.kind # "finished"
  BY <1>1, TailStarts DEF StartsFirst
<1>. HIDE DEF event, rest
<1>4. Starts(rest) => busy'
  BY <1>1, <1>3
<1>5. bus' = rest \/ \E space \in Spaces : EmitTo(rest, Changed(space))
  <2>1. CASE event.kind = "finished"
    <3>1. RefreshGit(rest)
      BY <2>1 DEF FoldEvent, event, rest
    <3>2. workspace' \in Spaces
      BY <3>1 DEF RefreshGit, TypeOK, Spaces
    <3>. QED BY <3>1, <3>2 DEF RefreshGit
  <2>2. CASE event.kind # "finished"
    BY <2>2 DEF FoldEvent, event, rest
  <2>. QED BY <2>1, <2>2
<1>6. CASE bus' = rest
  BY <1>3, <1>4, <1>6 DEF StartsFirst
<1>7. ASSUME NEW space \in Spaces, EmitTo(rest, Changed(space)) PROVE StartsFirst'
  <2>1. Changed(space) \in Events /\ Changed(space).kind = "workspace"
    BY EventTypes
  <2>2. StartsBeforeEnds(bus') /\ (Starts(bus') => Starts(rest))
    BY <1>2, <1>3, <1>7, <2>1, EmitStarts
  <2>. QED BY <1>4, <2>2 DEF StartsFirst
<1>. QED BY <1>5, <1>6, <1>7

LEMMA StartsStep == IInv /\ StartsFirst /\ [Next]_vars => StartsFirst'
<1>. SUFFICES ASSUME IInv, StartsFirst, [Next]_vars PROVE StartsFirst'
  OBVIOUS
<1>0. TypeOK /\ OneLive
  BY DEF IInv
<1>1. CASE FoldEvent
  BY <1>0, <1>1, FoldStartsFirst
<1>2. CASE \/ NoInput \/ Submit \/ CycleMode \/ CycleModeHalts \/ StopBackground
           \/ FoldLagged \/ FoldEmpty \/ UNCHANGED vars
  <2>1. bus' = bus /\ (busy => busy')
    BY <1>2 DEF NoInput, Submit, CycleMode, CycleModeHalts, StopBackground, FoldLagged, FoldEmpty,
                vars, uiVars, busVars
  <2>. QED BY <2>1 DEF StartsFirst
<1>3. CASE AnnounceMode
  <2>1. /\ Changed(workspace) \in Events /\ Changed(workspace).kind = "workspace"
        /\ Emit(Changed(workspace)) /\ busy' = busy
    BY <1>0, <1>3, EventTypes DEF AnnounceMode, TypeOK
  <2>. QED BY <1>0, <2>1, EmitStartsFirst
<1>4. ASSUME NEW n \in Tasks, RunStep(n) PROVE StartsFirst'
  <2>1. calls \in Nat /\ (RequestTool(n) => calls' \in Nat)
    BY <1>0 DEF TypeOK, RequestTool
  <2>2. {"started", "requested", "completed", "state", "finished"} \subseteq EventKinds
    BY DEF EventKinds
  <2>3. busy /\ ~Hears(bus) /\ busy' = busy
    BY <1>0, <1>4 DEF RunStep, RunStarts, RequestTool, CompleteTool, RunStreams, RunSettles, RunEnds, OneLive,
                      Live, uiVars
  <2>4. \E event \in Events : Emit(event)
    BY <1>4, <2>1, <2>2, EventTypes
       DEF RunStep, RunStarts, RequestTool, CompleteTool, RunStreams, RunSettles, RunEnds, Tasks
  <2>. QED BY <1>0, <2>3, <2>4, EmitStartsFirst
<1>5. ASSUME NEW n \in Tasks, DriveStep(n) PROVE StartsFirst'
  <2>1. busy' = busy
    BY <1>5 DEF DriveStep, DriveBegins, DriveHalts, DriveRan, DriveDrained, DriveQuietly, uiVars
  <2>2. bus' = bus \/ \E event \in Events : event.kind # "started" /\ Emit(event)
    <3>1. {"background", "halted", "idle"} \subseteq EventKinds
      BY DEF EventKinds
    <3>. QED BY <1>5, <3>1, EventTypes DEF DriveStep, DriveBegins, DriveHalts, DriveRan,
                DriveDrained, DriveQuietly, busVars
  <2>3. CASE bus' = bus
    BY <2>1, <2>3 DEF StartsFirst
  <2>. QED BY <1>0, <2>1, <2>2, <2>3, EmitStartsFirst
<1>. QED BY <1>1, <1>2, <1>3, <1>4, <1>5 DEF Next, Turn

-----------------------------------------------------------------------------
(* An emission pushes the end of a run back by one place, and off the bus  *)
(* only if the whole bus was emitted after it.                             *)
LEMMA EmitEnd ==
  ASSUME TypeOK, NEW event \in Events, Emit(event), NEW room \in Int
  PROVE  /\ EndWithin(bus, room) /\ room + 1 < Capacity => EndWithin(bus', room + 1)
         /\ event.kind = "finished" /\ 0 <= room => EndWithin(bus', room)
<1>1. PICK d \in {0, 1} :
        /\ Len(bus') = Len(bus) + 1 - d /\ Len(bus) \in Nat
        /\ \A i \in 1..(Len(bus) - d) : bus'[i] = bus[i + d]
        /\ bus'[Len(bus) + 1 - d] = event
        /\ d = 1 => Len(bus) = Capacity
  BY BusType, EmitAt DEF Emit
<1>. Capacity \in Nat \ {0}
  BY SessionAssumption
<1>2. ASSUME EndWithin(bus, room), room + 1 < Capacity PROVE EndWithin(bus', room + 1)
  <2>1. PICK i \in 1..Len(bus) : bus[i].kind = "finished" /\ Len(bus) - i <= room
    BY <1>2 DEF EndWithin
  <2>2. i - d \in 1..Len(bus') /\ bus'[i - d] = bus[i]
    BY <1>1, <1>2, <2>1
  <2>3. Len(bus') - (i - d) <= room + 1
    BY <1>1, <2>1
  <2>. QED BY <2>1, <2>2, <2>3 DEF EndWithin
<1>3. ASSUME event.kind = "finished", 0 <= room PROVE EndWithin(bus', room)
  <2>1. /\ Len(bus') \in 1..Len(bus') /\ bus'[Len(bus')] = event
        /\ Len(bus') - Len(bus') <= room
    BY <1>1, <1>3
  <2>. QED BY <1>3, <2>1 DEF EndWithin
<1>. QED BY <1>2, <1>3

LEMMA WiderEnd ==
  ASSUME TypeOK, NEW room \in Int, NEW wider \in Int, room <= wider, EndWithin(bus, room)
  PROVE  EndWithin(bus, wider)
BY BusType DEF EndWithin

(* Every drive is of a task that was submitted. *)
LEMMA OwedBounds ==
  ASSUME IInv, EndHeard
  PROVE  /\ IsFiniteSet(Unfinished) /\ Cardinality(Unfinished) \in Nat
         /\ Cardinality(Unfinished) <= tasks
         /\ Owed \in Nat /\ Owed <= modes + tasks /\ modes \in Nat /\ tasks \in Nat
<1>1. tasks \in Nat /\ modes \in Nat /\ Tasks \subseteq Nat /\ \A n \in Tasks : n >= 1
  BY DEF IInv, TypeOK, EndHeard, Tasks
<1>2. Unfinished \subseteq 1..tasks
  <2>. SUFFICES ASSUME NEW n \in Unfinished PROVE n \in 1..tasks
    OBVIOUS
  <2>1. n \in Tasks /\ ~(n > tasks)
    BY DEF Unfinished, IInv, QueueOfOne
  <2>2. n \in Nat /\ n >= 1
    BY <1>1, <2>1
  <2>. QED BY <1>1, <2>1, <2>2
<1>3. IsFiniteSet(1..tasks) /\ Cardinality(1..tasks) = tasks
  BY <1>1, FS_Interval
<1>4. /\ IsFiniteSet(Unfinished) /\ Cardinality(Unfinished) \in Nat
      /\ Cardinality(Unfinished) <= tasks
  BY <1>2, <1>3, FS_Subset, FS_CardinalityType
<1>. QED BY <1>1, <1>4 DEF Owed, EndHeard

(* A drive that ends has no more to emit. *)
LEMMA DriveEnds ==
  ASSUME IInv, EndHeard, NEW n \in Tasks, pc[n] \notin {"off", "ended"},
         pc' = [pc EXCEPT ![n] = "ended"], phase' = phase
  PROVE  Owed' = Owed - 1 /\ Owed >= 1
<1>1. pc \in [Tasks -> {"off", "next", "gate", "halt", "run", "check", "beat", "over", "ended"}]
  BY DEF IInv, QueueOfOne
<1>2. Unfinished' = Unfinished \ {n} /\ n \in Unfinished
  BY <1>1 DEF Unfinished
<1>3. Cardinality(Unfinished') = Cardinality(Unfinished) - 1 /\ Cardinality(Unfinished) \in Nat
      /\ Cardinality(Unfinished') \in Nat
  BY <1>2, OwedBounds, FS_RemoveElement, FS_CardinalityType
<1>. QED BY <1>3 DEF Owed

LEMMA DriveGoesOn ==
  ASSUME IInv, NEW n \in Tasks, pc[n] \notin {"off", "ended"}, phase' = phase,
         NEW place \in {"gate", "halt", "run", "check", "over", "beat", "next"},
         pc' = [pc EXCEPT ![n] = place]
  PROVE  Owed' = Owed
<1>1. Unfinished' = Unfinished
  BY DEF IInv, QueueOfOne, Unfinished
<1>. QED BY <1>1 DEF Owed

(* An event was owed and is emitted. *)
LEMMA OwedEmitted ==
  ASSUME IInv, EndHeard, NEW event \in Events, Emit(event), Owed' = Owed - 1, Owed >= 1,
         UNCHANGED <<modes, tasks, busy, run>>, phase' = "announce" => phase = "announce"
  PROVE  EndHeard'
<1>1. Owed \in Nat /\ modes \in Nat /\ tasks \in Nat /\ Capacity \in Nat \ {0} /\ TypeOK
  BY OwedBounds, SessionAssumption DEF IInv
<1>2. ASSUME modes + tasks < Capacity, busy, Over
      PROVE  EndWithin(bus', modes + tasks - (Owed - 1))
  <2>1. EndWithin(bus, modes + tasks - Owed)
    BY <1>2 DEF EndHeard
  <2>2. /\ modes + tasks - Owed \in Int /\ modes + tasks - Owed + 1 < Capacity
        /\ modes + tasks - (Owed - 1) = modes + tasks - Owed + 1
    BY <1>1, <1>2
  <2>. QED BY <1>1, <2>1, <2>2, EmitEnd
<1>3. Over' <=> Over
  BY DEF Over
<1>. QED BY <1>1, <1>2, <1>3 DEF EndHeard

(* Nothing the bus or the count of events owed depends on moves. *)
LEMMA EndUndisturbed ==
  ASSUME IInv, EndHeard, UNCHANGED <<modes, tasks, busy, run, bus>>, Owed' = Owed,
         phase' = "announce" => phase = "announce"
  PROVE  EndHeard'
BY DEF EndHeard, Over

(* A run that has not ended needs no end on the bus. *)
LEMMA RunNotOver ==
  ASSUME IInv, EndHeard, UNCHANGED <<modes, phase>>, NEW n \in 1..tasks', run'[n] # "ended"
  PROVE  EndHeard'
BY DEF EndHeard, Over

LEMMA RunEndHeard ==
  ASSUME IInv, EndHeard, NEW n \in Tasks, RunStep(n)
  PROVE  EndHeard'
<1>1. /\ UNCHANGED <<phase, modes, tasks, pc, busy>> /\ tasks \in Nat /\ n \in 1..tasks
  BY DEF RunStep, RunStarts, RequestTool, CompleteTool, RunStreams, RunSettles, RunEnds, uiVars, driveVars,
         IInv, TypeOK, QueueOfOne, Tasks
<1>2. CASE RunEnds(n)
  <2>1. /\ Event("finished", n, NoSpace) \in Events
        /\ Event("finished", n, NoSpace).kind = "finished"
        /\ Emit(Event("finished", n, NoSpace))
    BY <1>2, EventTypes DEF RunEnds, EventKinds, Tasks
  <2>2. modes + tasks - Owed \in Int /\ 0 <= modes + tasks - Owed
    BY OwedBounds
  <2>3. EndWithin(bus', modes + tasks - Owed)
    BY <2>1, <2>2, EmitEnd DEF IInv
  <2>4. Owed' = Owed
    BY <1>1 DEF Owed, Unfinished
  <2>. QED BY <1>1, <2>3, <2>4 DEF EndHeard
<1>3. CASE \/ RunStarts(n) \/ RequestTool(n) \/ CompleteTool(n) \/ RunStreams(n)
           \/ RunSettles(n)
  <2>1. run'[n] # "ended"
    BY <1>3 DEF RunStarts, RequestTool, CompleteTool, RunStreams, RunSettles, agentVars, IInv,
                TypeOK
  <2>. QED BY <1>1, <2>1, RunNotOver
<1>. QED BY <1>2, <1>3 DEF RunStep

LEMMA DriveEndHeard ==
  ASSUME IInv, EndHeard, NEW n \in Tasks, DriveStep(n)
  PROVE  EndHeard'
<1>1. /\ UNCHANGED <<phase, modes, tasks, busy>> /\ tasks \in Nat
      /\ Owed \in Nat /\ Cardinality(Unfinished) \in Nat
  BY OwedBounds DEF DriveStep, DriveBegins, DriveHalts, DriveRan, DriveDrained, DriveQuietly, uiVars,
         history, S!GateMode, S!Halt, S!TaskEnds, S!Drained, S!GateStopped, S!CheckStopped,
         S!BeatEnds, S!history
<1>2. CASE DriveBegins(n) /\ mode = "Autonomous"
  <2>1. n \in Nat /\ n >= 1 /\ ~(n > tasks)
    BY <1>2 DEF DriveBegins, S!GateMode, IInv, QueueOfOne, Tasks
  <2>2. run' = [run EXCEPT ![n] = "spawned"]
    BY <1>2 DEF DriveBegins
  <2>3. n \in 1..tasks' /\ run'[n] # "ended"
    BY <1>1, <2>1, <2>2 DEF IInv, TypeOK
  <2>. QED BY <1>1, <2>3, RunNotOver
<1>3. CASE (DriveBegins(n) /\ mode # "Autonomous") \/ DriveRan(n) \/ DriveQuietly(n)
  <2>1. UNCHANGED <<bus, run>>
    BY <1>3 DEF DriveBegins, DriveRan, DriveQuietly, busVars, agentVars
  <2>2. PICK place \in {"gate", "halt", "run", "check", "over", "beat", "next"} :
          pc' = [pc EXCEPT ![n] = place] /\ pc[n] \notin {"off", "ended"}
    BY <1>3 DEF DriveBegins, DriveRan, DriveQuietly, S!GateMode, S!TaskEnds, S!GateStopped,
                S!CheckStopped, S!BeatEnds, S!Goto
  <2>3. Owed' = Owed
    BY <1>1, <2>2, DriveGoesOn
  <2>. QED BY <1>1, <2>1, <2>3, EndUndisturbed
<1>4. CASE DriveHalts(n) \/ DriveDrained(n)
  <2>1. /\ pc' = [pc EXCEPT ![n] = "ended"] /\ pc[n] \notin {"off", "ended"} /\ run' = run
    BY <1>4 DEF DriveHalts, DriveDrained, S!Halt, S!Drained, S!Goto, agentVars
  <2>2. Owed' = Owed - 1 /\ Owed >= 1
    BY <1>1, <2>1, DriveEnds
  <2>4. CASE \E event \in Events : Emit(event)
    BY <1>1, <2>1, <2>2, <2>4, OwedEmitted
  <2>5. CASE bus' = bus
    <3>1. Over' <=> Over
      BY <1>1, <2>1 DEF Over
    <3>2. modes \in Nat /\ TypeOK
      BY DEF EndHeard, IInv
    <3>3. EndWithin(bus, modes + tasks - Owed) => EndWithin(bus', modes + tasks - (Owed - 1))
      BY <1>1, <2>5, <3>2, WiderEnd
    <3>. QED BY <1>1, <2>2, <3>1, <3>3 DEF EndHeard
  <2>6. bus' = bus \/ \E event \in Events : Emit(event)
    <3>1. {"halted", "idle"} \subseteq EventKinds
      BY DEF EventKinds
    <3>. QED BY <1>4, <3>1, EventTypes DEF DriveHalts, DriveDrained, busVars
  <2>. QED BY <2>4, <2>5, <2>6
<1>. QED BY <1>2, <1>3, <1>4 DEF DriveStep

(* The event that is folded is no end, if the loop is still busy after it. *)
LEMMA FoldEndHeard ==
  ASSUME IInv, StartsFirst, EndHeard, FoldEvent
  PROVE  EndHeard'
<1>. DEFINE event == Head(bus)
            rest == Tail(bus)
<1>1. /\ bus \in Seq(Events) /\ bus # <<>> /\ TypeOK
      /\ UNCHANGED <<phase, modes, tasks, run, pc>>
      /\ busy' = IF event.kind = "started" THEN TRUE
                 ELSE IF event.kind = "finished" THEN FALSE ELSE busy
      /\ event.kind # "finished" => bus' = rest
  BY BusType DEF FoldEvent, IInv, agentVars, driveVars
<1>2. event.kind = "started" => busy
  BY <1>1, TailStarts DEF StartsFirst
<1>3. busy' => busy /\ bus' = rest /\ event.kind # "finished"
  BY <1>1, <1>2
<1>4. ASSUME NEW room, event.kind # "finished", EndWithin(bus, room)
      PROVE  EndWithin(rest, room)
  <2>1. PICK i \in 1..Len(bus) : bus[i].kind = "finished" /\ Len(bus) - i <= room
    BY <1>4 DEF EndWithin
  <2>2. /\ Len(bus) \in Nat /\ Len(rest) = Len(bus) - 1 /\ event = bus[1]
        /\ \A k \in 1..(Len(bus) - 1) : rest[k] = bus[k + 1]
    BY <1>1, TailAt
  <2>3. i - 1 \in 1..Len(rest) /\ rest[i - 1] = bus[i] /\ Len(rest) - (i - 1) = Len(bus) - i
    BY <1>4, <2>1, <2>2
  <2>. QED BY <2>1, <2>3 DEF EndWithin
<1>. HIDE DEF event, rest
<1>5. Owed' = Owed /\ (Over' <=> Over)
  BY <1>1 DEF Owed, Unfinished, Over
<1>. QED BY <1>1, <1>3, <1>4, <1>5 DEF EndHeard

LEMMA EndStep == IInv /\ StartsFirst /\ EndHeard /\ [Next]_vars => EndHeard'
<1>. SUFFICES ASSUME IInv, StartsFirst, EndHeard, [Next]_vars PROVE EndHeard'
  OBVIOUS
<1>0. /\ TypeOK /\ Owed \in Nat /\ modes \in Nat /\ tasks \in Nat
      /\ Cardinality(Unfinished) \in Nat /\ Capacity \in Nat \ {0}
  BY OwedBounds, SessionAssumption DEF IInv
<1>1. CASE FoldEvent
  BY <1>1, FoldEndHeard
<1>2. CASE NoInput \/ CycleModeHalts \/ StopBackground \/ FoldLagged \/ FoldEmpty \/ UNCHANGED vars
  <2>1. /\ UNCHANGED <<modes, tasks, busy, run, bus, pc>>
        /\ phase = "announce" <=> phase' = "announce"
    BY <1>2 DEF NoInput, CycleModeHalts, StopBackground, FoldLagged, FoldEmpty, vars, S!SetModeHalts,
                S!Stop, uiVars, busVars, agentVars, driveVars, history
  <2>2. Owed' = Owed
    BY <2>1 DEF Owed, Unfinished
  <2>. QED BY <2>1, <2>2, EndUndisturbed
<1>3. CASE Submit
  <2>1. /\ tasks' = tasks + 1 /\ tasks' \in Tasks /\ tasks' \in 1..tasks' /\ modes' = modes
        /\ phase' = "fold"
        /\ run' = run \/ run' = [run EXCEPT ![tasks'] = "spawned"]
    BY <1>0, <1>3, SessionAssumption DEF Submit, S!Drive, S!history, driveVars, Tasks
  <2>2. run[tasks'] = "none"
    BY <1>0, <2>1 DEF IInv, QueueOfOne
  <2>3. run'[tasks'] # "ended"
    BY <1>0, <2>1, <2>2 DEF TypeOK
  <2>. QED BY <1>0, <2>1, <2>3 DEF EndHeard, Over
<1>4. CASE CycleMode
  <2>1. /\ UNCHANGED <<tasks, busy, run, bus, pc>> /\ modes' = modes + 1
        /\ phase = "input" /\ phase' = "announce"
    BY <1>4 DEF CycleMode, S!SetMode, busVars, agentVars, history
  <2>2. Owed' = Owed + 1 /\ (Over' <=> Over)
    BY <1>0, <2>1 DEF Owed, Unfinished, Over
  <2>3. modes + 1 + tasks - (Owed + 1) = modes + tasks - Owed
    BY <1>0
  <2>4. modes + 1 + tasks < Capacity => modes + tasks < Capacity
    BY <1>0
  <2>5. modes + 1 \in Nat /\ modes + 1 > 0
    BY <1>0
  <2>. QED BY <2>1, <2>2, <2>3, <2>4, <2>5 DEF EndHeard
<1>5. CASE AnnounceMode
  <2>1. /\ Changed(workspace) \in Events /\ Emit(Changed(workspace))
        /\ UNCHANGED <<modes, tasks, busy, run, pc>> /\ phase = "announce" /\ phase' = "fold"
    BY <1>0, <1>5, EventTypes DEF AnnounceMode, TypeOK, agentVars, driveVars
  <2>2. Owed' = Owed - 1 /\ Owed >= 1
    BY <1>0, <2>1 DEF Owed, Unfinished
  <2>. QED BY <2>1, <2>2, OwedEmitted
<1>6. ASSUME NEW n \in Tasks, RunStep(n) PROVE EndHeard'
  BY <1>6, RunEndHeard
<1>7. ASSUME NEW n \in Tasks, DriveStep(n) PROVE EndHeard'
  BY <1>7, DriveEndHeard
<1>. QED BY <1>1, <1>2, <1>3, <1>4, <1>5, <1>6, <1>7 DEF Next, Turn

(* However much the agent streams over the events of the bus, the loop     *)
(* hears that a run ended: only mode changes and drives emit after the end *)
(* of a run, and the bus has room for them (tui_loop::run, EventBus::emit).*)
(* What may leave it busy for nothing is a task that never ran.            *)
THEOREM FinishHeard == Spec => []FinishIsHeard
<1>1. Init => StartsFirst /\ EndHeard
  <2>. SUFFICES ASSUME Init PROVE StartsFirst /\ EndHeard
    OBVIOUS
  <2>1. \A i \in 1..Len(bus) : bus[i].kind \notin {"started", "finished"}
    BY DEF Init, Changed, Event
  <2>2. ~busy /\ modes = 0 /\ phase = "fold"
    BY DEF Init, S!Init
  <2>. QED BY <2>1, <2>2 DEF StartsFirst, Starts, StartsBeforeEnds, EndHeard
<1>2. IInv /\ EndHeard => FinishIsHeard
  <2>. SUFFICES ASSUME IInv, EndHeard, modes + tasks < Capacity, BusyForNothing,
                       \A n \in 1..tasks : run[n] # "none"
                PROVE  FALSE
    BY DEF FinishIsHeard
  <2>1. busy /\ Len(bus) = 0
    BY DEF BusyForNothing
  <2>2. Over
    <3>. SUFFICES ASSUME NEW n \in 1..tasks PROVE run[n] = "ended"
      BY DEF Over
    <3>1. n \in Tasks
      <4>1. tasks \in 0..MaxTasks
        BY DEF IInv, TypeOK
      <4>. QED BY <4>1, SessionAssumption DEF Tasks
    <3>. QED BY <3>1 DEF BusyForNothing, Active, IInv, TypeOK
  <2>. QED BY <2>1, <2>2 DEF EndHeard, EndWithin
<1>. QED BY <1>1, <1>2, StartsStep, EndStep, Inductive, PTL DEF Spec

=============================================================================
