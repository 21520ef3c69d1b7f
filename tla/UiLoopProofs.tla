----------------------------- MODULE UiLoopProofs -----------------------------
(***************************************************************************)
(* Proofs about UiLoop, for every configuration and every bound: no answer *)
(* of the user lets two requests through, and none stays behind to let a   *)
(* later one through.  The two rest on each other: a grant that policy     *)
(* would ask for again could be spent by a request the user never saw.     *)
(***************************************************************************)
EXTENDS UiLoop, FiniteSetTheorems, TLAPS

(* A yes the agent has been sent and not yet acted on. *)
Owed == IF agent = "waiting" /\ reply = "yes" THEN 1 ELSE 0

(* What got past a question and what is about to are paid for by yeses. *)
YesesPaid == Cardinality(acted) + Owed <= yeses

IInv == TypeOK /\ NoConsentLeftOver /\ YesesPaid

People == [who : Panels \cup {"agent", "none"}, n : Nat]
Events == [kind : {"started", "requested", "resolved", "finished"}, n : Nat]

-----------------------------------------------------------------------------
(* One more request let through counts at most once. *)
LEMMA OneMore ==
  ASSUME NEW S, IsFiniteSet(S), NEW x
  PROVE  /\ IsFiniteSet(S \cup {x})
         /\ Cardinality(S) \in Nat
         /\ Cardinality(S \cup {x}) \in Nat
         /\ Cardinality(S \cup {x}) <= Cardinality(S) + 1
<1>1. IsFiniteSet(S \cup {x}) /\ Cardinality(S) \in Nat
  BY FS_AddElement, FS_CardinalityType
<1>2. CASE x \in S
  <2>1. S \cup {x} = S
    BY <1>2
  <2>. QED BY <1>1, <2>1
<1>3. CASE x \notin S
  BY <1>1, <1>3, FS_AddElement
<1>. QED BY <1>2, <1>3

LEMMA RequestType ==
  /\ \A who \in Panels \cup {"agent", "none"}, n \in Nat :
       Request(who, n) \in People /\ Request(who, n).who = who
  /\ Nobody \in People /\ Nobody.who = "none"
BY DEF Request, Nobody, People

(* Replacing the slot gives nobody a yes. *)
LEMMA ReplaceByEffect ==
  ASSUME TypeOK, NEW request \in People, ReplaceBy(request), agent' = agent
  PROVE  pending' \in People /\ reply' \in {"none", "yes", "no"} /\ Owed' = Owed
BY DEF TypeOK, ReplaceBy, Owed

(* dispatch lets a request through a question for a grant only, which it   *)
(* uses up; what is left is no grant for a question.                       *)
LEMMA DispatchEffect ==
  ASSUME TypeOK, NEW request \in People, request.who \in Panels,
         NEW store \in SUBSET Panels, NEW shown,
         Dispatch(request, store, shown), agent' = agent
  PROVE  /\ dialog' \in People /\ pending' \in People
         /\ reply' \in {"none", "yes", "no"} /\ Owed' = Owed
         /\ grants' \in SUBSET store
         /\ Verdict(request.who) = "AskUser" => request.who \notin grants'
         /\ IsFiniteSet(acted') /\ Cardinality(acted') \in Nat
         /\ Cardinality(acted') <= Cardinality(acted) + 1
         /\ acted' = acted \/ (Verdict(request.who) = "AskUser" /\ request.who \in store)
<1>. DEFINE asks == Verdict(request.who) = "AskUser"
            granted == request.who \in store
            next == IF asks /\ ~granted THEN request ELSE Nobody
<1>1. next \in People
  BY RequestType
<1>2. /\ dialog' = next /\ ReplaceBy(next)
      /\ grants' = IF asks THEN store \ {request.who} ELSE store
      /\ acted' = IF asks /\ granted
                  THEN acted \cup {[request |-> request, shown |-> shown]} ELSE acted
  BY DEF Dispatch
<1>. HIDE DEF next
<1>3. pending' \in People /\ reply' \in {"none", "yes", "no"} /\ Owed' = Owed
  BY <1>1, <1>2, ReplaceByEffect
<1>4. IsFiniteSet(acted)
  BY DEF TypeOK
<1>5. /\ IsFiniteSet(acted') /\ Cardinality(acted') \in Nat
      /\ Cardinality(acted') <= Cardinality(acted) + 1
  <2>1. CASE asks /\ granted
    BY <1>2, <1>4, <2>1, OneMore
  <2>2. CASE ~(asks /\ granted)
    <3>1. acted' = acted /\ Cardinality(acted) \in Nat
      BY <1>2, <1>4, <2>2, FS_CardinalityType
    <3>. QED BY <1>4, <3>1
  <2>. QED BY <2>1, <2>2
<1>. QED BY <1>1, <1>2, <1>3, <1>5

-----------------------------------------------------------------------------
LEMMA InitIInv == Init => IInv
<1>. SUFFICES ASSUME Init PROVE IInv
  OBVIOUS
<1>1. TypeOK
  <2>1. Nobody \in People /\ IsFiniteSet({})
    BY RequestType, FS_EmptySet
  <2>2. "Mentor" \in AiModes /\ <<>> \in Seq(Events) /\ <<>> \in Seq(Nat)
    BY DEF AiModes
  <2>. QED BY <2>1, <2>2 DEF Init, TypeOK, People, Events
<1>2. NoConsentLeftOver
  BY DEF Init, NoConsentLeftOver
<1>3. YesesPaid
  BY FS_EmptySet DEF Init, YesesPaid, Owed
<1>. QED BY <1>1, <1>2, <1>3 DEF IInv

(* A step that leaves the panels' registry, what was let through and the   *)
(* answer under way alone, or takes the answer away.                       *)
LEMMA QuietStep ==
  ASSUME IInv, TypeOK', UNCHANGED <<mode, grants, acted, yeses>>, Owed' \in {0, Owed}
  PROVE  IInv'
<1>1. NoConsentLeftOver'
  BY DEF IInv, NoConsentLeftOver, Verdict
<1>2. Cardinality(acted) \in Nat /\ Owed \in {0, 1} /\ yeses \in Nat
  BY FS_CardinalityType DEF IInv, TypeOK, Owed
<1>3. Owed' \in {0, 1} /\ Owed' <= Owed
  BY <1>2
<1>4. Cardinality(acted') + Owed' <= yeses'
  BY <1>2, <1>3 DEF IInv, YesesPaid
<1>. QED BY <1>1, <1>4 DEF IInv, YesesPaid

LEMMA AgentIInv == ASSUME IInv, Agent PROVE IInv'
<1>0. TypeOK
  BY DEF IInv
<1>1. CASE AgentStarts
  <2>1. TypeOK'
    BY <1>0, <1>1 DEF AgentStarts, Emit, TypeOK, uiVars, history
  <2>. QED BY <1>1, <2>1, QuietStep DEF AgentStarts, Owed, uiVars, history
<1>2. CASE AgentEdits
  <2>1. TypeOK'
    BY <1>0, <1>2 DEF AgentEdits, TypeOK, uiVars, sharedVars, agentVars
  <2>. QED BY <1>2, <2>1, QuietStep DEF AgentEdits, Owed, uiVars, sharedVars, agentVars
<1>3. CASE AgentAsks
  <2>1. TypeOK'
    BY <1>0, <1>3 DEF AgentAsks, Emit, TypeOK, uiVars, history
  <2>. QED BY <1>3, <2>1, QuietStep DEF AgentAsks, Owed, uiVars, history
<1>4. CASE AgentSends
  <2>1. TypeOK'
    BY <1>0, <1>4 DEF AgentSends, TypeOK, uiVars, history
  <2>. QED BY <1>4, <2>1, QuietStep DEF AgentSends, Owed, uiVars, history
<1>5. CASE AgentHears
  <2>. DEFINE step == [request |-> Request("agent", question), shown |-> consent]
  <2>1. acted' = IF reply = "yes" THEN acted \cup {step} ELSE acted
    BY <1>5 DEF AgentHears
  <2>2. IsFiniteSet(acted)
    BY <1>0 DEF TypeOK
  <2>. HIDE DEF step
  <2>3. IsFiniteSet(acted')
    BY <2>1, <2>2, OneMore
  <2>4. TypeOK'
    BY <1>0, <1>5, <2>3 DEF AgentHears, Emit, TypeOK, uiVars
  <2>5. NoConsentLeftOver'
    BY <1>5 DEF IInv, AgentHears, uiVars, NoConsentLeftOver, Verdict
  <2>6. Cardinality(acted) + Owed <= yeses /\ yeses \in Nat /\ yeses' = yeses
    BY <1>0, <1>5 DEF IInv, YesesPaid, AgentHears, TypeOK
  <2>7. Owed' = 0 /\ Owed = (IF reply = "yes" THEN 1 ELSE 0)
    BY <1>5 DEF AgentHears, Owed
  <2>8. Cardinality(acted) \in Nat
    BY <2>2, FS_CardinalityType
  <2>9. CASE reply = "yes"
    <3>1. Cardinality(acted') \in Nat /\ Cardinality(acted') <= Cardinality(acted) + 1
      BY <2>1, <2>2, <2>9, OneMore
    <3>. QED BY <2>4, <2>5, <2>6, <2>7, <2>8, <2>9, <3>1 DEF IInv, YesesPaid
  <2>10. CASE reply # "yes"
    BY <2>1, <2>6, <2>7, <2>8, <2>10, <2>4, <2>5 DEF IInv, YesesPaid
  <2>. QED BY <2>9, <2>10
<1>6. CASE AgentFinishes
  <2>1. TypeOK'
    BY <1>0, <1>6 DEF AgentFinishes, Emit, TypeOK, uiVars, history
  <2>. QED BY <1>6, <2>1, QuietStep DEF AgentFinishes, Owed, uiVars, history
<1>. QED BY <1>1, <1>2, <1>3, <1>4, <1>5, <1>6 DEF Agent

LEMMA FoldIInv == ASSUME IInv, FoldEvent \/ EventsFolded \/ TakeQueries PROVE IInv'
<1>0. TypeOK
  BY DEF IInv
<1>1. CASE FoldEvent
  <2>1. Head(bus) \in Events /\ Tail(bus) \in Seq(Events)
    <3>1. bus \in Seq(Events) /\ bus # <<>>
      BY <1>0, <1>1 DEF FoldEvent, TypeOK, Events
    <3>. QED BY <3>1
  <2>2. dialog' \in People
    <3>1. Head(bus).n \in Nat
      BY <2>1 DEF Events
    <3>2. Request("agent", Head(bus).n) \in People /\ Nobody \in People
      BY <3>1, RequestType
    <3>3. dialog \in People
      BY <1>0 DEF TypeOK, People
    <3>. QED BY <1>1, <3>2, <3>3 DEF FoldEvent
  <2>3. TypeOK'
    BY <1>0, <1>1, <2>1, <2>2 DEF FoldEvent, TypeOK, People, Events, agentVars, history
  <2>. QED BY <1>1, <2>3, QuietStep DEF FoldEvent, Owed, agentVars, history
<1>2. CASE EventsFolded
  <2>1. TypeOK'
    BY <1>0, <1>2 DEF EventsFolded, TypeOK, sharedVars, agentVars, history
  <2>. QED BY <1>2, <2>1, QuietStep DEF EventsFolded, Owed, sharedVars, agentVars, history
<1>3. CASE TakeQueries
  <2>. DEFINE last == Request("agent", queries[Len(queries)])
  <2>1. pending' \in People /\ reply' \in {"none", "yes", "no"} /\ Owed' = Owed
    <3>1. CASE queries = <<>>
      BY <1>0, <1>3, <3>1 DEF TakeQueries, TypeOK, Owed, agentVars, People
    <3>2. CASE queries # <<>>
      <4>1. queries[Len(queries)] \in Nat
        BY <1>0, <3>2 DEF TypeOK
      <4>2. last \in People
        BY <4>1, RequestType
      <4>3. ReplaceBy(last) /\ agent' = agent
        BY <1>3, <3>2 DEF TakeQueries, agentVars
      <4>. HIDE DEF last
      <4>. QED BY <1>0, <4>2, <4>3, ReplaceByEffect
    <3>. QED BY <3>1, <3>2
  <2>2. TypeOK'
    BY <1>0, <1>3, <2>1 DEF TakeQueries, TypeOK, People, agentVars, history
  <2>. QED BY <1>3, <2>1, <2>2, QuietStep DEF TakeQueries, history
<1>. QED BY <1>1, <1>2, <1>3

LEMMA PanelRequestIInv == ASSUME IInv, NEW panel \in Panels, PanelRequest(panel) PROVE IInv'
<1>. DEFINE request == Request(panel, locals')
<1>0. TypeOK /\ NoConsentLeftOver /\ YesesPaid
  BY DEF IInv
<1>1. locals' \in Nat /\ grants \in SUBSET Panels
  BY <1>0 DEF PanelRequest, TypeOK
<1>2. request \in People /\ request.who = panel
  BY <1>1, RequestType
<1>3. Dispatch(request, grants, Nobody) /\ agent' = agent /\ mode' = mode /\ yeses' = yeses
  BY DEF PanelRequest, agentVars
<1>. HIDE DEF request
<1>4. /\ dialog' \in People /\ pending' \in People
      /\ reply' \in {"none", "yes", "no"} /\ Owed' = Owed
      /\ grants' \in SUBSET grants /\ IsFiniteSet(acted')
      /\ acted' = acted \/ (Verdict(panel) = "AskUser" /\ panel \in grants)
  BY <1>0, <1>1, <1>2, <1>3, DispatchEffect
<1>5. TypeOK'
  BY <1>0, <1>1, <1>4 DEF PanelRequest, TypeOK, People, agentVars
<1>6. acted' = acted
  BY <1>0, <1>4 DEF NoConsentLeftOver
<1>7. NoConsentLeftOver'
  BY <1>0, <1>3, <1>4 DEF NoConsentLeftOver, Verdict
<1>8. YesesPaid'
  BY <1>0, <1>3, <1>4, <1>6 DEF YesesPaid
<1>. QED BY <1>5, <1>7, <1>8 DEF IInv

LEMMA AnswerPanelIInv ==
  ASSUME IInv, NEW allowed \in BOOLEAN, AnswerPanel(allowed) PROVE IInv'
<1>0. TypeOK /\ NoConsentLeftOver /\ YesesPaid
  BY DEF IInv
<1>1. /\ pending \in People /\ pending.who \in Panels /\ grants \in SUBSET Panels
      /\ agent' = agent /\ mode' = mode
      /\ yeses \in Nat /\ Cardinality(acted) \in Nat /\ Owed \in {0, 1}
  BY <1>0, FS_CardinalityType DEF AnswerPanel, TypeOK, People, agentVars, Owed
<1>2. CASE allowed
  <2>. DEFINE store == grants \cup {pending.who}
  <2>1. Dispatch(pending, store, dialog) /\ store \in SUBSET Panels /\ yeses' = yeses + 1
    BY <1>1, <1>2 DEF AnswerPanel
  <2>2. /\ dialog' \in People /\ pending' \in People
        /\ reply' \in {"none", "yes", "no"} /\ Owed' = Owed
        /\ grants' \in SUBSET store
        /\ Verdict(pending.who) = "AskUser" => pending.who \notin grants'
        /\ IsFiniteSet(acted') /\ Cardinality(acted') \in Nat
        /\ Cardinality(acted') <= Cardinality(acted) + 1
    <3>. HIDE DEF store
    <3>. QED BY <1>0, <1>1, <2>1, DispatchEffect
  <2>3. TypeOK'
    BY <1>0, <1>1, <2>1, <2>2 DEF AnswerPanel, TypeOK, People, agentVars
  <2>4. NoConsentLeftOver'
    BY <1>0, <1>1, <2>2 DEF NoConsentLeftOver, Verdict
  <2>5. YesesPaid'
    BY <1>0, <1>1, <2>1, <2>2 DEF YesesPaid
  <2>. QED BY <2>3, <2>4, <2>5 DEF IInv
<1>3. CASE ~allowed
  <2>1. TypeOK'
    BY <1>0, <1>3, RequestType DEF AnswerPanel, TypeOK, People, agentVars
  <2>. QED BY <1>3, <2>1, QuietStep DEF AnswerPanel, Owed, agentVars
<1>. QED BY <1>2, <1>3

LEMMA AnswerIInv ==
  ASSUME IInv, NEW allowed \in BOOLEAN, AnswerAgent(allowed) \/ AnswerNobody(allowed)
  PROVE  IInv'
<1>0. TypeOK /\ NoConsentLeftOver /\ YesesPaid
  BY DEF IInv
<1>1. TypeOK'
  <2>0. Nobody \in People /\ yeses' \in Nat
    BY <1>0, RequestType DEF AnswerAgent, AnswerNobody, TypeOK
  <2>1. CASE AnswerAgent(allowed)
    BY <1>0, <2>0, <2>1 DEF AnswerAgent, TypeOK, People, agentVars
  <2>2. CASE AnswerNobody(allowed)
    BY <1>0, <2>0, <2>2 DEF AnswerNobody, TypeOK, People, sharedVars, agentVars
  <2>. QED BY <2>1, <2>2
<1>2. /\ mode' = mode /\ grants' = grants /\ acted' = acted
      /\ yeses' = IF allowed THEN yeses + 1 ELSE yeses
  BY DEF AnswerAgent, AnswerNobody
<1>3. Owed' = Owed \/ (Owed = 0 /\ Owed' \in {0, 1} /\ (Owed' = 1 => allowed))
  BY DEF AnswerAgent, AnswerNobody, Owed, sharedVars, agentVars
<1>4. Cardinality(acted) \in Nat /\ yeses \in Nat /\ Owed \in {0, 1}
  BY <1>0, FS_CardinalityType DEF TypeOK, Owed
<1>5. YesesPaid'
  BY <1>0, <1>2, <1>3, <1>4 DEF YesesPaid
<1>6. NoConsentLeftOver'
  BY <1>0, <1>2 DEF NoConsentLeftOver, Verdict
<1>. QED BY <1>1, <1>5, <1>6 DEF IInv

LEMMA InputIInv == ASSUME IInv, NoInput \/ Submit \/ CycleMode PROVE IInv'
<1>0. TypeOK
  BY DEF IInv
<1>1. CASE NoInput
  <2>1. TypeOK'
    BY <1>0, <1>1 DEF NoInput, TypeOK, sharedVars, agentVars, history
  <2>. QED BY <1>1, <2>1, QuietStep DEF NoInput, Owed, sharedVars, agentVars, history
<1>2. CASE Submit
  <2>1. TypeOK'
    BY <1>0, <1>2 DEF Submit, TypeOK, sharedVars
  <2>. QED BY <1>2, <2>1, QuietStep DEF Submit, Owed, sharedVars
<1>3. CASE CycleMode
  <2>1. TypeOK'
    BY <1>0, <1>3 DEF CycleMode, NextMode, AiModes, TypeOK, sharedVars, agentVars
  <2>2. NoConsentLeftOver'
    BY <1>3 DEF CycleMode, NoConsentLeftOver
  <2>3. YesesPaid'
    BY <1>3 DEF IInv, YesesPaid, CycleMode, Owed, sharedVars, agentVars
  <2>. QED BY <2>1, <2>2, <2>3 DEF IInv
<1>. QED BY <1>1, <1>2, <1>3

LEMMA NextIInv == IInv /\ [Next]_vars => IInv'
<1>. SUFFICES ASSUME IInv, [Next]_vars PROVE IInv'
  OBVIOUS
<1>1. CASE Agent
  BY <1>1, AgentIInv
<1>2. CASE Turn
  BY <1>2, FoldIInv, InputIInv, PanelRequestIInv, AnswerPanelIInv, AnswerIInv DEF Turn, Input
<1>3. CASE UNCHANGED vars
  BY <1>3 DEF IInv, TypeOK, NoConsentLeftOver, Verdict, YesesPaid, Owed,
              vars, uiVars, sharedVars, agentVars, history
<1>. QED BY <1>1, <1>2, <1>3 DEF Next

LEMMA Inductive == Spec => []IInv
BY InitIInv, NextIInv, PTL DEF Spec

(* The loop's state keeps its type (tui_loop::run, UiResponder). *)
THEOREM Typed == Spec => []TypeOK
<1>1. IInv => TypeOK
  BY DEF IInv
<1>. QED BY <1>1, Inductive, PTL

(* However many questions, panels and tasks, and whatever the              *)
(* configuration, the requests let through a question are at most as many  *)
(* as the user's yeses.                                                    *)
THEOREM YesSpentOnce == Spec => []EachYesSpentOnce
<1>1. IInv => EachYesSpentOnce
  <2>. SUFFICES ASSUME IInv PROVE EachYesSpentOnce
    OBVIOUS
  <2>1. Cardinality(acted) \in Nat /\ Owed \in {0, 1} /\ yeses \in Nat
    BY FS_CardinalityType DEF IInv, TypeOK, Owed
  <2>. QED BY <2>1 DEF IInv, YesesPaid, EachYesSpentOnce
<1>. QED BY <1>1, Inductive, PTL

(* No confirmation is left in the panels' registry where policy asks.      *)
THEOREM ConsentNotLeftOver == Spec => []NoConsentLeftOver
<1>1. IInv => NoConsentLeftOver
  BY DEF IInv
<1>. QED BY <1>1, Inductive, PTL
=============================================================================
