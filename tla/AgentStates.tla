----------------------------- MODULE AgentStates -----------------------------
(***************************************************************************)
(* What the agent promises whoever watches its AgentStateChanged events:   *)
(* the states of one task after another, moving only along the transitions *)
(* is_legal_transition lists.  AgentLoop is shown to implement this.       *)
(***************************************************************************)

VARIABLE state

States ==
  {"Idle", "Analyzing", "Planning", "WaitingProvider", "WaitingPermission", "Executing",
   "Reviewing", "Retrying", "Completed", "Failed", "Cancelled"}

(* is_terminal *)
Terminal == {"Completed", "Failed", "Cancelled"}

(* is_legal_transition *)
LegalTransitions ==
  {<<"Idle", "Analyzing">>, <<"Analyzing", "Planning">>, <<"Planning", "WaitingProvider">>,
   <<"WaitingProvider", "Executing">>, <<"WaitingProvider", "Completed">>,
   <<"WaitingProvider", "Retrying">>, <<"Executing", "Reviewing">>,
   <<"Executing", "WaitingPermission">>, <<"WaitingPermission", "Executing">>,
   <<"Reviewing", "Completed">>, <<"Reviewing", "Retrying">>,
   <<"Retrying", "Executing">>, <<"Retrying", "WaitingProvider">>}
  \cup (States \X {"Failed", "Cancelled"})
  \cup (Terminal \X {"Idle"})

Init == state = "Idle"

Next == <<state, state'>> \in LegalTransitions

Spec == Init /\ [][Next]_state
=============================================================================
