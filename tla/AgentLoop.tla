------------------------------ MODULE AgentLoop ------------------------------
(***************************************************************************)
(* Agent::run of darb-agent: one agent that runs one task after another,   *)
(* each bounded by an iteration budget, a tool-call budget, a retry budget *)
(* and a timeout, while another thread may set its cancel flag.            *)
(*                                                                         *)
(* A step is a stretch of run_inner without an await and without a read of *)
(* the shared flag.  The provider, the user behind the confirmation        *)
(* dialog and the tools answer in any way they can.  The agent owns its    *)
(* ToolRegistry, whose policy never changes: a call's verdict is that of   *)
(* the Policy rules on Permissions, and the grant an approval stores is    *)
(* consumed by the dispatch that follows it in the same step.              *)
(***************************************************************************)
EXTENDS Policy

CONSTANTS
  MaxIterations,  \* AgentConfig.max_iterations
  MaxToolCalls,   \* AgentConfig.max_tool_calls
  MaxRetries,     \* AgentConfig.max_retries
  Permissions,    \* the policy the agent's registry was built with
  Files,          \* targets of edit_file
  MaxBatch,       \* bound: tool calls in one provider answer
  MaxRuns,        \* bound: tasks run
  MaxCancels      \* bound: cancel requests

ASSUME LoopAssumption ==
  /\ MaxIterations \in Nat /\ MaxToolCalls \in Nat /\ MaxRetries \in Nat
  /\ Permissions \in Configs
  /\ MaxBatch \in Nat /\ MaxRuns \in Nat /\ MaxCancels \in Nat

VARIABLES
  pc,          \* where run_inner is; "off" when no task runs
  state,       \* AgentState, as last announced
  cancelled,   \* the shared AtomicBool
  responder,   \* was the agent built with_responder?
  stats,       \* RunStats: iterations, tool_calls, failures, changed_files
  left,        \* calls of the current batch not yet processed
  batchOk,     \* every result of the current batch succeeded
  question,    \* the call confirm_interactively is asking about
  result,      \* the last FinalResult

  \* History, read by the properties only.
  edited,      \* files the current or last run changed on disk
  edits,       \* edits made by all runs together
  approvals,   \* questions the user answered with yes
  runs,        \* tasks started
  cancels,     \* cancel requests
  dropped,     \* runs that ended as Cancelled
  late         \* iterations begun with the flag already set

loopVars == <<pc, state, cancelled, responder, stats, left, batchOk, question, result>>
history == <<edited, edits, approvals, runs, cancels, dropped, late>>
vars == <<loopVars, history>>

AS == INSTANCE AgentStates

NoStats == [iterations |-> 0, tool_calls |-> 0, failures |-> 0, changed_files |-> {}]

(* The calls a provider can ask for: what decides them and, for edit_file, *)
(* the file.                                                               *)
Calls == [kind : Kinds \ {"edit"}, file : {"none"}] \cup [kind : {"edit"}, file : Files]

(* The kinds execute has a tool for: no tool of the delete family and no   *)
(* git_push tool exists, whatever policy says of them.                     *)
Implemented == Kinds \ {"delete", "git_push", "unknown"}

NoCall == [kind |-> "none", file |-> "none"]

NoResult == [outcome |-> "none", stats |-> NoStats, timed_out |-> FALSE]

Init ==
  /\ pc = "off"
  /\ state = "Idle"
  /\ cancelled = FALSE
  /\ responder \in BOOLEAN
  /\ stats = NoStats
  /\ left = 0
  /\ batchOk = TRUE
  /\ question = NoCall
  /\ result = NoResult
  /\ edited = {}
  /\ edits = 0
  /\ approvals = 0
  /\ runs = 0
  /\ cancels = 0
  /\ dropped = 0
  /\ late = 0

-----------------------------------------------------------------------------
(* finish: the terminal transition and the FinalResult. *)
Finish(outcome, final, timedOut) ==
  /\ pc' = "off"
  /\ state' = outcome
  /\ result' = [outcome |-> outcome, stats |-> final, timed_out |-> timedOut]
  /\ question' = NoCall
  /\ UNCHANGED <<cancelled, responder, left, batchOk, edited, edits, approvals, runs, cancels,
                 late>>

(* run_inner starts with fresh locals; the first two transitions follow. *)
Start ==
  /\ pc = "off"
  /\ runs < MaxRuns
  /\ pc' = "starting"
  /\ state' = "Idle"
  /\ stats' = NoStats
  /\ left' = 0
  /\ batchOk' = TRUE
  /\ runs' = runs + 1
  /\ edited' = {}
  /\ UNCHANGED <<cancelled, responder, question, result, edits, approvals, cancels, dropped, late>>

Analyze ==
  /\ pc = "starting" /\ state = "Idle"
  /\ state' = "Analyzing"
  /\ UNCHANGED <<pc, cancelled, responder, stats, left, batchOk, question, result, history>>

MakePlan ==
  /\ pc = "starting" /\ state = "Analyzing"
  /\ state' = "Planning"
  /\ pc' = "top"
  /\ UNCHANGED <<cancelled, responder, stats, left, batchOk, question, result, history>>

(* Mutant of CheckCancelled: the flag is not looked at on a retry. *)
CancelIgnoredOnRetry ==
  /\ pc = "top"
  /\ IF cancelled /\ state # "Retrying"
     THEN Finish("Cancelled", stats, FALSE) /\ dropped' = dropped + 1 /\ UNCHANGED stats
     ELSE /\ pc' = "budget"
          /\ UNCHANGED <<state, cancelled, responder, stats, left, batchOk, question, result,
                         history>>

(* The iteration boundary: the flag is read once, here. *)
CheckCancelled ==
  /\ pc = "top"
  /\ IF cancelled
     THEN Finish("Cancelled", stats, FALSE) /\ dropped' = dropped + 1 /\ UNCHANGED stats
     ELSE /\ pc' = "budget"
          /\ UNCHANGED <<state, cancelled, responder, stats, left, batchOk, question, result,
                         history>>

OutOfIterations ==
  /\ pc = "budget"
  /\ stats.iterations >= MaxIterations
  /\ Finish("Failed", stats, FALSE)
  /\ UNCHANGED <<stats, dropped>>

(* Mutant of BeginIteration: the budget is compared with <=. *)
BeginOneMore ==
  /\ pc = "budget"
  /\ stats.iterations <= MaxIterations
  /\ stats' = [stats EXCEPT !.iterations = @ + 1]
  /\ state' = "WaitingProvider"
  /\ pc' = "provider"
  /\ late' = IF cancelled THEN late + 1 ELSE late
  /\ UNCHANGED <<cancelled, responder, left, batchOk, question, result, edited, edits, approvals,
                 runs, cancels, dropped>>

BeginIteration ==
  /\ pc = "budget"
  /\ stats.iterations < MaxIterations
  /\ stats' = [stats EXCEPT !.iterations = @ + 1]
  /\ state' = "WaitingProvider"
  /\ pc' = "provider"
  /\ late' = IF cancelled THEN late + 1 ELSE late
  /\ UNCHANGED <<cancelled, responder, left, batchOk, question, result, edited, edits, approvals,
                 runs, cancels, dropped>>

(* One more failure: give up past max_retries, otherwise retry. *)
CountFailure ==
  /\ stats' = [stats EXCEPT !.failures = @ + 1]
  /\ IF stats.failures + 1 > MaxRetries
     THEN Finish("Failed", stats', FALSE) /\ UNCHANGED dropped
     ELSE /\ state' = "Retrying"
          /\ pc' = "top"
          /\ UNCHANGED <<cancelled, responder, left, batchOk, question, result, history>>

ProviderFails ==
  /\ pc = "provider"
  /\ CountFailure

(* An answer without tool calls is the summary. *)
ProviderConcludes ==
  /\ pc = "provider"
  /\ Finish("Completed", stats, FALSE)
  /\ UNCHANGED <<stats, dropped>>

ProviderCallsTools(n) ==
  /\ pc = "provider"
  /\ state' = "Executing"
  /\ pc' = "call"
  /\ left' = n
  /\ batchOk' = TRUE
  /\ UNCHANGED <<cancelled, responder, stats, question, result, history>>

OutOfToolCalls ==
  /\ pc = "call" /\ left > 0
  /\ stats.tool_calls >= MaxToolCalls
  /\ Finish("Failed", stats, FALSE)
  /\ UNCHANGED <<stats, dropped>>

(* Mutant of RecordResult: only the first edit of a run is remembered. *)
RecordFirstEdit(call, success) ==
  /\ LET editedNow == success /\ call.kind = "edit" IN
     /\ stats' = [stats EXCEPT
                    !.tool_calls = @ + 1,
                    !.changed_files = IF editedNow /\ @ = {} THEN {call.file} ELSE @]
     /\ edited' = IF editedNow THEN edited \cup {call.file} ELSE edited
     /\ edits' = IF editedNow THEN edits + 1 ELSE edits
  /\ batchOk' = (batchOk /\ success)
  /\ left' = left - 1
  /\ pc' = "call"

(* The call is counted whatever became of it; a successful edit is         *)
(* remembered as a changed file.  A failed one is not, neither here nor by *)
(* the agent, though its fs::write may have emptied the file (FilesTab has *)
(* that step): edited is what the agent was told it changed.               *)
RecordResult(call, success) ==
  /\ LET editedNow == success /\ call.kind = "edit" IN
     /\ stats' = [stats EXCEPT
                    !.tool_calls = @ + 1,
                    !.changed_files = IF editedNow THEN @ \cup {call.file} ELSE @]
     /\ edited' = IF editedNow THEN edited \cup {call.file} ELSE edited
     /\ edits' = IF editedNow THEN edits + 1 ELSE edits
  /\ batchOk' = (batchOk /\ success)
  /\ left' = left - 1
  /\ pc' = "call"

(* dispatch: refused by policy, run by a tool that may fail, or a question *)
(* that no responder is there to answer.                                   *)
ToolCall(call) ==
  /\ pc = "call" /\ left > 0
  /\ stats.tool_calls < MaxToolCalls
  /\ LET verdict == Evaluate(call.kind, Permissions) IN
     /\ ~(verdict = "AskUser" /\ responder)
     /\ \E success \in BOOLEAN :
          /\ success => verdict = "Allowed" /\ call.kind \in Implemented
          /\ RecordResult(call, success)
  /\ UNCHANGED <<state, cancelled, responder, question, result, approvals, runs, cancels, dropped,
                 late>>

AskPermission(call) ==
  /\ pc = "call" /\ left > 0
  /\ stats.tool_calls < MaxToolCalls
  /\ responder
  /\ Evaluate(call.kind, Permissions) = "AskUser"
  /\ pc' = "ask"
  /\ state' = "WaitingPermission"
  /\ question' = call
  /\ UNCHANGED <<cancelled, responder, stats, left, batchOk, result, edited, edits, approvals,
                 runs, cancels, dropped, late>>

(* Mutant of PermissionAnswered: the call is run without looking at the    *)
(* answer.                                                                 *)
AnswerIgnored(allowed) ==
  /\ pc = "ask"
  /\ state' = "Executing"
  /\ \E success \in BOOLEAN :
       /\ success => question.kind \in Implemented
       /\ RecordResult(question, success)
  /\ question' = NoCall
  /\ approvals' = IF allowed THEN approvals + 1 ELSE approvals
  /\ UNCHANGED <<cancelled, responder, result, runs, cancels, dropped, late>>

(* The answer: yes stores a grant and dispatches again, which consumes it; *)
(* no is a structured denial.                                              *)
PermissionAnswered(allowed) ==
  /\ pc = "ask"
  /\ state' = "Executing"
  /\ \E success \in BOOLEAN :
       /\ success => allowed /\ question.kind \in Implemented
       /\ RecordResult(question, success)
  /\ question' = NoCall
  /\ approvals' = IF allowed THEN approvals + 1 ELSE approvals
  /\ UNCHANGED <<cancelled, responder, result, runs, cancels, dropped, late>>

(* Mutant of EndBatch: the review is not announced. *)
ReviewUnannounced ==
  /\ pc = "call" /\ left = 0
  /\ pc' = "review"
  /\ UNCHANGED <<state, cancelled, responder, stats, left, batchOk, question, result, history>>

EndBatch ==
  /\ pc = "call" /\ left = 0
  /\ state' = "Reviewing"
  /\ pc' = "review"
  /\ UNCHANGED <<cancelled, responder, stats, left, batchOk, question, result, history>>

(* review: one failed result fails the batch; a pass resets the count of   *)
(* consecutive failures.                                                   *)
Review ==
  /\ pc = "review"
  /\ IF batchOk
     THEN /\ stats' = [stats EXCEPT !.failures = 0]
          /\ state' = "Retrying"
          /\ pc' = "top"
          /\ UNCHANGED <<cancelled, responder, left, batchOk, question, result, history>>
     ELSE CountFailure

(* Mutant of Timeout: the clock stops while the user is asked. *)
TimeoutOfProviderOnly ==
  /\ pc = "provider"
  /\ Finish("Failed", NoStats, TRUE)
  /\ UNCHANGED <<stats, dropped>>

(* tokio::time::timeout drops run_inner at the await it is in; the result  *)
(* is built from fresh stats.                                              *)
Timeout ==
  /\ pc \in {"provider", "ask"}
  /\ Finish("Failed", NoStats, TRUE)
  /\ UNCHANGED <<stats, dropped>>

(* Agent::cancel, from the UI thread, at any time. *)
Cancel ==
  /\ cancels < MaxCancels
  /\ cancelled' = TRUE
  /\ cancels' = cancels + 1
  /\ UNCHANGED <<pc, state, responder, stats, left, batchOk, question, result, edited, edits,
                 approvals, runs, dropped, late>>

Provider == ProviderFails \/ ProviderConcludes \/ \E n \in 1..MaxBatch : ProviderCallsTools(n)

Run ==
  \/ Analyze \/ MakePlan \/ CheckCancelled \/ OutOfIterations \/ BeginIteration
  \/ OutOfToolCalls \/ (\E call \in Calls : ToolCall(call) \/ AskPermission(call))
  \/ EndBatch \/ Review

Next ==
  \/ Start \/ Run \/ Provider \/ Timeout \/ Cancel
  \/ \E allowed \in BOOLEAN : PermissionAnswered(allowed)

Spec == Init /\ [][Next]_vars

(* The runtime keeps polling a task that is ready, and the timer fires;    *)
(* neither the provider nor the user is assumed ever to answer.            *)
FairSpec == Spec /\ WF_vars(Run) /\ WF_vars(Timeout)

-----------------------------------------------------------------------------
StatsType ==
  [iterations : Nat, tool_calls : Nat, failures : Nat, changed_files : SUBSET Files]

TypeOK ==
  /\ pc \in {"off", "starting", "top", "budget", "provider", "call", "ask", "review"}
  /\ state \in AS!States
  /\ cancelled \in BOOLEAN
  /\ responder \in BOOLEAN
  /\ stats \in StatsType
  /\ left \in Nat
  /\ batchOk \in BOOLEAN
  /\ question \in Calls \cup {NoCall}
  /\ result \in [outcome : AS!Terminal \cup {"none"}, stats : StatsType, timed_out : BOOLEAN]
  /\ edited \subseteq Files
  /\ edits \in Nat /\ approvals \in Nat /\ runs \in Nat /\ cancels \in Nat
  /\ dropped \in Nat /\ late \in Nat

(* "Infinite loop protection": no run ever exceeds its iteration or        *)
(* tool-call budget, and a run that goes on has not used up its retries.   *)
BudgetsHold ==
  /\ stats.iterations <= MaxIterations
  /\ stats.tool_calls <= MaxToolCalls
  /\ pc # "off" => stats.failures <= MaxRetries

(* "Stop at the next iteration boundary": however the flag is set, also    *)
(* between the read of the flag and the iteration it guards, at most one   *)
(* more provider request is begun, over this run and all later ones.       *)
CancelWithinOneIteration == late <= 1

(* A run that ended other than by its timeout reports exactly the files it *)
(* changed.                                                                *)
ResultReportsEdits ==
  pc = "off" /\ result.outcome # "none" /\ ~result.timed_out
    => result.stats.changed_files = edited

(* No edit reaches the disk that policy did not allow outright or that the *)
(* user did not approve one by one, over all runs of the agent.            *)
EditsConsented ==
  /\ Permissions["edit"] = "Deny" => edits = 0
  /\ Permissions["edit"] = "Ask" => edits <= approvals /\ (~responder => edits = 0)

(* The announced states follow is_legal_transition. *)
LegalStates == AS!Spec

(* Every run ends, though provider and user may never answer. *)
RunEnds == (pc # "off") ~> (pc = "off")

=============================================================================
