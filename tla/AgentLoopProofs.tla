--------------------------- MODULE AgentLoopProofs ---------------------------
(***************************************************************************)
(* Proofs about AgentLoop, for every budget, every policy, every batch     *)
(* length and any number of runs and cancel requests.                      *)
(*                                                                         *)
(* IInv is the conjunction of seven parts.  Each is preserved by every step *)
(* on its own, given TypeOK; one lemma per part has one step per action.   *)
(***************************************************************************)
EXTENDS AgentLoop, TLAPS

(* The announced state is the one the place in run_inner stands for: this  *)
(* is what makes every announced transition a legal one.                   *)
ControlInv ==
  /\ pc = "off" => state \in AS!Terminal \cup {"Idle"}
  /\ pc = "starting" => state \in {"Idle", "Analyzing"}
  /\ pc \in {"top", "budget"} => state \in {"Planning", "Retrying"}
  /\ pc = "provider" => state = "WaitingProvider"
  /\ pc = "call" => state = "Executing"
  /\ pc = "ask" => state = "WaitingPermission"
  /\ pc = "review" => state = "Reviewing"

(* The one late iteration is the one whose check had already passed; the   *)
(* flag stays set, so no later check passes.                               *)
CancelInv ==
  /\ late <= 1
  /\ late = 1 => cancelled /\ pc # "budget"

(* changed_files follows the disk while the run goes on, and the result    *)
(* carries it unless the timeout discarded it.                             *)
ReportInv ==
  /\ pc # "off" => stats.changed_files = edited
  /\ pc = "off" /\ result.outcome # "none" /\ ~result.timed_out
       => result.stats.changed_files = edited

(* Only a call that policy makes a question of is ever asked about, and    *)
(* only where there is someone to answer.                                  *)
ConsentInv ==
  /\ pc = "ask" => responder /\ Evaluate(question.kind, Permissions) = "AskUser"
  /\ EditsConsented

(* While a question is open there is a call it is about, and room for it   *)
(* in the budget: the count goes up only when the answer comes.            *)
AskedInv ==
  pc = "ask" => question \in Calls /\ left > 0 /\ stats.tool_calls < MaxToolCalls

IInv == TypeOK /\ AskedInv /\ BudgetsHold /\ ControlInv /\ CancelInv /\ ReportInv /\ ConsentInv

-----------------------------------------------------------------------------
LEMMA StatsTypes ==
  ASSUME NEW s \in StatsType
  PROVE  /\ s.iterations \in Nat /\ s.tool_calls \in Nat /\ s.failures \in Nat
         /\ s.changed_files \in SUBSET Files
         /\ [s EXCEPT !.iterations = @ + 1] \in StatsType
         /\ [s EXCEPT !.failures = @ + 1] \in StatsType
         /\ [s EXCEPT !.failures = 0] \in StatsType
BY DEF StatsType

LEMMA StatsAfterCall ==
  ASSUME NEW s \in StatsType, NEW files \in SUBSET Files
  PROVE  [s EXCEPT !.tool_calls = @ + 1, !.changed_files = files] \in StatsType
<1> DEFINE t == [s EXCEPT !.tool_calls = @ + 1]
<1>1. t \in StatsType
  BY DEF StatsType
<1>2. [t EXCEPT !.changed_files = files] \in StatsType
  BY <1>1 DEF StatsType
<1>. QED BY <1>2

LEMMA NoStatsType == NoStats \in StatsType
BY DEF NoStats, StatsType

LEMMA ResultType ==
  ASSUME NEW o \in AS!Terminal \cup {"none"}, NEW s \in StatsType, NEW b \in BOOLEAN
  PROVE  [outcome |-> o, stats |-> s, timed_out |-> b] \in
           [outcome : AS!Terminal \cup {"none"}, stats : StatsType, timed_out : BOOLEAN]
OBVIOUS

(* finish keeps the types, whatever terminal state it is given. *)
LEMMA FinishType ==
  ASSUME TypeOK, NEW o \in AS!Terminal, NEW s \in StatsType, NEW b \in BOOLEAN,
         Finish(o, s, b), stats' \in StatsType, dropped' \in Nat
  PROVE  TypeOK'
<1>1. result' \in [outcome : AS!Terminal \cup {"none"}, stats : StatsType, timed_out : BOOLEAN]
  BY ResultType DEF Finish
<1>2. state' \in AS!States
  BY DEF Finish, AS!Terminal, AS!States
<1>. QED BY <1>1, <1>2 DEF Finish, TypeOK

LEMMA CountFailureType ==
  ASSUME TypeOK, CountFailure
  PROVE  TypeOK'
<1>1. stats' \in StatsType
  BY StatsTypes DEF CountFailure, TypeOK
<1>2. CASE stats.failures + 1 > MaxRetries
  BY <1>1, <1>2, FinishType DEF CountFailure, TypeOK, AS!Terminal
<1>3. CASE ~(stats.failures + 1 > MaxRetries)
  BY <1>1, <1>3 DEF CountFailure, TypeOK, AS!States, history
<1>. QED BY <1>2, <1>3

LEMMA RecordResultType ==
  ASSUME TypeOK, NEW call \in Calls, NEW success \in BOOLEAN, RecordResult(call, success), left > 0
  PROVE  /\ stats' \in StatsType
         /\ edited' \subseteq Files
         /\ edits' \in Nat
         /\ batchOk' \in BOOLEAN
         /\ left' \in Nat
         /\ pc' = "call"
<1>1. call.kind = "edit" => call.file \in Files
  BY DEF Calls
<1>2. stats.changed_files \in SUBSET Files
  BY StatsTypes DEF TypeOK
<1>3. stats' \in StatsType
  <2>1. CASE success /\ call.kind = "edit"
    BY <1>1, <1>2, <2>1, StatsAfterCall DEF RecordResult, TypeOK
  <2>2. CASE ~(success /\ call.kind = "edit")
    BY <1>2, <2>2, StatsAfterCall DEF RecordResult, TypeOK
  <2>. QED BY <2>1, <2>2
<1>. QED BY <1>1, <1>3 DEF RecordResult, TypeOK

(* What policy says of an edit. *)
LEMMA EditVerdict ==
  /\ Evaluate("edit", Permissions) = "Allowed" => Permissions["edit"] = "Allow"
  /\ Evaluate("edit", Permissions) = "AskUser" => Permissions["edit"] = "Ask"
BY DEF Evaluate, Decide

(* Type correctness. *)
LEMMA TypeStep ==
  ASSUME TypeOK, AskedInv, [Next]_vars
  PROVE  TypeOK'
<1>1. CASE Start
  BY <1>1, NoStatsType DEF Start, TypeOK, AS!States
<1>2. CASE Analyze
  BY <1>2, LoopAssumption, StatsTypes DEF Analyze, history, TypeOK, AS!States
<1>3. CASE MakePlan
  BY <1>3, LoopAssumption, StatsTypes DEF MakePlan, history, TypeOK, AS!States
<1>4. CASE CheckCancelled
  <2>1. CASE cancelled
    <3>1. Finish("Cancelled", stats, FALSE)
      BY <1>4, <2>1 DEF CheckCancelled
    <3>2. stats' \in StatsType /\ dropped' \in Nat
      BY <1>4, <2>1 DEF CheckCancelled, Finish, TypeOK
    <3>. QED BY <3>1, <3>2, FinishType DEF TypeOK, AS!Terminal
  <2>2. CASE ~cancelled
    BY <1>4, <2>2 DEF CheckCancelled, TypeOK, history
  <2>. QED BY <2>1, <2>2
<1>5. CASE OutOfIterations
  BY <1>5, FinishType DEF OutOfIterations, TypeOK, AS!Terminal
<1>6. CASE BeginIteration
  <2>1. stats' \in StatsType
    BY <1>6, StatsTypes DEF BeginIteration, TypeOK
  <2>. QED BY <1>6, <2>1 DEF BeginIteration, TypeOK, AS!States
<1>7. CASE ProviderFails
  BY <1>7, CountFailureType DEF ProviderFails
<1>8. CASE ProviderConcludes
  BY <1>8, FinishType DEF ProviderConcludes, TypeOK, AS!Terminal
<1>9. ASSUME NEW n \in 1..MaxBatch, ProviderCallsTools(n)
      PROVE  TypeOK'
  BY <1>9, LoopAssumption, StatsTypes DEF ProviderCallsTools, history, TypeOK, AS!States
<1>10. CASE OutOfToolCalls
  BY <1>10, FinishType DEF OutOfToolCalls, TypeOK, AS!Terminal
<1>11. ASSUME NEW call \in Calls, ToolCall(call)
      PROVE  TypeOK'
  <2>1. PICK success \in BOOLEAN : RecordResult(call, success)
    BY <1>11 DEF ToolCall
  <2>2. left > 0
    BY <1>11 DEF ToolCall
  <2>. QED BY <1>11, <2>1, <2>2, RecordResultType DEF ToolCall, TypeOK
<1>12. ASSUME NEW call \in Calls, AskPermission(call)
      PROVE  TypeOK'
  BY <1>12, LoopAssumption, StatsTypes DEF AskPermission, TypeOK, AS!States
<1>13. ASSUME NEW allowed \in BOOLEAN, PermissionAnswered(allowed)
      PROVE  TypeOK'
  <2>1. PICK success \in BOOLEAN : RecordResult(question, success)
    BY <1>13 DEF PermissionAnswered
  <2>2. question \in Calls /\ left > 0
    BY <1>13 DEF PermissionAnswered, AskedInv
  <2>3. NoCall \in Calls \cup {NoCall}
    OBVIOUS
  <2>. QED BY <1>13, <2>1, <2>2, <2>3, RecordResultType DEF PermissionAnswered, TypeOK, AS!States
<1>14. CASE EndBatch
  BY <1>14, LoopAssumption, StatsTypes DEF EndBatch, history, TypeOK, AS!States
<1>15. CASE Review
  <2>1. CASE batchOk
    <3>1. stats' \in StatsType
      BY <1>15, <2>1, StatsTypes DEF Review, TypeOK
    <3>. QED BY <1>15, <2>1, <3>1 DEF Review, TypeOK, AS!States, history
  <2>2. CASE ~batchOk
    BY <1>15, <2>2, CountFailureType DEF Review
  <2>. QED BY <2>1, <2>2
<1>16. CASE Timeout
  BY <1>16, FinishType, NoStatsType DEF Timeout, TypeOK, AS!Terminal
<1>17. CASE Cancel
  BY <1>17, LoopAssumption, StatsTypes DEF Cancel, TypeOK, AS!States
<1>18. CASE UNCHANGED vars
  BY <1>18 DEF vars, loopVars, history, TypeOK, AS!States
<1>. QED
  BY <1>1, <1>2, <1>3, <1>4, <1>5, <1>6, <1>7, <1>8, <1>9, <1>10, <1>11, <1>12, <1>13, <1>14, <1>15, <1>16, <1>17, <1>18 DEF Next, Run, Provider

(* A question is only ever open about a call. *)
LEMMA AskedStep ==
  ASSUME TypeOK, AskedInv, [Next]_vars
  PROVE  AskedInv'
<1>1. CASE Start
  BY <1>1 DEF Start, TypeOK, AskedInv, StatsType
<1>2. CASE Analyze
  BY <1>2 DEF Analyze, history, TypeOK, AskedInv, StatsType
<1>3. CASE MakePlan
  BY <1>3 DEF MakePlan, history, TypeOK, AskedInv, StatsType
<1>4. CASE CheckCancelled
  BY <1>4 DEF CheckCancelled, Finish, history, TypeOK, AskedInv, StatsType
<1>5. CASE OutOfIterations
  BY <1>5 DEF OutOfIterations, Finish, TypeOK, AskedInv, StatsType
<1>6. CASE BeginIteration
  BY <1>6 DEF BeginIteration, TypeOK, AskedInv, StatsType
<1>7. CASE ProviderFails
  BY <1>7 DEF ProviderFails, CountFailure, Finish, history, TypeOK, AskedInv, StatsType
<1>8. CASE ProviderConcludes
  BY <1>8 DEF ProviderConcludes, Finish, TypeOK, AskedInv, StatsType
<1>9. ASSUME NEW n \in 1..MaxBatch, ProviderCallsTools(n)
      PROVE  AskedInv'
  BY <1>9 DEF ProviderCallsTools, history, TypeOK, AskedInv, StatsType
<1>10. CASE OutOfToolCalls
  BY <1>10 DEF OutOfToolCalls, Finish, TypeOK, AskedInv, StatsType
<1>11. ASSUME NEW call \in Calls, ToolCall(call)
      PROVE  AskedInv'
  BY <1>11 DEF ToolCall, RecordResult, TypeOK, AskedInv, StatsType
<1>12. ASSUME NEW call \in Calls, AskPermission(call)
      PROVE  AskedInv'
  BY <1>12 DEF AskPermission, TypeOK, AskedInv, StatsType
<1>13. ASSUME NEW allowed \in BOOLEAN, PermissionAnswered(allowed)
      PROVE  AskedInv'
  BY <1>13 DEF PermissionAnswered, RecordResult, TypeOK, AskedInv, StatsType
<1>14. CASE EndBatch
  BY <1>14 DEF EndBatch, history, TypeOK, AskedInv, StatsType
<1>15. CASE Review
  BY <1>15 DEF Review, CountFailure, Finish, history, TypeOK, AskedInv, StatsType
<1>16. CASE Timeout
  BY <1>16 DEF Timeout, Finish, TypeOK, AskedInv, StatsType
<1>17. CASE Cancel
  BY <1>17 DEF Cancel, TypeOK, AskedInv, StatsType
<1>18. CASE UNCHANGED vars
  BY <1>18 DEF vars, loopVars, history, TypeOK, AskedInv, StatsType
<1>. QED
  BY <1>1, <1>2, <1>3, <1>4, <1>5, <1>6, <1>7, <1>8, <1>9, <1>10, <1>11, <1>12, <1>13, <1>14, <1>15, <1>16, <1>17, <1>18 DEF Next, Run, Provider

(* The budgets. *)
LEMMA BudgetStep ==
  ASSUME TypeOK, AskedInv, BudgetsHold, [Next]_vars
  PROVE  BudgetsHold'
<1>1. CASE Start
  BY <1>1, LoopAssumption DEF Start, TypeOK, AskedInv, BudgetsHold, StatsType, NoStats
<1>2. CASE Analyze
  BY <1>2, LoopAssumption DEF Analyze, history, TypeOK, AskedInv, BudgetsHold, StatsType, NoStats
<1>3. CASE MakePlan
  BY <1>3, LoopAssumption DEF MakePlan, history, TypeOK, AskedInv, BudgetsHold, StatsType, NoStats
<1>4. CASE CheckCancelled
  BY <1>4, LoopAssumption DEF CheckCancelled, Finish, history, TypeOK, AskedInv, BudgetsHold, StatsType, NoStats
<1>5. CASE OutOfIterations
  BY <1>5, LoopAssumption DEF OutOfIterations, Finish, TypeOK, AskedInv, BudgetsHold, StatsType, NoStats
<1>6. CASE BeginIteration
  BY <1>6, LoopAssumption DEF BeginIteration, TypeOK, AskedInv, BudgetsHold, StatsType, NoStats
<1>7. CASE ProviderFails
  BY <1>7, LoopAssumption DEF ProviderFails, CountFailure, Finish, history, TypeOK, AskedInv, BudgetsHold, StatsType, NoStats
<1>8. CASE ProviderConcludes
  BY <1>8, LoopAssumption DEF ProviderConcludes, Finish, TypeOK, AskedInv, BudgetsHold, StatsType, NoStats
<1>9. ASSUME NEW n \in 1..MaxBatch, ProviderCallsTools(n)
      PROVE  BudgetsHold'
  BY <1>9, LoopAssumption DEF ProviderCallsTools, history, TypeOK, AskedInv, BudgetsHold, StatsType, NoStats
<1>10. CASE OutOfToolCalls
  BY <1>10, LoopAssumption DEF OutOfToolCalls, Finish, TypeOK, AskedInv, BudgetsHold, StatsType, NoStats
<1>11. ASSUME NEW call \in Calls, ToolCall(call)
      PROVE  BudgetsHold'
  BY <1>11, LoopAssumption DEF ToolCall, RecordResult, TypeOK, AskedInv, BudgetsHold, StatsType, NoStats
<1>12. ASSUME NEW call \in Calls, AskPermission(call)
      PROVE  BudgetsHold'
  BY <1>12, LoopAssumption DEF AskPermission, TypeOK, AskedInv, BudgetsHold, StatsType, NoStats
<1>13. ASSUME NEW allowed \in BOOLEAN, PermissionAnswered(allowed)
      PROVE  BudgetsHold'
  BY <1>13, LoopAssumption DEF PermissionAnswered, RecordResult, TypeOK, AskedInv, BudgetsHold, StatsType, NoStats
<1>14. CASE EndBatch
  BY <1>14, LoopAssumption DEF EndBatch, history, TypeOK, AskedInv, BudgetsHold, StatsType, NoStats
<1>15. CASE Review
  BY <1>15, LoopAssumption DEF Review, CountFailure, Finish, history, TypeOK, AskedInv, BudgetsHold, StatsType, NoStats
<1>16. CASE Timeout
  BY <1>16, LoopAssumption DEF Timeout, Finish, TypeOK, AskedInv, BudgetsHold, StatsType, NoStats
<1>17. CASE Cancel
  BY <1>17, LoopAssumption DEF Cancel, TypeOK, AskedInv, BudgetsHold, StatsType, NoStats
<1>18. CASE UNCHANGED vars
  BY <1>18 DEF vars, loopVars, history, TypeOK, AskedInv, BudgetsHold, StatsType, NoStats
<1>. QED
  BY <1>1, <1>2, <1>3, <1>4, <1>5, <1>6, <1>7, <1>8, <1>9, <1>10, <1>11, <1>12, <1>13, <1>14, <1>15, <1>16, <1>17, <1>18 DEF Next, Run, Provider

(* Place and announced state agree. *)
LEMMA ControlStep ==
  ASSUME TypeOK, ControlInv, [Next]_vars
  PROVE  ControlInv'
<1>1. CASE Start
  BY <1>1 DEF Start, TypeOK, ControlInv, AS!Terminal
<1>2. CASE Analyze
  BY <1>2 DEF Analyze, history, TypeOK, ControlInv, AS!Terminal
<1>3. CASE MakePlan
  BY <1>3 DEF MakePlan, history, TypeOK, ControlInv, AS!Terminal
<1>4. CASE CheckCancelled
  BY <1>4 DEF CheckCancelled, Finish, history, TypeOK, ControlInv, AS!Terminal
<1>5. CASE OutOfIterations
  BY <1>5 DEF OutOfIterations, Finish, TypeOK, ControlInv, AS!Terminal
<1>6. CASE BeginIteration
  BY <1>6 DEF BeginIteration, TypeOK, ControlInv, AS!Terminal
<1>7. CASE ProviderFails
  BY <1>7 DEF ProviderFails, CountFailure, Finish, history, TypeOK, ControlInv, AS!Terminal
<1>8. CASE ProviderConcludes
  BY <1>8 DEF ProviderConcludes, Finish, TypeOK, ControlInv, AS!Terminal
<1>9. ASSUME NEW n \in 1..MaxBatch, ProviderCallsTools(n)
      PROVE  ControlInv'
  BY <1>9 DEF ProviderCallsTools, history, TypeOK, ControlInv, AS!Terminal
<1>10. CASE OutOfToolCalls
  BY <1>10 DEF OutOfToolCalls, Finish, TypeOK, ControlInv, AS!Terminal
<1>11. ASSUME NEW call \in Calls, ToolCall(call)
      PROVE  ControlInv'
  BY <1>11 DEF ToolCall, RecordResult, TypeOK, ControlInv, AS!Terminal
<1>12. ASSUME NEW call \in Calls, AskPermission(call)
      PROVE  ControlInv'
  BY <1>12 DEF AskPermission, TypeOK, ControlInv, AS!Terminal
<1>13. ASSUME NEW allowed \in BOOLEAN, PermissionAnswered(allowed)
      PROVE  ControlInv'
  BY <1>13 DEF PermissionAnswered, RecordResult, TypeOK, ControlInv, AS!Terminal
<1>14. CASE EndBatch
  BY <1>14 DEF EndBatch, history, TypeOK, ControlInv, AS!Terminal
<1>15. CASE Review
  BY <1>15 DEF Review, CountFailure, Finish, history, TypeOK, ControlInv, AS!Terminal
<1>16. CASE Timeout
  BY <1>16 DEF Timeout, Finish, TypeOK, ControlInv, AS!Terminal
<1>17. CASE Cancel
  BY <1>17 DEF Cancel, TypeOK, ControlInv, AS!Terminal
<1>18. CASE UNCHANGED vars
  BY <1>18 DEF vars, loopVars, history, TypeOK, ControlInv, AS!Terminal
<1>. QED
  BY <1>1, <1>2, <1>3, <1>4, <1>5, <1>6, <1>7, <1>8, <1>9, <1>10, <1>11, <1>12, <1>13, <1>14, <1>15, <1>16, <1>17, <1>18 DEF Next, Run, Provider

(* At most one late iteration. *)
LEMMA CancelStep ==
  ASSUME TypeOK, CancelInv, [Next]_vars
  PROVE  CancelInv'
<1>1. CASE Start
  BY <1>1 DEF Start, TypeOK, CancelInv
<1>2. CASE Analyze
  BY <1>2 DEF Analyze, history, TypeOK, CancelInv
<1>3. CASE MakePlan
  BY <1>3 DEF MakePlan, history, TypeOK, CancelInv
<1>4. CASE CheckCancelled
  BY <1>4 DEF CheckCancelled, Finish, history, TypeOK, CancelInv
<1>5. CASE OutOfIterations
  BY <1>5 DEF OutOfIterations, Finish, TypeOK, CancelInv
<1>6. CASE BeginIteration
  BY <1>6 DEF BeginIteration, TypeOK, CancelInv
<1>7. CASE ProviderFails
  BY <1>7 DEF ProviderFails, CountFailure, Finish, history, TypeOK, CancelInv
<1>8. CASE ProviderConcludes
  BY <1>8 DEF ProviderConcludes, Finish, TypeOK, CancelInv
<1>9. ASSUME NEW n \in 1..MaxBatch, ProviderCallsTools(n)
      PROVE  CancelInv'
  BY <1>9 DEF ProviderCallsTools, history, TypeOK, CancelInv
<1>10. CASE OutOfToolCalls
  BY <1>10 DEF OutOfToolCalls, Finish, TypeOK, CancelInv
<1>11. ASSUME NEW call \in Calls, ToolCall(call)
      PROVE  CancelInv'
  BY <1>11 DEF ToolCall, RecordResult, TypeOK, CancelInv
<1>12. ASSUME NEW call \in Calls, AskPermission(call)
      PROVE  CancelInv'
  BY <1>12 DEF AskPermission, TypeOK, CancelInv
<1>13. ASSUME NEW allowed \in BOOLEAN, PermissionAnswered(allowed)
      PROVE  CancelInv'
  BY <1>13 DEF PermissionAnswered, RecordResult, TypeOK, CancelInv
<1>14. CASE EndBatch
  BY <1>14 DEF EndBatch, history, TypeOK, CancelInv
<1>15. CASE Review
  BY <1>15 DEF Review, CountFailure, Finish, history, TypeOK, CancelInv
<1>16. CASE Timeout
  BY <1>16 DEF Timeout, Finish, TypeOK, CancelInv
<1>17. CASE Cancel
  BY <1>17 DEF Cancel, TypeOK, CancelInv
<1>18. CASE UNCHANGED vars
  BY <1>18 DEF vars, loopVars, history, TypeOK, CancelInv
<1>. QED
  BY <1>1, <1>2, <1>3, <1>4, <1>5, <1>6, <1>7, <1>8, <1>9, <1>10, <1>11, <1>12, <1>13, <1>14, <1>15, <1>16, <1>17, <1>18 DEF Next, Run, Provider

(* The report follows the disk. *)
LEMMA ReportStep ==
  ASSUME TypeOK, AskedInv, ReportInv, [Next]_vars
  PROVE  ReportInv'
<1>1. CASE Start
  BY <1>1 DEF Start, TypeOK, ReportInv, StatsType, NoStats
<1>2. CASE Analyze
  BY <1>2 DEF Analyze, history, TypeOK, ReportInv, StatsType, NoStats
<1>3. CASE MakePlan
  BY <1>3 DEF MakePlan, history, TypeOK, ReportInv, StatsType, NoStats
<1>4. CASE CheckCancelled
  BY <1>4 DEF CheckCancelled, Finish, history, TypeOK, ReportInv, StatsType, NoStats
<1>5. CASE OutOfIterations
  BY <1>5 DEF OutOfIterations, Finish, TypeOK, ReportInv, StatsType, NoStats
<1>6. CASE BeginIteration
  BY <1>6 DEF BeginIteration, TypeOK, ReportInv, StatsType, NoStats
<1>7. CASE ProviderFails
  BY <1>7 DEF ProviderFails, CountFailure, Finish, history, TypeOK, ReportInv, StatsType, NoStats
<1>8. CASE ProviderConcludes
  BY <1>8 DEF ProviderConcludes, Finish, TypeOK, ReportInv, StatsType, NoStats
<1>9. ASSUME NEW n \in 1..MaxBatch, ProviderCallsTools(n)
      PROVE  ReportInv'
  BY <1>9 DEF ProviderCallsTools, history, TypeOK, ReportInv, StatsType, NoStats
<1>10. CASE OutOfToolCalls
  BY <1>10 DEF OutOfToolCalls, Finish, TypeOK, ReportInv, StatsType, NoStats
<1>11. ASSUME NEW call \in Calls, ToolCall(call)
      PROVE  ReportInv'
  BY <1>11 DEF ToolCall, RecordResult, TypeOK, ReportInv, StatsType, NoStats
<1>12. ASSUME NEW call \in Calls, AskPermission(call)
      PROVE  ReportInv'
  BY <1>12 DEF AskPermission, TypeOK, ReportInv, StatsType, NoStats
<1>13. ASSUME NEW allowed \in BOOLEAN, PermissionAnswered(allowed)
      PROVE  ReportInv'
  BY <1>13 DEF PermissionAnswered, RecordResult, TypeOK, ReportInv, StatsType, NoStats
<1>14. CASE EndBatch
  BY <1>14 DEF EndBatch, history, TypeOK, ReportInv, StatsType, NoStats
<1>15. CASE Review
  BY <1>15 DEF Review, CountFailure, Finish, history, TypeOK, ReportInv, StatsType, NoStats
<1>16. CASE Timeout
  BY <1>16 DEF Timeout, Finish, TypeOK, ReportInv, StatsType, NoStats
<1>17. CASE Cancel
  BY <1>17 DEF Cancel, TypeOK, ReportInv, StatsType, NoStats
<1>18. CASE UNCHANGED vars
  BY <1>18 DEF vars, loopVars, history, TypeOK, ReportInv, StatsType, NoStats
<1>. QED
  BY <1>1, <1>2, <1>3, <1>4, <1>5, <1>6, <1>7, <1>8, <1>9, <1>10, <1>11, <1>12, <1>13, <1>14, <1>15, <1>16, <1>17, <1>18 DEF Next, Run, Provider

(* Edits are consented to. *)
LEMMA ConsentStep ==
  ASSUME TypeOK, AskedInv, ConsentInv, [Next]_vars
  PROVE  ConsentInv'
<1>1. CASE Start
  BY <1>1, EditVerdict DEF Start, TypeOK, AskedInv, ConsentInv, EditsConsented
<1>2. CASE Analyze
  BY <1>2, EditVerdict DEF Analyze, history, TypeOK, AskedInv, ConsentInv, EditsConsented
<1>3. CASE MakePlan
  BY <1>3, EditVerdict DEF MakePlan, history, TypeOK, AskedInv, ConsentInv, EditsConsented
<1>4. CASE CheckCancelled
  BY <1>4, EditVerdict DEF CheckCancelled, Finish, history, TypeOK, AskedInv, ConsentInv, EditsConsented
<1>5. CASE OutOfIterations
  BY <1>5, EditVerdict DEF OutOfIterations, Finish, TypeOK, AskedInv, ConsentInv, EditsConsented
<1>6. CASE BeginIteration
  BY <1>6, EditVerdict DEF BeginIteration, TypeOK, AskedInv, ConsentInv, EditsConsented
<1>7. CASE ProviderFails
  BY <1>7, EditVerdict DEF ProviderFails, CountFailure, Finish, history, TypeOK, AskedInv, ConsentInv, EditsConsented
<1>8. CASE ProviderConcludes
  BY <1>8, EditVerdict DEF ProviderConcludes, Finish, TypeOK, AskedInv, ConsentInv, EditsConsented
<1>9. ASSUME NEW n \in 1..MaxBatch, ProviderCallsTools(n)
      PROVE  ConsentInv'
  BY <1>9, EditVerdict DEF ProviderCallsTools, history, TypeOK, AskedInv, ConsentInv, EditsConsented
<1>10. CASE OutOfToolCalls
  BY <1>10, EditVerdict DEF OutOfToolCalls, Finish, TypeOK, AskedInv, ConsentInv, EditsConsented
<1>11. ASSUME NEW call \in Calls, ToolCall(call)
      PROVE  ConsentInv'
  BY <1>11, EditVerdict DEF ToolCall, RecordResult, TypeOK, AskedInv, ConsentInv, EditsConsented
<1>12. ASSUME NEW call \in Calls, AskPermission(call)
      PROVE  ConsentInv'
  BY <1>12, EditVerdict DEF AskPermission, TypeOK, AskedInv, ConsentInv, EditsConsented
<1>13. ASSUME NEW allowed \in BOOLEAN, PermissionAnswered(allowed)
      PROVE  ConsentInv'
  BY <1>13, EditVerdict DEF PermissionAnswered, RecordResult, TypeOK, AskedInv, ConsentInv, EditsConsented
<1>14. CASE EndBatch
  BY <1>14, EditVerdict DEF EndBatch, history, TypeOK, AskedInv, ConsentInv, EditsConsented
<1>15. CASE Review
  BY <1>15, EditVerdict DEF Review, CountFailure, Finish, history, TypeOK, AskedInv, ConsentInv, EditsConsented
<1>16. CASE Timeout
  BY <1>16, EditVerdict DEF Timeout, Finish, TypeOK, AskedInv, ConsentInv, EditsConsented
<1>17. CASE Cancel
  BY <1>17, EditVerdict DEF Cancel, TypeOK, AskedInv, ConsentInv, EditsConsented
<1>18. CASE UNCHANGED vars
  BY <1>18 DEF vars, loopVars, history, TypeOK, AskedInv, ConsentInv, EditsConsented
<1>. QED
  BY <1>1, <1>2, <1>3, <1>4, <1>5, <1>6, <1>7, <1>8, <1>9, <1>10, <1>11, <1>12, <1>13, <1>14, <1>15, <1>16, <1>17, <1>18 DEF Next, Run, Provider

(* Every step announces a legal transition or none. *)
LEMMA RefinementStep ==
  ASSUME TypeOK, ControlInv, [Next]_vars
  PROVE  [AS!Next]_state
<1>1. CASE Start
  BY <1>1 DEF Start, TypeOK, ControlInv, AS!Next, AS!LegalTransitions, AS!States, AS!Terminal
<1>2. CASE Analyze
  BY <1>2 DEF Analyze, history, TypeOK, ControlInv, AS!Next, AS!LegalTransitions, AS!States, AS!Terminal
<1>3. CASE MakePlan
  BY <1>3 DEF MakePlan, history, TypeOK, ControlInv, AS!Next, AS!LegalTransitions, AS!States, AS!Terminal
<1>4. CASE CheckCancelled
  BY <1>4 DEF CheckCancelled, Finish, history, TypeOK, ControlInv, AS!Next, AS!LegalTransitions, AS!States, AS!Terminal
<1>5. CASE OutOfIterations
  BY <1>5 DEF OutOfIterations, Finish, TypeOK, ControlInv, AS!Next, AS!LegalTransitions, AS!States, AS!Terminal
<1>6. CASE BeginIteration
  BY <1>6 DEF BeginIteration, TypeOK, ControlInv, AS!Next, AS!LegalTransitions, AS!States, AS!Terminal
<1>7. CASE ProviderFails
  BY <1>7 DEF ProviderFails, CountFailure, Finish, history, TypeOK, ControlInv, AS!Next, AS!LegalTransitions, AS!States, AS!Terminal
<1>8. CASE ProviderConcludes
  BY <1>8 DEF ProviderConcludes, Finish, TypeOK, ControlInv, AS!Next, AS!LegalTransitions, AS!States, AS!Terminal
<1>9. ASSUME NEW n \in 1..MaxBatch, ProviderCallsTools(n)
      PROVE  [AS!Next]_state
  BY <1>9 DEF ProviderCallsTools, history, TypeOK, ControlInv, AS!Next, AS!LegalTransitions, AS!States, AS!Terminal
<1>10. CASE OutOfToolCalls
  BY <1>10 DEF OutOfToolCalls, Finish, TypeOK, ControlInv, AS!Next, AS!LegalTransitions, AS!States, AS!Terminal
<1>11. ASSUME NEW call \in Calls, ToolCall(call)
      PROVE  [AS!Next]_state
  BY <1>11 DEF ToolCall, RecordResult, TypeOK, ControlInv, AS!Next, AS!LegalTransitions, AS!States, AS!Terminal
<1>12. ASSUME NEW call \in Calls, AskPermission(call)
      PROVE  [AS!Next]_state
  BY <1>12 DEF AskPermission, TypeOK, ControlInv, AS!Next, AS!LegalTransitions, AS!States, AS!Terminal
<1>13. ASSUME NEW allowed \in BOOLEAN, PermissionAnswered(allowed)
      PROVE  [AS!Next]_state
  BY <1>13 DEF PermissionAnswered, RecordResult, TypeOK, ControlInv, AS!Next, AS!LegalTransitions, AS!States, AS!Terminal
<1>14. CASE EndBatch
  BY <1>14 DEF EndBatch, history, TypeOK, ControlInv, AS!Next, AS!LegalTransitions, AS!States, AS!Terminal
<1>15. CASE Review
  BY <1>15 DEF Review, CountFailure, Finish, history, TypeOK, ControlInv, AS!Next, AS!LegalTransitions, AS!States, AS!Terminal
<1>16. CASE Timeout
  BY <1>16 DEF Timeout, Finish, TypeOK, ControlInv, AS!Next, AS!LegalTransitions, AS!States, AS!Terminal
<1>17. CASE Cancel
  BY <1>17 DEF Cancel, TypeOK, ControlInv, AS!Next, AS!LegalTransitions, AS!States, AS!Terminal
<1>18. CASE UNCHANGED vars
  BY <1>18 DEF vars, loopVars, history, TypeOK, ControlInv, AS!Next, AS!LegalTransitions, AS!States, AS!Terminal
<1>. QED
  BY <1>1, <1>2, <1>3, <1>4, <1>5, <1>6, <1>7, <1>8, <1>9, <1>10, <1>11, <1>12, <1>13, <1>14, <1>15, <1>16, <1>17, <1>18 DEF Next, Run, Provider

-----------------------------------------------------------------------------
LEMMA InitIInv == Init => IInv
<1>. SUFFICES ASSUME Init PROVE IInv
  OBVIOUS
<1>1. TypeOK
  <2>1. result \in [outcome : AS!Terminal \cup {"none"}, stats : StatsType, timed_out : BOOLEAN]
    BY NoStatsType, ResultType DEF Init, NoResult
  <2>. QED BY <2>1, NoStatsType DEF Init, TypeOK, AS!States
<1>2. AskedInv /\ ControlInv /\ CancelInv
  BY DEF Init, AskedInv, ControlInv, CancelInv
<1>3. BudgetsHold
  BY LoopAssumption DEF Init, BudgetsHold, NoStats
<1>4. ReportInv /\ ConsentInv
  BY DEF Init, ReportInv, ConsentInv, EditsConsented, NoResult
<1>. QED BY <1>1, <1>2, <1>3, <1>4 DEF IInv

(* The inductive invariant holds of every behaviour. *)
THEOREM Inductive == Spec => []IInv
<1>1. IInv /\ [Next]_vars => IInv'
  BY TypeStep, AskedStep, BudgetStep, ControlStep, CancelStep, ReportStep, ConsentStep DEF IInv
<1>. QED BY InitIInv, <1>1, PTL DEF Spec

(* Type correctness of the loop. *)
THEOREM Typed == Spec => []TypeOK
<1>1. IInv => TypeOK
  BY DEF IInv
<1>. QED BY <1>1, Inductive, PTL

(* No run exceeds its budgets, whatever they are. *)
THEOREM Budgets == Spec => []BudgetsHold
<1>1. IInv => BudgetsHold
  BY DEF IInv
<1>. QED BY <1>1, Inductive, PTL

(* A cancel is honoured within one iteration, over all runs. *)
THEOREM CancelBound == Spec => []CancelWithinOneIteration
<1>1. IInv => CancelWithinOneIteration
  BY DEF IInv, CancelInv, CancelWithinOneIteration
<1>. QED BY <1>1, Inductive, PTL

(* A result that is not a timeout's lists exactly the changed files. *)
THEOREM Reports == Spec => []ResultReportsEdits
<1>1. IInv => ResultReportsEdits
  BY DEF IInv, ReportInv, ResultReportsEdits
<1>. QED BY <1>1, Inductive, PTL

(* Edits are allowed by policy or approved one by one. *)
THEOREM Consented == Spec => []EditsConsented
<1>1. IInv => EditsConsented
  BY DEF IInv, ConsentInv
<1>. QED BY <1>1, Inductive, PTL

(* The loop implements the abstract state machine: its announced states    *)
(* start Idle and move along legal transitions only.                       *)
THEOREM Refinement == Spec => LegalStates
<1>1. Init => AS!Init
  BY DEF Init, AS!Init
<1>2. IInv /\ [Next]_vars => [AS!Next]_state
  BY RefinementStep DEF IInv
<1>. QED BY <1>1, <1>2, Inductive, PTL DEF Spec, LegalStates, AS!Spec
=============================================================================
