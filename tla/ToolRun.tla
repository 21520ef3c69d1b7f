-------------------------------- MODULE ToolRun --------------------------------
(***************************************************************************)
(* ToolRegistry::execute (darb-tools registry) for a request that was      *)
(* allowed: the tools that take more than one step, the shell and the      *)
(* search, and what their results tell.  Reading and editing files is      *)
(* FilesTab, listing them Screen.                                          *)
(***************************************************************************)
EXTENDS ShellCommand, ProjectSearch

VARIABLES
  tool,    \* the tool that runs: "none", "shell", "search", or another's name
  result   \* NoResult, or the ToolResult

vars == <<tool, result, shellVars, searchVars>>

NoResult == [done |-> FALSE]

\* Of a shell command, shows are the streams whose output the result has.
ToolResult(success, truncated, shows) ==
  [done |-> TRUE, success |-> success, truncated |-> truncated, shows |-> shows]

Ok(truncated) == ToolResult(TRUE, truncated, {})
Failed == ToolResult(FALSE, FALSE, {})

\* git_status and git_diff wait for git's end and take its output whole; a tool
\* nobody has written is a failed result.
Execute(t) ==
  /\ tool = "none"
  /\ tool' = t
  /\ result' \in CASE t = "git" -> {Ok(FALSE), Failed}
                   [] t = "unknown" -> {Failed}
                   [] OTHER -> {NoResult}
  /\ UNCHANGED <<shellVars, searchVars>>

\* An ended command succeeded if sh says so, and then its stderr is dropped:
\* only the error of a failed one tells it.  Every other end is a failure.
ShellResult ==
  /\ tool = "shell" /\ caller = "back" /\ result = NoResult
  /\ result' \in IF outcome.kind = "ended"
                 THEN {ToolResult(TRUE, outcome.truncated, {"stdout"}),
                       ToolResult(FALSE, outcome.truncated, Streams)}
                 ELSE {Failed}
  /\ UNCHANGED <<tool, shellVars, searchVars>>

SearchResult ==
  /\ tool = "search" /\ over /\ result = NoResult
  /\ result' = Ok(cut)
  /\ UNCHANGED <<tool, shellVars, searchVars>>

\* The query is empty, or ripgrep failed.
SearchFails ==
  /\ tool = "search" /\ engine = "none"
  /\ result = NoResult
  /\ result' = Failed
  /\ UNCHANGED <<tool, shellVars, searchVars>>

Init == tool = "none" /\ result = NoResult /\ ShellInit /\ SearchInit

Next ==
  \/ \E t \in {"shell", "search", "git", "unknown"} : Execute(t)
  \/ tool = "shell" /\ ShellNext /\ UNCHANGED <<tool, result, searchVars>>
  \/ ShellResult
  \/ tool = "search" /\ result = NoResult /\ SearchNext /\ UNCHANGED <<tool, result, shellVars>>
  \/ SearchResult \/ SearchFails

\* The thread of the caller runs on, and so does the clock; a command need not.
Caller ==
  Refuse \/ Spawn \/ PollEnded \/ PollRuns \/ CheckTime \/ Kill \/ Reap \/ ReadEnd

Fairness ==
  /\ WF_vars(tool = "shell" /\ Caller /\ UNCHANGED <<tool, result, searchVars>>)
  /\ WF_vars(tool = "shell" /\ TimePasses /\ UNCHANGED <<tool, result, searchVars>>)
  /\ \A s \in Streams : WF_vars(tool = "shell" /\ Read(s) /\ UNCHANGED <<tool, result, searchVars>>)
  /\ WF_vars(tool = "search" /\ result = NoResult /\ SearchNext
               /\ UNCHANGED <<tool, result, shellVars>>)
  /\ WF_vars(ShellResult) /\ WF_vars(SearchResult)

Spec == Init /\ [][Next]_vars /\ Fairness

-----------------------------------------------------------------------------
(* Properties *)

\* Nothing is missing from a stream that a result not marked truncated shows.
ShownWhole ==
  tool = "shell" /\ result.done /\ ~result.truncated =>
    \A s \in result.shows : ~(outcome.output[s] < written[s])

\* What the tool calls the output of a command that ended is all of it, or says
\* it is cut, up to the result the agent gets.  That one may have no stderr, or
\* be marked truncated for a stderr it does not have.
OutputWholeOrCut == OutcomeWholeOrCut /\ ShownWhole

\* A tool that was started gives its result, whatever the command does, which
\* may hang, fill a pipe or write for ever, and however the project is laid
\* out; unless the command left a process that keeps the pipes open after sh
\* has ended, for which no time is set.
ToolsComeBack == tool # "none" ~> (result.done \/ (caller = "reading" /\ holds # {}))
=============================================================================
