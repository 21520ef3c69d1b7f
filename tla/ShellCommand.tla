----------------------------- MODULE ShellCommand -----------------------------
(***************************************************************************)
(* One command of the shell tool (darb-tools shell).  The caller starts    *)
(* sh, polls until it has ended or the time is up, and only then reads     *)
(* the two pipes its output goes to.  A pipe holds so much and no more: a  *)
(* process that finds it full waits.  sh may leave a process behind that   *)
(* still has the pipes; reading ends when nobody has them any more.        *)
(***************************************************************************)
EXTENDS Integers

CONSTANTS
  PipeSize,   \* what a pipe holds, in units of output
  MaxOutput,  \* MAX_OUTPUT_CHARS, in the same units
  MaxWrites   \* bound: units a command writes to one stream

ASSUME ShellAssumption ==
  PipeSize \in Nat \ {0} /\ MaxOutput \in Nat /\ MaxWrites \in Nat

VARIABLES
  caller,   \* "idle", "polling", "checking" the time, "killing", "reaping", "reading" or "back"
  late,     \* has COMMAND_TIMEOUT passed since the start?
  alive,    \* the processes of the command that run: "sh", "left"
  reaped,   \* was sh waited for?
  holds,    \* the processes that have the pipes open
  pipe,     \* units in each pipe
  written,  \* units written to each stream so far
  taken,    \* units of each stream the caller has read
  outcome   \* NoOutcome, or what run_with_timeout returned

shellVars == <<caller, late, alive, reaped, holds, pipe, written, taken, outcome>>

Streams == {"stdout", "stderr"}
NoOutcome == [kind |-> "none"]

ShellInit ==
  /\ caller = "idle" /\ late = FALSE
  /\ alive = {} /\ reaped = FALSE /\ holds = {}
  /\ pipe = [s \in Streams |-> 0] /\ written = pipe /\ taken = pipe
  /\ outcome = NoOutcome

\* An empty command is refused, and sh may not start.
Refuse ==
  /\ caller = "idle"
  /\ caller' = "back"
  /\ outcome' = [kind |-> "refused"]
  /\ UNCHANGED <<late, alive, reaped, holds, pipe, written, taken>>

Spawn ==
  /\ caller = "idle"
  /\ caller' = "polling"
  /\ alive' = {"sh"} /\ holds' = {"sh"}
  /\ UNCHANGED <<late, reaped, pipe, written, taken, outcome>>

-----------------------------------------------------------------------------
(* The command *)

\* Into a pipe that is read, or will be.
Write(p, s) ==
  /\ caller # "back" /\ p \in alive \cap holds
  /\ pipe[s] < PipeSize /\ written[s] < MaxWrites
  /\ pipe' = [pipe EXCEPT ![s] = @ + 1]
  /\ written' = [written EXCEPT ![s] = @ + 1]
  /\ UNCHANGED <<caller, late, alive, reaped, holds, taken, outcome>>

\* sh starts a process in the background, with its pipes or with output elsewhere.
Leave ==
  /\ "sh" \in alive /\ "left" \notin alive
  /\ alive' = alive \cup {"left"}
  /\ \/ holds' = holds \cup {"left"}
     \/ holds' = holds
  /\ UNCHANGED <<caller, late, reaped, pipe, written, taken, outcome>>

\* A process ends, which closes its end of the pipes.
Exit(p) ==
  /\ p \in alive
  /\ alive' = alive \ {p}
  /\ holds' = holds \ {p}
  /\ UNCHANGED <<caller, late, reaped, pipe, written, taken, outcome>>

-----------------------------------------------------------------------------
(* The caller *)

TimePasses ==
  /\ caller \in {"polling", "checking"} /\ ~late
  /\ late' = TRUE
  /\ UNCHANGED <<caller, alive, reaped, holds, pipe, written, taken, outcome>>

\* try_wait finds that sh has ended, which is looked at before the time ...
PollEnded ==
  /\ caller = "polling" /\ "sh" \notin alive
  /\ caller' = "reading"
  /\ reaped' = TRUE
  /\ UNCHANGED <<late, alive, holds, pipe, written, taken, outcome>>

\* ... or that it runs.  From here on it may end without the caller seeing it.
PollRuns ==
  /\ caller = "polling" /\ "sh" \in alive
  /\ caller' = "checking"
  /\ UNCHANGED <<late, alive, reaped, holds, pipe, written, taken, outcome>>

(* Mutant of CheckTime: the shell is waited for as long as it runs. *)
CheckNever ==
  /\ caller = "checking"
  /\ caller' = "polling"
  /\ UNCHANGED <<late, alive, reaped, holds, pipe, written, taken, outcome>>

\* Unless the time is up, the caller sleeps and polls again.
CheckTime ==
  /\ caller = "checking"
  /\ caller' = IF late THEN "killing" ELSE "polling"
  /\ UNCHANGED <<late, alive, reaped, holds, pipe, written, taken, outcome>>

(* Mutant of Kill: a kill that finds sh gone is the end of the matter. *)
KillGivesUp ==
  /\ caller = "killing"
  /\ IF "sh" \in alive THEN caller' = "reaping" /\ UNCHANGED outcome
     ELSE caller' = "back" /\ outcome' = [kind |-> "timed_out"]
  /\ alive' = alive \ {"sh"} /\ holds' = holds \ {"sh"}
  /\ UNCHANGED <<late, reaped, pipe, written, taken>>

\* sh is killed, if it has not ended meanwhile, and no other process is.
Kill ==
  /\ caller = "killing"
  /\ caller' = "reaping"
  /\ alive' = alive \ {"sh"} /\ holds' = holds \ {"sh"}
  /\ UNCHANGED <<late, reaped, pipe, written, taken, outcome>>

\* The wait after the kill; what the pipes hold is dropped with them.
Reap ==
  /\ caller = "reaping"
  /\ caller' = "back"
  /\ reaped' = TRUE
  /\ outcome' = [kind |-> "timed_out"]
  /\ UNCHANGED <<late, alive, holds, pipe, written, taken>>

\* The system cannot tell: the call fails and leaves sh to itself.
PollFails ==
  /\ caller = "polling"
  /\ caller' = "back"
  /\ outcome' = [kind |-> "lost"]
  /\ UNCHANGED <<late, alive, reaped, holds, pipe, written, taken>>

\* wait_with_output reads both pipes as they fill.
Read(s) ==
  /\ caller = "reading" /\ pipe[s] > 0
  /\ pipe' = [pipe EXCEPT ![s] = @ - 1]
  /\ taken' = [taken EXCEPT ![s] = @ + 1]
  /\ UNCHANGED <<caller, late, alive, reaped, holds, written, outcome>>

\* cap_stream
Capped(units) == IF units <= MaxOutput THEN units ELSE MaxOutput

Result ==
  [kind |-> "ended", output |-> [s \in Streams |-> Capped(taken[s])],
   truncated |-> \E s \in Streams : taken[s] > MaxOutput]

(* Mutant of ReadEnd: reading ends with sh, whoever else has the pipes. *)
ReadEndWithShell ==
  /\ caller = "reading"
  /\ caller' = "back" /\ outcome' = Result
  /\ UNCHANGED <<late, alive, reaped, holds, pipe, written, taken>>

\* Both pipes are empty and nobody can write to them any more.
ReadEnd ==
  /\ caller = "reading"
  /\ holds = {} /\ \A s \in Streams : pipe[s] = 0
  /\ caller' = "back"
  /\ outcome' = Result
  /\ UNCHANGED <<late, alive, reaped, holds, pipe, written, taken>>

\* A pipe cannot be read: the call fails, with sh already reaped.
ReadFails ==
  /\ caller = "reading"
  /\ caller' = "back"
  /\ outcome' = [kind |-> "unread"]
  /\ UNCHANGED <<late, alive, reaped, holds, pipe, written, taken>>

ShellNext ==
  \/ Refuse \/ Spawn \/ Leave \/ TimePasses
  \/ PollEnded \/ PollRuns \/ PollFails \/ CheckTime \/ Kill \/ Reap \/ ReadEnd \/ ReadFails
  \/ \E s \in Streams : Read(s) \/ \E p \in {"sh", "left"} : Write(p, s)
  \/ \E p \in {"sh", "left"} : Exit(p)

-----------------------------------------------------------------------------
(* Properties *)

\* The output of a command that ended is all of it, or said to be cut, and
\* nothing of the command is left that could still write there.
OutcomeWholeOrCut ==
  outcome.kind = "ended" =>
    /\ holds = {} /\ reaped
    /\ outcome.truncated = \E s \in Streams : outcome.output[s] < written[s]

\* No sh is left behind, running or unreaped, by a call that came back, also if
\* it ends between the poll that saw it run and the kill; only where the system
\* could not tell its state is it left to itself.
NoShellLeftBehind ==
  caller = "back" /\ outcome.kind # "lost" =>
    "sh" \notin alive /\ (reaped \/ outcome.kind = "refused")
=============================================================================
