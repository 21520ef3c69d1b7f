-------------------------------- MODULE Startup --------------------------------
(***************************************************************************)
(* The start of darb (apps/darb tui_loop::run) up to the first frame, by   *)
(* processes that share a project: each reads the transcript of the newest *)
(* session and opens one of its own, then builds the provider the settings *)
(* and the catalogue name, and runs without AI when that fails.  The user  *)
(* does what the failure's message says and starts again.                  *)
(***************************************************************************)
EXTENDS Routing, Memory, Functions

CONSTANTS
  Unreadable,    \* a file that is missing or does not parse
  Processes,     \* darb processes on the project
  Projects,      \* configurations, catalogue files and API keys to begin with
  Additions,     \* models a user may add to an empty catalogue
  ReplayLimit,   \* messages of the previous session shown (50 in run)
  MaxSessions,   \* bound: sessions created
  MaxMessages,   \* bound: messages in memory, and on the screens of all runs
  MaxKills       \* bound: starts that are killed before the first frame

ASSUME StartupAssumption ==
  /\ ReplayLimit \in Nat \ {0} /\ Processes # {}
  /\ MaxSessions \in Nat /\ MaxMessages \in Nat /\ MaxKills \in Nat

VARIABLES
  config, catalogue, keys,   \* the files and the environment
  phase,     \* "off", "looked", "replayed", "ready" or "live"
  sid,       \* the session of the process, 0 when it has no memory
  from,      \* during the start, the session it takes for the previous one
  shown,     \* during the start, the messages it will show of that session
  outcome,   \* why there is no AI, with the model the message names
  running,   \* is a task running?
  doing,     \* a message half dealt with: "record" it yet, or "show" it; or "none"
  said,      \* history: what the run has on the screen, while it has a session
  ended,     \* history: what the run that had each session had on the screen
  spoiled,   \* history: sessions some write to which failed
  kills      \* history: starts killed

fileVars == <<config, catalogue, keys>>
runVars == <<phase, sid, from, shown, outcome, running, doing, said, ended, spoiled, kills>>
startupVars == <<fileVars, dbVars, runVars>>

Routed == {"auto", "...", ""}   \* model names that leave the choice to the router

\* DarbConfig::default, which load_config uses when the file cannot be used.
Defaults == [model |-> "...", name |-> "openai", budget |-> "cheapest"]

Settings == IF config = Unreadable THEN Defaults ELSE config

\* from_env: the second variable counts when the first is unset, not when it is
\* empty.
Key == IF keys.darb = "unset" THEN keys.openai ELSE keys.darb

BuildAdapter(provider) ==
  CASE provider # "openai" -> "not implemented"
    [] provider = "openai" /\ Key # "set" -> "no key"
    [] OTHER -> "none"

\* build_provider: a model that is named is used; else the catalogue decides.
BuildProvider ==
  LET choice == Route(catalogue, "code", Settings.budget)
  IN  CASE Settings.model \notin Routed -> Failure(BuildAdapter(Settings.name), 0)
        [] Settings.model \in Routed /\ catalogue = Unreadable -> Failure("no catalogue", 0)
        [] Settings.model \in Routed /\ catalogue # Unreadable ->
             IF choice.error # "none" THEN choice
             ELSE Failure(BuildAdapter(catalogue[choice.about].provider), 0)

Nothing == Failure("none", 0)

Live(p) == phase[p] = "live"
Offline(p) == Live(p) /\ outcome[p].error # "none"
Online(p) == Live(p) /\ outcome[p].error = "none"

\* run, first part: open_memory opens the database, or does not, and looks for
\* the newest session.
Launch(p) ==
  /\ phase[p] = "off" /\ outcome[p] = Nothing
  /\ \/ /\ phase' = [phase EXCEPT ![p] = "looked"]
        /\ from' = [from EXCEPT ![p] = sessions]
     \/ /\ phase' = [phase EXCEPT ![p] = "ready"]
        /\ UNCHANGED from
  /\ UNCHANGED <<fileVars, dbVars, sid, shown, outcome, running, doing, said, ended, spoiled,
                 kills>>

\* What the screen is to show of the newest session; nothing when it cannot be read.
Replay(p) ==
  /\ phase[p] = "looked"
  /\ phase' = [phase EXCEPT ![p] = "replayed"]
  /\ shown' = [shown EXCEPT ![p] = IF from[p] = 0 THEN <<>>
                                   ELSE RecentMessages(from[p], ReplayLimit)]
  /\ UNCHANGED <<fileVars, dbVars, sid, from, outcome, running, doing, said, ended, spoiled, kills>>

ReplayFails(p) ==
  /\ phase[p] = "looked"
  /\ phase' = [phase EXCEPT ![p] = "replayed"]
  /\ UNCHANGED <<fileVars, dbVars, sid, from, shown, outcome, running, doing, said, ended, spoiled,
                 kills>>

\* open_memory, last part.
StartSession(p) ==
  /\ phase[p] = "replayed" /\ sessions < MaxSessions
  /\ CreateSession
  /\ sid' = [sid EXCEPT ![p] = sessions']
  /\ phase' = [phase EXCEPT ![p] = "ready"]
  /\ UNCHANGED <<fileVars, from, shown, outcome, running, doing, said, ended, spoiled, kills>>

StartSessionFails(p) ==
  /\ phase[p] = "replayed"
  /\ phase' = [phase EXCEPT ![p] = "ready"]
  /\ UNCHANGED <<fileVars, dbVars, sid, from, shown, outcome, running, doing, said, ended, spoiled,
                 kills>>

\* run, second part: the provider, and the first frame.
Build(p) ==
  /\ phase[p] = "ready"
  /\ outcome' = [outcome EXCEPT ![p] = BuildProvider]
  /\ phase' = [phase EXCEPT ![p] = "live"]
  /\ from' = [from EXCEPT ![p] = 0] /\ shown' = [shown EXCEPT ![p] = <<>>]
  /\ UNCHANGED <<fileVars, dbVars, sid, running, doing, said, ended, spoiled, kills>>

\* A write that fails is not told.
Record(p, role, blank) ==
  \/ /\ sid[p] # 0
     /\ RecordMessage(sid[p], role, blank)
     /\ UNCHANGED spoiled
  \/ /\ spoiled' = spoiled \cup ({sid[p]} \ {0})
     /\ UNCHANGED dbVars

Show(p, role) ==
  said' = IF sid[p] = 0 THEN said
          ELSE [said EXCEPT ![p] = Append(@, [session |-> sid[p], role |-> role])]

\* There is room for a message in memory and on the screens of all runs.
Total(screens) == FoldFunction(LAMBDA screen, n : Len(screen) + n, 0, screens)
Room == Len(messages) < MaxMessages /\ Total(said) + Total(ended) < MaxMessages

\* KeyOutcome::Submitted: the line is shown, then recorded.  Without AI, or while
\* a task runs, nothing else happens.
Submit(p) ==
  /\ Live(p) /\ doing[p] = "none" /\ Room
  /\ Show(p, "user")
  /\ doing' = [doing EXCEPT ![p] = "record"]
  /\ UNCHANGED <<fileVars, dbVars, phase, sid, from, shown, outcome, running, ended, spoiled,
                 kills>>

RecordLine(p) ==
  /\ doing[p] = "record"
  /\ Record(p, "user", FALSE)
  /\ doing' = [doing EXCEPT ![p] = "none"]
  /\ running' = [running EXCEPT ![p] = @ \/ Online(p)]
  /\ UNCHANGED <<fileVars, phase, sid, from, shown, outcome, said, ended, kills>>

\* The fold of AgentFinished: the summary is recorded, unless it is blank, then
\* shown.  A blank one shows as nothing.
Finish(p) ==
  /\ running[p] /\ doing[p] = "none" /\ Room
  /\ \E blank \in BOOLEAN :
       /\ Record(p, "agent", blank)
       /\ doing' = [doing EXCEPT ![p] = IF blank THEN "none" ELSE "show"]
  /\ running' = [running EXCEPT ![p] = FALSE]
  /\ UNCHANGED <<fileVars, phase, sid, from, shown, outcome, said, ended, kills>>

ShowSummary(p) ==
  /\ doing[p] = "show"
  /\ Show(p, "agent")
  /\ doing' = [doing EXCEPT ![p] = "none"]
  /\ UNCHANGED <<fileVars, dbVars, phase, sid, from, shown, outcome, running, ended, spoiled,
                 kills>>

\* The process ends, by quit or killed at any point of its start or run.
End(p) ==
  /\ phase[p] # "off"
  /\ kills' = IF Live(p) THEN kills ELSE kills + 1
  /\ kills' <= MaxKills
  /\ phase' = [phase EXCEPT ![p] = "off"]
  /\ ended' = IF sid[p] = 0 THEN ended ELSE [ended EXCEPT ![sid[p]] = said[p]]
  /\ sid' = [sid EXCEPT ![p] = 0]
  /\ from' = [from EXCEPT ![p] = 0]
  /\ shown' = [shown EXCEPT ![p] = <<>>]
  /\ said' = [said EXCEPT ![p] = <<>>]
  /\ running' = [running EXCEPT ![p] = FALSE]
  /\ doing' = [doing EXCEPT ![p] = "none"]
  /\ UNCHANGED <<fileVars, dbVars, outcome, spoiled>>

(***************************************************************************)
(* The user, who reads the message once the screen is gone.  Whatever she  *)
(* edits is readable afterwards.                                           *)
(***************************************************************************)
NameModel == config' = [Settings EXCEPT !.model = "named"] /\ UNCHANGED <<catalogue, keys>>

AddModel ==
  /\ catalogue \in {Unreadable, <<>>}
  /\ \E m \in Additions : catalogue' = <<m>>
  /\ UNCHANGED <<config, keys>>

DeclareStrength ==
  /\ \E i \in DOMAIN catalogue :
       catalogue' = [catalogue EXCEPT ![i].strengths = @ \cup {"code"}]
  /\ UNCHANGED <<config, keys>>

RaiseBudget ==
  /\ \E i \in 1..2 : /\ Settings.budget = Budgets[i]
                     /\ config' = [Settings EXCEPT !.budget = Budgets[i + 1]]
  /\ UNCHANGED <<catalogue, keys>>

MarkCheaper(i) ==
  /\ catalogue[i].cost > 0
  /\ catalogue' = [catalogue EXCEPT ![i].cost = @ - 1]
  /\ UNCHANGED <<config, keys>>

NameProvider ==
  \/ /\ Settings.name # "openai"
     /\ config' = [Settings EXCEPT !.name = "openai"]
     /\ UNCHANGED <<catalogue, keys>>
  \/ /\ catalogue # Unreadable
     /\ \E i \in DOMAIN catalogue :
          /\ catalogue[i].provider # "openai"
          /\ catalogue' = [catalogue EXCEPT ![i].provider = "openai"]
     /\ UNCHANGED <<config, keys>>

SetKey == keys' = [keys EXCEPT !.darb = "set"] /\ UNCHANGED <<config, catalogue>>

\* What each message tells to do (RouteError::message, build_provider,
\* build_adapter, OpenAIAdapter::new).
Advice(o) ==
  \/ o.error \in {"no catalogue", "empty", "no match", "over budget"} /\ NameModel
  \/ o.error = "empty" /\ AddModel
  \/ o.error = "no match" /\ DeclareStrength
  \/ o.error = "over budget" /\ (RaiseBudget \/ MarkCheaper(o.about))
  \/ o.error = "not implemented" /\ NameProvider
  \/ o.error = "no key" /\ SetKey

Heed(p) ==
  /\ phase[p] = "off" /\ outcome[p].error # "none"
  /\ Advice(outcome[p])
  /\ outcome' = [outcome EXCEPT ![p] = Nothing]
  /\ UNCHANGED <<dbVars, phase, sid, from, shown, running, doing, said, ended, spoiled, kills>>

StartupInit ==
  /\ \E project \in Projects :
       config = project[1] /\ catalogue = project[2] /\ keys = project[3]
  /\ MemoryInit
  /\ phase = [p \in Processes |-> "off"]
  /\ sid = [p \in Processes |-> 0] /\ from = sid
  /\ shown = [p \in Processes |-> <<>>] /\ said = shown
  /\ outcome = [p \in Processes |-> Nothing]
  /\ running = [p \in Processes |-> FALSE]
  /\ doing = [p \in Processes |-> "none"]
  /\ ended = [s \in 1..MaxSessions |-> <<>>]
  /\ spoiled = {} /\ kills = 0

StartupNext ==
  \E p \in Processes :
    \/ Launch(p) \/ Replay(p) \/ ReplayFails(p) \/ StartSession(p) \/ StartSessionFails(p)
    \/ Build(p) \/ Submit(p) \/ RecordLine(p) \/ Finish(p) \/ ShowSummary(p) \/ End(p) \/ Heed(p)

\* A start goes on, and a user without AI leaves, does what the message said and
\* starts again.
Proceed(p) ==
  \/ Launch(p) \/ Replay(p) \/ ReplayFails(p) \/ StartSession(p) \/ StartSessionFails(p)
  \/ Build(p)
  \/ Offline(p) /\ End(p)
  \/ Heed(p)

Fairness == \A p \in Processes : WF_startupVars(Proceed(p))

StartupSpec == StartupInit /\ [][StartupNext]_startupVars /\ Fairness

-----------------------------------------------------------------------------
\* What the run that had a session has, or had, on the screen.
SaidIn(s) == IF \E q \in Processes : sid[q] = s
             THEN said[CHOOSE q \in Processes : sid[q] = s]
             ELSE ended[s]

UserLine(s) == [session |-> s, role |-> "user"]
Summary(s) == [session |-> s, role |-> "agent"]

\* What memory may have of such a screen: the line last submitted may be missing,
\* and a summary may be there that is not on the screen yet.
Kept(s, screen) ==
  {screen, Append(screen, Summary(s))}
    \cup (IF screen # <<>> /\ Last(screen) = UserLine(s) THEN {Front(screen)} ELSE {})

(* The transcript a start shows as that of the previous session is the last    *)
(* part of what the run that had this session, ended, killed between its       *)
(* screen and memory or still going on, had on the screen, in order and        *)
(* without gaps, but for one line of the user that the kill kept out of memory *)
(* or one summary that it kept off the screen; unless a write of the session   *)
(* failed (open_memory, recent_messages, create_session, record_message).      *)
ReplayIsTheLastRun ==
  [][\A p \in Processes :
       Replay(p) /\ from[p] \notin spoiled \cup {0}
       => \E kept \in Kept(from[p], SaidIn(from[p])) : shown'[p] = LastOf(kept, ReplayLimit)
    ]_startupVars

(* Every message of a start without AI names the fix: a user who does what the *)
(* messages say, one after the other and whichever alternative she takes, ends *)
(* with the AI online (RouteError::message, build_provider, build_adapter).    *)
AdviceEndsOnline ==
  (\E p \in Processes : Offline(p)) ~> (\E p \in Processes : Online(p))
=============================================================================
