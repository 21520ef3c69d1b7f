# A TLA+ model of Darb Shell

Darb Shell is a terminal application in Rust: a user talks to an AI agent that reads and edits a
project through a small set of tools, under permissions the user and an *AI mode* (Mentor, Assist,
Autonomous) set. This directory holds TLA+ modules of its control logic, the configurations TLC
checks them with, and proofs for TLAPS. Paths below are relative to the repository.

## 1. The system

| Component | Code | State it keeps | Operations | Talks to |
|---|---|---|---|---|
| Permission manager | `crates/darb-core/src/permissions` | policy (`RwLock`), single-use grants (`Mutex`) | `check`, `grant_once`, `set_config` | called by every tool registry |
| AI mode, workspace | `crates/darb-core/src/workspace` | mode, git snapshot, files, processes, messages | `cycle_mode`, `apply_to`, `GitSnapshot::parse` | owned by the application, published as an event |
| Event bus | `crates/darb-core/src/events` | the newest 64 events of a broadcast channel | `emit`, `try_recv` | agent, supervisor and application write; the application reads |
| Agent loop | `crates/darb-agent/src/loop_` (with `state`, `executor`, `reviewer`, `planner`, `tool_calling`) | state, counters, changed files, cancel flag | `run`, `cancel` | provider, tool registry, bus, `PermissionResponder` |
| Supervisor | `crates/darb-agent/src/supervisor` | mode, kill-switch, running total (atomics) | `set_mode`, `stop`, `restart`, `drive`, `Handle::stop` | calls the agent, writes the bus |
| Tool registry | `crates/darb-tools/src/registry` | a permission manager, the project root | `dispatch`, `grant_once`, `set_permissions`, `execute` | the tools |
| Tools | `crates/darb-tools/src/{editor,shell,search,filesystem,git}` | none between calls | `edit_file`, `run_command`, `search_project`, `read_file`, `list_directory`, `git_status` | disk, child processes |
| Application loop | `apps/darb/src/tui_loop.rs` | `busy`, `pending`, `last_request`, the `Ui` | one turn: fold events, take reply halves, draw, handle a key | all of the above |
| Presentation | `crates/darb-tui` | the `App`: dialog, indicator, workspace, editor, palette | `apply_event`, `handle_key`, `handle_mouse` | the application loop |
| Providers | `crates/darb-providers` | HTTP client, the catalogue of models | `complete`, `stream`, `route` | the agent loop, the start |
| Context | `crates/darb-context` | the map of the project during one call | `scan`, `score`, `select`, `truncate_middle` | disk; called by the agent loop |
| Memory | `crates/darb-memory` | `memory.db`: sessions, messages, tool calls, decisions | `create_session`, `record_message`, `recent_messages` | the application loop, any number of processes |
| Configuration, i18n, errors | `crates/darb-core` | text and numbers | load, look up | all |

Three kinds of thread run in a process: the user's thread (the application loop), the runtime threads
that poll agent runs and drives, and the pump of a provider's stream. They share the bus, the channel
of reply halves, the supervisor's atomics, the agent's cancel flag and the locks of a permission
manager.

### What is hard in it

* **Two locks, two atomics.** `check` and `set_config` each take two locks one after the other;
  `can_run` reads two atomics while `set_mode` writes them.
* **Beliefs made of events.** `busy`, the background indicator, the last requested tool and the
  workspace on the screen are what the loop folded from a channel that overwrites its oldest events.
* **A question in two halves.** The dialog comes from the bus and the slot for its answer from a
  channel, and the terminal and the editor use the same dialog and slot.
* **Answers that never come, or come late.** The timeout drops a run at whatever it awaits, while
  its dialog may be open.
* **Cancellation by flags** that are read at boundaries and never reset.
* **Budgets** over iterations, calls, failures, tokens and bytes.
* **Files with three writers.** The editor of the Files tab, the agent's `edit_file` and any program
  outside read a text, decide, and write it later.
* **Two copies of one layout.** What is drawn and what a click means are computed by separate code.
* **A child that outlives its command**, and pipes that fill while nobody reads them.
* **A start of many steps** on a database and settings that another process, or a kill, may change
  between them.

The list with source lines is `hazards` in `PROJECT.json`.

### What makes each component correct

* Permission manager: a confirmation is spent once, dies with the policy it was given under, and
  never stands in for a denial; a mode is a ceiling.
* Agent loop: bounded, cancellable, moves along the announced state machine, edits only with
  consent, reports what it edited, always ends.
* Supervisor: taking the power back lands within one task; idle means drained; the total is exact;
  drives end.
* Application loop: one run at a time; nothing passes a question without a yes of its own; the mode
  on the screen is the mode in force; what it believes is repaired after a loss.
* Bus: bounded, never blocks a writer, a reader learns that it lagged.
* Providers: what is received is what was sent, in order; both ends of a stream come to an end.
* Files tab: an edit applies to the text it was checked against; what says it is saved is; the cursor
  stays inside its buffer.
* Presentation: a click acts on what is drawn there; a listing belongs to the directory named over it.
* Tools: a result is whole or says it is cut; a call comes back; no shell is left behind.
* Start: the transcript shown is that of the run before; the message of a failed start leads out of
  the failure.
* Context: keeps within the token budget, prefers what is relevant, never hides that it cut the map.

## 2. The modules

| Module | Models | Atomic steps |
|---|---|---|
| `Policy` | decisions, categories, ceilings, `apply_to`, `evaluate_with` and the functions under it, as operators | - |
| `PermissionManager` | the two locks under any number of threads | one lock section |
| `AgentStates` | the state machine of `is_legal_transition`: the abstract specification of the agent | one announced transition |
| `AgentLoop` | `Agent::run` with its timeout, several runs of one agent | a stretch without an await or a read of the cancel flag |
| `Supervisor` | the two atomics, the total, every drive | one load or store another thread may come between |
| `UiLoop` | the application loop against one agent, for confirmations | one event folded, one drain of the reply halves, one key |
| `Session` | application loop, runs and drives over the bounded bus | the same, with the supervisor's steps |
| `SseStream` | one streamed request: `fetch_response`, the pump of `OpenAIAdapter::stream`, the channel between them | one chunk, one line, one event |
| `PromptContext` | `Indexer::scan`, `score`, `select` and the shares of `build_context`, over a project that changes | one directory read, one file read |
| `FilesTab` | the buffer of the Files tab, the save with its question, `edit_file` from both registries, programs outside | one read, one check, one emptying or filling of the file, one key, one event |
| `Screen` | layout, drawing and hit testing, keys and clicks, panels, explorer, steps, palette | one key, one click, one event, one listing |
| `ShellCommand` | one command: `sh`, what it leaves behind, two pipes, the poll, the kill, the reading | one write, one read, one poll |
| `ProjectSearch` | one search, by ripgrep or by the walk | one directory listed, one path looked at |
| `ToolRun` | `ToolRegistry::execute` over the two before it: composes them | one step of a tool |
| `Routing` | `Router::route` over a catalogue, as operators | - |
| `Memory` | sessions and messages of `memory.db`, as operators and actions | one statement |
| `Startup` | `tui_loop::run` up to the first frame, by several processes, and the user between two starts: composes the two before it | one statement, one build of the provider, one edit of a file |

`Session` composes: its supervisor is an instance of `Supervisor` (every task a drive with a queue
of one, `restart` never called, as in the application) and its actions use that instance's actions.
`AgentLoop` and `UiLoop` use `Policy` for verdicts. `AgentLoop` instantiates `AgentStates` as what it
implements. The `MC...` modules give constants that a configuration file cannot write.

How state and actions correspond to the code is the `map` of `PROJECT.json`, definition by
definition. Choices a reader should know:

* **Policy.** A request is its *kind*: the tool family, and for a shell command the first of the
  text predicates that holds (`sudo`, push, destructive). What the predicates match is not modelled.
* **PermissionManager.** A policy has a version number so that properties can say which policy a
  confirmation was given under. Poisoned locks are not modelled: no code panics holding one.
* **AgentLoop.** The provider's answer is a failure, a conclusion or a batch of calls. A tool call
  succeeds or fails at will, unless policy refuses it or no such tool exists. Only `edit_file` edits in
  the sense of the properties, as in the code; what a shell command does to files is invisible to the
  agent and to the model. An edit that failed is no change, as in the code, though it may have emptied
  the file. A timeout can hit the two awaits, the provider and the question. Tool calls are
  synchronous, and a run's cancel flag belongs to the agent, not to the run.
* **Supervisor.** `taken` records that the user took the power back (by the mode or the
  kill-switch) and has not called `restart`; `late` counts the tasks each drive began after that.
* **UiLoop.** The bus loses nothing here (loss is `Session`'s subject). `pending` is the slot, with
  the request it belongs to; dropping a reply half is a "no", as `unwrap_or(false)` makes it.
  The mode cycle acts even when a dialog is open, as the loop intercepts it. The requests of a panel
  share one grant key.
* **Session.** The events the loop only draws are one kind, `state`: the agent's announced state, which
  the loop folds (`agentState`) and reads again when it writes the outcome beside a decision. A run
  announces its outcome and then its end. A workspace is its mode and whether
  git shows a repository. A run is reduced to its events; the timeout is one of the ways it ends.
  Cancelling a run only makes `RunEnds` come sooner, so the flag is left out. The palette's commands
  take several keys and change the workspace only by `refresh_git`, which is modelled where a run's
  end calls it. Of a decision the run that took it and the outcome are kept (`decided`).
* **FilesTab.** A text is a short sequence of characters: a plain one, both line ends, a byte that is
  not UTF-8, and *marks*, one for each thing the agent or an outside program writes, so that
  properties can ask what became of it. `std::fs::write` empties the file and then fills it, and may
  fail before, between or after the two. Policy lets a save through, asks or refuses, at will. The
  agent's questions are there as what they do to the dialog and the slot; `UiLoop` has the rest.
* **Screen.** Toasts, which are drawn over everything else for a few seconds and take no clicks, are
  left out: a click on one reaches what lies below it. A place on the terminal is a pair of numbers,
  and both the drawing (`Drawn`) and the hit test (`Hit`) are functions of it, each from its own code.
  What the explorer lists is any directory of a small project whose directories may vanish and come
  back. Answering a dialog, editing a file and submitting a line are other modules' subject.
* **ShellCommand, ProjectSearch, ToolRun.** A command is any process that writes, waits at a full pipe,
  leaves a process behind with or without its pipes, ends or never ends. Output and its limit are
  counted in units. A file is the number of its lines that match, a match the file and the place of its
  line among them; what ripgrep looks into is up to it. Git is a command that ends or fails. The caller
  polls, looks at the clock, kills and waits in steps of their own, so a command may end between any
  two of them; the poll, the kill and the reading may fail. The result the agent gets of a command that
  succeeded has no stderr, as in the registry (`shows`).
* **Routing, Memory, Startup.** A model is its provider, cost, strengths and place; the task is always
  `Code`, as in the code. A process may be killed at any point of its start; what it committed stays.
  Messages are the role they have. `said` and `ended` record what each run had on its screen, for
  `ReplayIsTheLastRun`. The screen and memory get a message in two steps, a line of the user the screen
  first, a summary memory first, and the process may be killed between them (`doing`). An old session
  that cannot be read shows nothing (`ReplayFails`). The user's advice is taken from the text of each
  error, one action for each thing it names.
* **SseStream.** The server's bytes are positions, two to a line, so a chunk is the stretch between
  two positions and the pump's buffer the stretch between what it drained and what it took. A chunk
  that ends inside a line may cut a character of it (`damaged`). What a line carries is one of four
  kinds. Usage figures and the answers of providers that do not stream are left out.
* **PromptContext.** The project is a tree of constants; what its user may change during the walk is
  the size of a file, or that it exists. Paths are compared name by name where the walk sorts them
  and as text where `score` breaks a tie, so there are two orders. The stack is a set: its top is the
  last directory in the first order, since a directory's entries are pushed after it. The score of a
  file is any number. A size counts bytes and characters alike. Symbolic links, files that a
  directory gains or loses beyond these, and the text of the map are left out.

## 3. The runs

Every bound is a constant named `Max...`, checked in the guard of the action it bounds.

| Run | Shows | Bounds |
|---|---|---|
| `permissions` | `ConfirmationsSpentOnce`, `ConsentDiesWithItsPolicy`, `HighRiskNeedsConsent`, `PolicyUnderCeiling` | 2 threads; an edit, a destructive command, `sudo` and a tool nobody knows; 1 confirmation each, 2 policy changes; a configuration that asks for reads, denies deletes and allows the rest, which the ceilings then tighten |
| `agent` | `BudgetsHold`, `CancelWithinOneIteration`, `ResultReportsEdits`, `EditsConsented`, `LegalStates` (the agent implements `AgentStates`), `RunEnds` | 2 runs, 3 iterations, 3 calls, 1 retry, batches of 2, 2 files, 1 cancel |
| `supervisor` | `LandsWithinOneTask`, `IdleMeansDrained`, `CompletedCountsRuns`, `DrivesEnd` | 2 drives of up to 3 tasks, 4 mode changes, 1 stop, 1 restart |
| `ui` | `TypeOK`, `EachYesSpentOnce`, `NoConsentLeftOver` | 2 questions, 2 panel requests, 2 tasks, 4 mode changes, a configuration that allows edits |
| `session` | `OneRunAtATime`, `ModeShownIsInForce`, `RecordsMatch`, `OutcomesMatch`, `FinishIsHeard` | bus of 3, 2 tasks, 2 calls, 3 mode changes, 1 stop |
| `stream` | `TextInOrder`, `WholeAnswer`, `BothEnd` | 3 lines of any kind, a channel of 2 |
| `context` | `MapTellsItsCut`, `WithinShare`, `BestFirst` | 4 files in 4 directories, one of them excluded; depths 1 and 2, at most 1, 2 or 4 files, 2 budgets, 3 sizes (small, cut in the middle, too large), 2 scores, 1 change |
| `files` | `CursorInBuffer`, `OnlyRacesLoseText`, `CleanMeansSaved` | 2 files, one with a CRLF and one with a byte that is not UTF-8; at most 5 bytes handled, 4 doings of the user, 2 of the others, one mark each |
| `screen` | `ClicksHitWhatIsDrawn`, `ListingIsOfItsDirectory`, `HighlightsOnARow` | 80 by 14 with clicks on columns 10 and 70 in every row; a directory in the root, 2 steps, a path of 2 names, 5 commands and 3 queries |
| `tools` | `OutputWholeOrCut`, `NoShellLeftBehind`, `CutIsTold`, `ToolsComeBack` | pipes of 2, a limit of 2, 3 units written to each stream; 5 files in 3 directories, one excluded, up to 2 matches each, a limit of 3 |
| `startup` | `ReplayIsTheLastRun`, `AdviceEndsOnline` | 2 processes, 2 sessions, 2 messages, the last one replayed, 1 kill during a start and any number after it; 4 projects, each failing for another reason |
| `mentor_writes` | `MentorRevokesWrites` is violated | 1 question, 1 task |

`ui` also checks the type invariant of its module; the other type invariants that proofs rest on are
theorems (section 5). Why the bounds are enough: every budget is small
enough to be exhausted and large enough to be reached in more than one way; two of each actor meet
every pairwise crossing; four mode changes are one more than a full cycle, so a mode is left and
entered again. In `session` the bus overflows within one run, so all losses occur; the properties
with `lost` say what holds until then. In `files` four doings are: open, type, save, answer or open
another; with two marks an outside program and the agent each write once, before, between or after
any two steps of a save, and five bytes let one mark too many make a file too large to handle. In
`screen` the terminal is high enough for each list to fit and low enough for the longer ones not to,
and the two columns meet every region that exists (the tests of a place look at its column only
through the edges of a region). In `tools` a stream can be below, at and above its pipe and the
limit, as the matches can be theirs. In `startup` two sessions are one to read and one to write, with
either process between any two steps of the other's start, and of two messages one is cut; that more
than one come in order is left to the proof. The bound on messages counts those on the screens too.

`CHECK_DEADLOCK FALSE` stands where the bounded system stops by itself (the last task has ended and
no request is left).

### Where the code and its documents disagree

`mentor_writes` states what a comment says of the program, and TLC shows the behaviour of the code
that contradicts it: "Switching to Mentor must actually revoke write access", but the agent's registry
has a policy of its own and edits in Mentor if the file allows edits. `findings` in `PROJECT.json`
quotes the line.

The models show more that a reader of the code may want to know; no run is spent on these.

The agent, its runs and its permissions:

* One cancel drops every later run: the flag is never cleared
  (`crates/darb-agent/src/loop_/mod.rs:128`).
* A yes may let a request through that the dialog did not show: the slot is replaced by the next
  reply half that is drained (`apps/darb/src/tui_loop.rs:803`).
* A drive that halts at its gate before its only task leaves the loop busy for ever
  (`apps/darb/src/tui_loop.rs:887`). `FinishIsHeard` says that this is the one way to be left so.
* A halt by a change of mode is announced as the kill-switch: `set_mode` sets the same flag, and
  `halt_label`, which is there to tell the two apart (`crates/darb-agent/src/supervisor/mod.rs:287`),
  looks at the flag first.
* A map that the last listed file fills to its cap is said to be partial though nothing is missing,
  and one that lacks an unreadable directory or a file that is too large is not.
* A check between the two locks of `set_config` uses a confirmation of the replaced policy. It dies
  when `set_config` returns, which is what `ConsentDiesWithItsPolicy` says.
* A push typed as a shell command is escalated to a question, so it can be confirmed in Assist and
  Autonomous, although the category `git_push` is denied there.
* A run that timed out reports no changed files, whatever it edited, and no run reports a file that
  a failed edit emptied (`crates/darb-tools/src/editor/mod.rs:66`).
* The calls left in a batch begin after a cancel, which is only read once per iteration.
* The task in flight goes on after the mode left Autonomous; it is the next one that does not begin.
* A drive that is stopped during its task ends without an announcement. With `restart`, which the
  application never calls, the idle of an abandoned queue can be announced.
* An answer given after the dialog is shown and before its reply half is taken from the channel is
  lost: the dialog is closed and the agent waits for its timeout.
* After a lag the screen may show a mode that is not in force, a tool call may be recorded with the
  target of another, and a decision with the outcome of something else. If `AgentFinished` itself is
  overwritten the loop stays busy for ever; that needs as many mode changes and tasks in a row, without
  a fold between them, as the bus has places (`FinishIsHeard`), so with 64 it is a matter of principle.
* The idle of an earlier drive puts out the indicator of the one that is working.
* A workspace event folded late undoes the reset of a failed git refresh.
* A character that two chunks share arrives as replacement characters
  (`crates/darb-providers/src/openai/mod.rs:177`).
* The pump goes on reading after its receiver has gone, although its comment says that "a closed
  receiver just stops the pump" (`crates/darb-providers/src/openai/mod.rs:194`): only the draining
  stops. A body that never ends keeps its pump.

Files, tools and screen:

* A save turns CRLF into LF though saves are called byte-faithful
  (`crates/darb-tui/src/app/mod.rs:828`), and every edit replaces the bytes of the file that are not
  UTF-8 (`crates/darb-tools/src/editor/mod.rs:43`). An empty file cannot be saved: the text to replace
  would be empty.
* A save quotes the text it was opened with, so a change of it by another writer makes the save fail,
  but a text put before or after it does not: the quoted text still occurs once.
* Opening the open file again discards what was typed. A save whose dialog an agent's
  `PermissionResolved` has closed can still be answered, and is then confirmed into whatever buffer is
  open (`apps/darb/src/tui_loop.rs:461`).
* A process that a command leaves behind keeps the pipes, so that the call waits for it without a
  limit (`crates/darb-tools/src/shell/mod.rs:60`), although its doc says that a hanging command "can
  never stall the agent forever" (line 4). On a timeout only `sh` is killed (line 75), under a comment
  that says "never leave orphans behind". A command that fills a pipe waits for its timeout.
  `ToolsComeBack` excludes the first case.
* The agent never sees the stderr of a command that succeeded
  (`crates/darb-tools/src/registry/mod.rs:194`), and a result may say it is cut for a stderr it does
  not have.
* ripgrep's matches are cut without a word (`crates/darb-tools/src/search/mod.rs:121`), and `rg` and
  `git` run without a time limit.
* At 80 columns the strip of the modes covers labels of tabs that a click still selects. A click in
  the explorer does not know how far the list is scrolled and reaches the lower border; the palette
  cut by a small terminal runs commands that are not drawn; with a dialog over the palette a click
  goes to the palette. Hence `Fits` and `UnderStrip` in `ClicksHitWhatIsDrawn`.
* A failed listing leaves the old names under the new path, so the path can grow (`src/src/...`).
  Hence `unlisted` in `ListingIsOfItsDirectory`. Enter opens entries of a hidden explorer.

The start:

* The message of an empty catalogue names `configs/models.toml` whatever path is configured. A
  `DARB_OPENAI_API_KEY` that is set and empty hides a good `OPENAI_API_KEY`.
* The shipped catalogue sends coding to a local model whose adapter is not built, so a start with
  the shipped files has no AI though it lists an affordable model of a provider that is;
  `fallback_chain`, which could, is called by nothing but tests and sorts by place and cost where
  `route` keeps the catalogue's order (`crates/darb-providers/src/router.rs:194`).
* The model the catalogue chose does not reach the agent: it is given `config.provider.model`
  (`apps/darb/src/tui_loop.rs:666`).
* "Without a catalogue the old path runs unchanged" (`apps/darb/src/tui_loop.rs:84`) only if a model is
  named: otherwise the missing file is an error and the start has no AI.
* A session is opened by every start, so two starts in a row lose the transcript before them, and
  with two windows "the previous session" is the other one, still going on.

## 4. Fairness

* `AgentLoop`: weak fairness of the run's own steps (the runtime polls a ready task) and of the
  timeout (tokio's timer fires). None for the provider, the user or the cancel.
* `Supervisor`: weak fairness of each drive's steps; that a task ends is `RunEnds` of `AgentLoop`.
* `SseStream`: weak fairness of the pump and of the agent's receiving. None for the server, which may
  write nothing for ever, nor for the run's timeout; `BothEnd` starts from a connection that is over.
* `ToolRun`: weak fairness of the caller, whose thread is the runtime's and blocks on nothing but the
  pipes, and of the clock it reads between two polls. None for the command, which may hang, write for
  ever or leave a process that never ends. What is left of `RunEnds`'s assumption that a tool call
  returns is what `ToolsComeBack` excludes: a process that keeps the pipes open.
* `Startup`: weak fairness of each start, and of a user who has no AI: she leaves, does one of the
  things the message says and starts again. `AdviceEndsOnline` is about such a user. None for the
  conversation and none for the user whose AI is online.
* `UiLoop`, `Session`, `PermissionManager`, `PromptContext`, `FilesTab` and `Screen` have safety
  properties only and assume none.

## 5. The proofs

The proofs hold for every value of the constants that satisfies the module's assumption (named
`...Assumption`; they only give types, e.g. that bounds are naturals and the configuration is one).
Each module proves that an inductive invariant holds (`IInv`, or one named for its component where a
module has several) and derives the properties from it.

* **`PermissionProofs`.** `IInv` adds three facts to the type invariant and the count of
  confirmations: every grant in the set was given after the newest `set_config` that returned, unless
  one is still between its locks; an outcome that used a grant carries the version it was given
  under; the policy in force is the one its mode makes of the user's. Without the first,
  `ConsentDiesWithItsPolicy` is not inductive: a grant of unknown age could be consumed next.
  Also `ApplyToTightens`, about the operator alone.
* **`AgentLoopProofs`.** One lemma per part: types, the asked call's verdict, budgets, control
  points and their states, the cancel bound, the report, consent. The state of each control point is
  what makes the refinement of `AgentStates` go through, and also why the timeout's
  step is legal: every state may fail.
* **`SupervisorProofs`.** The strengthening says that once the power is taken back the gate refuses,
  by the flag or, while `set_mode` is between its stores, by the mode; that a drive which began a
  task all the same finds itself stopped after it; and that an abandoned queue stays stopped unless
  `restart` is called. `CompletedCountsRuns` needs the cardinality of the set of running drives.
* **`SessionProofs`.** `OneRun` rests on `OneLive`: a task is *live* while its run is active or its
  drive may still begin it; a live task means busy, two live tasks are one, and an unread
  `AgentFinished` means that nothing is live and that there is no second one. Losing events only ever
  shrinks what the bus says, which is why no bound on losses is needed. What the loop *learns* from the
  bus is not in `IInv`, which only asks whether the end of a run is among the events. Four invariants
  over the places of the events are inductive with it: `ModeKept` (no workspace on the bus shows
  another mode than the one in force, and none is left when a key is handled), `TargetsKept` (the last
  request before the end of a call, on the bus or folded already, is the call's own), `OutcomesKept`
  (the last state announced before the end of a run is its outcome) and `EndHeard` with `StartsFirst`:
  after the end of a run only the mode that is being announced and the drives that have not ended emit,
  once each, so the end stays within the newest `modes + tasks` events. The proof counts what they
  still owe by the cardinality of `Unfinished`.
* **`UiLoopProofs`.** `EachYesSpentOnce` counts what got past a question against the yeses, and is
  not inductive twice over: a yes may be on its way to the agent, so `YesesPaid` counts it as owed; and
  a confirmation left in the panels' registry would let a request through that nobody answered, so
  `NoConsentLeftOver` is part of the same `IInv`. The proof needs the cardinality of finite sets, and
  that a confirmation which is not used up lies only where policy does not ask (`DispatchEffect`).
* **`ToolProofs`**, the shell and the search. `NothingLost` says that all a command wrote is in the
  pipe or was taken from it, and `ShellKnown` what the caller knows of `sh` at each point, also when it
  ends between the poll and the kill: after the last process has closed the pipes and they are empty,
  all was taken, so the result tells its cut exactly (`ResultIsWhole`). For the search, `Covers` says
  of the directories the walk came by that each of their paths is still listed or `Settled`: a
  directory among them, or a file with all its matches found. When stack and list are empty this set is
  closed, so it has every directory `Within` has, which is the least closed one; a step that cannot
  keep `Covers` sets `cut` or `skipped`.
* **`ToolProofs`**, the editor and the Files tab, for all texts. Three invariants, one on the other.
  `FilesTyped`: what a buffer holds are characters reading can give and marks its user has `known`, and
  the cursor is in it (`EditsIn`, `MovesIn`, `ConfirmedIn`: every key and every confirmed save keeps it
  there). `MarksKept`: a call that was let through writes every mark it read but those in the text it
  replaces (`Replaced`), which the user knew, and brings back none that had gone; the mark of an
  agent's edit is new, so it is in no other call. `SavesMatch`: a buffer without changes is its origin
  cut into lines; a save that is asked or under way is of the buffer as it is, unless its dialog was
  taken away; while no one else writes, the file is the origin or was emptied, and then the next save
  is refused. `RoundTrip` makes `CleanMeansSaved` of it. It is an induction over the lines of a text:
  the least element of a set of naturals (`LeastOf`) gives induction and recursion along a sequence
  (`InductionUpTo`, `Recursion`) with sets and functions where the library's theorems take operators,
  and with them what `FlattenSeq` computes (`Flattened`). This is why `LinesOf` finds the places where
  a text is cut by counting line ends.
* **`ToolProofs`**, the screen. `ScreenInv` keeps the highlights on rows and the listing under its
  directory; it needs that only directories of the project exist and that the palette's query is one of
  the queries, no more. `ClicksHitWhatIsDrawn` follows from it without another step of the system: the
  panel's height minus its border bounds the rows that `Fits` lets it have, so the list is not scrolled
  (`EntryAtRow`), no row is outside the panel (`ItemAtRow`) and the regions keep apart (`RegionOf`),
  for every width and every height from ten rows on. For the steps, drawing joins the lines of each
  while the hit test adds up their numbers (`LinesTo`); `TaskItemsAre` says that line `k` of the joined
  list lies between the ends of the step it belongs to. The tab labels need no proof: drawing and hit
  test read the same numbers (`TabAt`).
* **`ProviderProofs`**, the stream. `IInv` relates text, channel and buffer: the channel continues the
  text in order, everything in either left the buffer, every delta that left it is in one of them as
  long as there is a receiver, and the pump leaves the draining only when no finished line remains. An
  event received from the channel's head then extends the text without a gap, and a pump that ended
  without an error leaves nothing behind but an unfinished line.
* **`ProviderProofs`**, the start. `StartInv` has three parts beside the types: a session belongs to at
  most one process (`OneEach`), which has it only after it looked at the one before it, and before it
  has one it said nothing; and memory has of every session without a failed write what its process has
  on the screen, or had when it ended, but for the one message it had half dealt with (`Recorded`;
  `KeptAs` says which by the step it is at). Two processes that start together may then look at the
  same session, or at each other's, and each still shows what was said in the one it looked at, but for
  that message (`KeptWhole`). For the steps, a message is the last of its own session and leaves every
  other as it is (`OfAppended`). This is why `Of` says which message is the k-th of a session by
  counting those before it: of a filter by `SelectSeq` the provers know nothing.
* **`PromptContextProofs`.** `MapInv` says where a file that is missing from the map can still be:
  unless the map is cut, under a directory of the stack. A directory that is read hands this on to
  its children, and the last one to the map (`ReadDirMap`). `RankInv` says that what is queued comes
  after what was taken and that what is in neither cannot be read. `WithinShare` is inductive as it
  stands: it says that the tokens add up by naming their running totals, which the next file carries
  on (`SumsCarryOn`), and the marker of a file that is cut counts within the cut (`TokensCapped`).

Only model-checked:

* everything temporal (`RunEnds`, `DrivesEnd`, `BothEnd`, `ToolsComeBack`, `AdviceEndsOnline`):
  liveness under fairness is out of the prover's reach. Every invariant and every action property
  that a passing run checks is proved.

## 6. Not modelled

* Presentation beyond `Screen` and `FilesTab`: the command line with its history and completion,
  scroll offsets, toasts, telemetry, themes, and the text of every panel.
* Text: errors and i18n, the switch of language, prompts, the parsing of tool calls and of git's
  output, the detection of languages, `resolve_within` as a function of the text of a path.
* Configuration: the parsing of TOML and the sections no modelled step reads.
* The entry point: arguments, `doctor`, and the files `darb init` writes once.
* Memory: the text of decisions and of tool calls, which are written and read by no start (`Session`
  has the outcome of the ones and the target of the others), and the key-value memory, which nothing
  that runs uses.
* `fallback_chain`, called by nothing but tests; usage figures; providers that answer in one piece.

## 7. Plan

Built, in order of importance: permissions, agent, supervisor, application loop, session, stream,
context, files, tools, start, screen. What would add most next:

1. An abstract file for `FilesTab`, a register with three writers whose edits apply to the text they
   were checked against, which `FilesTab` implements between two races.
2. The command line with its history in `Screen`.
