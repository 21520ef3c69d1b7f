-------------------------------- MODULE Screen --------------------------------
(***************************************************************************)
(* The terminal interface as the user works it (darb-tui): what is drawn,  *)
(* what a key or a click at some place does, and what the application      *)
(* layer does in return for the explorer and the palette.  The edit buffer *)
(* is FilesTab, the answer to a question UiLoop; the command line and the  *)
(* scroll offsets of the panels are left out.                              *)
(*                                                                         *)
(* Drawing and hit testing are separate code over one layout: the drawing  *)
(* here says which thing is seen at a place, the hit test which thing a    *)
(* click there means.  Places count from 0, as in the terminal.            *)
(***************************************************************************)
EXTENDS Integers, SequencesExt, FiniteSetsExt

CONSTANTS
  Width, Height,  \* the terminal
  Columns,        \* the columns that are clicked
  TabWidth,       \* the width of each tab's label
  Commands,       \* COMMANDS of the palette
  Matching,       \* the commands each query leaves, a function of the query
  Contents,       \* the entries of each directory, sorted
  MaxTasks,       \* bound: steps of one run
  MaxDepth        \* bound: names in the explorer's path

ASSUME ScreenAssumption ==
  /\ Width \in Nat \ {0} /\ Height \in Nat /\ Height >= 10
  /\ Columns \subseteq 0..(Width - 1)
  /\ "" \in DOMAIN Matching /\ Matching[""] = Commands
  /\ \A query \in DOMAIN Matching : Matching[query] \in Seq(STRING)
  /\ <<>> \in DOMAIN Contents
  /\ \A d \in DOMAIN Contents : Contents[d] \in Seq([name : STRING, isDir : BOOLEAN])
  /\ MaxTasks \in Nat /\ MaxDepth \in Nat

VARIABLES
  focus, tab,           \* App.focus, App.tab
  explorerVisible, contextVisible, bottomOpen,
  dir, files, index,    \* current_dir, the listing shown, explorer_index
  tasks, cursor,        \* the steps of the run, tasks_index
  palette,              \* NoPalette, or its query and highlighted row
  asking,               \* is a question up?
  existing,             \* the directories of the project at this moment
  unlisted              \* history: did the last listing of dir fail?

shownVars == <<explorerVisible, contextVisible, bottomOpen>>
explorerVars == <<dir, files, index, unlisted>>
taskVars == <<tasks, cursor>>
terminalVars == <<focus, tab, shownVars, explorerVars, taskVars, palette, asking, existing>>

Tabs == <<"chat", "files", "changes", "terminal", "git", "tasks">>
NoPalette == [query |-> "none"]
Smaller(a, b) == IF a < b THEN a ELSE b
Minus(a, b) == IF a < b THEN 0 ELSE a - b

-----------------------------------------------------------------------------
(* Layout *)

Inside(x, y, r) == x >= r.x /\ x < r.x + r.w /\ y >= r.y /\ y < r.y + r.h

\* Header, body, tab bar, status bar and footer, from the top.
BodyHeight == Height - 8
LeftWidth == IF explorerVisible THEN (Width * 20) \div 100 ELSE 0
RightWidth == IF contextVisible THEN (Width * 25) \div 100 ELSE 0

\* The system panel gives way to the file tree, the workspace to the terminal.
TreeHeight == BodyHeight - Smaller(6, Minus(BodyHeight, 4))
TerminalHeight == Smaller(BodyHeight, IF bottomOpen THEN 8 ELSE 1)

Tree == [x |-> 0, y |-> 3, w |-> LeftWidth, h |-> TreeHeight]
Workspace == [x |-> LeftWidth, y |-> 3, w |-> Width - LeftWidth - RightWidth,
              h |-> BodyHeight - TerminalHeight]

\* The regions share the terminal out between them.
Region(x, y) ==
  CASE y < 3 -> "header"
    [] y = Height - 5 -> "tabs"
    [] y = Height - 4 -> "status"
    [] y >= Height - 3 -> "footer"
    [] y \in 3..(Height - 6) ->
         IF x < LeftWidth THEN "explorer"
         ELSE IF x >= Width - RightWidth THEN "context"
         ELSE IF y >= Height - 5 - TerminalHeight THEN "terminal" ELSE "workspace"

\* A popup in the middle of the terminal.
Centered(width, height) ==
  LET w == Smaller(width, Width)
      h == Smaller(height, Height)
  IN  [x |-> (Width - w) \div 2, y |-> (Height - h) \div 2, w |-> w, h |-> h]

-----------------------------------------------------------------------------
(* The explorer, the tasks and the palette *)

HasParent == dir # <<>>
Above == IF HasParent THEN 1 ELSE 0
Rows == Len(files) + Above
ClampTo(i, rows) == Smaller(i, Minus(rows, 1))

\* filtered: what the query leaves of the commands.
Matched == Matching[palette.query]

\* The palette's popup: header, blank, a row for each match, hint.
Popup == Centered(64, LET h == Smaller(Len(Matched) + 5, Height) IN IF h < 6 THEN 6 ELSE h)

\* The lines a step takes in the list: its header, and its details if expanded.
TaskRows(task) == IF task.expanded THEN 2 ELSE 1

-----------------------------------------------------------------------------
(* What a click means *)

Nothing == [kind |-> "nothing"]

\* The labels of the tab bar stand one after the other, 3 columns apart.
TabStart == [i \in DOMAIN Tabs |-> MapThenSumSet(LAMBDA j : TabWidth[Tabs[j]] + 3, 1..(i - 1))]

TabAt(x) ==
  LET at == {i \in DOMAIN Tabs : x \in TabStart[i]..(TabStart[i] + TabWidth[Tabs[i]] - 1)}
  IN  IF at = {} THEN Nothing ELSE [kind |-> "tab", tab |-> Tabs[CHOOSE i \in at : TRUE]]

\* explorer_row, and the arm of click_outcome that uses it.
EntryAt(x, y) ==
  LET row == y - (Tree.y + 1)
  IN  IF Inside(x, y, Tree) /\ row \in 0..(Rows - 1)
      THEN [kind |-> "entry", row |-> row] ELSE Nothing

\* The lines of the list down to the end of each step; 0 is before the first.
LinesTo[i \in 0..Len(tasks)] == IF i = 0 THEN 0 ELSE LinesTo[i - 1] + TaskRows(tasks[i])

(* Mutant of TaskAt: the details of an expanded step are not counted. *)
TaskAtHeader(y) ==
  LET row == y - (Workspace.y + 1)
  IN  IF row \in 0..(Len(tasks) - 1) THEN [kind |-> "task", task |-> row + 1] ELSE Nothing

\* task_at_row: the first step whose lines reach past the row.
TaskAt(y) ==
  LET row == y - (Workspace.y + 1)
      past == {i \in DOMAIN tasks : row < LinesTo[i]}
  IN  IF row < 0 \/ past = {} THEN Nothing ELSE [kind |-> "task", task |-> Min(past)]

\* handle_palette_click
CommandAt(x, y) ==
  LET row == y - Popup.y - 3
  IN  IF Inside(x, y, Popup) /\ row \in 0..(Len(Matched) - 1)
      THEN [kind |-> "command", command |-> Matched[row + 1]] ELSE Nothing

\* handle_mouse and click_outcome: the palette takes every click, a question none.
Hit(x, y) ==
  CASE palette # NoPalette -> CommandAt(x, y)
    [] asking /\ palette = NoPalette -> Nothing
    [] OTHER ->
         CASE Region(x, y) = "tabs" -> TabAt(x)
           [] Region(x, y) = "explorer" -> EntryAt(x, y)
           [] Region(x, y) = "workspace" /\ tab = "tasks" -> TaskAt(y)
           [] OTHER -> Nothing

-----------------------------------------------------------------------------
(* What is drawn where *)

\* The row inside a panel's border, if the place is on one.
InnerRow(y, r) == IF y > r.y /\ y < r.y + r.h - 1 THEN {y - r.y - 1} ELSE {}

\* The modes at the right end of the tab bar, over the labels, unless too narrow.
StripWidth == 35
UnderStrip(x) == StripWidth + 1 <= Minus(Width, 20) /\ x >= Width - StripWidth

\* The explorer's list: the parent, a dash where nothing is listed, the entries.
TreeItems ==
  (IF HasParent THEN <<[kind |-> "entry", row |-> 0]>> ELSE <<>>)
    \o (IF files = <<>> THEN <<Nothing>>
                        ELSE [i \in DOMAIN files |-> [kind |-> "entry", row |-> i - 1 + Above]])

\* The list is drawn from the row that brings the highlight into the panel.
TreeOffset == Minus(index + 1, Tree.h - 2)

TaskItems ==
  FlattenSeq([i \in DOMAIN tasks |-> [line \in 1..TaskRows(tasks[i]) |->
                                       [kind |-> "task", task |-> i]]])

\* The item of a list at a place of its panel.
ItemAt(items, offset, y, r) ==
  LET shown == {k + offset + 1 : k \in InnerRow(y, r)} \cap DOMAIN items
  IN  IF shown = {} THEN Nothing ELSE items[CHOOSE k \in shown : TRUE]

PaletteItems ==
  <<Nothing, Nothing>> \o [i \in DOMAIN Matched |-> [kind |-> "command", command |-> Matched[i]]]

\* The question is drawn over the palette, the palette over the panels.  Over
\* all of them toasts are drawn for seconds, which is left out here.
Drawn(x, y) ==
  CASE asking /\ Inside(x, y, Centered(64, 9)) -> Nothing
    [] ~(asking /\ Inside(x, y, Centered(64, 9))) /\ palette # NoPalette
         /\ Inside(x, y, Popup) -> ItemAt(PaletteItems, 0, y, Popup)
    [] OTHER ->
         CASE Region(x, y) = "tabs" -> IF UnderStrip(x) THEN Nothing ELSE TabAt(x)
           [] Inside(x, y, Tree) -> ItemAt(TreeItems, TreeOffset, y, Tree)
           [] Region(x, y) = "workspace" /\ tab = "tasks" ->
                ItemAt(TaskItems, 0, y, Workspace)
           [] OTHER -> Nothing

-----------------------------------------------------------------------------
(* What the application layer does for the explorer *)

\* list_directory: a directory inside this one is listed while it exists.
Listing(d) ==
  FlattenSeq([i \in DOMAIN Contents[d] |->
    LET e == Contents[d][i]
    IN  IF e.isDir /\ Append(d, e.name) \notin existing THEN <<>> ELSE <<e>>])

(* Mutant of List: the highlight stays where it was. *)
ListUnclamped(d, at) ==
  /\ dir' = d
  /\ files' = IF d \in existing THEN Listing(d) ELSE files
  /\ index' = at
  /\ unlisted' = (d \notin existing)

\* refresh_files in the directory d: a failed listing leaves the old one.
List(d, at) ==
  /\ dir' = d
  /\ files' = IF d \in existing THEN Listing(d) ELSE files
  /\ index' = ClampTo(at, Len(files') + (IF d = <<>> THEN 0 ELSE 1))
  /\ unlisted' = (d \notin existing)

(* Mutant of ChangeDir: the listing is left for the next refresh. *)
ChangeDirOnly(d) ==
  /\ dir' = d
  /\ index' = 0
  /\ focus' = "explorer"
  /\ UNCHANGED <<files, unlisted, tab>>

\* set_current_dir and refresh_files
ChangeDir(d) == List(d, 0) /\ focus' = "explorer" /\ tab' = tab

Show(t) == tab' = t /\ focus' = "workspace"

\* open_entry on a file: it is shown in the Files tab if it can be read.
OpenFile(name) ==
  IF dir \in existing /\ [name |-> name, isDir |-> FALSE] \in Range(Contents[dir])
  THEN Show("files")
  ELSE focus' = "explorer" /\ tab' = tab

\* enter_explorer_at, from a key on the highlighted row or a click on any.
Enter(row) ==
  LET i == row - Above + 1
      isDir == i \in DOMAIN files /\ files[i].isDir
  IN  \/ HasParent /\ row = 0 /\ ChangeDir(Front(dir))
      \/ ~(HasParent /\ row = 0) /\ isDir
           /\ Len(dir) < MaxDepth /\ ChangeDir(Append(dir, files[i].name))
      \/ /\ ~(HasParent /\ row = 0) /\ ~isDir
         /\ IF i \in DOMAIN files THEN OpenFile(files[i].name)
                                  ELSE focus' = "explorer" /\ tab' = tab
         /\ index' = row
         /\ UNCHANGED <<dir, files, unlisted>>

CommandTab ==
  [open_chat |-> "chat", open_files |-> "files", open_changes |-> "changes", open_git |-> "git",
   open_terminal |-> "terminal", open_tasks |-> "tasks", git_status |-> "git",
   show_diff |-> "changes"]

ToggleExplorer == explorerVisible' = ~explorerVisible /\ UNCHANGED <<contextVisible, bottomOpen>>
ToggleTerminal == bottomOpen' = ~bottomOpen /\ UNCHANGED <<explorerVisible, contextVisible>>
ToggleContext == contextVisible' = ~contextVisible /\ UNCHANGED <<explorerVisible, bottomOpen>>

\* apply_command; quitting, the chat, the mode and the language change nothing here.
Apply(command) ==
  /\ CASE command = "toggle_explorer" -> ToggleExplorer
       [] command = "toggle_terminal" -> ToggleTerminal
       [] command = "toggle_context" -> ToggleContext
       [] OTHER -> UNCHANGED shownVars
  /\ IF command = "refresh_files" THEN List(dir, index) ELSE UNCHANGED explorerVars
  /\ IF command \in DOMAIN CommandTab THEN Show(CommandTab[command]) ELSE UNCHANGED <<tab, focus>>
  /\ UNCHANGED <<taskVars, asking, existing>>

-----------------------------------------------------------------------------
(* Keys *)

Quiet == palette = NoPalette /\ ~asking

OpenPalette ==
  /\ Quiet
  /\ palette' = [query |-> "", row |-> 0]
  /\ UNCHANGED <<focus, tab, shownVars, explorerVars, taskVars, asking, existing>>

\* The palette has the keyboard even while a question is drawn over it.
PaletteMoves(delta) ==
  /\ palette # NoPalette
  /\ palette' = [palette EXCEPT !.row = IF Matched = <<>> THEN 0 ELSE (@ + delta) % Len(Matched)]
  /\ UNCHANGED <<focus, tab, shownVars, explorerVars, taskVars, asking, existing>>

\* push_char and pop_char: the highlight returns to the first match.
PaletteTypes(query) ==
  /\ palette # NoPalette
  /\ palette' = [query |-> query, row |-> 0]
  /\ UNCHANGED <<focus, tab, shownVars, explorerVars, taskVars, asking, existing>>

PaletteCloses ==
  /\ palette # NoPalette
  /\ palette' = NoPalette
  /\ UNCHANGED <<focus, tab, shownVars, explorerVars, taskVars, asking, existing>>

PaletteEnter ==
  /\ palette # NoPalette
  /\ palette' = NoPalette
  /\ IF Matched = <<>>
     THEN UNCHANGED <<focus, tab, shownVars, explorerVars, taskVars, asking, existing>>
     ELSE Apply(Matched[ClampTo(palette.row, Len(Matched)) + 1])

\* handle_permission_key
AnswerQuestion ==
  /\ palette = NoPalette /\ asking
  /\ asking' = FALSE
  /\ UNCHANGED <<focus, tab, shownVars, explorerVars, taskVars, palette, existing>>

\* The shortcuts that move the focus or show and hide something.
Shortcut ==
  /\ Quiet
  /\ \/ \E t \in {"files", "git", "terminal"} : Show(t) /\ UNCHANGED shownVars
     \/ /\ focus' = [input |-> "explorer", explorer |-> "workspace", workspace |-> "input"][focus]
        /\ UNCHANGED <<tab, shownVars>>
     \/ (ToggleExplorer \/ ToggleTerminal \/ ToggleContext) /\ UNCHANGED <<focus, tab>>
  /\ UNCHANGED <<explorerVars, taskVars, palette, asking, existing>>

\* move_up and move_down, by a key off the input or by the wheel.
Move(delta) ==
  /\ IF focus = "explorer"
     THEN index' = IF delta < 0 THEN Minus(index, 1) ELSE ClampTo(index + 1, Rows)
     ELSE index' = index
  /\ IF focus = "workspace" /\ tab = "tasks" /\ tasks # <<>>
     THEN cursor' = IF delta < 0 THEN Minus(cursor, 1) ELSE ClampTo(cursor + 1, Len(tasks))
     ELSE cursor' = cursor
  /\ UNCHANGED <<focus, tab, shownVars, dir, files, unlisted, tasks, palette, asking, existing>>

Arrow(delta) == Quiet /\ Move(delta)
Wheel(delta) == Move(delta)

\* toggle_task
ToggleTask(at) ==
  LET i == ClampTo(at, Len(tasks))
  IN  IF tasks = <<>> THEN tasks' = tasks /\ cursor' = at
      ELSE cursor' = i /\ tasks' = [tasks EXCEPT ![i + 1].expanded = ~@]

\* submit, where it does not send a line.
Submit ==
  /\ Quiet
  /\ IF focus = "explorer" THEN Enter(index) ELSE UNCHANGED <<focus, tab, explorerVars>>
  /\ IF focus = "workspace" /\ tab = "tasks" THEN ToggleTask(cursor) ELSE UNCHANGED taskVars
  /\ UNCHANGED <<shownVars, palette, asking, existing>>

-----------------------------------------------------------------------------
(* Clicks *)

Focus(region) ==
  CASE region = "workspace" \/ region = "terminal" -> "workspace"
    [] region = "footer" -> "input"
    [] OTHER -> focus

ClickPanel(x, y) ==
  LET hit == Hit(x, y)
  IN  /\ Quiet
      /\ \/ hit.kind = "tab" /\ Show(hit.tab) /\ UNCHANGED <<explorerVars, taskVars>>
         \/ hit.kind = "entry" /\ Enter(hit.row) /\ UNCHANGED taskVars
         \/ hit.kind = "task" /\ ToggleTask(hit.task - 1) /\ focus' = "workspace"
              /\ UNCHANGED <<tab, explorerVars>>
         \/ hit = Nothing /\ focus' = Focus(Region(x, y)) /\ UNCHANGED <<tab, explorerVars, taskVars>>
      /\ UNCHANGED <<shownVars, palette, asking, existing>>

\* A click in the palette runs the command there, one outside closes it.
ClickPalette(x, y) ==
  LET hit == Hit(x, y)
  IN  /\ palette # NoPalette
      /\ palette' = IF Inside(x, y, Popup) /\ hit = Nothing THEN palette ELSE NoPalette
      /\ IF hit.kind = "command" THEN Apply(hit.command)
         ELSE UNCHANGED <<focus, tab, shownVars, explorerVars, taskVars, asking, existing>>

-----------------------------------------------------------------------------
(* The agent's events, and the project outside *)

StepEvent ==
  /\ \/ tasks' = <<>>
     \/ Len(tasks) < MaxTasks /\ tasks' = Append(tasks, [expanded |-> FALSE])
  /\ UNCHANGED <<focus, tab, shownVars, explorerVars, cursor, palette, asking, existing>>

QuestionEvent ==
  /\ asking' \in BOOLEAN
  /\ UNCHANGED <<focus, tab, shownVars, explorerVars, taskVars, palette, existing>>

\* AgentFinished: the panels are read again.
FinishedEvent ==
  /\ List(dir, index)
  /\ UNCHANGED <<focus, tab, shownVars, taskVars, palette, asking, existing>>

\* A directory is removed with what is in it, or comes back with its parent there.
DirsChange(d) ==
  /\ d # <<>>
  /\ existing' = IF d \in existing THEN existing \ {e \in existing : IsPrefix(d, e)}
                 ELSE IF Front(d) \in existing THEN existing \cup {d} ELSE existing
  /\ UNCHANGED <<focus, tab, shownVars, explorerVars, taskVars, palette, asking>>

-----------------------------------------------------------------------------
ScreenInit ==
  /\ focus = "input" /\ tab = "chat"
  /\ explorerVisible = TRUE /\ contextVisible = TRUE /\ bottomOpen = TRUE
  /\ existing = DOMAIN Contents
  /\ dir = <<>> /\ files = Listing(<<>>) /\ index = 0 /\ unlisted = FALSE
  /\ tasks = <<>> /\ cursor = 0
  /\ palette = NoPalette /\ asking = FALSE

Keys ==
  \/ OpenPalette \/ PaletteCloses \/ PaletteEnter
  \/ \E delta \in {-1, 1} : PaletteMoves(delta) \/ Arrow(delta) \/ Wheel(delta)
  \/ \E query \in DOMAIN Matching : PaletteTypes(query)
  \/ AnswerQuestion \/ Shortcut \/ Submit

Clicks == \E x \in Columns, y \in 0..(Height - 1) : ClickPanel(x, y) \/ ClickPalette(x, y)

Events == StepEvent \/ QuestionEvent \/ FinishedEvent \/ \E d \in DOMAIN Contents : DirsChange(d)

ScreenNext == Keys \/ Clicks \/ Events

ScreenSpec == ScreenInit /\ [][ScreenNext]_terminalVars

-----------------------------------------------------------------------------
(* Properties *)

\* Is everything there is to click on the screen?
Fits ==
  /\ explorerVisible => Rows <= Tree.h - 2
  /\ tab = "tasks" => Len(TaskItems) <= Workspace.h - 2
  /\ palette # NoPalette => Len(PaletteItems) <= Popup.h - 2 /\ ~asking

\* A click acts on what is drawn at its place and, with no overlay up, on all
\* that is drawn: after any change of the panels, the listing, the steps and
\* the query.  Not where a list or the palette is cut by the size of the
\* terminal, a question covers the palette, or the modes cover the tab labels;
\* nor under a toast, which lies over the lowest rows and takes no clicks: a
\* click on one reaches the tab, the entry, the step or the command below it.
\* (The labels of the tabs are in the same columns for both by definition.)
ClicksHitWhatIsDrawn ==
  Fits => \A x \in Columns, y \in 0..(Height - 1) :
    ~(UnderStrip(x) /\ Region(x, y) = "tabs") =>
      LET hit == Hit(x, y)
      IN  /\ hit # Nothing => Drawn(x, y) = hit
          /\ Quiet => Drawn(x, y) = hit

\* The entries under the name of a directory are entries of that directory,
\* unless listing it failed: opening one joins the two without looking again.
ListingIsOfItsDirectory ==
  ~unlisted => dir \in DOMAIN Contents /\ Range(files) \subseteq Range(Contents[dir])

\* The highlights stay on a row whatever shrinks under them: a listing, the
\* matches of a query.  On no row, Enter would do nothing and nothing would be
\* drawn as highlighted until an arrow key is pressed.
HighlightsOnARow ==
  /\ index \in 0..Minus(Rows, 1)
  /\ palette # NoPalette => palette.row \in 0..Minus(Len(Matched), 1)
=============================================================================
