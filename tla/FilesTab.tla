------------------------------- MODULE FilesTab -------------------------------
(***************************************************************************)
(* The file open in the Files tab: its buffer (darb-tui app), the save of  *)
(* the buffer with the question it may wait for (tui_loop), and the tool   *)
(* that writes it (darb-tools editor), which the agent uses on the same    *)
(* files from its own thread.  A third writer, any program outside, knows  *)
(* nothing of either.                                                      *)
(*                                                                         *)
(* edit_file reads the file, checks that the text to replace occurs once   *)
(* and writes the whole file back; the write empties the file first.  The  *)
(* other writers may run between any two of these.                         *)
(*                                                                         *)
(* A text is a sequence of characters; "lf" and "crlf" end a line, "bad"   *)
(* is a byte that is not UTF-8 and "subst" what reading makes of it.       *)
(***************************************************************************)
EXTENDS Integers, SequencesExt, FiniteSets

CONSTANTS
  Paths,        \* the files
  Original,     \* what each file holds at first
  MaxBytes,     \* MAX_READ_BYTES, the size above which no file is handled
  Strangers,    \* bound: the marks outside programs leave, each once
  AgentMarks,   \* bound: the marks the agent leaves, each once
  MaxDoings,    \* bound: files the user opens, changes and saves
  MaxOthers     \* bound: questions of the agent and marks, together

Marks == Strangers \cup AgentMarks

VARIABLES
  disk,      \* the content of each file
  buffer,    \* App.file_preview and the edit_ fields, or NoBuffer
  editing,   \* App.editing
  dialog,    \* App.permission: "none", "save" or "agent"
  slot,      \* Option<Pending>: NoSlot, AgentHalf or a save
  call,      \* for each actor, the edit_file it is in
  question,  \* where the agent's question is

  \* History, read by the properties only.
  placed,    \* marks that reached a file
  known,     \* marks whose text the user had on the screen
  raced,     \* marks overwritten between a read and the end of the write
  touched,   \* has another writer changed the open file since it was read?
  strayed,   \* was a save answered after its dialog had been taken away?
  used       \* how often each bounded thing happened

screenVars == <<buffer, editing, dialog, slot>>
history == <<placed, known, raced, touched, strayed>>
filesVars == <<disk, screenVars, call, question, history, used>>

Actors == {"ui", "agent"}
LineEnds == {"lf", "crlf"}
Ordinary == LineEnds \cup {"bad", "subst", "x", " "} \cup UNION {Range(Original[p]) : p \in Paths}

\* No file begins with a mark in it, and each mark has one writer.
ASSUME FilesAssumption ==
  /\ "none" \notin Paths
  /\ Original \in [Paths -> Seq(Ordinary)]
  /\ Marks \cap Ordinary = {} /\ Strangers \cap AgentMarks = {}
  /\ MaxBytes \in Nat /\ MaxDoings \in Nat /\ MaxOthers \in Nat

EndsLine(text) == text # <<>> /\ Last(text) \in LineEnds
NoBuffer == [path |-> "none"]
NoSlot == [kind |-> "none"]
AgentHalf == [kind |-> "agent"]
Idle == [stage |-> "idle"]

-----------------------------------------------------------------------------
(* Texts and lines *)

\* The line ends among the first i characters.
Ends(text, i) == Cardinality({e \in 1..i : text[e] \in LineEnds})

\* The lines of a text without their ends, as str::lines cuts them; an empty
\* text has one line, for the cursor to sit on.
LinesOf(text) ==
  [n \in 1..(Ends(text, Len(text) - 1) + 1) |->
    SubSeq(text, Cardinality({i \in DOMAIN text : Ends(text, i - 1) < n - 1}) + 1,
                 Cardinality({i \in DOMAIN text : Ends(text, i) < n}))]

\* The text of a buffer: its lines joined by \n, and the \n that ended the file.
EditText(b) ==
  FlattenSeq([i \in DOMAIN b.lines |->
               IF i = 1 THEN b.lines[1] ELSE <<"lf">> \o b.lines[i]])
    \o (IF b.trailing THEN <<"lf">> ELSE <<>>)

\* What from_utf8_lossy makes of a file.
Lossy(text) == [i \in DOMAIN text |-> IF text[i] = "bad" THEN "subst" ELSE text[i]]

MarksIn(text) == Range(text) \cap Marks

Positions(text, old) ==
  {i \in 1..(Len(text) - Len(old) + 1) : SubSeq(text, i, i + Len(old) - 1) = old}

First(text, old) == CHOOSE i \in Positions(text, old) : \A j \in Positions(text, old) : i <= j

\* content.matches(old).count() = 1: matches do not overlap.
OccursOnce(text, old) ==
  /\ Positions(text, old) # {}
  /\ \A i \in Positions(text, old) : i < First(text, old) + Len(old)

\* content.replacen(old, new, 1)
ReplaceFirst(text, old, new) ==
  LET at == First(text, old)
  IN  SubSeq(text, 1, at - 1) \o new \o SubSeq(text, at + Len(old), Len(text))

-----------------------------------------------------------------------------
(* The buffer; rows and columns count from 0 *)

LineLen(b) == IF b.row < Len(b.lines) THEN Len(b.lines[b.row + 1]) ELSE 0

\* set_file_preview
Opened(path, text) ==
  [path |-> path, origin |-> text, trailing |-> EndsLine(text), lines |-> LinesOf(text),
   row |-> 0, col |-> 0, dirty |-> FALSE]

Clamped(b) ==
  LET r == [b EXCEPT !.row = IF @ < Len(b.lines) THEN @ ELSE Len(b.lines) - 1]
  IN  [r EXCEPT !.col = IF @ < LineLen(r) THEN @ ELSE LineLen(r)]

(* Mutant of Confirmed: the cursor stays where it was. *)
ConfirmedUnclamped(b, text) ==
  [b EXCEPT !.origin = text, !.trailing = EndsLine(text),
            !.lines = LinesOf(text), !.dirty = FALSE]

\* confirm_saved: the text on disk is cut into lines again.
Confirmed(b, text) ==
  Clamped([b EXCEPT !.origin = text, !.trailing = EndsLine(text),
                    !.lines = LinesOf(text), !.dirty = FALSE])

Inserted(b, c) ==
  LET at == IF b.col < LineLen(b) THEN b.col ELSE LineLen(b)
  IN  [b EXCEPT !.lines[b.row + 1] = InsertAt(@, at + 1, c), !.col = at + 1, !.dirty = TRUE]

Backspaced(b) ==
  IF b.col > 0
  THEN [b EXCEPT !.lines[b.row + 1] = RemoveAt(@, b.col), !.col = @ - 1, !.dirty = TRUE]
  ELSE IF b.row = 0 THEN b
  ELSE LET above == b.lines[b.row]
       IN  [b EXCEPT !.lines = RemoveAt([b.lines EXCEPT ![b.row] = @ \o b.lines[b.row + 1]],
                                        b.row + 1),
                     !.row = @ - 1, !.col = Len(above), !.dirty = TRUE]

Broken(b) ==
  LET line == b.lines[b.row + 1]
  IN  [b EXCEPT !.lines = InsertAt([@ EXCEPT ![b.row + 1] = SubSeq(line, 1, b.col)],
                                   b.row + 2, SubSeq(line, b.col + 1, Len(line))),
                !.row = @ + 1, !.col = 0, !.dirty = TRUE]

Left(b) ==
  IF b.col > 0 THEN [b EXCEPT !.col = @ - 1]
  ELSE IF b.row = 0 THEN b
  ELSE [b EXCEPT !.row = @ - 1, !.col = Len(b.lines[b.row])]

Right(b) ==
  IF b.col < LineLen(b) THEN [b EXCEPT !.col = @ + 1]
  ELSE IF b.row + 1 = Len(b.lines) THEN b
  ELSE [b EXCEPT !.row = @ + 1, !.col = 0]

Up(b) == Clamped([b EXCEPT !.row = IF @ = 0 THEN 0 ELSE @ - 1])

Down(b) == IF b.row + 1 < Len(b.lines) THEN Clamped([b EXCEPT !.row = @ + 1]) ELSE b

\* The keys that change the text; the Tab key types two spaces.
Edits(b) == {Inserted(b, "x"), Inserted(Inserted(b, " "), " "), Backspaced(b), Broken(b)}

Moves(b) == {Left(b), Right(b), Up(b), Down(b)}

-----------------------------------------------------------------------------
(* The user's thread: it is in a save's edit_file, or handles a key or an event *)

UiFree == call["ui"] = Idle

Does == used.doings < MaxDoings /\ used' = [used EXCEPT !.doings = @ + 1]

\* Keys and clicks other than answers find no dialog.
Hands == UiFree /\ dialog = "none"

\* An explorer entry is opened; what the buffer held is dropped.
OpenEntry(path) ==
  /\ Hands /\ Does
  /\ Len(disk[path]) <= MaxBytes
  /\ buffer' = Opened(path, Lossy(disk[path]))
  /\ editing' = FALSE
  /\ known' = known \cup MarksIn(disk[path])
  /\ touched' = FALSE
  /\ strayed' = (strayed /\ slot.kind = "save")
  /\ UNCHANGED <<disk, dialog, slot, call, question, placed, raced>>

ToggleEdit ==
  /\ Hands /\ buffer # NoBuffer
  /\ editing' = ~editing
  /\ UNCHANGED <<disk, buffer, dialog, slot, call, question, history, used>>

EditKey ==
  /\ Hands /\ editing
  /\ \/ /\ Does
        /\ buffer' \in Edits(buffer)
     \/ buffer' \in Moves(buffer) /\ used' = used
  /\ UNCHANGED <<disk, editing, dialog, slot, call, question, history>>

-----------------------------------------------------------------------------
(* edit_file, for either thread *)

SaveRequest == [kind |-> "save", path |-> buffer.path, old |-> buffer.origin, new |-> EditText(buffer)]

(* Mutant of Updated: the file becomes the new text. *)
UpdatedWhole(request) == request.new

\* What edit_file would write, from what it reads now.
Updated(request) == ReplaceFirst(Lossy(disk[request.path]), request.old, request.new)

Editable(request) ==
  /\ request.old # <<>>
  /\ Len(disk[request.path]) <= MaxBytes
  /\ OccursOnce(Lossy(disk[request.path]), request.old)
  /\ Len(Updated(request)) <= MaxBytes

\* The read and the checks; a refusal changes nothing.
StartEdit(actor, request) ==
  call' = IF Editable(request)
          THEN [call EXCEPT ![actor] = [stage |-> "checked", path |-> request.path,
                 content |-> disk[request.path], updated |-> Updated(request),
                 new |-> request.new]]
          ELSE call

\* The open file is no longer what the buffer was read from or saved as.
Touch(actor, path) ==
  touched' = (touched \/ (actor # "ui" /\ buffer # NoBuffer /\ buffer.path = path))

\* fs::write creates the file anew, which empties it ...
EmptyFile(actor) ==
  LET c == call[actor]
  IN  /\ c.stage = "checked"
      /\ disk' = [disk EXCEPT ![c.path] = <<>>]
      /\ call' = [call EXCEPT ![actor].stage = "emptied"]
      /\ raced' = raced \cup (MarksIn(disk[c.path]) \ MarksIn(c.content))
      /\ Touch(actor, c.path)
      /\ UNCHANGED <<screenVars, question, placed, known, strayed, used>>

\* ... then writes, and a save is confirmed to the buffer of the moment.
WriteFile(actor) ==
  LET c == call[actor]
  IN  /\ c.stage = "emptied"
      /\ disk' = [disk EXCEPT ![c.path] = c.updated]
      /\ call' = [call EXCEPT ![actor] = Idle]
      /\ buffer' = IF actor = "ui" THEN Confirmed(buffer, c.new) ELSE buffer
      /\ placed' = placed \cup MarksIn(c.updated)
      /\ raced' = raced \cup (MarksIn(disk[c.path]) \ MarksIn(c.content))
      /\ Touch(actor, c.path)
      /\ UNCHANGED <<editing, dialog, slot, question, known, strayed, used>>

(* Mutant of WriteFails: the buffer is taken for saved all the same. *)
WriteFailsConfirms(actor) ==
  LET c == call[actor]
  IN  /\ c.stage # "idle"
      /\ call' = [call EXCEPT ![actor] = Idle]
      /\ buffer' = IF actor = "ui" THEN Confirmed(buffer, c.new) ELSE buffer
      /\ raced' = IF c.stage = "emptied" THEN raced \cup MarksIn(c.content) ELSE raced
      /\ UNCHANGED <<disk, editing, dialog, slot, question, placed, known, touched, strayed, used>>

\* The disk refuses, before or after the file was emptied.
WriteFails(actor) ==
  LET c == call[actor]
  IN  /\ c.stage # "idle"
      /\ call' = [call EXCEPT ![actor] = Idle]
      /\ raced' = IF c.stage = "emptied" THEN raced \cup MarksIn(c.content) ELSE raced
      /\ UNCHANGED <<disk, screenVars, question, placed, known, touched, strayed, used>>

-----------------------------------------------------------------------------
(* Saves and questions share the dialog and the slot *)

\* A reply half that is dropped from the slot answers its question with an error.
DropHalf ==
  question' = IF slot = AgentHalf /\ question = "waiting" THEN "answered" ELSE question

\* Ctrl+S while editing a changed buffer, where the policy says ask ...
SaveAsks ==
  /\ Hands /\ editing /\ buffer.dirty
  /\ Does
  /\ dialog' = "save"
  /\ slot' = SaveRequest
  /\ DropHalf
  /\ UNCHANGED <<disk, buffer, editing, call, history>>

\* ... and where it says allow.
SaveRuns ==
  /\ Hands /\ editing /\ buffer.dirty
  /\ Does
  /\ StartEdit("ui", SaveRequest)
  /\ slot' = NoSlot
  /\ DropHalf
  /\ UNCHANGED <<disk, buffer, editing, dialog, history>>

\* The user answers the dialog: whatever is in the slot gets the answer.
Answer(allowed) ==
  /\ UiFree /\ dialog # "none"
  /\ dialog' = "none"
  /\ slot' = NoSlot
  /\ IF slot.kind = "save" /\ allowed THEN StartEdit("ui", slot) ELSE call' = call
  /\ DropHalf
  /\ UNCHANGED <<disk, buffer, editing, history, used>>

OthersLeft == used.questions + Cardinality(used.marks) < MaxOthers

AgentAsks ==
  /\ call["agent"] = Idle /\ question = "idle"
  /\ OthersLeft /\ used' = [used EXCEPT !.questions = @ + 1]
  /\ question' = "asked"
  /\ UNCHANGED <<disk, screenVars, call, history>>

\* PermissionRequested is folded: its dialog replaces the one that is up.
FoldRequest ==
  /\ UiFree /\ question = "asked"
  /\ question' = "shown"
  /\ dialog' = "agent"
  /\ UNCHANGED <<disk, buffer, editing, slot, call, history, used>>

\* The reply half is taken: it replaces what is in the slot.
TakeHalf ==
  /\ UiFree /\ question = "shown"
  /\ question' = "waiting"
  /\ slot' = AgentHalf
  /\ UNCHANGED <<disk, buffer, editing, dialog, call, history, used>>

AgentGivesUp ==
  /\ question \in {"shown", "waiting"}
  /\ question' = "answered"
  /\ UNCHANGED <<disk, screenVars, call, history, used>>

\* PermissionResolved is folded: it takes down whatever dialog is up.
FoldResolved ==
  /\ UiFree /\ question = "answered"
  /\ question' = "idle"
  /\ dialog' = "none"
  /\ strayed' = (strayed \/ (slot.kind = "save" /\ dialog # "none"))
  /\ UNCHANGED <<disk, buffer, editing, slot, call, placed, known, raced, touched, used>>

-----------------------------------------------------------------------------
(* The other writers *)

\* The agent replaces a piece of the file it quotes by the piece and a mark.
AgentEdits(path, i, mark) ==
  /\ question = "idle" /\ call["agent"] = Idle
  /\ OthersLeft /\ mark \in AgentMarks \ used.marks
  /\ StartEdit("agent", [path |-> path, old |-> <<disk[path][i]>>,
                         new |-> <<disk[path][i], mark>>])
  /\ call'["agent"] # Idle
  /\ used' = [used EXCEPT !.marks = @ \cup {mark}]
  /\ UNCHANGED <<disk, screenVars, question, history>>

\* A program outside writes the file with its mark somewhere in it.
Outside(path, i, mark) ==
  /\ OthersLeft /\ mark \in Strangers \ used.marks
  /\ disk' = [disk EXCEPT ![path] = InsertAt(@, i, mark)]
  /\ placed' = placed \cup {mark}
  /\ Touch("outside", path)
  /\ used' = [used EXCEPT !.marks = @ \cup {mark}]
  /\ UNCHANGED <<screenVars, call, question, known, raced, strayed>>

-----------------------------------------------------------------------------
FilesInit ==
  /\ disk = Original
  /\ buffer = NoBuffer /\ editing = FALSE /\ dialog = "none" /\ slot = NoSlot
  /\ call = [a \in Actors |-> Idle]
  /\ question = "idle"
  /\ placed = {} /\ known = {} /\ raced = {}
  /\ touched = FALSE /\ strayed = FALSE
  /\ used = [doings |-> 0, questions |-> 0, marks |-> {}]

User ==
  \/ \E p \in Paths : OpenEntry(p)
  \/ ToggleEdit \/ EditKey
  \/ SaveAsks \/ SaveRuns
  \/ \E allowed \in BOOLEAN : Answer(allowed)
  \/ FoldRequest \/ TakeHalf \/ FoldResolved

Agent ==
  \/ AgentAsks \/ AgentGivesUp
  \/ \E p \in Paths, mark \in AgentMarks : \E i \in DOMAIN disk[p] : AgentEdits(p, i, mark)

Tools == \E a \in Actors : EmptyFile(a) \/ WriteFile(a) \/ WriteFails(a)

Others == \E p \in Paths, mark \in Strangers : \E i \in 1..(Len(disk[p]) + 1) : Outside(p, i, mark)

FilesNext == User \/ Agent \/ Tools \/ Others

FilesSpec == FilesInit /\ [][FilesNext]_filesVars

-----------------------------------------------------------------------------
(* Properties *)

\* The cursor stays inside the buffer whatever is typed, joined, split, or cut
\* again by a save that is confirmed into another file's buffer: the editor
\* indexes edit_lines[edit_row] without a check, which would take the whole
\* terminal down, and takes a column past the end of a line for its end, so
\* that keys would act elsewhere than the cursor is drawn.
CursorInBuffer ==
  buffer # NoBuffer =>
    /\ buffer.row \in 0..(Len(buffer.lines) - 1)
    /\ buffer.col \in 0..LineLen(buffer)

\* Text another writer put into a file is not lost to a save or to the agent,
\* unless the user had it on the screen, or it came between the read of an
\* edit_file and its write, or the disk failed a write that had begun: the save
\* quotes the text it was opened with, so it fails where the text has changed.
OnlyRacesLoseText ==
  \A mark \in placed \ (known \cup raced) :
    \/ \E p \in Paths : mark \in MarksIn(disk[p])
    \/ \E a \in Actors : call[a].stage = "emptied" /\ mark \in MarksIn(call[a].updated)

Unix(text) == [i \in DOMAIN text |-> IF text[i] = "crlf" THEN "lf" ELSE text[i]]

\* A buffer that says it has no changes holds what is on disk, but for the line
\* ends and the bytes reading could not keep, when no one else wrote the file
\* and no save was answered after the agent's event had taken its dialog: not
\* after a failed write, a refused save, or keys between a save and its answer.
CleanMeansSaved ==
  buffer # NoBuffer /\ ~buffer.dirty /\ ~touched /\ ~strayed /\ call["ui"] = Idle
    => Unix(Lossy(disk[buffer.path])) = EditText(buffer)
=============================================================================
