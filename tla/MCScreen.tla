------------------------------- MODULE MCScreen -------------------------------
(* An 80 by 14 terminal, in Portuguese, over a project of one directory. *)
EXTENDS Screen

\* The explorer and the second tab; the context panel and the strip of the modes.
\* Each is in the centre when its panel is hidden, and in the palette's popup.
ClickedColumns == {10, 70}

PortugueseLabels ==
  [chat |-> 4, files |-> 9, changes |-> 10, terminal |-> 8, git |-> 3, tasks |-> 7]

SomeCommands ==
  <<"open_tasks", "refresh_files", "toggle_explorer", "toggle_terminal", "toggle_context">>

Queries ==
  [q \in {"", "open", "xyz"} |->
    IF q = "" THEN SomeCommands ELSE IF q = "xyz" THEN <<>> ELSE <<"open_tasks">>]

SmallProject ==
  << >> :> << [name |-> "src", isDir |-> TRUE], [name |-> "a", isDir |-> FALSE] >> @@
  <<"src">> :> << [name |-> "c", isDir |-> FALSE] >>
=============================================================================
