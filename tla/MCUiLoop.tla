------------------------------ MODULE MCUiLoop ------------------------------
(* The default policy, and one under which edits need no question.         *)
EXTENDS UiLoop

MCDefault ==
  [c \in Categories |-> IF c = "read" THEN "Allow" ELSE IF c = "git_push" THEN "Deny" ELSE "Ask"]

MCEditAllowed == [MCDefault EXCEPT !["edit"] = "Allow"]
=============================================================================
