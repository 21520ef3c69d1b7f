------------------------------- MODULE Policy -------------------------------
(***************************************************************************)
(* The permission lattice of darb-core: the three decisions, the five      *)
(* categories a configuration decides, the ceiling each AI mode puts on    *)
(* them and the rule that turns a request into a verdict.                  *)
(*                                                                         *)
(* A request is abstracted to its KIND: the tool family evaluate_with      *)
(* finds it in and, for a shell command, what the text predicates          *)
(* (is_sudo_command, is_git_push_command, contains_destructive_pattern)    *)
(* say of it, in the order check_shell asks them.                          *)
(***************************************************************************)
EXTENDS Naturals

Decisions == {"Allow", "Ask", "Deny"}

Categories == {"read", "edit", "shell", "delete", "git_push"}

Configs == [Categories -> Decisions]

AiModes == {"Mentor", "Assist", "Autonomous"}

Kinds == Categories \cup {"shell_sudo", "shell_push", "shell_destructive", "unknown"}

Verdicts == {"Allowed", "AskUser", "Denied"}

(* Mutant of Stricter: the comparison is the wrong way round. *)
Looser(a, b) ==
  IF "Allow" \in {a, b} THEN "Allow"
  ELSE IF "Ask" \in {a, b} THEN "Ask" ELSE "Deny"

(* Deny > Ask > Allow. *)
Stricter(a, b) ==
  IF "Deny" \in {a, b} THEN "Deny"
  ELSE IF "Ask" \in {a, b} THEN "Ask" ELSE "Allow"

(* AiMode::permissions: the most a mode may grant. *)
Ceiling(mode) ==
  [c \in Categories |->
     IF c = "read" \/ (mode = "Autonomous" /\ c = "edit") THEN "Allow"
     ELSE IF c = "git_push" \/ mode = "Mentor" THEN "Deny" ELSE "Ask"]

(* AiMode::apply_to: the stricter of the two, category by category. *)
ApplyTo(mode, cfg) ==
  [c \in Categories |->
     IF c = "git_push" THEN "Deny" ELSE Stricter(cfg[c], Ceiling(mode)[c])]

(* PermissionManager::decide. *)
Decide(decision) ==
  IF decision = "Allow" THEN "Allowed" ELSE IF decision = "Ask" THEN "AskUser" ELSE "Denied"

(* Mutant of Escalate: the decision is returned for the verdict. *)
EscalateNothing(base) == Decide(base)

(* PermissionManager::escalate: an allow becomes a question. *)
Escalate(base) == IF base = "Allow" THEN "AskUser" ELSE Decide(base)

(* PermissionManager::check_shell, on a command already classified. *)
CheckShell(kind, cfg) ==
  IF kind = "shell_sudo" THEN "Denied"
  ELSE IF kind \in {"shell_push", "shell_destructive"} THEN Escalate(cfg["shell"])
  ELSE Decide(cfg["shell"])

(* PermissionManager::evaluate_with. *)
Evaluate(kind, cfg) ==
  IF kind \in {"shell", "shell_sudo", "shell_push", "shell_destructive"} THEN CheckShell(kind, cfg)
  ELSE IF kind \in {"read", "edit", "delete", "git_push"} THEN Decide(cfg[kind])
  ELSE "Denied"

(* The order the comparisons of the properties use. *)
Strictness(d) ==
  IF d = "Allow" THEN 0 ELSE IF d = "Ask" THEN 1 ELSE 2
=============================================================================
