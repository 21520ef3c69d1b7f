------------------------ MODULE MCPermissionManager ------------------------
(* Two threads share the manager; one request of each kind that the        *)
(* decision path treats differently, under a configuration that allows     *)
(* edits, the shell and git push, which the ceilings take away, and denies *)
(* or asks where a ceiling would not.                                      *)
EXTENDS PermissionManager, TLC

CONSTANTS t1, t2

MCRequests == {"edit", "shell_destructive", "shell_sudo", "unknown"}
MCKindOf == [r \in Requests |-> r]
MCUserConfig ==
  [c \in Categories |-> CASE c = "read" -> "Ask" [] c = "delete" -> "Deny" [] OTHER -> "Allow"]
MCSymmetry == Permutations(Threads)
=============================================================================
