---------------------------- MODULE MCAgentLoop ----------------------------
(* The default policy of the configuration file, with budgets small enough *)
(* that every one of them is exhausted.                                    *)
EXTENDS AgentLoop

MCPermissions ==
  [c \in Categories |-> IF c = "read" THEN "Allow" ELSE IF c = "git_push" THEN "Deny" ELSE "Ask"]
=============================================================================
