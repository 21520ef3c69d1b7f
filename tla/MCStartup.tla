------------------------------- MODULE MCStartup -------------------------------
(* Two processes on projects each of which fails to reach a model for another *)
(* reason, among them an empty catalogue to which a model is added that is    *)
(* not for code and too dear.                                                 *)
EXTENDS Startup

Model(provider, cost, strengths, local) ==
  [provider |-> provider, cost |-> cost, strengths |-> strengths, local |-> local]

HasKey == [darb |-> "unset", openai |-> "set"]
NoKey == [darb |-> "empty", openai |-> "set"]

SmallProjects ==
  {<<Unreadable, Unreadable, NoKey>>,
   <<Unreadable, <<>>, HasKey>>,
   <<Unreadable,
     << Model("openai", 2, {}, FALSE), Model("ollama", 1, {"code"}, TRUE) >>, HasKey>>,
   <<[model |-> "named", name |-> "ollama", budget |-> "balanced"], Unreadable, HasKey>>}

SmallAdditions == {Model("openai", 2, {"quick"}, FALSE)}

=============================================================================
