------------------------------- MODULE MCToolRun -------------------------------
(* A command with three units to write to each stream, into pipes of two, and *)
(* a project of two directories and one that is excluded.                     *)
EXTENDS ToolRun

SmallProject ==
  [root |-> <<"a", "big", "src", "target">>, src |-> <<"b", "c">>, target |-> <<"t">>]
=============================================================================
