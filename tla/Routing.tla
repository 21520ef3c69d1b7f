-------------------------------- MODULE Routing --------------------------------
(***************************************************************************)
(* The choice of a model (darb-providers router and catalog): a pure       *)
(* function of the catalogue, the kind of task and the budget.  A model is *)
(* a record of its provider, its cost tier (0 free, 1 low, 2 medium,       *)
(* 3 high), the kinds it is declared for, and whether it runs locally; ids *)
(* are positions in the catalogue.                                         *)
(***************************************************************************)
EXTENDS Integers, Sequences, FiniteSetsExt

Kinds == {"reason", "code", "quick", "long"}

Budgets == <<"cheapest", "balanced", "best">>

\* Budget::admits: the dearest tier a budget pays for.
Ceiling == [cheapest |-> 1, balanced |-> 2, best |-> 3]

Handles(m, kind) == m.strengths = {} \/ kind \in m.strengths

Matching(models, kind) == {i \in DOMAIN models : Handles(models[i], kind)}

Affordable(models, kind, budget) ==
  {i \in Matching(models, kind) : models[i].cost <= Ceiling[budget]}

\* min_by_key: the first of the cheapest.
Cheapest(models, among) ==
  Min({i \in among : \A j \in among : models[i].cost <= models[j].cost})

\* The first local one, else the first in catalogue order.
Preferred(models, among) ==
  LET locals == {i \in among : models[i].local}
  IN  Min(IF locals # {} THEN locals ELSE among)

Failure(error, about) == [error |-> error, about |-> about]

(* Mutant of Route: nothing affordable is reported as nothing matching. *)
RouteConfused(models, kind, budget) ==
  IF models = <<>> THEN Failure("empty", 0)
  ELSE IF Affordable(models, kind, budget) = {} THEN Failure("no match", 0)
  ELSE Failure("none", Preferred(models, Affordable(models, kind, budget)))

\* route: the position of the chosen model, or why there is none; over budget
\* it names the cheapest match.
Route(models, kind, budget) ==
  LET matching   == Matching(models, kind)
      affordable == Affordable(models, kind, budget)
  IN  CASE models = <<>>   -> Failure("empty", 0)
        [] models # <<>> /\ matching = {} -> Failure("no match", 0)
        [] matching # {} /\ affordable = {} ->
             Failure("over budget", Cheapest(models, matching))
        [] affordable # {} -> Failure("none", Preferred(models, affordable))
=============================================================================
