--------------------------- MODULE MCPromptContext ---------------------------
(* src/api, src/deep/low and src/util, and target/out, which is excluded.  *)
EXTENDS PromptContext

MCParent ==
  [n \in Nodes \ {Root} |->
    CASE n \in {"src", "target"} -> "root"
      [] n \in {"api", "deep", "util"} -> "src"
      [] n = "low" -> "deep"
      [] n = "out" -> "target"]

MCAbove ==
  [n \in Nodes |->
    CASE n = "root" -> {}
      [] n \in {"src", "target"} -> {"root"}
      [] n \in {"api", "deep", "util"} -> {"root", "src"}
      [] n = "low" -> {"root", "src", "deep"}
      [] n = "out" -> {"root", "target"}]

MCPathOrder ==
  [n \in Nodes |->
    CASE n = "root" -> 0 [] n = "src" -> 1 [] n = "api" -> 2 [] n = "deep" -> 3
      [] n = "low" -> 4 [] n = "util" -> 5 [] n = "target" -> 6 [] n = "out" -> 7]

(* One of the files has a directory whose name continues another's.        *)
MCTextOrder ==
  [f \in Files |-> CASE f = "low" -> 0 [] f = "api" -> 1 [] f = "out" -> 2 [] f = "util" -> 3]
=============================================================================
