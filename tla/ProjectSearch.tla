----------------------------- MODULE ProjectSearch -----------------------------
(***************************************************************************)
(* The search tool (darb-tools search): ripgrep where it is installed,     *)
(* whose findings are cut, and else a walk over the project that stops at  *)
(* the same number of matches.  A file stands for the number of its lines  *)
(* that match, which may be any when the search begins.                    *)
(***************************************************************************)
EXTENDS Integers, SequencesExt, FiniteSetsExt

CONSTANTS
  Project,     \* for each directory the paths in it, sorted
  Root,        \* the directory the search starts in
  Files,       \* the files
  MaxHits,     \* bound: lines of one file that match
  Excluded,    \* directories never descended into
  Oversized,   \* files above MAX_SCAN_BYTES
  MaxMatches   \* MAX_MATCHES

ASSUME SearchAssumption ==
  /\ IsFiniteSet(Files)
  /\ Root \in DOMAIN Project /\ MaxMatches \in Nat \ {0}
  /\ MaxHits \in Nat /\ Files \cap DOMAIN Project = {}
  /\ \A d \in DOMAIN Project : Project[d] \in Seq(DOMAIN Project \cup Files)

VARIABLES
  hits,     \* for each file, the lines that match
  engine,   \* "none", "rg" or "walk"
  stack,    \* directories still to list
  listed,   \* paths of the open directory still to look at
  found,    \* the matches taken, in order
  cut,      \* the truncated flag
  skipped,  \* history: could something not be read?
  over      \* is the search done?

searchVars == <<hits, engine, stack, listed, found, cut, skipped, over>>

Lines(f, n) == {[file |-> f, line |-> l] : l \in 1..n}

Room == MaxMatches - Len(found)

SearchInit ==
  /\ engine = "none" /\ stack = <<>> /\ listed = <<>>
  /\ hits = [f \in Files |-> 0] /\ found = <<>>
  /\ cut = FALSE /\ skipped = FALSE /\ over = FALSE

\* search_with_rg, over the files ripgrep chooses to look into: at most
\* MAX_MATCHES lines of each and of all, their order left out; the flag that some are
\* missing is never set.
Ripgrep ==
  /\ engine = "none" /\ ~over
  /\ engine' = "rg"
  /\ hits' \in [Files -> 0..MaxHits]
  /\ \E looked \in SUBSET Files :
       LET all == UNION {Lines(f, hits'[f]) : f \in looked}
       IN  \E taken \in kSubset(Min({MaxMatches, Cardinality(all)}), all) : found' = SetToSeq(taken)
  /\ over' = TRUE
  /\ UNCHANGED <<stack, listed, cut, skipped>>

StartWalk ==
  /\ engine = "none" /\ ~over
  /\ engine' = "walk"
  /\ hits' \in [Files -> 0..MaxHits]
  /\ stack' = <<Root>>
  /\ UNCHANGED <<listed, found, cut, skipped, over>>

\* The last directory pushed is listed next; one that cannot be is passed over.
OpenDirectory ==
  /\ engine = "walk" /\ ~over /\ listed = <<>> /\ stack # <<>>
  /\ stack' = Front(stack)
  /\ \/ listed' = Project[Last(stack)] /\ skipped' = skipped
     \/ listed' = <<>> /\ skipped' = TRUE
  /\ UNCHANGED <<hits, engine, found, cut, over>>

(* Mutant of SearchFile: a file that just fills the room ends the walk untold. *)
SearchFileExactly(path) ==
  /\ found' = found \o [l \in 1..Min({hits[path], Room}) |-> [file |-> path, line |-> l]]
  /\ cut' = (hits[path] > Room) /\ over' = (hits[path] >= Room)

\* A file is searched line by line until the room is used up, which ends the walk.
SearchFile(path) ==
  /\ found' = found \o [l \in 1..Min({hits[path], Room}) |-> [file |-> path, line |-> l]]
  /\ cut' = (hits[path] >= Room) /\ over' = cut'

\* The next path: a directory is pushed, a file searched or passed over.
LookAt ==
  LET path == Head(listed)
  IN  /\ engine = "walk" /\ ~over /\ listed # <<>>
      /\ listed' = Tail(listed)
      /\ \/ /\ path \in DOMAIN Project
            /\ stack' = IF path \in Excluded THEN stack ELSE Append(stack, path)
            /\ UNCHANGED <<found, cut, skipped, over>>
         \/ /\ path \in Files \ Oversized
            /\ SearchFile(path)
            /\ UNCHANGED <<stack, skipped>>
         \/ /\ path \in Files
            /\ skipped' = (skipped \/ path \notin Oversized)
            /\ UNCHANGED <<stack, found, cut, over>>
      /\ UNCHANGED <<hits, engine>>

WalkEnds ==
  /\ engine = "walk" /\ ~over /\ listed = <<>> /\ stack = <<>>
  /\ over' = TRUE
  /\ UNCHANGED <<hits, engine, stack, listed, found, cut, skipped>>

SearchNext == Ripgrep \/ StartWalk \/ OpenDirectory \/ LookAt \/ WalkEnds

-----------------------------------------------------------------------------
(* Properties *)

Closed(dirs) ==
  \A d \in dirs : (Range(Project[d]) \cap DOMAIN Project) \ Excluded \subseteq dirs

\* The directories under d that are not below an excluded one: what every set has
\* that has d and the directories of its directories.
Within(d) ==
  {e \in DOMAIN Project : \A dirs \in SUBSET DOMAIN Project : d \in dirs /\ Closed(dirs) => e \in dirs}

Searched == {f \in Files \ Oversized : \E d \in Within(Root) : f \in Range(Project[d])}

\* A walk that does not say it was cut has every match of every file it could
\* read, and neither engine returns more than MAX_MATCHES: a cut is told even
\* where the matches end exactly at the limit.  ripgrep's findings are cut too,
\* but that is never told.
CutIsTold ==
  /\ Len(found) <= MaxMatches
  /\ over /\ engine = "walk" /\ ~cut /\ ~skipped =>
       \A f \in Searched : Lines(f, hits[f]) \subseteq Range(found)
=============================================================================
