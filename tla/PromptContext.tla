---------------------------- MODULE PromptContext ----------------------------
(***************************************************************************)
(* The project files that go into a run's prompt: Indexer::scan walks the  *)
(* project under its caps, score ranks what it found, select reads the     *)
(* best files into Agent::build_context's share of the token budget.  The  *)
(* project belongs to its user: a file may change or go at any moment.     *)
(***************************************************************************)
EXTENDS Integers, FiniteSets, Sequences

CONSTANTS
  Files, Dirs, Root,   \* the project
  Parent,              \* of every file and of every directory but Root
  Above,               \* the directories above a node
  PathOrder,           \* of every node, name by name
  TextOrder,           \* of every file, its path compared as text
  Excluded,            \* EXCLUDED_DIRS, EXCLUDED_FILES and secrets
  Depths, Counts,      \* the values tried for max_depth and max_files
  MaxFileBytes,        \* of the indexer and of the selector
  MaxFileTokens,       \* MAX_FILE_TOKENS
  MarkerLen,           \* of truncate_middle's marker
  Budgets,             \* the values tried for budget_tokens; with 0 there is no context
  Sizes,               \* the lengths a file may have
  Scores,              \* the values score may give
  MaxChanges           \* bound: files changed under the walk

Nodes == Files \cup Dirs

ASSUME ProjectAssumption ==
  /\ IsFiniteSet(Files) /\ IsFiniteSet(Dirs) /\ Files \cap Dirs = {} /\ Root \in Dirs
  /\ Parent \in [Nodes \ {Root} -> Dirs]
  /\ Above \in [Nodes -> SUBSET Dirs]
  /\ Above[Root] = {}
  /\ \A n \in Nodes \ {Root} :
       /\ Root \in Above[n]
       /\ Above[n] = Above[Parent[n]] \cup {Parent[n]}
       /\ \A d \in Above[n] : \E e \in Above[n] \cup {n} : e # Root /\ Parent[e] = d
  /\ PathOrder \in [Nodes -> Nat]
  /\ \A m, n \in Nodes : PathOrder[m] = PathOrder[n] => m = n
  /\ TextOrder \in [Files -> Nat]
  /\ \A f, g \in Files : TextOrder[f] = TextOrder[g] => f = g
  /\ Excluded \subseteq Nodes \ {Root}

ASSUME LimitAssumption ==
  /\ Depths \subseteq Nat /\ Counts \subseteq Nat
  /\ Budgets \subseteq Nat \ {0} /\ Sizes \subseteq Nat /\ Scores \subseteq Nat
  /\ MaxFileBytes \in Nat /\ MaxFileTokens \in Nat /\ MaxChanges \in Nat
  /\ MarkerLen \in 0..4 * MaxFileTokens

VARIABLES
  size,       \* of each file, or Gone
  unreadable, \* directories that read_dir refuses
  changed,    \* files that changed since the walk began
  indexer,    \* max_depth and max_files
  budget,     \* budget_tokens
  score,      \* of each file for the task
  phase,      \* scan, select, done
  stack,      \* directories still to be read
  files,      \* files in the map
  truncated,  \* the map is said to be partial
  queue,      \* files in the map still to be considered
  selected,   \* files taken, with their tokens, best first
  spent

projectVars == <<size, unreadable, changed>>
inputVars == <<indexer, budget, score>>
scanVars == <<stack, files, truncated>>
selectVars == <<queue, selected, spent>>
vars == <<projectVars, inputVars, phase, scanVars, selectVars>>

Gone == -1

Before(m, n) == PathOrder[m] < PathOrder[n]

Depth(d) == Cardinality(Above[d])

Init ==
  /\ size \in [Files -> Sizes]
  /\ unreadable \in SUBSET (Dirs \ Excluded)
  /\ changed = {}
  /\ indexer \in [max_depth : Depths, max_files : Counts]
  /\ budget \in Budgets
  /\ score \in [Files -> Scores]
  /\ phase = "scan"
  /\ stack = {Root}
  /\ files = {}
  /\ truncated = FALSE
  /\ queue = {}
  /\ selected = <<>>
  /\ spent = 0

FileChanges(f) ==
  /\ Cardinality(changed) < MaxChanges
  /\ phase # "done"
  /\ \E new \in (Sizes \cup {Gone}) \ {size[f]} : size' = [size EXCEPT ![f] = new]
  /\ changed' = changed \cup {f}
  /\ UNCHANGED <<unreadable, inputVars, phase, scanVars, selectVars>>

-----------------------------------------------------------------------------
(* Indexer::scan. *)

(* Directories are pushed in the order of their paths, so the last of the  *)
(* paths is on the top.                                                    *)
IsTop(d) == d \in stack /\ \A e \in stack \ {d} : Before(e, d)

Room == indexer.max_files - Cardinality(files)

Full == Room <= 0

CapsHit ==
  /\ phase = "scan" /\ stack # {}
  /\ Full
  /\ truncated' = TRUE
  /\ stack' = {}
  /\ UNCHANGED <<projectVars, inputVars, phase, files, selectVars>>

(* Mutant of TooDeep: the cut is not told. *)
TooDeepSilently(d) ==
  /\ phase = "scan" /\ IsTop(d) /\ ~Full
  /\ Depth(d) > indexer.max_depth
  /\ stack' = stack \ {d}
  /\ UNCHANGED <<projectVars, inputVars, phase, files, truncated, selectVars>>

TooDeep(d) ==
  /\ phase = "scan" /\ IsTop(d) /\ ~Full
  /\ Depth(d) > indexer.max_depth
  /\ truncated' = TRUE
  /\ stack' = stack \ {d}
  /\ UNCHANGED <<projectVars, inputVars, phase, files, selectVars>>

Unreadable(d) ==
  /\ phase = "scan" /\ IsTop(d) /\ ~Full
  /\ Depth(d) <= indexer.max_depth
  /\ d \in unreadable
  /\ stack' = stack \ {d}
  /\ UNCHANGED <<projectVars, inputVars, phase, files, truncated, selectVars>>

Children(d) == {n \in Nodes \ {Root} : Parent[n] = d} \ Excluded

(* What read_dir and the sizes may show: a file that goes between the two  *)
(* counts as empty.                                                        *)
Listings(d) ==
  LET inDir == Children(d) \cap Files
  IN {{f \in inDir : size[f] \in 0..MaxFileBytes} \cup late :
        late \in SUBSET {f \in inDir : size[f] = Gone}}

(* The entries of a directory are looked at in order, until the file that  *)
(* fills the map; a directory after it is not pushed.                      *)
ReadDir(d) ==
  /\ phase = "scan" /\ IsTop(d) /\ ~Full
  /\ Depth(d) <= indexer.max_depth
  /\ d \notin unreadable
  /\ \E listed \in Listings(d) :
       \/ /\ Cardinality(listed) < Room
          /\ files' = files \cup listed
          /\ stack' = (stack \ {d}) \cup (Children(d) \cap Dirs)
          /\ UNCHANGED truncated
       \/ \E taken \in SUBSET listed :
            /\ Cardinality(taken) = Room
            /\ \A f \in taken, g \in listed \ taken : Before(f, g)
            /\ files' = files \cup taken
            /\ stack' = (stack \ {d}) \cup {e \in Children(d) \cap Dirs : \E f \in taken : Before(e, f)}
            /\ truncated' = TRUE
  /\ UNCHANGED <<projectVars, inputVars, phase, selectVars>>

ScanEnds ==
  /\ phase = "scan" /\ stack = {}
  /\ phase' = "select"
  /\ queue' = files
  /\ UNCHANGED <<projectVars, inputVars, scanVars, selected, spent>>

-----------------------------------------------------------------------------
(* select, over the files by score and then by path.                      *)

Ranked(f, g) == score[f] > score[g] \/ (score[f] = score[g] /\ TextOrder[f] < TextOrder[g])

IsBest(f) == f \in queue /\ \A g \in queue \ {f} : Ranked(f, g)

Estimate(length) == (length + 3) \div 4

TruncateMiddle(length, limit) ==
  LET keep == IF limit > MarkerLen THEN limit - MarkerLen ELSE 0
  IN IF length <= limit THEN length ELSE MarkerLen + keep

Tokens(f) ==
  IF Estimate(size[f]) > MaxFileTokens
  THEN Estimate(TruncateMiddle(size[f], 4 * MaxFileTokens))
  ELSE Estimate(size[f])

(* build_context's share for the files. *)
FilesBudget == (6 * budget) \div 10

CanRead(f) == size[f] # Gone /\ size[f] <= MaxFileBytes

Skip(f) ==
  /\ phase = "select" /\ IsBest(f)
  /\ spent < FilesBudget
  /\ ~CanRead(f)
  /\ queue' = queue \ {f}
  /\ UNCHANGED <<projectVars, inputVars, phase, scanVars, selected, spent>>

(* Mutant of Take: a file is taken while there is any budget left. *)
TakeWhileAnyIsLeft(f) ==
  /\ phase = "select" /\ IsBest(f)
  /\ spent < FilesBudget
  /\ CanRead(f)
  /\ spent' = spent + Tokens(f)
  /\ selected' = Append(selected, [file |-> f, tokens |-> Tokens(f)])
  /\ queue' = queue \ {f}
  /\ UNCHANGED <<projectVars, inputVars, phase, scanVars>>

Take(f) ==
  /\ phase = "select" /\ IsBest(f)
  /\ spent < FilesBudget
  /\ CanRead(f)
  /\ spent + Tokens(f) <= FilesBudget
  /\ spent' = spent + Tokens(f)
  /\ selected' = Append(selected, [file |-> f, tokens |-> Tokens(f)])
  /\ queue' = queue \ {f}
  /\ UNCHANGED <<projectVars, inputVars, phase, scanVars>>

(* Mutant of Stop: a file that does not fit is passed over. *)
StopNeverEarly ==
  /\ phase = "select"
  /\ \/ /\ (queue = {} \/ spent >= FilesBudget)
        /\ phase' = "done"
        /\ UNCHANGED queue
     \/ /\ spent < FilesBudget
        /\ \E f \in queue : /\ IsBest(f) /\ CanRead(f)
                            /\ spent + Tokens(f) > FilesBudget
                            /\ queue' = queue \ {f}
        /\ UNCHANGED phase
  /\ UNCHANGED <<projectVars, inputVars, scanVars, selected, spent>>

(* The first file that does not fit ends the selection. *)
Stop ==
  /\ phase = "select"
  /\ \/ queue = {}
     \/ spent >= FilesBudget
     \/ \E f \in queue : IsBest(f) /\ CanRead(f) /\ spent + Tokens(f) > FilesBudget
  /\ phase' = "done"
  /\ UNCHANGED <<projectVars, inputVars, scanVars, selectVars>>

Scan == CapsHit \/ ScanEnds \/ \E d \in Dirs : TooDeep(d) \/ Unreadable(d) \/ ReadDir(d)

Select == Stop \/ \E f \in Files : Skip(f) \/ Take(f)

Next == Scan \/ Select \/ \E f \in Files : FileChanges(f)

Spec == Init /\ [][Next]_vars

-----------------------------------------------------------------------------
TypeOK ==
  /\ size \in [Files -> Sizes \cup {Gone}]
  /\ unreadable \subseteq Dirs
  /\ changed \subseteq Files
  /\ indexer \in [max_depth : Depths, max_files : Counts]
  /\ budget \in Budgets
  /\ score \in [Files -> Scores]
  /\ phase \in {"scan", "select", "done"}
  /\ stack \subseteq Dirs
  /\ files \subseteq Files /\ Cardinality(files) <= indexer.max_files
  /\ truncated \in BOOLEAN
  /\ queue \subseteq files
  /\ selected \in Seq([file : files, tokens : Nat])
  /\ spent \in Nat

(* The files in the prompt. *)
Taken == {selected[i] : i \in DOMAIN selected}

Listable(f) ==
  /\ f \notin Excluded
  /\ Above[f] \cap (Excluded \cup unreadable) = {}
  /\ size[f] <= MaxFileBytes

(* "Callers say so in the prompt, never silently": a map that is not said  *)
(* to be partial has every file that could be listed, and no map has       *)
(* another, whichever directory meets a cap first.  Files that changed     *)
(* during the walk may be in it or not.                                    *)
MapTellsItsCut ==
  phase # "scan" =>
    \A f \in Files \ changed :
      /\ f \in files => Listable(f)
      /\ Listable(f) => f \in files \/ truncated

(* The running totals of a selection end in total. *)
SumsTo(selection, total) ==
  \E sums \in [0..Len(selection) -> 0..total] :
    /\ sums[0] = 0 /\ sums[Len(selection)] = total
    /\ \A i \in 1..Len(selection) : sums[i] = sums[i - 1] + selection[i].tokens

(* The files keep within their share of the token budget, and none takes   *)
(* more than one file may, also when it grew since it was listed.          *)
WithinShare ==
  /\ spent <= FilesBudget
  /\ SumsTo(selected, spent)
  /\ \A s \in Taken : s.tokens <= MaxFileTokens

(* "Highest-relevance files": when a file is in the prompt, so is every    *)
(* more relevant one that could be read.                                   *)
BestFirst ==
  \A s \in Taken, f \in files \ changed :
    Ranked(f, s.file) /\ CanRead(f) => \E t \in Taken : t.file = f
=============================================================================
