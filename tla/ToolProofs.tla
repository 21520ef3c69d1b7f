------------------------------ MODULE ToolProofs ------------------------------
(***************************************************************************)
(* Proofs about the tools and the panels over them.  The shell command,    *)
(* for pipes of every size, every limit on the output and every command:   *)
(* what becomes of sh, and what the result tells of its output.  The       *)
(* search, for every project and limit: that a walk which is cut says so.  *)
(* The editor and the Files tab whose buffer it saves, for every set of    *)
(* files and texts: where the cursor is, which text is lost, and what a    *)
(* buffer without changes holds.  The interface, for terminals of every    *)
(* size: that the highlights stay on rows, that the listing is of its      *)
(* directory, and that a click acts on what is drawn under it.             *)
(***************************************************************************)
EXTENDS ToolRun, FilesTab, Screen, FiniteSetTheorems, SequenceTheorems, WellFoundedInduction,
        TLAPS

Processes == {"sh", "left"}

ShellTyped ==
  /\ caller \in {"idle", "polling", "checking", "killing", "reaping", "reading", "back"}
  /\ late \in BOOLEAN /\ reaped \in BOOLEAN
  /\ alive \subseteq Processes /\ holds \subseteq alive
  /\ pipe \in [Streams -> Nat] /\ written \in [Streams -> Nat] /\ taken \in [Streams -> Nat]

(* Nothing that was written is lost between the pipes and the caller. *)
NothingLost == \A s \in Streams : written[s] = taken[s] + pipe[s]

(* What the caller knows of sh, by where it is. *)
ShellKnown ==
  /\ caller = "idle" => alive = {}
  /\ caller \in {"reading", "reaping"} => "sh" \notin alive
  /\ caller = "reading" => reaped
  /\ caller # "back" => outcome = NoOutcome
  /\ caller = "back" => outcome.kind \in {"refused", "lost", "timed_out", "unread", "ended"}
  /\ outcome.kind = "ended" => caller = "back" /\ "sh" \notin alive

(* A result is made of the outcome it has the output of. *)
ResultIsOutcome ==
  tool = "shell" /\ result.done =>
    /\ caller = "back" /\ result.shows \subseteq Streams
    /\ result.shows # {} => outcome.kind = "ended" /\ result.truncated = outcome.truncated

IInv == ShellTyped /\ NothingLost /\ ShellKnown /\ OutcomeWholeOrCut /\ NoShellLeftBehind

-----------------------------------------------------------------------------
(* cap_stream cuts exactly what it says it cuts. *)
LEMMA CappedCuts ==
  ASSUME NEW units \in Nat
  PROVE  units > MaxOutput <=> Capped(units) < units
BY ShellAssumption DEF Capped

(* A result read to the end, with all that was written taken. *)
LEMMA ResultIsWhole ==
  ASSUME ShellTyped, \A s \in Streams : written[s] = taken[s]
  PROVE  /\ Result.kind = "ended"
         /\ Result.truncated = \E s \in Streams : Result.output[s] < written[s]
<1>1. \A s \in Streams : taken[s] > MaxOutput <=> Capped(taken[s]) < written[s]
  BY CappedCuts DEF ShellTyped
<1>2. \A s \in Streams : Result.output[s] = Capped(taken[s])
  BY DEF Result
<1>3. Result.truncated = \E s \in Streams : taken[s] > MaxOutput
  BY DEF Result
<1>. QED BY <1>1, <1>2, <1>3 DEF Result

-----------------------------------------------------------------------------
LEMMA InitIInv == Init => IInv
<1>. SUFFICES ASSUME ShellInit PROVE IInv
  BY DEF Init
<1>1. pipe = [s \in Streams |-> 0] /\ written = pipe /\ taken = pipe
  BY DEF ShellInit
<1>2. ShellTyped
  <2>1. [s \in Streams |-> 0] \in [Streams -> Nat]
    OBVIOUS
  <2>2. alive \subseteq Processes /\ holds \subseteq alive
    BY DEF ShellInit
  <2>. QED BY <1>1, <2>1, <2>2 DEF ShellInit, ShellTyped
<1>3. NothingLost
  BY <1>1 DEF NothingLost
<1>4. outcome.kind \notin {"refused", "lost", "timed_out", "unread", "ended"}
  BY DEF ShellInit, NoOutcome
<1>5. ShellKnown
  BY <1>4 DEF ShellInit, ShellKnown
<1>6. OutcomeWholeOrCut /\ NoShellLeftBehind
  BY <1>4 DEF ShellInit, OutcomeWholeOrCut, NoShellLeftBehind
<1>. QED BY <1>2, <1>3, <1>5, <1>6 DEF IInv

(* The caller's way to the poll, and the clock. *)
LEMMA StartIInv == ASSUME IInv, Refuse \/ Spawn \/ TimePasses PROVE IInv'
<1>. USE DEF IInv, ShellTyped, NothingLost, ShellKnown, OutcomeWholeOrCut, NoShellLeftBehind,
            NoOutcome, Processes
<1>1. CASE Refuse     BY <1>1 DEF Refuse
<1>2. CASE Spawn      BY <1>2 DEF Spawn
<1>3. CASE TimePasses BY <1>3 DEF TimePasses
<1>. QED BY <1>1, <1>2, <1>3

(* What the command does while it is watched, and after. *)
LEMMA CommandIInv ==
  ASSUME IInv,
         Leave \/ \E p \in Processes : Exit(p) \/ \E s \in Streams : Write(p, s)
  PROVE  IInv'
<1>. USE DEF IInv, ShellTyped, ShellKnown, NoShellLeftBehind, NoOutcome, Processes
<1>1. CASE Leave
  BY <1>1 DEF Leave, NothingLost, OutcomeWholeOrCut
<1>2. ASSUME NEW p \in Processes, Exit(p) PROVE IInv'
  BY <1>2 DEF Exit, NothingLost, OutcomeWholeOrCut
<1>3. ASSUME NEW p \in Processes, NEW s \in Streams, Write(p, s) PROVE IInv'
  <2>1. ShellTyped' /\ ShellKnown' /\ NoShellLeftBehind'
    BY <1>3 DEF Write
  <2>2. NothingLost'
    BY <1>3 DEF Write, NothingLost
  <2>3. OutcomeWholeOrCut'
    BY <1>3 DEF Write, OutcomeWholeOrCut
  <2>. QED BY <2>1, <2>2, <2>3
<1>. QED BY <1>1, <1>2, <1>3

(* The ways out of the poll. *)
LEMMA PollIInv ==
  ASSUME IInv, PollEnded \/ PollRuns \/ PollFails \/ CheckTime \/ Kill \/ Reap
  PROVE  IInv'
<1>. USE DEF IInv, ShellTyped, NothingLost, ShellKnown, OutcomeWholeOrCut, NoShellLeftBehind,
            NoOutcome, Processes
<1>1. CASE PollEnded BY <1>1 DEF PollEnded
<1>2. CASE PollRuns  BY <1>2 DEF PollRuns
<1>3. CASE PollFails BY <1>3 DEF PollFails
<1>4. CASE CheckTime BY <1>4 DEF CheckTime
<1>5. CASE Kill      BY <1>5 DEF Kill
<1>6. CASE Reap      BY <1>6 DEF Reap
<1>. QED BY <1>1, <1>2, <1>3, <1>4, <1>5, <1>6

LEMMA ReadIInv ==
  ASSUME IInv, ReadEnd \/ ReadFails \/ \E s \in Streams : Read(s)
  PROVE  IInv'
<1>1. CASE ReadEnd
  <2>1. \A s \in Streams : written[s] = taken[s]
    BY <1>1 DEF ReadEnd, IInv, NothingLost, ShellTyped
  <2>2. Result.kind = "ended"
        /\ Result.truncated = \E s \in Streams : Result.output[s] < written[s]
    BY <2>1, ResultIsWhole DEF IInv
  <2>3. /\ caller = "reading" /\ caller' = "back" /\ outcome' = Result /\ holds = {}
        /\ UNCHANGED <<late, alive, reaped, holds, pipe, written, taken>>
    BY <1>1 DEF ReadEnd
  <2>4. ShellTyped' /\ NothingLost'
    BY <2>3 DEF IInv, ShellTyped, NothingLost
  <2>5. OutcomeWholeOrCut'
    BY <2>2, <2>3 DEF IInv, ShellKnown, OutcomeWholeOrCut
  <2>6. ShellKnown' /\ NoShellLeftBehind'
    BY <2>2, <2>3 DEF IInv, ShellKnown, NoShellLeftBehind
  <2>. QED BY <2>4, <2>5, <2>6 DEF IInv
<1>2. ASSUME NEW s \in Streams, Read(s) PROVE IInv'
  <2>1. ShellTyped' /\ NothingLost'
    BY <1>2 DEF Read, IInv, ShellTyped, NothingLost
  <2>2. ShellKnown' /\ OutcomeWholeOrCut' /\ NoShellLeftBehind'
    BY <1>2 DEF Read, IInv, ShellKnown, OutcomeWholeOrCut, NoShellLeftBehind
  <2>. QED BY <2>1, <2>2 DEF IInv
<1>3. CASE ReadFails
  <2>1. ShellTyped' /\ NothingLost'
    BY <1>3 DEF ReadFails, IInv, ShellTyped, NothingLost
  <2>2. ShellKnown' /\ OutcomeWholeOrCut' /\ NoShellLeftBehind'
    BY <1>3 DEF ReadFails, IInv, ShellKnown, OutcomeWholeOrCut, NoShellLeftBehind
  <2>. QED BY <2>1, <2>2 DEF IInv
<1>. QED BY <1>1, <1>2, <1>3

LEMMA NextIInv == IInv /\ [Next]_vars => IInv'
<1>. SUFFICES ASSUME IInv, [Next]_vars PROVE IInv'
  OBVIOUS
<1>1. CASE ShellNext
  BY <1>1, StartIInv, CommandIInv, PollIInv, ReadIInv DEF ShellNext, Processes
<1>2. CASE UNCHANGED shellVars
  BY <1>2 DEF shellVars, IInv, ShellTyped, NothingLost, ShellKnown, OutcomeWholeOrCut,
              NoShellLeftBehind
<1>. QED BY <1>1, <1>2 DEF Next, Execute, ShellResult, SearchResult, SearchFails, vars

LEMMA Inductive == Spec => []IInv
BY InitIInv, NextIInv, PTL DEF Spec

(* A call that came back has no more outcomes. *)
LEMMA BackIsBack ==
  ASSUME IInv, ShellNext, caller = "back"
  PROVE  caller' = "back" /\ outcome' = outcome
BY DEF ShellNext, Refuse, Spawn, Leave, TimePasses, PollEnded, PollRuns, PollFails, CheckTime,
       Kill, Reap, ReadEnd, ReadFails, Read, Write, Exit

LEMMA NextResult == IInv /\ ResultIsOutcome /\ [Next]_vars => ResultIsOutcome'
<1>. SUFFICES ASSUME IInv, ResultIsOutcome, [Next]_vars PROVE ResultIsOutcome'
  OBVIOUS
<1>1. CASE \E t \in {"shell", "search", "git", "unknown"} : Execute(t)
  BY <1>1 DEF Execute, ResultIsOutcome, NoResult
<1>2. CASE tool = "shell" /\ ShellNext /\ UNCHANGED <<tool, result, searchVars>>
  BY <1>2, BackIsBack DEF ResultIsOutcome
<1>3. CASE ShellResult
  BY <1>3 DEF ShellResult, ResultIsOutcome, ToolResult, Failed, Streams, shellVars
<1>4. CASE \/ /\ tool = "search" /\ result = NoResult
              /\ SearchNext /\ UNCHANGED <<tool, result, shellVars>>
           \/ SearchResult \/ SearchFails
  <2>1. tool' = "search"
    BY <1>4 DEF SearchResult, SearchFails
  <2>. QED BY <2>1 DEF ResultIsOutcome
<1>5. CASE UNCHANGED vars
  BY <1>5 DEF vars, shellVars, ResultIsOutcome
<1>. QED BY <1>1, <1>2, <1>3, <1>4, <1>5 DEF Next

(* What a result shows of the output is all that the command wrote, or the *)
(* result says it is cut, for every pipe, limit and command                *)
(* (run_with_timeout, cap_stream, ToolRegistry::execute).                  *)
THEOREM WholeOrCut == Spec => []OutputWholeOrCut
<1>1. Init => ResultIsOutcome
  BY DEF Init, ResultIsOutcome
<1>2. IInv /\ ResultIsOutcome => OutputWholeOrCut
  BY DEF IInv, ResultIsOutcome, OutputWholeOrCut, OutcomeWholeOrCut, ShownWhole
<1>. QED BY <1>1, <1>2, Inductive, NextResult, PTL DEF Spec

(* A call that came back has left no sh behind, running or unreaped,       *)
(* whatever the command did and whenever the time ran out.                 *)
THEOREM NoneLeftBehind == Spec => []NoShellLeftBehind
<1>1. IInv => NoShellLeftBehind
  BY DEF IInv
<1>. QED BY <1>1, Inductive, PTL

-----------------------------------------------------------------------------
(* The search.  Unless the walk was cut or could not read something, every *)
(* path of a directory it came by is still to be looked at or settled.     *)
Matches == [file : Files, line : Nat]

SearchTyped ==
  /\ engine \in {"none", "rg", "walk"} /\ cut \in BOOLEAN /\ skipped \in BOOLEAN /\ over \in BOOLEAN
  /\ hits \in [Files -> 0..MaxHits]
  /\ stack \in Seq(DOMAIN Project) /\ listed \in Seq(DOMAIN Project \cup Files)
  /\ found \in Seq(Matches) /\ Len(found) <= MaxMatches
  /\ engine = "none" => found = <<>> /\ listed = <<>> /\ ~over
  /\ cut => over

Settled(path, seen) ==
  /\ path \in DOMAIN Project \ Excluded => path \in seen
  /\ path \in Files \ Oversized => Lines(path, hits[path]) \subseteq Range(found)

Covers(seen) ==
  /\ Root \in seen /\ Range(stack) \subseteq seen
  /\ \A d \in seen \ Range(stack) : \A path \in Range(Project[d]) :
       path \in Range(listed) \/ Settled(path, seen)

WalkTold ==
  engine = "walk" /\ ~cut /\ ~skipped =>
    /\ \E seen \in SUBSET DOMAIN Project : Covers(seen)
    /\ over => stack = <<>> /\ listed = <<>>

SearchInv == SearchTyped /\ WalkTold

-----------------------------------------------------------------------------
LEMMA MinIs ==
  ASSUME NEW a \in Int, NEW b \in Int
  PROVE  Min({a, b}) = IF a <= b THEN a ELSE b
<1>. DEFINE Least(x) == x \in {a, b} /\ \A y \in {a, b} : x <= y
<1>1. \E x : Least(x)
  <2>1. Least(a) \/ Least(b)
    OBVIOUS
  <2>. QED BY <2>1
<1>2. Least(CHOOSE x : Least(x))
  <2>. HIDE DEF Least
  <2>. QED BY <1>1
<1>3. Min({a, b}) = CHOOSE x : Least(x)
  BY DEF Min
<1>. QED BY <1>2, <1>3

(* The matches of some files are finitely many. *)
LEMMA MatchesFinite ==
  ASSUME NEW looked \in SUBSET Files, NEW counts \in [Files -> 0..MaxHits]
  PROVE  IsFiniteSet(UNION {Lines(f, counts[f]) : f \in looked})
<1>. DEFINE places == Files \X (1..MaxHits)
            possible == [file : Files, line : 1..MaxHits]
            match == [p \in places |-> [file |-> p[1], line |-> p[2]]]
<1>1. MaxHits \in Nat /\ IsFiniteSet(Files)
  BY SearchAssumption
<1>2. IsFiniteSet(places)
  <2>1. IsFiniteSet(1..MaxHits)
    BY <1>1, FS_Interval
  <2>. QED BY <1>1, <2>1, FS_Product
<1>3. match \in Surjection(places, possible)
  <2>1. match \in [places -> possible]
    OBVIOUS
  <2>2. ASSUME NEW r \in possible PROVE \E p \in places : match[p] = r
    <3>1. <<r.file, r.line>> \in places /\ match[<<r.file, r.line>>] = r
      OBVIOUS
    <3>. QED BY <3>1
  <2>. QED BY <2>1, <2>2 DEF Surjection
<1>4. IsFiniteSet(possible)
  <2>. HIDE DEF places, possible, match
  <2>. QED BY <1>2, <1>3, FS_Surjection
<1>5. UNION {Lines(f, counts[f]) : f \in looked} \subseteq possible
  <2>1. \A f \in looked : Lines(f, counts[f]) \subseteq possible
    BY <1>1 DEF Lines
  <2>. QED BY <2>1
<1>. QED BY <1>4, <1>5, FS_Subset

LEMMA SetAsSeq ==
  ASSUME NEW S, IsFiniteSet(S)
  PROVE  SetToSeq(S) \in Seq(S) /\ Len(SetToSeq(S)) = Cardinality(S)
<1>1. Cardinality(S) \in Nat /\ ExistsBijection(1..Cardinality(S), S)
  BY FS_CardinalityType
<1>2. \E f \in [1..Cardinality(S) -> S] : IsInjective(f)
  BY <1>1 DEF ExistsBijection, Bijection, Injection, Surjection
<1>3. SetToSeq(S) \in [1..Cardinality(S) -> S]
  BY <1>2, Zenon DEF SetToSeq
<1>. QED BY <1>1, <1>3

LEMMA RangeOf ==
  ASSUME NEW S, NEW seq \in Seq(S)
  PROVE  \A x : x \in Range(seq) <=> \E i \in 1..Len(seq) : x = seq[i]
BY LenProperties DEF Range

LEMMA InitSearch == Init => SearchInv
<1>. SUFFICES ASSUME SearchInit PROVE SearchInv
  BY DEF Init
<1>1. hits \in [Files -> 0..MaxHits] /\ MaxMatches \in Nat
  BY SearchAssumption DEF SearchInit
<1>2. /\ stack \in Seq(DOMAIN Project) /\ listed \in Seq(DOMAIN Project \cup Files)
      /\ found \in Seq(Matches) /\ Len(found) = 0
  BY DEF SearchInit
<1>3. SearchTyped
  <2>1. engine = "none" /\ cut = FALSE /\ skipped = FALSE /\ over = FALSE /\ found = <<>> /\ listed = <<>>
    BY DEF SearchInit
  <2>2. Len(found) <= MaxMatches
    BY <1>1, <1>2
  <2>. QED BY <1>1, <1>2, <2>1, <2>2, Zenon DEF SearchTyped
<1>. QED BY <1>3 DEF SearchInit, SearchInv, WalkTold

LEMMA RipgrepInv ==
  ASSUME SearchInv, Ripgrep
  PROVE  SearchInv'
<1>1. PICK looked \in SUBSET Files :
        \E chosen \in kSubset(Min({MaxMatches, Cardinality(UNION {Lines(f, hits'[f]) : f \in looked})}),
                             UNION {Lines(f, hits'[f]) : f \in looked}) : found' = SetToSeq(chosen)
  BY DEF Ripgrep
<1>. DEFINE all == UNION {Lines(f, hits'[f]) : f \in looked}
<1>2. PICK chosen \in kSubset(Min({MaxMatches, Cardinality(all)}), all) : found' = SetToSeq(chosen)
  BY <1>1
<1>3. hits' \in [Files -> 0..MaxHits]
  BY DEF Ripgrep
<1>4. IsFiniteSet(all)
  BY <1>3, MatchesFinite
<1>5. all \subseteq Matches
  BY DEF Lines, Matches
<1>. HIDE DEF all
<1>6. chosen \subseteq all /\ Cardinality(chosen) = Min({MaxMatches, Cardinality(all)})
  BY <1>2 DEF kSubset
<1>7. IsFiniteSet(chosen) /\ Cardinality(chosen) <= MaxMatches
  <2>1. IsFiniteSet(chosen) /\ Cardinality(all) \in Nat /\ MaxMatches \in Nat
    BY <1>4, <1>6, FS_Subset, FS_CardinalityType, SearchAssumption
  <2>. QED BY <1>6, <2>1, MinIs
<1>8. found' \in Seq(Matches) /\ Len(found') <= MaxMatches
  <2>1. found' \in Seq(chosen) /\ Len(found') = Cardinality(chosen)
    BY <1>2, <1>7, SetAsSeq
  <2>2. chosen \subseteq Matches
    BY <1>5, <1>6
  <2>. QED BY <1>7, <2>1, <2>2
<1>. QED BY <1>3, <1>8 DEF Ripgrep, SearchInv, SearchTyped, WalkTold

LEMMA StartWalkInv ==
  ASSUME SearchInv, StartWalk
  PROVE  SearchInv'
<1>1. Root \in DOMAIN Project /\ stack' = <<Root>> /\ Range(stack') = {Root}
  BY SearchAssumption DEF StartWalk, Range
<1>2. Covers({Root})'
  BY <1>1 DEF Covers
<1>3. SearchTyped'
  BY <1>1 DEF StartWalk, SearchInv, SearchTyped
<1>4. WalkTold'
  <2>1. {Root} \in SUBSET DOMAIN Project /\ ~over'
    BY <1>1 DEF StartWalk
  <2>. QED BY <1>2, <2>1 DEF WalkTold
<1>. QED BY <1>3, <1>4 DEF SearchInv

LEMMA OpenDirectoryInv ==
  ASSUME SearchInv, OpenDirectory
  PROVE  SearchInv'
<1>. DEFINE top == Last(stack)
<1>1. /\ stack \in Seq(DOMAIN Project) /\ stack # <<>> /\ Len(stack) \in Nat \ {0}
      /\ stack' = SubSeq(stack, 1, Len(stack) - 1) /\ top = stack[Len(stack)]
  BY EmptySeq, LenProperties DEF SearchInv, SearchTyped, OpenDirectory, Front, Last
<1>2. /\ stack' \in Seq(DOMAIN Project) /\ top \in DOMAIN Project
      /\ Len(stack') = Len(stack) - 1
      /\ \A i \in 1..(Len(stack) - 1) : stack'[i] = stack[i]
  <2>1. Len(stack) - 1 \in Int /\ \A i \in 1..(Len(stack) - 1) : i \in 1..Len(stack)
    BY <1>1
  <2>2. top \in DOMAIN Project
    BY <1>1, ElementOfSeq
  <2>3. \A i \in 1..Len(stack) : stack[i] \in DOMAIN Project
    BY <1>1, ElementOfSeq
  <2>4. /\ SubSeq(stack, 1, Len(stack) - 1) \in Seq(DOMAIN Project)
        /\ Len(SubSeq(stack, 1, Len(stack) - 1)) = Len(stack) - 1
        /\ \A i \in 1..(Len(stack) - 1) : SubSeq(stack, 1, Len(stack) - 1)[i] = stack[i]
    <3>1. /\ SubSeq(stack, 1, Len(stack) - 1) \in Seq(DOMAIN Project)
          /\ Len(SubSeq(stack, 1, Len(stack) - 1)) =
               IF 1 <= Len(stack) - 1 THEN Len(stack) - 1 - 1 + 1 ELSE 0
          /\ \A i \in 1..(Len(stack) - 1 - 1 + 1) :
               SubSeq(stack, 1, Len(stack) - 1)[i] = stack[1 + i - 1]
      BY <2>1, <2>3, SubSeqProperties
    <3>2. Len(stack) - 1 - 1 + 1 = Len(stack) - 1 /\ \A i \in 1..(Len(stack) - 1) : 1 + i - 1 = i
      BY <1>1
    <3>. QED BY <1>1, <3>1, <3>2
  <2>. QED BY <1>1, <2>2, <2>4
<1>3. Range(stack) = Range(stack') \cup {top}
  <2>1. /\ \A d : d \in Range(stack) <=> \E i \in 1..Len(stack) : d = stack[i]
        /\ \A d : d \in Range(stack') <=> \E i \in 1..Len(stack') : d = stack'[i]
    BY <1>1, <1>2, RangeOf
  <2>. QED BY <1>1, <1>2, <2>1
<1>. HIDE DEF top
<1>4. listed' = Project[top] \/ (listed' = <<>> /\ skipped')
  BY DEF OpenDirectory, top
<1>5. SearchTyped'
  BY <1>2, <1>4, SearchAssumption DEF OpenDirectory, SearchInv, SearchTyped
<1>6. ASSUME NEW seen \in SUBSET DOMAIN Project, Covers(seen), listed' = Project[top]
      PROVE  Covers(seen)'
  <2>1. Range(listed) = {}
    BY DEF OpenDirectory, Range
  <2>2. \A path : Settled(path, seen)' <=> Settled(path, seen)
    BY DEF Settled, OpenDirectory
  <2>. QED BY <1>3, <1>6, <2>1, <2>2 DEF Covers
<1>7. WalkTold'
  <2>1. UNCHANGED <<engine, cut, over>> /\ ~over /\ (skipped => skipped')
    BY DEF OpenDirectory
  <2>. QED BY <1>4, <1>6, <2>1 DEF WalkTold, SearchInv
<1>. QED BY <1>5, <1>7 DEF SearchInv

(* A file that leaves room was found to its last match. *)
LEMMA SearchFileFinds ==
  ASSUME SearchInv, NEW path \in Files, SearchFile(path)
  PROVE  /\ found' \in Seq(Matches) /\ Len(found') <= MaxMatches
         /\ Range(found) \subseteq Range(found')
         /\ cut' \in BOOLEAN /\ over' = cut'
         /\ ~cut' => Lines(path, hits[path]) \subseteq Range(found')
<1>. DEFINE n == Min({hits[path], Room})
            new == [l \in 1..n |-> [file |-> path, line |-> l]]
<1>1. /\ hits[path] \in Nat /\ Room \in Nat /\ Len(found) \in Nat /\ found \in Seq(Matches)
      /\ Room = MaxMatches - Len(found) /\ MaxMatches \in Nat
  BY SearchAssumption, LenProperties DEF SearchInv, SearchTyped, Room
<1>2. n = IF hits[path] <= Room THEN hits[path] ELSE Room
  BY <1>1, MinIs
<1>. HIDE DEF n
<1>3. n \in Nat /\ n <= Room /\ (hits[path] < Room => n = hits[path])
  BY <1>1, <1>2
<1>4. new \in Seq(Matches) /\ Len(new) = n
  BY <1>3 DEF Matches
<1>5. found' = found \o new /\ cut' = (hits[path] >= Room) /\ over' = cut'
  BY DEF SearchFile, n
<1>6. Range(new) = Lines(path, n)
  BY DEF Range, Lines
<1>. HIDE DEF new
<1>7. found' \in Seq(Matches) /\ Len(found') = Len(found) + n
  BY <1>1, <1>4, <1>5, ConcatProperties
<1>8. Range(found') = Range(found) \cup Lines(path, n)
  BY <1>1, <1>4, <1>5, <1>6, RangeConcatenation
<1>9. Len(found') <= MaxMatches
  BY <1>1, <1>3, <1>7
<1>10. ~cut' => n = hits[path]
  <2>1. ~cut' => ~(hits[path] >= Room)
    BY <1>5, Zenon
  <2>. QED BY <1>1, <1>3, <2>1
<1>11. cut' \in BOOLEAN
  BY <1>5
<1>. QED BY <1>5, <1>7, <1>8, <1>9, <1>10, <1>11

LEMMA LookAtInv ==
  ASSUME SearchInv, LookAt
  PROVE  SearchInv'
<1>0. PICK path : path = Head(listed)
  OBVIOUS
<1>1. /\ listed \in Seq(DOMAIN Project \cup Files) /\ listed # <<>> /\ listed' = Tail(listed)
      /\ stack \in Seq(DOMAIN Project) /\ engine' = engine /\ hits' = hits
      /\ engine = "walk" /\ ~over
  BY DEF LookAt, SearchInv, SearchTyped
<1>2. /\ listed' \in Seq(DOMAIN Project \cup Files) /\ path \in DOMAIN Project \cup Files
      /\ Range(listed) = {path} \cup Range(listed')
  <2>1. /\ listed' \in Seq(DOMAIN Project \cup Files) /\ path = listed[1]
        /\ Len(listed) \in Nat \ {0} /\ Len(listed') = Len(listed) - 1
        /\ \A i \in 1..(Len(listed) - 1) : listed'[i] = listed[i + 1]
    BY <1>0, <1>1, HeadTailProperties, EmptySeq, LenProperties
  <2>2. /\ \A p : p \in Range(listed) <=> \E i \in 1..Len(listed) : p = listed[i]
        /\ \A p : p \in Range(listed') <=> \E i \in 1..Len(listed') : p = listed'[i]
    BY <1>1, <2>1, RangeOf
  <2>3. listed[1] \in DOMAIN Project \cup Files
    BY <1>1, <2>1, ElementOfSeq
  <2>4. \A i \in 1..Len(listed) : i = 1 \/ (i - 1 \in 1..Len(listed') /\ listed'[i - 1] = listed[i])
    BY <2>1
  <2>5. \A i \in 1..Len(listed') : i + 1 \in 1..Len(listed) /\ listed'[i] = listed[i + 1]
    BY <2>1
  <2>. QED BY <2>1, <2>2, <2>3, <2>4, <2>5
<1>3. CASE /\ path \in DOMAIN Project
           /\ stack' = IF path \in Excluded THEN stack ELSE Append(stack, path)
           /\ UNCHANGED <<found, cut, skipped, over>>
  <2>1. stack' \in Seq(DOMAIN Project)
        /\ Range(stack') = IF path \in Excluded THEN Range(stack) ELSE Range(stack) \cup {path}
    <3>1. Append(stack, path) = stack \o <<path>> /\ <<path>> \in Seq(DOMAIN Project)
          /\ Range(<<path>>) = {path}
      BY <1>1, <1>3, AppendIsConcat DEF Range
    <3>2. stack \o <<path>> \in Seq(DOMAIN Project)
      BY <1>1, <3>1, ConcatProperties
    <3>3. Range(stack \o <<path>>) = Range(stack) \cup Range(<<path>>)
      BY <1>1, <3>1, RangeConcatenation
    <3>4. CASE path \in Excluded
      BY <1>1, <1>3, <3>4
    <3>5. CASE path \notin Excluded
      BY <1>3, <3>1, <3>2, <3>5, <3>3
    <3>. QED BY <3>4, <3>5
  <2>2. SearchTyped'
    BY <1>1, <1>2, <1>3, <2>1 DEF SearchInv, SearchTyped
  <2>3. ASSUME NEW seen \in SUBSET DOMAIN Project, Covers(seen)
        PROVE  \E more \in SUBSET DOMAIN Project : Covers(more)'
    <3>. DEFINE more == IF path \in Excluded THEN seen ELSE seen \cup {path}
    <3>1. more \in SUBSET DOMAIN Project /\ seen \subseteq more /\ (path \notin Excluded => path \in more)
          /\ more \ Range(stack') \subseteq seen \ Range(stack)
          /\ Range(stack') \subseteq more
      BY <1>3, <2>1, <2>3 DEF Covers
    <3>. HIDE DEF more
    <3>2. \A p : Settled(p, seen) => Settled(p, more)'
      BY <1>1, <1>3, <3>1 DEF Settled
    <3>3. Settled(path, more)'
      BY <1>3, <3>1, SearchAssumption DEF Settled
    <3>4. ASSUME NEW d \in more \ Range(stack'), NEW p \in Range(Project[d])
          PROVE  p \in Range(listed') \/ Settled(p, more)'
      BY <1>2, <2>3, <3>1, <3>2, <3>3, <3>4 DEF Covers
    <3>5. Root \in more
      BY <2>3, <3>1 DEF Covers
    <3>. QED BY <3>1, <3>4, <3>5 DEF Covers
  <2>4. WalkTold'
    BY <1>1, <1>3, <2>3 DEF SearchInv, WalkTold
  <2>. QED BY <2>2, <2>4 DEF SearchInv
<1>4. CASE path \in Files \ Oversized /\ SearchFile(path) /\ UNCHANGED <<stack, skipped>>
  <2>1. /\ found' \in Seq(Matches) /\ Len(found') <= MaxMatches
        /\ Range(found) \subseteq Range(found')
        /\ cut' \in BOOLEAN /\ over' = cut'
        /\ ~cut' => Lines(path, hits[path]) \subseteq Range(found')
    BY <1>4, SearchFileFinds
  <2>2. SearchTyped'
    BY <1>1, <1>2, <1>4, <2>1 DEF SearchInv, SearchTyped
  <2>3. ASSUME NEW seen \in SUBSET DOMAIN Project, Covers(seen), ~cut'
        PROVE  Covers(seen)'
    <3>1. \A p : Settled(p, seen) => Settled(p, seen)'
      BY <1>1, <2>1 DEF Settled
    <3>2. Settled(path, seen)'
      BY <1>1, <1>4, <2>1, <2>3, SearchAssumption DEF Settled
    <3>. QED BY <1>2, <1>4, <2>3, <3>1, <3>2 DEF Covers
  <2>4. ~cut
    BY <1>1 DEF SearchInv, SearchTyped, WalkTold
  <2>5. WalkTold'
    BY <1>1, <1>4, <2>1, <2>3, <2>4 DEF SearchInv, WalkTold
  <2>. QED BY <2>2, <2>5 DEF SearchInv
<1>5. CASE /\ path \in Files
           /\ skipped' = (skipped \/ path \notin Oversized)
           /\ UNCHANGED <<stack, found, cut, over>>
  <2>1. SearchTyped'
    BY <1>1, <1>2, <1>5 DEF SearchInv, SearchTyped
  <2>2. ASSUME NEW seen \in SUBSET DOMAIN Project, Covers(seen), ~skipped'
        PROVE  Covers(seen)'
    <3>1. \A p : Settled(p, seen) => Settled(p, seen)'
      BY <1>1, <1>5 DEF Settled
    <3>2. Settled(path, seen)'
      BY <1>5, <2>2, SearchAssumption DEF Settled
    <3>. QED BY <1>2, <1>5, <2>2, <3>1, <3>2 DEF Covers
  <2>3. WalkTold'
    BY <1>1, <1>5, <2>2 DEF SearchInv, WalkTold
  <2>. QED BY <2>1, <2>3 DEF SearchInv
<1>. QED BY <1>0, <1>3, <1>4, <1>5 DEF LookAt

LEMMA SearchStep == SearchInv /\ [Next]_vars => SearchInv'
<1>. SUFFICES ASSUME SearchInv, [Next]_vars PROVE SearchInv'
  OBVIOUS
<1>1. CASE WalkEnds
  <2>1. UNCHANGED <<hits, engine, stack, listed, found, cut, skipped>> /\ over'
        /\ stack = <<>> /\ listed = <<>> /\ engine = "walk"
    BY <1>1 DEF WalkEnds
  <2>2. \A seen : Covers(seen)' <=> Covers(seen)
    BY <2>1 DEF Covers, Settled
  <2>. QED BY <2>1, <2>2 DEF SearchInv, SearchTyped, WalkTold
<1>2. CASE UNCHANGED searchVars
  <2>1. \A seen : Covers(seen)' <=> Covers(seen)
    BY <1>2 DEF Covers, Settled, searchVars
  <2>. QED BY <1>2, <2>1 DEF SearchInv, SearchTyped, WalkTold, searchVars
<1>3. CASE SearchNext
  BY <1>1, <1>3, RipgrepInv, StartWalkInv, OpenDirectoryInv, LookAtInv DEF SearchNext
<1>. QED BY <1>2, <1>3 DEF Next, Execute, ShellResult, SearchResult, SearchFails, vars

(* A walk that does not say it was cut has every match there was to find,  *)
(* for every project, whatever cannot be read and wherever the limit       *)
(* falls; and no search returns more than the limit (search_fallback,      *)
(* search_with_rg).                                                        *)
THEOREM CutTold == Spec => []CutIsTold
<1>1. SearchInv => CutIsTold
  <2>. SUFFICES ASSUME SearchInv, over, engine = "walk", ~cut, ~skipped, NEW f \in Searched
                PROVE  Lines(f, hits[f]) \subseteq Range(found)
    BY DEF CutIsTold, SearchInv, SearchTyped
  <2>1. PICK seen \in SUBSET DOMAIN Project : Covers(seen)
    BY DEF SearchInv, WalkTold
  <2>2. Range(stack) = {} /\ Range(listed) = {}
    BY DEF SearchInv, WalkTold, Range
  <2>3. Root \in seen /\ \A d \in seen : \A path \in Range(Project[d]) : Settled(path, seen)
    BY <2>1, <2>2 DEF Covers
  <2>4. Closed(seen)
    BY <2>3 DEF Closed, Settled
  <2>5. Within(Root) \subseteq seen
    BY <2>3, <2>4 DEF Within
  <2>. QED BY <2>3, <2>5 DEF Searched, Settled
<1>. QED BY <1>1, InitSearch, SearchStep, PTL DEF Spec

-----------------------------------------------------------------------------
(* Induction up to a number and recursion along a sequence, with sets and  *)
(* functions in the place of operators.                                    *)
LEMMA LeastOf ==
  ASSUME NEW T \in SUBSET Nat, T # {}
  PROVE  \E n \in T : \A m \in T : n <= m
<1>. DEFINE below == OpToRel(<, Nat)
<1>1. IsWellFoundedOn(below, Nat)
  BY NatLessThanWellFounded
<1>2. \A x, y \in Nat : x < y => <<x, y>> \in below
  BY DEF OpToRel
<1>. HIDE DEF below
<1>3. PICK x \in T : \A y \in T : ~(<<y, x>> \in below)
  BY <1>1, WFMin
<1>4. \A y \in T : ~(y < x)
  BY <1>2, <1>3, Zenon
<1>5. \A y \in T : x <= y
  BY <1>4
<1>. QED BY <1>5

LEMMA InductionUpTo ==
  ASSUME NEW n \in Nat, NEW S, 0 \in S, \A i \in 0..(n - 1) : i \in S => i + 1 \in S
  PROVE  \A i \in 0..n : i \in S
<1>. DEFINE T == {i \in 0..n : i \notin S}
<1>1. SUFFICES ASSUME T # {} PROVE FALSE
  OBVIOUS
<1>2. T \in SUBSET Nat
  OBVIOUS
<1>. HIDE DEF T
<1>3. PICK m \in T : \A k \in T : m <= k
  BY <1>1, <1>2, LeastOf
<1>4. m \in 0..n /\ m \notin S
  BY DEF T
<1>5. m # 0 /\ m - 1 \in 0..(n - 1) /\ (m - 1) + 1 = m
  BY <1>4
<1>6. m - 1 \notin T
  BY <1>3, <1>4
<1>7. m - 1 \in S
  BY <1>5, <1>6 DEF T
<1>. QED BY <1>4, <1>5, <1>7

Steps(n, S) == [1..n -> [S -> S]]

LEMMA Recursion ==
  ASSUME NEW n \in Nat, NEW S, NEW base \in S, NEW step \in Steps(n, S)
  PROVE  \E f \in [0..n -> S] : f[0] = base /\ \A i \in 1..n : f[i] = step[i][f[i - 1]]
<1>. USE DEF Steps
<1>. DEFINE Runs(f, k) == f[0] = base /\ \A i \in 1..k : f[i] = step[i][f[i - 1]]
            T == {k \in 0..n : \E f \in [0..k -> S] : Runs(f, k)}
<1>1. 0 \in T
  <2>. DEFINE f == [i \in 0..0 |-> base]
  <2>1. f \in [0..0 -> S] /\ Runs(f, 0)
    OBVIOUS
  <2>. HIDE DEF f
  <2>. QED BY <2>1
<1>2. ASSUME NEW k \in 0..(n - 1), k \in T PROVE k + 1 \in T
  <2>1. PICK f \in [0..k -> S] : Runs(f, k)
    BY <1>2
  <2>2. step[k + 1][f[k]] \in S
    BY <2>1
  <2>. DEFINE g == [i \in 0..(k + 1) |-> IF i <= k THEN f[i] ELSE step[k + 1][f[k]]]
  <2>3. g \in [0..(k + 1) -> S]
    BY <2>1, <2>2
  <2>4. ASSUME NEW i \in 1..(k + 1) PROVE g[i] = step[i][g[i - 1]]
    <3>1. CASE i <= k
      BY <2>1, <3>1
    <3>2. CASE i = k + 1
      BY <3>2
    <3>. QED BY <3>1, <3>2
  <2>5. g[0] = base
    BY <2>1
  <2>. HIDE DEF g
  <2>6. Runs(g, k + 1)
    BY <2>4, <2>5
  <2>. QED BY <2>3, <2>6
<1>. HIDE DEF T
<1>3. n \in T
  <2>1. \A i \in 0..n : i \in T
    BY <1>1, <1>2, InductionUpTo
  <2>. QED BY <2>1
<1>. QED BY <1>3 DEF T

(* What FlattenSeq computes.                                               *)
LEMMA Flattened ==
  ASSUME NEW S, NEW seqs \in Seq(Seq(S)), Len(seqs) > 0
  PROVE  \E f \in [1..Len(seqs) -> Seq(S)] :
           /\ f[1] = seqs[1] /\ \A i \in 2..Len(seqs) : f[i] = f[i - 1] \o seqs[i]
           /\ FlattenSeq(seqs) = f[Len(seqs)]
<1>. DEFINE n == Len(seqs)
            Joins(f) == f = [i \in 1..n |-> IF i = 1 THEN seqs[i] ELSE f[i - 1] \o seqs[i]]
<1>1. n \in Nat \ {0} /\ \A i \in 1..n : seqs[i] \in Seq(S)
  OBVIOUS
<1>2. FlattenSeq(seqs) = (CHOOSE f : Joins(f))[n]
  BY DEF FlattenSeq
<1>. HIDE DEF n
<1>3. \E f : Joins(f)
  <2>. DEFINE step == [i \in 1..n |-> [s \in Seq(S) |-> s \o seqs[i]]]
              T == Seq(S)
              e == <<>>
  <2>1. \A s, t \in Seq(S) : s \o t \in Seq(S)
    OBVIOUS
  <2>2. step \in Steps(n, T) /\ e \in T
    BY <1>1, <2>1 DEF Steps
  <2>3. \A i \in 1..n, s \in T : step[i][s] = s \o seqs[i]
    OBVIOUS
  <2>. HIDE DEF step, T, e
  <2>4. PICK f \in [0..n -> T] : f[0] = e /\ \A i \in 1..n : f[i] = step[i][f[i - 1]]
    <3>1. n \in Nat
      BY <1>1
    <3>. QED BY <2>2, <3>1, Recursion
  <2>. DEFINE g == [i \in 1..n |-> f[i]]
  <2>5. ASSUME NEW i \in 1..n PROVE f[i] = f[i - 1] \o seqs[i]
    <3>1. i - 1 \in 0..n
      BY <1>1
    <3>. QED BY <2>3, <2>4, <3>1
  <2>6. f[1] = seqs[1]
    <3>1. 1 \in 1..n /\ 1 - 1 = 0
      BY <1>1
    <3>2. f[1] = <<>> \o seqs[1]
      BY <2>4, <2>5, <3>1 DEF e
    <3>. QED BY <1>1, <3>1, <3>2
  <2>7. Joins(g)
    <3>1. ASSUME NEW i \in 1..n, i # 1 PROVE i - 1 \in 1..n
      BY <1>1, <3>1
    <3>. QED BY <2>5, <2>6, <3>1
  <2>. HIDE DEF g, Joins
  <2>. QED BY <2>7
<1>. DEFINE joined == CHOOSE f : Joins(f)
<1>4. Joins(joined)
  <2>. HIDE DEF Joins
  <2>. QED BY <1>3
<1>. HIDE DEF joined
<1>5. joined[1] = seqs[1] /\ \A i \in 2..n : joined[i] = joined[i - 1] \o seqs[i]
  <2>1. \A i \in 1..n : joined[i] = IF i = 1 THEN seqs[i] ELSE joined[i - 1] \o seqs[i]
    BY <1>4
  <2>2. 1 \in 1..n /\ \A i \in 2..n : i \in 1..n /\ i # 1
    BY <1>1
  <2>. QED BY <2>1, <2>2, Zenon
<1>6. \A i \in 1..n : joined[i] \in Seq(S)
  <2>. DEFINE T == {i \in 0..n : i = 0 \/ joined[i] \in Seq(S)}
  <2>1. 0 \in T
    BY <1>1
  <2>2. ASSUME NEW i \in 0..(n - 1), i \in T PROVE i + 1 \in T
    <3>1. i + 1 \in 1..n /\ i + 1 \in 0..n /\ seqs[i + 1] \in Seq(S)
      BY <1>1
    <3>2. CASE i = 0
      <4>1. i + 1 = 1
        BY <3>2
      <4>2. joined[i + 1] \in Seq(S)
        BY <1>5, <3>1, <4>1
      <4>. QED BY <3>1, <4>2
    <3>3. CASE i # 0
      <4>1. i + 1 \in 2..n /\ (i + 1) - 1 = i
        BY <1>1, <3>3
      <4>2. joined[i + 1] = joined[i] \o seqs[i + 1] /\ joined[i] \in Seq(S)
        BY <1>5, <2>2, <3>3, <4>1
      <4>3. joined[i + 1] \in Seq(S)
        BY <3>1, <4>2, ConcatProperties
      <4>. QED BY <3>1, <4>3
    <3>. QED BY <3>2, <3>3
  <2>. HIDE DEF T
  <2>3. \A i \in 0..n : i \in T
    BY <1>1, <2>1, <2>2, InductionUpTo
  <2>. QED BY <1>1, <2>3 DEF T
<1>7. joined \in [1..n -> Seq(S)]
  BY <1>4, <1>6
<1>8. FlattenSeq(seqs) = joined[n]
  BY <1>2 DEF joined
<1>. HIDE DEF Joins
<1>. QED BY <1>5, <1>7, <1>8 DEF n

-----------------------------------------------------------------------------
(* Cutting a text into lines, and joining them.                            *)
LEMMA Prefix ==
  ASSUME NEW n \in Nat, NEW P \in SUBSET (1..n), \A i \in P : \A j \in 1..i : j \in P
  PROVE  Cardinality(P) \in 0..n /\ P = 1..Cardinality(P)
<1>. DEFINE T == {i \in 0..n : i + 1 \notin P}
<1>1. n \in T
  OBVIOUS
<1>2. T \in SUBSET Nat
  OBVIOUS
<1>3. PICK m \in T : \A k \in T : m <= k
  BY <1>1, <1>2, LeastOf
<1>4. P = 1..m
  <2>1. ASSUME NEW j \in 1..m PROVE j \in P
    <3>1. j - 1 \in 0..n /\ ~(m <= j - 1) /\ (j - 1) + 1 = j
      BY <1>2, <1>3
    <3>. QED BY <1>3, <3>1
  <2>2. ASSUME NEW i \in P PROVE i \in 1..m
    <3>1. m + 1 \notin P /\ m \in Nat /\ i \in 1..n
      BY <1>2
    <3>2. ~(m + 1 \in 1..i)
      BY <3>1
    <3>. QED BY <3>1, <3>2
  <2>. QED BY <2>1, <2>2
<1>5. m \in 0..n
  OBVIOUS
<1>6. Cardinality(1..m) = m
  BY <1>5, FS_Interval
<1>. QED BY <1>4, <1>5, <1>6

LEMMA EndsNat ==
  ASSUME NEW text, NEW i \in Int
  PROVE  Ends(text, i) \in Nat /\ \A j \in Int : j <= i => Ends(text, j) <= Ends(text, i)
<1>. DEFINE upto(j) == {e \in 1..j : text[e] \in LineEnds}
<1>1. IsFiniteSet(upto(i))
  <2>1. IsFiniteSet(1..i) /\ upto(i) \in SUBSET (1..i)
    BY FS_Interval
  <2>. QED BY <2>1, FS_Subset
<1>2. ASSUME NEW j \in Int, j <= i PROVE Cardinality(upto(j)) <= Cardinality(upto(i))
  <2>1. upto(j) \in SUBSET upto(i)
    BY <1>2
  <2>. HIDE DEF upto
  <2>. QED BY <1>1, <2>1, FS_Subset
<1>3. Cardinality(upto(i)) \in Nat
  <2>. HIDE DEF upto
  <2>. QED BY <1>1, FS_CardinalityType
<1>. QED BY <1>2, <1>3 DEF Ends

LEMMA EndsStep ==
  ASSUME NEW text, NEW i \in Nat
  PROVE  /\ Ends(text, 0) = 0
         /\ Ends(text, i + 1) = Ends(text, i) + (IF text[i + 1] \in LineEnds THEN 1 ELSE 0)
<1>1. Ends(text, 0) = 0
  <2>1. {e \in 1..0 : text[e] \in LineEnds} = {}
    OBVIOUS
  <2>. QED BY <2>1, FS_EmptySet DEF Ends
<1>. DEFINE upto == {e \in 1..i : text[e] \in LineEnds}
            more == {e \in 1..(i + 1) : text[e] \in LineEnds}
<1>2. IsFiniteSet(upto) /\ i + 1 \notin upto
  <2>1. IsFiniteSet(1..i) /\ upto \in SUBSET (1..i)
    BY FS_Interval
  <2>. QED BY <2>1, FS_Subset
<1>3. more = IF text[i + 1] \in LineEnds THEN upto \cup {i + 1} ELSE upto
  OBVIOUS
<1>4. Cardinality(more) = Cardinality(upto) + (IF text[i + 1] \in LineEnds THEN 1 ELSE 0)
  <2>. HIDE DEF upto, more
  <2>1. Cardinality(upto) \in Nat
    BY <1>2, FS_CardinalityType
  <2>2. Cardinality(upto \cup {i + 1}) = Cardinality(upto) + 1
    BY <1>2, FS_AddElement
  <2>. QED BY <1>3, <2>1, <2>2
<1>. QED BY <1>1, <1>4 DEF Ends

\* Where a line begins, less one, and where it ends.
From(text, n) == Cardinality({i \in DOMAIN text : Ends(text, i - 1) < n - 1})
Upto(text, n) == Cardinality({i \in DOMAIN text : Ends(text, i) < n})

LEMMA Cuts ==
  ASSUME NEW S, NEW text \in Seq(S), NEW n \in Nat
  PROVE  /\ From(text, n) \in 0..Len(text) /\ Upto(text, n) \in 0..Len(text)
         /\ \A i \in 1..Len(text) : i <= From(text, n) <=> Ends(text, i - 1) < n - 1
         /\ \A i \in 1..Len(text) : i <= Upto(text, n) <=> Ends(text, i) < n
<1>. DEFINE before == {i \in 1..Len(text) : Ends(text, i - 1) < n - 1}
            within == {i \in 1..Len(text) : Ends(text, i) < n}
<1>1. Len(text) \in Nat /\ DOMAIN text = 1..Len(text)
  OBVIOUS
<1>2. From(text, n) = Cardinality(before) /\ Upto(text, n) = Cardinality(within)
  BY <1>1 DEF From, Upto
<1>3. before \in SUBSET (1..Len(text)) /\ within \in SUBSET (1..Len(text))
  OBVIOUS
<1>4. ASSUME NEW i \in before, NEW j \in 1..i PROVE j \in before
  <2>1. i \in 1..Len(text) /\ j \in 1..Len(text) /\ j - 1 <= i - 1 /\ i - 1 \in Int /\ j - 1 \in Int
    BY <1>1
  <2>2. /\ Ends(text, j - 1) <= Ends(text, i - 1)
        /\ Ends(text, j - 1) \in Nat /\ Ends(text, i - 1) \in Nat
    BY <2>1, EndsNat
  <2>. QED BY <2>1, <2>2
<1>5. ASSUME NEW i \in within, NEW j \in 1..i PROVE j \in within
  <2>1. i \in 1..Len(text) /\ j \in 1..Len(text) /\ j <= i /\ i \in Int /\ j \in Int
    BY <1>1
  <2>2. Ends(text, j) <= Ends(text, i) /\ Ends(text, j) \in Nat /\ Ends(text, i) \in Nat
    BY <2>1, EndsNat
  <2>. QED BY <2>1, <2>2
<1>6. /\ \A i \in 1..Len(text) : i \in before <=> Ends(text, i - 1) < n - 1
      /\ \A i \in 1..Len(text) : i \in within <=> Ends(text, i) < n
  OBVIOUS
<1>. HIDE DEF before, within
<1>7. Cardinality(before) \in 0..Len(text) /\ before = 1..Cardinality(before)
  BY <1>1, <1>3, <1>4, Prefix
<1>8. Cardinality(within) \in 0..Len(text) /\ within = 1..Cardinality(within)
  BY <1>1, <1>3, <1>5, Prefix
<1>. QED BY <1>1, <1>2, <1>6, <1>7, <1>8

LEMMA CutTyped ==
  ASSUME NEW S, NEW text \in Seq(S)
  PROVE  /\ LinesOf(text) \in Seq(Seq(S))
         /\ Len(LinesOf(text)) = Ends(text, Len(text) - 1) + 1
         /\ Len(LinesOf(text)) \in Nat \ {0}
         /\ \A n \in 1..Len(LinesOf(text)) :
              LinesOf(text)[n] = SubSeq(text, From(text, n) + 1, Upto(text, n))
<1>. DEFINE k == Ends(text, Len(text) - 1) + 1
            line(n) == SubSeq(text, From(text, n) + 1, Upto(text, n))
<1>1. k \in Nat \ {0}
  <2>1. Len(text) - 1 \in Int
    OBVIOUS
  <2>. QED BY <2>1, EndsNat
<1>2. LinesOf(text) = [n \in 1..k |-> line(n)]
  BY DEF LinesOf, From, Upto
<1>. HIDE DEF k
<1>3. ASSUME NEW n \in 1..k PROVE line(n) \in Seq(S)
  <2>1. n \in Nat
    BY <1>1
  <2>2. From(text, n) \in 0..Len(text) /\ Upto(text, n) \in 0..Len(text)
    BY <2>1, Cuts
  <2>3. From(text, n) + 1 \in Int /\ Upto(text, n) \in Int /\ Len(text) \in Nat
    BY <2>2
  <2>4. \A i \in (From(text, n) + 1)..Upto(text, n) : text[i] \in S
    <3>1. \A i \in (From(text, n) + 1)..Upto(text, n) : i \in 1..Len(text)
      BY <2>2, <2>3
    <3>. QED BY <3>1, ElementOfSeq
  <2>. QED BY <2>3, <2>4, SubSeqProperties
<1>. HIDE DEF line
<1>4. [n \in 1..k |-> line(n)] \in Seq(Seq(S)) /\ Len([n \in 1..k |-> line(n)]) = k
  <2>. DEFINE T == Seq(S)
  <2>1. \A n \in 1..k : line(n) \in T
    BY <1>3
  <2>. HIDE DEF T
  <2>2. [n \in 1..k |-> line(n)] \in Seq(T) /\ Len([n \in 1..k |-> line(n)]) = k
    BY <1>1, <2>1
  <2>. QED BY <2>2 DEF T
<1>5. \A n \in 1..k : [m \in 1..k |-> line(m)][n] = line(n)
  OBVIOUS
<1>. QED BY <1>1, <1>2, <1>4, <1>5 DEF k, line

\* Where the lines lie in the text they were cut from.
LEMMA LineEdges ==
  ASSUME NEW S, NEW text \in Seq(S), text # <<>>,
         NEW k \in Nat \ {0}, k = Ends(text, Len(text) - 1) + 1
  PROVE  /\ From(text, 1) = 0
         /\ \A n \in 1..k : From(text, n) <= Upto(text, n)
         /\ \A n \in 1..k : \A i \in (From(text, n) + 1)..Upto(text, n) : text[i] \notin LineEnds
         /\ \A n \in 1..(k - 1) : /\ From(text, n + 1) = Upto(text, n) + 1
                                  /\ Upto(text, n) < Len(text)
                                  /\ text[Upto(text, n) + 1] \in LineEnds
         /\ Upto(text, k) = IF text[Len(text)] \in LineEnds THEN Len(text) - 1 ELSE Len(text)
<1>. DEFINE N == Len(text)
            E(i) == Ends(text, i)
            F(n) == From(text, n)
            U(n) == Upto(text, n)
            end(i) == text[i] \in LineEnds
<1>1. N \in Nat \ {0}
  BY EmptySeq
<1>2. \A i \in 0..N : E(i) \in Nat
  BY EndsNat
<1>3. \A i \in 0..N, j \in 0..N : j <= i => E(j) <= E(i)
  <2>1. \A i \in 0..N : i \in Int
    OBVIOUS
  <2>. QED BY <2>1, EndsNat
<1>4. E(0) = 0 /\ \A i \in 1..N : E(i) = E(i - 1) + (IF end(i) THEN 1 ELSE 0)
  <2>1. 0 \in Nat /\ E(0) = 0
    BY EndsStep
  <2>2. ASSUME NEW i \in 1..N PROVE E(i) = E(i - 1) + (IF end(i) THEN 1 ELSE 0)
    <3>1. i - 1 \in Nat /\ (i - 1) + 1 = i
      BY <1>1
    <3>. QED BY <3>1, EndsStep
  <2>. QED BY <2>1, <2>2
<1>5. \A n \in 1..k : F(n) \in 0..N /\ U(n) \in 0..N
  BY Cuts
<1>6. \A n \in 1..k : \A i \in 1..N : (i <= F(n) <=> E(i - 1) < n - 1)
  BY Cuts
<1>7. \A n \in 1..k : \A i \in 1..N : (i <= U(n) <=> E(i) < n)
  BY Cuts
<1>8. k = E(N - 1) + 1
  OBVIOUS
<1>. HIDE DEF N, E, F, U, end
<1>9. F(1) = 0
  <2>1. 1 \in 1..k /\ 1 \in 1..N
    BY <1>1
  <2>2. ~(1 <= F(1))
    BY <1>4, <1>6, <2>1
  <2>. QED BY <1>5, <2>1, <2>2
<1>10. ASSUME NEW n \in 1..k PROVE F(n) <= U(n)
  <2>1. CASE F(n) = 0
    BY <1>5, <2>1
  <2>2. CASE F(n) # 0
    <3>1. F(n) \in 1..N
      BY <1>5, <2>2
    <3>2. E(F(n) - 1) < n - 1
      BY <1>6, <3>1
    <3>3. E(F(n)) <= E(F(n) - 1) + 1
      <4>1. F(n) - 1 \in 0..N /\ F(n) \in 0..N
        BY <3>1, <1>1
      <4>. QED BY <1>2, <1>4, <3>1, <4>1
    <3>4. E(F(n)) < n
      <4>1. F(n) - 1 \in 0..N /\ F(n) \in 0..N
        BY <3>1, <1>1
      <4>2. E(F(n)) \in Nat /\ E(F(n) - 1) \in Nat
        BY <1>2, <4>1
      <4>. QED BY <3>2, <3>3, <4>2
    <3>. QED BY <1>7, <3>1, <3>4
  <2>. QED BY <2>1, <2>2
<1>11. ASSUME NEW n \in 1..k, NEW i \in (F(n) + 1)..U(n) PROVE ~end(i)
  <2>1. i \in 1..N /\ i <= U(n) /\ ~(i <= F(n)) /\ i \in 0..N /\ i - 1 \in 0..N
    BY <1>5, <1>1
  <2>2. E(i) < n /\ ~(E(i - 1) < n - 1)
    BY <1>6, <1>7, <2>1
  <2>3. E(i) \in Nat /\ E(i - 1) \in Nat
    BY <1>2, <2>1
  <2>4. E(i) = E(i - 1)
    BY <1>4, <2>1, <2>2, <2>3
  <2>. QED BY <1>4, <2>1, <2>3, <2>4
<1>12. ASSUME NEW n \in 1..(k - 1) PROVE F(n + 1) = U(n) + 1 /\ U(n) < N /\ end(U(n) + 1)
  <2>1. n \in 1..k /\ n + 1 \in 1..k
    OBVIOUS
  <2>2. U(n) \in 0..N /\ F(n + 1) \in 0..N
    BY <1>5, <2>1
  <2>3. N \in 1..N /\ N \in 0..N /\ N - 1 \in 0..N
    BY <1>1
  <2>4. U(n) < N
    <3>1. n <= E(N - 1)
      BY <1>8, <1>2, <2>3
    <3>2. E(N - 1) <= E(N)
      BY <1>3, <2>3
    <3>3. ~(E(N) < n)
      BY <1>2, <2>3, <3>1, <3>2
    <3>4. ~(N <= U(n))
      BY <1>7, <2>1, <2>3, <3>3
    <3>. QED BY <2>2, <2>3, <3>4
  <2>. DEFINE u == U(n)
  <2>5. u + 1 \in 1..N /\ u \in 0..N /\ u + 1 \in 0..N
    BY <2>2, <2>4, <1>1
  <2>6. E(u) < n
    <3>1. CASE u = 0
      BY <1>4, <3>1
    <3>2. CASE u # 0
      <4>1. u \in 1..N
        BY <2>5, <3>2
      <4>. QED BY <1>7, <2>1, <2>5, <4>1
    <3>. QED BY <3>1, <3>2
  <2>7. ~(E(u + 1) < n)
    BY <1>7, <2>1, <2>5
  <2>8. E(u + 1) = E(u) + (IF end(u + 1) THEN 1 ELSE 0)
    <3>1. (u + 1) - 1 = u
      BY <2>5
    <3>. QED BY <1>4, <2>5, <3>1
  <2>9. end(u + 1)
    <3>1. E(u) \in Nat
      BY <1>2, <2>5
    <3>. QED BY <2>6, <2>7, <2>8, <3>1
  <2>10. u + 1 <= F(n + 1)
    <3>1. E((u + 1) - 1) < (n + 1) - 1
      <4>1. (u + 1) - 1 = u /\ (n + 1) - 1 = n
        BY <2>5
      <4>. QED BY <2>6, <4>1
    <3>. QED BY <1>6, <2>1, <2>5, <3>1
  <2>11. ~(u + 1 < F(n + 1))
    <3>1. SUFFICES ASSUME u + 1 < F(n + 1) PROVE FALSE
      OBVIOUS
    <3>2. u + 2 \in 1..N /\ u + 2 <= F(n + 1)
      <4>. DEFINE f == F(n + 1)
      <4>1. u \in Nat /\ f \in Nat /\ f <= N /\ u + 1 < f
        BY <1>1, <2>2, <2>5, <3>1
      <4>. HIDE DEF u, f
      <4>2. u + 2 \in 1..N /\ u + 2 <= f
        BY <1>1, <4>1
      <4>. QED BY <4>2 DEF f
    <3>3. E((u + 2) - 1) < (n + 1) - 1
      BY <1>6, <2>1, <3>2
    <3>4. (u + 2) - 1 = u + 1 /\ (n + 1) - 1 = n
      BY <2>5
    <3>. QED BY <2>7, <3>3, <3>4
  <2>. QED BY <2>2, <2>4, <2>5, <2>9, <2>10, <2>11
<1>13. U(k) = IF end(N) THEN N - 1 ELSE N
  <2>1. k \in 1..k /\ N \in 1..N /\ N \in 0..N /\ N - 1 \in 0..N
    BY <1>1
  <2>2. E(N) = E(N - 1) + (IF end(N) THEN 1 ELSE 0) /\ E(N - 1) \in Nat
    BY <1>2, <1>4, <2>1
  <2>3. N <= U(k) <=> E(N) < k
    BY <1>7, <2>1
  <2>4. N <= U(k) <=> ~end(N)
    BY <1>8, <2>2, <2>3
  <2>5. N - 1 <= U(k)
    <3>1. CASE N = 1
      BY <1>5, <2>1, <3>1
    <3>2. CASE N # 1
      <4>1. N - 1 \in 1..N
        BY <1>1, <3>2
      <4>2. E(N - 1) < k
        BY <1>8, <2>2
      <4>. QED BY <1>7, <2>1, <4>1, <4>2
    <3>. QED BY <3>1, <3>2
  <2>6. U(k) \in 0..N
    BY <1>5, <2>1
  <2>. QED BY <1>1, <2>4, <2>5, <2>6
<1>. QED BY <1>9, <1>10, <1>11, <1>12, <1>13 DEF N, F, U, end

LEMMA UnixOf ==
  ASSUME NEW S, "lf" \in S, NEW text \in Seq(S)
  PROVE  /\ Unix(text) \in Seq(S) /\ Len(Unix(text)) = Len(text)
         /\ \A i \in 1..Len(text) : Unix(text)[i] = IF text[i] = "crlf" THEN "lf" ELSE text[i]
<1>1. Len(text) \in Nat /\ DOMAIN text = 1..Len(text)
  OBVIOUS
<1>2. \A i \in 1..Len(text) : (IF text[i] = "crlf" THEN "lf" ELSE text[i]) \in S
  BY ElementOfSeq
<1>3. Unix(text) = [i \in 1..Len(text) |-> IF text[i] = "crlf" THEN "lf" ELSE text[i]]
  BY <1>1 DEF Unix
<1>. QED BY <1>1, <1>2, <1>3

\* The lines as EditText joins them: an end before each but the first.
Pieces(lines) == [i \in DOMAIN lines |-> IF i = 1 THEN lines[1] ELSE <<"lf">> \o lines[i]]

LEMMA PiecesOf ==
  ASSUME NEW S, "lf" \in S, NEW lines \in Seq(Seq(S))
  PROVE  /\ Pieces(lines) \in Seq(Seq(S)) /\ Len(Pieces(lines)) = Len(lines)
         /\ \A i \in 1..Len(lines) :
              Pieces(lines)[i] = IF i = 1 THEN lines[1] ELSE <<"lf">> \o lines[i]
<1>1. Len(lines) \in Nat /\ DOMAIN lines = 1..Len(lines)
  OBVIOUS
<1>. DEFINE T == Seq(S)
            piece(i) == IF i = 1 THEN lines[1] ELSE <<"lf">> \o lines[i]
<1>2. ASSUME NEW i \in 1..Len(lines) PROVE piece(i) \in T
  <2>1. lines[i] \in Seq(S)
    BY ElementOfSeq
  <2>2. <<"lf">> \in Seq(S)
    OBVIOUS
  <2>3. <<"lf">> \o lines[i] \in Seq(S)
    BY <2>1, <2>2, ConcatProperties
  <2>. QED BY <2>1, <2>3
<1>3. Pieces(lines) = [i \in 1..Len(lines) |-> piece(i)]
  BY <1>1 DEF Pieces
<1>. HIDE DEF T, piece
<1>4. Pieces(lines) \in Seq(T) /\ Len(Pieces(lines)) = Len(lines)
  BY <1>1, <1>2, <1>3
<1>5. \A i \in 1..Len(lines) : Pieces(lines)[i] = piece(i)
  BY <1>3
<1>. QED BY <1>4, <1>5 DEF T, piece

\* A buffer's text is made of the characters of its lines.
LEMMA TextTyped ==
  ASSUME NEW S, "lf" \in S, NEW b, b.lines \in Seq(Seq(S)), Len(b.lines) > 0
  PROVE  EditText(b) \in Seq(S)
<1>1. Pieces(b.lines) \in Seq(Seq(S)) /\ Len(Pieces(b.lines)) = Len(b.lines)
  BY PiecesOf
<1>2. PICK f \in [1..Len(Pieces(b.lines)) -> Seq(S)] :
        FlattenSeq(Pieces(b.lines)) = f[Len(Pieces(b.lines))]
  BY <1>1, Flattened
<1>3. FlattenSeq(Pieces(b.lines)) \in Seq(S)
  <2>1. Len(Pieces(b.lines)) \in 1..Len(Pieces(b.lines))
    BY <1>1
  <2>. QED BY <1>2, <2>1
<1>. DEFINE tail == IF b.trailing THEN <<"lf">> ELSE <<>>
<1>4. tail \in Seq(S)
  OBVIOUS
<1>5. EditText(b) = FlattenSeq(Pieces(b.lines)) \o tail
  BY DEF EditText, Pieces
<1>. HIDE DEF tail
<1>. QED BY <1>3, <1>4, <1>5, ConcatProperties

\* A text cut into lines and joined again is the text, but for the line ends.
THEOREM RoundTrip ==
  ASSUME NEW S, "lf" \in S, NEW text \in Seq(S),
         NEW b, b.lines = LinesOf(text), b.trailing = EndsLine(text)
  PROVE  EditText(b) = Unix(text)
<1>. DEFINE u == Unix(text)
            N == Len(text)
            lines == LinesOf(text)
            tail == IF EndsLine(text) THEN <<"lf">> ELSE <<>>
<1>1. N \in Nat /\ u \in Seq(S) /\ Len(u) = N
      /\ \A i \in 1..N : u[i] = IF text[i] = "crlf" THEN "lf" ELSE text[i]
  BY UnixOf
<1>2. PICK k \in Nat \ {0} : k = Ends(text, N - 1) + 1 /\ k = Len(lines)
  BY CutTyped
<1>3. /\ lines \in Seq(Seq(S))
      /\ \A n \in 1..k : lines[n] = SubSeq(text, From(text, n) + 1, Upto(text, n))
  BY <1>2, CutTyped
<1>4. /\ Pieces(lines) \in Seq(Seq(S)) /\ Len(Pieces(lines)) = k
      /\ \A i \in 1..k : Pieces(lines)[i] = IF i = 1 THEN lines[1] ELSE <<"lf">> \o lines[i]
  BY <1>2, <1>3, PiecesOf
<1>5. PICK f \in [1..k -> Seq(S)] :
        /\ f[1] = Pieces(lines)[1]
        /\ \A i \in 2..k : f[i] = f[i - 1] \o Pieces(lines)[i]
        /\ FlattenSeq(Pieces(lines)) = f[k]
  <2>. DEFINE pieces == Pieces(lines)
  <2>1. pieces \in Seq(Seq(S)) /\ Len(pieces) = k /\ Len(pieces) > 0
    BY <1>2, <1>4
  <2>. HIDE DEF pieces
  <2>2. PICK f \in [1..Len(pieces) -> Seq(S)] :
          /\ f[1] = pieces[1]
          /\ \A i \in 2..Len(pieces) : f[i] = f[i - 1] \o pieces[i]
          /\ FlattenSeq(pieces) = f[Len(pieces)]
    BY <2>1, Flattened
  <2>. QED BY <2>1, <2>2 DEF pieces
<1>6. EditText(b) = f[k] \o tail
  BY <1>5 DEF EditText, Pieces
<1>7. CASE text = <<>>
  <2>1. N = 0 /\ u = <<>> /\ tail = <<>>
    BY <1>1, <1>7 DEF EndsLine
  <2>2. k = 1
    <3>1. {e \in 1..(0 - 1) : text[e] \in LineEnds} = {}
      OBVIOUS
    <3>2. Ends(text, 0 - 1) = 0
      BY <3>1, FS_EmptySet DEF Ends
    <3>. QED BY <1>2, <2>1, <3>2
  <2>3. lines[1] = <<>>
    <3>1. From(text, 1) \in 0..0 /\ Upto(text, 1) \in 0..0
      BY <2>1, Cuts
    <3>2. From(text, 1) + 1 = 1 /\ Upto(text, 1) = 0
      BY <3>1
    <3>3. SubSeq(text, 1, 0) = <<>>
      BY SubSeqEmpty
    <3>. QED BY <1>3, <2>2, <3>2, <3>3
  <2>4. f[k] = <<>>
    BY <1>4, <1>5, <2>2, <2>3
  <2>. QED BY <1>6, <2>1, <2>4
<1>8. CASE text # <<>>
  <2>. DEFINE U(n) == Upto(text, n)
  <2>1. N > 0
    BY <1>8, EmptySeq
  <2>2. \A n \in 1..k : U(n) \in 0..N
    <3>1. \A n \in 1..k : n \in Nat
      OBVIOUS
    <3>. QED BY <3>1, Cuts
  <2>3. /\ From(text, 1) = 0
        /\ \A n \in 1..k : From(text, n) <= U(n)
        /\ \A n \in 1..k : \A i \in (From(text, n) + 1)..U(n) : text[i] \notin LineEnds
        /\ \A n \in 1..(k - 1) : From(text, n + 1) = U(n) + 1 /\ U(n) < N /\ text[U(n) + 1] \in LineEnds
        /\ U(k) = IF text[N] \in LineEnds THEN N - 1 ELSE N
    BY <1>2, <1>8, LineEdges
  <2>4. \A i \in 1..N : text[i] \in LineEnds => u[i] = "lf"
    BY <1>1 DEF LineEnds
  <2>5. \A i \in 1..N : text[i] \notin LineEnds => u[i] = text[i]
    BY <1>1 DEF LineEnds
  <2>. HIDE DEF U, u, N, lines, tail
  <2>6. ASSUME NEW n \in 1..k PROVE lines[n] = SubSeq(u, From(text, n) + 1, U(n))
    <3>. DEFINE from == From(text, n) + 1
                upto == U(n)
    <3>1. from \in Nat \ {0} /\ upto \in Nat /\ upto <= N
      <4>1. From(text, n) \in 0..N
        <5>1. n \in Nat
          OBVIOUS
        <5>. QED BY <5>1, Cuts DEF N
      <4>. QED BY <2>2, <4>1
    <3>2. \A i \in from..upto : text[i] = u[i] /\ text[i] \in S
      <4>1. ASSUME NEW i \in from..upto PROVE i \in 1..N
        BY <1>1, <3>1
      <4>2. ASSUME NEW i \in from..upto PROVE text[i] \notin LineEnds
        BY <2>3
      <4>3. \A i \in 1..N : text[i] \in S
        BY ElementOfSeq DEF N
      <4>. QED BY <2>5, <4>1, <4>2, <4>3
    <3>3. lines[n] = SubSeq(text, from, upto)
      BY <1>3 DEF U
    <3>. HIDE DEF from, upto
    <3>4. SubSeq(text, from, upto) = SubSeq(u, from, upto)
      <4>1. from \in Int /\ upto \in Int
        BY <3>1
      <4>2. /\ SubSeq(text, from, upto) \in Seq(S)
            /\ Len(SubSeq(text, from, upto)) = IF from <= upto THEN upto - from + 1 ELSE 0
            /\ \A i \in 1..(upto - from + 1) : SubSeq(text, from, upto)[i] = text[from + i - 1]
        BY <3>2, <4>1, SubSeqProperties
      <4>3. /\ SubSeq(u, from, upto) \in Seq(S)
            /\ Len(SubSeq(u, from, upto)) = IF from <= upto THEN upto - from + 1 ELSE 0
            /\ \A i \in 1..(upto - from + 1) : SubSeq(u, from, upto)[i] = u[from + i - 1]
        <5>1. \A i \in from..upto : u[i] \in S
          BY <3>2
        <5>. QED BY <4>1, <5>1, SubSeqProperties
      <4>4. \A i \in 1..(upto - from + 1) : text[from + i - 1] = u[from + i - 1]
        <5>1. \A i \in 1..(upto - from + 1) : from + i - 1 \in from..upto
          BY <4>1
        <5>. QED BY <3>2, <5>1
      <4>5. \A i \in 1..Len(SubSeq(text, from, upto)) : i \in 1..(upto - from + 1)
        BY <4>1, <4>2
      <4>. QED BY <4>2, <4>3, <4>4, <4>5, SeqEqual
    <3>. QED BY <3>3, <3>4 DEF from, upto
  <2>7. \A i \in 1..k : f[i] = SubSeq(u, 1, U(i))
    <3>. DEFINE T == {i \in 0..k : i = 0 \/ f[i] = SubSeq(u, 1, U(i))}
    <3>1. 0 \in T
      OBVIOUS
    <3>2. ASSUME NEW i \in 0..(k - 1), i \in T PROVE i + 1 \in T
      <4>1. CASE i = 0
        <5>1. f[1] = lines[1] /\ 1 \in 1..k /\ 1 \in 0..k
          BY <1>4, <1>5
        <5>2. lines[1] = SubSeq(u, 1, U(1))
          <6>1. From(text, 1) + 1 = 1
            BY <2>3
          <6>. QED BY <2>6, <5>1, <6>1
        <5>. QED BY <4>1, <5>1, <5>2
      <4>2. CASE i # 0
        <5>1. i \in 1..k /\ i \in 1..(k - 1) /\ i + 1 \in 2..k /\ i + 1 \in 1..k /\ i + 1 \in 0..k
              /\ (i + 1) - 1 = i /\ i + 1 # 1
          BY <4>2
        <5>2. f[i] = SubSeq(u, 1, U(i))
          BY <3>2, <4>2
        <5>3. f[i + 1] = f[i] \o (<<"lf">> \o lines[i + 1])
          <6>1. f[i + 1] = f[(i + 1) - 1] \o Pieces(lines)[i + 1]
            BY <1>5, <5>1
          <6>2. Pieces(lines)[i + 1] = <<"lf">> \o lines[i + 1]
            BY <1>4, <5>1
          <6>. QED BY <5>1, <6>1, <6>2
        <5>. DEFINE at == U(i)
                    to == U(i + 1)
        <5>4. at \in 0..(N - 1) /\ to \in 0..N /\ at + 1 <= to /\ u[at + 1] = "lf"
          <6>1. U(i) < N /\ text[U(i) + 1] \in LineEnds /\ From(text, i + 1) = U(i) + 1
            BY <2>3, <5>1
          <6>2. U(i) \in 0..N /\ U(i + 1) \in 0..N
            BY <2>2, <5>1
          <6>3. From(text, i + 1) <= U(i + 1)
            BY <2>3, <5>1
          <6>4. U(i) + 1 \in 1..N
            BY <1>1, <6>1, <6>2
          <6>. QED BY <1>1, <2>4, <6>1, <6>2, <6>3, <6>4
        <5>5. lines[i + 1] = SubSeq(u, at + 2, to)
          <6>1. From(text, i + 1) = at + 1
            BY <2>3, <5>1
          <6>2. (at + 1) + 1 = at + 2
            BY <5>4
          <6>. QED BY <2>6, <5>1, <6>1, <6>2
        <5>. HIDE DEF at, to
        <5>6. SubSeq(u, at + 1, to) = <<u[at + 1]>> \o SubSeq(u, at + 2, to)
          <6>1. at + 1 \in 1..Len(u) /\ to \in (at + 1)..Len(u) /\ (at + 1) + 1 = at + 2
            BY <1>1, <5>4
          <6>2. SubSeq(u, at + 1, to) = <<u[at + 1]>> \o SubSeq(u, (at + 1) + 1, to)
            BY <1>1, <6>1, SubSeqRecursiveFirst
          <6>. QED BY <6>1, <6>2
        <5>7. SubSeq(u, 1, at) \o SubSeq(u, at + 1, to) = SubSeq(u, 1, to)
          <6>1. 1 \in 1..(Len(u) + 1) /\ at \in (1 - 1)..Len(u) /\ to \in at..Len(u)
            BY <1>1, <5>4
          <6>. QED BY <1>1, <6>1, ConcatAdjacentSubSeq
        <5>8. f[i + 1] = SubSeq(u, 1, to)
          BY <5>2, <5>3, <5>4, <5>5, <5>6, <5>7 DEF at
        <5>. QED BY <5>1, <5>8 DEF to
      <4>. QED BY <4>1, <4>2
    <3>. HIDE DEF T
    <3>3. \A i \in 0..k : i \in T
      BY <3>1, <3>2, InductionUpTo
    <3>. QED BY <3>3 DEF T
  <2>8. f[k] = SubSeq(u, 1, U(k))
    BY <2>7
  <2>9. EndsLine(text) <=> text[N] \in LineEnds
    BY <1>8 DEF EndsLine, N, Last
  <2>10. CASE text[N] \in LineEnds
    <3>1. U(k) = N - 1 /\ tail = <<u[N]>>
      <4>1. N \in 1..N
        BY <1>1, <2>1
      <4>2. u[N] = "lf"
        BY <2>4, <2>10, <4>1
      <4>. QED BY <2>3, <2>9, <2>10, <4>2 DEF tail
    <3>2. SubSeq(u, 1, N) = SubSeq(u, 1, N - 1) \o <<u[N]>>
      <4>1. 1 \in 1..Len(u) /\ N \in 1..Len(u)
        BY <1>1, <2>1
      <4>. QED BY <1>1, <4>1, SubSeqRecursiveSecond
    <3>3. SubSeq(u, 1, N) = u
      BY <1>1, SubSeqFull
    <3>. QED BY <1>6, <2>8, <3>1, <3>2, <3>3 DEF u
  <2>11. CASE text[N] \notin LineEnds
    <3>1. U(k) = N /\ tail = <<>>
      BY <2>3, <2>9, <2>11 DEF tail
    <3>2. SubSeq(u, 1, N) = u
      BY <1>1, SubSeqFull
    <3>3. u \o <<>> = u
      BY <1>1, ConcatEmptySeq
    <3>. QED BY <1>6, <2>8, <3>1, <3>2, <3>3 DEF u
  <2>. QED BY <2>10, <2>11
<1>. QED BY <1>7, <1>8

-----------------------------------------------------------------------------
(* The buffer and the keys.                                                *)
LEMMA Inserting ==
  ASSUME NEW S, NEW s \in Seq(S), NEW e \in S, NEW i \in 1..(Len(s) + 1)
  PROVE  /\ InsertAt(s, i, e) \in Seq(S) /\ Len(InsertAt(s, i, e)) = Len(s) + 1
         /\ InsertAt(s, i, e)[i] = e
<1>. DEFINE a == SubSeq(s, 1, i - 1)
            z == SubSeq(s, i, Len(s))
<1>1. Len(s) \in Nat /\ \A j \in 1..Len(s) : s[j] \in S
  BY ElementOfSeq
<1>2. a \in Seq(S) /\ Len(a) = i - 1
  <2>1. 1 \in Int /\ i - 1 \in Int /\ \A j \in 1..(i - 1) : s[j] \in S
    BY <1>1
  <2>2. a \in Seq(S) /\ Len(a) = IF 1 <= i - 1 THEN (i - 1) - 1 + 1 ELSE 0
    BY <2>1, SubSeqProperties
  <2>. HIDE DEF a
  <2>. QED BY <1>1, <2>2
<1>3. z \in Seq(S) /\ Len(z) = Len(s) - i + 1
  <2>1. i \in Int /\ Len(s) \in Int /\ \A j \in i..Len(s) : s[j] \in S
    BY <1>1
  <2>2. z \in Seq(S) /\ Len(z) = IF i <= Len(s) THEN Len(s) - i + 1 ELSE 0
    BY <2>1, SubSeqProperties
  <2>. HIDE DEF z
  <2>. QED BY <1>1, <2>2
<1>4. <<e>> \in Seq(S) /\ Len(<<e>>) = 1
  OBVIOUS
<1>5. InsertAt(s, i, e) = (a \o <<e>>) \o z
  BY DEF InsertAt
<1>. HIDE DEF a, z
<1>6. a \o <<e>> \in Seq(S) /\ Len(a \o <<e>>) = i /\ (a \o <<e>>)[i] = e
  <2>1. /\ a \o <<e>> \in Seq(S) /\ Len(a \o <<e>>) = Len(a) + Len(<<e>>)
        /\ \A j \in 1..(Len(a) + Len(<<e>>)) : (a \o <<e>>)[j] =
             IF j <= Len(a) THEN a[j] ELSE <<e>>[j - Len(a)]
    BY <1>2, <1>4, ConcatProperties
  <2>2. Len(a) = i - 1 /\ Len(<<e>>) = 1 /\ i \in 1..(Len(a) + Len(<<e>>)) /\ i - Len(a) = 1
    BY <1>1, <1>2
  <2>. QED BY <1>1, <2>1, <2>2
<1>7. /\ (a \o <<e>>) \o z \in Seq(S) /\ Len((a \o <<e>>) \o z) = i + (Len(s) - i + 1)
      /\ \A j \in 1..(i + (Len(s) - i + 1)) : ((a \o <<e>>) \o z)[j] =
           IF j <= i THEN (a \o <<e>>)[j] ELSE z[j - i]
  <2>. DEFINE w == a \o <<e>>
  <2>1. w \in Seq(S) /\ Len(w) = i
    BY <1>6
  <2>. HIDE DEF w
  <2>2. /\ w \o z \in Seq(S) /\ Len(w \o z) = Len(w) + Len(z)
        /\ \A j \in 1..(Len(w) + Len(z)) : (w \o z)[j] = IF j <= Len(w) THEN w[j] ELSE z[j - Len(w)]
    BY <1>3, <2>1, ConcatProperties
  <2>. QED BY <1>3, <2>1, <2>2 DEF w
<1>8. i \in 1..(i + (Len(s) - i + 1)) /\ i + (Len(s) - i + 1) = Len(s) + 1
  BY <1>1
<1>. QED BY <1>1, <1>5, <1>6, <1>7, <1>8

LEMMA Removing ==
  ASSUME NEW S, NEW s \in Seq(S), NEW i \in 1..Len(s)
  PROVE  /\ RemoveAt(s, i) \in Seq(S) /\ Len(RemoveAt(s, i)) = Len(s) - 1
         /\ \A j \in 1..(i - 1) : RemoveAt(s, i)[j] = s[j]
<1>. DEFINE a == SubSeq(s, 1, i - 1)
            z == SubSeq(s, i + 1, Len(s))
<1>1. Len(s) \in Nat /\ \A j \in 1..Len(s) : s[j] \in S
  BY ElementOfSeq
<1>2. a \in Seq(S) /\ Len(a) = i - 1 /\ \A j \in 1..(i - 1) : a[j] = s[j]
  <2>1. 1 \in Int /\ i - 1 \in Int /\ \A j \in 1..(i - 1) : s[j] \in S
    BY <1>1
  <2>2. /\ a \in Seq(S) /\ Len(a) = IF 1 <= i - 1 THEN (i - 1) - 1 + 1 ELSE 0
        /\ \A j \in 1..((i - 1) - 1 + 1) : a[j] = s[1 + j - 1]
    BY <2>1, SubSeqProperties
  <2>. HIDE DEF a
  <2>. QED BY <1>1, <2>2
<1>3. z \in Seq(S) /\ Len(z) = Len(s) - i
  <2>1. i + 1 \in Int /\ Len(s) \in Int /\ \A j \in (i + 1)..Len(s) : s[j] \in S
    BY <1>1
  <2>2. z \in Seq(S) /\ Len(z) = IF i + 1 <= Len(s) THEN Len(s) - (i + 1) + 1 ELSE 0
    BY <2>1, SubSeqProperties
  <2>. HIDE DEF z
  <2>. QED BY <1>1, <2>2
<1>4. RemoveAt(s, i) = a \o z
  BY DEF RemoveAt
<1>. HIDE DEF a, z
<1>5. /\ a \o z \in Seq(S) /\ Len(a \o z) = Len(a) + Len(z)
      /\ \A j \in 1..(Len(a) + Len(z)) : (a \o z)[j] = IF j <= Len(a) THEN a[j] ELSE z[j - Len(a)]
  BY <1>2, <1>3, ConcatProperties
<1>6. \A j \in 1..(i - 1) : j \in 1..(Len(a) + Len(z)) /\ j <= Len(a)
  BY <1>1, <1>2, <1>3
<1>. QED BY <1>1, <1>2, <1>3, <1>4, <1>5, <1>6

\* A piece of a text.
LEMMA Cutting ==
  ASSUME NEW S, NEW s \in Seq(S), NEW m \in Nat \ {0}, NEW n \in 0..Len(s)
  PROVE  /\ SubSeq(s, m, n) \in Seq(S)
         /\ Len(SubSeq(s, m, n)) = IF m <= n THEN n - m + 1 ELSE 0
<1>1. m \in Int /\ n \in Int
  OBVIOUS
<1>2. \A j \in m..n : j \in 1..Len(s)
  OBVIOUS
<1>3. \A j \in m..n : s[j] \in S
  BY <1>2, ElementOfSeq
<1>. QED BY <1>1, <1>3, SubSeqProperties

Buffers(S) ==
  [path : Paths, origin : Seq(S), trailing : BOOLEAN, lines : Seq(Seq(S)),
   row : Nat, col : Nat, dirty : BOOLEAN]

\* A buffer of characters in S with the cursor in it.
InBuffer(b, S) ==
  b \in Buffers(S) /\ b.row < Len(b.lines) /\ b.col <= Len(b.lines[b.row + 1])

\* What no key changes.
SameFile(b, c) == c.path = b.path /\ c.origin = b.origin /\ c.trailing = b.trailing

LEMMA LineOf ==
  ASSUME NEW S, NEW b, InBuffer(b, S)
  PROVE  /\ b.lines \in Seq(Seq(S)) /\ Len(b.lines) \in Nat /\ b.row \in Nat /\ b.col \in Nat
         /\ b.row + 1 \in 1..Len(b.lines) /\ LineLen(b) = Len(b.lines[b.row + 1])
         /\ \A i \in 1..Len(b.lines) : b.lines[i] \in Seq(S) /\ Len(b.lines[i]) \in Nat
<1>1. b.lines \in Seq(Seq(S)) /\ b.row \in Nat /\ b.col \in Nat /\ b.row < Len(b.lines)
  BY DEF InBuffer, Buffers
<1>2. \A i \in 1..Len(b.lines) : b.lines[i] \in Seq(S)
  BY <1>1, ElementOfSeq
<1>. QED BY <1>1, <1>2 DEF LineLen

\* Clamping puts the cursor into a buffer that has a line.
LEMMA ClampedIn ==
  ASSUME NEW S, NEW b \in Buffers(S), Len(b.lines) > 0
  PROVE  /\ InBuffer(Clamped(b), S) /\ SameFile(b, Clamped(b))
         /\ Clamped(b).lines = b.lines /\ Clamped(b).dirty = b.dirty
<1>. DEFINE row == IF b.row < Len(b.lines) THEN b.row ELSE Len(b.lines) - 1
            r == [b EXCEPT !.row = row]
            col == IF r.col < LineLen(r) THEN r.col ELSE LineLen(r)
<1>1. b.lines \in Seq(Seq(S)) /\ Len(b.lines) \in Nat /\ b.row \in Nat /\ b.col \in Nat
  BY DEF Buffers
<1>2. row \in Nat /\ row + 1 \in 1..Len(b.lines) /\ row < Len(b.lines)
  BY <1>1
<1>3. b.lines[row + 1] \in Seq(S) /\ Len(b.lines[row + 1]) \in Nat
  <2>. HIDE DEF row
  <2>1. b.lines[row + 1] \in Seq(S)
    BY <1>1, <1>2, ElementOfSeq
  <2>. QED BY <2>1
<1>4. Clamped(b) = [r EXCEPT !.col = col]
  BY DEF Clamped
<1>. HIDE DEF row
<1>5. r \in Buffers(S) /\ r.row = row /\ r.lines = b.lines /\ r.col = b.col
      /\ SameFile(b, r) /\ r.dirty = b.dirty
  BY <1>2 DEF Buffers, SameFile
<1>. HIDE DEF r
<1>6. LineLen(r) = Len(b.lines[row + 1])
  BY <1>2, <1>5 DEF LineLen
<1>7. col \in Nat /\ col <= Len(b.lines[row + 1])
  BY <1>1, <1>3, <1>5, <1>6
<1>. HIDE DEF col
<1>8. /\ [r EXCEPT !.col = col] \in Buffers(S)
      /\ [r EXCEPT !.col = col].row = row /\ [r EXCEPT !.col = col].col = col
      /\ [r EXCEPT !.col = col].lines = b.lines /\ [r EXCEPT !.col = col].dirty = b.dirty
      /\ SameFile(b, [r EXCEPT !.col = col])
  BY <1>5, <1>7 DEF Buffers, SameFile
<1>. QED BY <1>2, <1>4, <1>7, <1>8 DEF InBuffer

LEMMA OpenedIn ==
  ASSUME NEW S, NEW path \in Paths, NEW text \in Seq(S)
  PROVE  InBuffer(Opened(path, text), S)
<1>1. LinesOf(text) \in Seq(Seq(S)) /\ Len(LinesOf(text)) \in Nat \ {0}
  BY CutTyped
<1>2. LinesOf(text)[1] \in Seq(S)
  BY <1>1, ElementOfSeq
<1>3. EndsLine(text) \in BOOLEAN
  BY DEF EndsLine
<1>. DEFINE L == Seq(Seq(S))
            lines == LinesOf(text)
<1>4. lines \in L
  BY <1>1
<1>5. 0 <= Len(lines[1]) /\ 0 < Len(lines)
  BY <1>1, <1>2
<1>. HIDE DEF L, lines
<1>6. Opened(path, text) \in [path : Paths, origin : Seq(S), trailing : BOOLEAN, lines : L,
                              row : Nat, col : Nat, dirty : BOOLEAN]
  BY <1>3, <1>4 DEF Opened, lines
<1>7. Opened(path, text).lines = lines /\ Opened(path, text).row = 0 /\ Opened(path, text).col = 0
  BY DEF Opened, lines
<1>. QED BY <1>5, <1>6, <1>7 DEF InBuffer, Buffers, L

LEMMA ConfirmedIn ==
  ASSUME NEW S, NEW b, InBuffer(b, S), NEW text \in Seq(S)
  PROVE  /\ InBuffer(Confirmed(b, text), S)
         /\ Confirmed(b, text).path = b.path /\ Confirmed(b, text).origin = text
         /\ Confirmed(b, text).trailing = EndsLine(text)
         /\ Confirmed(b, text).lines = LinesOf(text) /\ ~Confirmed(b, text).dirty
<1>. DEFINE c == [b EXCEPT !.origin = text, !.trailing = EndsLine(text),
                           !.lines = LinesOf(text), !.dirty = FALSE]
            L == Seq(Seq(S))
            lines == LinesOf(text)
<1>1. lines \in L /\ Len(lines) > 0
  BY CutTyped
<1>2. EndsLine(text) \in BOOLEAN
  BY DEF EndsLine
<1>3. b \in Buffers(S)
  BY DEF InBuffer
<1>. HIDE DEF lines
<1>4. /\ c \in Buffers(S) /\ c.path = b.path /\ c.origin = text /\ c.trailing = EndsLine(text)
      /\ c.lines = lines /\ ~c.dirty
  BY <1>1, <1>2, <1>3 DEF Buffers, lines
<1>5. Confirmed(b, text) = Clamped(c)
  BY DEF Confirmed, lines
<1>. HIDE DEF c
<1>. QED BY <1>1, <1>4, <1>5, ClampedIn DEF SameFile, lines

\* A buffer after a key.
Keyed(b, lines, row, col) ==
  [b EXCEPT !.lines = lines, !.row = row, !.col = col, !.dirty = TRUE]

LEMMA KeyedIn ==
  ASSUME NEW S, NEW b \in Buffers(S), NEW lines \in Seq(Seq(S)), NEW row \in Nat, NEW col \in Nat,
         row < Len(lines), col <= Len(lines[row + 1])
  PROVE  /\ InBuffer(Keyed(b, lines, row, col), S)
         /\ SameFile(b, Keyed(b, lines, row, col))
         /\ Keyed(b, lines, row, col).dirty
<1>. DEFINE c == Keyed(b, lines, row, col)
            L == Seq(Seq(S))
<1>1. lines \in L
  OBVIOUS
<1>. HIDE DEF L
<1>2. b \in [path : Paths, origin : Seq(S), trailing : BOOLEAN, lines : L,
             row : Nat, col : Nat, dirty : BOOLEAN]
  BY DEF Buffers, L
<1>3. /\ c \in [path : Paths, origin : Seq(S), trailing : BOOLEAN, lines : L,
                row : Nat, col : Nat, dirty : BOOLEAN]
      /\ c.row = row /\ c.col = col /\ c.lines = lines /\ c.dirty /\ SameFile(b, c)
  BY <1>1, <1>2 DEF Keyed, SameFile
<1>. HIDE DEF c
<1>4. c \in Buffers(S)
  BY <1>3 DEF Buffers, L
<1>. QED BY <1>3, <1>4 DEF InBuffer, c

LEMMA InsertedIn ==
  ASSUME NEW S, NEW b, InBuffer(b, S), NEW e \in S
  PROVE  InBuffer(Inserted(b, e), S) /\ SameFile(b, Inserted(b, e)) /\ Inserted(b, e).dirty
<1>. DEFINE line == b.lines[b.row + 1]
            into == InsertAt(line, b.col + 1, e)
            lines == [b.lines EXCEPT ![b.row + 1] = into]
<1>1. b \in Buffers(S) /\ b.col <= Len(line)
  BY DEF InBuffer
<1>2. /\ b.lines \in Seq(Seq(S)) /\ Len(b.lines) \in Nat /\ b.row \in Nat /\ b.col \in Nat
      /\ b.row + 1 \in 1..Len(b.lines) /\ LineLen(b) = Len(line)
      /\ line \in Seq(S) /\ Len(line) \in Nat
  BY LineOf
<1>. HIDE DEF line
<1>3. into \in Seq(S) /\ Len(into) = Len(line) + 1
  <2>1. b.col + 1 \in 1..(Len(line) + 1)
    BY <1>1, <1>2
  <2>. QED BY <1>2, <2>1, Inserting
<1>. HIDE DEF into
<1>4. lines \in Seq(Seq(S)) /\ Len(lines) = Len(b.lines) /\ lines[b.row + 1] = into
  <2>. DEFINE T == Seq(S)
  <2>1. into \in T /\ b.lines \in Seq(T)
    BY <1>2, <1>3
  <2>. HIDE DEF T
  <2>2. lines \in Seq(T) /\ Len(lines) = Len(b.lines) /\ lines[b.row + 1] = into
    BY <1>2, <2>1, ExceptSeq
  <2>. QED BY <2>2 DEF T
<1>5. Inserted(b, e) = Keyed(b, lines, b.row, b.col + 1)
  <2>1. (IF b.col < LineLen(b) THEN b.col ELSE LineLen(b)) = b.col
    BY <1>1, <1>2
  <2>2. Inserted(b, e) = [b EXCEPT !.lines = lines, !.col = b.col + 1, !.dirty = TRUE]
    BY <2>1 DEF Inserted, into, line
  <2>. HIDE DEF lines
  <2>. QED BY <1>1, <2>2 DEF Keyed, Buffers
<1>. HIDE DEF lines
<1>6. b.row < Len(lines) /\ b.col + 1 <= Len(lines[b.row + 1]) /\ b.col + 1 \in Nat /\ b.row \in Nat
  BY <1>1, <1>2, <1>3, <1>4
<1>. QED BY <1>1, <1>4, <1>5, <1>6, KeyedIn

LEMMA BackspacedIn ==
  ASSUME NEW S, NEW b, InBuffer(b, S)
  PROVE  /\ InBuffer(Backspaced(b), S) /\ SameFile(b, Backspaced(b))
         /\ Backspaced(b).dirty \/ Backspaced(b) = b
<1>. DEFINE line == b.lines[b.row + 1]
<1>1. b \in Buffers(S) /\ b.col <= Len(line)
  BY DEF InBuffer
<1>2. /\ b.lines \in Seq(Seq(S)) /\ Len(b.lines) \in Nat /\ b.row \in Nat /\ b.col \in Nat
      /\ b.row + 1 \in 1..Len(b.lines) /\ LineLen(b) = Len(line)
      /\ line \in Seq(S) /\ Len(line) \in Nat
  BY LineOf
<1>3. \A i \in 1..Len(b.lines) : b.lines[i] \in Seq(S) /\ Len(b.lines[i]) \in Nat
  BY LineOf
<1>4. CASE b.col > 0
  <2>. DEFINE less == RemoveAt(line, b.col)
              lines == [b.lines EXCEPT ![b.row + 1] = less]
  <2>1. Backspaced(b) = [b EXCEPT !.lines = lines, !.col = b.col - 1, !.dirty = TRUE]
    BY <1>4 DEF Backspaced
  <2>. HIDE DEF line
  <2>2. less \in Seq(S) /\ Len(less) = Len(line) - 1
    <3>1. b.col \in 1..Len(line)
      BY <1>1, <1>2, <1>4
    <3>. QED BY <1>2, <3>1, Removing
  <2>. HIDE DEF less
  <2>3. lines \in Seq(Seq(S)) /\ Len(lines) = Len(b.lines) /\ lines[b.row + 1] = less
    <3>. DEFINE T == Seq(S)
    <3>1. less \in T /\ b.lines \in Seq(T)
      BY <1>2, <2>2
    <3>. HIDE DEF T
    <3>2. lines \in Seq(T) /\ Len(lines) = Len(b.lines) /\ lines[b.row + 1] = less
      BY <1>2, <3>1, ExceptSeq
    <3>. QED BY <3>2 DEF T
  <2>. HIDE DEF lines
  <2>4. Backspaced(b) = Keyed(b, lines, b.row, b.col - 1)
    BY <1>1, <2>1 DEF Keyed, Buffers
  <2>5. b.row < Len(lines) /\ b.col - 1 <= Len(lines[b.row + 1]) /\ b.col - 1 \in Nat /\ b.row \in Nat
    BY <1>1, <1>2, <1>4, <2>2, <2>3
  <2>. QED BY <1>1, <2>3, <2>4, <2>5, KeyedIn
<1>5. CASE ~(b.col > 0) /\ b.row = 0
  <2>1. Backspaced(b) = b
    BY <1>5 DEF Backspaced
  <2>. QED BY <2>1 DEF SameFile
<1>6. CASE ~(b.col > 0) /\ b.row # 0
  <2>. DEFINE above == b.lines[b.row]
              joined == above \o line
              among == [b.lines EXCEPT ![b.row] = joined]
              lines == RemoveAt(among, b.row + 1)
  <2>1. Backspaced(b) = [b EXCEPT !.lines = lines, !.row = b.row - 1, !.col = Len(above), !.dirty = TRUE]
    BY <1>6 DEF Backspaced
  <2>2. /\ b.row \in 1..Len(b.lines) /\ b.row - 1 \in Nat /\ b.row \in 1..((b.row + 1) - 1)
        /\ (b.row - 1) + 1 = b.row /\ b.row - 1 < Len(b.lines) - 1
    <3>. DEFINE row == b.row
                n == Len(b.lines)
    <3>1. row \in Nat /\ row # 0 /\ n \in Nat /\ row + 1 \in 1..n
      BY <1>2, <1>6
    <3>. HIDE DEF row, n
    <3>2. row \in 1..n /\ row - 1 \in Nat /\ row \in 1..((row + 1) - 1)
      BY <3>1
    <3>3. (row - 1) + 1 = row /\ row - 1 < n - 1
      BY <3>1
    <3>. QED BY <3>2, <3>3 DEF row, n
  <2>3. above \in Seq(S) /\ Len(above) \in Nat
    BY <1>3, <2>2
  <2>. HIDE DEF line, above
  <2>4. joined \in Seq(S) /\ Len(joined) = Len(above) + Len(line)
    BY <1>2, <2>3, ConcatProperties
  <2>. HIDE DEF joined
  <2>5. lines \in Seq(Seq(S)) /\ Len(lines) = Len(b.lines) - 1 /\ lines[b.row] = joined
    <3>. DEFINE T == Seq(S)
    <3>1. joined \in T /\ b.lines \in Seq(T)
      BY <1>2, <2>4
    <3>. HIDE DEF T
    <3>2. among \in Seq(T) /\ Len(among) = Len(b.lines) /\ among[b.row] = joined
      BY <2>2, <3>1, ExceptSeq
    <3>. HIDE DEF among
    <3>3. b.row + 1 \in 1..Len(among)
      BY <1>2, <3>2
    <3>4. /\ lines \in Seq(T) /\ Len(lines) = Len(among) - 1
          /\ \A j \in 1..((b.row + 1) - 1) : lines[j] = among[j]
      BY <3>2, <3>3, Removing
    <3>5. lines[b.row] = joined
      BY <2>2, <3>2, <3>4
    <3>. QED BY <3>2, <3>4, <3>5 DEF T
  <2>. HIDE DEF lines
  <2>6. Backspaced(b) = Keyed(b, lines, b.row - 1, Len(above))
    BY <1>1, <2>1 DEF Keyed
  <2>7. b.row - 1 < Len(lines) /\ Len(above) <= Len(lines[(b.row - 1) + 1])
    BY <1>2, <2>2, <2>3, <2>4, <2>5
  <2>. QED BY <1>1, <2>2, <2>3, <2>5, <2>6, <2>7, KeyedIn
<1>. QED BY <1>2, <1>4, <1>5, <1>6

LEMMA BrokenIn ==
  ASSUME NEW S, NEW b, InBuffer(b, S)
  PROVE  InBuffer(Broken(b), S) /\ SameFile(b, Broken(b)) /\ Broken(b).dirty
<1>. DEFINE line == b.lines[b.row + 1]
            left == SubSeq(line, 1, b.col)
            rest == SubSeq(line, b.col + 1, Len(line))
            among == [b.lines EXCEPT ![b.row + 1] = left]
            lines == InsertAt(among, b.row + 2, rest)
<1>1. b \in Buffers(S) /\ b.col <= Len(line)
  BY DEF InBuffer
<1>2. /\ b.lines \in Seq(Seq(S)) /\ Len(b.lines) \in Nat /\ b.row \in Nat /\ b.col \in Nat
      /\ b.row + 1 \in 1..Len(b.lines) /\ line \in Seq(S) /\ Len(line) \in Nat
  BY LineOf
<1>3. Broken(b) = [b EXCEPT !.lines = lines, !.row = b.row + 1, !.col = 0, !.dirty = TRUE]
  BY DEF Broken
<1>. HIDE DEF line
<1>4. left \in Seq(S)
  <2>1. 1 \in Nat \ {0} /\ b.col \in 0..Len(line)
    BY <1>1, <1>2
  <2>. QED BY <1>2, <2>1, Cutting
<1>5. rest \in Seq(S) /\ Len(rest) \in Nat
  <2>1. b.col + 1 \in Nat \ {0} /\ Len(line) \in 0..Len(line)
    BY <1>1, <1>2
  <2>2. rest \in Seq(S)
    BY <1>2, <2>1, Cutting
  <2>. HIDE DEF rest
  <2>. QED BY <2>2
<1>. HIDE DEF left, rest
<1>6. lines \in Seq(Seq(S)) /\ Len(lines) = Len(b.lines) + 1 /\ lines[b.row + 2] = rest
  <2>. DEFINE T == Seq(S)
  <2>1. left \in T /\ rest \in T /\ b.lines \in Seq(T)
    BY <1>2, <1>4, <1>5
  <2>. HIDE DEF T
  <2>2. among \in Seq(T) /\ Len(among) = Len(b.lines)
    BY <1>2, <2>1, ExceptSeq
  <2>. HIDE DEF among
  <2>3. b.row + 2 \in 1..(Len(among) + 1)
    BY <1>2, <2>2
  <2>4. lines \in Seq(T) /\ Len(lines) = Len(among) + 1 /\ lines[b.row + 2] = rest
    BY <2>1, <2>2, <2>3, Inserting
  <2>. QED BY <2>2, <2>4 DEF T
<1>. HIDE DEF lines
<1>7. Broken(b) = Keyed(b, lines, b.row + 1, 0)
  BY <1>3 DEF Keyed
<1>8. b.row + 1 \in Nat /\ 0 \in Nat /\ b.row + 1 < Len(lines) /\ (b.row + 1) + 1 = b.row + 2
  <2>. DEFINE row == b.row
              n == Len(b.lines)
  <2>1. row \in Nat /\ n \in Nat /\ row + 1 \in 1..n /\ Len(lines) = n + 1
    BY <1>2, <1>6
  <2>. HIDE DEF row, n
  <2>2. row + 1 \in Nat /\ row + 1 < Len(lines) /\ (row + 1) + 1 = row + 2
    BY <2>1
  <2>. QED BY <2>2 DEF row
<1>9. 0 <= Len(lines[(b.row + 1) + 1])
  <2>1. lines[(b.row + 1) + 1] = rest
    BY <1>6, <1>8
  <2>. QED BY <1>5, <2>1
<1>. QED BY <1>1, <1>6, <1>7, <1>8, <1>9, KeyedIn

\* The keys that change the text keep the cursor in it, and either leave the
\* buffer alone or say that it has changes.
LEMMA EditsIn ==
  ASSUME NEW S, "x" \in S, " " \in S, NEW b, InBuffer(b, S), NEW c \in Edits(b)
  PROVE  InBuffer(c, S) /\ SameFile(b, c) /\ (c.dirty \/ c = b)
<1>1. CASE c = Inserted(b, "x")
  BY <1>1, InsertedIn
<1>2. CASE c = Inserted(Inserted(b, " "), " ")
  <2>. DEFINE d == Inserted(b, " ")
  <2>1. InBuffer(d, S) /\ SameFile(b, d)
    BY InsertedIn
  <2>. HIDE DEF d
  <2>2. InBuffer(Inserted(d, " "), S) /\ SameFile(d, Inserted(d, " ")) /\ Inserted(d, " ").dirty
    BY <2>1, InsertedIn
  <2>. QED BY <1>2, <2>1, <2>2 DEF SameFile, d
<1>3. CASE c = Backspaced(b)
  BY <1>3, BackspacedIn
<1>4. CASE c = Broken(b)
  BY <1>4, BrokenIn
<1>. QED BY <1>1, <1>2, <1>3, <1>4 DEF Edits

\* A buffer with the cursor elsewhere.
Moved(b, row, col) == [b EXCEPT !.row = row, !.col = col]

LEMMA MovedIn ==
  ASSUME NEW S, NEW b, InBuffer(b, S), NEW row \in Nat, NEW col \in Nat,
         row < Len(b.lines), col <= Len(b.lines[row + 1])
  PROVE  /\ InBuffer(Moved(b, row, col), S) /\ SameFile(b, Moved(b, row, col))
         /\ Moved(b, row, col).lines = b.lines /\ Moved(b, row, col).dirty = b.dirty
<1>. DEFINE c == Moved(b, row, col)
<1>1. b \in Buffers(S)
  BY DEF InBuffer
<1>2. /\ c \in Buffers(S) /\ c.row = row /\ c.col = col /\ c.lines = b.lines
      /\ c.dirty = b.dirty /\ SameFile(b, c)
  BY <1>1 DEF Buffers, SameFile, Moved
<1>. QED BY <1>2 DEF InBuffer

\* The arrow keys keep the cursor in the text and the text as it is.
LEMMA MovesIn ==
  ASSUME NEW S, NEW b, InBuffer(b, S), NEW c \in Moves(b)
  PROVE  InBuffer(c, S) /\ SameFile(b, c) /\ c.lines = b.lines /\ c.dirty = b.dirty
<1>1. b \in Buffers(S) /\ b.col <= Len(b.lines[b.row + 1])
  BY DEF InBuffer
<1>. DEFINE row == b.row
            col == b.col
            n == Len(b.lines)
<1>2. /\ n \in Nat /\ row \in Nat /\ col \in Nat /\ row + 1 \in 1..n
      /\ LineLen(b) = Len(b.lines[row + 1])
  BY LineOf
<1>3. \A i \in 1..n : Len(b.lines[i]) \in Nat
  BY LineOf
<1>. HIDE DEF row, col, n
<1>4. InBuffer(b, S) /\ SameFile(b, b) /\ b.lines = b.lines /\ b.dirty = b.dirty
  BY DEF SameFile
<1>5. CASE c = Left(b)
  <2>1. CASE col > 0
    <3>1. c = Moved(b, row, col - 1)
      BY <1>1, <1>5, <2>1 DEF Left, Buffers, row, col, Moved
    <3>2. row \in Nat /\ col - 1 \in Nat /\ row < Len(b.lines) /\ col - 1 <= Len(b.lines[row + 1])
      <4>1. row < n /\ col - 1 \in Nat
        BY <1>2, <2>1
      <4>2. Len(b.lines[row + 1]) \in Nat /\ col <= Len(b.lines[row + 1])
        BY <1>1, <1>2, <1>3 DEF row, col
      <4>. QED BY <1>2, <4>1, <4>2 DEF n
    <3>. QED BY <3>1, <3>2, MovedIn
  <2>2. CASE ~(col > 0) /\ row = 0
    <3>1. c = b
      BY <1>5, <2>2 DEF Left, row, col
    <3>. QED BY <1>4, <3>1
  <2>3. CASE ~(col > 0) /\ row # 0
    <3>1. c = Moved(b, row - 1, Len(b.lines[row]))
      BY <1>5, <2>3 DEF Left, row, col, Moved
    <3>2. row - 1 \in Nat /\ row - 1 < n /\ row \in 1..n /\ (row - 1) + 1 = row
      BY <1>2, <2>3
    <3>. DEFINE to == Len(b.lines[row])
    <3>3. to \in Nat /\ to <= Len(b.lines[(row - 1) + 1])
      BY <1>3, <3>2
    <3>. HIDE DEF to
    <3>4. c = Moved(b, row - 1, to)
      BY <3>1 DEF to
    <3>5. row - 1 < Len(b.lines)
      BY <3>2 DEF n
    <3>. QED BY <3>2, <3>3, <3>4, <3>5, MovedIn
  <2>. QED BY <2>1, <2>2, <2>3
<1>6. CASE c = Right(b)
  <2>1. CASE col < LineLen(b)
    <3>1. c = Moved(b, row, col + 1)
      BY <1>1, <1>6, <2>1 DEF Right, Buffers, row, col, Moved
    <3>2. row < n /\ col + 1 \in Nat /\ col + 1 <= Len(b.lines[row + 1])
      <4>1. Len(b.lines[row + 1]) \in Nat
        BY <1>2, <1>3
      <4>. QED BY <1>2, <2>1, <4>1
    <3>3. row < Len(b.lines)
      BY <3>2 DEF n
    <3>. QED BY <1>2, <3>1, <3>2, <3>3, MovedIn
  <2>2. CASE ~(col < LineLen(b)) /\ row + 1 = n
    <3>1. c = b
      BY <1>6, <2>2 DEF Right, row, col, n
    <3>. QED BY <1>4, <3>1
  <2>3. CASE ~(col < LineLen(b)) /\ row + 1 # n
    <3>1. c = Moved(b, row + 1, 0)
      BY <1>6, <2>3 DEF Right, row, col, n, Moved
    <3>2. row + 1 \in Nat /\ row + 1 < n /\ (row + 1) + 1 \in 1..n /\ 0 \in Nat
      BY <1>2, <2>3
    <3>3. 0 <= Len(b.lines[(row + 1) + 1])
      BY <1>3, <3>2
    <3>4. row + 1 < Len(b.lines)
      BY <3>2 DEF n
    <3>. QED BY <3>1, <3>2, <3>3, <3>4, MovedIn
  <2>. QED BY <2>1, <2>2, <2>3
<1>7. ASSUME NEW to \in Nat, c = Clamped([b EXCEPT !.row = to])
      PROVE  InBuffer(c, S) /\ SameFile(b, c) /\ c.lines = b.lines /\ c.dirty = b.dirty
  <2>. DEFINE d == [b EXCEPT !.row = to]
  <2>1. d \in Buffers(S) /\ SameFile(b, d) /\ d.lines = b.lines /\ d.dirty = b.dirty
    BY <1>1 DEF Buffers, SameFile
  <2>2. Len(d.lines) > 0
    <3>1. n > 0
      BY <1>2
    <3>. QED BY <2>1, <3>1 DEF n
  <2>. HIDE DEF d
  <2>3. /\ InBuffer(Clamped(d), S) /\ SameFile(d, Clamped(d))
        /\ Clamped(d).lines = d.lines /\ Clamped(d).dirty = d.dirty
    BY <2>1, <2>2, ClampedIn
  <2>. QED BY <1>7, <2>1, <2>3 DEF SameFile, d
<1>8. CASE c = Up(b)
  <2>. DEFINE to == IF row = 0 THEN 0 ELSE row - 1
  <2>1. to \in Nat
    BY <1>2
  <2>2. c = Clamped([b EXCEPT !.row = to])
    BY <1>8 DEF Up, row
  <2>. HIDE DEF to
  <2>. QED BY <1>7, <2>1, <2>2
<1>9. CASE c = Down(b)
  <2>1. CASE row + 1 < n
    <3>1. row + 1 \in Nat
      BY <1>2
    <3>2. c = Clamped([b EXCEPT !.row = row + 1])
      BY <1>9, <2>1 DEF Down, row, n
    <3>. QED BY <1>7, <3>1, <3>2
  <2>2. CASE ~(row + 1 < n)
    <3>1. c = b
      BY <1>9, <2>2 DEF Down, row, n
    <3>. QED BY <1>4, <3>1
  <2>. QED BY <2>1, <2>2
<1>. QED BY <1>5, <1>6, <1>8, <1>9 DEF Moves

-----------------------------------------------------------------------------
(* Replacing a piece of a text, and the marks in it.                       *)
LEMMA RangeOfPiece ==
  ASSUME NEW S, NEW s \in Seq(S), NEW m \in Nat \ {0}, NEW n \in 0..Len(s)
  PROVE  Range(SubSeq(s, m, n)) \subseteq Range(s)
<1>1. m \in Int /\ n \in Int /\ \A j \in m..n : j \in 1..Len(s)
  OBVIOUS
<1>2. \A j \in m..n : s[j] \in S
  BY <1>1, ElementOfSeq
<1>. DEFINE t == SubSeq(s, m, n)
<1>3. /\ t \in Seq(S) /\ Len(t) = IF m <= n THEN n - m + 1 ELSE 0
      /\ \A i \in 1..(n - m + 1) : t[i] = s[m + i - 1]
  BY <1>1, <1>2, SubSeqProperties
<1>. HIDE DEF t
<1>4. \A i \in 1..Len(t) : i \in 1..(n - m + 1) /\ m + i - 1 \in 1..Len(s)
  BY <1>1, <1>3
<1>5. Range(t) = {t[i] : i \in 1..Len(t)} /\ Range(s) = {s[i] : i \in 1..Len(s)}
  BY <1>3, RangeEquality
<1>6. Range(t) \subseteq Range(s)
  BY <1>3, <1>4, <1>5
<1>. QED BY <1>6 DEF t

LEMMA FirstFound ==
  ASSUME NEW S, NEW text \in Seq(S), NEW old \in Seq(S), old # <<>>, Positions(text, old) # {}
  PROVE  /\ First(text, old) \in 1..Len(text)
         /\ First(text, old) + Len(old) - 1 \in 1..Len(text)
         /\ SubSeq(text, First(text, old), First(text, old) + Len(old) - 1) = old
         /\ \A j \in Positions(text, old) : First(text, old) <= j
<1>1. Len(text) \in Nat /\ Len(old) \in Nat \ {0}
  BY EmptySeq
<1>. DEFINE T == Positions(text, old)
            least(i) == \A j \in T : i <= j
            at == First(text, old)
<1>2. \A i \in T : i \in 1..(Len(text) - Len(old) + 1) /\ SubSeq(text, i, i + Len(old) - 1) = old
  BY DEF Positions
<1>3. T \in SUBSET Nat /\ T # {}
  BY <1>2
<1>. HIDE DEF T
<1>4. \E i \in T : least(i)
  BY <1>3, LeastOf
<1>5. at = CHOOSE i \in T : least(i)
  BY DEF First, T
<1>. HIDE DEF least, at
<1>6. at \in T /\ least(at)
  BY <1>4, <1>5, Zenon
<1>7. at \in 1..(Len(text) - Len(old) + 1)
  BY <1>2, <1>6
<1>8. at \in 1..Len(text) /\ at + Len(old) - 1 \in 1..Len(text)
  BY <1>1, <1>7
<1>. QED BY <1>2, <1>6, <1>8 DEF at, least, T

LEMMA Replaced ==
  ASSUME NEW S, NEW text \in Seq(S), NEW old \in Seq(S), NEW new \in Seq(S),
         old # <<>>, Positions(text, old) # {}
  PROVE  /\ ReplaceFirst(text, old, new) \in Seq(S)
         /\ Range(ReplaceFirst(text, old, new)) \subseteq Range(text) \cup Range(new)
         /\ Range(new) \subseteq Range(ReplaceFirst(text, old, new))
         /\ Range(text) \subseteq Range(ReplaceFirst(text, old, new)) \cup Range(old)
         /\ text = old => ReplaceFirst(text, old, new) = new
<1>. DEFINE at == First(text, old)
            n == Len(text)
            m == Len(old)
            a == SubSeq(text, 1, at - 1)
            z == SubSeq(text, at + m, n)
<1>1. n \in Nat /\ m \in Nat \ {0}
  BY EmptySeq
<1>2. /\ at \in 1..n /\ at + m - 1 \in 1..n /\ SubSeq(text, at, at + m - 1) = old
      /\ \A j \in Positions(text, old) : at <= j
  BY FirstFound
<1>3. ReplaceFirst(text, old, new) = (a \o new) \o z
  BY DEF ReplaceFirst
<1>. HIDE DEF at
<1>4. a \in Seq(S) /\ Range(a) \subseteq Range(text)
  <2>1. 1 \in Nat \ {0} /\ at - 1 \in 0..n
    BY <1>1, <1>2
  <2>. QED BY <2>1, Cutting, RangeOfPiece
<1>5. z \in Seq(S) /\ Range(z) \subseteq Range(text)
  <2>1. at + m \in Nat \ {0} /\ n \in 0..n
    BY <1>1, <1>2
  <2>. QED BY <2>1, Cutting, RangeOfPiece
<1>6. (a \o old) \o z = text
  <2>. HIDE DEF n, m
  <2>1. SubSeq(text, at, at + m - 1) \o SubSeq(text, at + m, n) = SubSeq(text, at, n)
    <3>1. /\ at \in 1..(n + 1) /\ at + m - 1 \in (at - 1)..n /\ n \in (at + m - 1)..n
          /\ (at + m - 1) + 1 = at + m
      BY <1>1, <1>2
    <3>. QED BY <3>1, ConcatAdjacentSubSeq DEF n
  <2>2. SubSeq(text, 1, at - 1) \o SubSeq(text, at, n) = SubSeq(text, 1, n)
    <3>1. 1 \in 1..(n + 1) /\ at - 1 \in (1 - 1)..n /\ n \in (at - 1)..n /\ (at - 1) + 1 = at
      BY <1>1, <1>2
    <3>. QED BY <3>1, ConcatAdjacentSubSeq DEF n
  <2>3. SubSeq(text, 1, n) = text
    BY SubSeqFull DEF n
  <2>. HIDE DEF a, z
  <2>4. a \o (old \o z) = (a \o old) \o z
    BY <1>4, <1>5, ConcatAssociative
  <2>5. a \o (old \o z) = text
    BY <1>2, <2>1, <2>2, <2>3 DEF a, z
  <2>. QED BY <2>4, <2>5
<1>7. text = old => a = <<>> /\ z = <<>>
  <2>1. ASSUME text = old PROVE at = 1 /\ at + m - 1 = n
    <3>1. n = m
      BY <2>1
    <3>. HIDE DEF n, m
    <3>. QED BY <1>1, <1>2, <3>1
  <2>2. SubSeq(text, 1, 0) = <<>>
    BY SubSeqEmpty
  <2>3. ASSUME text = old PROVE a = <<>>
    BY <2>1, <2>2, <2>3
  <2>4. ASSUME text = old PROVE z = <<>>
    <3>1. at + m \in Int /\ n \in Int /\ n < at + m
      <4>. HIDE DEF n, m
      <4>. QED BY <1>1, <2>1, <2>4
    <3>. QED BY <3>1, SubSeqEmpty
  <2>. QED BY <2>3, <2>4
<1>. HIDE DEF a, z
<1>8. a \o new \in Seq(S) /\ Range(a \o new) = Range(a) \cup Range(new)
  BY <1>4, ConcatProperties, RangeConcatenation
<1>9. (a \o new) \o z \in Seq(S) /\ Range((a \o new) \o z) = Range(a) \cup Range(new) \cup Range(z)
  <2>1. ASSUME NEW w \in Seq(S) PROVE w \o z \in Seq(S) /\ Range(w \o z) = Range(w) \cup Range(z)
    BY <1>5, ConcatProperties, RangeConcatenation
  <2>. QED BY <1>8, <2>1
<1>10. Range(text) = Range(a) \cup Range(old) \cup Range(z)
  <2>1. a \o old \in Seq(S) /\ Range(a \o old) = Range(a) \cup Range(old)
    BY <1>4, ConcatProperties, RangeConcatenation
  <2>2. ASSUME NEW w \in Seq(S) PROVE Range(w \o z) = Range(w) \cup Range(z)
    BY <1>5, RangeConcatenation
  <2>. QED BY <1>6, <2>1, <2>2
<1>11. text = old => (a \o new) \o z = new
  BY <1>7, ConcatEmptySeq
<1>. QED BY <1>3, <1>4, <1>5, <1>9, <1>10, <1>11

LEMMA LossyOf ==
  ASSUME NEW S, "subst" \in S, NEW text \in Seq(S)
  PROVE  /\ Lossy(text) \in Seq(S \ {"bad"})
         /\ MarksIn(Lossy(text)) = MarksIn(text)
         /\ "bad" \notin Range(text) => Lossy(text) = text
         /\ text = <<>> => Lossy(text) = <<>>
<1>1. Len(text) \in Nat /\ DOMAIN text = 1..Len(text) /\ text \in [1..Len(text) -> S]
  OBVIOUS
<1>. DEFINE c(i) == IF text[i] = "bad" THEN "subst" ELSE text[i]
            t == [i \in 1..Len(text) |-> c(i)]
<1>2. Lossy(text) = t
  BY <1>1 DEF Lossy
<1>3. \A i \in 1..Len(text) : c(i) \in S \ {"bad"}
  BY <1>1
<1>4. t \in Seq(S \ {"bad"}) /\ Len(t) = Len(text)
  <2>. DEFINE T == S \ {"bad"}
  <2>. HIDE DEF T, c
  <2>. QED BY <1>1, <1>3 DEF T
<1>5. Range(text) = {text[i] : i \in 1..Len(text)} /\ Range(t) = {t[i] : i \in 1..Len(text)}
  BY <1>4, RangeEquality
<1>6. "bad" \notin Marks /\ "subst" \notin Marks
  BY FilesAssumption DEF Ordinary
<1>7. MarksIn(t) = MarksIn(text)
  <2>1. \A i \in 1..Len(text) : t[i] = c(i)
    OBVIOUS
  <2>. HIDE DEF t
  <2>2. ASSUME NEW x \in Marks PROVE x \in Range(t) <=> x \in Range(text)
    BY <1>5, <1>6, <2>1
  <2>. QED BY <2>2 DEF MarksIn
<1>8. ASSUME "bad" \notin Range(text) PROVE t = text
  <2>1. \A i \in 1..Len(text) : t[i] = text[i]
    BY <1>5, <1>8
  <2>. QED BY <1>1, <2>1
<1>9. text = <<>> => t = <<>>
  BY <1>1
<1>. QED BY <1>2, <1>4, <1>7, <1>8, <1>9

LEMMA RangeInserted ==
  ASSUME NEW S, NEW s \in Seq(S), NEW e \in S, NEW i \in 1..(Len(s) + 1)
  PROVE  Range(InsertAt(s, i, e)) = Range(s) \cup {e}
<1>. DEFINE a == SubSeq(s, 1, i - 1)
            z == SubSeq(s, i, Len(s))
            one == <<e>>
<1>1. InsertAt(s, i, e) = (a \o one) \o z
  BY DEF InsertAt
<1>2. Len(s) \in Nat /\ i - 1 \in 0..Len(s) /\ i \in 1..(Len(s) + 1) /\ Len(s) \in (i - 1)..Len(s)
      /\ (i - 1) + 1 = i
  OBVIOUS
<1>3. a \in Seq(S) /\ z \in Seq(S)
  <2>1. i \in Nat \ {0} /\ Len(s) \in 0..Len(s) /\ 1 \in Nat \ {0}
    BY <1>2
  <2>. QED BY <1>2, <2>1, Cutting
<1>4. one \in Seq(S) /\ Range(one) = {e}
  BY DEF Range
<1>5. a \o z = s
  <2>1. 1 \in 1..(Len(s) + 1) /\ i - 1 \in (1 - 1)..Len(s)
    BY <1>2
  <2>2. SubSeq(s, 1, i - 1) \o SubSeq(s, (i - 1) + 1, Len(s)) = SubSeq(s, 1, Len(s))
    BY <1>2, <2>1, ConcatAdjacentSubSeq
  <2>. QED BY <1>2, <2>2, SubSeqFull
<1>. HIDE DEF a, z, one
<1>6. \A w \in Seq(S) : Range(w \o z) = Range(w) \cup Range(z)
  BY <1>3, RangeConcatenation
<1>7. a \o one \in Seq(S) /\ Range(a \o one) = Range(a) \cup Range(one)
  BY <1>3, <1>4, ConcatProperties, RangeConcatenation
<1>. QED BY <1>1, <1>3, <1>4, <1>5, <1>6, <1>7

-----------------------------------------------------------------------------
(* What the Files tab and the tools keep true of the open file.            *)
All == Ordinary \cup Marks

\* What the user can have in a buffer: reading leaves no byte that is not UTF-8.
Shown == (Ordinary \ {"bad"}) \cup known

Requests(S) == [kind : {"save"}, path : Paths, old : Seq(S), new : Seq(S)]

Calls ==
  [stage : {"checked", "emptied"}, path : Paths, content : Seq(All), updated : Seq(All),
   new : Seq(All)]

DiskTyped ==
  /\ disk \in [Paths -> Seq(All)]
  /\ \A p \in Paths : MarksIn(disk[p]) \subseteq placed

BufferTyped ==
  /\ buffer = NoBuffer \/ InBuffer(buffer, Shown)
  /\ editing \in BOOLEAN
  /\ editing => buffer # NoBuffer

SlotTyped ==
  /\ dialog \in {"none", "save", "agent"}
  /\ slot \in {NoSlot, AgentHalf} \/ (slot \in Requests(Shown) /\ buffer # NoBuffer)

CallsTyped ==
  /\ call \in [Actors -> {Idle} \cup Calls]
  /\ \A a \in Actors : call[a] # Idle => MarksIn(call[a].updated) \subseteq used.marks
  /\ call["ui"] # Idle => /\ buffer # NoBuffer /\ call["ui"].new \in Seq(Shown)

HistoryTyped ==
  /\ used \in [doings : Nat, questions : Nat, marks : SUBSET Marks]
  /\ known \subseteq placed /\ placed \subseteq used.marks
  /\ touched \in BOOLEAN /\ strayed \in BOOLEAN

FilesTyped == DiskTyped /\ BufferTyped /\ SlotTyped /\ CallsTyped /\ HistoryTyped

\* An edit_file drops no mark of what it read but those the user had seen, and
\* brings none that is in a file already but those.
CallKeeps(c) ==
  /\ MarksIn(c.content) \subseteq placed
  /\ MarksIn(c.content) \subseteq MarksIn(c.updated) \cup known
  /\ MarksIn(c.updated) \cap placed \subseteq MarksIn(c.content) \cup known

MarksKept ==
  /\ \A a \in Actors : call[a] # Idle => CallKeeps(call[a])
  /\ call["ui"] # Idle => MarksIn(call["ui"].updated) \subseteq placed
  /\ OnlyRacesLoseText

\* A buffer without changes is its origin cut into lines; a save that is asked
\* or under way is of the buffer as it was opened or confirmed last; and while
\* no one else writes, the file is empty or holds that.
BufferIsOrigin ==
  buffer # NoBuffer =>
    /\ buffer.trailing = EndsLine(buffer.origin)
    /\ ~buffer.dirty => buffer.lines = LinesOf(buffer.origin)

SaveIsOfBuffer ==
  /\ call["ui"] # Idle => slot.kind # "save"
  /\ ~strayed =>
       /\ slot.kind = "save" =>
            dialog # "none" /\ slot.path = buffer.path /\ slot.old = buffer.origin /\ buffer.dirty
       /\ call["ui"] # Idle => call["ui"].path = buffer.path /\ buffer.dirty

FileIsOrigin ==
  ~strayed /\ ~touched /\ buffer # NoBuffer =>
    /\ \/ Lossy(disk[buffer.path]) = buffer.origin
       \/ disk[buffer.path] = <<>> /\ buffer.dirty
    /\ call["ui"] # Idle => call["ui"].updated = call["ui"].new

SavesMatch == BufferIsOrigin /\ SaveIsOfBuffer /\ FileIsOrigin

-----------------------------------------------------------------------------
LEMMA ShownIn ==
  ASSUME known \subseteq placed, placed \subseteq used.marks,
         used \in [doings : Nat, questions : Nat, marks : SUBSET Marks]
  PROVE  /\ Shown \subseteq All /\ "lf" \in Shown /\ "x" \in Shown /\ " " \in Shown
         /\ \A s \in Seq(Shown) : s \in Seq(All) /\ MarksIn(s) \subseteq known /\ Lossy(s) = s
<1>1. known \subseteq Marks
  OBVIOUS
<1>2. "lf" \in Ordinary /\ "x" \in Ordinary /\ " " \in Ordinary /\ "subst" \in Ordinary
  BY DEF Ordinary, LineEnds
<1>3. Shown \subseteq All /\ "lf" \in Shown /\ "x" \in Shown /\ " " \in Shown /\ "subst" \in Shown
  BY <1>1, <1>2 DEF Shown, All
<1>4. "bad" \notin Shown /\ Shown \cap Marks \subseteq known
  <2>1. "bad" \notin Marks /\ Marks \cap Ordinary = {}
    BY FilesAssumption DEF Ordinary
  <2>. QED BY <1>1, <2>1 DEF Shown
<1>5. ASSUME NEW s \in Seq(Shown)
      PROVE  s \in Seq(All) /\ MarksIn(s) \subseteq known /\ Lossy(s) = s
  <2>1. s \in Seq(All)
    BY <1>3, SeqMonotonic
  <2>2. Range(s) \subseteq Shown
    BY RangeOfSeq
  <2>3. Lossy(s) = s
    BY <1>3, <1>4, <2>2, LossyOf
  <2>. QED BY <1>4, <2>1, <2>2, <2>3 DEF MarksIn
<1>. QED BY <1>3, <1>5

\* What edit_file computes from a file it can edit.
LEMMA UpdatedOf ==
  ASSUME DiskTyped, NEW r, r.path \in Paths, r.old \in Seq(All), r.new \in Seq(All), Editable(r)
  PROVE  /\ Updated(r) \in Seq(All) /\ disk[r.path] # <<>>
         /\ MarksIn(Updated(r)) \subseteq MarksIn(disk[r.path]) \cup MarksIn(r.new)
         /\ MarksIn(r.new) \subseteq MarksIn(Updated(r))
         /\ MarksIn(disk[r.path]) \subseteq MarksIn(Updated(r)) \cup MarksIn(r.old)
         /\ Lossy(disk[r.path]) = r.old => Updated(r) = r.new
<1>. DEFINE text == disk[r.path]
            read == Lossy(text)
<1>1. text \in Seq(All)
  BY DEF DiskTyped
<1>2. "subst" \in All
  BY DEF All, Ordinary
<1>3. read \in Seq(All) /\ MarksIn(read) = MarksIn(text) /\ (text = <<>> => read = <<>>)
  <2>1. read \in Seq(All \ {"bad"}) /\ MarksIn(read) = MarksIn(text) /\ (text = <<>> => read = <<>>)
    BY <1>1, <1>2, LossyOf
  <2>. HIDE DEF read
  <2>2. All \ {"bad"} \subseteq All
    OBVIOUS
  <2>3. read \in Seq(All)
    BY <2>1, <2>2, SeqMonotonic
  <2>. QED BY <2>1, <2>3
<1>4. r.old # <<>> /\ Positions(read, r.old) # {}
  BY DEF Editable, OccursOnce
<1>5. Updated(r) = ReplaceFirst(read, r.old, r.new)
  BY DEF Updated
<1>. HIDE DEF read
<1>6. /\ ReplaceFirst(read, r.old, r.new) \in Seq(All)
      /\ Range(ReplaceFirst(read, r.old, r.new)) \subseteq Range(read) \cup Range(r.new)
      /\ Range(r.new) \subseteq Range(ReplaceFirst(read, r.old, r.new))
      /\ Range(read) \subseteq Range(ReplaceFirst(read, r.old, r.new)) \cup Range(r.old)
      /\ read = r.old => ReplaceFirst(read, r.old, r.new) = r.new
  BY <1>3, <1>4, Replaced
<1>7. text # <<>>
  <2>1. SUFFICES ASSUME text = <<>> PROVE FALSE
    OBVIOUS
  <2>2. read = <<>> /\ Len(read) = 0
    BY <1>3, <2>1
  <2>3. First(read, r.old) \in 1..Len(read)
    BY <1>3, <1>4, FirstFound
  <2>. QED BY <2>2, <2>3
<1>8. /\ MarksIn(Updated(r)) \subseteq MarksIn(read) \cup MarksIn(r.new)
      /\ MarksIn(r.new) \subseteq MarksIn(Updated(r))
      /\ MarksIn(read) \subseteq MarksIn(Updated(r)) \cup MarksIn(r.old)
  BY <1>5, <1>6 DEF MarksIn
<1>. QED BY <1>3, <1>5, <1>6, <1>7, <1>8 DEF read

\* A request is refused, or its call has read the file and holds what to write.
Begun(r) ==
  [stage |-> "checked", path |-> r.path, content |-> disk[r.path], updated |-> Updated(r),
   new |-> r.new]

LEMMA Started ==
  ASSUME DiskTyped, CallsTyped, NEW actor \in Actors, NEW r, StartEdit(actor, r),
         r.path \in Paths, r.old \in Seq(All), r.new \in Seq(All)
  PROVE  \/ call' = call
         \/ /\ Editable(r) /\ Begun(r) \in Calls /\ Begun(r) # Idle
            /\ call' = [call EXCEPT ![actor] = Begun(r)]
            /\ call'[actor] = Begun(r)
            /\ \A a \in Actors : a # actor => call'[a] = call[a]
            /\ call' \in [Actors -> {Idle} \cup Calls]
<1>1. CASE Editable(r)
  <2>1. Updated(r) \in Seq(All)
    BY <1>1, UpdatedOf
  <2>2. disk[r.path] \in Seq(All)
    BY DEF DiskTyped
  <2>3. Begun(r) \in Calls
    BY <2>1, <2>2 DEF Begun, Calls
  <2>4. Begun(r).stage # Idle.stage
    BY DEF Begun, Idle
  <2>5. call' = [call EXCEPT ![actor] = Begun(r)]
    BY <1>1 DEF StartEdit, Begun
  <2>6. call \in [Actors -> {Idle} \cup Calls]
    BY DEF CallsTyped
  <2>. QED BY <1>1, <2>3, <2>4, <2>5, <2>6
<1>2. CASE ~Editable(r)
  BY <1>2 DEF StartEdit
<1>. QED BY <1>1, <1>2

\* The save of the buffer.
LEMMA SaveRequestOf ==
  ASSUME FilesTyped, buffer # NoBuffer
  PROVE  /\ InBuffer(buffer, Shown) /\ buffer.path \in Paths /\ buffer.origin \in Seq(Shown)
         /\ SaveRequest \in Requests(Shown) /\ SaveRequest.kind = "save"
         /\ SaveRequest.path = buffer.path /\ SaveRequest.old = buffer.origin
         /\ SaveRequest.new = EditText(buffer)
<1>1. InBuffer(buffer, Shown)
  BY DEF FilesTyped, BufferTyped
<1>2. buffer.path \in Paths /\ buffer.origin \in Seq(Shown)
  BY <1>1 DEF InBuffer, Buffers
<1>3. "lf" \in Shown
  BY ShownIn DEF FilesTyped, HistoryTyped
<1>4. EditText(buffer) \in Seq(Shown)
  <2>1. buffer.lines \in Seq(Seq(Shown)) /\ Len(buffer.lines) > 0
    BY <1>1 DEF InBuffer, Buffers
  <2>. QED BY <1>3, <2>1, TextTyped
<1>5. SaveRequest \in Requests(Shown) /\ SaveRequest.kind = "save"
      /\ SaveRequest.path = buffer.path /\ SaveRequest.old = buffer.origin
      /\ SaveRequest.new = EditText(buffer)
  BY <1>2, <1>4 DEF SaveRequest, Requests
<1>. QED BY <1>1, <1>2, <1>5

LEMMA FilesTypedInit == FilesInit => FilesTyped
<1>. SUFFICES ASSUME FilesInit PROVE FilesTyped
  OBVIOUS
<1>1. DiskTyped
  <2>1. Ordinary \subseteq All
    BY DEF All
  <2>2. ASSUME NEW p \in Paths PROVE disk[p] \in Seq(All) /\ MarksIn(disk[p]) = {}
    <3>1. disk[p] \in Seq(Ordinary)
      BY FilesAssumption DEF FilesInit
    <3>2. Range(disk[p]) \subseteq Ordinary
      BY <3>1, RangeOfSeq
    <3>. QED BY <2>1, <3>1, <3>2, SeqMonotonic, FilesAssumption DEF MarksIn
  <2>3. DOMAIN disk = Paths /\ disk = [p \in Paths |-> disk[p]]
    BY FilesAssumption DEF FilesInit
  <2>. QED BY <2>2, <2>3 DEF DiskTyped
<1>2. BufferTyped /\ SlotTyped
  BY DEF FilesInit, BufferTyped, SlotTyped
<1>3. CallsTyped
  BY DEF FilesInit, CallsTyped, Actors
<1>4. HistoryTyped
  BY DEF FilesInit, HistoryTyped
<1>. QED BY <1>1, <1>2, <1>3, <1>4 DEF FilesTyped

LEMMA FilesTypedNext == FilesTyped /\ [FilesNext]_filesVars => FilesTyped'
<1>. SUFFICES ASSUME FilesTyped, [FilesNext]_filesVars PROVE FilesTyped'
  OBVIOUS
<1>. USE DEF FilesTyped
<1>1. /\ \A s \in Seq(Shown) : s \in Seq(All) /\ MarksIn(s) \subseteq known
      /\ Shown \subseteq All /\ "x" \in Shown /\ " " \in Shown
  BY ShownIn DEF HistoryTyped
<1>2. ASSUME disk' = disk, placed' = placed PROVE DiskTyped'
  BY <1>2 DEF DiskTyped
<1>3. ASSUME buffer' = buffer, editing' = editing, known' = known PROVE BufferTyped'
  BY <1>3 DEF BufferTyped, Shown
<1>4. ASSUME buffer # NoBuffer => buffer' # NoBuffer, known' = known,
             dialog' \in {dialog, "none", "save", "agent"}, slot' \in {slot, NoSlot, AgentHalf}
      PROVE  SlotTyped'
  BY <1>4 DEF SlotTyped, Shown
<1>5. ASSUME buffer # NoBuffer => buffer' # NoBuffer, known' = known, call' = call,
             used.marks \subseteq used'.marks
      PROVE  CallsTyped'
  <2>1. \A a \in Actors : call'[a] # Idle => MarksIn(call'[a].updated) \subseteq used'.marks
    BY <1>5 DEF CallsTyped
  <2>. QED BY <1>5, <2>1 DEF CallsTyped, Shown
<1>6. ASSUME used' = used, known' = known, placed' = placed, touched' \in BOOLEAN, strayed' \in BOOLEAN
      PROVE  HistoryTyped'
  BY <1>6 DEF HistoryTyped
<1>7. ASSUME Does, UNCHANGED <<placed, known, touched, strayed>>
      PROVE  HistoryTyped' /\ used'.marks = used.marks
  BY <1>7 DEF Does, HistoryTyped
<1>8. touched \in BOOLEAN /\ strayed \in BOOLEAN
  BY DEF HistoryTyped
<1>9. ASSUME NEW p \in Paths, OpenEntry(p) PROVE FilesTyped'
  <2>1. /\ disk' = disk /\ placed' = placed /\ dialog' = dialog /\ slot' = slot /\ call' = call
        /\ call["ui"] = Idle
    BY <1>9 DEF OpenEntry, Hands, UiFree
  <2>2. disk[p] \in Seq(All) /\ MarksIn(disk[p]) \subseteq placed
    BY DEF DiskTyped
  <2>3. known \subseteq known' /\ known' \subseteq placed /\ MarksIn(disk[p]) \subseteq known'
    BY <1>9, <2>2 DEF OpenEntry, HistoryTyped
  <2>4. Shown \subseteq Shown'
    BY <2>3 DEF Shown
  <2>5. Lossy(disk[p]) \in Seq(Shown')
    <3>1. "subst" \in All
      BY DEF All, Ordinary
    <3>2. Lossy(disk[p]) \in Seq(All \ {"bad"}) /\ MarksIn(Lossy(disk[p])) = MarksIn(disk[p])
      BY <2>2, <3>1, LossyOf
    <3>3. Range(Lossy(disk[p])) \subseteq All \ {"bad"}
      BY <3>2, RangeOfSeq
    <3>4. Range(Lossy(disk[p])) \subseteq Shown'
      BY <2>3, <3>2, <3>3 DEF MarksIn, All, Shown
    <3>5. Lossy(disk[p]) \in Seq(Range(Lossy(disk[p])))
      BY <3>2, SeqOfRange
    <3>. QED BY <3>4, <3>5, SeqMonotonic
  <2>6. InBuffer(buffer', Shown')
    BY <1>9, <2>5, OpenedIn DEF OpenEntry
  <2>7. buffer' # NoBuffer
    <3>1. buffer'.path \in Paths
      BY <2>6 DEF InBuffer, Buffers
    <3>. QED BY <3>1, FilesAssumption DEF NoBuffer
  <2>8. BufferTyped'
    BY <1>9, <2>6, <2>7 DEF OpenEntry, BufferTyped
  <2>9. SlotTyped'
    <3>1. ASSUME slot \in Requests(Shown) PROVE slot \in Requests(Shown')
      <4>1. /\ slot = [kind |-> "save", path |-> slot.path, old |-> slot.old, new |-> slot.new]
            /\ slot.path \in Paths /\ slot.old \in Seq(Shown) /\ slot.new \in Seq(Shown)
        BY <3>1 DEF Requests
      <4>2. slot.old \in Seq(Shown') /\ slot.new \in Seq(Shown')
        BY <2>4, <4>1, SeqMonotonic
      <4>. QED BY <4>1, <4>2 DEF Requests
    <3>. QED BY <2>1, <2>7, <3>1 DEF SlotTyped
  <2>10. used'.marks = used.marks /\ used' \in [doings : Nat, questions : Nat, marks : SUBSET Marks]
    BY <1>9 DEF OpenEntry, Does, HistoryTyped
  <2>11. CallsTyped'
    BY <2>1, <2>10 DEF CallsTyped
  <2>12. HistoryTyped'
    <3>1. touched' \in BOOLEAN /\ strayed' \in BOOLEAN
      BY <1>9 DEF OpenEntry
    <3>. QED BY <2>1, <2>3, <2>10, <3>1 DEF HistoryTyped
  <2>. QED BY <1>2, <2>1, <2>8, <2>9, <2>11, <2>12
<1>10. ASSUME ToggleEdit PROVE FilesTyped'
  <2>1. /\ UNCHANGED <<disk, buffer, dialog, slot, call, history, used>> /\ buffer # NoBuffer
        /\ editing' \in BOOLEAN
    BY <1>10 DEF ToggleEdit
  <2>2. BufferTyped'
    BY <2>1 DEF BufferTyped, Shown, history
  <2>. QED BY <1>2, <1>4, <1>5, <1>6, <1>8, <2>1, <2>2 DEF history
<1>11. ASSUME EditKey PROVE FilesTyped'
  <2>1. /\ UNCHANGED <<disk, editing, dialog, slot, call, placed, known, raced, touched, strayed>>
        /\ editing /\ buffer # NoBuffer
    BY <1>11 DEF EditKey, history, BufferTyped
  <2>2. InBuffer(buffer, Shown)
    BY <2>1 DEF BufferTyped
  <2>3. InBuffer(buffer', Shown)
    <3>1. buffer' \in Edits(buffer) \/ buffer' \in Moves(buffer)
      BY <1>11 DEF EditKey
    <3>. QED BY <1>1, <2>2, <3>1, EditsIn, MovesIn
  <2>4. buffer' # NoBuffer
    <3>1. buffer'.path \in Paths
      BY <2>3 DEF InBuffer, Buffers
    <3>. QED BY <3>1, FilesAssumption DEF NoBuffer
  <2>5. BufferTyped'
    BY <2>1, <2>3, <2>4 DEF BufferTyped, Shown
  <2>6. HistoryTyped' /\ used'.marks = used.marks
    <3>1. Does \/ used' = used
      BY <1>11 DEF EditKey
    <3>. QED BY <1>6, <1>7, <1>8, <2>1, <3>1
  <2>. QED BY <1>2, <1>4, <1>5, <2>1, <2>4, <2>5, <2>6
<1>12. ASSUME NEW actor \in Actors, EmptyFile(actor) PROVE FilesTyped'
  <2>. DEFINE c == call[actor]
              d == [c EXCEPT !.stage = "emptied"]
  <2>1. /\ c.stage = "checked" /\ disk' = [disk EXCEPT ![c.path] = <<>>]
        /\ call' = [call EXCEPT ![actor] = d]
        /\ UNCHANGED <<buffer, editing, dialog, slot, placed, known, strayed, used>>
        /\ touched' \in BOOLEAN
    BY <1>12 DEF EmptyFile, screenVars, Touch
  <2>2. c \in Calls /\ c # Idle
    <3>1. c \in {Idle} \cup Calls
      BY DEF CallsTyped
    <3>2. Idle.stage # "checked"
      BY DEF Idle
    <3>. QED BY <2>1, <3>1, <3>2
  <2>3. c.path \in Paths /\ d \in Calls /\ d.updated = c.updated /\ d.new = c.new
    BY <2>2 DEF Calls
  <2>4. DiskTyped'
    <3>1. <<>> \in Seq(All) /\ MarksIn(<<>>) = {}
      BY DEF MarksIn, Range
    <3>. QED BY <2>1, <2>3, <3>1 DEF DiskTyped
  <2>5. CallsTyped'
    <3>. HIDE DEF c, d
    <3>1. call' \in [Actors -> {Idle} \cup Calls]
      BY <2>1, <2>3 DEF CallsTyped
    <3>2. \A a \in Actors : call'[a] = IF a = actor THEN d ELSE call[a]
      BY <2>1 DEF CallsTyped
    <3>3. \A a \in Actors : call[a] # Idle => MarksIn(call[a].updated) \subseteq used.marks
      BY DEF CallsTyped
    <3>4. MarksIn(d.updated) \subseteq used.marks
      BY <2>2, <2>3, <3>3 DEF c
    <3>5. \A a \in Actors : call'[a] # Idle => MarksIn(call'[a].updated) \subseteq used'.marks
      BY <2>1, <3>2, <3>3, <3>4
    <3>6. call'["ui"] # Idle => call["ui"] # Idle /\ call'["ui"].new = call["ui"].new
      BY <2>2, <2>3, <3>2 DEF c, Actors
    <3>. QED BY <2>1, <3>1, <3>5, <3>6 DEF CallsTyped, Shown
  <2>. QED BY <1>3, <1>4, <1>6, <1>8, <2>1, <2>4, <2>5
<1>13. ASSUME NEW actor \in Actors, WriteFile(actor) PROVE FilesTyped'
  <2>. DEFINE c == call[actor]
  <2>1. /\ c.stage = "emptied" /\ disk' = [disk EXCEPT ![c.path] = c.updated]
        /\ call' = [call EXCEPT ![actor] = Idle]
        /\ buffer' = (IF actor = "ui" THEN Confirmed(buffer, c.new) ELSE buffer)
        /\ placed' = placed \cup MarksIn(c.updated)
        /\ UNCHANGED <<editing, dialog, slot, known, strayed, used>>
        /\ touched' \in BOOLEAN
    BY <1>13 DEF WriteFile, Touch
  <2>2. c \in Calls /\ c # Idle
    <3>1. c \in {Idle} \cup Calls
      BY DEF CallsTyped
    <3>2. Idle.stage # "emptied"
      BY DEF Idle
    <3>. QED BY <2>1, <3>1, <3>2
  <2>3. c.path \in Paths /\ c.updated \in Seq(All) /\ MarksIn(c.updated) \subseteq used.marks
    BY <2>2 DEF Calls, CallsTyped
  <2>4. actor = "ui" => buffer # NoBuffer /\ c.new \in Seq(Shown)
    BY <2>2 DEF CallsTyped
  <2>. HIDE DEF c
  <2>5. DiskTyped'
    BY <2>1, <2>3 DEF DiskTyped
  <2>6. buffer # NoBuffer => InBuffer(buffer', Shown) /\ buffer' # NoBuffer
    <3>1. ASSUME buffer # NoBuffer PROVE InBuffer(buffer', Shown)
      <4>1. InBuffer(buffer, Shown)
        BY <3>1 DEF BufferTyped
      <4>. QED BY <2>1, <2>4, <4>1, ConfirmedIn
    <3>2. InBuffer(buffer', Shown) => buffer'.path \in Paths
      BY DEF InBuffer, Buffers
    <3>. QED BY <3>1, <3>2, FilesAssumption DEF NoBuffer
  <2>7. BufferTyped'
    <3>1. buffer = NoBuffer => buffer' = NoBuffer
      BY <2>1, <2>4
    <3>. QED BY <2>1, <2>6, <3>1 DEF BufferTyped, Shown
  <2>8. CallsTyped'
    <3>1. call' \in [Actors -> {Idle} \cup Calls]
      BY <2>1 DEF CallsTyped
    <3>2. \A a \in Actors : call'[a] # Idle => call'[a] = call[a]
      BY <2>1 DEF CallsTyped
    <3>3. "ui" \in Actors
      BY DEF Actors
    <3>4. \A a \in Actors : call'[a] # Idle => MarksIn(call'[a].updated) \subseteq used'.marks
      BY <2>1, <3>2 DEF CallsTyped
    <3>5. call'["ui"] # Idle => buffer # NoBuffer /\ call'["ui"].new \in Seq(Shown)
      BY <3>2, <3>3 DEF CallsTyped
    <3>. QED BY <2>1, <2>6, <3>1, <3>4, <3>5 DEF CallsTyped, Shown
  <2>9. HistoryTyped'
    BY <1>8, <2>1, <2>3 DEF HistoryTyped
  <2>. QED BY <1>4, <2>1, <2>5, <2>6, <2>7, <2>8, <2>9
<1>14. ASSUME NEW actor \in Actors, WriteFails(actor) PROVE FilesTyped'
  <2>1. /\ call' = [call EXCEPT ![actor] = Idle]
        /\ UNCHANGED <<disk, buffer, editing, dialog, slot, placed, known, touched, strayed, used>>
    BY <1>14 DEF WriteFails, screenVars
  <2>2. CallsTyped'
    <3>1. call' \in [Actors -> {Idle} \cup Calls]
      BY <2>1 DEF CallsTyped
    <3>2. \A a \in Actors : call'[a] # Idle => call'[a] = call[a]
      BY <2>1 DEF CallsTyped
    <3>3. "ui" \in Actors
      BY DEF Actors
    <3>4. \A a \in Actors : call'[a] # Idle => MarksIn(call'[a].updated) \subseteq used'.marks
      BY <2>1, <3>2 DEF CallsTyped
    <3>5. call'["ui"] # Idle => buffer # NoBuffer /\ call'["ui"].new \in Seq(Shown)
      BY <3>2, <3>3 DEF CallsTyped
    <3>. QED BY <2>1, <3>1, <3>4, <3>5 DEF CallsTyped, Shown
  <2>. QED BY <1>2, <1>3, <1>4, <1>6, <1>8, <2>1, <2>2
<1>15. ASSUME SaveAsks PROVE FilesTyped'
  <2>1. /\ buffer # NoBuffer /\ dialog' = "save" /\ slot' = SaveRequest /\ Does
        /\ UNCHANGED <<disk, buffer, editing, call, placed, known, touched, strayed>>
    BY <1>15 DEF SaveAsks, history, BufferTyped
  <2>2. SaveRequest \in Requests(Shown)
    BY <2>1, SaveRequestOf
  <2>3. SlotTyped'
    BY <2>1, <2>2 DEF SlotTyped, Shown
  <2>4. HistoryTyped' /\ used'.marks = used.marks
    BY <1>7, <2>1
  <2>. QED BY <1>2, <1>3, <1>5, <2>1, <2>3, <2>4
<1>16. ASSUME UNCHANGED <<disk, buffer, known, placed>>, used'.marks = used.marks,
              buffer # NoBuffer, NEW r \in Requests(Shown), StartEdit("ui", r)
       PROVE  CallsTyped'
  <2>1. r.path \in Paths /\ r.old \in Seq(Shown) /\ r.new \in Seq(Shown)
    BY DEF Requests
  <2>2. /\ r.old \in Seq(All) /\ MarksIn(r.old) \subseteq known
        /\ r.new \in Seq(All) /\ MarksIn(r.new) \subseteq known
    BY <1>1, <2>1
  <2>3. "ui" \in Actors
    BY DEF Actors
  <2>4. CASE call' = call
    BY <1>5, <1>16, <2>4
  <2>5. CASE /\ Editable(r) /\ Begun(r) \in Calls
             /\ call'["ui"] = Begun(r)
             /\ \A a \in Actors : a # "ui" => call'[a] = call[a]
             /\ call' \in [Actors -> {Idle} \cup Calls]
    <3>1. MarksIn(Updated(r)) \subseteq MarksIn(disk[r.path]) \cup MarksIn(r.new)
      BY <2>1, <2>2, <2>5, UpdatedOf
    <3>2. MarksIn(Updated(r)) \subseteq used.marks
      BY <2>1, <2>2, <3>1 DEF DiskTyped, HistoryTyped
    <3>3. Begun(r).updated = Updated(r) /\ Begun(r).new = r.new
      BY DEF Begun
    <3>4. \A a \in Actors : call'[a] # Idle => MarksIn(call'[a].updated) \subseteq used'.marks
      BY <1>16, <2>5, <3>2, <3>3 DEF CallsTyped
    <3>. QED BY <1>16, <2>1, <2>5, <3>3, <3>4 DEF CallsTyped, Shown
  <2>. QED BY <1>16, <2>1, <2>2, <2>3, <2>4, <2>5, Started
<1>17. ASSUME SaveRuns PROVE FilesTyped'
  <2>1. /\ buffer # NoBuffer /\ StartEdit("ui", SaveRequest) /\ slot' = NoSlot /\ Does
        /\ UNCHANGED <<disk, buffer, editing, dialog, placed, known, touched, strayed>>
    BY <1>17 DEF SaveRuns, history, BufferTyped
  <2>2. SaveRequest \in Requests(Shown)
    BY <2>1, SaveRequestOf
  <2>3. HistoryTyped' /\ used'.marks = used.marks
    BY <1>7, <2>1
  <2>4. CallsTyped'
    BY <1>16, <2>1, <2>2, <2>3
  <2>. QED BY <1>2, <1>3, <1>4, <2>1, <2>3, <2>4
<1>18. ASSUME NEW allowed \in BOOLEAN, Answer(allowed) PROVE FilesTyped'
  <2>1. /\ dialog' = "none" /\ slot' = NoSlot
        /\ IF slot.kind = "save" /\ allowed THEN StartEdit("ui", slot) ELSE call' = call
        /\ UNCHANGED <<disk, buffer, editing, placed, known, touched, strayed, used>>
    BY <1>18 DEF Answer, history
  <2>2. CallsTyped'
    <3>1. CASE call' = call
      BY <1>5, <2>1, <3>1
    <3>2. CASE slot.kind = "save" /\ StartEdit("ui", slot)
      <4>1. slot \in Requests(Shown) /\ buffer # NoBuffer
        BY <3>2 DEF SlotTyped, NoSlot, AgentHalf
      <4>. QED BY <1>16, <2>1, <3>2, <4>1
    <3>. QED BY <2>1, <3>1, <3>2
  <2>. QED BY <1>2, <1>3, <1>4, <1>6, <1>8, <2>1, <2>2
<1>19. ASSUME AgentAsks PROVE FilesTyped'
  <2>1. /\ used' = [used EXCEPT !.questions = @ + 1]
        /\ UNCHANGED <<disk, buffer, editing, dialog, slot, call, placed, known, touched, strayed>>
    BY <1>19 DEF AgentAsks, screenVars, history
  <2>2. HistoryTyped' /\ used'.marks = used.marks
    BY <2>1 DEF HistoryTyped
  <2>. QED BY <1>2, <1>3, <1>4, <1>5, <2>1, <2>2
<1>20. ASSUME FoldRequest \/ TakeHalf \/ AgentGivesUp \/ FoldResolved PROVE FilesTyped'
  <2>1. /\ UNCHANGED <<disk, buffer, editing, call, placed, known, touched, used>>
        /\ dialog' \in {dialog, "none", "save", "agent"} /\ slot' \in {slot, NoSlot, AgentHalf}
        /\ strayed' \in BOOLEAN
    BY <1>8, <1>20 DEF FoldRequest, TakeHalf, AgentGivesUp, FoldResolved, screenVars, history
  <2>. QED BY <1>2, <1>3, <1>4, <1>5, <1>6, <1>8, <2>1
<1>21. ASSUME NEW p \in Paths, NEW mark \in AgentMarks, NEW i \in DOMAIN disk[p],
              AgentEdits(p, i, mark)
       PROVE  FilesTyped'
  <2>. DEFINE r == [path |-> p, old |-> <<disk[p][i]>>, new |-> <<disk[p][i], mark>>]
  <2>1. /\ StartEdit("agent", r) /\ call'["agent"] # Idle /\ call["agent"] = Idle
        /\ used' = [used EXCEPT !.marks = @ \cup {mark}]
        /\ UNCHANGED <<disk, buffer, editing, dialog, slot, placed, known, touched, strayed>>
    BY <1>21 DEF AgentEdits, screenVars, history
  <2>2. disk[p] \in Seq(All) /\ disk[p][i] \in All /\ mark \in All /\ mark \in Marks
    <3>1. disk[p] \in Seq(All)
      BY DEF DiskTyped
    <3>2. i \in 1..Len(disk[p])
      BY <3>1
    <3>. QED BY <3>1, <3>2, ElementOfSeq DEF All, Marks
  <2>3. /\ r.path = p /\ r.old \in Seq(All) /\ r.new \in Seq(All)
        /\ MarksIn(r.new) \subseteq MarksIn(disk[p]) \cup {mark}
    <3>1. r.path = p /\ r.old = <<disk[p][i]>> /\ r.new = <<disk[p][i], mark>>
      OBVIOUS
    <3>2. <<disk[p][i]>> \in Seq(All) /\ <<disk[p][i], mark>> \in Seq(All)
      BY <2>2
    <3>3. Range(<<disk[p][i], mark>>) = {disk[p][i], mark}
      BY DEF Range
    <3>4. disk[p][i] \in Range(disk[p])
      BY DEF Range
    <3>. QED BY <3>1, <3>2, <3>3, <3>4 DEF MarksIn
  <2>. HIDE DEF r
  <2>4. "agent" \in Actors /\ "ui" \in Actors /\ "ui" # "agent"
    BY DEF Actors
  <2>5. /\ Editable(r) /\ call'["agent"] = Begun(r)
        /\ \A a \in Actors : a # "agent" => call'[a] = call[a]
        /\ call' \in [Actors -> {Idle} \cup Calls]
    BY <2>1, <2>3, <2>4, Started
  <2>6. MarksIn(Updated(r)) \subseteq MarksIn(disk[p]) \cup {mark}
    BY <2>3, <2>5, UpdatedOf
  <2>7. HistoryTyped' /\ used'.marks = used.marks \cup {mark}
    BY <2>1, <2>2 DEF HistoryTyped
  <2>8. CallsTyped'
    <3>1. Begun(r).updated = Updated(r)
      BY DEF Begun
    <3>2. MarksIn(Updated(r)) \subseteq used'.marks
      BY <2>6, <2>7 DEF DiskTyped, HistoryTyped
    <3>3. \A a \in Actors : call'[a] # Idle => MarksIn(call'[a].updated) \subseteq used'.marks
      BY <2>5, <2>7, <3>1, <3>2 DEF CallsTyped
    <3>. QED BY <2>1, <2>4, <2>5, <3>3 DEF CallsTyped, Shown
  <2>. QED BY <1>2, <1>3, <1>4, <2>1, <2>7, <2>8
<1>22. ASSUME NEW p \in Paths, NEW mark \in Strangers, NEW i \in 1..(Len(disk[p]) + 1),
              Outside(p, i, mark)
       PROVE  FilesTyped'
  <2>1. /\ disk' = [disk EXCEPT ![p] = InsertAt(disk[p], i, mark)]
        /\ placed' = placed \cup {mark}
        /\ used' = [used EXCEPT !.marks = @ \cup {mark}]
        /\ UNCHANGED <<buffer, editing, dialog, slot, call, known, strayed>> /\ touched' \in BOOLEAN
    BY <1>22 DEF Outside, screenVars, Touch
  <2>2. disk[p] \in Seq(All) /\ mark \in All /\ mark \in Marks
    BY DEF DiskTyped, All, Marks
  <2>3. InsertAt(disk[p], i, mark) \in Seq(All)
    BY <2>2, Inserting
  <2>4. MarksIn(InsertAt(disk[p], i, mark)) \subseteq MarksIn(disk[p]) \cup {mark}
    BY <2>2, RangeInserted DEF MarksIn
  <2>5. DiskTyped'
    BY <2>1, <2>3, <2>4 DEF DiskTyped
  <2>6. HistoryTyped' /\ used.marks \subseteq used'.marks
    BY <1>8, <2>1, <2>2 DEF HistoryTyped
  <2>. QED BY <1>3, <1>4, <1>5, <2>1, <2>5, <2>6
<1>23. ASSUME UNCHANGED filesVars PROVE FilesTyped'
  <2>1. UNCHANGED <<disk, buffer, editing, dialog, slot, call, placed, known, touched, strayed, used>>
    BY <1>23 DEF filesVars, screenVars, history
  <2>. QED BY <1>2, <1>3, <1>4, <1>5, <1>6, <1>8, <2>1
<1>. QED
  BY <1>9, <1>10, <1>11, <1>12, <1>13, <1>14, <1>15, <1>17, <1>18, <1>19, <1>20, <1>21, <1>22, <1>23
  DEF FilesNext, User, Agent, Tools, Others

LEMMA FilesTypedAlways == FilesSpec => []FilesTyped
BY FilesTypedInit, FilesTypedNext, PTL DEF FilesSpec

\* The cursor stays in the buffer: what the keys, the open and the confirmed
\* save make of a buffer with the cursor in it is such a buffer, and a save is
\* confirmed only while a buffer is open.
THEOREM CursorKept == FilesSpec => []CursorInBuffer
<1>1. FilesTyped => CursorInBuffer
  <2>1. SUFFICES ASSUME FilesTyped, buffer # NoBuffer
                 PROVE  buffer.row \in 0..(Len(buffer.lines) - 1) /\ buffer.col \in 0..LineLen(buffer)
    BY DEF CursorInBuffer
  <2>2. InBuffer(buffer, Shown)
    BY <2>1 DEF FilesTyped, BufferTyped
  <2>3. /\ Len(buffer.lines) \in Nat /\ buffer.row \in Nat /\ buffer.col \in Nat
        /\ buffer.row + 1 \in 1..Len(buffer.lines) /\ LineLen(buffer) = Len(buffer.lines[buffer.row + 1])
        /\ LineLen(buffer) \in Nat
    BY <2>2, LineOf
  <2>4. buffer.col <= LineLen(buffer)
    BY <2>2, <2>3 DEF InBuffer
  <2>. QED BY <2>3, <2>4
<1>. QED BY <1>1, FilesTypedAlways, PTL

LEMMA MarksKeptInit == FilesInit => MarksKept
BY DEF FilesInit, MarksKept, OnlyRacesLoseText, Actors

\* The call a request begins keeps the marks it should.
LEMMA BegunKeeps ==
  ASSUME FilesTyped, NEW r, r.path \in Paths, r.old \in Seq(All), r.new \in Seq(All), Editable(r),
         MarksIn(r.old) \subseteq known \cup MarksIn(r.new),
         MarksIn(r.new) \cap placed \subseteq known \cup MarksIn(disk[r.path])
  PROVE  CallKeeps(Begun(r))
<1>1. MarksIn(disk[r.path]) \subseteq placed
  BY DEF FilesTyped, DiskTyped
<1>2. /\ MarksIn(Updated(r)) \subseteq MarksIn(disk[r.path]) \cup MarksIn(r.new)
      /\ MarksIn(r.new) \subseteq MarksIn(Updated(r))
      /\ MarksIn(disk[r.path]) \subseteq MarksIn(Updated(r)) \cup MarksIn(r.old)
  BY UpdatedOf DEF FilesTyped
<1>3. Begun(r).content = disk[r.path] /\ Begun(r).updated = Updated(r)
  BY DEF Begun
<1>. QED BY <1>1, <1>2, <1>3 DEF CallKeeps

LEMMA MarksKeptNext == FilesTyped /\ MarksKept /\ [FilesNext]_filesVars => MarksKept'
<1>. SUFFICES ASSUME FilesTyped, MarksKept, [FilesNext]_filesVars PROVE MarksKept'
  OBVIOUS
<1>. USE DEF FilesTyped
<1>. DEFINE CallsKeep == /\ \A a \in Actors : call[a] # Idle => CallKeeps(call[a])
                         /\ call["ui"] # Idle => MarksIn(call["ui"].updated) \subseteq placed
            Survives(m) == \/ \E p \in Paths : m \in MarksIn(disk[p])
                           \/ \E a \in Actors :
                                call[a].stage = "emptied" /\ m \in MarksIn(call[a].updated)
<1>1. Idle.stage = "idle" /\ "ui" \in Actors /\ "agent" \in Actors /\ Actors = {"ui", "agent"}
  BY DEF Idle, Actors
<1>2. \A a \in Actors : call[a].stage # "idle" => call[a] # Idle
  BY <1>1
<1>3. call \in [Actors -> {Idle} \cup Calls]
  BY DEF CallsTyped
<1>4. CallsKeep /\ OnlyRacesLoseText
  BY DEF MarksKept
<1>5. ASSUME call' = call, placed' = placed, known \subseteq known' PROVE CallsKeep'
  BY <1>4, <1>5 DEF CallKeeps
<1>6. ASSUME disk' = disk, placed' = placed, known \subseteq known', raced \subseteq raced',
             \A a \in Actors : call[a].stage = "emptied" => call'[a] = call[a]
      PROVE  OnlyRacesLoseText'
  <2>1. SUFFICES ASSUME NEW m \in placed' \ (known' \cup raced')
                 PROVE  Survives(m)'
    BY DEF OnlyRacesLoseText
  <2>2. m \in placed \ (known \cup raced)
    BY <1>6
  <2>3. Survives(m)
    BY <1>4, <2>2 DEF OnlyRacesLoseText
  <2>. QED BY <1>6, <2>3
<1>7. ASSUME NEW p \in Paths, OpenEntry(p) PROVE MarksKept'
  <2>1. UNCHANGED <<disk, call, placed, raced>> /\ known \subseteq known'
    BY <1>7 DEF OpenEntry
  <2>. QED BY <1>5, <1>6, <2>1 DEF MarksKept
<1>8. ASSUME UNCHANGED <<disk, call, placed, known, raced>> PROVE MarksKept'
  BY <1>5, <1>6, <1>8 DEF MarksKept
<1>9. ASSUME NEW actor \in Actors, EmptyFile(actor) PROVE MarksKept'
  <2>. DEFINE c == call[actor]
              d == [c EXCEPT !.stage = "emptied"]
  <2>1. /\ c.stage = "checked" /\ disk' = [disk EXCEPT ![c.path] = <<>>]
        /\ call' = [call EXCEPT ![actor] = d]
        /\ raced' = raced \cup (MarksIn(disk[c.path]) \ MarksIn(c.content))
        /\ UNCHANGED <<placed, known>>
    BY <1>9 DEF EmptyFile, screenVars
  <2>2. c \in Calls /\ c # Idle
    BY <1>1, <1>3, <2>1
  <2>3. d.stage = "emptied" /\ d.updated = c.updated /\ d.content = c.content
    BY <2>2 DEF Calls
  <2>4. \A a \in Actors : call'[a] = IF a = actor THEN d ELSE call[a]
    BY <1>3, <2>1
  <2>5. CallKeeps(c) /\ (actor = "ui" => MarksIn(c.updated) \subseteq placed)
    BY <1>4, <2>2
  <2>6. \A p \in Paths : p # c.path => disk'[p] = disk[p]
    BY <2>1 DEF DiskTyped
  <2>. HIDE DEF c, d
  <2>7. CallsKeep'
    <3>1. CallKeeps(d)'
      BY <2>1, <2>3, <2>5 DEF CallKeeps, c, d
    <3>2. CallKeeps(d)
      BY <2>3, <2>5 DEF CallKeeps
    <3>3. \A a \in Actors : call'[a] # Idle => CallKeeps(call'[a])
      <4>1. \A a \in Actors : call[a] # Idle => CallKeeps(call[a])
        BY <1>4
      <4>2. call[actor] # Idle
        BY <2>2 DEF c
      <4>. QED BY <2>4, <3>2, <4>1, <4>2
    <3>4. \A a \in Actors : call'[a] # Idle => CallKeeps(call[a])'
      BY <2>1, <3>3 DEF CallKeeps
    <3>5. call'["ui"] # Idle => MarksIn(call'["ui"].updated) \subseteq placed'
      BY <1>1, <1>4, <2>1, <2>3, <2>4, <2>5
    <3>. QED BY <3>4, <3>5
  <2>8. OnlyRacesLoseText'
    <3>1. SUFFICES ASSUME NEW m \in placed' \ (known' \cup raced')
                   PROVE  Survives(m)'
      BY DEF OnlyRacesLoseText
    <3>2. /\ m \in placed \ (known \cup raced)
          /\ m \notin MarksIn(disk[c.path]) \ MarksIn(c.content)
      BY <2>1
    <3>3. CASE \E p \in Paths : m \in MarksIn(disk[p])
      <4>1. PICK p \in Paths : m \in MarksIn(disk[p])
        BY <3>3
      <4>2. CASE p = c.path
        <5>1. m \in MarksIn(d.updated)
          BY <2>3, <2>5, <3>2, <4>1, <4>2 DEF CallKeeps
        <5>. QED BY <2>3, <2>4, <5>1
      <4>3. CASE p # c.path
        BY <2>6, <4>1, <4>3
      <4>. QED BY <4>2, <4>3
    <3>4. CASE \E a \in Actors : call[a].stage = "emptied" /\ m \in MarksIn(call[a].updated)
      <4>1. PICK a \in Actors : call[a].stage = "emptied" /\ m \in MarksIn(call[a].updated)
        BY <3>4
      <4>2. a # actor
        BY <2>1, <4>1 DEF c
      <4>. QED BY <2>4, <4>1, <4>2
    <3>. QED BY <1>4, <3>2, <3>3, <3>4 DEF OnlyRacesLoseText
  <2>. QED BY <2>7, <2>8 DEF MarksKept
<1>10. ASSUME NEW actor \in Actors, WriteFile(actor) PROVE MarksKept'
  <2>. DEFINE c == call[actor]
  <2>1. /\ c.stage = "emptied" /\ disk' = [disk EXCEPT ![c.path] = c.updated]
        /\ call' = [call EXCEPT ![actor] = Idle]
        /\ placed' = placed \cup MarksIn(c.updated)
        /\ raced' = raced \cup (MarksIn(disk[c.path]) \ MarksIn(c.content))
        /\ known' = known
    BY <1>10 DEF WriteFile
  <2>2. c \in Calls /\ c # Idle
    BY <1>1, <1>3, <2>1
  <2>3. c.path \in Paths
    BY <2>2 DEF Calls
  <2>4. \A a \in Actors : call'[a] = IF a = actor THEN Idle ELSE call[a]
    BY <1>3, <2>1
  <2>5. CallKeeps(c) /\ (actor = "ui" => MarksIn(c.updated) \subseteq placed)
    BY <1>4, <2>2
  <2>6. \A p \in Paths : disk'[p] = IF p = c.path THEN c.updated ELSE disk[p]
    BY <2>1 DEF DiskTyped
  <2>. HIDE DEF c
  <2>7. CallsKeep'
    <3>1. ASSUME NEW a \in Actors, call'[a] # Idle PROVE CallKeeps(call[a])' /\ call'[a] = call[a]
      <4>1. a # actor /\ call'[a] = call[a] /\ CallKeeps(call[a])
        BY <1>4, <2>4, <3>1
      <4>2. MarksIn(call[a].updated) \cap placed' \subseteq placed
        <5>1. CASE actor = "ui"
          BY <2>1, <2>5, <5>1
        <5>2. CASE actor = "agent"
          BY <1>1, <1>4, <3>1, <4>1, <5>2
        <5>. QED BY <1>1, <5>1, <5>2
      <4>. QED BY <2>1, <4>1, <4>2 DEF CallKeeps
    <3>2. call'["ui"] # Idle => MarksIn(call'["ui"].updated) \subseteq placed'
      BY <1>1, <1>4, <2>1, <3>1
    <3>. QED BY <3>1, <3>2
  <2>8. OnlyRacesLoseText'
    <3>1. SUFFICES ASSUME NEW m \in placed' \ (known' \cup raced')
                   PROVE  Survives(m)'
      BY DEF OnlyRacesLoseText
    <3>2. m \in MarksIn(c.updated) => m \in MarksIn(disk'[c.path])
      BY <2>3, <2>6
    <3>3. CASE m \in MarksIn(c.updated)
      BY <2>3, <3>2, <3>3
    <3>4. CASE m \notin MarksIn(c.updated)
      <4>1. /\ m \in placed \ (known \cup raced)
            /\ m \notin MarksIn(disk[c.path]) \ MarksIn(c.content)
        BY <2>1, <3>4
      <4>2. m \notin MarksIn(disk[c.path])
        BY <2>5, <3>4, <4>1 DEF CallKeeps
      <4>3. CASE \E p \in Paths : m \in MarksIn(disk[p])
        BY <2>6, <4>2, <4>3
      <4>4. CASE \E a \in Actors : call[a].stage = "emptied" /\ m \in MarksIn(call[a].updated)
        <5>1. PICK a \in Actors : call[a].stage = "emptied" /\ m \in MarksIn(call[a].updated)
          BY <4>4
        <5>2. a # actor
          BY <3>4, <5>1 DEF c
        <5>. QED BY <2>4, <5>1, <5>2
      <4>. QED BY <1>4, <4>1, <4>3, <4>4 DEF OnlyRacesLoseText
    <3>. QED BY <3>3, <3>4
  <2>. QED BY <2>7, <2>8 DEF MarksKept
<1>11. ASSUME NEW actor \in Actors, WriteFails(actor) PROVE MarksKept'
  <2>. DEFINE c == call[actor]
  <2>1. /\ c.stage # "idle" /\ call' = [call EXCEPT ![actor] = Idle]
        /\ raced' = (IF c.stage = "emptied" THEN raced \cup MarksIn(c.content) ELSE raced)
        /\ UNCHANGED <<disk, placed, known>>
    BY <1>11 DEF WriteFails
  <2>2. CallKeeps(c)
    BY <1>2, <1>4, <2>1
  <2>3. \A a \in Actors : call'[a] = IF a = actor THEN Idle ELSE call[a]
    BY <1>3, <2>1
  <2>. HIDE DEF c
  <2>4. CallsKeep'
    <3>1. \A a \in Actors : call'[a] # Idle => call'[a] = call[a] /\ CallKeeps(call[a])
      BY <1>4, <2>3
    <3>2. \A a \in Actors : call'[a] # Idle => CallKeeps(call[a])'
      BY <2>1, <3>1 DEF CallKeeps
    <3>. QED BY <1>1, <1>4, <2>1, <3>1, <3>2
  <2>5. OnlyRacesLoseText'
    <3>1. SUFFICES ASSUME NEW m \in placed' \ (known' \cup raced')
                   PROVE  Survives(m)'
      BY DEF OnlyRacesLoseText
    <3>2. m \in placed \ (known \cup raced) /\ (c.stage = "emptied" => m \notin MarksIn(c.content))
      BY <2>1
    <3>3. CASE \E p \in Paths : m \in MarksIn(disk[p])
      BY <2>1, <3>3
    <3>4. CASE \E a \in Actors : call[a].stage = "emptied" /\ m \in MarksIn(call[a].updated)
      <4>1. PICK a \in Actors : call[a].stage = "emptied" /\ m \in MarksIn(call[a].updated)
        BY <3>4
      <4>2. a # actor
        BY <2>2, <3>2, <4>1 DEF c, CallKeeps
      <4>. QED BY <2>3, <4>1, <4>2
    <3>. QED BY <1>4, <3>2, <3>3, <3>4 DEF OnlyRacesLoseText
  <2>. QED BY <2>4, <2>5 DEF MarksKept
<1>12. ASSUME NEW actor \in Actors, NEW r, UNCHANGED <<disk, placed, known, raced>>, call[actor] = Idle,
              StartEdit(actor, r), r.path \in Paths, r.old \in Seq(All), r.new \in Seq(All),
              MarksIn(r.old) \subseteq known \cup MarksIn(r.new),
              MarksIn(r.new) \cap placed \subseteq known \cup MarksIn(disk[r.path]),
              actor = "ui" => MarksIn(r.new) \subseteq placed
       PROVE  MarksKept'
  <2>1. CASE call' = call
    BY <1>8, <1>12, <2>1
  <2>2. CASE /\ Editable(r)
             /\ call'[actor] = Begun(r)
             /\ \A a \in Actors : a # actor => call'[a] = call[a]
    <3>1. CallKeeps(Begun(r))
      BY <1>12, <2>2, BegunKeeps
    <3>2. MarksIn(Updated(r)) \subseteq MarksIn(disk[r.path]) \cup MarksIn(r.new)
      BY <1>12, <2>2, UpdatedOf
    <3>3. actor = "ui" => MarksIn(Begun(r).updated) \subseteq placed
      BY <1>12, <3>2 DEF Begun, DiskTyped
    <3>4. \A a \in Actors : call'[a] # Idle => CallKeeps(call'[a])
      BY <1>4, <2>2, <3>1
    <3>5. \A a \in Actors : call'[a] # Idle => CallKeeps(call[a])'
      BY <1>12, <3>4 DEF CallKeeps
    <3>6. call'["ui"] # Idle => MarksIn(call'["ui"].updated) \subseteq placed'
      BY <1>1, <1>4, <1>12, <2>2, <3>3
    <3>7. OnlyRacesLoseText'
      <4>1. \A a \in Actors : call[a].stage = "emptied" => call'[a] = call[a]
        BY <1>1, <1>12, <2>2
      <4>. QED BY <1>6, <1>12, <4>1
    <3>. QED BY <3>5, <3>6, <3>7 DEF MarksKept
  <2>. QED BY <1>12, <2>1, <2>2, Started
<1>13. ASSUME NEW r \in Requests(Shown), UNCHANGED <<disk, placed, known, raced>>, call["ui"] = Idle,
              StartEdit("ui", r)
       PROVE  MarksKept'
  <2>1. r.path \in Paths /\ r.old \in Seq(Shown) /\ r.new \in Seq(Shown)
    BY DEF Requests
  <2>2. /\ r.old \in Seq(All) /\ MarksIn(r.old) \subseteq known
        /\ r.new \in Seq(All) /\ MarksIn(r.new) \subseteq known
    BY <2>1, ShownIn DEF HistoryTyped
  <2>3. /\ MarksIn(r.old) \subseteq known \cup MarksIn(r.new)
        /\ MarksIn(r.new) \cap placed \subseteq known \cup MarksIn(disk[r.path])
        /\ MarksIn(r.new) \subseteq placed
    BY <2>2 DEF HistoryTyped
  <2>. QED BY <1>1, <1>12, <1>13, <2>1, <2>2, <2>3
<1>14. ASSUME SaveRuns PROVE MarksKept'
  <2>1. /\ buffer # NoBuffer /\ StartEdit("ui", SaveRequest) /\ call["ui"] = Idle
        /\ UNCHANGED <<disk, placed, known, raced>>
    BY <1>14 DEF SaveRuns, Hands, UiFree, history, BufferTyped
  <2>2. SaveRequest \in Requests(Shown)
    BY <2>1, SaveRequestOf
  <2>. QED BY <1>13, <2>1, <2>2
<1>15. ASSUME NEW allowed \in BOOLEAN, Answer(allowed) PROVE MarksKept'
  <2>1. /\ IF slot.kind = "save" /\ allowed THEN StartEdit("ui", slot) ELSE call' = call
        /\ call["ui"] = Idle /\ UNCHANGED <<disk, placed, known, raced>>
    BY <1>15 DEF Answer, UiFree, history
  <2>2. CASE call' = call
    BY <1>8, <2>1, <2>2
  <2>3. CASE slot.kind = "save" /\ StartEdit("ui", slot)
    <3>1. slot \in Requests(Shown)
      BY <2>3 DEF SlotTyped, NoSlot, AgentHalf
    <3>. QED BY <1>13, <2>1, <2>3, <3>1
  <2>. QED BY <2>1, <2>2, <2>3
<1>16. ASSUME ToggleEdit \/ EditKey \/ SaveAsks \/ FoldRequest \/ TakeHalf \/ FoldResolved
              \/ AgentAsks \/ AgentGivesUp \/ UNCHANGED filesVars
       PROVE  MarksKept'
  <2>1. UNCHANGED <<disk, call, placed, known, raced>>
    BY <1>16 DEF ToggleEdit, EditKey, SaveAsks, FoldRequest, TakeHalf, FoldResolved, AgentAsks,
                 AgentGivesUp, filesVars, screenVars, history
  <2>. QED BY <1>8, <2>1
<1>17. ASSUME NEW p \in Paths, NEW mark \in AgentMarks, NEW i \in DOMAIN disk[p],
              AgentEdits(p, i, mark)
       PROVE  MarksKept'
  <2>. DEFINE r == [path |-> p, old |-> <<disk[p][i]>>, new |-> <<disk[p][i], mark>>]
  <2>1. /\ StartEdit("agent", r) /\ call["agent"] = Idle /\ mark \notin used.marks
        /\ UNCHANGED <<disk, placed, known, raced>>
    BY <1>17 DEF AgentEdits, history
  <2>2. disk[p][i] \in All /\ mark \in All /\ mark \in Marks /\ disk[p][i] \in Range(disk[p])
    <3>1. disk[p] \in Seq(All)
      BY DEF DiskTyped
    <3>2. i \in 1..Len(disk[p])
      BY <3>1
    <3>. QED BY <3>1, <3>2, ElementOfSeq DEF All, Marks, Range
  <2>3. r.path = p /\ r.old = <<disk[p][i]>> /\ r.new = <<disk[p][i], mark>>
    OBVIOUS
  <2>4. r.old \in Seq(All) /\ r.new \in Seq(All)
    BY <2>2, <2>3
  <2>5. /\ Range(<<disk[p][i]>>) = {disk[p][i]}
        /\ Range(<<disk[p][i], mark>>) = {disk[p][i], mark}
    BY DEF Range
  <2>6. /\ MarksIn(r.old) \subseteq MarksIn(r.new)
        /\ MarksIn(r.new) \subseteq MarksIn(disk[p]) \cup {mark}
    BY <2>2, <2>3, <2>5 DEF MarksIn
  <2>7. mark \notin placed
    BY <2>1 DEF HistoryTyped
  <2>. HIDE DEF r
  <2>8. /\ MarksIn(r.old) \subseteq known \cup MarksIn(r.new)
        /\ MarksIn(r.new) \cap placed \subseteq known \cup MarksIn(disk[r.path])
    BY <2>3, <2>6, <2>7
  <2>. QED BY <1>1, <1>12, <2>1, <2>3, <2>4, <2>8
<1>18. ASSUME NEW p \in Paths, NEW mark \in Strangers, NEW i \in 1..(Len(disk[p]) + 1),
              Outside(p, i, mark)
       PROVE  MarksKept'
  <2>1. /\ disk' = [disk EXCEPT ![p] = InsertAt(disk[p], i, mark)] /\ mark \notin used.marks
        /\ placed' = placed \cup {mark}
        /\ UNCHANGED <<call, known, raced>>
    BY <1>18 DEF Outside
  <2>2. disk[p] \in Seq(All) /\ mark \in All /\ mark \in Marks
    BY DEF DiskTyped, All, Marks
  <2>3. MarksIn(InsertAt(disk[p], i, mark)) = MarksIn(disk[p]) \cup {mark}
    BY <2>2, RangeInserted DEF MarksIn
  <2>4. \A q \in Paths : MarksIn(disk[q]) \subseteq MarksIn(disk'[q])
    BY <2>1, <2>3 DEF DiskTyped
  <2>5. mark \in MarksIn(disk'[p])
    BY <2>1, <2>3 DEF DiskTyped
  <2>6. CallsKeep'
    <3>1. \A a \in Actors : call[a] # Idle => mark \notin MarksIn(call[a].updated)
      BY <2>1 DEF CallsTyped
    <3>2. \A a \in Actors : call[a] # Idle => CallKeeps(call[a])'
      BY <1>4, <2>1, <3>1 DEF CallKeeps
    <3>. QED BY <1>4, <2>1, <3>2
  <2>7. OnlyRacesLoseText'
    <3>1. SUFFICES ASSUME NEW m \in placed' \ (known' \cup raced')
                   PROVE  Survives(m)'
      BY DEF OnlyRacesLoseText
    <3>2. CASE m = mark
      BY <2>5, <3>2
    <3>3. CASE m # mark
      <4>1. m \in placed \ (known \cup raced)
        BY <2>1, <3>3
      <4>2. Survives(m)
        BY <1>4, <4>1 DEF OnlyRacesLoseText
      <4>. QED BY <2>1, <2>4, <4>2
    <3>. QED BY <3>2, <3>3
  <2>. QED BY <2>6, <2>7 DEF MarksKept
<1>. QED
  BY <1>7, <1>9, <1>10, <1>11, <1>14, <1>15, <1>16, <1>17, <1>18
  DEF FilesNext, User, Agent, Tools, Others

\* Text another writer put into a file is lost to no save and to no edit of the
\* agent but in the races the property names: a call that was let through quotes
\* its file as it was read, so what it writes keeps the marks of that reading,
\* but for those in the text it replaces, which its writer had seen.
THEOREM TextKept == FilesSpec => []OnlyRacesLoseText
<1>1. MarksKept => OnlyRacesLoseText
  BY DEF MarksKept
<1>. QED BY <1>1, FilesTypedAlways, MarksKeptInit, MarksKeptNext, PTL DEF FilesSpec

LEMMA SavesMatchInit == FilesInit => SavesMatch
BY DEF FilesInit, SavesMatch, BufferIsOrigin, SaveIsOfBuffer, FileIsOrigin, NoSlot, Actors

LEMMA SavesMatchNext == FilesTyped /\ SavesMatch /\ [FilesNext]_filesVars => SavesMatch'
<1>. SUFFICES ASSUME FilesTyped, SavesMatch, [FilesNext]_filesVars PROVE SavesMatch'
  OBVIOUS
<1>. USE DEF FilesTyped
<1>1. Idle.stage = "idle" /\ NoSlot.kind = "none" /\ AgentHalf.kind = "agent"
      /\ "ui" \in Actors /\ Actors = {"ui", "agent"}
  BY DEF Idle, NoSlot, AgentHalf, Actors
<1>2. BufferIsOrigin /\ SaveIsOfBuffer /\ FileIsOrigin
  BY DEF SavesMatch
<1>3. /\ call \in [Actors -> {Idle} \cup Calls]
      /\ \A a \in Actors : call[a].stage # "idle" => call[a] # Idle
  BY <1>1 DEF CallsTyped
<1>4. buffer # NoBuffer => InBuffer(buffer, Shown) /\ buffer.path \in Paths
  BY DEF BufferTyped, InBuffer, Buffers
<1>5. ASSUME buffer' = buffer PROVE BufferIsOrigin'
  BY <1>2, <1>5 DEF BufferIsOrigin
<1>6. ASSUME UNCHANGED <<disk, buffer, strayed, touched>>, call'["ui"] = call["ui"] PROVE FileIsOrigin'
  BY <1>2, <1>6 DEF FileIsOrigin
<1>7. ASSUME UNCHANGED <<buffer, strayed, slot, dialog>>, call'["ui"] \in {call["ui"], Idle}
      PROVE  SaveIsOfBuffer'
  BY <1>2, <1>7 DEF SaveIsOfBuffer
<1>8. ASSUME UNCHANGED <<buffer, strayed>>, slot' \in {NoSlot, AgentHalf}, call'["ui"] = call["ui"]
      PROVE  SaveIsOfBuffer'
  BY <1>1, <1>2, <1>8 DEF SaveIsOfBuffer
<1>9. ASSUME UNCHANGED <<disk, buffer, strayed, touched, slot, dialog>>, call'["ui"] = call["ui"]
      PROVE  SavesMatch'
  BY <1>5, <1>6, <1>7, <1>9 DEF SavesMatch
<1>10. ASSUME NEW p \in Paths, OpenEntry(p) PROVE SavesMatch'
  <2>1. /\ UNCHANGED <<disk, dialog, slot, call>> /\ call["ui"] = Idle /\ dialog = "none"
        /\ buffer' = Opened(p, Lossy(disk[p]))
        /\ strayed' = (strayed /\ slot.kind = "save")
    BY <1>10 DEF OpenEntry, Hands, UiFree
  <2>2. /\ buffer'.path = p /\ buffer'.origin = Lossy(disk[p]) /\ ~buffer'.dirty
        /\ buffer'.trailing = EndsLine(buffer'.origin) /\ buffer'.lines = LinesOf(buffer'.origin)
    BY <2>1 DEF Opened
  <2>3. BufferIsOrigin'
    BY <2>2 DEF BufferIsOrigin
  <2>4. SaveIsOfBuffer'
    BY <1>2, <2>1 DEF SaveIsOfBuffer
  <2>5. FileIsOrigin'
    BY <2>1, <2>2 DEF FileIsOrigin
  <2>. QED BY <2>3, <2>4, <2>5 DEF SavesMatch
<1>11. ASSUME EditKey PROVE SavesMatch'
  <2>1. /\ UNCHANGED <<disk, dialog, slot, call, strayed, touched>> /\ call["ui"] = Idle
        /\ dialog = "none" /\ buffer # NoBuffer
    BY <1>11 DEF EditKey, Hands, UiFree, history, BufferTyped
  <2>2. /\ SameFile(buffer, buffer')
        /\ buffer'.dirty \/ (buffer'.lines = buffer.lines /\ buffer'.dirty = buffer.dirty)
    <3>1. InBuffer(buffer, Shown) /\ "x" \in Shown /\ " " \in Shown
      BY <1>4, <2>1, ShownIn DEF HistoryTyped
    <3>2. CASE buffer' \in Edits(buffer)
      <4>1. SameFile(buffer, buffer') /\ (buffer'.dirty \/ buffer' = buffer)
        BY <3>1, <3>2, EditsIn
      <4>. QED BY <4>1
    <3>3. CASE buffer' \in Moves(buffer)
      BY <3>1, <3>3, MovesIn
    <3>4. buffer' \in Edits(buffer) \/ buffer' \in Moves(buffer)
      BY <1>11 DEF EditKey
    <3>. QED BY <3>2, <3>3, <3>4
  <2>3. BufferIsOrigin'
    BY <1>2, <2>1, <2>2 DEF BufferIsOrigin, SameFile
  <2>4. SaveIsOfBuffer'
    BY <1>2, <2>1 DEF SaveIsOfBuffer
  <2>5. FileIsOrigin'
    <3>1. buffer' # NoBuffer => buffer'.path = buffer.path /\ buffer'.origin = buffer.origin
      BY <2>2 DEF SameFile
    <3>2. SUFFICES ASSUME ~strayed, ~touched, buffer' # NoBuffer
                   PROVE  \/ Lossy(disk[buffer'.path]) = buffer'.origin
                          \/ disk[buffer'.path] = <<>> /\ buffer'.dirty
      BY <2>1 DEF FileIsOrigin
    <3>3. \/ Lossy(disk[buffer.path]) = buffer.origin
          \/ disk[buffer.path] = <<>> /\ buffer.dirty
      BY <1>2, <2>1, <3>2 DEF FileIsOrigin
    <3>4. buffer.dirty => buffer'.dirty
      BY <2>2
    <3>. QED BY <3>1, <3>2, <3>3, <3>4
  <2>. QED BY <2>3, <2>4, <2>5 DEF SavesMatch
<1>12. ASSUME NEW actor \in Actors, EmptyFile(actor) PROVE SavesMatch'
  <2>. DEFINE c == call[actor]
              d == [c EXCEPT !.stage = "emptied"]
  <2>1. /\ c.stage = "checked" /\ disk' = [disk EXCEPT ![c.path] = <<>>]
        /\ call' = [call EXCEPT ![actor] = d]
        /\ UNCHANGED <<buffer, dialog, slot, strayed>>
        /\ touched' = (touched \/ (actor # "ui" /\ buffer # NoBuffer /\ buffer.path = c.path))
    BY <1>12 DEF EmptyFile, screenVars, Touch
  <2>2. c \in Calls /\ c # Idle
    BY <1>1, <1>3, <2>1
  <2>3. d.path = c.path /\ d.updated = c.updated /\ d.new = c.new /\ d # Idle
    <3>1. d.stage = "emptied" /\ d.path = c.path /\ d.updated = c.updated /\ d.new = c.new
      BY <2>2 DEF Calls
    <3>. QED BY <1>1, <3>1
  <2>4. call'["ui"] = IF actor = "ui" THEN d ELSE call["ui"]
    BY <1>1, <1>3, <2>1
  <2>5. \A p \in Paths : disk'[p] = IF p = c.path THEN <<>> ELSE disk[p]
    BY <2>1 DEF DiskTyped
  <2>6. actor = "ui" => call["ui"] = c
    OBVIOUS
  <2>. HIDE DEF c, d
  <2>7. SaveIsOfBuffer'
    BY <1>2, <2>1, <2>2, <2>3, <2>4, <2>6 DEF SaveIsOfBuffer
  <2>8. FileIsOrigin'
    <3>1. SUFFICES ASSUME ~strayed, ~touched', buffer # NoBuffer
                   PROVE  /\ \/ Lossy(disk'[buffer.path]) = buffer.origin
                             \/ disk'[buffer.path] = <<>> /\ buffer.dirty
                          /\ call'["ui"] # Idle => call'["ui"].updated = call'["ui"].new
      BY <2>1 DEF FileIsOrigin
    <3>2. ~touched
      BY <2>1, <3>1
    <3>3. /\ \/ Lossy(disk[buffer.path]) = buffer.origin
             \/ disk[buffer.path] = <<>> /\ buffer.dirty
          /\ call["ui"] # Idle => call["ui"].updated = call["ui"].new
      BY <1>2, <3>1, <3>2 DEF FileIsOrigin
    <3>4. CASE actor = "ui"
      <4>1. c.path = buffer.path /\ buffer.dirty
        BY <1>2, <2>2, <2>6, <3>1, <3>4 DEF SaveIsOfBuffer
      <4>2. disk'[buffer.path] = <<>>
        BY <1>4, <2>5, <3>1, <4>1
      <4>. QED BY <2>2, <2>3, <2>4, <2>6, <3>3, <3>4, <4>1, <4>2
    <3>5. CASE actor # "ui"
      <4>1. buffer.path # c.path
        BY <2>1, <3>1, <3>5
      <4>2. disk'[buffer.path] = disk[buffer.path]
        BY <1>4, <2>5, <3>1, <4>1
      <4>. QED BY <2>4, <3>3, <3>5, <4>2
    <3>. QED BY <3>4, <3>5
  <2>. QED BY <1>5, <2>1, <2>7, <2>8 DEF SavesMatch
<1>13. ASSUME NEW actor \in Actors, WriteFile(actor) PROVE SavesMatch'
  <2>. DEFINE c == call[actor]
  <2>1. /\ c.stage = "emptied" /\ disk' = [disk EXCEPT ![c.path] = c.updated]
        /\ call' = [call EXCEPT ![actor] = Idle]
        /\ buffer' = (IF actor = "ui" THEN Confirmed(buffer, c.new) ELSE buffer)
        /\ UNCHANGED <<dialog, slot, strayed>>
        /\ touched' = (touched \/ (actor # "ui" /\ buffer # NoBuffer /\ buffer.path = c.path))
    BY <1>13 DEF WriteFile, Touch
  <2>2. c \in Calls /\ c # Idle
    BY <1>1, <1>3, <2>1
  <2>3. c.path \in Paths
    BY <2>2 DEF Calls
  <2>4. call'["ui"] = IF actor = "ui" THEN Idle ELSE call["ui"]
    BY <1>1, <1>3, <2>1
  <2>5. \A p \in Paths : disk'[p] = IF p = c.path THEN c.updated ELSE disk[p]
    BY <2>1 DEF DiskTyped
  <2>6. actor = "ui" => call["ui"] = c /\ buffer # NoBuffer /\ c.new \in Seq(Shown)
    BY <2>2 DEF CallsTyped
  <2>. HIDE DEF c
  <2>7. CASE actor = "ui"
    <3>1. /\ buffer'.path = buffer.path /\ buffer'.origin = c.new /\ ~buffer'.dirty
          /\ buffer'.trailing = EndsLine(c.new) /\ buffer'.lines = LinesOf(c.new)
      <4>1. InBuffer(buffer, Shown) /\ c.new \in Seq(Shown) /\ buffer' = Confirmed(buffer, c.new)
        BY <1>4, <2>1, <2>6, <2>7
      <4>2. /\ Confirmed(buffer, c.new).path = buffer.path /\ Confirmed(buffer, c.new).origin = c.new
            /\ Confirmed(buffer, c.new).trailing = EndsLine(c.new)
            /\ Confirmed(buffer, c.new).lines = LinesOf(c.new)
            /\ ~Confirmed(buffer, c.new).dirty
        BY <4>1, ConfirmedIn
      <4>. QED BY <4>1, <4>2
    <3>2. BufferIsOrigin'
      BY <3>1 DEF BufferIsOrigin
    <3>3. SaveIsOfBuffer'
      BY <1>2, <2>1, <2>2, <2>4, <2>6, <2>7 DEF SaveIsOfBuffer
    <3>4. FileIsOrigin'
      <4>1. SUFFICES ASSUME ~strayed, ~touched' PROVE Lossy(disk'[buffer'.path]) = buffer'.origin
        BY <2>1, <2>4, <2>7 DEF FileIsOrigin
      <4>2. c.path = buffer.path /\ c.updated = c.new
        BY <1>2, <2>1, <2>2, <2>6, <2>7, <4>1 DEF SaveIsOfBuffer, FileIsOrigin
      <4>3. disk'[buffer'.path] = c.new
        BY <2>3, <2>5, <3>1, <4>2
      <4>4. Lossy(c.new) = c.new
        BY <2>6, <2>7, ShownIn DEF HistoryTyped
      <4>. QED BY <3>1, <4>3, <4>4
    <3>. QED BY <3>2, <3>3, <3>4 DEF SavesMatch
  <2>8. CASE actor # "ui"
    <3>1. buffer' = buffer /\ call'["ui"] = call["ui"]
      BY <2>1, <2>4, <2>8
    <3>2. FileIsOrigin'
      <4>1. SUFFICES ASSUME ~strayed, ~touched', buffer # NoBuffer
                     PROVE  /\ \/ Lossy(disk'[buffer.path]) = buffer.origin
                               \/ disk'[buffer.path] = <<>> /\ buffer.dirty
                            /\ call["ui"] # Idle => call["ui"].updated = call["ui"].new
        BY <2>1, <3>1 DEF FileIsOrigin
      <4>2. ~touched /\ buffer.path # c.path
        BY <2>1, <2>8, <4>1
      <4>3. disk'[buffer.path] = disk[buffer.path]
        BY <1>4, <2>5, <4>1, <4>2
      <4>. QED BY <1>2, <4>1, <4>2, <4>3 DEF FileIsOrigin
    <3>. QED BY <1>5, <1>7, <2>1, <3>1, <3>2 DEF SavesMatch
  <2>. QED BY <2>7, <2>8
<1>14. ASSUME NEW actor \in Actors, WriteFails(actor) PROVE SavesMatch'
  <2>1. /\ call' = [call EXCEPT ![actor] = Idle]
        /\ UNCHANGED <<disk, buffer, dialog, slot, touched, strayed>>
    BY <1>14 DEF WriteFails, screenVars
  <2>2. call'["ui"] = IF actor = "ui" THEN Idle ELSE call["ui"]
    BY <1>1, <1>3, <2>1
  <2>3. FileIsOrigin'
    BY <1>2, <2>1, <2>2 DEF FileIsOrigin
  <2>4. call'["ui"] \in {call["ui"], Idle}
    BY <2>2
  <2>. QED BY <1>5, <1>7, <2>1, <2>3, <2>4 DEF SavesMatch
<1>15. ASSUME SaveAsks PROVE SavesMatch'
  <2>1. /\ buffer # NoBuffer /\ dialog' = "save" /\ slot' = SaveRequest /\ call["ui"] = Idle
        /\ buffer.dirty /\ UNCHANGED <<disk, buffer, call, touched, strayed>>
    BY <1>15 DEF SaveAsks, Hands, UiFree, history, BufferTyped
  <2>2. SaveIsOfBuffer'
    BY <2>1, SaveRequestOf DEF SaveIsOfBuffer
  <2>. QED BY <1>5, <1>6, <2>1, <2>2 DEF SavesMatch
<1>16. ASSUME UNCHANGED <<disk, buffer, strayed, touched>>, slot' = NoSlot, call["ui"] = Idle,
              buffer # NoBuffer, NEW r \in Requests(Shown), StartEdit("ui", r),
              ~strayed => r.path = buffer.path /\ r.old = buffer.origin /\ buffer.dirty
       PROVE  SavesMatch'
  <2>1. CASE call' = call
    BY <1>5, <1>6, <1>8, <1>16, <2>1 DEF SavesMatch
  <2>2. CASE Editable(r) /\ Begun(r) # Idle /\ call'["ui"] = Begun(r)
    <3>1. r.path \in Paths /\ r.old \in Seq(All) /\ r.new \in Seq(All)
      <4>1. r.path \in Paths /\ r.old \in Seq(Shown) /\ r.new \in Seq(Shown)
        BY DEF Requests
      <4>. QED BY <4>1, ShownIn DEF HistoryTyped
    <3>2. Begun(r).path = r.path /\ Begun(r).updated = Updated(r) /\ Begun(r).new = r.new
      BY DEF Begun
    <3>3. SaveIsOfBuffer'
      BY <1>1, <1>16, <2>2, <3>2 DEF SaveIsOfBuffer
    <3>4. disk[r.path] # <<>> /\ (Lossy(disk[r.path]) = r.old => Updated(r) = r.new)
      BY <2>2, <3>1, UpdatedOf
    <3>5. FileIsOrigin'
      <4>1. SUFFICES ASSUME ~strayed, ~touched
                     PROVE  /\ \/ Lossy(disk[buffer.path]) = buffer.origin
                               \/ disk[buffer.path] = <<>> /\ buffer.dirty
                            /\ Updated(r) = r.new
        BY <1>16, <2>2, <3>2 DEF FileIsOrigin
      <4>2. \/ Lossy(disk[buffer.path]) = buffer.origin
            \/ disk[buffer.path] = <<>> /\ buffer.dirty
        BY <1>2, <1>16, <4>1 DEF FileIsOrigin
      <4>. QED BY <1>16, <3>4, <4>1, <4>2
    <3>. QED BY <1>5, <1>16, <3>3, <3>5 DEF SavesMatch
  <2>3. r.path \in Paths /\ r.old \in Seq(All) /\ r.new \in Seq(All)
    <3>1. r.path \in Paths /\ r.old \in Seq(Shown) /\ r.new \in Seq(Shown)
      BY DEF Requests
    <3>. QED BY <3>1, ShownIn DEF HistoryTyped
  <2>. QED BY <1>1, <1>16, <2>1, <2>2, <2>3, Started
<1>17. ASSUME SaveRuns PROVE SavesMatch'
  <2>1. /\ buffer # NoBuffer /\ StartEdit("ui", SaveRequest) /\ call["ui"] = Idle /\ slot' = NoSlot
        /\ buffer.dirty /\ UNCHANGED <<disk, buffer, touched, strayed>>
    BY <1>17 DEF SaveRuns, Hands, UiFree, history, BufferTyped
  <2>2. /\ SaveRequest \in Requests(Shown)
        /\ SaveRequest.path = buffer.path /\ SaveRequest.old = buffer.origin
    BY <2>1, SaveRequestOf
  <2>. QED BY <1>16, <2>1, <2>2
<1>18. ASSUME NEW allowed \in BOOLEAN, Answer(allowed) PROVE SavesMatch'
  <2>1. /\ IF slot.kind = "save" /\ allowed THEN StartEdit("ui", slot) ELSE call' = call
        /\ call["ui"] = Idle /\ slot' = NoSlot /\ UNCHANGED <<disk, buffer, touched, strayed>>
    BY <1>18 DEF Answer, UiFree, history
  <2>2. CASE call' = call
    BY <1>5, <1>6, <1>8, <2>1, <2>2 DEF SavesMatch
  <2>3. CASE slot.kind = "save" /\ StartEdit("ui", slot)
    <3>1. slot \in Requests(Shown) /\ buffer # NoBuffer
      BY <2>3 DEF SlotTyped, NoSlot, AgentHalf
    <3>2. ~strayed => slot.path = buffer.path /\ slot.old = buffer.origin /\ buffer.dirty
      BY <1>2, <2>3 DEF SaveIsOfBuffer
    <3>. QED BY <1>16, <2>1, <2>3, <3>1, <3>2
  <2>. QED BY <2>1, <2>2, <2>3
<1>19. ASSUME FoldRequest PROVE SavesMatch'
  <2>1. dialog' = "agent" /\ UNCHANGED <<disk, buffer, slot, call, touched, strayed>>
    BY <1>19 DEF FoldRequest, history
  <2>2. SaveIsOfBuffer'
    BY <1>2, <2>1 DEF SaveIsOfBuffer
  <2>. QED BY <1>5, <1>6, <2>1, <2>2 DEF SavesMatch
<1>20. ASSUME TakeHalf PROVE SavesMatch'
  <2>1. slot' = AgentHalf /\ UNCHANGED <<disk, buffer, dialog, call, touched, strayed>>
    BY <1>20 DEF TakeHalf, history
  <2>. QED BY <1>5, <1>6, <1>8, <2>1 DEF SavesMatch
<1>21. ASSUME FoldResolved PROVE SavesMatch'
  <2>1. /\ dialog' = "none" /\ UNCHANGED <<disk, buffer, slot, call, touched>> /\ call["ui"] = Idle
        /\ strayed' = (strayed \/ (slot.kind = "save" /\ dialog # "none"))
    BY <1>21 DEF FoldResolved, UiFree
  <2>2. ~strayed' => ~strayed /\ slot.kind # "save"
    BY <1>2, <2>1 DEF SaveIsOfBuffer
  <2>3. SaveIsOfBuffer'
    BY <2>1, <2>2 DEF SaveIsOfBuffer
  <2>4. FileIsOrigin'
    BY <1>2, <2>1, <2>2 DEF FileIsOrigin
  <2>. QED BY <1>5, <2>1, <2>3, <2>4 DEF SavesMatch
<1>22. ASSUME NEW p \in Paths, NEW mark \in AgentMarks, NEW i \in DOMAIN disk[p],
              AgentEdits(p, i, mark)
       PROVE  SavesMatch'
  <2>1. UNCHANGED <<disk, buffer, slot, dialog, touched, strayed>>
    BY <1>22 DEF AgentEdits, screenVars, history
  <2>2. call'["ui"] = call["ui"]
    <3>1. \E r : StartEdit("agent", r)
      BY <1>22 DEF AgentEdits
    <3>. QED BY <1>1, <1>3, <3>1 DEF StartEdit
  <2>. QED BY <1>9, <2>1, <2>2
<1>23. ASSUME NEW p \in Paths, NEW mark \in Strangers, NEW i \in 1..(Len(disk[p]) + 1),
              Outside(p, i, mark)
       PROVE  SavesMatch'
  <2>1. /\ disk' = [disk EXCEPT ![p] = InsertAt(disk[p], i, mark)]
        /\ UNCHANGED <<buffer, slot, dialog, call, strayed>>
        /\ touched' = (touched \/ (buffer # NoBuffer /\ buffer.path = p))
    BY <1>23 DEF Outside, screenVars, Touch
  <2>2. FileIsOrigin'
    <3>1. SUFFICES ASSUME ~strayed, ~touched', buffer # NoBuffer
                   PROVE  /\ \/ Lossy(disk'[buffer.path]) = buffer.origin
                             \/ disk'[buffer.path] = <<>> /\ buffer.dirty
                          /\ call["ui"] # Idle => call["ui"].updated = call["ui"].new
      BY <2>1 DEF FileIsOrigin
    <3>2. ~touched /\ buffer.path # p
      BY <2>1, <3>1
    <3>3. disk'[buffer.path] = disk[buffer.path]
      BY <1>4, <2>1, <3>1, <3>2 DEF DiskTyped
    <3>. QED BY <1>2, <3>1, <3>2, <3>3 DEF FileIsOrigin
  <2>. QED BY <1>5, <1>7, <2>1, <2>2 DEF SavesMatch
<1>24. ASSUME ToggleEdit \/ AgentAsks \/ AgentGivesUp \/ UNCHANGED filesVars PROVE SavesMatch'
  <2>1. UNCHANGED <<disk, buffer, slot, dialog, call, touched, strayed>>
    BY <1>24 DEF ToggleEdit, AgentAsks, AgentGivesUp, filesVars, screenVars, history
  <2>. QED BY <1>9, <2>1
<1>. QED
  BY <1>10, <1>11, <1>12, <1>13, <1>14, <1>15, <1>17, <1>18, <1>19, <1>20, <1>21, <1>22, <1>23, <1>24
  DEF FilesNext, User, Agent, Tools, Others

\* A buffer that says it has no changes holds the file: its lines are its origin
\* cut at the line ends, which joined again are that text with other ends, and
\* its origin is what the file was read as or what a save left in it.
THEOREM CleanSaved == FilesSpec => []CleanMeansSaved
<1>1. FilesTyped /\ SavesMatch => CleanMeansSaved
  <2>1. SUFFICES ASSUME FilesTyped, SavesMatch, buffer # NoBuffer, ~buffer.dirty, ~touched, ~strayed
                 PROVE  Unix(Lossy(disk[buffer.path])) = EditText(buffer)
    BY DEF CleanMeansSaved
  <2>2. buffer.origin \in Seq(Shown)
    BY <2>1, SaveRequestOf
  <2>3. "lf" \in Shown
    BY <2>1, ShownIn DEF FilesTyped, HistoryTyped
  <2>4. buffer.lines = LinesOf(buffer.origin) /\ buffer.trailing = EndsLine(buffer.origin)
    BY <2>1 DEF SavesMatch, BufferIsOrigin
  <2>5. EditText(buffer) = Unix(buffer.origin)
    BY <2>2, <2>3, <2>4, RoundTrip
  <2>6. Lossy(disk[buffer.path]) = buffer.origin
    BY <2>1 DEF SavesMatch, FileIsOrigin
  <2>. QED BY <2>5, <2>6
<1>. QED BY <1>1, FilesTypedAlways, SavesMatchInit, SavesMatchNext, PTL DEF FilesSpec

-----------------------------------------------------------------------------
(* The interface: highlights, the listing and what a click acts on.        *)
Entries == [name : STRING, isDir : BOOLEAN]
StepItems == [expanded : BOOLEAN]

ExplorerInv ==
  files \in Seq(Entries) /\ index \in 0..Minus(Rows, 1) /\ ListingIsOfItsDirectory

PaletteInv ==
  palette # NoPalette =>
    palette \in [query : DOMAIN Matching, row : 0..Minus(Len(Matched), 1)]

OtherInv ==
  existing \subseteq DOMAIN Contents /\ tasks \in Seq(StepItems) /\ asking \in BOOLEAN

ScreenInv == ExplorerInv /\ PaletteInv /\ OtherInv

(* Listing a directory loses entries and invents none.                     *)
LEMMA Listed ==
  ASSUME NEW d \in DOMAIN Contents
  PROVE  Listing(d) \in Seq(Entries) /\ Range(Listing(d)) \subseteq Range(Contents[d])
<1>. DEFINE all == Contents[d]
            S == Range(all)
            Kept(i) == LET e == all[i]
                       IN  IF e.isDir /\ Append(d, e.name) \notin existing THEN <<>> ELSE <<e>>
            seqs == [i \in DOMAIN all |-> Kept(i)]
<1>1. all \in Seq(Entries)
  BY ScreenAssumption DEF Entries
<1>2. S \subseteq Entries /\ \A i \in DOMAIN all : all[i] \in S
  BY <1>1, ElementOfSeq DEF Range
<1>3. DOMAIN all = 1..Len(all) /\ Len(all) \in Nat
  BY <1>1
<1>4. Listing(d) = FlattenSeq(seqs)
  BY DEF Listing
<1>. HIDE DEF S, all
<1>5. \A i \in DOMAIN all : Kept(i) \in Seq(S)
  BY <1>2
<1>. HIDE DEF Kept
<1>6. seqs \in Seq(Seq(S)) /\ Len(seqs) = Len(all)
  <2>1. seqs \in [1..Len(all) -> Seq(S)]
    BY <1>3, <1>5
  <2>. HIDE DEF seqs
  <2>. QED BY <1>3, <2>1
<1>. HIDE DEF seqs
<1>7. FlattenSeq(seqs) \in Seq(S)
  <2>1. CASE Len(seqs) = 0
    <3>1. FlattenSeq(seqs) = seqs
      BY <2>1 DEF FlattenSeq
    <3>2. seqs = <<>>
      BY <1>6, <2>1
    <3>. QED BY <3>1, <3>2
  <2>2. CASE Len(seqs) # 0
    <3>1. Len(seqs) > 0 /\ Len(seqs) \in Nat /\ Len(seqs) \in 1..Len(seqs)
      BY <1>3, <1>6, <2>2
    <3>2. PICK f \in [1..Len(seqs) -> Seq(S)] : FlattenSeq(seqs) = f[Len(seqs)]
      BY <1>6, <3>1, Flattened
    <3>. QED BY <3>1, <3>2
  <2>. QED BY <2>1, <2>2
<1>8. Listing(d) \in Seq(S)
  BY <1>4, <1>7
<1>9. Listing(d) \in Seq(Entries)
  BY <1>2, <1>8
<1>10. Range(Listing(d)) \subseteq S
  BY <1>8, ElementOfSeq DEF Range
<1>. QED BY <1>9, <1>10 DEF S, all

LEMMA Numbers ==
  ASSUME NEW i \in Nat, NEW n \in Nat
  PROVE  /\ ClampTo(i, n) \in 0..Minus(n, 1)
         /\ Minus(i, 1) \in Nat /\ Minus(i, 1) <= i
         /\ i \in 0..Minus(n, 1) => Minus(i, 1) \in 0..Minus(n, 1)
         /\ i \in 0..(n - 1) => i \in 0..Minus(n, 1)
BY DEF ClampTo, Minus, Smaller

(* List leaves the highlight on a row and the listing under its name.      *)
LEMMA ListInv ==
  ASSUME ScreenInv, NEW d, NEW at \in Nat, List(d, at)
  PROVE  ExplorerInv'
<1>1. files' \in Seq(Entries)
  BY Listed DEF List, ScreenInv, ExplorerInv, OtherInv
<1>2. Rows' = Len(files') + (IF d = <<>> THEN 0 ELSE 1) /\ Rows' \in Nat
  <2>1. Len(files') \in Nat
    BY <1>1
  <2>2. dir' = d
    BY DEF List
  <2>. QED BY <2>1, <2>2 DEF Rows, Above, HasParent
<1>3. index' \in 0..Minus(Rows', 1)
  <2>1. index' = ClampTo(at, Rows')
    BY <1>2 DEF List
  <2>. QED BY <1>2, <2>1, Numbers
<1>4. ListingIsOfItsDirectory'
  <2>1. SUFFICES ASSUME ~unlisted'
                 PROVE  dir' \in DOMAIN Contents /\ Range(files') \subseteq Range(Contents[dir'])
    BY DEF ListingIsOfItsDirectory
  <2>2. d \in existing /\ dir' = d /\ files' = Listing(d)
    BY <2>1 DEF List
  <2>. QED BY <2>2, Listed DEF ScreenInv, OtherInv
<1>. QED BY <1>1, <1>3, <1>4 DEF ExplorerInv

LEMMA ExplorerKept ==
  ASSUME ExplorerInv, UNCHANGED explorerVars
  PROVE  ExplorerInv'
BY DEF ExplorerInv, explorerVars, Rows, Above, HasParent, ListingIsOfItsDirectory

LEMMA RowsNat == ExplorerInv => Rows \in Nat /\ index \in Nat
<1>. SUFFICES ASSUME ExplorerInv PROVE Rows \in Nat /\ index \in Nat
  OBVIOUS
<1>1. Len(files) \in Nat
  BY DEF ExplorerInv
<1>2. Rows \in Nat
  BY <1>1 DEF Rows, Above
<1>. QED BY <1>2 DEF ExplorerInv, Minus

(* Moving the highlight onto a row that is there.                          *)
LEMMA HighlightMoved ==
  ASSUME ExplorerInv, index' \in 0..Minus(Rows, 1), UNCHANGED <<dir, files, unlisted>>
  PROVE  ExplorerInv'
BY DEF ExplorerInv, Rows, Above, HasParent, ListingIsOfItsDirectory

LEMMA EnterInv ==
  ASSUME ScreenInv, NEW row \in 0..Minus(Rows, 1), Enter(row)
  PROVE  ExplorerInv'
<1>. DEFINE i == row - Above + 1
<1>1. CASE \E d : ChangeDir(d)
  BY <1>1, ListInv DEF ChangeDir
<1>2. CASE index' = row /\ UNCHANGED <<dir, files, unlisted>>
  BY <1>2, HighlightMoved DEF ScreenInv
<1>3. \/ ChangeDir(Front(dir)) \/ ChangeDir(Append(dir, files[i].name))
      \/ index' = row /\ UNCHANGED <<dir, files, unlisted>>
  BY DEF Enter
<1>. QED BY <1>1, <1>2, <1>3

(* A command is run on whatever is there when it is chosen.                *)
LEMMA ApplyInv ==
  ASSUME ScreenInv, NEW command, Apply(command)
  PROVE  ExplorerInv' /\ OtherInv'
<1>1. ExplorerInv'
  <2>1. CASE List(dir, index)
    BY <2>1, ListInv, RowsNat DEF ScreenInv
  <2>2. CASE UNCHANGED explorerVars
    BY <2>2, ExplorerKept DEF ScreenInv
  <2>. QED BY <2>1, <2>2 DEF Apply
<1>2. OtherInv'
  BY DEF Apply, ScreenInv, OtherInv, taskVars
<1>. QED BY <1>1, <1>2

LEMMA PaletteKept ==
  ASSUME PaletteInv, palette' = palette \/ palette' = NoPalette
  PROVE  PaletteInv'
BY DEF PaletteInv, Matched

(* The first match is a row, and so is whichever row the arrows reach.     *)
LEMMA MatchRows ==
  ASSUME NEW query \in DOMAIN Matching
  PROVE  /\ Len(Matching[query]) \in Nat
         /\ 0 \in 0..Minus(Len(Matching[query]), 1)
         /\ Matching[query] = <<>> <=> Len(Matching[query]) = 0
         /\ Matching[query] # <<>> =>
              \A r \in Int : r % Len(Matching[query]) \in 0..Minus(Len(Matching[query]), 1)
<1>. DEFINE s == Matching[query]
            n == Len(s)
<1>1. s \in Seq(STRING)
  BY ScreenAssumption
<1>2. n \in Nat /\ (s = <<>> <=> n = 0)
  BY <1>1
<1>. HIDE DEF n
<1>3. 0 \in 0..Minus(n, 1)
  BY <1>2 DEF Minus
<1>4. ASSUME n # 0, NEW r \in Int PROVE r % n \in 0..Minus(n, 1)
  <2>1. n - 1 = Minus(n, 1)
    BY <1>2, <1>4 DEF Minus
  <2>2. r % n \in 0..(n - 1)
    BY <1>2, <1>4
  <2>. QED BY <2>1, <2>2
<1>. QED BY <1>2, <1>3, <1>4 DEF n

LEMMA PaletteKeysInv ==
  ASSUME ScreenInv,
         \/ OpenPalette
         \/ \E delta \in {-1, 1} : PaletteMoves(delta)
         \/ \E query \in DOMAIN Matching : PaletteTypes(query)
  PROVE  PaletteInv'
<1>1. CASE OpenPalette
  <2>1. palette' = [query |-> "", row |-> 0] /\ "" \in DOMAIN Matching
    BY <1>1, ScreenAssumption DEF OpenPalette
  <2>. QED BY <2>1, MatchRows DEF PaletteInv, Matched
<1>2. ASSUME NEW delta \in {-1, 1}, PaletteMoves(delta) PROVE PaletteInv'
  <2>. DEFINE n == Len(Matched)
  <2>1. palette \in [query : DOMAIN Matching, row : 0..Minus(n, 1)]
    BY <1>2 DEF PaletteMoves, ScreenInv, PaletteInv
  <2>2. palette.query \in DOMAIN Matching /\ palette.row \in 0..Minus(n, 1)
    BY <2>1
  <2>3. n \in Nat
    BY <2>2, MatchRows DEF Matched
  <2>4. palette.row + delta \in Int
    BY <2>2, <2>3 DEF Minus
  <2>5. (IF Matched = <<>> THEN 0 ELSE (palette.row + delta) % n) \in 0..Minus(n, 1)
    BY <2>2, <2>4, MatchRows DEF Matched
  <2>6. palette' = [palette EXCEPT !.row = IF Matched = <<>> THEN 0 ELSE (@ + delta) % n]
    BY <1>2 DEF PaletteMoves
  <2>. DEFINE r == IF Matched = <<>> THEN 0 ELSE (palette.row + delta) % n
  <2>7. palette' = [palette EXCEPT !.row = r]
    BY <2>6
  <2>8. r \in 0..Minus(n, 1)
    BY <2>5
  <2>. HIDE DEF r, n
  <2>9. palette' \in [query : DOMAIN Matching, row : 0..Minus(n, 1)] /\ palette'.query = palette.query
    BY <2>1, <2>7, <2>8
  <2>10. n = Len(Matched')
    BY <2>9 DEF n, Matched
  <2>. QED BY <2>9, <2>10 DEF PaletteInv
<1>3. ASSUME NEW query \in DOMAIN Matching, PaletteTypes(query) PROVE PaletteInv'
  <2>1. palette' = [query |-> query, row |-> 0]
    BY <1>3 DEF PaletteTypes
  <2>. QED BY <2>1, MatchRows DEF PaletteInv, Matched
<1>. QED BY <1>1, <1>2, <1>3

(* A click on the explorer enters a row that is there.                     *)
LEMMA HitRow ==
  ASSUME ScreenInv, NEW x, NEW y \in Int, Hit(x, y).kind = "entry"
  PROVE  Hit(x, y).row \in 0..Minus(Rows, 1)
<1>1. Nothing.kind # "entry"
  BY DEF Nothing
<1>2. ASSUME NEW h, h = CommandAt(x, y) PROVE h.kind # "entry"
  BY <1>1, <1>2 DEF CommandAt
<1>3. ASSUME NEW h, h = TabAt(x) PROVE h.kind # "entry"
  BY <1>1, <1>3 DEF TabAt
<1>4. ASSUME NEW h, h = TaskAt(y) PROVE h.kind # "entry"
  BY <1>1, <1>4 DEF TaskAt
<1>5. Hit(x, y) = EntryAt(x, y)
  BY <1>1, <1>2, <1>3, <1>4 DEF Hit
<1>6. EntryAt(x, y).row \in 0..(Rows - 1)
  BY <1>1, <1>5 DEF EntryAt
<1>7. Rows \in Nat
  BY RowsNat DEF ScreenInv
<1>. QED BY <1>5, <1>6, <1>7, Numbers

LEMMA ToggleTaskTyped ==
  ASSUME tasks \in Seq(StepItems), NEW at, ToggleTask(at)
  PROVE  tasks' \in Seq(StepItems)
<1>. DEFINE i == ClampTo(at, Len(tasks)) + 1
<1>1. CASE tasks = <<>>
  BY <1>1 DEF ToggleTask
<1>2. CASE tasks # <<>>
  <2>1. tasks' = [tasks EXCEPT ![i] = [tasks[i] EXCEPT !.expanded = ~tasks[i].expanded]]
    BY <1>2 DEF ToggleTask
  <2>. HIDE DEF i
  <2>2. DOMAIN tasks' = 1..Len(tasks) /\ Len(tasks) \in Nat
    BY <2>1
  <2>3. ASSUME NEW k \in 1..Len(tasks) PROVE tasks'[k] \in StepItems
    <3>1. tasks[k] \in StepItems
      BY ElementOfSeq
    <3>2. CASE k = i
      <4>1. tasks'[k] = [tasks[k] EXCEPT !.expanded = ~tasks[k].expanded]
        BY <2>1, <3>2
      <4>. QED BY <3>1, <4>1 DEF StepItems
    <3>3. CASE k # i
      BY <2>1, <3>1, <3>3
    <3>. QED BY <3>2, <3>3
  <2>4. tasks' = [k \in 1..Len(tasks) |-> tasks'[k]]
    BY <2>1, <2>2
  <2>. QED BY <2>2, <2>3, <2>4
<1>. QED BY <1>1, <1>2

LEMMA SubmitInv == ASSUME ScreenInv, Submit PROVE ScreenInv'
<1>1. ExplorerInv'
  <2>1. CASE Enter(index)
    BY <2>1, EnterInv DEF ScreenInv, ExplorerInv
  <2>2. CASE UNCHANGED explorerVars
    BY <2>2, ExplorerKept DEF ScreenInv
  <2>. QED BY <2>1, <2>2 DEF Submit
<1>2. tasks' \in Seq(StepItems)
  BY ToggleTaskTyped DEF ScreenInv, OtherInv, Submit, taskVars
<1>3. PaletteInv'
  BY PaletteKept DEF ScreenInv, Submit
<1>. QED BY <1>1, <1>2, <1>3 DEF ScreenInv, OtherInv, Submit

LEMMA ClickInv ==
  ASSUME ScreenInv, NEW x, NEW y \in Int, ClickPanel(x, y) \/ ClickPalette(x, y)
  PROVE  ScreenInv'
<1>1. CASE ClickPanel(x, y)
  <2>1. ExplorerInv'
    <3>1. CASE Hit(x, y).kind = "entry" /\ Enter(Hit(x, y).row)
      BY <3>1, HitRow, EnterInv
    <3>2. CASE UNCHANGED explorerVars
      BY <3>2, ExplorerKept DEF ScreenInv
    <3>. QED BY <1>1, <3>1, <3>2 DEF ClickPanel
  <2>2. tasks' \in Seq(StepItems)
    BY <1>1, ToggleTaskTyped DEF ScreenInv, OtherInv, ClickPanel, taskVars
  <2>3. PaletteInv'
    BY <1>1, PaletteKept DEF ScreenInv, ClickPanel
  <2>. QED BY <1>1, <2>1, <2>2, <2>3 DEF ScreenInv, OtherInv, ClickPanel
<1>2. CASE ClickPalette(x, y)
  <2>1. PaletteInv'
    BY <1>2, PaletteKept DEF ScreenInv, ClickPalette
  <2>2. CASE Apply(Hit(x, y).command)
    BY <2>1, <2>2, ApplyInv DEF ScreenInv
  <2>3. CASE UNCHANGED <<explorerVars, taskVars, asking, existing>>
    <3>1. ExplorerInv'
      BY <2>3, ExplorerKept DEF ScreenInv
    <3>. QED BY <2>1, <2>3, <3>1 DEF ScreenInv, OtherInv, taskVars
  <2>. QED BY <1>2, <2>2, <2>3 DEF ClickPalette
<1>. QED BY <1>1, <1>2

LEMMA MoveInv ==
  ASSUME ScreenInv, NEW delta \in {-1, 1}, Move(delta)
  PROVE  ScreenInv'
<1>1. Rows \in Nat /\ index \in Nat /\ index \in 0..Minus(Rows, 1)
  BY RowsNat DEF ScreenInv, ExplorerInv
<1>2. index' \in {index, Minus(index, 1), ClampTo(index + 1, Rows)}
  BY DEF Move
<1>3. index' \in 0..Minus(Rows, 1)
  <2>1. Minus(index, 1) \in 0..Minus(Rows, 1)
    BY <1>1, Numbers
  <2>2. index + 1 \in Nat
    BY <1>1
  <2>3. ClampTo(index + 1, Rows) \in 0..Minus(Rows, 1)
    BY <1>1, <2>2, Numbers
  <2>. QED BY <1>1, <1>2, <2>1, <2>3
<1>4. ExplorerInv'
  BY <1>3, HighlightMoved DEF Move, ScreenInv
<1>5. PaletteInv'
  BY PaletteKept DEF ScreenInv, Move
<1>. QED BY <1>4, <1>5 DEF ScreenInv, OtherInv, Move

LEMMA KeysInv == ASSUME ScreenInv, Keys PROVE ScreenInv'
<1>1. CASE \/ OpenPalette
           \/ \E delta \in {-1, 1} : PaletteMoves(delta)
           \/ \E query \in DOMAIN Matching : PaletteTypes(query)
  <2>1. PaletteInv'
    BY <1>1, PaletteKeysInv
  <2>2. UNCHANGED <<explorerVars, taskVars, asking, existing>>
    BY <1>1 DEF OpenPalette, PaletteMoves, PaletteTypes
  <2>3. ExplorerInv'
    BY <2>2, ExplorerKept DEF ScreenInv
  <2>. QED BY <2>1, <2>2, <2>3 DEF ScreenInv, OtherInv, taskVars
<1>2. CASE PaletteCloses \/ AnswerQuestion \/ Shortcut
  <2>1. ExplorerInv'
    BY <1>2, ExplorerKept DEF ScreenInv, PaletteCloses, AnswerQuestion, Shortcut
  <2>2. PaletteInv'
    BY <1>2, PaletteKept DEF ScreenInv, PaletteCloses, AnswerQuestion, Shortcut
  <2>. QED BY <1>2, <2>1, <2>2
           DEF ScreenInv, OtherInv, taskVars, PaletteCloses, AnswerQuestion, Shortcut
<1>3. CASE PaletteEnter
  <2>1. PaletteInv'
    BY <1>3, PaletteKept DEF ScreenInv, PaletteEnter
  <2>2. CASE \E command : Apply(command)
    BY <2>1, <2>2, ApplyInv DEF ScreenInv
  <2>3. CASE UNCHANGED <<explorerVars, taskVars, asking, existing>>
    <3>1. ExplorerInv'
      BY <2>3, ExplorerKept DEF ScreenInv
    <3>. QED BY <2>1, <2>3, <3>1 DEF ScreenInv, OtherInv, taskVars
  <2>. QED BY <1>3, <2>2, <2>3 DEF PaletteEnter
<1>4. CASE \E delta \in {-1, 1} : Arrow(delta) \/ Wheel(delta)
  BY <1>4, MoveInv DEF Arrow, Wheel
<1>5. CASE Submit
  BY <1>5, SubmitInv
<1>. QED BY <1>1, <1>2, <1>3, <1>4, <1>5 DEF Keys

LEMMA EventsInv == ASSUME ScreenInv, Events PROVE ScreenInv'
<1>1. PaletteInv'
  BY PaletteKept DEF ScreenInv, Events, StepEvent, QuestionEvent, FinishedEvent, DirsChange
<1>2. ExplorerInv'
  <2>1. CASE FinishedEvent
    BY <2>1, ListInv, RowsNat DEF FinishedEvent, ScreenInv
  <2>2. CASE UNCHANGED explorerVars
    BY <2>2, ExplorerKept DEF ScreenInv
  <2>. QED BY <2>1, <2>2 DEF Events, StepEvent, QuestionEvent, DirsChange
<1>3. tasks' \in Seq(StepItems)
  <2>1. [expanded |-> FALSE] \in StepItems
    BY DEF StepItems
  <2>2. tasks \in Seq(StepItems)
    BY DEF ScreenInv, OtherInv
  <2>3. Append(tasks, [expanded |-> FALSE]) \in Seq(StepItems) /\ <<>> \in Seq(StepItems)
    BY <2>1, <2>2
  <2>4. tasks' \in {tasks, <<>>, Append(tasks, [expanded |-> FALSE])}
    BY DEF Events, StepEvent, QuestionEvent, FinishedEvent, DirsChange, taskVars
  <2>. QED BY <2>2, <2>3, <2>4
<1>4. existing' \subseteq DOMAIN Contents /\ asking' \in BOOLEAN
  BY DEF Events, StepEvent, QuestionEvent, FinishedEvent, DirsChange, ScreenInv, OtherInv
<1>. QED BY <1>1, <1>2, <1>3, <1>4 DEF ScreenInv, OtherInv

LEMMA ScreenInvInit == ScreenInit => ScreenInv
<1>. SUFFICES ASSUME ScreenInit PROVE ScreenInv
  OBVIOUS
<1>. USE DEF ScreenInit
<1>1. <<>> \in DOMAIN Contents
  BY ScreenAssumption
<1>2. files \in Seq(Entries) /\ Range(files) \subseteq Range(Contents[<<>>])
  BY <1>1, Listed
<1>3. index \in 0..Minus(Rows, 1)
  <2>1. Len(files) \in Nat
    BY <1>2
  <2>. QED BY <2>1 DEF Rows, Above, Minus
<1>4. ExplorerInv
  BY <1>1, <1>2, <1>3 DEF ExplorerInv, ListingIsOfItsDirectory
<1>5. PaletteInv
  BY DEF PaletteInv
<1>6. OtherInv
  <2>1. existing \subseteq DOMAIN Contents
    OBVIOUS
  <2>2. tasks \in Seq(StepItems)
    OBVIOUS
  <2>3. asking \in BOOLEAN
    OBVIOUS
  <2>. QED BY <2>1, <2>2, <2>3 DEF OtherInv
<1>. QED BY <1>4, <1>5, <1>6 DEF ScreenInv

LEMMA ScreenInvNext == ScreenInv /\ [ScreenNext]_terminalVars => ScreenInv'
<1>. SUFFICES ASSUME ScreenInv, [ScreenNext]_terminalVars PROVE ScreenInv'
  OBVIOUS
<1>1. CASE Keys
  BY <1>1, KeysInv
<1>2. CASE Clicks
  <2>1. Height \in Nat
    BY ScreenAssumption
  <2>. QED BY <1>2, <2>1, ClickInv DEF Clicks
<1>3. CASE Events
  BY <1>3, EventsInv
<1>4. CASE UNCHANGED terminalVars
  <2>1. ExplorerInv' /\ PaletteInv'
    BY <1>4, ExplorerKept, PaletteKept DEF terminalVars, ScreenInv
  <2>. QED BY <1>4, <2>1 DEF ScreenInv, OtherInv, terminalVars, taskVars
<1>. QED BY <1>1, <1>2, <1>3, <1>4 DEF ScreenNext

LEMMA ScreenInvAlways == ScreenSpec => []ScreenInv
BY ScreenInvInit, ScreenInvNext, PTL DEF ScreenSpec

(* The names shown under a directory are names in it, whatever removes and *)
(* restores directories, unless the last listing failed (refresh_files).   *)
THEOREM ListingNamed == ScreenSpec => []ListingIsOfItsDirectory
<1>1. ScreenInv => ListingIsOfItsDirectory
  BY DEF ScreenInv, ExplorerInv
<1>. QED BY <1>1, ScreenInvAlways, PTL

(* The highlight of the explorer and of the palette is on a row after      *)
(* every key, click, listing and query, so the subtraction of the parent's *)
(* row in enter_explorer_at never goes below the first entry.              *)
THEOREM HighlightKept == ScreenSpec => []HighlightsOnARow
<1>1. ScreenInv => HighlightsOnARow
  BY DEF ScreenInv, ExplorerInv, PaletteInv, HighlightsOnARow
<1>. QED BY <1>1, ScreenInvAlways, PTL

-----------------------------------------------------------------------------
(* A click and the drawing agree, for terminals of every size.             *)
LEMMA Summing ==
  ASSUME NEW n \in Nat, NEW c, \A i \in 1..n : c[i] \in Nat
  PROVE  \E f \in [0..n -> Nat] : f[0] = 0 /\ \A i \in 1..n : f[i] = f[i - 1] + c[i]
<1>. DEFINE S == Nat
            zero == 0
            step == [i \in 1..n |-> [s \in S |-> s + c[i]]]
<1>1. zero \in S /\ step \in Steps(n, S)
  BY DEF Steps
<1>2. \A i \in 1..n, s \in Nat : step[i][s] = s + c[i]
  OBVIOUS
<1>. HIDE DEF step, S, zero
<1>3. PICK f \in [0..n -> S] : f[0] = zero /\ \A i \in 1..n : f[i] = step[i][f[i - 1]]
  BY <1>1, Recursion
<1>4. f \in [0..n -> Nat] /\ f[0] = 0
  BY <1>3 DEF S, zero
<1>5. \A i \in 1..n : f[i - 1] \in Nat
  BY <1>4
<1>6. \A i \in 1..n : f[i] = f[i - 1] + c[i]
  BY <1>2, <1>3, <1>5
<1>. QED BY <1>4, <1>6

LEMMA LinesToStep ==
  ASSUME tasks \in Seq(StepItems)
  PROVE  /\ LinesTo \in [0..Len(tasks) -> Nat] /\ LinesTo[0] = 0
         /\ \A i \in 1..Len(tasks) : LinesTo[i] = LinesTo[i - 1] + TaskRows(tasks[i])
<1>. DEFINE n == Len(tasks)
            Sums(f) == f = [i \in 0..n |-> IF i = 0 THEN 0 ELSE f[i - 1] + TaskRows(tasks[i])]
<1>1. n \in Nat /\ \A i \in 1..n : TaskRows(tasks[i]) \in Nat
  BY DEF TaskRows
<1>2. LinesTo = CHOOSE f : Sums(f)
  BY DEF LinesTo
<1>. HIDE DEF n
<1>. DEFINE rows == [i \in 1..n |-> TaskRows(tasks[i])]
<1>rows. \A i \in 1..n : rows[i] = TaskRows(tasks[i]) /\ rows[i] \in Nat
  BY <1>1
<1>. HIDE DEF rows
<1>3. PICK f \in [0..n -> Nat] :
        f[0] = 0 /\ \A i \in 1..n : f[i] = f[i - 1] + TaskRows(tasks[i])
  <2>1. n \in Nat /\ \A i \in 1..n : rows[i] \in Nat
    BY <1>1, <1>rows
  <2>2. PICK f \in [0..n -> Nat] : f[0] = 0 /\ \A i \in 1..n : f[i] = f[i - 1] + rows[i]
    BY <2>1, Summing
  <2>. QED BY <1>rows, <2>2
<1>4. Sums(f)
  <2>1. f = [i \in 0..n |-> f[i]]
    OBVIOUS
  <2>2. \A i \in 0..n : f[i] = IF i = 0 THEN 0 ELSE f[i - 1] + TaskRows(tasks[i])
    BY <1>1, <1>3
  <2>. QED BY <2>1, <2>2
<1>5. Sums(LinesTo)
  <2>. HIDE DEF Sums
  <2>. QED BY <1>2, <1>4
<1>6. \A i \in 0..n : LinesTo[i] = IF i = 0 THEN 0 ELSE LinesTo[i - 1] + TaskRows(tasks[i])
  BY <1>5
<1>7. LinesTo[0] = 0
  BY <1>1, <1>6
<1>8. ASSUME NEW i \in 1..n PROVE LinesTo[i] = LinesTo[i - 1] + TaskRows(tasks[i])
  <2>1. i \in 0..n /\ i # 0
    BY <1>1
  <2>. QED BY <1>6, <2>1
<1>9. \A i \in 0..n : i \in {j \in 0..n : LinesTo[j] \in Nat}
  <2>. DEFINE T == {j \in 0..n : LinesTo[j] \in Nat}
  <2>1. 0 \in T
    BY <1>1, <1>7
  <2>2. ASSUME NEW i \in 0..(n - 1), i \in T PROVE i + 1 \in T
    <3>1. i + 1 \in 1..n /\ (i + 1) - 1 = i
      BY <1>1
    <3>2. LinesTo[i + 1] = LinesTo[i] + TaskRows(tasks[i + 1])
      BY <1>8, <3>1
    <3>. QED BY <1>1, <2>2, <3>1, <3>2
  <2>. HIDE DEF T
  <2>3. \A i \in 0..n : i \in T
    BY <1>1, <2>1, <2>2, InductionUpTo
  <2>. QED BY <2>3 DEF T
<1>10. LinesTo \in [0..n -> Nat]
  BY <1>5, <1>9
<1>. QED BY <1>7, <1>8, <1>10 DEF n

LEMMA LinesToGrows ==
  ASSUME tasks \in Seq(StepItems), NEW j \in 1..Len(tasks), NEW i \in 1..(j - 1)
  PROVE  LinesTo[i] <= LinesTo[j - 1]
<1>. DEFINE n == j - 1
            T == {k \in 0..n : i <= k => LinesTo[i] <= LinesTo[k]}
<1>1. n \in Nat /\ n \in 1..Len(tasks) /\ i \in 1..n /\ Len(tasks) \in Nat
  OBVIOUS
<1>2. \A k \in 0..n : LinesTo[k] \in Nat
  BY <1>1, LinesToStep
<1>3. 0 \in T
  BY <1>1
<1>4. ASSUME NEW k \in 0..(n - 1), k \in T PROVE k + 1 \in T
  <2>1. k + 1 \in 1..Len(tasks) /\ (k + 1) - 1 = k /\ k + 1 \in 0..n
    BY <1>1
  <2>2. LinesTo[k + 1] = LinesTo[k] + TaskRows(tasks[k + 1])
    BY <2>1, LinesToStep
  <2>3. LinesTo[k] <= LinesTo[k + 1] /\ LinesTo[i] \in Nat
    BY <1>1, <1>2, <2>2 DEF TaskRows
  <2>4. CASE i <= k
    BY <1>2, <1>4, <2>1, <2>3, <2>4
  <2>5. CASE i = k + 1
    BY <2>1, <2>3, <2>5
  <2>6. CASE i > k + 1
    BY <2>1, <2>6
  <2>. QED BY <1>1, <2>4, <2>5, <2>6
<1>. HIDE DEF T
<1>5. n \in T
  <2>1. \A k \in 0..n : k \in T
    BY <1>1, <1>3, <1>4, InductionUpTo
  <2>. QED BY <1>1, <2>1
<1>. QED BY <1>1, <1>5 DEF T

TaskItem(j) == [kind |-> "task", task |-> j]

(* Every line of the drawn list is between the ends of two steps.          *)
LEMMA TaskItemsAre ==
  ASSUME tasks \in Seq(StepItems)
  PROVE  /\ DOMAIN TaskItems = 1..LinesTo[Len(tasks)] /\ Len(TaskItems) = LinesTo[Len(tasks)]
         /\ LinesTo[Len(tasks)] \in Nat
         /\ \A k \in DOMAIN TaskItems : \E j \in 1..Len(tasks) :
              LinesTo[j - 1] < k /\ k <= LinesTo[j] /\ TaskItems[k] = TaskItem(j)
<1>. DEFINE n == Len(tasks)
            S == {TaskItem(j) : j \in 1..n}
            Lns(i) == [line \in 1..TaskRows(tasks[i]) |-> TaskItem(i)]
            seqs == [i \in DOMAIN tasks |-> Lns(i)]
            Between(k, j, item) == LinesTo[j - 1] < k /\ k <= LinesTo[j] /\ item = TaskItem(j)
<1>1. n \in Nat /\ DOMAIN tasks = 1..n
  OBVIOUS
<1>2. TaskItems = FlattenSeq(seqs)
  BY DEF TaskItems, TaskItem
<1>. HIDE DEF n
<1>3. LinesTo[n] \in Nat
  BY <1>1, LinesToStep DEF n
<1>4. CASE n = 0
  <2>1. seqs = <<>>
    BY <1>1, <1>4
  <2>. HIDE DEF seqs
  <2>2. TaskItems = <<>>
    BY <1>2, <2>1 DEF FlattenSeq
  <2>3. LinesTo[n] = 0
    BY <1>4, LinesToStep
  <2>. QED BY <1>4, <2>2, <2>3 DEF n
<1>5. CASE n # 0
  <2>1. \A i \in 1..n : TaskRows(tasks[i]) \in Nat
    BY DEF TaskRows
  <2>2. \A i \in 1..n : Lns(i) \in Seq(S) /\ Len(Lns(i)) = TaskRows(tasks[i])
                        /\ \A k \in 1..TaskRows(tasks[i]) : Lns(i)[k] = TaskItem(i)
    BY <2>1
  <2>. HIDE DEF S, Lns
  <2>3. seqs \in Seq(Seq(S)) /\ Len(seqs) = n /\ \A i \in 1..n : seqs[i] = Lns(i)
    <3>1. seqs \in [1..n -> Seq(S)]
      BY <1>1, <2>2
    <3>. QED BY <1>1, <3>1
  <2>. HIDE DEF seqs
  <2>4. PICK f \in [1..n -> Seq(S)] :
          /\ f[1] = seqs[1] /\ \A i \in 2..n : f[i] = f[i - 1] \o seqs[i]
          /\ FlattenSeq(seqs) = f[n]
    <3>1. Len(seqs) > 0
      BY <1>1, <1>5, <2>3
    <3>2. \E f \in [1..Len(seqs) -> Seq(S)] :
            /\ f[1] = seqs[1] /\ \A i \in 2..Len(seqs) : f[i] = f[i - 1] \o seqs[i]
            /\ FlattenSeq(seqs) = f[Len(seqs)]
      BY <2>3, <3>1, Flattened
    <3>. QED BY <2>3, <3>2
  <2>. DEFINE Good(i) == /\ Len(f[i]) = LinesTo[i]
                         /\ \A k \in 1..LinesTo[i] : \E j \in 1..n : Between(k, j, f[i][k])
              T == {i \in 0..n : i = 0 \/ Good(i)}
  <2>5. 0 \in T
    BY <1>1
  <2>6. ASSUME NEW i \in 0..(n - 1), i \in T PROVE i + 1 \in T
    <3>. DEFINE m == TaskRows(tasks[i + 1])
    <3>1. i + 1 \in 1..n /\ i + 1 \in 0..n /\ (i + 1) - 1 = i
      BY <1>1
    <3>2. LinesTo[i + 1] = LinesTo[i] + m /\ LinesTo[i] \in Nat /\ m \in Nat
      BY <1>1, <2>1, <3>1, LinesToStep DEF n
    <3>3. seqs[i + 1] = Lns(i + 1) /\ Lns(i + 1) \in Seq(S) /\ Len(Lns(i + 1)) = m
          /\ \A k \in 1..m : Lns(i + 1)[k] = TaskItem(i + 1)
      BY <2>2, <2>3, <3>1
    <3>. HIDE DEF m
    <3>4. CASE i = 0
      <4>1. f[i + 1] = Lns(i + 1) /\ LinesTo[i] = 0
        BY <2>4, <3>3, <3>4, LinesToStep
      <4>2. Len(f[i + 1]) = LinesTo[i + 1]
        BY <3>2, <3>3, <4>1
      <4>3. ASSUME NEW k \in 1..LinesTo[i + 1] PROVE Between(k, i + 1, f[i + 1][k])
        <5>1. k \in 1..m /\ 0 < k /\ k <= LinesTo[i + 1]
          BY <3>2, <4>1
        <5>. QED BY <3>1, <3>3, <4>1, <5>1
      <4>. HIDE DEF Between
      <4>4. Good(i + 1)
        BY <3>1, <4>2, <4>3
      <4>. HIDE DEF Good
      <4>. QED BY <3>1, <4>4
    <3>5. CASE i # 0
      <4>1. i + 1 \in 2..n /\ i \in 1..n
        BY <1>1, <3>5
      <4>2. f[i + 1] = f[i] \o Lns(i + 1) /\ f[i] \in Seq(S)
        BY <2>4, <3>1, <3>3, <4>1
      <4>3. Good(i)
        BY <2>6, <3>5
      <4>. DEFINE a == f[i]
                  b == Lns(i + 1)
      <4>parts. a \in Seq(S) /\ b \in Seq(S) /\ f[i + 1] = a \o b /\ Len(b) = m
        BY <3>3, <4>2
      <4>. HIDE DEF a, b
      <4>joined. Len(a \o b) = Len(a) + m
            /\ \A k \in 1..(Len(a) + m) : (a \o b)[k] = IF k <= Len(a) THEN a[k] ELSE b[k - Len(a)]
        BY <4>parts, ConcatProperties
      <4>4. Len(f[i + 1]) = Len(f[i]) + m
            /\ \A k \in 1..(Len(f[i]) + m) :
                 f[i + 1][k] = IF k <= Len(f[i]) THEN f[i][k] ELSE Lns(i + 1)[k - Len(f[i])]
        BY <4>parts, <4>joined DEF a, b
      <4>5. Len(f[i + 1]) = LinesTo[i + 1]
        BY <3>2, <4>3, <4>4
      <4>6. ASSUME NEW k \in 1..LinesTo[i + 1]
            PROVE  \E j \in 1..n : Between(k, j, f[i + 1][k])
        <5>1. CASE k <= LinesTo[i]
          <6>1. k \in 1..LinesTo[i] /\ f[i + 1][k] = f[i][k]
            BY <3>2, <4>3, <4>4, <5>1
          <6>. QED BY <4>3, <6>1
        <5>2. CASE k > LinesTo[i]
          <6>1. k - LinesTo[i] \in 1..m /\ k \in 1..(LinesTo[i] + m) /\ ~(k <= LinesTo[i])
            BY <3>2, <5>2
          <6>2. f[i + 1][k] = TaskItem(i + 1)
            BY <3>3, <4>3, <4>4, <6>1
          <6>3. Between(k, i + 1, f[i + 1][k])
            BY <3>1, <3>2, <5>2, <6>2
          <6>. HIDE DEF Between
          <6>. QED BY <3>1, <6>3
        <5>. QED BY <3>2, <5>1, <5>2
      <4>7. Good(i + 1)
        BY <4>5, <4>6
      <4>. HIDE DEF Good
      <4>. QED BY <3>1, <4>7
    <3>. QED BY <3>4, <3>5
  <2>. HIDE DEF T
  <2>7. \A i \in 0..n : i \in T
    BY <1>1, <2>5, <2>6, InductionUpTo
  <2>8. Good(n) /\ f[n] \in Seq(S)
    <3>1. n \in T /\ n \in 1..n
      BY <1>1, <1>5, <2>7
    <3>. QED BY <1>5, <2>4, <3>1 DEF T
  <2>9. DOMAIN f[n] = 1..Len(f[n])
    BY <2>8
  <2>. QED BY <1>2, <1>3, <2>4, <2>8, <2>9 DEF n
<1>. QED BY <1>4, <1>5

LEMMA MinOf ==
  ASSUME NEW S, S \subseteq Int, NEW least \in S, \A i \in S : least <= i
  PROVE  Min(S) = least
<1>. DEFINE Least(x) == x \in S /\ \A y \in S : x <= y
<1>1. Least(CHOOSE x : Least(x))
  <2>1. Least(least)
    OBVIOUS
  <2>. HIDE DEF Least
  <2>. QED BY <2>1
<1>2. Min(S) = CHOOSE x : Least(x)
  BY DEF Min
<1>3. Least(Min(S))
  <2>. HIDE DEF Least
  <2>. QED BY <1>1, <1>2
<1>4. Min(S) \in Int /\ least \in Int /\ Min(S) <= least /\ least <= Min(S)
  BY <1>3
<1>. QED BY <1>4

(* A step is hit on the lines it is drawn on.                              *)
LEMMA TaskAtLine ==
  ASSUME tasks \in Seq(StepItems), NEW y \in Int
  PROVE  TaskAt(y) = IF y - 3 \in DOMAIN TaskItems THEN TaskItems[y - 3] ELSE Nothing
<1>. DEFINE n == Len(tasks)
            row == y - 4
            past == {i \in 1..n : row < LinesTo[i]}
<1>1. n \in Nat /\ DOMAIN tasks = 1..n /\ \A i \in 0..n : LinesTo[i] \in Nat
  BY LinesToStep
<1>2. TaskAt(y) = IF row < 0 \/ past = {} THEN Nothing ELSE TaskItem(Min(past))
  BY <1>1 DEF TaskAt, TaskItem, Workspace
<1>3. DOMAIN TaskItems = 1..LinesTo[n]
  BY TaskItemsAre
<1>4. CASE y - 3 \in DOMAIN TaskItems
  <2>1. row + 1 = y - 3 /\ row >= 0
    BY <1>1, <1>3, <1>4
  <2>2. PICK j \in 1..n : LinesTo[j - 1] < row + 1 /\ row + 1 <= LinesTo[j]
                          /\ TaskItems[y - 3] = TaskItem(j)
    BY <1>4, <2>1, TaskItemsAre
  <2>3. LinesTo[j - 1] \in Nat /\ LinesTo[j] \in Nat
    BY <1>1
  <2>4. j \in past
    BY <2>2, <2>3
  <2>5. ASSUME NEW i \in past PROVE j <= i
    <3>1. SUFFICES ASSUME i < j PROVE FALSE
      BY <2>4, <2>5
    <3>2. i \in 1..(j - 1) /\ LinesTo[i] \in Nat
      BY <1>1, <2>5, <3>1
    <3>3. LinesTo[i] <= LinesTo[j - 1]
      BY <3>2, LinesToGrows
    <3>. QED BY <2>2, <2>3, <2>5, <3>2, <3>3
  <2>6. past \subseteq Int
    OBVIOUS
  <2>. HIDE DEF past
  <2>7. Min(past) = j
    BY <2>4, <2>5, <2>6, MinOf
  <2>8. ~(row < 0) /\ past # {}
    BY <2>1, <2>4
  <2>. HIDE DEF row
  <2>9. TaskAt(y) = TaskItem(j)
    BY <1>2, <2>7, <2>8
  <2>. QED BY <1>4, <2>2, <2>9
<1>5. CASE y - 3 \notin DOMAIN TaskItems
  <2>1. SUFFICES ASSUME row >= 0 PROVE past = {}
    BY <1>2, <1>5
  <2>2. LinesTo[n] <= row
    BY <1>1, <1>3, <1>5, <2>1
  <2>3. ASSUME NEW i \in 1..n PROVE LinesTo[i] <= LinesTo[n]
    <3>1. CASE i = n
      BY <1>1, <3>1
    <3>2. CASE i # n
      <4>1. i \in 1..(n - 1) /\ n \in 1..Len(tasks) /\ n - 1 \in 0..n
        <5>1. n = Len(tasks)
          OBVIOUS
        <5>. HIDE DEF n
        <5>2. i \in Int /\ n \in Int /\ 1 <= i /\ i <= n /\ i # n
          BY <1>1, <2>3, <3>2
        <5>. QED BY <5>1, <5>2
      <4>2. LinesTo[i] <= LinesTo[n - 1]
        BY <4>1, LinesToGrows
      <4>3. LinesTo[n] = LinesTo[n - 1] + TaskRows(tasks[n])
        BY <4>1, LinesToStep
      <4>. QED BY <1>1, <4>1, <4>2, <4>3 DEF TaskRows
    <3>. QED BY <3>1, <3>2
  <2>4. ASSUME NEW i \in 1..n PROVE ~(row < LinesTo[i])
    <3>1. LinesTo[i] \in Nat /\ LinesTo[n] \in Nat
      BY <1>1
    <3>. QED BY <2>2, <2>3, <3>1
  <2>. QED BY <2>4
<1>. QED BY <1>4, <1>5

(* What a list that is not scrolled shows at a place of its panel.         *)
LEMMA ItemAtRow ==
  ASSUME NEW items, NEW r, NEW y \in Int, r.y \in Int, r.h \in Int
  PROVE  ItemAt(items, 0, y, r) =
           IF y > r.y /\ y < r.y + r.h - 1 /\ y - r.y \in DOMAIN items
           THEN items[y - r.y] ELSE Nothing
<1>. DEFINE shown == {k + 0 + 1 : k \in InnerRow(y, r)} \cap DOMAIN items
<1>1. ItemAt(items, 0, y, r) = IF shown = {} THEN Nothing ELSE items[CHOOSE k \in shown : TRUE]
  BY DEF ItemAt
<1>2. (y - r.y - 1) + 0 + 1 = y - r.y
  OBVIOUS
<1>3. CASE y > r.y /\ y < r.y + r.h - 1
  <2>1. InnerRow(y, r) = {y - r.y - 1}
    BY <1>3 DEF InnerRow
  <2>2. {k + 0 + 1 : k \in InnerRow(y, r)} = {y - r.y}
    BY <1>2, <2>1
  <2>3. shown = IF y - r.y \in DOMAIN items THEN {y - r.y} ELSE {}
    BY <2>2
  <2>. HIDE DEF shown
  <2>4. y - r.y \in DOMAIN items => (CHOOSE k \in shown : TRUE) = y - r.y
    BY <2>3
  <2>. QED BY <1>1, <1>3, <2>3, <2>4
<1>4. CASE ~(y > r.y /\ y < r.y + r.h - 1)
  <2>1. InnerRow(y, r) = {}
    BY <1>4 DEF InnerRow
  <2>. QED BY <1>1, <1>4, <2>1
<1>. QED BY <1>3, <1>4

(* The regions do not overlap, and the tree is the explorer's region or a  *)
(* part of it.                                                             *)
LEMMA Layout ==
  /\ Height \in Nat /\ Width \in Nat /\ Height >= 10
  /\ BodyHeight = Height - 8 /\ TreeHeight \in 0..BodyHeight /\ TerminalHeight \in 0..BodyHeight
  /\ LeftWidth \in Nat /\ RightWidth \in Nat
  /\ ~explorerVisible => LeftWidth = 0
<1>1. Height \in Nat /\ Width \in Nat /\ Height >= 10
  BY ScreenAssumption
<1>2. BodyHeight = Height - 8 /\ BodyHeight \in Nat
  BY <1>1 DEF BodyHeight
<1>3. TreeHeight \in 0..BodyHeight
  BY <1>2 DEF TreeHeight, Smaller, Minus
<1>4. TerminalHeight \in 0..BodyHeight
  BY <1>2 DEF TerminalHeight, Smaller
<1>5. LeftWidth \in Nat /\ RightWidth \in Nat /\ (~explorerVisible => LeftWidth = 0)
  BY <1>1 DEF LeftWidth, RightWidth
<1>. QED BY <1>1, <1>2, <1>3, <1>4, <1>5

LEMMA RegionOf ==
  ASSUME NEW x \in Nat, NEW y \in 0..(Height - 1)
  PROVE  /\ Region(x, y) = "explorer" <=> x < LeftWidth /\ y \in 3..(Height - 6)
         /\ Region(x, y) = "workspace" => y \in 3..(Height - 6 - TerminalHeight)
         /\ Inside(x, y, Tree) => Region(x, y) = "explorer"
<1>. USE Layout
<1>1. y \in Int
  OBVIOUS
<1>2. CASE y < 3
  <2>1. Region(x, y) = "header"
    BY <1>2 DEF Region
  <2>. QED BY <1>2, <2>1 DEF Inside, Tree
<1>3. CASE y > Height - 6
  <2>1. Region(x, y) \in {"tabs", "status", "footer"}
    BY <1>3 DEF Region
  <2>. QED BY <1>3, <2>1 DEF Inside, Tree
<1>4. CASE y \in 3..(Height - 6)
  <2>1. Region(x, y) = IF x < LeftWidth THEN "explorer"
                       ELSE IF x >= Width - RightWidth THEN "context"
                       ELSE IF y >= Height - 5 - TerminalHeight THEN "terminal" ELSE "workspace"
    BY <1>4 DEF Region
  <2>2. Inside(x, y, Tree) => x < LeftWidth
    BY DEF Inside, Tree
  <2>3. Region(x, y) = "explorer" <=> x < LeftWidth
    BY <2>1
  <2>4. Region(x, y) = "workspace" => y < Height - 5 - TerminalHeight
    BY <2>1
  <2>. QED BY <1>4, <2>2, <2>3, <2>4
<1>. QED BY <1>1, <1>2, <1>3, <1>4

Entry(row) == [kind |-> "entry", row |-> row]

(* The list is the rows, in order, and perhaps the dash.                   *)
LEMMA TreeItemsAre ==
  ASSUME ExplorerInv
  PROVE  /\ \A k \in 1..Rows : k \in DOMAIN TreeItems /\ TreeItems[k] = Entry(k - 1)
         /\ \A k \in DOMAIN TreeItems : k \in Nat /\ (k \notin 1..Rows => TreeItems[k] = Nothing)
<1>. DEFINE n == Len(files)
            top == IF HasParent THEN <<Entry(0)>> ELSE <<>>
            rest == IF files = <<>> THEN <<Nothing>> ELSE [i \in 1..n |-> Entry(i - 1 + Above)]
            S == {Nothing} \cup {Entry(i) : i \in Nat}
<1>1. files \in Seq(Entries) /\ n \in Nat /\ DOMAIN files = 1..n /\ (files = <<>> <=> n = 0)
  BY DEF ExplorerInv
<1>2. Above \in {0, 1} /\ (HasParent <=> Above = 1) /\ Rows = n + Above
  BY DEF Above, Rows
<1>3. TreeItems = top \o rest
  BY <1>1 DEF TreeItems, Entry
<1>. HIDE DEF n
<1>4. top \in Seq(S) /\ Len(top) = Above /\ (Above = 1 => top[1] = Entry(0))
  <2>1. CASE HasParent
    <3>1. Entry(0) \in S
      OBVIOUS
    <3>. HIDE DEF S
    <3>2. top = <<Entry(0)>>
      BY <2>1
    <3>. HIDE DEF top
    <3>. QED BY <1>2, <2>1, <3>1, <3>2
  <2>2. CASE ~HasParent
    <3>1. top = <<>>
      BY <2>2
    <3>. HIDE DEF top, S
    <3>. QED BY <1>2, <2>2, <3>1
  <2>. QED BY <2>1, <2>2
<1>5. CASE n = 0
  <2>1. rest = <<Nothing>> /\ Nothing \in S
    BY <1>1, <1>5
  <2>. HIDE DEF top, rest, S
  <2>2. rest \in Seq(S) /\ Len(rest) = 1 /\ rest[1] = Nothing
    BY <2>1
  <2>3. Len(top \o rest) = Above + 1 /\ top \o rest \in Seq(S)
        /\ \A k \in 1..(Above + 1) :
             (top \o rest)[k] = IF k <= Above THEN top[k] ELSE rest[k - Above]
    <3>1. Len(top \o rest) = Len(top) + Len(rest) /\ top \o rest \in Seq(S)
          /\ \A k \in 1..(Len(top) + Len(rest)) :
               (top \o rest)[k] = IF k <= Len(top) THEN top[k] ELSE rest[k - Len(top)]
      <4>1. top \in Seq(S) /\ rest \in Seq(S)
        BY <1>4, <2>2
      <4>. QED BY <4>1, ConcatProperties
    <3>2. Len(top) = Above /\ Len(rest) = 1
      BY <1>4, <2>2
    <3>. QED BY <3>1, <3>2
  <2>4. DOMAIN TreeItems = 1..(Above + 1)
    BY <1>2, <1>3, <2>3
  <2>5. ASSUME NEW k \in 1..Rows PROVE TreeItems[k] = Entry(k - 1)
    <3>1. k = 1 /\ Above = 1 /\ k - 1 = 0 /\ k \in 1..(Above + 1) /\ k <= Above
      BY <1>2, <1>5, <2>5
    <3>. QED BY <1>3, <1>4, <2>3, <3>1
  <2>6. ASSUME NEW k \in 1..(Above + 1), k \notin 1..Rows PROVE TreeItems[k] = Nothing
    <3>1. k - Above = 1 /\ ~(k <= Above)
      BY <1>2, <1>5, <2>6
    <3>. QED BY <1>3, <2>2, <2>3, <3>1
  <2>7. \A k \in 1..Rows : k \in 1..(Above + 1)
    BY <1>2, <1>5
  <2>8. \A k \in 1..(Above + 1) : k \in Nat
    BY <1>2
  <2>. QED BY <2>4, <2>5, <2>6, <2>7, <2>8
<1>6. CASE n # 0
  <2>1. rest = [i \in 1..n |-> Entry(i - 1 + Above)]
    BY <1>1, <1>6
  <2>2. \A i \in 1..n : Entry(i - 1 + Above) \in S
    <3>1. \A i \in 1..n : i - 1 + Above \in Nat
      BY <1>1, <1>2
    <3>. QED BY <3>1
  <2>. HIDE DEF top, rest, S
  <2>3. rest \in Seq(S) /\ Len(rest) = n /\ \A i \in 1..n : rest[i] = Entry(i - 1 + Above)
    BY <1>1, <2>1, <2>2
  <2>4. Len(top \o rest) = Above + n /\ top \o rest \in Seq(S)
        /\ \A k \in 1..(Above + n) :
             (top \o rest)[k] = IF k <= Above THEN top[k] ELSE rest[k - Above]
    <3>1. Len(top \o rest) = Len(top) + Len(rest) /\ top \o rest \in Seq(S)
          /\ \A k \in 1..(Len(top) + Len(rest)) :
               (top \o rest)[k] = IF k <= Len(top) THEN top[k] ELSE rest[k - Len(top)]
      <4>1. top \in Seq(S) /\ rest \in Seq(S)
        BY <1>4, <2>3
      <4>. QED BY <4>1, ConcatProperties
    <3>2. Len(top) = Above /\ Len(rest) = n
      BY <1>4, <2>3
    <3>. QED BY <3>1, <3>2
  <2>5. DOMAIN TreeItems = 1..Rows /\ Rows \in Nat /\ Rows = Above + n
    BY <1>1, <1>2, <1>3, <2>4
  <2>6. ASSUME NEW k \in 1..Rows PROVE TreeItems[k] = Entry(k - 1)
    <3>1. CASE k <= Above
      <4>1. Above = 1 /\ k = 1 /\ k - 1 = 0
        BY <1>2, <2>5, <3>1
      <4>. QED BY <1>3, <1>4, <2>4, <2>5, <3>1, <4>1
    <3>2. CASE ~(k <= Above)
      <4>1. k - Above \in 1..n /\ (k - Above) - 1 + Above = k - 1
        BY <1>1, <1>2, <2>5, <3>2
      <4>2. rest[k - Above] = Entry(k - 1)
        BY <2>3, <4>1
      <4>. QED BY <1>3, <2>4, <2>5, <3>2, <4>2
    <3>. QED BY <3>1, <3>2
  <2>. QED BY <2>5, <2>6
<1>. QED BY <1>5, <1>6

(* An entry of the explorer is hit on the row it is drawn on.              *)
LEMMA EntryAtRow ==
  ASSUME ExplorerInv, Rows <= Tree.h - 2, NEW x \in Nat, NEW y \in Int, Inside(x, y, Tree)
  PROVE  EntryAt(x, y) = ItemAt(TreeItems, TreeOffset, y, Tree)
<1>2. Tree.y = 3 /\ Tree.h = TreeHeight /\ TreeHeight \in Int
  BY Layout DEF Tree
<1>3. Rows \in Nat
  BY RowsNat
<1>4. EntryAt(x, y) = IF y - 4 \in 0..(Rows - 1) THEN Entry(y - 4) ELSE Nothing
  BY <1>2 DEF EntryAt, Entry
<1>5. \A k \in 1..Rows : k \in DOMAIN TreeItems /\ TreeItems[k] = Entry(k - 1)
  BY TreeItemsAre
<1>6. \A k \in DOMAIN TreeItems : k \notin 1..Rows => TreeItems[k] = Nothing
  BY TreeItemsAre
<1>7. CASE Rows > 0
  <2>1. TreeOffset = 0
    <3>1. index \in 0..(Rows - 1) /\ Rows \in Nat
      BY <1>3, <1>7 DEF ExplorerInv, Minus
    <3>. QED BY <1>2, <3>1 DEF TreeOffset, Minus
  <2>. DEFINE seen == y > 3 /\ y < 3 + TreeHeight - 1 /\ y - 3 \in DOMAIN TreeItems
  <2>2. ItemAt(TreeItems, TreeOffset, y, Tree) = IF seen THEN TreeItems[y - 3] ELSE Nothing
    BY <1>2, <2>1, ItemAtRow
  <2>3. CASE y - 4 \in 0..(Rows - 1)
    <3>1. y - 3 \in 1..Rows /\ (y - 3) - 1 = y - 4 /\ y > 3 /\ y < 3 + TreeHeight - 1
      BY <1>2, <1>3, <2>3
    <3>. QED BY <1>4, <1>5, <2>2, <2>3, <3>1
  <2>4. CASE y - 4 \notin 0..(Rows - 1)
    <3>1. y - 3 \notin 1..Rows
      BY <1>3, <2>4
    <3>. QED BY <1>4, <1>6, <2>2, <2>4, <3>1
  <2>. QED BY <2>3, <2>4
<1>8. CASE Rows = 0
  <2>1. EntryAt(x, y) = Nothing
    BY <1>4, <1>8
  <2>2. \A k \in DOMAIN TreeItems : TreeItems[k] = Nothing
    BY <1>6, <1>8
  <2>. DEFINE shown == {k + TreeOffset + 1 : k \in InnerRow(y, Tree)} \cap DOMAIN TreeItems
  <2>3. ItemAt(TreeItems, TreeOffset, y, Tree)
          = IF shown = {} THEN Nothing ELSE TreeItems[CHOOSE k \in shown : TRUE]
    BY DEF ItemAt
  <2>4. shown # {} => (CHOOSE k \in shown : TRUE) \in DOMAIN TreeItems
    OBVIOUS
  <2>. QED BY <2>1, <2>2, <2>3, <2>4
<1>. QED BY <1>3, <1>7, <1>8

(* A command of the palette is hit on the row it is drawn on.              *)
LEMMA CommandAtRow ==
  ASSUME PaletteInv, palette # NoPalette, Len(PaletteItems) <= Popup.h - 2,
         NEW x \in Nat, NEW y \in Int, CommandAt(x, y) # Nothing
  PROVE  Inside(x, y, Popup) /\ ItemAt(PaletteItems, 0, y, Popup) = CommandAt(x, y)
<1>. DEFINE n == Len(Matched)
            row == y - Popup.y - 3
            command(i) == [kind |-> "command", command |-> Matched[i]]
            list == [i \in 1..n |-> command(i)]
            S == {Nothing} \cup {command(i) : i \in 1..n}
<1>1. Matched \in Seq(STRING) /\ n \in Nat /\ DOMAIN Matched = 1..n
  <2>1. palette.query \in DOMAIN Matching
    BY DEF PaletteInv
  <2>2. Matched \in Seq(STRING)
    BY <2>1, ScreenAssumption DEF Matched
  <2>. QED BY <2>2
<1>2. Popup.y \in Int /\ Popup.h \in Int
  <2>1. ASSUME NEW w \in Int, NEW h \in Int
        PROVE  Centered(w, h).y \in Int /\ Centered(w, h).h \in Int
    BY Layout DEF Centered, Smaller
  <2>. DEFINE high == LET h == Smaller(n + 5, Height) IN IF h < 6 THEN 6 ELSE h
  <2>2. high \in Int
    BY <1>1, Layout DEF Smaller
  <2>3. Popup = Centered(64, high)
    BY DEF Popup
  <2>. HIDE DEF high
  <2>. QED BY <2>1, <2>2, <2>3
<1>. HIDE DEF n
<1>3. Inside(x, y, Popup) /\ row \in 0..(n - 1) /\ CommandAt(x, y) = command(row + 1)
  BY DEF CommandAt, n
<1>4. PaletteItems = <<Nothing, Nothing>> \o list
  BY <1>1 DEF PaletteItems
<1>5. <<Nothing, Nothing>> \in Seq(S) /\ Len(<<Nothing, Nothing>>) = 2
      /\ list \in Seq(S) /\ Len(list) = n /\ \A i \in 1..n : list[i] = command(i)
  BY <1>1
<1>. HIDE DEF S, list, command
<1>6. Len(PaletteItems) = n + 2 /\ PaletteItems \in Seq(S)
      /\ \A k \in 1..(n + 2) : PaletteItems[k] = IF k <= 2 THEN <<Nothing, Nothing>>[k] ELSE list[k - 2]
  BY <1>1, <1>4, <1>5, ConcatProperties
<1>7. row + 3 \in DOMAIN PaletteItems /\ row + 3 \in 1..(n + 2)
      /\ ~(row + 3 <= 2) /\ (row + 3) - 2 = row + 1 /\ row + 1 \in 1..n
  <2>1. DOMAIN PaletteItems = 1..(n + 2)
    BY <1>6
  <2>. HIDE DEF row
  <2>. QED BY <1>1, <1>3, <2>1
<1>8. PaletteItems[row + 3] = command(row + 1)
  BY <1>5, <1>6, <1>7
<1>9. y - Popup.y = row + 3 /\ y > Popup.y /\ y < Popup.y + Popup.h - 1
  BY <1>1, <1>2, <1>3, <1>6
<1>10. ItemAt(PaletteItems, 0, y, Popup) = PaletteItems[row + 3]
  <2>1. y - Popup.y \in DOMAIN PaletteItems
    BY <1>7, <1>9
  <2>. HIDE DEF row
  <2>. QED BY <1>2, <1>9, <2>1, ItemAtRow
<1>. QED BY <1>3, <1>8, <1>10

LEMMA ClickInPalette ==
  ASSUME ScreenInv, Fits, palette # NoPalette, NEW x \in Nat, NEW y \in Int, Hit(x, y) # Nothing
  PROVE  Drawn(x, y) = Hit(x, y)
<1>1. Hit(x, y) = CommandAt(x, y)
  BY DEF Hit
<1>2. Len(PaletteItems) <= Popup.h - 2 /\ ~asking
  BY DEF Fits
<1>3. Inside(x, y, Popup) /\ ItemAt(PaletteItems, 0, y, Popup) = CommandAt(x, y)
  BY <1>1, <1>2, CommandAtRow DEF ScreenInv
<1>4. Drawn(x, y) = ItemAt(PaletteItems, 0, y, Popup)
  BY <1>2, <1>3 DEF Drawn
<1>. QED BY <1>1, <1>3, <1>4

LEMMA ClickOnPanels ==
  ASSUME ScreenInv, Fits, Quiet, NEW x \in Nat, NEW y \in 0..(Height - 1),
         ~(UnderStrip(x) /\ Region(x, y) = "tabs")
  PROVE  Drawn(x, y) = Hit(x, y)
<1>1. y \in Int
  BY Layout
<1>. DEFINE hit == CASE Region(x, y) = "tabs" -> TabAt(x)
                     [] Region(x, y) = "explorer" -> EntryAt(x, y)
                     [] Region(x, y) = "workspace" /\ tab = "tasks" -> TaskAt(y)
                     [] OTHER -> Nothing
            seen == CASE Region(x, y) = "tabs" -> IF UnderStrip(x) THEN Nothing ELSE TabAt(x)
                      [] Inside(x, y, Tree) -> ItemAt(TreeItems, TreeOffset, y, Tree)
                      [] Region(x, y) = "workspace" /\ tab = "tasks" ->
                           ItemAt(TaskItems, 0, y, Workspace)
                      [] OTHER -> Nothing
<1>2. Hit(x, y) = hit /\ Drawn(x, y) = seen
  BY DEF Hit, Drawn, Quiet
<1>3. CASE Region(x, y) = "tabs"
  <2>1. ~Inside(x, y, Tree)
    BY <1>3, RegionOf
  <2>. QED BY <1>2, <1>3, <2>1
<1>4. CASE Region(x, y) = "explorer"
  <2>1. hit = EntryAt(x, y)
    BY <1>4
  <2>2. CASE Inside(x, y, Tree)
    <3>1. explorerVisible
      BY <1>4, RegionOf, Layout
    <3>2. EntryAt(x, y) = ItemAt(TreeItems, TreeOffset, y, Tree)
      BY <1>1, <2>2, <3>1, EntryAtRow DEF ScreenInv, Fits
    <3>3. seen = ItemAt(TreeItems, TreeOffset, y, Tree)
      BY <1>4, <2>2
    <3>. QED BY <1>2, <2>1, <3>2, <3>3
  <2>3. CASE ~Inside(x, y, Tree)
    <3>1. EntryAt(x, y) = Nothing
      BY <2>3 DEF EntryAt
    <3>2. seen = Nothing
      BY <1>4, <2>3
    <3>. QED BY <1>2, <2>1, <3>1, <3>2
  <2>. QED BY <2>2, <2>3
<1>5. CASE Region(x, y) = "workspace" /\ tab = "tasks"
  <2>1. ~Inside(x, y, Tree) /\ y \in 3..(Height - 6 - TerminalHeight)
    BY <1>5, RegionOf
  <2>2. hit = TaskAt(y) /\ seen = ItemAt(TaskItems, 0, y, Workspace)
    BY <1>5, <2>1
  <2>3. tasks \in Seq(StepItems)
    BY DEF ScreenInv, OtherInv
  <2>4. TaskAt(y) = IF y - 3 \in DOMAIN TaskItems THEN TaskItems[y - 3] ELSE Nothing
    BY <1>1, <2>3, TaskAtLine
  <2>5. Workspace.y = 3 /\ Workspace.h = BodyHeight - TerminalHeight /\ Workspace.h \in Int
    BY Layout DEF Workspace
  <2>6. ItemAt(TaskItems, 0, y, Workspace)
          = IF y > 3 /\ y < 3 + Workspace.h - 1 /\ y - 3 \in DOMAIN TaskItems
            THEN TaskItems[y - 3] ELSE Nothing
    BY <1>1, <2>5, ItemAtRow
  <2>7. y - 3 \in DOMAIN TaskItems => y > 3 /\ y < 3 + Workspace.h - 1
    <3>1. DOMAIN TaskItems = 1..Len(TaskItems) /\ Len(TaskItems) \in Nat
      BY <2>3, TaskItemsAre
    <3>2. Len(TaskItems) <= Workspace.h - 2
      BY <1>5 DEF Fits
    <3>. QED BY <1>1, <2>5, <3>1, <3>2
  <2>. QED BY <1>2, <2>2, <2>4, <2>6, <2>7
<1>6. CASE /\ Region(x, y) # "tabs" /\ Region(x, y) # "explorer"
           /\ ~(Region(x, y) = "workspace" /\ tab = "tasks")
  <2>1. ~Inside(x, y, Tree)
    BY <1>6, RegionOf
  <2>. QED BY <1>2, <1>6, <2>1
<1>. QED BY <1>3, <1>4, <1>5, <1>6

(* What a click acts on is what is drawn under it, on a terminal of any    *)
(* size, whatever is listed, expanded and matched: click_outcome and the   *)
(* rendering of each panel compute the rows separately.                    *)
THEOREM ClickHitsDrawn == ScreenSpec => []ClicksHitWhatIsDrawn
<1>1. ScreenInv => ClicksHitWhatIsDrawn
  <2>1. SUFFICES ASSUME ScreenInv, Fits, NEW x \in Columns, NEW y \in 0..(Height - 1),
                        ~(UnderStrip(x) /\ Region(x, y) = "tabs")
                 PROVE  /\ Hit(x, y) # Nothing => Drawn(x, y) = Hit(x, y)
                        /\ Quiet => Drawn(x, y) = Hit(x, y)
    BY DEF ClicksHitWhatIsDrawn
  <2>2. x \in Nat /\ y \in Int
    <3>1. Columns \subseteq 0..(Width - 1) /\ Width \in Nat /\ Height \in Nat
      BY ScreenAssumption
    <3>. QED BY <2>1, <3>1
  <2>3. CASE palette # NoPalette
    BY <2>1, <2>2, <2>3, ClickInPalette DEF Quiet
  <2>4. CASE palette = NoPalette /\ asking
    <3>1. Hit(x, y) = Nothing /\ ~Quiet
      BY <2>4 DEF Hit, Quiet
    <3>. QED BY <3>1
  <2>5. CASE Quiet
    BY <2>1, <2>2, <2>5, ClickOnPanels
  <2>. QED BY <2>3, <2>4, <2>5 DEF Quiet
<1>. QED BY <1>1, ScreenInvAlways, PTL
=============================================================================
