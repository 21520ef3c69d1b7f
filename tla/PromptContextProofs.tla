------------------------- MODULE PromptContextProofs -------------------------
(***************************************************************************)
(* Proofs about PromptContext: its type invariant with the cap on the map, *)
(* that a map which is cut says so, that the files in the prompt are the   *)
(* most relevant ones, and that they keep within their share.              *)
(***************************************************************************)
EXTENDS PromptContext, FiniteSetTheorems, TLAPS

(* No directory is descended into that the map must leave out. *)
StackListable ==
  \A d \in stack : d \notin Excluded /\ Above[d] \cap (Excluded \cup unreadable) = {}

(* Unless the map is cut, what is still missing lies under the stack. *)
MissingIsUnderStack ==
  ~truncated =>
    \A f \in Files \ changed :
      Listable(f) => f \in files \/ \E d \in stack : d \in Above[f]

MapInv ==
  /\ TypeOK
  /\ \A f \in Files \ changed : size[f] \in Sizes
  /\ StackListable
  /\ \A f \in files \ changed : Listable(f)
  /\ MissingIsUnderStack
  /\ phase # "scan" => stack = {}

(* What is queued comes after what was taken, and what is neither cannot   *)
(* be read.                                                                *)
RankInv ==
  /\ TypeOK
  /\ phase = "scan" => Taken = {}
  /\ \A s \in Taken, f \in queue : Ranked(s.file, f)
  /\ phase # "scan" =>
       \A f \in files \ changed :
         f \in queue \/ ~CanRead(f) \/ \E t \in Taken : t.file = f

-----------------------------------------------------------------------------
(* What a directory that was read adds to the map and to the stack. *)
LEMMA Listing ==
  ASSUME TypeOK, NEW d \in Dirs, ReadDir(d)
  PROVE  /\ Cardinality(files') <= indexer.max_files
         /\ \E new \in SUBSET (Children(d) \cap Files) :
              /\ files' = files \cup new
              /\ \A f \in new : size[f] <= MaxFileBytes
         /\ stack' \subseteq (stack \ {d}) \cup (Children(d) \cap Dirs)
         /\ ~truncated' => /\ ~truncated
                           /\ stack' = (stack \ {d}) \cup (Children(d) \cap Dirs)
                           /\ \A f \in Children(d) \cap Files :
                                size[f] \in 0..MaxFileBytes => f \in files'
<1>1. /\ IsFiniteSet(Files) /\ files \subseteq Files /\ indexer.max_files \in Nat /\ MaxFileBytes \in Nat
      BY ProjectAssumption, LimitAssumption DEF TypeOK
<1>2. PICK listed \in Listings(d) :
        \/ /\ Cardinality(listed) < Room
           /\ files' = files \cup listed
           /\ stack' = (stack \ {d}) \cup (Children(d) \cap Dirs)
           /\ UNCHANGED truncated
        \/ \E taken \in SUBSET listed :
             /\ Cardinality(taken) = Room
             /\ \A f \in taken, g \in listed \ taken : Before(f, g)
             /\ files' = files \cup taken
             /\ stack' = (stack \ {d}) \cup {e \in Children(d) \cap Dirs : \E f \in taken : Before(e, f)}
             /\ truncated' = TRUE
      BY DEF ReadDir
<1>3. PICK late \in SUBSET {f \in Children(d) \cap Files : size[f] = Gone} :
        listed = {f \in Children(d) \cap Files : size[f] \in 0..MaxFileBytes} \cup late
      BY <1>2 DEF Listings
<1>4. \A f \in listed : f \in Children(d) \cap Files /\ size[f] <= MaxFileBytes
      BY <1>1, <1>3 DEF Gone
<1>5. PICK new \in SUBSET listed : files' = files \cup new /\ Cardinality(new) <= Room
  <2>1. listed \in SUBSET Files
        BY <1>4
  <2>2. IsFiniteSet(listed) /\ IsFiniteSet(files)
        BY <1>1, <2>1, FS_Subset
  <2>3. Cardinality(listed) \in Nat /\ Cardinality(files) \in Nat
        BY <2>2, FS_CardinalityType
  <2>4. Room \in Int
        BY <1>1, <2>3 DEF Room
  <2>5. CASE Cardinality(listed) < Room /\ files' = files \cup listed
        BY <2>3, <2>4, <2>5
  <2>6. CASE \E taken \in SUBSET listed : Cardinality(taken) = Room /\ files' = files \cup taken
        BY <2>4, <2>6
  <2> QED
        BY <1>2, <2>5, <2>6
<1>6. Cardinality(files') <= indexer.max_files
  <2>1. new \in SUBSET Files
        BY <1>4
  <2>2. IsFiniteSet(new) /\ IsFiniteSet(files) /\ IsFiniteSet(files \cap new)
        BY <1>1, <2>1, FS_Subset
  <2>3. Cardinality(new) \in Nat /\ Cardinality(files) \in Nat /\ Cardinality(files \cap new) \in Nat
        BY <2>2, FS_CardinalityType
  <2>4. Cardinality(files \cup new) = Cardinality(files) + Cardinality(new) - Cardinality(files \cap new)
        BY <2>2, FS_Union
  <2> QED
        BY <1>1, <1>5, <2>3, <2>4 DEF Room
<1>7. \E n \in SUBSET (Children(d) \cap Files) :
        /\ files' = files \cup n
        /\ \A f \in n : size[f] <= MaxFileBytes
  <2>1. new \in SUBSET (Children(d) \cap Files)
        BY <1>4
  <2> QED
        BY <1>4, <1>5, <2>1
<1>8. stack' \subseteq (stack \ {d}) \cup (Children(d) \cap Dirs)
      BY <1>2
<1>9. ASSUME ~truncated'
      PROVE  /\ ~truncated
             /\ stack' = (stack \ {d}) \cup (Children(d) \cap Dirs)
             /\ \A f \in Children(d) \cap Files : size[f] \in 0..MaxFileBytes => f \in files'
      BY <1>2, <1>3, <1>9
<1> QED
      BY <1>6, <1>7, <1>8, <1>9

LEMMA TokensNat ==
  ASSUME TypeOK, NEW f \in Files, CanRead(f)
  PROVE  Tokens(f) \in Nat
<1>1. size[f] \in Nat /\ MaxFileTokens \in Nat /\ MarkerLen \in Nat
  <2>1. size[f] \in Sizes
        BY DEF TypeOK, CanRead
  <2>2. Sizes \subseteq Nat /\ MaxFileTokens \in Nat /\ MarkerLen \in 0..4 * MaxFileTokens
        BY LimitAssumption
  <2>3. size[f] \in Nat
        BY <2>1, <2>2
  <2>4. MarkerLen \in Nat
        BY <2>2
  <2> QED
      BY <2>2, <2>3, <2>4
<1>2. \A n \in Nat : Estimate(n) \in Nat
      BY DEF Estimate
<1>3. TruncateMiddle(size[f], 4 * MaxFileTokens) \in Nat
      BY <1>1 DEF TruncateMiddle
<1> QED
      BY <1>1, <1>2, <1>3 DEF Tokens

-----------------------------------------------------------------------------
LEMMA InitTyped ==
  ASSUME Init
  PROVE  TypeOK
<1>1. Cardinality(files) <= indexer.max_files
  <2>1. Cardinality({}) = 0
        BY FS_EmptySet
  <2>2. indexer.max_files \in Nat
        BY LimitAssumption DEF Init
  <2> QED
      BY <2>1, <2>2 DEF Init
<1>2. size \in [Files -> Sizes \cup {Gone}]
      BY DEF Init
<1>3. selected \in Seq([file : files, tokens : Nat])
      BY DEF Init
<1>4. Root \in Dirs
      BY ProjectAssumption
<1> QED
      BY <1>1, <1>2, <1>3, <1>4 DEF Init, TypeOK

LEMMA StepTyped ==
  ASSUME TypeOK, [Next]_vars
  PROVE  TypeOK'
<1> USE DEF TypeOK
<1>1. CASE CapsHit
      BY <1>1 DEF CapsHit, projectVars, inputVars, selectVars
<1>2. ASSUME NEW d \in Dirs, TooDeep(d) PROVE TypeOK'
      BY <1>2 DEF TooDeep, projectVars, inputVars, selectVars
<1>3. ASSUME NEW d \in Dirs, Unreadable(d) PROVE TypeOK'
      BY <1>3 DEF Unreadable, projectVars, inputVars, selectVars
<1>4. ASSUME NEW d \in Dirs, ReadDir(d) PROVE TypeOK'
  <2>1. UNCHANGED <<size, unreadable, changed, indexer, budget, score, phase, queue, selected, spent>>
        BY <1>4 DEF ReadDir, projectVars, inputVars, selectVars
  <2>2. /\ files \subseteq files' /\ files' \subseteq Files
        /\ Cardinality(files') <= indexer.max_files
        /\ stack' \subseteq Dirs
        BY <1>4, Listing
  <2>3. truncated' \in BOOLEAN
        BY <1>4 DEF ReadDir
  <2>4. selected \in Seq([file : files', tokens : Nat])
    <3>1. [file : files, tokens : Nat] \subseteq [file : files', tokens : Nat]
          BY <2>2
    <3>2. \A S, T : S \subseteq T => Seq(S) \subseteq Seq(T)
          OBVIOUS
    <3> HIDE DEF TypeOK
    <3>3. selected \in Seq([file : files, tokens : Nat])
          BY DEF TypeOK
    <3> QED
          BY <3>1, <3>2, <3>3
  <2> QED
      BY <2>1, <2>2, <2>3, <2>4
<1>5. CASE ScanEnds
      BY <1>5 DEF ScanEnds, projectVars, inputVars, scanVars
<1>6. CASE Stop
      BY <1>6 DEF Stop, projectVars, inputVars, scanVars, selectVars
<1>7. ASSUME NEW f \in Files, Skip(f) PROVE TypeOK'
      BY <1>7 DEF Skip, projectVars, inputVars, scanVars
<1>8. ASSUME NEW f \in Files, Take(f) PROVE TypeOK'
  <2>1. Tokens(f) \in Nat /\ f \in files
        BY <1>8, TokensNat DEF Take, IsBest
  <2> QED
      BY <1>8, <2>1 DEF Take, projectVars, inputVars, scanVars
<1>9. ASSUME NEW f \in Files, FileChanges(f) PROVE TypeOK'
      BY <1>9 DEF FileChanges, inputVars, scanVars, selectVars
<1>10. CASE UNCHANGED vars
      BY <1>10 DEF vars, projectVars, inputVars, scanVars, selectVars
<1> QED
    BY <1>1, <1>2, <1>3, <1>4, <1>5, <1>6, <1>7, <1>8, <1>9, <1>10 DEF Next, Scan, Select

(* The type invariant, with the cap on the number of files in the map      *)
(* (Indexer::scan), for every project and every limit.                     *)
THEOREM Typed == Spec => []TypeOK
<1>1. Init => TypeOK
      BY InitTyped
<1>2. TypeOK /\ [Next]_vars => TypeOK'
      BY StepTyped
<1> QED
    BY <1>1, <1>2, PTL DEF Spec

-----------------------------------------------------------------------------
LEMMA InitMap ==
  ASSUME Init
  PROVE  MapInv
<1>1. TypeOK
      BY InitTyped
<1>2. StackListable
      BY ProjectAssumption DEF Init, StackListable
<1>3. MissingIsUnderStack
  <2>1. \A f \in Files : Root \in Above[f]
        BY ProjectAssumption DEF Nodes
  <2> QED
      BY <2>1 DEF Init, MissingIsUnderStack
<1>4. \A f \in Files \ changed : size[f] \in Sizes
      BY DEF Init
<1> QED
    BY <1>1, <1>2, <1>3, <1>4 DEF Init, MapInv

(* A directory that is read passes on to its children what the stack knew  *)
(* of it.                                                                  *)
LEMMA ReadDirMap ==
  ASSUME MapInv, NEW d \in Dirs, ReadDir(d), TypeOK'
  PROVE  MapInv'
<1>1. /\ UNCHANGED <<size, unreadable, changed, phase>>
      /\ d \in stack /\ phase = "scan"
      BY DEF ReadDir, IsTop, projectVars
<1>2. PICK new \in SUBSET (Children(d) \cap Files) :
        /\ files' = files \cup new
        /\ \A f \in new : size[f] <= MaxFileBytes
      BY Listing DEF MapInv
<1>3. d \notin Excluded /\ Above[d] \cap (Excluded \cup unreadable) = {} /\ d \notin unreadable
      BY <1>1 DEF MapInv, StackListable, ReadDir
<1>4. ASSUME NEW n \in Children(d)
      PROVE  n \notin Excluded /\ Above[n] \cap (Excluded \cup unreadable) = {}
  <2>1. n \in Nodes \ {Root} /\ Parent[n] = d /\ n \notin Excluded
        BY <1>4 DEF Children
  <2>2. Above[n] = Above[d] \cup {d}
        BY <2>1, ProjectAssumption
  <2> QED
      BY <1>3, <2>1, <2>2
<1>5. StackListable'
  <2>1. stack' \subseteq (stack \ {d}) \cup (Children(d) \cap Dirs)
        BY Listing DEF MapInv
  <2> QED
      BY <1>1, <1>4, <2>1 DEF MapInv, StackListable
<1>6. \A f \in (files \ changed)' : Listable(f)'
      BY <1>1, <1>2, <1>4 DEF MapInv, Listable
<1>7. MissingIsUnderStack'
  <2> SUFFICES ASSUME ~truncated', NEW f \in Files \ changed, Listable(f), f \notin files'
               PROVE  \E e \in stack' : e \in Above[f]
      BY <1>1 DEF MissingIsUnderStack, Listable
  <2>1. /\ ~truncated
        /\ stack' = (stack \ {d}) \cup (Children(d) \cap Dirs)
        /\ \A g \in Children(d) \cap Files : size[g] \in 0..MaxFileBytes => g \in files'
        BY Listing DEF MapInv
  <2>2. PICK c \in stack : c \in Above[f]
        BY <1>2, <2>1 DEF MapInv, MissingIsUnderStack
  <2>3. CASE c # d
        BY <2>1, <2>2, <2>3
  <2>4. CASE c = d
    <3>1. f \in Nodes /\ f # Root
          BY <2>2, ProjectAssumption DEF Nodes
    <3>2. PICK e \in Above[f] \cup {f} : e # Root /\ Parent[e] = d
          BY <2>2, <2>4, <3>1, ProjectAssumption
    <3>3. size[f] \in 0..MaxFileBytes
      <4>1. size[f] \in Sizes /\ size[f] <= MaxFileBytes
            BY DEF MapInv, Listable
      <4>2. size[f] \in Nat /\ MaxFileBytes \in Nat
            BY <4>1, LimitAssumption
      <4> QED
          BY <4>1, <4>2
    <3>4. CASE e = f
      <4>1. f \in Children(d) \cap Files
            BY <3>1, <3>2, <3>4 DEF Children, Listable
      <4> QED
          BY <2>1, <3>3, <4>1
    <3>5. CASE e \in Above[f]
      <4>1. e \in Dirs
            BY <3>1, <3>5, ProjectAssumption
      <4>2. e \in Children(d)
            BY <3>2, <3>5, <4>1 DEF Children, Listable, Nodes
      <4> QED
          BY <2>1, <3>5, <4>1, <4>2
    <3> QED
        BY <3>2, <3>4, <3>5
  <2> QED
      BY <2>3, <2>4
<1> QED
    BY <1>1, <1>5, <1>6, <1>7 DEF MapInv

LEMMA StepMap ==
  ASSUME MapInv, [Next]_vars
  PROVE  MapInv'
<1>0. TypeOK'
      BY StepTyped DEF MapInv
<1> USE <1>0 DEF MapInv, StackListable, MissingIsUnderStack, Listable
<1>1. CASE CapsHit
      BY <1>1 DEF CapsHit, projectVars
<1>2. ASSUME NEW d \in Dirs, TooDeep(d) PROVE MapInv'
      BY <1>2 DEF TooDeep, projectVars
<1>3. ASSUME NEW d \in Dirs, Unreadable(d) PROVE MapInv'
      BY <1>3 DEF Unreadable, projectVars
<1>4. ASSUME NEW d \in Dirs, ReadDir(d) PROVE MapInv'
      BY <1>4, ReadDirMap
<1>5. CASE ScanEnds
      BY <1>5 DEF ScanEnds, projectVars, scanVars
<1>6. CASE Stop
      BY <1>6 DEF Stop, projectVars, scanVars
<1>7. ASSUME NEW f \in Files, Skip(f) PROVE MapInv'
      BY <1>7 DEF Skip, projectVars, scanVars
<1>8. ASSUME NEW f \in Files, Take(f) PROVE MapInv'
      BY <1>8 DEF Take, projectVars, scanVars
<1>9. ASSUME NEW f \in Files, FileChanges(f) PROVE MapInv'
  <2>1. /\ \A g \in (Files \ changed)' : g \in Files \ changed /\ size'[g] = size[g]
        /\ UNCHANGED <<unreadable, phase, stack, files, truncated>>
        BY <1>9 DEF FileChanges, scanVars, TypeOK
  <2>2. \A g \in (Files \ changed)' : Listable(g)' <=> Listable(g)
        BY <2>1 DEF Listable
  <2>3. files \subseteq Files
        BY DEF TypeOK
  <2> HIDE DEF Listable
  <2>4. StackListable'
        BY <2>1 DEF StackListable
  <2>5. MissingIsUnderStack'
        BY <2>1, <2>2 DEF MissingIsUnderStack
  <2>6. \A g \in (files \ changed)' : Listable(g)'
        BY <2>1, <2>2, <2>3
  <2> QED
      BY <2>1, <2>4, <2>5, <2>6
<1>10. CASE UNCHANGED vars
      BY <1>10 DEF vars, projectVars, scanVars
<1> QED
    BY <1>1, <1>2, <1>3, <1>4, <1>5, <1>6, <1>7, <1>8, <1>9, <1>10 DEF Next, Scan, Select

(* The map tells its cut and lists nothing it must leave out               *)
(* (ProjectMap::truncated), for every tree, every limit and every change   *)
(* made during the walk.                                                   *)
THEOREM CutTold == Spec => []MapTellsItsCut
<1>1. Init => MapInv
      BY InitMap
<1>2. MapInv /\ [Next]_vars => MapInv'
      BY StepMap
<1>3. MapInv => MapTellsItsCut
      BY DEF MapInv, MissingIsUnderStack, MapTellsItsCut, TypeOK
<1> QED
    BY <1>1, <1>2, <1>3, PTL DEF Spec

-----------------------------------------------------------------------------
LEMMA AppendedRange ==
  ASSUME NEW S, NEW seq \in Seq(S), NEW r, NEW new, new = Append(seq, r)
  PROVE  {new[i] : i \in DOMAIN new} = {seq[i] : i \in DOMAIN seq} \cup {r}
<1>1. Len(seq) \in Nat /\ DOMAIN seq = 1..Len(seq) /\ DOMAIN new = 1..Len(seq) + 1
      OBVIOUS
<1>2. /\ \A i \in 1..Len(seq) : new[i] = seq[i]
      /\ new[Len(seq) + 1] = r
      OBVIOUS
<1>3. DOMAIN new = DOMAIN seq \cup {Len(seq) + 1}
      BY <1>1
<1> QED
    BY <1>1, <1>2, <1>3

LEMMA StepRank ==
  ASSUME RankInv, [Next]_vars
  PROVE  RankInv'
<1>0. TypeOK'
      BY StepTyped DEF RankInv
<1> USE <1>0 DEF RankInv, Ranked, CanRead, Taken
<1>1. CASE CapsHit
      BY <1>1 DEF CapsHit, projectVars, inputVars, selectVars
<1>2. ASSUME NEW d \in Dirs, TooDeep(d) PROVE RankInv'
      BY <1>2 DEF TooDeep, projectVars, inputVars, selectVars
<1>3. ASSUME NEW d \in Dirs, Unreadable(d) PROVE RankInv'
      BY <1>3 DEF Unreadable, projectVars, inputVars, selectVars
<1>4. ASSUME NEW d \in Dirs, ReadDir(d) PROVE RankInv'
      BY <1>4 DEF ReadDir, projectVars, inputVars, selectVars
<1>5. CASE ScanEnds
      BY <1>5 DEF ScanEnds, projectVars, inputVars, scanVars
<1>6. CASE Stop
      BY <1>6 DEF Stop, projectVars, inputVars, scanVars, selectVars
<1>7. ASSUME NEW f \in Files, Skip(f) PROVE RankInv'
      BY <1>7 DEF Skip, projectVars, inputVars, scanVars
<1>8. ASSUME NEW f \in Files, Take(f) PROVE RankInv'
  <2>1. /\ Taken' = Taken \cup {[file |-> f, tokens |-> Tokens(f)]}
        /\ queue' = queue \ {f}
        /\ UNCHANGED <<size, changed, score, phase, files>>
        /\ phase = "select"
    <3>1. selected' = Append(selected, [file |-> f, tokens |-> Tokens(f)])
          BY <1>8 DEF Take
    <3>2. selected \in Seq([file : files, tokens : Nat])
          BY DEF TypeOK
    <3>3. Taken' = Taken \cup {[file |-> f, tokens |-> Tokens(f)]}
          BY <3>1, <3>2, AppendedRange
    <3> QED
        BY <1>8, <3>3 DEF Take, projectVars, inputVars, scanVars
  <2>2. \A g \in queue \ {f} : Ranked(f, g)
        BY <1>8 DEF Take, IsBest
  <2> HIDE DEF Taken
  <2>3. \A s \in Taken', g \in queue' : Ranked(s.file, g)
        BY <2>1, <2>2
  <2>4. \A g \in files \ changed :
          g \in queue' \/ ~CanRead(g) \/ \E t \in Taken' : t.file = g
    <3>1. [file |-> f, tokens |-> Tokens(f)] \in Taken'
          BY <2>1
    <3>2. \E t \in Taken' : t.file = f
          BY <3>1
    <3> QED
        BY <2>1, <3>2
  <2> QED
      BY <2>1, <2>3, <2>4
<1>9. ASSUME NEW f \in Files, FileChanges(f) PROVE RankInv'
  <2>1. /\ \A g \in (files \ changed)' : g \in files \ changed /\ size'[g] = size[g]
        /\ UNCHANGED <<phase, score, files, queue, selected>>
        BY <1>9 DEF FileChanges, inputVars, scanVars, selectVars, TypeOK
  <2> QED
      BY <2>1
<1>10. CASE UNCHANGED vars
      BY <1>10 DEF vars, projectVars, inputVars, scanVars, selectVars
<1> QED
    BY <1>1, <1>2, <1>3, <1>4, <1>5, <1>6, <1>7, <1>8, <1>9, <1>10 DEF Next, Scan, Select

(* No file is in the prompt before a more relevant one (select), whatever  *)
(* the scores, the budget and the changes during the selection.            *)
THEOREM MostRelevant == Spec => []BestFirst
<1>1. Init => RankInv
  <2> SUFFICES ASSUME Init PROVE RankInv
      OBVIOUS
  <2>1. TypeOK
        BY InitTyped
  <2>2. Taken = {}
        BY DEF Init, Taken
  <2> QED
      BY <2>1, <2>2 DEF Init, RankInv
<1>2. RankInv /\ [Next]_vars => RankInv'
      BY StepRank
<1>3. RankInv => BestFirst
  <2> SUFFICES ASSUME RankInv,
                      NEW s \in Taken, NEW f \in files \ changed, Ranked(f, s.file), CanRead(f)
               PROVE  \E t \in Taken : t.file = f
      BY DEF BestFirst
  <2>1. f \in Files /\ s.file \in Files
    <3>1. PICK i \in DOMAIN selected : s = selected[i]
          BY DEF Taken
    <3>2. selected \in Seq([file : files, tokens : Nat]) /\ files \subseteq Files
          BY DEF RankInv, TypeOK
    <3>3. i \in 1..Len(selected)
          BY <3>1, <3>2
    <3>4. selected[i] \in [file : files, tokens : Nat]
      <4>1. \A S, seq, j : seq \in Seq(S) /\ j \in 1..Len(seq) => seq[j] \in S
            OBVIOUS
      <4> QED
          BY <3>2, <3>3, <4>1
    <3> QED
        BY <3>1, <3>2, <3>4
  <2>2. /\ score[f] \in Nat /\ score[s.file] \in Nat
        /\ TextOrder[f] \in Nat /\ TextOrder[s.file] \in Nat
        BY <2>1, ProjectAssumption, LimitAssumption DEF RankInv, TypeOK
  <2>3. ~Ranked(s.file, f)
        BY <2>2 DEF Ranked
  <2> QED
      BY <2>3 DEF RankInv
<1> QED
    BY <1>1, <1>2, <1>3, PTL DEF Spec

-----------------------------------------------------------------------------
(* Estimate never falls as a text grows, and gives back the tokens of four *)
(* times as many characters.                                               *)
LEMMA EstimateGrows ==
  ASSUME NEW m \in Nat, NEW n \in Nat, m <= 4 * n
  PROVE  Estimate(m) <= n
BY DEF Estimate

(* A file that is too long is cut to what one file may take: the marker    *)
(* is counted within the cut.                                              *)
LEMMA TokensCapped ==
  ASSUME TypeOK, NEW f \in Files, CanRead(f)
  PROVE  Tokens(f) <= MaxFileTokens
<1>1. /\ size[f] \in Nat /\ MaxFileTokens \in Nat
      /\ MarkerLen \in Nat /\ MarkerLen <= 4 * MaxFileTokens
  <2>1. size[f] \in Sizes
        BY DEF TypeOK, CanRead
  <2>2. Sizes \subseteq Nat /\ MaxFileTokens \in Nat /\ MarkerLen \in 0..4 * MaxFileTokens
        BY LimitAssumption
  <2>3. size[f] \in Nat
        BY <2>1, <2>2
  <2>4. MarkerLen \in Nat /\ MarkerLen <= 4 * MaxFileTokens
        BY <2>2
  <2> QED
      BY <2>2, <2>3, <2>4
<1>2. /\ TruncateMiddle(size[f], 4 * MaxFileTokens) \in Nat
      /\ TruncateMiddle(size[f], 4 * MaxFileTokens) <= 4 * MaxFileTokens
      BY <1>1 DEF TruncateMiddle
<1>3. Estimate(TruncateMiddle(size[f], 4 * MaxFileTokens)) <= MaxFileTokens
      BY <1>1, <1>2, EstimateGrows
<1>4. Estimate(size[f]) \in Nat
      BY <1>1 DEF Estimate
<1> QED
    BY <1>1, <1>3, <1>4 DEF Tokens

(* Running totals are carried on by the file that is taken next.           *)
LEMMA SumsCarryOn ==
  ASSUME NEW S, NEW selection \in Seq(S), NEW total \in Nat, SumsTo(selection, total),
         NEW r \in S, r.tokens \in Nat
  PROVE  SumsTo(Append(selection, r), total + r.tokens)
<1> DEFINE new == Append(selection, r)
<1>1. /\ Len(selection) \in Nat /\ new \in Seq(S) /\ Len(new) = Len(selection) + 1
      /\ new[Len(selection) + 1] = r
      /\ \A i \in 1..Len(selection) : new[i] = selection[i]
      OBVIOUS
<1>2. PICK sums \in [0..Len(selection) -> 0..total] :
        /\ sums[0] = 0 /\ sums[Len(selection)] = total
        /\ \A i \in 1..Len(selection) : sums[i] = sums[i - 1] + selection[i].tokens
      BY DEF SumsTo
<1> DEFINE more == [i \in 0..Len(new) |-> IF i <= Len(selection) THEN sums[i] ELSE total + r.tokens]
<1>3. more \in [0..Len(new) -> 0..total + r.tokens]
  <2> SUFFICES ASSUME NEW i \in 0..Len(new)
               PROVE  (IF i <= Len(selection) THEN sums[i] ELSE total + r.tokens) \in 0..total + r.tokens
      OBVIOUS
  <2>1. CASE i <= Len(selection)
    <3>1. i \in 0..Len(selection)
          BY <1>1, <2>1
    <3>2. sums[i] \in 0..total
          BY <1>2, <3>1
    <3> QED
        BY <2>1, <3>2
  <2>2. CASE ~(i <= Len(selection))
        BY <2>2
  <2> QED
      BY <2>1, <2>2
<1>4. more[0] = 0 /\ more[Len(new)] = total + r.tokens
      BY <1>1, <1>2
<1>5. ASSUME NEW i \in 1..Len(new)
      PROVE  more[i] = more[i - 1] + new[i].tokens
  <2>1. CASE i \in 1..Len(selection)
    <3>1. more[i] = sums[i] /\ more[i - 1] = sums[i - 1]
          BY <1>1, <2>1
    <3> QED
        BY <1>1, <1>2, <2>1, <3>1
  <2>2. CASE i = Len(selection) + 1
    <3>1. more[i] = total + r.tokens /\ more[i - 1] = sums[Len(selection)]
          BY <1>1, <2>2
    <3> QED
        BY <1>1, <1>2, <2>2, <3>1
  <2> QED
      BY <1>1, <2>1, <2>2
<1> HIDE DEF new, more
<1>6. SumsTo(new, total + r.tokens)
      BY <1>3, <1>4, <1>5 DEF SumsTo
<1> QED
    BY <1>6 DEF new

LEMMA InitShare ==
  ASSUME Init
  PROVE  WithinShare
<1>1. Len(selected) = 0 /\ DOMAIN selected = {} /\ spent = 0
      BY DEF Init
<1>2. spent <= FilesBudget
  <2>1. budget \in Nat
        BY LimitAssumption DEF Init
  <2> QED
      BY <1>1, <2>1 DEF FilesBudget
<1>3. SumsTo(selected, spent)
  <2> DEFINE sums == [i \in 0..0 |-> 0]
  <2>1. sums \in [0..Len(selected) -> 0..spent] /\ sums[0] = 0
        BY <1>1
  <2>2. 1..Len(selected) = {}
        BY <1>1
  <2> HIDE DEF sums
  <2> QED
      BY <1>1, <2>1, <2>2 DEF SumsTo
<1> QED
    BY <1>1, <1>2, <1>3 DEF WithinShare, Taken

LEMMA StepShare ==
  ASSUME TypeOK, WithinShare, [Next]_vars
  PROVE  WithinShare'
<1>1. ASSUME UNCHANGED <<budget, selected, spent>>
      PROVE  WithinShare'
      BY <1>1 DEF WithinShare, FilesBudget, SumsTo, Taken
<1>2. ASSUME NEW f \in Files, Take(f)
      PROVE  WithinShare'
  <2> DEFINE r == [file |-> f, tokens |-> Tokens(f)]
  <2>1. /\ budget' = budget /\ spent' = spent + Tokens(f)
        /\ selected' = Append(selected, r)
        /\ spent + Tokens(f) <= FilesBudget
        /\ CanRead(f) /\ f \in queue
        BY <1>2 DEF Take, inputVars, IsBest
  <2>2. Tokens(f) \in Nat /\ Tokens(f) <= MaxFileTokens
        BY <2>1, TokensNat, TokensCapped
  <2>3. /\ selected \in Seq([file : files, tokens : Nat]) /\ spent \in Nat
        /\ r \in [file : files, tokens : Nat] /\ r.tokens = Tokens(f)
        BY <2>1, <2>2 DEF TypeOK
  <2>4. SumsTo(selected, spent)
        BY DEF WithinShare
  <2> HIDE DEF r
  <2>5. SumsTo(Append(selected, r), spent + Tokens(f))
        BY <2>2, <2>3, <2>4, SumsCarryOn
  <2>6. SumsTo(selected, spent)'
        BY <2>1, <2>5 DEF SumsTo
  <2>7. Taken' = Taken \cup {r}
        BY <2>1, <2>3, AppendedRange DEF Taken
  <2>8. \A s \in Taken' : s.tokens <= MaxFileTokens
        BY <2>2, <2>3, <2>7 DEF WithinShare
  <2>9. (spent <= FilesBudget)'
        BY <2>1 DEF FilesBudget
  <2> QED
      BY <2>6, <2>8, <2>9 DEF WithinShare
<1>3. CASE CapsHit
      BY <1>1, <1>3 DEF CapsHit, inputVars, selectVars
<1>4. ASSUME NEW d \in Dirs, TooDeep(d) \/ Unreadable(d) \/ ReadDir(d)
      PROVE  WithinShare'
      BY <1>1, <1>4 DEF TooDeep, Unreadable, ReadDir, inputVars, selectVars
<1>5. CASE ScanEnds \/ Stop
      BY <1>1, <1>5 DEF ScanEnds, Stop, inputVars, selectVars
<1>6. ASSUME NEW f \in Files, Skip(f) \/ FileChanges(f)
      PROVE  WithinShare'
      BY <1>1, <1>6 DEF Skip, FileChanges, inputVars, selectVars
<1>7. CASE UNCHANGED vars
      BY <1>1, <1>7 DEF vars, inputVars, selectVars
<1> QED
    BY <1>2, <1>3, <1>4, <1>5, <1>6, <1>7 DEF Next, Scan, Select

(* The files in the prompt keep within their share of the token budget     *)
(* and each within its own cap (select), whatever the sizes, the limits    *)
(* and the changes during the selection.                                   *)
THEOREM ShareKept == Spec => []WithinShare
<1>1. Init => TypeOK /\ WithinShare
      BY InitTyped, InitShare
<1>2. TypeOK /\ WithinShare /\ [Next]_vars => (TypeOK /\ WithinShare)'
      BY StepTyped, StepShare
<1> QED
    BY <1>1, <1>2, PTL DEF Spec
=============================================================================
