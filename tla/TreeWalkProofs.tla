--------------------------- MODULE TreeWalkProofs ---------------------------
(***************************************************************************)
(* What scanner/walker.go guarantees for any tree, batch size and number   *)
(* of interrupted walks.                                                   *)
(***************************************************************************)
EXTENDS TreeWalk, FiniteSetTheorems, TLAPS

Path(e) == {e} \cup tree.above[e]

\* WalkDir only knows entries that are in no excluded directory, and every file
\* that can be read is recorded or still ahead.
Ahead ==
  /\ files \cup batch \subseteq Wanted
  /\ \A e \in todo \cup reading : tree.above[e] \cap tree.excluded = {}
  /\ \A d \in reading : tree.kind[d] = "dir" /\ d \notin tree.excluded
  /\ pc = "walk" => \A f \in Sure : f \in files \cup batch \/ Path(f) \cap (todo \cup reading) # {}

\* What the end of the walk knows of its outcome.
Outcome ==
  /\ pc = "walk" => ~cut
  /\ pc = "final" /\ ~cut => Sure \subseteq files \cup batch
  /\ pc = "mark" => Sure \subseteq files
  /\ walkDone => pc = "off" /\ Sure \subseteq files

\* What has been collected is not lost before the end of the run, and an insert
\* has failed at most once before the final flush.
Kept ==
  /\ pc = "walk" => failures = 0
  /\ pc = "final" => failures <= 1 /\ (cut /\ failures = 0 => batch = {}) /\ (~cut => failures = 0)
  /\ pc \in {"walk", "final"} => collected \subseteq files \cup batch

TInv == tree \in Trees /\ TypeOK /\ Ahead /\ Outcome /\ Kept

-----------------------------------------------------------------------------

LEMMA TreeFacts ==
  ASSUME tree \in Trees
  PROVE  /\ DOMAIN tree.kind = Entry /\ tree.above \in [Entry -> SUBSET Entry]
         /\ \A e \in Entry :
              /\ e = Root <=> tree.above[e] = {}
              /\ Root \in Path(e)
              /\ \A d \in tree.above[e] :
                   tree.kind[d] = "dir" /\ Path(e) \cap Children(d) # {}
<1>1. tree \in [above : [Entry -> SUBSET Entry],
                kind : [Entry -> {"dir", "file", "link", "special"}],
                excluded : SUBSET Entry, broken : SUBSET Entry]
  BY TreesAssumption
<1>2. tree.above \in [Entry -> SUBSET Entry] /\ DOMAIN tree.kind = Entry
  BY <1>1
<1> QED BY <1>2, AboveAssumption DEF Path, Children

LEMMA InitInvariant == Init => TInv
<1> SUFFICES ASSUME Init PROVE TInv
  OBVIOUS
<1>1. TypeOK
  <2>1. DOMAIN tree.kind = Entry /\ tree.above \in [Entry -> SUBSET Entry]
    BY TreeFacts DEF Init
  <2>2. runs \in 0 .. MaxRuns /\ failures \in 0 .. 2
    BY BoundsAssumption DEF Init
  <2> QED BY <2>1, <2>2, Zenon DEF Init, TypeOK
<1> QED BY <1>1 DEF Init, TInv, Ahead, Outcome, Kept

LEMMA StartInvariant == TInv /\ Start => TInv'
<1> SUFFICES ASSUME TInv, Start PROVE TInv'
  OBVIOUS
<1> USE DEF TInv, Start
<1>1. Root \in Entry /\ tree.above[Root] = {} /\ \A f \in Sure : Root \in Path(f)
  BY TreeFacts, TreesAssumption DEF Sure, Wanted
<1>2. TypeOK'
  <2>1. runs' \in 0 .. MaxRuns /\ failures' \in 0 .. 2
    BY BoundsAssumption DEF TypeOK
  <2> QED BY <1>1, <2>1 DEF TypeOK
<1>3. Ahead'
  BY <1>1 DEF Ahead, Sure, Wanted, Path
<1>4. Outcome' /\ Kept'
  BY DEF Outcome, Kept
<1> QED BY <1>2, <1>3, <1>4

\* What is skipped is not above a file that can be read, and is none.
LEMMA SkipInvariant ==
  ASSUME TInv, \/ SkipRoot
               \/ \E e \in Entry : SkipExcluded(e) \/ SkipOther(e) \/ SkipUnreadable(e)
  PROVE  TInv'
<1> USE DEF TInv
<1>1. PICK e \in Entry :
        /\ Skip(e)
        /\ \/ e \in tree.broken
           \/ tree.kind[e] = "dir" /\ e \in tree.excluded
           \/ tree.kind[e] \in {"link", "special"}
  BY TreesAssumption DEF SkipRoot, SkipExcluded, SkipOther, SkipUnreadable
<1>2. \A f \in Sure : e \notin Path(f)
  <2> SUFFICES ASSUME NEW f \in Sure, e \in Path(f) PROVE FALSE
    OBVIOUS
  <2>1. /\ f \in Entry /\ tree.kind[f] = "file" /\ tree.above[f] \cap tree.excluded = {}
        /\ Path(f) \cap tree.broken = {}
    BY DEF Sure, Wanted, Path
  <2>2. e = f \/ e \in tree.above[f]
    BY DEF Path
  <2> QED BY <1>1, <2>1, <2>2, TreeFacts
<1> USE <1>1 DEF Skip, Called
<1>3. TypeOK'
  BY DEF TypeOK
<1>4. Ahead'
  BY <1>2 DEF Ahead, Sure, Wanted, Path
<1>5. Outcome' /\ Kept'
  BY DEF Outcome, Kept, Sure, Wanted
<1> QED BY <1>3, <1>4, <1>5

LEMMA VisitDirectoryInvariant ==
  ASSUME TInv, NEW d \in Entry, VisitDirectory(d)
  PROVE  TInv'
<1> USE DEF TInv, VisitDirectory, Called
<1>1. TypeOK'
  BY DEF TypeOK
<1>2. Ahead'
  BY DEF Ahead, Sure, Wanted, Path
<1>3. Outcome' /\ Kept'
  BY DEF Outcome, Kept, Sure, Wanted
<1> QED BY <1>1, <1>2, <1>3

\* The entries of a directory come in its place: one of them is on the way to
\* each file below it.  A directory that cannot be read has no such file.
LEMMA ReadInvariant ==
  ASSUME TInv, NEW d \in Entry, ReadDirectory(d) \/ ReadDirFails(d)
  PROVE  TInv'
<1> USE DEF TInv
<1>1. PICK S \in SUBSET Children(d) :
        /\ todo' = todo \cup S
        /\ S = Children(d) \/ d \in tree.broken
  BY DEF ReadDirectory, ReadDirFails
<1>2. /\ pc = "walk" /\ reading = {d} /\ reading' = {}
      /\ UNCHANGED <<tree, files, walkDone, pc, batch, collected, cut, failures, cancelled, runs>>
  BY DEF ReadDirectory, ReadDirFails
<1>3. S \subseteq Entry /\ \A e \in S : tree.above[e] = tree.above[d] \cup {d}
  BY DEF Children
<1>4. \A e \in S : tree.above[e] \cap tree.excluded = {}
  BY <1>2, <1>3 DEF Ahead
<1>5. ASSUME NEW f \in Sure, d \in Path(f) PROVE Path(f) \cap S # {}
  <2>1. f \in Entry /\ tree.kind[f] = "file" /\ Path(f) \cap tree.broken = {}
    BY DEF Sure, Wanted, Path
  <2>2. S = Children(d)
    BY <1>1, <1>5, <2>1
  <2>3. d \in tree.above[f]
    BY <1>2, <1>5, <2>1 DEF Ahead, Path
  <2> QED BY <2>1, <2>2, <2>3, TreeFacts
<1>6. TypeOK'
  BY <1>1, <1>2, <1>3 DEF TypeOK
<1>7. Ahead'
  <2>1. \A f \in Sure : f \in files \cup batch \/ Path(f) \cap (todo \cup S) # {}
    BY <1>2, <1>5 DEF Ahead
  <2>2. Sure' = Sure /\ Wanted' = Wanted /\ \A f \in Sure : Path(f)' = Path(f)
    BY <1>2 DEF Sure, Wanted, Path
  <2> QED BY <1>1, <1>2, <1>4, <2>1, <2>2 DEF Ahead
<1>8. Outcome' /\ Kept'
  BY <1>2 DEF Outcome, Kept, Sure, Wanted
<1> QED BY <1>2, <1>6, <1>7, <1>8

LEMMA VisitFileInvariant ==
  ASSUME TInv, NEW f \in Entry, VisitFile(f)
  PROVE  TInv'
<1> USE DEF TInv, VisitFile, Called
<1>1. f \in Wanted
  BY DEF Ahead, Wanted
<1>2. \A g \in Sure : f \in Path(g) => g = f
  BY TreeFacts DEF Sure, Wanted, Path
<1>3. \/ batch' = batch \cup {f} /\ UNCHANGED <<files, pc, cut, failures>>
      \/ files' = files \cup batch \cup {f} /\ batch' = {} /\ UNCHANGED <<pc, cut, failures>>
      \/ /\ batch' = batch \cup {f} /\ UNCHANGED files
         /\ failures' = failures + 1 /\ pc' = "final" /\ cut' = TRUE
  BY DEF Flush
<1>4. /\ files' \cup batch' = files \cup batch \cup {f} /\ todo' = todo \ {f}
      /\ UNCHANGED <<tree, walkDone, cancelled, runs, reading>>
      /\ collected' = collected \cup {f} /\ pc = "walk"
  BY <1>3
<1>5. Sure' = Sure /\ Wanted' = Wanted /\ \A g \in Sure : Path(g)' = Path(g)
  BY <1>4 DEF Sure, Wanted, Path
<1>6. TypeOK'
  <2>1. /\ files' \subseteq Entry /\ todo' \subseteq Entry /\ reading' \subseteq Entry
        /\ batch' \subseteq collected' /\ collected' \subseteq Entry
    BY <1>3, <1>4 DEF TypeOK
  <2>2. pc \in {"off", "walk", "final", "mark"} /\ cut \in BOOLEAN /\ failures = 0
    BY <1>4 DEF TypeOK, Kept
  <2>3. /\ DOMAIN tree'.kind = Entry /\ tree'.above \in [Entry -> SUBSET Entry]
        /\ walkDone' \in BOOLEAN /\ cancelled' \in BOOLEAN /\ runs' \in 0 .. MaxRuns
    BY <1>4 DEF TypeOK
  <2> HIDE DEF VisitFile, Called, TInv
  <2>4. pc' \in {"off", "walk", "final", "mark"} /\ failures' \in 0 .. 2
    BY <1>3, <2>2
  <2>5. cut' \in BOOLEAN
    BY <1>3, <2>2, Zenon
  <2> QED BY <2>1, <2>3, <2>4, <2>5 DEF TypeOK
<1>7. Ahead'
  BY <1>1, <1>2, <1>4, <1>5 DEF Ahead
<1>8. Outcome' /\ Kept'
  BY <1>3, <1>4, <1>5 DEF Outcome, Kept
<1> QED BY <1>6, <1>7, <1>8

LEMMA EndInvariant ==
  ASSUME TInv, WalkCancelled \/ WalkDirEnds \/ FinalFlush \/ MarkWalkComplete
  PROVE  TInv'
<1> USE DEF TInv
<1>1. CASE WalkCancelled
  <2> USE <1>1 DEF WalkCancelled, Flush
  <2>1. TypeOK'
    BY DEF TypeOK, Kept
  <2>2. Ahead'
    BY DEF Ahead, Wanted
  <2>3. Outcome' /\ Kept'
    BY DEF Outcome, Kept
  <2> QED BY <2>1, <2>2, <2>3
<1>2. CASE WalkDirEnds
  <2> USE <1>2 DEF WalkDirEnds
  <2>1. TypeOK'
    BY DEF TypeOK
  <2>2. Ahead'
    BY DEF Ahead, Wanted
  <2>3. Outcome' /\ Kept'
    BY DEF Outcome, Kept, Ahead, Sure, Wanted
  <2> QED BY <2>1, <2>2, <2>3
<1>3. CASE FinalFlush
  <2> USE <1>3 DEF FinalFlush, Flush
  <2>1. TypeOK'
    BY DEF TypeOK, Kept
  <2>2. Ahead'
    BY DEF Ahead, Wanted
  <2>3. Outcome' /\ Kept'
    BY DEF Outcome, Kept, Sure, Wanted
  <2> QED BY <2>1, <2>2, <2>3
<1>4. CASE MarkWalkComplete
  <2> USE <1>4 DEF MarkWalkComplete
  <2>1. TypeOK'
    BY DEF TypeOK
  <2>2. Ahead'
    BY DEF Ahead, Wanted
  <2>3. Outcome' /\ Kept'
    BY DEF Outcome, Kept, Sure, Wanted
  <2> QED BY <2>1, <2>2, <2>3
<1> QED BY <1>1, <1>2, <1>3, <1>4

LEMMA InterruptInvariant ==
  ASSUME TInv, Cancel \/ Crash
  PROVE  TInv'
<1> USE DEF TInv, Cancel, Crash
<1>1. TypeOK'
  BY DEF TypeOK
<1>2. Ahead' /\ Outcome' /\ Kept'
  BY DEF Ahead, Outcome, Kept, Sure, Wanted, Path
<1> QED BY <1>1, <1>2

LEMMA NextInvariant == TInv /\ [Next]_vars => TInv'
<1> SUFFICES ASSUME TInv, [Next]_vars PROVE TInv'
  OBVIOUS
<1>1. CASE UNCHANGED vars
  BY <1>1 DEF vars, TInv, TypeOK, Ahead, Outcome, Kept, Sure, Wanted, Path
<1> QED BY <1>1, StartInvariant, SkipInvariant, VisitDirectoryInvariant, ReadInvariant,
     VisitFileInvariant, EndInvariant, InterruptInvariant DEF Next, Step

LEMMA Invariant == Spec => []TInv
BY InitInvariant, NextInvariant, PTL DEF Spec

-----------------------------------------------------------------------------

\* Every variable keeps its type; a run has at most two failing inserts.
THEOREM TypeCorrect == Spec => []TypeOK
BY Invariant, PTL DEF TInv

\* Whatever the tree, and however often the walk is interrupted: only wanted
\* files get a row, and a walk marked as complete has all that can be read.
THEOREM WalkRefined == Spec => WalkRefinement
<1> USE DEF FileWalkSpec!Record, FileWalkSpec!Finish, FileWalkSpec!vars
<1>1. Init => FileWalkSpec!Init
  BY DEF Init, FileWalkSpec!Init, Sure
<1>2. ASSUME TInv, [Next]_vars, TInv'
      PROVE  [FileWalkSpec!Record \/ FileWalkSpec!Finish]_<<Wanted, Sure, files, walkDone>>
  <2>1. UNCHANGED tree
    BY <1>2 DEF Next, Step, vars, Start, SkipRoot, SkipExcluded, SkipOther, SkipUnreadable, Skip,
       VisitDirectory, VisitFile, Called, ReadDirectory, ReadDirFails, WalkCancelled, WalkDirEnds,
       FinalFlush, MarkWalkComplete, Cancel, Crash
  <2>2. Wanted' = Wanted /\ Sure' = Sure
    BY <2>1 DEF Wanted, Sure
  <2>3. CASE MarkWalkComplete
    BY <1>2, <2>2, <2>3 DEF MarkWalkComplete, TInv, Outcome
  <2>4. CASE WalkCancelled \/ FinalFlush \/ \E f \in Entry : VisitFile(f)
    <3>1. pc \in {"walk", "final"} /\ UNCHANGED walkDone /\ files \subseteq files'
      BY <2>4 DEF WalkCancelled, FinalFlush, VisitFile, Called, Flush
    <3>2. ~walkDone /\ files' \subseteq Wanted'
      BY <1>2, <3>1 DEF TInv, Outcome, Ahead
    <3> QED BY <2>2, <3>1, <3>2
  <2>5. CASE UNCHANGED <<files, walkDone>>
    BY <2>2, <2>5
  <2> QED BY <1>2, <2>3, <2>4, <2>5 DEF Next, Step, vars, Start, SkipRoot, SkipExcluded, SkipOther,
       SkipUnreadable, Skip, VisitDirectory, Called, ReadDirectory, ReadDirFails, WalkDirEnds,
       Cancel, Crash
<1>3. TInv /\ [Next]_vars /\ TInv'
        => [FileWalkSpec!Record \/ FileWalkSpec!Finish]_<<Wanted, Sure, files, walkDone>>
  BY <1>2
<1> QED BY Invariant, <1>1, <1>3, PTL DEF Spec, WalkRefinement, FileWalkSpec!Spec

\* While the walk goes on its batch is not full, and never more than full.
BatchFits ==
  /\ pc = "walk" => Cardinality(batch) < BatchSize
  /\ pc = "final" => Cardinality(batch) <= BatchSize

LEMMA BatchFitsStep ==
  ASSUME TInv, BatchFits, [Next]_vars
  PROVE  BatchFits'
<1> USE DEF BatchFits
<1>1. IsFiniteSet(batch) /\ Cardinality({}) = 0 /\ BatchSize \in Nat \ {0}
  BY TreesAssumption, BoundsAssumption, FS_Subset, FS_EmptySet DEF TInv, TypeOK
<1>2. CASE Start
  BY <1>1, <1>2 DEF Start
<1>3. ASSUME NEW f \in Entry, VisitFile(f) PROVE BatchFits'
  <2>1. /\ Cardinality(batch) \in Nat
        /\ \/ Cardinality(batch \cup {f}) = Cardinality(batch)
           \/ Cardinality(batch \cup {f}) = Cardinality(batch) + 1
    BY <1>1, FS_AddElement, FS_CardinalityType, Zenon
  <2>2. Cardinality(batch \cup {f}) \in Nat
    BY <2>1
  <2>3. Cardinality(batch) < BatchSize
    BY <1>3 DEF VisitFile, Called
  <2>4. Cardinality(batch \cup {f}) <= BatchSize
    BY <1>1, <2>1, <2>2, <2>3
  <2>5. CASE pc' = "walk"
    <3>1. Cardinality(batch') < BatchSize
      <4>1. CASE batch' = {}
        BY <1>1, <4>1
      <4>2. CASE batch' # {}
        BY <1>3, <2>5, <4>2 DEF VisitFile, Called
      <4> QED BY <4>1, <4>2
    <3> QED BY <2>5, <3>1
  <2>6. CASE pc' # "walk"
    <3>1. batch' = batch \cup {f} \/ batch' = {}
      BY <1>3 DEF VisitFile, Flush
    <3> QED BY <1>1, <2>4, <2>6, <3>1
  <2> QED BY <2>5, <2>6
<1>4. CASE WalkCancelled \/ FinalFlush
  <2>1. pc' # "walk" /\ (batch' = {} \/ batch' = batch) /\ pc \in {"walk", "final"}
    BY <1>4 DEF WalkCancelled, FinalFlush, Flush
  <2>2. Cardinality(batch) \in Nat
    BY <1>1, FS_CardinalityType
  <2> QED BY <1>1, <2>1, <2>2
<1>5. CASE WalkDirEnds
  <2>1. Cardinality(batch) \in Nat
    BY <1>1, FS_CardinalityType
  <2> QED BY <1>1, <1>5, <2>1 DEF WalkDirEnds
<1>6. CASE UNCHANGED batch /\ (pc' = pc \/ pc' \in {"mark", "off"})
  BY <1>6
<1> QED BY <1>2, <1>3, <1>4, <1>5, <1>6 DEF Next, Step, vars, SkipRoot, SkipExcluded, SkipOther,
     SkipUnreadable, Skip, VisitDirectory, Called, ReadDirectory, ReadDirFails, MarkWalkComplete,
     Cancel, Crash

\* However a walk ends, at most one batch of the files it has collected is not
\* recorded: the last one, when its final insert fails as well.
THEOREM NothingCollectedIsLost == Spec => ProgressSaved
<1>1. Init => BatchFits
  BY DEF Init, BatchFits
<1>2. TInv /\ BatchFits /\ [Next]_vars => BatchFits'
  BY BatchFitsStep
<1>3. TInv /\ BatchFits /\ [Next]_vars
        => [FinalFlush =>
              /\ collected \subseteq files' \cup batch' /\ Cardinality(batch') <= BatchSize
              /\ batch' # {} => failures' = (IF cut THEN 2 ELSE 1) /\ pc' = "off"]_vars
  <2> SUFFICES ASSUME TInv, BatchFits, FinalFlush
               PROVE  /\ collected \subseteq files' \cup batch' /\ Cardinality(batch') <= BatchSize
                      /\ batch' # {} => failures' = (IF cut THEN 2 ELSE 1) /\ pc' = "off"
    OBVIOUS
  <2>1. collected \subseteq files' \cup batch' /\ (batch' = {} \/ batch' = batch)
    BY DEF TInv, Kept, TypeOK, FinalFlush, Flush
  <2>2. Cardinality(batch') <= BatchSize
    <3>1. Cardinality(batch) <= BatchSize /\ Cardinality({}) <= BatchSize
      BY BoundsAssumption, FS_EmptySet DEF BatchFits, FinalFlush
    <3> QED BY <2>1, <3>1
  <2>3. batch' # {} => failures' = (IF cut THEN 2 ELSE 1) /\ pc' = "off"
    BY DEF TInv, Kept, TypeOK, FinalFlush, Flush
  <2> QED BY <2>1, <2>2, <2>3
<1> QED BY Invariant, <1>1, <1>2, <1>3, PTL DEF Spec, ProgressSaved

-----------------------------------------------------------------------------
(***************************************************************************)
(* The walk ends.  Of the entries that WalkDir knows none is above another *)
(* one, so that each step takes an entry off those still to be visited,    *)
(* and none ever comes back.                                               *)
(***************************************************************************)

ToVisit == {e \in Entry : Path(e) \cap (todo \cup reading) # {}}

Apart ==
  /\ todo \cap reading = {}
  /\ \A d, e \in todo \cup reading : d \notin tree.above[e]
  /\ collected \cap ToVisit = {}

\* An entry is called back for at most once in a run.
RecordedOnce == \A f \in Entry : VisitFile(f) => f \notin collected

Stage(place) ==
  CASE place = "walk" -> 3
    [] place = "final" -> 2
    [] place = "mark" -> 1
    [] place = "off" -> 0

StepsAhead == 2 * Cardinality(ToVisit) + (IF reading = {} THEN 1 ELSE 0)

Nearer == Stage(pc') < Stage(pc) \/ (pc' = pc /\ StepsAhead' < StepsAhead)

WalkProgress ==
  /\ StepsAhead \in Nat
  /\ Step => Nearer
  /\ pc # "off" => Nearer \/ UNCHANGED <<pc, StepsAhead>>

LEMMA PathFacts ==
  ASSUME tree \in Trees
  PROVE  \A e \in Entry :
           /\ tree.above[e] \subseteq Entry /\ e \notin tree.above[e]
           /\ \A d \in tree.above[e] : tree.above[d] \subseteq tree.above[e]
<1>1. \A e \in Entry : tree.above[e] \subseteq Entry
  BY TreeFacts
<1> QED BY <1>1, AboveAssumption

\* An entry gives way to entries in it, or to none.
LEMMA ToVisitShrinks ==
  ASSUME tree \in Trees, todo \cup reading \subseteq Entry, tree' = tree,
         \A d, c \in todo \cup reading : d \notin tree.above[c],
         NEW e \in todo \cup reading,
         todo' \cup reading' \subseteq ((todo \cup reading) \ {e}) \cup Children(e)
  PROVE  /\ ToVisit' \subseteq ToVisit \ {e} /\ e \in ToVisit
         /\ \A d, c \in todo' \cup reading' : d \notin tree.above[c]
<1>1. Children(e) \subseteq Entry /\ \A c \in Children(e) : tree.above[c] = tree.above[e] \cup {e}
  BY DEF Children
<1>2. ASSUME NEW x \in ToVisit' PROVE x \in ToVisit /\ x # e
  <2>1. PICK y \in Path(x) : y \in todo' \cup reading'
    BY DEF ToVisit, Path
  <2>2. x \in Entry /\ (y = x \/ (y \in tree.above[x] /\ tree.above[y] \subseteq tree.above[x]))
    BY PathFacts DEF ToVisit, Path
  <2>3. CASE y \in (todo \cup reading) \ {e}
    BY <2>2, <2>3 DEF ToVisit, Path
  <2>4. CASE y \in Children(e)
    <3>1. e \in tree.above[y]
      BY <1>1, <2>4
    <3>2. e \in tree.above[x]
      BY <2>2, <3>1
    <3> QED BY <2>2, <3>2, PathFacts DEF ToVisit, Path
  <2> QED BY <2>1, <2>3, <2>4
<1>3. e \in ToVisit
  BY DEF ToVisit, Path
<1>4. ASSUME NEW d \in todo' \cup reading', NEW c \in todo' \cup reading' PROVE d \notin tree.above[c]
  <2>1. CASE c \in Children(e)
    <3>1. tree.above[c] = tree.above[e] \cup {e} /\ e \in Entry /\ e \notin tree.above[e]
      BY <1>1, <2>1, PathFacts
    <3>2. CASE d \in Children(e)
      <4>1. e \in tree.above[d] /\ (d \in tree.above[e] => tree.above[d] \subseteq tree.above[e])
        BY <1>1, <3>1, <3>2, PathFacts
      <4>2. d # e
        BY <3>1, <4>1
      <4> QED BY <3>1, <4>1, <4>2
    <3>3. CASE d \in (todo \cup reading) \ {e}
      BY <3>1, <3>3
    <3> QED BY <3>2, <3>3
  <2>2. CASE c \in (todo \cup reading) \ {e} /\ d \in Children(e)
    <3>1. e \in tree.above[d] /\ c \in Entry
      BY <1>1, <2>2
    <3>2. d \in tree.above[c] => e \in tree.above[c]
      BY <3>1, PathFacts
    <3> QED BY <2>2, <3>2
  <2>3. CASE c \in (todo \cup reading) \ {e} /\ d \in (todo \cup reading) \ {e}
    BY <2>3
  <2> QED BY <2>1, <2>2, <2>3
<1> QED BY <1>2, <1>3, <1>4

LEMMA Finitely ==
  /\ \A S \in SUBSET Entry : Cardinality(S) \in Nat
  /\ \A S, T \in SUBSET Entry : S \subseteq T /\ S # T => Cardinality(S) < Cardinality(T)
<1>1. \A T \in SUBSET Entry : IsFiniteSet(T)
  BY TreesAssumption, FS_Subset
<1>2. \A S \in SUBSET Entry : Cardinality(S) \in Nat
  BY <1>1, FS_CardinalityType
<1>3. ASSUME NEW S \in SUBSET Entry, NEW T \in SUBSET Entry, S \subseteq T, S # T
      PROVE  Cardinality(S) < Cardinality(T)
  <2>1. Cardinality(S) <= Cardinality(T) /\ Cardinality(S) # Cardinality(T)
    BY <1>1, <1>3, FS_Subset
  <2> QED BY <1>2, <2>1
<1> QED BY <1>2, <1>3

LEMMA WalkStep ==
  ASSUME TInv, Apart, [Next]_vars
  PROVE  Apart' /\ (UNCHANGED vars \/ (WalkProgress /\ RecordedOnce))
<1> USE DEF TInv
<1>1. StepsAhead \in Nat /\ StepsAhead' \in Nat
  BY Finitely DEF StepsAhead, ToVisit
<1>2. Stage("walk") = 3 /\ Stage("final") = 2 /\ Stage("mark") = 1 /\ Stage("off") = 0
  BY DEF Stage
<1>3. todo \cup reading \subseteq Entry /\ collected \subseteq Entry
  BY DEF TypeOK
<1>4. CASE \E e \in Entry : Skip(e) \/ VisitFile(e)
  <2>1. PICK e \in Entry : Skip(e) \/ VisitFile(e)
    BY <1>4
  <2>2. /\ pc = "walk" /\ e \in todo /\ reading = {} /\ reading' = {} /\ todo' = todo \ {e}
        /\ tree' = tree /\ collected' \subseteq collected \cup {e}
        /\ pc' = pc \/ pc' = "final"
    BY <2>1 DEF Skip, VisitFile, Called
  <2>3. /\ ToVisit' \subseteq ToVisit \ {e} /\ e \in ToVisit
        /\ \A d, c \in todo' \cup reading' : d \notin tree.above[c]
    BY <1>3, <2>2, ToVisitShrinks DEF Apart
  <2>4. Apart'
    BY <2>2, <2>3 DEF Apart
  <2>5. Cardinality(ToVisit') < Cardinality(ToVisit) /\ Cardinality(ToVisit') \in Nat /\ Cardinality(ToVisit) \in Nat
    BY <2>3, Finitely DEF ToVisit
  <2>6. Nearer
    BY <1>2, <2>2, <2>5 DEF Nearer, StepsAhead
  <2>7. RecordedOnce
    <3>1. \A f \in Entry : VisitFile(f) => f \in todo
      BY DEF VisitFile, Called
    <3>2. todo \subseteq ToVisit
      BY <1>3 DEF ToVisit, Path
    <3> QED BY <3>1, <3>2 DEF RecordedOnce, Apart
  <2> QED BY <1>1, <2>4, <2>6, <2>7 DEF WalkProgress
<1>5. CASE \E d \in Entry : VisitDirectory(d)
  <2>1. PICK d \in Entry : VisitDirectory(d)
    BY <1>5
  <2>2. /\ pc = "walk" /\ d \in todo /\ reading = {} /\ reading' = {d} /\ todo' = todo \ {d}
        /\ tree' = tree /\ collected' = collected /\ pc' = pc
    BY <2>1 DEF VisitDirectory, Called
  <2>3. todo' \cup reading' = todo \cup reading
    BY <2>2
  <2>4. ToVisit' = ToVisit
    BY <2>2, <2>3 DEF ToVisit, Path
  <2>5. Apart'
    BY <2>2, <2>3, <2>4 DEF Apart
  <2>6. Nearer
    BY <1>1, <2>2, <2>4, Finitely DEF Nearer, StepsAhead, ToVisit
  <2>7. RecordedOnce
    BY <2>2 DEF RecordedOnce, VisitFile
  <2> QED BY <1>1, <2>5, <2>6, <2>7 DEF WalkProgress
<1>6. CASE \E d \in Entry : ReadDirectory(d) \/ ReadDirFails(d)
  <2>1. PICK d \in Entry : ReadDirectory(d) \/ ReadDirFails(d)
    BY <1>6
  <2>2. /\ pc = "walk" /\ reading = {d} /\ reading' = {} /\ todo \subseteq todo' /\ todo' \subseteq todo \cup Children(d)
        /\ tree' = tree /\ collected' = collected /\ pc' = pc
    BY <2>1 DEF ReadDirectory, ReadDirFails
  <2>3. d \notin todo /\ d \notin Children(d)
    BY <2>2, PathFacts DEF Apart, Children
  <2>4. /\ ToVisit' \subseteq ToVisit \ {d} /\ d \in ToVisit
        /\ \A e, c \in todo' \cup reading' : e \notin tree.above[c]
    BY <1>3, <2>2, <2>3, ToVisitShrinks DEF Apart
  <2>5. Apart'
    BY <2>2, <2>4 DEF Apart
  <2>6. Cardinality(ToVisit') < Cardinality(ToVisit) /\ Cardinality(ToVisit') \in Nat /\ Cardinality(ToVisit) \in Nat
    BY <2>4, Finitely DEF ToVisit
  <2>7. Nearer
    BY <2>2, <2>6 DEF Nearer, StepsAhead
  <2>8. RecordedOnce
    BY <2>2 DEF RecordedOnce, VisitFile, Called
  <2> QED BY <1>1, <2>5, <2>7, <2>8 DEF WalkProgress
<1>7. CASE WalkCancelled \/ WalkDirEnds \/ FinalFlush \/ MarkWalkComplete \/ Crash
  <2>1. UNCHANGED <<tree, todo, reading, collected>> /\ Stage(pc') < Stage(pc)
    BY <1>2, <1>7 DEF WalkCancelled, WalkDirEnds, FinalFlush, MarkWalkComplete, Crash, TypeOK
  <2>2. Apart'
    BY <2>1 DEF Apart, ToVisit, Path
  <2>3. RecordedOnce
    BY <2>1 DEF RecordedOnce, VisitFile, Called
  <2> QED BY <1>1, <2>1, <2>2, <2>3 DEF WalkProgress, Nearer
<1>8. CASE Cancel
  <2>1. UNCHANGED <<tree, todo, reading, collected, pc>> /\ cancelled' # cancelled
    BY <1>8 DEF Cancel
  <2>2. Apart' /\ StepsAhead' = StepsAhead
    BY <2>1 DEF Apart, ToVisit, Path, StepsAhead
  <2>3. ~Step /\ RecordedOnce
    BY <2>1 DEF Step, RecordedOnce, SkipRoot, SkipExcluded, SkipOther, SkipUnreadable, Skip, VisitDirectory, VisitFile,
       Called, ReadDirectory, ReadDirFails, WalkCancelled, WalkDirEnds, FinalFlush, MarkWalkComplete
  <2> QED BY <1>1, <2>1, <2>2, <2>3 DEF WalkProgress
<1>9. CASE Start
  <2>1. pc = "off" /\ todo' = {Root} /\ reading' = {} /\ collected' = {} /\ tree' = tree
    BY <1>9 DEF Start
  <2>2. Root \notin tree.above[Root]
    BY PathFacts, TreesAssumption
  <2>3. Apart'
    BY <2>1, <2>2 DEF Apart
  <2>4. ~Step /\ RecordedOnce
    BY <2>1 DEF Step, RecordedOnce, SkipRoot, SkipExcluded, SkipOther, SkipUnreadable, Skip, VisitDirectory, VisitFile,
       Called, ReadDirectory, ReadDirFails, WalkCancelled, WalkDirEnds, FinalFlush, MarkWalkComplete
  <2> QED BY <1>1, <2>1, <2>3, <2>4 DEF WalkProgress
<1>10. CASE UNCHANGED vars
  <2>1. Apart'
    BY <1>10 DEF Apart, ToVisit, Path, vars
  <2> QED BY <1>10, <2>1
<1> QED BY <1>4, <1>5, <1>6, <1>7, <1>8, <1>9, <1>10, TreesAssumption
        DEF Next, Step, SkipRoot, SkipExcluded, SkipOther, SkipUnreadable

LEMMA AlwaysApart == Spec => []Apart
<1>1. Init => Apart
  BY DEF Init, Apart, ToVisit
<1>2. TInv /\ Apart /\ [Next]_vars => Apart'
  BY WalkStep
<1> QED BY Invariant, <1>1, <1>2, PTL DEF Spec

\* The walk does not go on for ever, whatever the tree: every step of it comes
\* nearer to its end, and nothing that interrupts it throws it back.
THEOREM WalkAdvances == Spec => [][WalkProgress]_vars
<1>1. TInv /\ Apart /\ [Next]_vars => [WalkProgress]_vars
  BY WalkStep
<1> QED BY Invariant, AlwaysApart, <1>1, PTL DEF Spec

\* No run makes two records of a file.
THEOREM NoFileTwice == Spec => [][RecordedOnce]_vars
<1>1. TInv /\ Apart /\ [Next]_vars => [RecordedOnce]_vars
  BY WalkStep
<1> QED BY Invariant, AlwaysApart, <1>1, PTL DEF Spec
=============================================================================
