------------------------------ MODULE TreeWalk ------------------------------
(***************************************************************************)
(* scanner/walker.go Walk: filepath.WalkDir goes through the tree under    *)
(* the root and calls back for every entry; regular files are collected    *)
(* and inserted in batches; excluded directories, links and special files  *)
(* are skipped, and so is what cannot be read.  The walk may be cancelled, *)
(* killed, or stopped by a failing insert, and is then walked again.       *)
(*                                                                         *)
(* The order in which WalkDir takes the entries plays no role for what is  *)
(* recorded, and is left open.  The tree does not change.                  *)
(***************************************************************************)
EXTENDS Naturals, FiniteSets

CONSTANTS
  Entry,      \* the paths under the root, and the root
  Root,
  Trees,      \* the trees a scan may be started on
  BatchSize,  \* rows per insert transaction (500)
  MaxRuns,    \* bound: number of times the walk is started
  Faults      \* what may go wrong: "cancel", "crash", "store"

\* A tree says for each entry which directories are above it, what Lstat takes
\* it for, whether its name is in ExcludeDirs, and whether reading it may fail.
ASSUME TreesAssumption ==
  /\ IsFiniteSet(Entry) /\ Root \in Entry
  /\ Trees \subseteq [above : [Entry -> SUBSET Entry],
                      kind : [Entry -> {"dir", "file", "link", "special"}],
                      excluded : SUBSET Entry, broken : SUBSET Entry]

ASSUME AboveAssumption ==
  \A t \in Trees, e \in Entry :
    /\ e = Root <=> t.above[e] = {}
    /\ e # Root => Root \in t.above[e]
    /\ \A d \in t.above[e] :
         /\ t.kind[d] = "dir"
         /\ t.above[d] \subseteq t.above[e] \ {d}
         /\ \E c \in {e} \cup t.above[e] : t.above[c] = t.above[d] \cup {d}

ASSUME BoundsAssumption ==
  BatchSize \in Nat \ {0} /\ MaxRuns \in Nat \ {0} /\ Faults \subseteq {"cancel", "crash", "store"}

VARIABLES
  tree,       \* the tree under the root
  files,      \* the paths that have a row in table files
  walkDone,   \* scan_state.walk_done
  pc,         \* where Walk stands: "off", "walk", "final" flush, "mark"
  todo,       \* entries that WalkDir knows and has still to call back for
  reading,    \* the directory that WalkDir is about to read, if any
  batch,      \* records not yet inserted
  collected,  \* the files that this run has made a record of
  cut,        \* WalkDir has returned an error
  failures,   \* inserts of this run that have failed
  cancelled,  \* ctx is done
  runs        \* how many runs were started

vars == <<tree, files, walkDone, pc, todo, reading, batch, collected, cut, failures, cancelled, runs>>

Children(d) == {e \in Entry : tree.above[e] = tree.above[d] \cup {d}}

Init ==
  /\ tree \in Trees
  /\ files = {} /\ walkDone = FALSE
  /\ pc = "off" /\ todo = {} /\ reading = {} /\ batch = {} /\ collected = {}
  /\ cut = FALSE /\ failures = 0 /\ cancelled = FALSE
  /\ runs = 0

\* RunPipeline walks unless the walk is recorded as complete.
Start ==
  /\ pc = "off"
  /\ ~walkDone
  /\ runs < MaxRuns
  /\ runs' = runs + 1
  /\ pc' = "walk"
  /\ todo' = {Root}
  /\ reading' = {} /\ batch' = {} /\ collected' = {}
  /\ cut' = FALSE /\ failures' = 0 /\ cancelled' = FALSE
  /\ UNCHANGED <<tree, files, walkDone>>

\* A tried insert of the batch with the records of S: it works and the batch is
\* empty, or it fails and the records are kept.
Flush(S) ==
  \/ files' = files \cup batch \cup S /\ batch' = {} /\ UNCHANGED failures
  \/ /\ "store" \in Faults /\ batch \cup S # {}
     /\ batch' = batch \cup S
     /\ failures' = failures + 1
     /\ UNCHANGED files

(***************************************************************************)
(* The callback, for an entry or for a directory that cannot be read.      *)
(***************************************************************************)

Called(e) ==
  /\ pc = "walk" /\ reading = {} /\ e \in todo /\ ~cancelled
  /\ UNCHANGED <<tree, walkDone, cancelled, runs>>

Skip(e) ==
  /\ Called(e)
  /\ todo' = todo \ {e}
  /\ UNCHANGED <<files, pc, reading, batch, collected, cut, failures>>

\* Lstat of the root fails.
SkipRoot == Root \in tree.broken /\ Skip(Root)

\* Mutant: fs.SkipDir for whatever has an excluded name.  For a file, WalkDir
\* leaves out the rest of its directory.
SkipDirForFile(d) ==
  /\ d \in tree.excluded
  /\ Called(d)
  /\ todo' = IF tree.kind[d] = "dir" THEN todo \ {d}
                                     ELSE {e \in todo : tree.above[e] # tree.above[d]}
  /\ UNCHANGED <<files, pc, reading, batch, collected, cut, failures>>

\* fs.SkipDir, also for the root itself.
SkipExcluded(d) == tree.kind[d] = "dir" /\ d \in tree.excluded /\ Skip(d)

\* Links are skipped whether or not they are to be followed: what Lstat takes
\* for a link is not a regular file either.
SkipOther(e) == tree.kind[e] \in {"link", "special"} /\ Skip(e)

\* d.Info fails.
SkipUnreadable(f) == tree.kind[f] = "file" /\ f \in tree.broken /\ Skip(f)

VisitDirectory(d) ==
  /\ Called(d)
  /\ tree.kind[d] = "dir" /\ d \notin tree.excluded
  /\ todo' = todo \ {d}
  /\ reading' = {d}
  /\ UNCHANGED <<files, pc, batch, collected, cut, failures>>

ReadDirectory(d) ==
  /\ pc = "walk" /\ reading = {d}
  /\ todo' = todo \cup Children(d)
  /\ reading' = {}
  /\ UNCHANGED <<tree, files, walkDone, pc, batch, collected, cut, failures, cancelled, runs>>

\* Mutant: a directory that cannot be read is tried again.
ReadDirAgain(d) ==
  /\ pc = "walk" /\ reading = {d} /\ ~cancelled
  /\ d \in tree.broken
  /\ todo' = todo \cup {d}
  /\ reading' = {}
  /\ UNCHANGED <<tree, files, walkDone, pc, batch, collected, cut, failures, cancelled, runs>>

\* The second callback gets the error and skips it; WalkDir goes on with the
\* entries it could read.
ReadDirFails(d) ==
  /\ pc = "walk" /\ reading = {d} /\ ~cancelled
  /\ d \in tree.broken
  /\ \E S \in SUBSET Children(d) : todo' = todo \cup S
  /\ reading' = {}
  /\ UNCHANGED <<tree, files, walkDone, pc, batch, collected, cut, failures, cancelled, runs>>

\* A record joins the batch; a full batch is inserted, and if that fails the
\* walk ends.
VisitFile(f) ==
  /\ Called(f)
  /\ tree.kind[f] = "file"
  /\ todo' = todo \ {f}
  /\ collected' = collected \cup {f}
  /\ \/ /\ Cardinality(batch \cup {f}) < BatchSize
        /\ batch' = batch \cup {f}
        /\ UNCHANGED <<files, pc, cut, failures>>
     \/ /\ Cardinality(batch \cup {f}) >= BatchSize
        /\ Flush({f})
        /\ IF batch' = {} THEN UNCHANGED <<pc, cut>> ELSE pc' = "final" /\ cut' = TRUE
  /\ UNCHANGED reading

\* ctx is done when WalkDir calls back: the batch is inserted, whether or not
\* that works, and the walk ends.
WalkCancelled ==
  /\ pc = "walk" /\ cancelled
  /\ \/ reading = {} /\ todo # {}
     \/ reading # {} /\ reading \subseteq tree.broken
  /\ Flush({})
  /\ pc' = "final" /\ cut' = TRUE
  /\ UNCHANGED <<tree, walkDone, todo, reading, collected, cancelled, runs>>

WalkDirEnds ==
  /\ pc = "walk" /\ reading = {} /\ todo = {}
  /\ pc' = "final"
  /\ UNCHANGED <<tree, files, walkDone, todo, reading, batch, collected, cut, failures, cancelled, runs>>

(***************************************************************************)
(* The end of the walk.                                                    *)
(***************************************************************************)

\* Mutant: the final flush only after a walk without error.
FlushIfComplete ==
  /\ pc = "final"
  /\ IF cut THEN UNCHANGED <<files, batch, failures>> ELSE Flush({})
  /\ pc' = IF cut \/ batch' # {} THEN "off" ELSE "mark"
  /\ UNCHANGED <<tree, walkDone, todo, reading, collected, cut, cancelled, runs>>

\* The batch is inserted whatever WalkDir has returned; an error of either ends
\* the run.
FinalFlush ==
  /\ pc = "final"
  /\ Flush({})
  /\ pc' = IF cut \/ batch' # {} THEN "off" ELSE "mark"
  /\ UNCHANGED <<tree, walkDone, todo, reading, collected, cut, cancelled, runs>>

\* The run goes on with the next phase; no later run walks again.
MarkWalkComplete ==
  /\ pc = "mark"
  /\ walkDone' = TRUE \/ ("store" \in Faults /\ UNCHANGED walkDone)
  /\ pc' = "off"
  /\ UNCHANGED <<tree, files, todo, reading, batch, collected, cut, failures, cancelled, runs>>

Cancel ==
  /\ "cancel" \in Faults
  /\ pc # "off" /\ ~cancelled
  /\ cancelled' = TRUE
  /\ UNCHANGED <<tree, files, walkDone, pc, todo, reading, batch, collected, cut, failures, runs>>

\* The process is killed.
Crash ==
  /\ "crash" \in Faults
  /\ pc # "off"
  /\ pc' = "off"
  /\ UNCHANGED <<tree, files, walkDone, todo, reading, batch, collected, cut, failures, cancelled, runs>>

Step ==
  \/ SkipRoot
  \/ \E e \in Entry : SkipExcluded(e) \/ SkipOther(e) \/ SkipUnreadable(e)
  \/ \E e \in Entry : VisitDirectory(e) \/ ReadDirectory(e) \/ ReadDirFails(e)
  \/ \E e \in Entry : VisitFile(e)
  \/ WalkCancelled
  \/ WalkDirEnds
  \/ FinalFlush
  \/ MarkWalkComplete

Next == Start \/ Step \/ Cancel \/ Crash

\* The process is scheduled; the user need not start it again.
Spec == Init /\ [][Next]_vars /\ WF_vars(Step)

(***************************************************************************)
(* Properties.                                                             *)
(***************************************************************************)

\* Every variable has its type.
TypeOK ==
  /\ DOMAIN tree.kind = Entry /\ tree.above \in [Entry -> SUBSET Entry]
  /\ files \subseteq Entry /\ todo \subseteq Entry /\ reading \subseteq Entry
  /\ batch \subseteq collected /\ collected \subseteq Entry
  /\ pc \in {"off", "walk", "final", "mark"}
  /\ walkDone \in BOOLEAN /\ cut \in BOOLEAN /\ cancelled \in BOOLEAN
  /\ failures \in 0 .. 2
  /\ runs \in 0 .. MaxRuns

\* Files in no excluded directory, reached without following a link.
Wanted == {e \in Entry : tree.kind[e] = "file" /\ tree.above[e] \cap tree.excluded = {}}
Sure == {e \in Wanted : ({e} \cup tree.above[e]) \cap tree.broken = {}}

\* scanner/walker.go line 24, "It is resumable": whatever interrupted runs have
\* left, only wanted files are recorded, and the walk that is marked as complete
\* has missed none that can be read.
FileWalkSpec == INSTANCE FileWalk WITH
  wanted <- Wanted, sure <- Sure, recorded <- files, done <- walkDone
WalkRefinement == FileWalkSpec!Spec

\* RunScan calls the progress of a run saved (cmd/scan.go line 95): whatever has
\* ended the walk, the files it has collected are in the database, except for at
\* most its last batch.  That is lost only if its final insert fails, which is
\* the second try after a Ctrl-C or a failing insert has cut the walk short, and
\* then the walk is not marked as complete.
ProgressSaved ==
  [][FinalFlush =>
       /\ collected \subseteq files' \cup batch' /\ Cardinality(batch') <= BatchSize
       /\ batch' # {} => failures' = (IF cut THEN 2 ELSE 1) /\ pc' = "off"]_vars

\* The walk ends, with unreadable directories, and however it is interrupted.
WalkEnds == (pc = "walk") ~> (pc = "off")
=============================================================================
