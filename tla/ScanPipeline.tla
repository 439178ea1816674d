---------------------------- MODULE ScanPipeline ----------------------------
(***************************************************************************)
(* `finddups scan`: scanner/pipeline.go RunPipeline with Walk, PartialHash *)
(* and FullHash, over the tables files, dup_groups and scan_state of db/.  *)
(* A run may be interrupted (Ctrl-C, seen as ctx.Done), killed, or stopped *)
(* by a failing store operation, and started again on the same database.   *)
(*                                                                         *)
(* A hash is modelled by what it distinguishes: the full hash of a file is *)
(* its content, the partial hash of a large file the representative of all *)
(* contents with the same first and last 8 KB (no xxHash64 collisions).    *)
(* The files do not change while the scan is going on.                     *)
(***************************************************************************)
EXTENDS DiskFiles, Functions

CONSTANTS
  Head,         \* Head[c]: what the partial hash keeps of a large content c
  PartialSize,  \* up to this size the partial hash reads everything (8 KB)
  WalkBatch,    \* rows per insert transaction (500)
  HashBatch,    \* rows per hashing round (1000)
  MaxRuns,      \* bound: number of times the command is started
  Faults,       \* what may go wrong: "cancel", "crash", "store"
  None          \* NULL in a text column

ASSUME HashAssumption ==
  Head \in [Content -> Content] /\ PartialSize \in Nat /\ None \notin Content

ASSUME BoundsAssumption ==
  /\ WalkBatch \in Nat \ {0}
  /\ HashBatch \in Nat \ {0}
  /\ MaxRuns \in Nat \ {0}
  /\ Faults \subseteq {"cancel", "crash", "store"}

VARIABLES
  disk,        \* the files: disk.content[f], disk.inode[f]
  \* The database: it survives a crash, and every write is one transaction.
  files,       \* the rows of table files
  phase,       \* files.phase: 0 seen, 2 partially hashed, 3 resolved
  partial,     \* files.partial_hash
  full,        \* files.full_hash
  errored,     \* rows whose files.error is set
  group,       \* files.dup_group, 0 for NULL
  dupGroups,   \* the rows of table dup_groups
  nextGroup,   \* the AUTOINCREMENT counter of dup_groups
  walkDone,    \* scan_state.walk_done
  counted,     \* the rows that scan_state.total_files and total_bytes count
  \* The running process.
  pc,          \* where RunPipeline stands; "off" when no scan is running
  visited,     \* entries that filepath.WalkDir has called back for
  batch,       \* Walk's batch of records not yet inserted
  candidates,  \* the files handed to processFiles
  cancelled,   \* ctx is done
  \* The environment.
  exit,        \* how the last run ended
  runs         \* how many runs were started

rows == <<files, phase, partial, full, errored>>
groupTable == <<group, dupGroups, nextGroup>>
scanState == <<walkDone, counted>>
walk == <<visited, batch>>
env == <<disk, exit, runs>>
vars == <<disk, files, phase, partial, full, errored, group, dupGroups,
          nextGroup, walkDone, counted, pc, visited, batch, candidates,
          cancelled, exit, runs>>

Places == {"off", "walk", "mark", "sizes_gate", "sizes", "partial_gate",
           "partial", "partial_hashing", "partials", "full_gate", "full",
           "full_hashing", "groups_gate", "groups", "summary"}

SizeOf(f) == Size[disk.content[f]]

\* ComputePartialHash, when the file can be read.
IsSmall(f) == SizeOf(f) <= PartialSize
PartialHashOf(f) == IF IsSmall(f) THEN disk.content[f] ELSE Head[disk.content[f]]

\* Mutant: files without a row are taken for rows at phase 0.
AtPhaseOfAll(p) == {f \in File : phase[f] = p}
AtPhase(p) == {f \in files : phase[f] = p}

Init ==
  /\ disk \in Disks
  /\ files = {}
  /\ phase = [f \in File |-> 0]
  /\ partial = [f \in File |-> None]
  /\ full = [f \in File |-> None]
  /\ errored = {}
  /\ group = [f \in File |-> 0]
  /\ dupGroups = {}
  /\ nextGroup = 1
  /\ walkDone = FALSE
  /\ counted = {}
  /\ pc = "off"
  /\ visited = {}
  /\ batch = {}
  /\ candidates = {}
  /\ cancelled = FALSE
  /\ exit = "none"
  /\ runs = 0

(***************************************************************************)
(* Start and end of a run.                                                 *)
(***************************************************************************)

\* Mutant: a scan of a complete database hashes all its files again.
StartAfresh ==
  /\ pc = "off"
  /\ runs < MaxRuns
  /\ runs' = runs + 1
  /\ pc' = IF walkDone THEN "sizes_gate" ELSE "walk"
  /\ phase' = IF dupGroups = {} THEN phase ELSE [f \in File |-> 0]
  /\ exit' = "none"
  /\ cancelled' = FALSE
  /\ visited' = {} /\ batch' = {} /\ candidates' = {}
  /\ UNCHANGED <<disk, files, partial, full, errored, groupTable, scanState>>

\* Mutant: a resumed scan goes on with full hashing if no row is at phase 0.
StartAtFullHash ==
  /\ pc = "off"
  /\ runs < MaxRuns
  /\ runs' = runs + 1
  /\ pc' = IF ~walkDone THEN "walk" ELSE IF AtPhase(0) = {} THEN "full_gate" ELSE "sizes_gate"
  /\ exit' = "none"
  /\ cancelled' = FALSE
  /\ visited' = {} /\ batch' = {} /\ candidates' = {}
  /\ UNCHANGED <<disk, rows, groupTable, scanState>>

\* Mutant: the mark of a complete walk is not looked at.
NeverComplete == FALSE

IsWalkComplete == walkDone

\* `finddups scan` is started: InitScanState leaves an existing row alone, and
\* IsWalkComplete decides whether the walk is skipped.
Start ==
  /\ pc = "off"
  /\ runs < MaxRuns
  /\ runs' = runs + 1
  /\ pc' = IF IsWalkComplete THEN "sizes_gate" ELSE "walk"
  /\ exit' = "none"
  /\ cancelled' = FALSE
  /\ visited' = {}
  /\ batch' = {}
  /\ candidates' = {}
  /\ UNCHANGED <<disk, rows, groupTable, scanState>>

\* RunPipeline returns; the process ends and its memory is gone.
Return(how) ==
  /\ pc' = "off"
  /\ exit' = how
  /\ visited' = {}
  /\ batch' = {}
  /\ candidates' = {}
  /\ UNCHANGED <<disk, runs, cancelled>>

Proceed(place) ==
  /\ pc' = place
  /\ UNCHANGED <<env, cancelled>>

\* The checks of ctx.Err() between the phases.  What they return is
\* context.Canceled itself, which RunScan turns into a clean exit.
Gate(from, to) ==
  /\ pc = from
  /\ \/ ~cancelled /\ Proceed(to) /\ UNCHANGED <<walk, candidates>>
     \/ cancelled /\ Return("interrupted")
  /\ UNCHANGED <<rows, groupTable, scanState>>

SizesGate == Gate("sizes_gate", "sizes")
PartialGate == Gate("partial_gate", "partial")
FullGate == Gate("full_gate", "full")
GroupsGate == Gate("groups_gate", "groups")

(***************************************************************************)
(* Phase 1: Walk.                                                          *)
(***************************************************************************)

\* INSERT OR IGNORE: a row that is there already keeps its columns.
InsertFileBatch(S) == files' = files \cup S

\* The callback for one regular file: its record joins the batch, unless its
\* stat fails and it is skipped; a full batch is inserted.
WalkVisit(f) ==
  /\ pc = "walk"
  /\ ~cancelled
  /\ f \notin visited
  /\ visited' = visited \cup {f}
  /\ \/ /\ f \in Flaky
        /\ UNCHANGED <<files, batch>>
     \/ /\ Cardinality(batch \cup {f}) < WalkBatch
        /\ batch' = batch \cup {f}
        /\ UNCHANGED files
     \/ /\ Cardinality(batch \cup {f}) >= WalkBatch
        /\ batch' = {}
        /\ InsertFileBatch(batch \cup {f})
  /\ Proceed("walk")
  /\ UNCHANGED <<phase, partial, full, errored, groupTable, scanState, candidates>>

\* The callback, for a file or a directory, finds ctx done: it inserts what it
\* has, ignoring whether that works, and ends the walk with an error that
\* RunPipeline wraps.
WalkCancelled ==
  /\ pc = "walk"
  /\ cancelled
  /\ InsertFileBatch(batch) \/ UNCHANGED files
  /\ Return("failed")
  /\ UNCHANGED <<phase, partial, full, errored, groupTable, scanState>>

\* A full batch cannot be inserted, which ends the walk; the final flush tries
\* once more and inserts it.  (That it fails again is part of StoreError.)
WalkFlushRetried(f) ==
  /\ "store" \in Faults
  /\ runs < MaxRuns
  /\ pc = "walk"
  /\ ~cancelled
  /\ f \notin visited
  /\ Cardinality(batch \cup {f}) >= WalkBatch
  /\ InsertFileBatch(batch \cup {f})
  /\ Return("failed")
  /\ UNCHANGED <<phase, partial, full, errored, groupTable, scanState>>

\* Mutant: the final flush is missing.
WalkLosesLastBatch ==
  /\ pc = "walk"
  /\ visited = File
  /\ batch' = {}
  /\ Proceed("mark")
  /\ UNCHANGED <<rows, groupTable, scanState, visited, candidates>>

\* All entries visited: the rest of the batch is inserted.
WalkFinished ==
  /\ pc = "walk"
  /\ visited = File
  /\ InsertFileBatch(batch)
  /\ batch' = {}
  /\ Proceed("mark")
  /\ UNCHANGED <<phase, partial, full, errored, groupTable, scanState, visited, candidates>>

MarkWalkComplete ==
  /\ pc = "mark"
  /\ walkDone' = TRUE
  /\ counted' = files
  /\ Proceed("sizes_gate")
  /\ UNCHANGED <<rows, groupTable, walk, candidates>>

(***************************************************************************)
(* Phases 2 and 3: sizes and partial hashes.                               *)
(***************************************************************************)

\* GROUP BY size HAVING COUNT(1) = 1, over the rows at phase 0.
UniqueSize(f) == \A g \in AtPhase(0) : SizeOf(g) = SizeOf(f) => g = f

EliminateUniqueSizes ==
  /\ pc = "sizes"
  /\ phase' = [f \in File |->
                 IF f \in AtPhase(0) /\ (SizeOf(f) = 0 \/ UniqueSize(f))
                 THEN 3 ELSE phase[f]]
  /\ Proceed("partial_gate")
  /\ UNCHANGED <<files, partial, full, errored, groupTable, scanState, walk, candidates>>

\* SELECT ... WHERE phase = p ORDER BY size DESC LIMIT HashBatch.
LargestFirst(p) ==
  {c \in SUBSET AtPhase(p) :
     /\ IF Cardinality(AtPhase(p)) <= HashBatch THEN c = AtPhase(p)
                                                ELSE Cardinality(c) = HashBatch
     /\ \A f \in c, g \in AtPhase(p) \ c : SizeOf(f) >= SizeOf(g)}

\* The loop of PartialHash and FullHash takes its next round of candidates,
\* or finds none and ends.
NextRound(p, loop, hashing, after) ==
  /\ pc = loop
  /\ candidates' \in LargestFirst(p)
  /\ Proceed(IF candidates' = {} THEN after ELSE hashing)
  /\ UNCHANGED <<rows, groupTable, scanState, walk>>

PartialHashCandidates == NextRound(0, "partial", "partial_hashing", "partials")
FullHashCandidates == NextRound(2, "full", "full_hashing", "groups_gate")

\* Mutant: the loop ends after one round.
RoundStoredOnce(loop) ==
  \/ /\ ~cancelled
     /\ Proceed(IF loop = "partial" THEN "partials" ELSE "groups_gate")
     /\ candidates' = {}
     /\ UNCHANGED walk
  \/ cancelled /\ Return("failed")

\* After each round the loop checks ctx; its error is wrapped.
RoundStored(loop) ==
  \/ ~cancelled /\ Proceed(loop) /\ candidates' = {} /\ UNCHANGED walk
  \/ cancelled /\ Return("failed")

\* processFiles has hashed all candidates, and the results are stored in one
\* transaction.  A file that cannot be read is resolved with an error.
BatchUpdatePartialHashes ==
  /\ pc = "partial_hashing"
  /\ \E bad \in SUBSET (candidates \cap Flaky) :
       LET good == candidates \ bad
           small == {f \in good : IsSmall(f)}
       IN /\ partial' = [f \in File |-> IF f \in good THEN PartialHashOf(f) ELSE partial[f]]
          /\ full' = [f \in File |-> IF f \in small THEN PartialHashOf(f) ELSE full[f]]
          /\ phase' = [f \in File |-> IF f \in small \cup bad THEN 3
                                      ELSE IF f \in good THEN 2 ELSE phase[f]]
          /\ errored' = errored \cup bad
  /\ RoundStored("partial")
  /\ UNCHANGED <<files, groupTable, scanState>>

\* ctx is done while processFiles still has files to hand out: the caller
\* returns its error, and the hashes computed so far are not stored.
AbandonRound(hashing) ==
  /\ pc = hashing
  /\ cancelled
  /\ Return("failed")
  /\ UNCHANGED <<rows, groupTable, scanState>>

AbandonPartialHashes == AbandonRound("partial_hashing")
AbandonFullHashes == AbandonRound("full_hashing")

\* GROUP BY size, partial_hash HAVING COUNT(1) = 1, over the rows at phase 2.
UniquePartialHash(f) ==
  \A g \in AtPhase(2) : SizeOf(g) = SizeOf(f) /\ partial[g] = partial[f] => g = f

EliminateUniquePartialHashes ==
  /\ pc = "partials"
  /\ phase' = [f \in File |->
                 IF f \in AtPhase(2) /\ UniquePartialHash(f) THEN 3 ELSE phase[f]]
  /\ Proceed("full_gate")
  /\ UNCHANGED <<files, partial, full, errored, groupTable, scanState, walk, candidates>>

(***************************************************************************)
(* Phases 4 and 5: full hashes and duplicate groups.                       *)
(***************************************************************************)

\* Mutant: a file that cannot be read stays at its phase.
ErrorKeepsPhase ==
  /\ pc = "full_hashing"
  /\ \E bad \in SUBSET (candidates \cap Flaky) :
       /\ full' = [f \in File |-> IF f \in candidates \ bad THEN disk.content[f] ELSE full[f]]
       /\ errored' = errored \cup bad
       /\ phase' = [f \in File |-> IF f \in candidates \ bad THEN 3 ELSE phase[f]]
  /\ RoundStored("full")
  /\ UNCHANGED <<files, partial, groupTable, scanState>>

BatchUpdateFullHashes ==
  /\ pc = "full_hashing"
  /\ \E bad \in SUBSET (candidates \cap Flaky) :
       /\ full' = [f \in File |-> IF f \in candidates \ bad THEN disk.content[f] ELSE full[f]]
       /\ errored' = errored \cup bad
  /\ phase' = [f \in File |-> IF f \in candidates THEN 3 ELSE phase[f]]
  /\ RoundStored("full")
  /\ UNCHANGED <<files, partial, groupTable, scanState>>

\* WHERE phase = 3 AND full_hash IS NOT NULL AND error IS NULL
Hashed == {f \in AtPhase(3) : full[f] # None /\ f \notin errored}

KeyOf(f) == <<SizeOf(f), full[f]>>
WithKey(k) == {f \in Hashed : KeyOf(f) = k}

\* Mutant: HAVING COUNT(1) > 1, hard links or not.
KeysOfTwoPaths ==
  {k \in {KeyOf(f) : f \in Hashed} : \E f, g \in WithKey(k) : f # g}

\* Mutant: HAVING COUNT(DISTINCT dev || '-' || inode) > 2.
KeysOfThreeInodes ==
  {k \in {KeyOf(f) : f \in Hashed} : Cardinality({disk.inode[f] : f \in WithKey(k)}) > 2}

\* GROUP BY size, full_hash HAVING COUNT(DISTINCT dev || '-' || inode) > 1
DuplicateKeys ==
  {k \in {KeyOf(f) : f \in Hashed} : \E f, g \in WithKey(k) : disk.inode[f] # disk.inode[g]}

\* The row of dup_groups for the files of one key.
GroupRow(id, k) ==
  [id |-> id, size |-> k[1], hash |-> k[2], count |-> Cardinality(WithKey(k)),
   wasted |-> (Cardinality(WithKey(k)) - 1) * k[1]]

\* Mutant: the rows of dup_groups are not cleared.
MaterializeAgain ==
  /\ pc = "groups"
  /\ \E id \in Bijection(DuplicateKeys, nextGroup .. (nextGroup + Cardinality(DuplicateKeys) - 1)) :
       /\ dupGroups' = dupGroups \cup {GroupRow(id[k], k) : k \in DuplicateKeys}
       /\ group' = [f \in File |->
                      IF f \in Hashed /\ KeyOf(f) \in DuplicateKeys THEN id[KeyOf(f)] ELSE 0]
  /\ nextGroup' = nextGroup + Cardinality(DuplicateKeys)
  /\ Proceed("summary")
  /\ UNCHANGED <<rows, scanState, walk, candidates>>

\* One transaction: the old groups go, the new ones get fresh ids in some
\* order, and the files are linked to them.
MaterializeDupGroups ==
  /\ pc = "groups"
  /\ \E id \in Bijection(DuplicateKeys, nextGroup .. (nextGroup + Cardinality(DuplicateKeys) - 1)) :
       /\ dupGroups' = {GroupRow(id[k], k) : k \in DuplicateKeys}
       /\ group' = [f \in File |->
                      IF f \in Hashed /\ KeyOf(f) \in DuplicateKeys THEN id[KeyOf(f)] ELSE 0]
  /\ nextGroup' = nextGroup + Cardinality(DuplicateKeys)
  /\ Proceed("summary")
  /\ UNCHANGED <<rows, scanState, walk, candidates>>

\* GetDupGroupSummary reads the groups back; then RunPipeline returns nil.
Summarize ==
  /\ pc = "summary"
  /\ Return("ok")
  /\ UNCHANGED <<rows, groupTable, scanState>>

(***************************************************************************)
(* Interruptions.  MaxRuns bounds the runs, so the last of them is left    *)
(* alone: every run before it may be interrupted anywhere.                 *)
(***************************************************************************)

Cancel ==
  /\ "cancel" \in Faults
  /\ pc # "off"
  /\ runs < MaxRuns
  /\ ~cancelled
  /\ cancelled' = TRUE
  /\ UNCHANGED <<env, pc, rows, groupTable, scanState, walk, candidates>>

\* The process is killed between two transactions.
Crash ==
  /\ "crash" \in Faults
  /\ pc # "off"
  /\ runs < MaxRuns
  /\ Return("killed")
  /\ UNCHANGED <<rows, groupTable, scanState>>

\* A store operation fails (a busy or full database): its transaction is
\* rolled back and RunPipeline returns the wrapped error.
StoreError ==
  /\ "store" \in Faults
  /\ pc \in {"walk", "mark", "sizes", "partial", "partial_hashing", "partials",
             "full", "full_hashing", "groups", "summary"}
  /\ runs < MaxRuns
  /\ Return("failed")
  /\ UNCHANGED <<rows, groupTable, scanState>>

\* What the process does by itself.
Step ==
  \/ \E f \in File : WalkVisit(f)
  \/ WalkCancelled
  \/ WalkFinished
  \/ MarkWalkComplete
  \/ SizesGate
  \/ EliminateUniqueSizes
  \/ PartialGate
  \/ PartialHashCandidates
  \/ BatchUpdatePartialHashes
  \/ AbandonPartialHashes
  \/ EliminateUniquePartialHashes
  \/ FullGate
  \/ FullHashCandidates
  \/ BatchUpdateFullHashes
  \/ AbandonFullHashes
  \/ GroupsGate
  \/ MaterializeDupGroups
  \/ Summarize

\* The last run is over: nothing more happens within the bound.
Terminated == pc = "off" /\ runs = MaxRuns /\ UNCHANGED vars

Fault == (\E f \in File : WalkFlushRetried(f)) \/ StoreError \/ Cancel \/ Crash

Next == Start \/ Step \/ Fault \/ Terminated

\* The process is scheduled; the user need not start it again.
Spec == Init /\ [][Next]_vars /\ WF_vars(Step)

(***************************************************************************)
(* Properties.                                                             *)
(***************************************************************************)

Members(i) == {f \in File : group[f] = i}
Report == {Members(i) : i \in {group[f] : f \in File} \ {0}}

\* Every variable has its type; rows that are not there have default columns.
TypeOK ==
  /\ disk \in Disks
  /\ files \subseteq File
  /\ phase \in [File -> {0, 2, 3}]
  /\ partial \in [File -> Content \cup {None}]
  /\ full \in [File -> Content \cup {None}]
  /\ errored \subseteq files
  /\ group \in [File -> Nat]
  /\ nextGroup \in Nat \ {0}
  /\ dupGroups \subseteq [id : Nat \ {0}, size : Nat, hash : Content, count : Nat, wasted : Int]
  /\ walkDone \in BOOLEAN
  /\ counted \subseteq files
  /\ pc \in Places
  /\ visited \subseteq File
  /\ batch \subseteq visited
  /\ candidates \subseteq files
  /\ cancelled \in BOOLEAN
  /\ exit \in {"none", "ok", "interrupted", "failed", "killed"}
  /\ runs \in 0 .. MaxRuns

\* What db/queries.go MaterializeDupGroups links into one group are duplicates,
\* after any sequence of interrupted runs: files of one content, not empty, read
\* without error, and not all hard links to one inode.
GroupsSound ==
  \A S \in Report :
    /\ \A f, g \in S : disk.content[f] = disk.content[g]
    /\ \A f \in S : SizeOf(f) > 0 /\ f \notin errored
    /\ \E f, g \in S : disk.inode[f] # disk.inode[g]

\* A scan that comes to its end has found all duplicates among the recorded
\* files it could read, though every phase drops rows it takes for unique: in
\* however many rounds if it is the first run, or does the walk itself because
\* no run before it completed one; otherwise if one round holds all rows.
Complete ==
  (pc = "summary" \/ exit = "ok") /\ (runs = 1 \/ visited # {} \/ Cardinality(files) <= HashBatch) =>
    Report = DuplicateClasses(disk, files \ errored)

\* scanner/pipeline.go line 19, "It is resumable": the same, for a scan that
\* was interrupted between two hashing rounds and resumed.
ResumeIsComplete ==
  exit = "ok" /\ runs > 1 => Report = DuplicateClasses(disk, files \ errored)

\* The two tables written by MaterializeDupGroups agree, though every run clears
\* them and numbers the groups anew: each group that files are linked to has one
\* row, no other row is left over, and it counts exactly those files and gives
\* their size and hash.
GroupTableConsistent ==
  /\ {row.id : row \in dupGroups} = {group[f] : f \in File} \ {0}
  /\ \A r, s \in dupGroups : r.id = s.id => r = s
  /\ \A row \in dupGroups :
       /\ row.count = Cardinality(Members(row.id))
       /\ \A f \in Members(row.id) : SizeOf(f) = row.size /\ full[f] = row.hash

\* README.md lines 30-31, "Hardlinks (same inode) are excluded since they don't
\* waste space": what MaterializeDupGroups counts as wasted by a group is what
\* keeping only one of its inodes would free.
WastedIsReclaimable ==
  \A row \in dupGroups :
    row.wasted = (Cardinality({disk.inode[f] : f \in Members(row.id)}) - 1) * row.size

\* walk_done is set only when every file that could be read has its row, and
\* the totals stored with it are those of all rows: a walk that was cut short
\* is walked again, for IsWalkComplete is never asked twice.
WalkDoneMeansAllRecorded == walkDone => File \ Flaky \subseteq files /\ counted = files

\* The point of the phases is to read little: a file's head and tail are read
\* only if another file has its size, the rest of a large file only if another
\* file has its size and partial hash.
OnlyCandidatesAreRead ==
  \A f \in files :
    /\ partial[f] # None =>
         \E g \in files \ {f} : SizeOf(g) = SizeOf(f) /\ SizeOf(f) > 0
    /\ full[f] # None /\ ~IsSmall(f) =>
         \E g \in files \ {f} : SizeOf(g) = SizeOf(f) /\ partial[g] = partial[f]

\* A resumed scan "skips already-completed work" (pipeline.go line 19): no file
\* is handed to the workers whose hash is stored or whose error is recorded.
NoWorkTwice ==
  /\ pc = "partial_hashing" => \A f \in candidates : partial[f] = None /\ f \notin errored
  /\ pc = "full_hashing" => \A f \in candidates : full[f] = None /\ f \notin errored

\* Once published, the duplicate sets stay as they are: scanning again gives
\* the groups new ids but does not split, merge or lose one.
PublishedGroupsAreStable == [][Report # {} => Report' = Report]_vars

\* RunScan logs "progress saved" and exits cleanly when a scan was interrupted
\* (cmd/scan.go lines 94-97): Ctrl-C alone never makes the command fail.
InterruptIsClean == [][pc # "off" /\ pc' = "off" => exit' \in {"ok", "interrupted"}]_vars

\* Every run ends, and one that nobody interrupts ends without error.
LastRunCompletes == (pc # "off" /\ runs = MaxRuns) ~> exit = "ok"

\* The walk, here without directories, implements what TreeWalk implements: in
\* particular no row is added once it is marked as complete.
Walked == INSTANCE FileWalk WITH
  wanted <- File, sure <- File \ Flaky, recorded <- files, done <- walkDone
WalkImplemented == Walked!Spec

\* The pipeline implements the abstract scan.
Scan == INSTANCE DupScan WITH report <- Report
ScanRefinement == Scan!Spec
=============================================================================
