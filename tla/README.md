# A verification of finddups

finddups finds duplicate files in phases (size, partial hash, full hash), keeps all progress in a
SQLite database so that a scan can be interrupted and resumed, and lets users mark duplicates and
delete them, from the command line and from a web page. This directory holds TLA+ models of it, TLC
configurations that check them on small instances, and TLAPS proofs that hold for instances of any size.
`PROJECT.json` lists the runs, the mutants that show each property can fail, the theorems, and for
every definition the lines of code it stands for.

## 1. The system

| Component | Code | State | Operations |
|---|---|---|---|
| Scan pipeline | `scanner/pipeline.go`, `cmd/scan.go` | position in the pipeline, the context | `RunScan`, `RunPipeline` with a check of the context between phases |
| Directory walk | `scanner/walker.go` | batch of up to 500 records | `Walk`: collect, insert, final flush, cancelled flush |
| Hashing | `scanner/hasher.go` | candidates of a round of 1000, results | `PartialHash`, `FullHash`, `ComputePartialHash` |
| Worker pool | `scanner/hasher.go` `processFiles` | two bounded channels, a wait group, `done` | sender, workers, collector |
| File and group tables | `db/db.go`, `db/queries.go` | `files`, `dup_groups`, `scan_state` | insert, eliminate, update hashes, materialize groups |
| Deletion table | `db/queries.go`, `db/migrations.go` | `deletions`, `UNIQUE(file_id, status)` | mark, unmark, list pending, record the outcome |
| `review`, `delete` | `cmd/review.go`, `cmd/delete.go` | the group at hand; the list confirmed | choose the file to keep, mark the rest; list, ask, remove, record |
| Status | `cmd/status.go` | the answers so far | queries one after the other, `inferPhase` |
| Opening and migrating | `db/db.go`, `db/migrations.go` | `schema_version`, a transaction | create the schema, add the constraint, remove old duplicates |
| Web API | `api/handlers.go` | none of its own | list and show groups, mark a group, unmark, execute |
| Server | `cmd/serve.go` | listener, shutdown deadline | serve, graceful shutdown, close the database |
| Front end | `web/static/*` | list, modal, submission state | open, submit, close, reload |
| Listings, templates | `cmd/dupes.go`, `api/template.go` | none | output |

**Interaction.** A scan is one process: `RunPipeline` calls the walk, the eliminations and the two
hashing loops in sequence, and each round of a hashing loop calls `processFiles`, which is the only
concurrent part of it. All that survives the process is in the database; every write to it is one
transaction. `status`, `review`, `delete` and the web server are other processes on the same database:
they read the groups a scan has published and share the table `deletions`. Each of them opens, and if
need be migrates, the database first. A browser page calls the server with requests whose answers may
be late or lost. The file system is shared by all.

**What is hard here.** (1) A scan may be interrupted anywhere, and the next one must do what is
missing and nothing twice: which rows an elimination counts depends on where the previous run stopped.
(2) The worker pool ends in the right order only if sender, workers and collector close their channels
in the right order, with and without cancellation. (3) Marks are made, withdrawn and executed by
processes that do not see each other, from lists read earlier; a removal and its record are two steps.
(4) Errors of single files, directories or statements are skipped, and the rest must stay consistent.
(5) Readers that make several queries, and pages that keep ids, see a database that changes between them.
(6) Several processes may migrate one database at once, and a server may be told to stop in the middle
of an execution.

`PROJECT.json` lists these hazards line by line with the properties that guard against each.

## 2. Modules

| Module | Kind | Stands for |
|---|---|---|
| `DiskFiles` | constants | files, contents, inodes; the definition of a set of duplicates |
| `DupScan` | abstract | the promise of a scan: the partition into duplicates is published at once, and stays |
| `FileWalk` | abstract | the promise of a walk: only wanted files are recorded, and it is complete only when no readable one is missing |
| `ScanPipeline` | detailed | `scan` over its tables, with restarts, interruptions and failing statements |
| `TreeWalk` | detailed | `Walk` over directories, with what it skips and what fails |
| `ScanStatus` | composed | `status` beside a running `ScanPipeline` |
| `HashRound` | abstract | one round of hashing: all results are stored, or none, if it is cancelled or its transaction fails |
| `ProcessFiles` | detailed | the goroutines and channels of `processFiles` and its caller |
| `OpenDatabase` | detailed | several processes that open and migrate one database |
| `Deletions` | detailed | table `deletions` with its reviews, web requests and executions |
| `WebServer` | composed | the life of `serve` around the web requests of `Deletions`, with `delete` and `review` beside it |
| `ReviewPages` | detailed | browser pages, the requests they make, and scans that replace the groups |
| `MC...` | TLC | small disks, trees, databases, groups |
| `...Proofs` | TLAPS | theorems, one module for each detailed module, and `ScanCompleteProofs` |

How they fit together:

* `ScanPipeline` implements `DupScan` (run `ScanRestart`, theorem `Refinement`).
* `TreeWalk` and the walk of `ScanPipeline` both implement `FileWalk` (runs `TreeWalk` and `ScanRestart`, theorems
  `WalkRefined` in two modules). So directories are modelled once, on their own, and the pipeline
  relies on no more than the walk provides: rows of some files, the mark only when none is missing, and
  no row after the mark.
* `ProcessFiles` implements `HashRound` (run `PoolRound`, theorem `RoundStepwise`), and it is the three ends of a
  `HashRound`, storing, abandoning and failing (`RoundStored`, `AbandonRound`, `StoreError`), that `ScanPipeline` takes for a round. So the goroutines are checked
  once, and not in every state of the pipeline.
* `ScanStatus` extends `ScanPipeline`, and `WebServer` extends `Deletions`, with an actor more.
* `OpenDatabase` establishes the constraint on which `Deletions` (`Conflict`, `IsPending`) relies.
* `ReviewPages` justifies the step `MarkGroupForDeletion` of `Deletions`, which takes a group and a file to keep
  as given: by `MarksAreAsShown`, reading a group and marking it later amounts to marking at once what a user saw.

### ScanPipeline

The variables are the database (`files`, the columns `phase`, `partial`, `full`, `errored`, `group`,
the tables `dupGroups` with `nextGroup`, and `scan_state` as `walkDone` and `counted`), the running process
(`pc`, `visited`, `batch`, `candidates`, `cancelled`), and the environment (`disk`, `exit`, `runs`).
`pc` names the place in `RunPipeline`; an action is what happens between two points where another
process can see the database or an interruption can take effect, so one action holds at most one
transaction. The actions carry the names of the functions. `Gate` is a check of `ctx.Err()` between
two phases.

Abstractions, all of data:

* A full hash is the content itself and a partial hash the class of contents that share head and tail:
  xxHash64 collisions are left out, agreement of partial hashes is not. For a small file
  `ComputePartialHash` reads everything, and the row goes from phase 0 to 3 at once, as in the code.
* The device and inode numbers of a file are one value. Names and times play no role.
* The disk does not change during the scans.
* The walk meets the files in any order and any of the `Flaky` files may have no record, or an error
  when it is hashed, each time anew. A cancelled context is noticed by the callback for the next entry,
  file or directory, so `WalkCancelled` may always happen; it may also be noticed after the last entry, by
  the gate.
* Candidates are the largest files of a phase (`ORDER BY size DESC LIMIT`), any of them among equals.
  The counts with which `RunPipeline` skips an empty hashing loop read the same rows as the first
  query of that loop, with nothing in between, so both are `NextRound` finding no candidate.
* `MaterializeDupGroups` is one transaction; new groups get fresh ids in some order.

Faults: `Cancel` (Ctrl-C), `Crash` (a kill between two transactions), `StoreError` (a statement fails
and its transaction is rolled back). `MaxRuns` bounds the number of runs; all but the last may be
interrupted, so that completion of the last one can be stated.

### TreeWalk

A tree says for each entry which directories are above it, what `Lstat` takes it for, whether its name
is in `ExcludeDirs`, and whether it may fail to be read (`broken`). `todo` holds the entries for which `WalkDir`
has still to call back, `reading` the directory it will read next: the callback for a directory comes
before it is read, and a second one if reading fails, after which `WalkDir` goes on with the entries it got.
The order of the callbacks is left open, which allows more than the lexical order of `WalkDir`. The actions
`Skip...` are the early returns of the callback, in the order of the code. `Flush` is the closure of that name, which
keeps the batch when the insert fails; `failures` counts how often that happened, for `ProgressSaved`. Every run may
be cancelled, killed, or meet failing inserts. A final flush that fails loses the last batch, also in a run that was
cut short by nothing else; the walk is then not marked as complete, and the next run walks again.

### ScanStatus

`asking` names the query that `RunStatus` makes next, `answer` what it has so far, `shown` and `found` the phase and the number
of groups it printed last. Queries whose answers are only printed (errors, bytes, pending deletions) are left out. The scan and its
next run move between any two queries.

### ProcessFiles

One variable for each object of the function: the channels `work` and `resultCh` with their closed
flags, what each worker holds, `results`, and `collected` for the channel `done`; `outcome` says how the caller ended the
round: stored, cancelled, or failed, when a statement of the batch update does and its transaction is rolled back. A channel is the set of the
values in its buffer, as the order of files does not matter to any caller; its capacity is the number of
workers, as in the code. The `select` that may take either ready case is the choice between `SendWork`
and the second case of `CloseWork`.

### OpenDatabase

`saved` is the database as last committed, `draft` what the one writing transaction sees. Statements outside
the migration are transactions of their own. A statement that has nothing to write takes no lock
(`CREATE TABLE IF NOT EXISTS` for a table that is there); one that has waits while another holds the lock,
and may give up (`Busy`). The migration's transaction begins without the lock, its first statement takes
it, so it sees what was committed by then, while the version was read before. `Start` fails at once if a pragma does. `Fail` includes the deferred
`Rollback`; a process that failed may be started again. Table `schema_version` is modelled by its rows, a
missing one counting as empty; the tables that the migration does not touch are left out.

### Deletions

Rows of `deletions` are numbered per file; `status` is `"none"` for a row that does not exist (or was
withdrawn: AUTOINCREMENT never gives its number again). `InsertPending` is the `INSERT ... ON CONFLICT DO
NOTHING` of both ways of marking, `SetStatus` the `UPDATE` by which an outcome is recorded, including
that `UNIQUE(file_id, status)` may reject it and that callers ignore this. A `Session` is one run of
`ExecuteDeletions` or of `finddups delete`, which also waits for confirmation. `os.Remove`
and the recording of its outcome are two actions, and other processes, a kill or a failing statement may
come between. `Stubborn` files may fail to be removed. `Unmarkable` files may be unmarked through the
web page, and `Keeper[g]` is what users may decide to keep of a group: with one element, they agree.
Dry runs change nothing and are left out, like the errors of a statement that only reads.
`lost` is a history variable, which no guard reads: the removed files whose outcome was dropped because the update
failed, the store was closed, or the process ended first. It does not take in updates that the constraint rejects, so that `RemovedIsRecorded`
says of those that they lose nothing.

### WebServer

`server` is up, draining after the signal (the listener is closed, running requests are waited for), closing
(`RunServe` returns, and its deferred `store.Close` runs) or down. The sessions are split: those of `Command` are runs of
`finddups delete`, in processes of their own, the others are web requests. Requests still run while the server is closing: they go on
removing files but can record nothing (`RecordOnClosedStore`). Reviews run beside the server, too.

### ReviewPages

Each page is a record of browser state: the ids in its list, whether the modal is open, the form in it,
answers of htmx under way, `SubmissionState`, and its requests to mark a group, which go through the stages of the
handler: sent, group found, marked or refused. `MaterializeDupGroups` may replace all groups at any time. Two scans
need not find the same: `Results` has the possible outcomes, for the database allows two scans at once and the
disk may change between them. Left open, and so more than happens: the order in which htmx delivers answers. On a
404 htmx leaves the modal as it is. The file that the form proposes to keep is left out, as the user may choose any.

## 3. Runs

| Run | Instance | Shows |
|---|---|---|
| `ScanRestart` | 3 files, of which two may fail to be read, each of 5 contents, every linking, all faults, 2 runs; a round takes all candidates | `Complete`: the resumed scan finds every duplicate. `NoWorkTwice`, `PublishedGroupsAreStable`, `WalkDoneMeansAllRecorded`; the run nobody interrupts completes (`LastRunCompletes`); `ScanRefinement`, `WalkImplemented` |
| `ScanRounds` | the same with rounds of one file, all of which may fail to be read, and 4 contents, and status commands | `GroupsSound`, `GroupTableConsistent`, `OnlyCandidatesAreRead` also if a run stops between rounds; `Complete` for a run that is the first or did the walk itself; `CompleteIsResolved`, `StatusNeverGoesBack`, `CountsAddUp`, `ResultsStay` for the status |
| `TreeWalk` | a root, two directories, two files, a link; 288 trees; batches of 2; 2 walks with all faults | `WalkRefinement`, `ProgressSaved`, `WalkEnds` |
| `PoolRound` | 5 files, 2 workers | `EachFileOnce`, `NoSendOnClosed`, `ReturnsAllResults`, `RoundEnds`, `RoundRefinement`; deadlock is checked |
| `OpenDatabase` | 3 processes; a new, a migrated, or an old database with up to 3 rows; one mishap | `OpenedIsUnique`, `MarksSurvive`, `LaterOpenSucceeds` |
| `DeleteServe` | 3 files in one group, one web request, one `finddups delete`, one review, marks withdrawn, kills, failing statements; a server stopped, killed and started again | `KeptFilesSurvive`, `DeletedFilesAreGone`, `RemovedIsRecorded`, `MarksLiveOnce`, `CommandsEnd`, `ShutdownEnds` |
| `ReviewPages` | one page, 2 scans that find `{a,b}` or `{a,c}`, 2 requests at once | `OneSubmission`, `MarksAreAsShown`, `SubmissionEnds`; deadlock is checked |
| `ScanResume` | 2 files, rounds of one | finding: a resumed scan loses duplicates |
| `ScanInterrupt` | 2 files, Ctrl-C only | finding: Ctrl-C makes the command fail |
| `ScanWasted` | 3 files, of which some may be links | finding: a hard link counts as wasted |
| `DeleteRereview`, `DeleteStuck` | 2 files | findings, see section 5 |

The runs also check the type invariants of `ScanPipeline`, `ProcessFiles`, `OpenDatabase`, `Deletions` and `ReviewPages`; those of
`TreeWalk`, `ScanStatus` and `WebServer` are theorems only.

**Bounds.** Three files are enough for a group of two next to an odd one, for a hard link next to a
copy, and for a batch of the walk (2) and its remainder. The contents of `ScanRestart` are an empty one, a
small one, and three large ones of one size of which the partial hash confuses two: with them, each
elimination has rows it drops and rows it must not drop. Two runs let a second run start in
every state a first one can leave. `ScanRounds` has rounds of one file, so that a run has up to three
rounds in each loop. `TreeWalk` has directories beside and below each other, of which any may be excluded or unreadable,
an excluded name that a file has, and two files anywhere, so that one batch is full. `PoolRound` has more files than
the two channels and the workers could hold at once if the collector were slow: 5 files against 2 + 2 + 2 places,
where `work` and `resultCh` are each full in some states. In `OpenDatabase` the third process is one that uses, with new marks, what a first has
migrated and a second migrates again; `MaxId = 4` leaves room for one more row than is found.
`MaxMarks = 2` lets a file be marked again after its first row has an outcome, which is what the uniqueness
constraint is about; `MaxRows = 3` lets one of two files be. Of the two files that are removed one may withstand it and of the other the mark
may be withdrawn. Two executions are enough to list one row twice and to write it in either order. In `ReviewPages` two scans replace the groups under a page once; a second request
is needed for one whose answer was given up; the pages share nothing but the database, so that a second page adds what the other's
marks are, which `UnmarkDeletion` and the next request already do.
Symmetry in the files is used in `ScanRounds` alone: no liveness is checked there, and `File` occurs in no other constant
(`Flaky` is all files). Deadlock is not checked where users may simply stop: `Deletions`, `WebServer`, `TreeWalk`, `OpenDatabase`.

## 4. Fairness

* `ScanPipeline`, `TreeWalk`: `WF(Step)`, the process is scheduled. Nothing is assumed of `Start` or of
  the faults. Reading a file or a directory is assumed to return, with or without an error.
* `ScanStatus`: none; no liveness is stated of it.
* `ProcessFiles`: weak fairness of each goroutine, as the Go scheduler is preemptive. The choice of `select`
  between ready cases needs none: either ends the round.
* `OpenDatabase`: `WF(Open(p))`: a process that opens the database goes on. One that waits for the lock either gets it
  or gives up after `busy_timeout`.
* `Deletions`: weak fairness of a session that executes. Confirming is up to the user.
* `WebServer`: `WF(DeadlinePasses)`, the timer of the shutdown, and `WF(Exit)`. None for the requests, so that `ShutdownEnds` holds though one hangs.
  `CommandsEnd` is about a `finddups delete` of which every `os.Remove` returns, and so has weak fairness of its steps.
* `ReviewPages`: `WF(Settle(p))`: a fetch settles, for the timeouts of the server cut its connection.

## 5. Where code and documentation differ

Runs that must be violated; the trace is what TLC prints for it:

* **A resumed scan can lose duplicates** (`ScanResume`). `EliminateUniqueSizes` counts sizes only among rows
  at phase 0, `EliminateUniquePartialHashes` partial hashes only among rows at phase 2. If a scan stops
  after a round and its twin is still to be hashed, the resumed scan takes the twin for unique and resolves it without a
  hash. It needs more than 1000 candidates and a stop between two rounds; `pipeline.go` line 19 promises
  a resumable scan. `ScanRestart` shows that resuming is right when one round takes all.
* **Ctrl-C makes `scan` fail** (`ScanInterrupt`) unless it falls between phases: `RunScan` compares with
  `context.Canceled`, and `RunPipeline` has wrapped it.
* **Keeping another file later marks everything** (`DeleteRereview`): `MarkGroupForDeletion` does not
  withdraw the mark of the file it is told to keep, so `KeptFilesSurvive` needs users who agree.
* **A second failure is not recorded** (`DeleteStuck`): the row that fails stays pending, for the
  constraint rejects a second failed row of one file and the error is dropped.
* **Hard links count as wasted** (`ScanWasted`): `wasted_bytes` is `(COUNT(*) - 1) * size` over the paths of a group (`GroupRow`,
  `queries.go` line 256), so a link next to a copy adds to it, though README lines 30-31 say that hard links "are excluded since they
  don't waste space", and `queries.go` line 236 that the groups exclude them. Only a group of links alone is left out (`GroupsSound`).

Differences that were met while modelling and are in the actions, but have no run of their own:

* A mark withdrawn while an execution runs, or while `delete` asks, comes too late: the list was read
  before (`RemoveFile` looks at `todo` only).
* `inferPhase` says "Scan complete", with "No duplicates found.", as soon as all rows are resolved, though the groups may not be
  materialized yet, or were not in a run that was interrupted there (`status.go` line 199 says "materialized or no dupes"); its step 5 is
  never in progress. `CompleteIsResolved` is therefore about rows only, and `ResultsStay` begins with the first groups printed.
* A final flush that fails drops the last batch of the walk (`walker.go` lines 133-138), although `scan.go` line 95 calls the progress saved; the
  files are found again by the next walk (`ProgressSaved`, `WalkRefinement`).
* `--follow-symlinks` has no effect (`SkipOther`): a link is not regular for `WalkDir` whatever the option.
* A root that is a link, has an excluded name, or cannot be read yields a complete walk with no files
  (`SkipOther`, `SkipExcluded`, `SkipRoot`), and no later scan walks again. Nor does a scan with another root
  (`InitScanState` leaves the row alone).
* Of two processes that migrate at once the slower one fails to open: `schema_version` has the version
  already (`RecordVersion`). `migrations.go` line 25 says "safe to run multiple times"; `LaterOpenSucceeds` shows in
  what sense it is.
* `state.js` line 22, "Prevent modal close during submission", is without effect: `index.html` loads `app.js`
  after it, whose `function closeModal` replaces the guarded one (`CloseModal`). So a late success also closes the modal
  of another group (`Hear`). `OneSubmission` holds nevertheless.
* `GetGroup` reads the marks file by file, so that a mark committed meanwhile may make it propose a wrong file to keep.
* Executions that overlap can overwrite `deleted` by `failed`, which is why `RemovedIsRecorded` accepts either outcome and no property
  calls an outcome final; and the server's `WriteTimeout` of 15 s loses the answer of an execution that takes longer, while it goes on.

## 6. Proofs

Assumptions are those named in the modules: finitely many files, hard links share their content, sizes
are numbers, batches hold at least one row, groups are disjoint, a tree is one, an old table numbers no row twice. There
is no bound on files, contents, trees, workers, batches, runs, processes, sessions, scans or pages. (`MaxRuns`, `MaxMarks`, `MaxRows`,
`MaxId`, `MaxMishaps`, `MaxScans`, `MaxLoads`, `MaxPosts` are arbitrary numbers.)

* `ScanPipelineProofs`: `TypeCorrect`, `WalkComplete`, `NoRepetition`, `Soundness`, `LittleIsRead`, `WalkRefined`. Soundness is not
  inductive: that two files of a group have one content follows from what the columns of their rows mean. `IInv` adds
  `RowsAgree` (a full hash, if there is one, is the content; a row at phase 2 has its partial hash and no error; a
  row at phase 0 has neither), `CandidatesFit` (what a hashing round has taken is still at the phase it
  was taken from, and by then empty files are gone), `WalkProgress` (before the walk is complete every row is at phase 0,
  and what was visited is in the table or in the batch), and
  `GroupsAgree` (files of one group have one full hash, and two inodes). One lemma per action. `LittleIsRead` adds
  `WorthReading`: between an elimination and its loop, what is left at the phase has a twin.
  `RunsProgress` and `LastRunIsOk` say that a run comes nearer to its end with every step (a measure of
  its place and of the rows left at the phase of the loop; a round that is not empty moves rows on, however many rounds there are), and that a run which
  nobody interrupts ends with "ok".
* `ScanCompleteProofs`: `Completeness`, `Stability`, `TablesAgree`, and `Refinement`, by which every behaviour of
  the pipeline is one of `DupScan` if one hashing round holds all files, or if no run is interrupted. What has to be excluded is that an
  elimination resolves a file that has a twin. `CInv` gives the two reasons why none does. If a round
  takes all candidates, twins go through the phases together (`InStep`). If the run found all rows at phase 0 (`FromStart`: the first run, or one that
  did the walk itself), every row is at phase 0 when sizes are counted, and when partial hashes are counted the
  loop has emptied phase 0 and no large file is hashed yet (`FirstRun`, `LoopsEnd`). Either keeps `NotDropped`,
  from which lemma `PublishedIsAll` concludes that what `MaterializeDupGroups` links is exactly `DuplicateClasses`.
  A run that follows complete ones finds nothing left to do (`LaterRunsRest`).
  After a stop between rounds none of the reasons applies, which is what the run `ScanResume` exhibits.
  Stability needs that groups exist only when all rows are resolved (`Settled`).
* `TreeWalkProofs`: `TypeCorrect`, `WalkRefined`, `NothingCollectedIsLost` (but the last batch, of which `Kept` says when). The invariant follows the entries of a tree: each
  that is wanted and can be reached is recorded, in the batch, still to come, or below a directory that is.
  `WalkAdvances` and `NoFileTwice` rest on `Apart`: of the entries that `WalkDir` knows none is above another one, so each step
  takes one off those to visit, and none comes back. They need of a tree that what is above a directory is
  above what it contains (`AboveAssumption`).
* `ScanStatusProofs`: `CompleteOnlyIfResolved`, `NeverBack`, `SumsAgree`, `ResultsHold`, `StatusTypeCorrect`. What was read
  stays true in the sense needed, since the flag is never taken back, no row is added after it is set, and no row goes back
  to an earlier phase: the invariant `SInv` says of each answer what still holds of the database.
* `ProcessFilesProofs`: `TypeCorrect`, `FilesOnce`, `NoPanic`, `AllReturned` from an invariant that says
  what each place of the calling goroutine knows of the channels; `RoundStepwise`: each step is a step of
  `HashRound` or leaves its variables alone. `PoolNeverBlocks`: whatever is full, empty or closed, and cancelled or not,
  the caller, the collector or a worker can take its next step; it names the guards that hold, as `ENABLED` cannot be used.
  `RoundAdvances`: each of their steps leaves fewer stations ahead of the files and the goroutines.
* `OpenDatabaseProofs`: `TypeCorrect`, `UniqueOnceOpened`, `NoMarkIsLost`. `DInv` says of the saved database that it is sound, and of
  the draft, for each statement of the migration, which of the rows it has where. `MigrationIsAtomic` is the abstract view of the file:
  it changes only by the creation of the table, by one step that leaves exactly the rows that are no repetition, taken once, and by new marks
  (`DraftIsCleaned`). `LaterOpenIsDirect`: a version once recorded stays, and who starts then cannot fail.
* `DeletionsProofs`: of `Deletions`, `TypeCorrect`, `KeptSurvive`, `DeletedGone`. A file on which all agree is in no row, no
  reviewer's list and no session's list (`SoleUntouched`); a session that is about to record
  `"deleted"` holds a row whose file is gone (`OutcomeIsTrue`). `RowsLiveOnce`, `StatusIsUnique`, `RemovedLeaveRows`: rows get their numbers in order
  (`RowsAreNumbered`), what a session holds was marked (`HeldAreMarked`), so a row is never resurrected or made pending again, and no removal is
  without a row unless its mark was withdrawn. `SessionsProgress` is about how a session ends; it alone needs `IsFiniteSet(File)`.
  `RemovalsAreRecorded` needs that nothing else than recording or a fault makes a session forget what it removed (`Accounted`); an update that
  is rejected finds another row of the file with that outcome (`OutcomeIsWritten`). It assumes nothing of how many sessions overlap or what fails.
  All but `SessionsProgress` and `StatusIsUnique` are proved of `WebServer` under names of their own (`Web...`, with `ServerTypeCorrect`; `WebRowsLiveOnce`
  contains the latter), for any number of requests, which any shutdown may overtake, and of commands.
* `ReviewPagesProofs`: `TypeCorrect`, `OneAtATime`, `MarkedAsShown`. Ids are never given again (`IdsAreFresh`), so a form shows the group that
  its id has, or none has it any more (`FormsAreUpToDate`; both are `KnownOrGone`), and a request that found its group found what its form
  shows (`MarksFitTheForm`).

TLC alone covers liveness under fairness, which the provers do not reach, nor do they `ENABLED`. Of five of the seven
properties the part that is safety is a theorem for every instance: a number, or a place and a number, that each step lowers and none
raises (for `LaterOpenSucceeds` the next place), and for `RoundEnds` that some goroutine can always go on.

| Checked by TLC | Proved |
|---|---|
| `LastRunCompletes` | `RunsProgress`, `LastRunIsOk` |
| `RoundEnds` | `PoolNeverBlocks`, `RoundAdvances` |
| `WalkEnds` | `WalkAdvances` |
| `CommandsEnd` | `SessionsProgress`, of all sessions |
| `LaterOpenSucceeds` | `LaterOpenIsDirect` |

`ShutdownEnds` is one timer and one exit, and `SubmissionEnds` one settling fetch, whose guards
are the type invariants: nothing is left to prove of them but fairness. `RoundRefinement` is
proved step by step; the fairness of `HashRound` is left to TLC. All other properties of the
passing runs are theorems.

## 7. Not modelled

* Files that change or vanish between a scan and a removal. `delete` and `ExecuteDeletions` look at nothing but the path, so a model
  would only restate that they do not check.
* Two scans that write one database at the same time. Only what it means for pages is covered (`Results` of `ReviewPages`).
* xxHash64 collisions, and the arithmetic of head and tail in `ComputePartialHash`.
* A machine that stops. The database runs in WAL mode with `synchronous=NORMAL` (`db.go` lines 57-59), so a power failure may take back the
  last transactions; `Crash`, `Kill` and the like are the end of a process, after which all that was committed is there.
* A scan that is killed within `MaterializeDupGroups`: it is one transaction in SQLite and one action here.
* The order of the listings with their filters, output formatting, templates, the image preview, routing, the logging middleware and the
  progress tracker: they keep no state that any of these properties depends on.
