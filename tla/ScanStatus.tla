----------------------------- MODULE ScanStatus -----------------------------
(***************************************************************************)
(* `finddups status` (cmd/status.go RunStatus) next to a scan of the same  *)
(* database.  It makes its queries one after the other, and the scan, or   *)
(* the next run of it, goes on between them; inferPhase then tells where   *)
(* the scan stands from answers of different moments.                      *)
(***************************************************************************)
EXTENDS ScanPipeline

VARIABLES
  asking,  \* the query RunStatus makes next, "off" if it is not running
  answer,  \* what its queries have returned
  shown,   \* the phase that the last status command has printed, 0 before
  found    \* the number of groups it has printed

printed == <<shown, found>>
statusVars == <<asking, answer, printed>>
watchedVars == <<vars, statusVars>>

Nothing == [walkDone |-> FALSE, counts |-> [p \in {0, 2, 3} |-> 0], groups |-> 0]

StatusInit == asking = "off" /\ answer = Nothing /\ shown = 0 /\ found = 0

\* Without a row in scan_state there is nothing to tell.
GetScanState ==
  /\ asking = "off"
  /\ runs > 0
  /\ answer' = [Nothing EXCEPT !.walkDone = walkDone]
  /\ asking' = "counts"
  /\ UNCHANGED printed

\* Mutant: WHERE error IS NULL, which CountFiles has not.
CountWithoutErrors ==
  /\ asking = "counts"
  /\ answer' = [answer EXCEPT !.counts = [p \in {0, 2, 3} |-> Cardinality(AtPhase(p) \ errored)]]
  /\ asking' = "summary"
  /\ UNCHANGED printed

\* SELECT phase, COUNT(1) FROM files GROUP BY phase
CountByPhase ==
  /\ asking = "counts"
  /\ answer' = [answer EXCEPT !.counts = [p \in {0, 2, 3} |-> Cardinality(AtPhase(p))]]
  /\ asking' = "summary"
  /\ UNCHANGED printed

\* COALESCE(COUNT(1), 0), COALESCE(SUM(...), 0) over table dup_groups.
GetDupGroupSummary ==
  /\ asking = "summary"
  /\ answer' = [answer EXCEPT !.groups = Cardinality(dupGroups)]
  /\ asking' = "files"
  /\ UNCHANGED printed

\* Mutant: the walk's flag is not looked at.
PhaseOfCounts(a) ==
  IF a.counts[0] > 0 THEN 3 ELSE IF a.counts[2] > 0 THEN 4 ELSE 6

\* Mutant: rows that wait for their full hash are not looked at.
PhaseWithoutFullHash(a) ==
  IF ~a.walkDone THEN 1 ELSE IF a.counts[0] > 0 THEN 3 ELSE 6

\* 1 walking, 3 partial hashing, 4 full hashing, 6 "Scan complete".
InferPhase(a) ==
  IF ~a.walkDone THEN 1 ELSE IF a.counts[0] > 0 THEN 3 ELSE IF a.counts[2] > 0 THEN 4 ELSE 6

\* The last query, CountFiles, after which everything is printed.
CountFiles ==
  /\ asking = "files"
  /\ shown' = InferPhase(answer)
  /\ found' = answer.groups
  /\ answer' = Nothing
  /\ asking' = "off"

Ask == GetScanState \/ CountByPhase \/ GetDupGroupSummary \/ CountFiles

WatchedNext ==
  \/ Next /\ UNCHANGED statusVars
  \/ Ask /\ UNCHANGED vars

WatchedSpec == Init /\ StatusInit /\ [][WatchedNext]_watchedVars

(***************************************************************************)
(* Properties.                                                             *)
(***************************************************************************)

\* The variables of the status command have their types.
StatusTypeOK ==
  /\ asking \in {"off", "counts", "summary", "files"}
  /\ answer \in [walkDone : BOOLEAN, counts : [{0, 2, 3} -> Nat], groups : Nat]
  /\ shown \in {0, 1, 3, 4, 6}
  /\ found \in Nat

\* cmd/status.go says "Scan complete" only of a scan whose walk is recorded as
\* done and whose rows are all resolved, and this then stays true, although the
\* flag and the counts were read at different moments of a running scan.
CompleteIsResolved ==
  shown = 6 => walkDone /\ \A f \in files : phase[f] = 3

\* Of two status commands the later one never reports an earlier phase: not
\* during a scan, not after an interrupted one, not when it is started again.
StatusNeverGoesBack == [][shown' >= shown]_watchedVars

\* If the walk was seen as done, the counts by phase that make up the progress
\* add up to the number of files printed next to them, though that is asked
\* later and the scan moves rows from phase to phase meanwhile.
CountsAddUp ==
  asking = "files" /\ answer.walkDone =>
    answer.counts[0] + answer.counts[2] + answer.counts[3] = Cardinality(files)

\* Once a status command has printed groups, every later one prints the same
\* number of them and "Scan complete": not half of a result, nor an old one and
\* a new one together, however often the scan is started again.  (Before that a
\* command may print "Scan complete" and "No duplicates found." of a scan that
\* has resolved all rows and is about to write its groups.)
ResultsStay == [][CountFiles /\ found > 0 => shown' = 6 /\ found' = found]_watchedVars
=============================================================================
