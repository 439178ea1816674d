----------------------------- MODULE Deletions -----------------------------
(***************************************************************************)
(* Marking duplicates and deleting them: table deletions of db/ with the   *)
(* programs that share it.  `finddups review` (cmd/review.go) marks file   *)
(* by file, the web handlers of api/handlers.go mark a whole group in one  *)
(* transaction, withdraw a mark and execute all marks, `finddups delete`   *)
(* (cmd/delete.go) lists the marks, asks, and executes them.  Any number   *)
(* of reviewers and of executing sessions run at once, each a sequence of  *)
(* single SQL statements and file removals, and each may be killed.        *)
(***************************************************************************)
EXTENDS Naturals, FiniteSets

CONSTANTS
  File,        \* the files that belong to duplicate groups
  Group,       \* the duplicate groups: disjoint sets of files
  Keeper,      \* Keeper[g]: the files that users may choose to keep of g
  Stubborn,    \* files whose removal may fail though they exist
  Unmarkable,  \* files whose mark a user may withdraw
  Reviewer,    \* processes of `finddups review`
  Session,     \* executions: web requests and `finddups delete`
  MaxMarks,    \* bound: rows that the table gets for one file
  MaxRows,     \* bound: rows that the table gets in all
  Faults,      \* what may go wrong: "kill" of a process, "store" operation fails
  NoRow        \* no row of the table

ASSUME GroupAssumption ==
  /\ Group \subseteq SUBSET File
  /\ \A g, h \in Group : g # h => g \cap h = {}
  /\ Keeper \in [Group -> SUBSET File]
  /\ \A g \in Group : Keeper[g] \subseteq g

ASSUME MarksAssumption ==
  /\ MaxMarks \in Nat \ {0}
  /\ MaxRows \in Nat
  /\ Faults \subseteq {"kill", "store"}
  /\ NoRow \notin File \X (1 .. MaxMarks)

\* A row of table deletions; AUTOINCREMENT gives no id twice, so the rows of
\* one file are numbered.
Row == File \X (1 .. MaxMarks)
FileOf(row) == row[1]

VARIABLES
  disk,     \* the files that exist
  status,   \* deletions.status of each row, "none" if there is no such row
  marks,    \* marks[f]: the rows ever inserted for f
  marking,  \* marking[r]: the files a reviewer still has to mark
  pc,       \* pc[e]: where a session stands
  todo,     \* todo[e]: the rows it listed and has not dealt with
  current,  \* current[e]: the row whose file it has just tried to remove
  outcome,  \* outcome[e]: what is to be recorded for it
  lost      \* history: the removed files whose record a fault has dropped

table == <<status, marks>>
sessions == <<pc, todo, current, outcome, lost>>
vars == <<disk, status, marks, marking, pc, todo, current, outcome, lost>>

Pending == {row \in Row : status[row] = "pending"}
IsPending(f) == \E row \in Pending : FileOf(row) = f

Init ==
  /\ disk = File
  /\ status = [row \in Row |-> "none"]
  /\ marks = [f \in File |-> 0]
  /\ marking = [r \in Reviewer |-> {}]
  /\ pc = [e \in Session |-> "idle"]
  /\ todo = [e \in Session |-> {}]
  /\ current = [e \in Session |-> NoRow]
  /\ outcome = [e \in Session |-> "none"]
  /\ lost = {}

(***************************************************************************)
(* The statements on the table.                                            *)
(***************************************************************************)

\* Mutant: ON CONFLICT makes the failed row of a file pending again.
InsertRevives(S) ==
  /\ \A f \in S : marks[f] < MaxMarks
  /\ marks' = [f \in File |-> IF f \in S THEN marks[f] + 1 ELSE marks[f]]
  /\ status' = [row \in Row |->
                  IF FileOf(row) \in S /\ (status[row] = "failed" \/ row[2] = marks[FileOf(row)] + 1)
                  THEN "pending" ELSE status[row]]

\* INSERT ... 'pending' ON CONFLICT DO NOTHING, for each file of S.
InsertPending(S) ==
  LET new == {f \in S : ~IsPending(f)}
      inserted == {row \in Row : row[2] <= marks[FileOf(row)]} IN
  /\ Cardinality(inserted) + Cardinality(new) <= MaxRows
  /\ \A f \in new : marks[f] < MaxMarks
  /\ marks' = [f \in File |-> IF f \in new THEN marks[f] + 1 ELSE marks[f]]
  /\ status' = [row \in Row |->
                  IF FileOf(row) \in new /\ row[2] = marks[FileOf(row)] + 1
                  THEN "pending" ELSE status[row]]

\* UNIQUE(file_id, status) of db/migrations.go rejects an update.
Conflict(row, s) ==
  \E other \in Row \ {row} : FileOf(other) = FileOf(row) /\ status[other] = s

\* Mutant: the row is written again if it is gone (INSERT OR REPLACE).
SetStatusUpserts(row, s) ==
  status' = IF Conflict(row, s) THEN status ELSE [status EXCEPT ![row] = s]

\* UPDATE deletions SET status = s WHERE id = row: whatever the status is, and
\* without effect if the row is gone.  The callers ignore a rejected update.
SetStatus(row, s) ==
  status' = IF status[row] = "none" \/ Conflict(row, s) THEN status
            ELSE [status EXCEPT ![row] = s]

\* DELETE FROM deletions WHERE file_id = f AND status = 'pending'
DeletePending(f) ==
  status' = [row \in Row |-> IF row \in Pending /\ FileOf(row) = f THEN "none" ELSE status[row]]

(***************************************************************************)
(* Marking.                                                                *)
(***************************************************************************)

\* Mutant: keep_file_id is not left out.
MarkWholeGroup(g, keep) ==
  /\ keep \in Keeper[g]
  /\ InsertPending(g)
  /\ UNCHANGED <<disk, marking, sessions>>

\* POST /api/groups/:id/mark, in one transaction.
MarkGroupForDeletion(g, keep) ==
  /\ keep \in Keeper[g]
  /\ InsertPending(g \ {keep})
  /\ UNCHANGED <<disk, marking, sessions>>

\* The user of `finddups review` names the file to keep.
ChooseKeeper(r, g, keep) ==
  /\ marking[r] = {}
  /\ keep \in Keeper[g]
  /\ marking' = [marking EXCEPT ![r] = g \ {keep}]
  /\ UNCHANGED <<disk, table, sessions>>

\* The review marks the other files one at a time, and goes on if that fails.
MarkForDeletion(r, f) ==
  /\ f \in marking[r]
  /\ marking' = [marking EXCEPT ![r] = @ \ {f}]
  /\ \/ InsertPending({f})
     \/ "store" \in Faults /\ UNCHANGED table
  /\ UNCHANGED <<disk, sessions>>

\* DELETE /api/deletions/:fileId
UnmarkForDeletion(f) ==
  /\ f \in Unmarkable
  /\ IsPending(f)
  /\ DeletePending(f)
  /\ UNCHANGED <<disk, marks, marking, sessions>>

(***************************************************************************)
(* Executing.                                                              *)
(***************************************************************************)

\* The session reads all pending rows.  `finddups delete` without --yes then
\* shows them and asks; a web request goes on at once.
GetPendingDeletions(e) ==
  /\ pc[e] = "idle"
  /\ Pending # {}
  /\ todo' = [todo EXCEPT ![e] = Pending]
  /\ \E next \in {"confirm", "run"} : pc' = [pc EXCEPT ![e] = next]
  /\ UNCHANGED <<disk, table, marking, current, outcome, lost>>

Confirm(e) ==
  /\ pc[e] = "confirm"
  /\ pc' = [pc EXCEPT ![e] = "run"]
  /\ UNCHANGED <<disk, table, marking, todo, current, outcome, lost>>

\* Mutant: a session that has ended still holds its last row.
EndKeepsCurrent(e) ==
  /\ pc' = [pc EXCEPT ![e] = "idle"]
  /\ todo' = [todo EXCEPT ![e] = {}]
  /\ UNCHANGED <<current, outcome>>

\* The session ends, or is killed: its memory is gone.
End(e) ==
  /\ pc' = [pc EXCEPT ![e] = "idle"]
  /\ todo' = [todo EXCEPT ![e] = {}]
  /\ current' = [current EXCEPT ![e] = NoRow]
  /\ outcome' = [outcome EXCEPT ![e] = "none"]

Decline(e) ==
  /\ pc[e] = "confirm"
  /\ End(e)
  /\ UNCHANGED <<disk, table, marking, lost>>

\* Mutant: the error of os.Remove is ignored.
RemoveIgnoresError(e, row) ==
  /\ pc[e] = "run"
  /\ row \in todo[e]
  /\ disk' \in {disk \ {FileOf(row)}} \cup {disk : f \in Stubborn \cap {FileOf(row)}}
  /\ outcome' = [outcome EXCEPT ![e] = "deleted"]
  /\ pc' = [pc EXCEPT ![e] = "record"]
  /\ todo' = [todo EXCEPT ![e] = @ \ {row}]
  /\ current' = [current EXCEPT ![e] = row]
  /\ UNCHANGED <<table, marking, lost>>

\* Mutant: a file that cannot be removed is tried again.
RemoveRetries(e, row) ==
  /\ pc[e] = "run"
  /\ row \in todo[e]
  /\ \/ /\ FileOf(row) \in disk
        /\ disk' = disk \ {FileOf(row)}
        /\ outcome' = [outcome EXCEPT ![e] = "deleted"]
        /\ todo' = [todo EXCEPT ![e] = @ \ {row}]
     \/ /\ FileOf(row) \notin disk \/ FileOf(row) \in Stubborn
        /\ outcome' = [outcome EXCEPT ![e] = "failed"]
        /\ UNCHANGED <<disk, todo>>
  /\ pc' = [pc EXCEPT ![e] = "record"]
  /\ current' = [current EXCEPT ![e] = row]
  /\ UNCHANGED <<table, marking, lost>>

\* os.Remove: it fails if the file is not there, and may fail otherwise.
RemoveFile(e, row) ==
  /\ pc[e] = "run"
  /\ row \in todo[e]
  /\ \/ /\ FileOf(row) \in disk
        /\ disk' = disk \ {FileOf(row)}
        /\ outcome' = [outcome EXCEPT ![e] = "deleted"]
     \/ /\ FileOf(row) \notin disk \/ FileOf(row) \in Stubborn
        /\ UNCHANGED disk
        /\ outcome' = [outcome EXCEPT ![e] = "failed"]
  /\ pc' = [pc EXCEPT ![e] = "record"]
  /\ todo' = [todo EXCEPT ![e] = @ \ {row}]
  /\ current' = [current EXCEPT ![e] = row]
  /\ UNCHANGED <<table, marking, lost>>

\* The loop goes on with the next row, or ends.
NextDeletion(e) ==
  \/ todo[e] = {} /\ End(e)
  \/ /\ todo[e] # {}
     /\ pc' = [pc EXCEPT ![e] = "run"]
     /\ current' = [current EXCEPT ![e] = NoRow]
     /\ outcome' = [outcome EXCEPT ![e] = "none"]
     /\ UNCHANGED todo

\* The file that the session has removed and not yet recorded.
Unrecorded(e) ==
  {f \in File : pc[e] = "record" /\ outcome[e] = "deleted" /\ FileOf(current[e]) = f}

\* MarkDeleted or MarkDeleteFailed, whose errors are ignored.
RecordOutcome(e) ==
  /\ pc[e] = "record"
  /\ \/ SetStatus(current[e], outcome[e]) /\ UNCHANGED lost
     \/ /\ "store" \in Faults
        /\ lost' = lost \cup Unrecorded(e)
        /\ UNCHANGED status
  /\ NextDeletion(e)
  /\ UNCHANGED <<disk, marks, marking>>

KillSession(e) ==
  /\ "kill" \in Faults
  /\ pc[e] # "idle"
  /\ lost' = lost \cup Unrecorded(e)
  /\ End(e)
  /\ UNCHANGED <<disk, table, marking>>

KillReview(r) ==
  /\ "kill" \in Faults
  /\ marking[r] # {}
  /\ marking' = [marking EXCEPT ![r] = {}]
  /\ UNCHANGED <<disk, table, sessions>>

Work(e) == (\E row \in Row : RemoveFile(e, row)) \/ RecordOutcome(e)

Next ==
  \/ \E g \in Group : \E keep \in g : MarkGroupForDeletion(g, keep)
  \/ \E r \in Reviewer, g \in Group : \E keep \in g : ChooseKeeper(r, g, keep)
  \/ \E r \in Reviewer, f \in File : MarkForDeletion(r, f)
  \/ \E f \in File : UnmarkForDeletion(f)
  \/ \E e \in Session : GetPendingDeletions(e)
  \/ \E e \in Session : Confirm(e)
  \/ \E e \in Session : Decline(e)
  \/ \E e \in Session : Work(e)
  \/ \E e \in Session : KillSession(e)
  \/ \E r \in Reviewer : KillReview(r)

\* A session that runs keeps running; users need not do anything.
Spec == Init /\ [][Next]_vars /\ \A e \in Session : WF_vars(Work(e))

(***************************************************************************)
(* Properties.                                                             *)
(***************************************************************************)

\* Every variable has its type.
TypeOK ==
  /\ disk \subseteq File
  /\ status \in [Row -> {"none", "pending", "deleted", "failed"}]
  /\ marks \in [File -> 0 .. MaxMarks]
  /\ marking \in [Reviewer -> SUBSET File]
  /\ pc \in [Session -> {"idle", "confirm", "run", "record"}]
  /\ todo \in [Session -> SUBSET Row]
  /\ current \in [Session -> Row \cup {NoRow}]
  /\ outcome \in [Session -> {"none", "deleted", "failed"}]
  /\ lost \subseteq File
  /\ \A e \in Session : pc[e] = "record" <=> current[e] # NoRow /\ outcome[e] # "none"

\* Where all users choose the same file to keep, it is never removed, whatever
\* reviews, web requests, withdrawn marks and executions run at once: marking
\* (MarkGroupForDeletion, cmd/review.go) spares it, and executing removes
\* nothing that was not marked.
KeptFilesSurvive == \A g \in Group, k \in File : Keeper[g] = {k} => k \in disk

\* A row says "deleted" only if its file is gone, though MarkDeleted is a
\* statement of its own after os.Remove and several sessions may write one row.
DeletedFilesAreGone ==
  \A row \in Row : status[row] = "deleted" => FileOf(row) \notin disk

\* A file that executions removed is accounted for, whatever sessions overlap,
\* fail or are killed: some row of it has an outcome; or its row is pending, so
\* that the next execution finds it, and the session that removed it is about to
\* record that or was kept from it by a fault.  In particular an update that
\* UNIQUE(file_id, status) rejects (its error is ignored, cmd/delete.go) loses
\* no removal.  The outcome may be "failed": of two sessions with one row the
\* slower does not find the file and may write last.  (Of files whose mark
\* nobody withdraws.)
RemovedIsRecorded ==
  \A f \in File \ (disk \cup Unmarkable) :
    \/ \E row \in Row : FileOf(row) = f /\ status[row] \in {"deleted", "failed"}
    \/ IsPending(f) /\ (f \in lost \/ \E e \in Session : f \in Unrecorded(e))

\* What a step may do to a row.
RowLife ==
  \A row \in Row :
    /\ status[row] = "none" => status'[row] \in {"none", "pending"}
    /\ status[row] = "none" /\ row[2] <= marks[FileOf(row)] => status'[row] = "none"
    /\ status[row] \in {"deleted", "failed"} => status'[row] \in {"deleted", "failed"}

\* A row is pending first, a withdrawn mark does not come back though sessions
\* that listed it still write to it, and a row with an outcome is neither made
\* pending again nor dropped.
MarksLiveOnce == [][RowLife]_vars

\* api/handlers.go line 193, "Marks all files in a group for deletion except the
\* one specified as keep_file_id": the file to keep is then not marked.
KeptFileIsNotMarked ==
  [][\A g \in Group, k \in File : MarkGroupForDeletion(g, k) => ~IsPending(k)']_vars

\* db/queries.go line 494, "updates a deletion record when deletion fails": a row
\* that a session deals with does not stay pending.
ExecutedIsNotPending ==
  \A e \in Session, row \in Row :
    (pc[e] = "run" /\ row \in todo[e]) ~> status[row] # "pending"
=============================================================================
