---------------------------- MODULE OpenDatabase ----------------------------
(***************************************************************************)
(* db/db.go Open and db/migrations.go: every command that opens the        *)
(* database creates what is missing of the schema and applies the          *)
(* migration that gives table deletions its uniqueness constraint.         *)
(* Several commands may open one database at once and mark files as soon   *)
(* as they have opened it; each may be killed or may fail at any           *)
(* statement, and be started again.                                        *)
(*                                                                         *)
(* SQLite in WAL mode: a transaction works on its own draft of the         *)
(* database, there is one writer at a time, the others wait for it until   *)
(* busy_timeout, and readers see what was committed last.                  *)
(***************************************************************************)
EXTENDS Integers, FiniteSets

CONSTANTS
  Process,
  File,          \* the files that get marks
  Status,        \* the values of deletions.status that occur
  MaxId,         \* bound: ids of table deletions
  MaxMishaps,    \* bound: kills and failing statements
  Databases,     \* the databases that may be found
  NoTable, NoOne

Row == [id : 1 .. MaxId, file : File, status : Status]

\* A table with its constraint, its rows and its AUTOINCREMENT counter.
Table == [unique : BOOLEAN, rows : SUBSET Row, seq : 0 .. MaxId]
Database == [deletions : Table \cup {NoTable}, deletions_new : Table \cup {NoTable},
             versions : SUBSET {1}]

Rows(table) == IF table = NoTable THEN {} ELSE table.rows

SameMark(r, s) == r.file = s.file /\ r.status = s.status
NoDuplicates(S) == \A r, s \in S : SameMark(r, s) => r = s
ById(S) == \A r, s \in S : r.id = s.id => r = s

\* What an earlier program, or an earlier start of this one, has left: no row of
\* the old table is numbered twice, and a recorded migration is complete.
ASSUME OpenAssumption ==
  /\ NoTable \notin Table /\ NoOne \notin Process
  /\ MaxId \in Nat /\ MaxMishaps \in Nat /\ "pending" \in Status
  /\ Databases \subseteq Database
  /\ \A d \in Databases :
       /\ d.deletions_new = NoTable
       /\ ById(Rows(d.deletions)) /\ \A r \in Rows(d.deletions) : r.id <= d.deletions.seq
       /\ d.versions # {} => d.deletions # NoTable /\ d.deletions.unique
       /\ d.deletions # NoTable => d.deletions.unique = (d.versions # {})
       /\ d.versions # {} => NoDuplicates(d.deletions.rows)

VARIABLES
  saved,    \* the database as last committed
  writer,   \* the process that holds the write lock
  draft,    \* the database as the writer's transaction sees it
  pc,       \* pc[p]: where Open stands in a process
  mishaps   \* kills and failing statements so far

vars == <<saved, writer, draft, pc, mishaps>>

InTransaction == {"create", "copy", "drop", "rename", "record", "commit"}
Places == {"off", "schema", "versions", "read", "clean", "open", "failed"} \cup InTransaction

Init ==
  /\ saved \in Databases
  /\ draft = saved
  /\ writer = NoOne
  /\ pc = [p \in Process |-> "off"]
  /\ mishaps = 0

Goto(p, from, to) == pc[p] = from /\ pc' = [pc EXCEPT ![p] = to]

\* The transaction of p, if any, is rolled back.
Release(p) ==
  /\ writer' = IF writer = p THEN NoOne ELSE writer
  /\ draft' = IF writer = p THEN saved ELSE draft

\* A command is started, perhaps again after its Open has failed.  One of the
\* pragmas may fail, before anything of the schema is looked at.
Start(p) ==
  /\ pc[p] \in {"off", "failed"}
  /\ \E to \in {"schema", "failed"} : pc' = [pc EXCEPT ![p] = to]
  /\ UNCHANGED <<saved, writer, draft, mishaps>>

\* CREATE TABLE IF NOT EXISTS: it writes, and needs the lock, only if the table
\* is missing.
CreateSchema(p) ==
  /\ Goto(p, "schema", "versions")
  /\ \/ saved.deletions # NoTable /\ UNCHANGED <<saved, draft>>
     \/ /\ saved.deletions = NoTable /\ writer = NoOne
        /\ saved' = [saved EXCEPT !.deletions = [unique |-> FALSE, rows |-> {}, seq |-> 0]]
        /\ draft' = saved'
  /\ UNCHANGED <<writer, mishaps>>

\* Table schema_version is there from now on; while it is missing it counts as
\* empty.
CreateVersionTable(p) ==
  /\ Goto(p, "versions", "read")
  /\ saved.versions = {} => writer = NoOne
  /\ UNCHANGED <<saved, writer, draft, mishaps>>

\* Mutant: the version is not looked at.
ApplyAlways(p) ==
  /\ Goto(p, "read", "clean")
  /\ UNCHANGED <<saved, writer, draft, mishaps>>

\* The migration is applied if it is not recorded at this moment.
GetSchemaVersion(p) ==
  /\ Goto(p, "read", IF 1 \in saved.versions THEN "open" ELSE "clean")
  /\ UNCHANGED <<saved, writer, draft, mishaps>>

(***************************************************************************)
(* The migration, in one transaction.                                      *)
(***************************************************************************)

\* DELETE ... WHERE rowid NOT IN (SELECT MIN(rowid) ... GROUP BY file_id, status):
\* the first statement takes the lock, and sees what is committed by then.
CleanDuplicates(p) ==
  /\ Goto(p, "clean", "create")
  /\ writer = NoOne /\ writer' = p
  /\ draft' = [saved EXCEPT !.deletions.rows =
                 {r \in @ : \A s \in @ : SameMark(r, s) => r.id <= s.id}]
  /\ UNCHANGED <<saved, mishaps>>

\* One more statement of the transaction.
Statement(p, from, to) ==
  /\ Goto(p, from, to)
  /\ UNCHANGED <<saved, writer, mishaps>>

\* Mutant: the new table has no UNIQUE(file_id, status).
CreateSameTable(p) ==
  /\ Statement(p, "create", "copy")
  /\ draft' = [draft EXCEPT !.deletions_new = [unique |-> FALSE, rows |-> {}, seq |-> 0]]

CreateNewTable(p) ==
  /\ Statement(p, "create", "copy")
  /\ draft' = [draft EXCEPT !.deletions_new = [unique |-> TRUE, rows |-> {}, seq |-> 0]]

\* Rows keep their ids; the counter of the new table is that of its last row.
CopyRows(p) ==
  /\ Statement(p, "copy", "drop")
  /\ \E last \in 0 .. MaxId :
       /\ \A r \in draft.deletions.rows : r.id <= last
       /\ last = 0 \/ \E r \in draft.deletions.rows : r.id = last
       /\ draft' = [draft EXCEPT !.deletions_new.rows = draft.deletions.rows,
                                 !.deletions_new.seq = last]

\* Mutant: the statement is not part of the transaction.
DropAtOnce(p) ==
  /\ Goto(p, "drop", "rename")
  /\ draft' = [draft EXCEPT !.deletions = NoTable]
  /\ saved' = draft'
  /\ UNCHANGED <<writer, mishaps>>

DropOldTable(p) ==
  /\ Statement(p, "drop", "rename")
  /\ draft' = [draft EXCEPT !.deletions = NoTable]

RenameNewTable(p) ==
  /\ Statement(p, "rename", "record")
  /\ draft' = [draft EXCEPT !.deletions = draft.deletions_new, !.deletions_new = NoTable]

\* Mutant: no deferred Rollback; the connection goes back with its transaction.
FailInTransaction(p) ==
  /\ pc' = [pc EXCEPT ![p] = "failed"]
  /\ UNCHANGED <<saved, writer, draft, mishaps>>

\* Open returns an error, after the deferred Rollback.
Fail(p) ==
  /\ pc' = [pc EXCEPT ![p] = "failed"]
  /\ Release(p)
  /\ UNCHANGED <<saved, mishaps>>

\* INSERT INTO schema_version: the version is the primary key.
RecordVersion(p) ==
  \/ /\ 1 \notin draft.versions
     /\ Statement(p, "record", "commit")
     /\ draft' = [draft EXCEPT !.versions = {1}]
  \/ /\ 1 \in draft.versions
     /\ pc[p] = "record"
     /\ Fail(p)

Commit(p) ==
  /\ Goto(p, "commit", "open")
  /\ saved' = draft
  /\ writer' = NoOne
  /\ UNCHANGED <<draft, mishaps>>

\* Another process holds the lock for longer than busy_timeout.
Busy(p) ==
  /\ \/ pc[p] = "schema" /\ saved.deletions = NoTable
     \/ pc[p] = "versions" /\ saved.versions = {}
     \/ pc[p] = "clean"
  /\ writer \notin {NoOne, p}
  /\ Fail(p)

(***************************************************************************)
(* The others, and mishaps.                                                *)
(***************************************************************************)

\* INSERT ... 'pending' ON CONFLICT DO NOTHING, by a process that has opened the
\* database.
Mark(p, f) ==
  /\ pc[p] = "open" /\ writer = NoOne
  /\ saved.deletions.seq < MaxId
  /\ LET row == [id |-> saved.deletions.seq + 1, file |-> f, status |-> "pending"]
         conflict == saved.deletions.unique /\ \E r \in saved.deletions.rows : SameMark(r, row)
     IN saved' = IF conflict THEN saved
                 ELSE [saved EXCEPT !.deletions.rows = @ \cup {row}, !.deletions.seq = row.id]
  /\ draft' = saved'
  /\ UNCHANGED <<writer, pc, mishaps>>

\* The process is killed, fails at a statement, or ends.
Stop(p) ==
  /\ pc[p] # "off"
  /\ mishaps < MaxMishaps
  /\ mishaps' = mishaps + 1
  /\ pc' = [pc EXCEPT ![p] = "off"]
  /\ Release(p)
  /\ UNCHANGED saved

Open(p) ==
  \/ CreateSchema(p) \/ CreateVersionTable(p) \/ GetSchemaVersion(p)
  \/ CleanDuplicates(p) \/ CreateNewTable(p) \/ CopyRows(p) \/ DropOldTable(p)
  \/ RenameNewTable(p) \/ RecordVersion(p) \/ Commit(p) \/ Busy(p)

Next ==
  \/ \E p \in Process : Start(p) \/ Open(p) \/ Stop(p)
  \/ \E p \in Process, f \in File : Mark(p, f)

\* A process that opens the database goes on; nobody need start one.
Spec == Init /\ [][Next]_vars /\ \A p \in Process : WF_vars(Open(p))

(***************************************************************************)
(* Properties.                                                             *)
(***************************************************************************)

\* Every variable has its type, and the lock belongs to the transaction that is
\* going on.
TypeOK ==
  /\ saved \in Database /\ draft \in Database
  /\ writer \in Process \cup {NoOne}
  /\ pc \in [Process -> Places]
  /\ mishaps \in 0 .. MaxMishaps
  /\ \A p \in Process : writer = p <=> pc[p] \in InTransaction

\* What db/queries.go relies on when it inserts ON CONFLICT DO NOTHING: in a
\* database that some process has opened no file has two rows of one status,
\* whoever migrated it, however often, and whatever was in it.
OpenedIsUnique ==
  (\E p \in Process : pc[p] = "open") =>
    saved.deletions.unique /\ NoDuplicates(saved.deletions.rows)

\* Of the rows for one file and status the earliest stays, whatever process is
\* stopped at whatever statement of the migration, and also when a process that
\* read the version too early migrates a second time what others use.
MarksSurvive ==
  [][\A r \in Rows(saved.deletions) :
       \E s \in Rows(saved'.deletions) : SameMark(r, s) /\ s.id <= r.id]_vars

\* db/migrations.go line 25, "safe to run multiple times": Open may fail for a
\* process that finds another one migrating, but one that has set its pragmas and
\* comes to the schema when the version is recorded opens the database (or is
\* stopped).
LaterOpenSucceeds ==
  \A p \in Process : (pc[p] = "schema" /\ 1 \in saved.versions) ~> pc[p] \in {"open", "off"}
=============================================================================
