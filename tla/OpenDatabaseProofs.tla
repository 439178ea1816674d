------------------------- MODULE OpenDatabaseProofs -------------------------
(***************************************************************************)
(* What db.Open and the migration of db/migrations.go guarantee for any    *)
(* database, any number of processes, and wherever they are stopped.       *)
(***************************************************************************)
EXTENDS OpenDatabase, WellFoundedInduction, TLAPS

Numbered(table) == ById(table.rows) /\ \A r \in table.rows : r.id <= table.seq

\* A database that may be committed.
Sound(db) ==
  /\ db.deletions # NoTable => Numbered(db.deletions)
  /\ db.versions # {} => db.deletions # NoTable /\ db.deletions.unique /\ NoDuplicates(db.deletions.rows)

\* Rows that stand for all that are committed.
Stands(S) ==
  /\ ById(S) /\ NoDuplicates(S)
  /\ \A r \in Rows(saved.deletions) : \E s \in S : SameMark(r, s) /\ s.id <= r.id

\* What the place in Open tells about the committed database.
SavedInv ==
  /\ Sound(saved)
  /\ \A p \in Process :
       /\ pc[p] \notin {"off", "schema", "failed"} => saved.deletions # NoTable
       /\ pc[p] = "open" => saved.versions # {}

\* What it tells about the draft of the writer.
DraftInv ==
  /\ writer = NoOne => draft = saved
  /\ \A p \in Process :
       /\ pc[p] \in {"create", "copy", "drop"} =>
            draft.deletions # NoTable /\ Stands(draft.deletions.rows)
       /\ pc[p] = "copy" => draft.deletions_new # NoTable /\ draft.deletions_new.unique
       /\ pc[p] \in {"drop", "rename"} =>
            /\ draft.deletions_new # NoTable /\ draft.deletions_new.unique
            /\ Stands(draft.deletions_new.rows) /\ Numbered(draft.deletions_new)
       /\ pc[p] \in {"record", "commit"} =>
            /\ draft.deletions # NoTable /\ draft.deletions.unique
            /\ Stands(draft.deletions.rows) /\ Numbered(draft.deletions)
       /\ pc[p] = "commit" => draft.versions = {1}

DInv == TypeOK /\ SavedInv /\ DraftInv

-----------------------------------------------------------------------------

LEMMA Smallest ==
  ASSUME NEW S \in SUBSET Nat, S # {}
  PROVE  \E n \in S : \A m \in S : n <= m
<1>1. IsWellFoundedOn(OpToRel(<, Nat), Nat)
  BY NatLessThanWellFounded
<1>2. PICK n \in S : \A m \in S : ~(<<m, n>> \in OpToRel(<, Nat))
  BY <1>1, WFMin
<1>3. \A m \in S : ~(m < n)
  BY <1>2 DEF OpToRel
<1> QED BY <1>3

\* The statement that removes duplicates keeps a row for each.
LEMMA EarliestStays ==
  ASSUME NEW S \in SUBSET Row, NEW r \in S, MaxId \in Nat
  PROVE  \E s \in S : /\ SameMark(r, s) /\ s.id <= r.id
                      /\ \A q \in S : SameMark(s, q) => s.id <= q.id
<1> DEFINE ids == {s.id : s \in {q \in S : SameMark(r, q)}}
<1>1. ids \in SUBSET Nat /\ r.id \in ids
  BY DEF Row, SameMark
<1>2. PICK n \in ids : \A m \in ids : n <= m
  BY <1>1, Smallest
<1>3. PICK s \in S : SameMark(r, s) /\ s.id = n
  BY <1>2
<1>4. n <= r.id
  BY <1>1, <1>2
<1>5. \A q \in S : SameMark(s, q) => q.id \in ids
  BY <1>3 DEF SameMark
<1> QED BY <1>2, <1>3, <1>4, <1>5

LEMMA CleanedStands ==
  ASSUME NEW S \in SUBSET Row, ById(S), Rows(saved.deletions) = S, MaxId \in Nat
  PROVE  Stands({r \in S : \A s \in S : SameMark(r, s) => r.id <= s.id})
<1> DEFINE C == {r \in S : \A s \in S : SameMark(r, s) => r.id <= s.id}
<1>1. ById(C)
  BY DEF ById
<1>2. NoDuplicates(C)
  <2> SUFFICES ASSUME NEW r \in C, NEW s \in C, SameMark(r, s) PROVE r = s
    BY DEF NoDuplicates
  <2>1. r.id <= s.id /\ s.id <= r.id /\ r.id \in Nat /\ s.id \in Nat
    BY DEF SameMark, Row
  <2> QED BY <2>1 DEF ById
<1>3. \A r \in S : \E s \in C : SameMark(r, s) /\ s.id <= r.id
  BY EarliestStays
<1> HIDE DEF C
<1> QED BY <1>1, <1>2, <1>3 DEF Stands, C

LEMMA InitInvariant == Init => DInv
<1> SUFFICES ASSUME Init PROVE DInv
  OBVIOUS
<1>1. saved \in Database /\ draft = saved /\ \A p \in Process : pc[p] = "off"
  BY OpenAssumption DEF Init
<1>2. TypeOK
  BY <1>1, OpenAssumption DEF Init, TypeOK, Places, InTransaction
<1>3. Sound(saved)
  BY OpenAssumption DEF Init, Sound, Numbered, Rows
<1> QED BY <1>1, <1>2, <1>3 DEF DInv, SavedInv, DraftInv

-----------------------------------------------------------------------------

\* A process leaves Open or goes on, and the database stays.
LEMMA LeaveInvariant ==
  ASSUME DInv, NEW p \in Process, NEW to \in {"off", "failed"},
         pc' = [pc EXCEPT ![p] = to], Release(p), UNCHANGED saved, mishaps' \in 0 .. MaxMishaps
  PROVE  DInv'
<1> USE DEF DInv
<1>1. TypeOK'
  BY OpenAssumption DEF TypeOK, Release, Places, InTransaction
<1>2. SavedInv'
  BY DEF SavedInv, TypeOK
<1>3. DraftInv'
  <2>1. CASE writer = p
    BY <2>1, OpenAssumption DEF DraftInv, TypeOK, Release, InTransaction
  <2>2. CASE writer # p
    BY <2>2 DEF DraftInv, TypeOK, Release, InTransaction, Stands, Rows
  <2> QED BY <2>1, <2>2
<1> QED BY <1>1, <1>2, <1>3

LEMMA ReadInvariant ==
  ASSUME DInv, NEW p \in Process, Start(p) \/ CreateVersionTable(p) \/ GetSchemaVersion(p)
  PROVE  DInv'
<1> USE DEF DInv, Start, CreateVersionTable, GetSchemaVersion, Goto
<1>1. TypeOK'
  BY DEF TypeOK, Places, InTransaction
<1>2. SavedInv'
  BY DEF SavedInv, TypeOK
<1>3. DraftInv'
  BY DEF DraftInv, TypeOK, Stands, Rows
<1> QED BY <1>1, <1>2, <1>3

LEMMA SchemaInvariant ==
  ASSUME DInv, NEW p \in Process, CreateSchema(p)
  PROVE  DInv'
<1> USE DEF DInv
<1>1. /\ pc[p] = "schema" /\ pc' = [pc EXCEPT ![p] = "versions"]
      /\ UNCHANGED <<writer, mishaps>>
  BY DEF CreateSchema, Goto
<1>2. CASE saved.deletions # NoTable
  <2>1. UNCHANGED <<saved, draft>>
    BY <1>2 DEF CreateSchema
  <2>2. TypeOK'
    BY <1>1, <2>1 DEF TypeOK, Places, InTransaction
  <2>3. SavedInv' /\ DraftInv'
    BY <1>1, <1>2, <2>1 DEF SavedInv, DraftInv, TypeOK, Stands, Rows
  <2> QED BY <2>2, <2>3
<1>3. CASE saved.deletions = NoTable
  <2> DEFINE empty == [unique |-> FALSE, rows |-> {}, seq |-> 0]
  <2>1. /\ writer = NoOne /\ draft' = saved'
        /\ saved' = [saved EXCEPT !.deletions = empty]
    BY <1>3 DEF CreateSchema
  <2>2. empty \in Table
    BY OpenAssumption DEF Table
  <2>3. saved' \in Database /\ saved'.deletions = empty /\ saved'.versions = saved.versions
    BY <2>1, <2>2 DEF TypeOK, Database
  <2>4. TypeOK'
    BY <1>1, <2>1, <2>3 DEF TypeOK, Places, InTransaction
  <2>5. saved.versions = {}
    BY <1>3 DEF SavedInv, Sound
  <2>6. Sound(saved')
    BY <2>2, <2>3, <2>5, OpenAssumption DEF Sound, Numbered, ById
  <2>7. SavedInv'
    BY <1>1, <2>2, <2>3, <2>6, OpenAssumption DEF SavedInv, TypeOK
  <2>8. DraftInv'
    BY <1>1, <1>3, <2>1, OpenAssumption DEF DraftInv, SavedInv, TypeOK
  <2> QED BY <2>4, <2>7, <2>8
<1> QED BY <1>2, <1>3

-----------------------------------------------------------------------------
\* The statements of the transaction: they change the draft only.

LEMMA CleanInvariant ==
  ASSUME DInv, NEW p \in Process, CleanDuplicates(p)
  PROVE  DInv'
<1> DEFINE S == saved.deletions.rows
           C == {r \in S : \A s \in S : SameMark(r, s) => r.id <= s.id}
<1> USE DEF DInv
<1>1. /\ pc[p] = "clean" /\ pc' = [pc EXCEPT ![p] = "create"]
      /\ writer = NoOne /\ writer' = p /\ UNCHANGED <<saved, mishaps>>
      /\ draft' = [saved EXCEPT !.deletions.rows = C]
  BY DEF CleanDuplicates, Goto
<1>2. saved.deletions \in Table /\ saved.deletions # NoTable
  BY <1>1 DEF TypeOK, SavedInv, Database
<1>3. S \in SUBSET Row /\ ById(S) /\ Rows(saved.deletions) = S
  BY <1>2 DEF Table, SavedInv, Sound, Numbered, Rows
<1>4. Stands(C)
  BY <1>3, CleanedStands, OpenAssumption
<1>5. C \in SUBSET Row
  BY <1>3
<1> HIDE DEF C
<1>6. [saved.deletions EXCEPT !.rows = C] \in Table
  BY <1>2, <1>5 DEF Table
<1>7. /\ draft' \in Database /\ draft'.deletions # NoTable /\ draft'.deletions.rows = C
  BY <1>1, <1>2, <1>6, OpenAssumption DEF TypeOK, Database, Table
<1>8. TypeOK'
  BY <1>1, <1>7, OpenAssumption DEF TypeOK, Places, InTransaction
<1>9. SavedInv'
  BY <1>1 DEF SavedInv, TypeOK
<1>10. \A T : Stands(T) <=> Stands(T)'
  BY <1>1 DEF Stands, Rows
<1>11. DraftInv'
  <2>1. Stands(draft.deletions.rows)'
    BY <1>4, <1>7, <1>10
  <2>2. writer' # NoOne /\ \A q \in Process \ {p} : pc'[q] \notin InTransaction
    BY <1>1, <1>8, OpenAssumption DEF TypeOK
  <2>3. pc'[p] = "create"
    BY <1>1 DEF TypeOK
  <2> QED BY <1>7, <2>1, <2>2, <2>3 DEF DraftInv, InTransaction
<1> QED BY <1>8, <1>9, <1>11

\* The writer is the only one in a transaction.
LEMMA StatementInvariant ==
  ASSUME DInv, NEW p \in Process, NEW from \in InTransaction, NEW to \in InTransaction,
         Statement(p, from, to), draft' \in Database
  PROVE  /\ TypeOK' /\ SavedInv'
         /\ writer' = p /\ writer' # NoOne
         /\ \A q \in Process \ {p} : pc'[q] \notin InTransaction
         /\ pc'[p] = to
         /\ \A T : Stands(T) <=> Stands(T)'
<1> USE DEF DInv, Statement, Goto
<1>1. TypeOK' /\ pc'[p] = to
  BY DEF TypeOK, Places, InTransaction
<1>2. SavedInv'
  BY DEF SavedInv, TypeOK, InTransaction
<1>3. writer' = p /\ writer' # NoOne
  BY OpenAssumption DEF TypeOK
<1>4. \A q \in Process \ {p} : pc'[q] \notin InTransaction
  BY <1>1, <1>3 DEF TypeOK
<1>5. \A T : Stands(T) <=> Stands(T)'
  BY DEF Stands, Rows
<1> QED BY <1>1, <1>2, <1>3, <1>4, <1>5

LEMMA CreateInvariant ==
  ASSUME DInv, NEW p \in Process, CreateNewTable(p)
  PROVE  DInv'
<1> DEFINE new == [unique |-> TRUE, rows |-> {}, seq |-> 0]
<1>1. /\ Statement(p, "create", "copy") /\ draft' = [draft EXCEPT !.deletions_new = new]
      /\ pc[p] = "create"
  BY DEF CreateNewTable, Statement, Goto
<1>2. new \in Table /\ new # NoTable /\ new.unique
  <2>1. new \in Table
    BY OpenAssumption DEF Table
  <2>2. new.unique
    OBVIOUS
  <2> QED BY <2>1, <2>2, OpenAssumption
<1> HIDE DEF new
<1>3. draft' \in Database /\ draft'.deletions_new = new /\ draft'.deletions = draft.deletions
  BY <1>1, <1>2 DEF DInv, TypeOK, Database
<1>4. draft.deletions # NoTable /\ Stands(draft.deletions.rows)
  BY <1>1 DEF DInv, DraftInv
<1>5. DraftInv'
  BY <1>1, <1>2, <1>3, <1>4, StatementInvariant DEF DraftInv, InTransaction
<1> QED BY <1>1, <1>3, <1>5, StatementInvariant DEF DInv, InTransaction

LEMMA CopyInvariant ==
  ASSUME DInv, NEW p \in Process, CopyRows(p)
  PROVE  DInv'
<1>1. PICK last \in 0 .. MaxId :
        /\ \A r \in draft.deletions.rows : r.id <= last
        /\ draft' = [draft EXCEPT !.deletions_new.rows = draft.deletions.rows,
                                  !.deletions_new.seq = last]
  BY DEF CopyRows
<1>2. Statement(p, "copy", "drop") /\ pc[p] = "copy"
  BY DEF CopyRows, Statement, Goto
<1> DEFINE old == draft.deletions
           new == [draft.deletions_new EXCEPT !.rows = old.rows, !.seq = last]
<1>3. /\ old # NoTable /\ Stands(old.rows)
      /\ draft.deletions_new # NoTable /\ draft.deletions_new.unique
  BY <1>2 DEF DInv, DraftInv
<1>4. old \in Table /\ draft.deletions_new \in Table
  BY <1>3 DEF DInv, TypeOK, Database
<1>5. /\ new \in Table /\ new # NoTable /\ new.unique /\ new.rows = old.rows /\ new.seq = last
  BY <1>3, <1>4, OpenAssumption DEF Table
<1>6. draft' = [draft EXCEPT !.deletions_new = new]
  BY <1>1 DEF DInv, TypeOK, Database
<1> HIDE DEF new
<1>7. draft' \in Database /\ draft'.deletions_new = new /\ draft'.deletions = old
  BY <1>5, <1>6 DEF DInv, TypeOK, Database
<1>8. Numbered(new)
  BY <1>1, <1>3, <1>5 DEF Numbered, Stands
<1>9. DraftInv'
  <2>1. \A T : Stands(T) <=> Stands(T)'
    BY <1>2, <1>7, StatementInvariant DEF InTransaction
  <2>2. Stands(draft.deletions.rows)' /\ Stands(draft.deletions_new.rows)'
    BY <1>3, <1>5, <1>7, <2>1
  <2>3. Numbered(draft.deletions_new)'
    BY <1>7, <1>8
  <2> QED BY <2>2, <2>3, <1>2, <1>3, <1>5, <1>7, <2>1, <1>8, StatementInvariant DEF DraftInv, InTransaction
<1> QED BY <1>2, <1>7, <1>9, StatementInvariant DEF DInv, InTransaction

LEMMA DropInvariant ==
  ASSUME DInv, NEW p \in Process, DropOldTable(p) \/ RenameNewTable(p)
  PROVE  DInv'
<1> DEFINE new == draft.deletions_new
<1>1. CASE DropOldTable(p)
  <2>1. /\ Statement(p, "drop", "rename") /\ pc[p] = "drop"
        /\ draft' = [draft EXCEPT !.deletions = NoTable]
    BY <1>1 DEF DropOldTable, Statement, Goto
  <2>2. draft' \in Database /\ draft'.deletions_new = new
    BY <2>1 DEF DInv, TypeOK, Database
  <2>3. new # NoTable /\ new.unique /\ Stands(new.rows) /\ Numbered(new)
    BY <2>1 DEF DInv, DraftInv
  <2>4. DraftInv'
    BY <2>1, <2>2, <2>3, StatementInvariant DEF DraftInv, InTransaction
  <2> QED BY <2>1, <2>2, <2>4, StatementInvariant DEF DInv, InTransaction
<1>2. CASE RenameNewTable(p)
  <2>1. /\ Statement(p, "rename", "record") /\ pc[p] = "rename"
        /\ draft' = [draft EXCEPT !.deletions = new, !.deletions_new = NoTable]
    BY <1>2 DEF RenameNewTable, Statement, Goto
  <2>2. draft' \in Database /\ draft'.deletions = new
    BY <2>1 DEF DInv, TypeOK, Database
  <2>3. new # NoTable /\ new.unique /\ Stands(new.rows) /\ Numbered(new)
    BY <2>1 DEF DInv, DraftInv
  <2>4. DraftInv'
    BY <2>1, <2>2, <2>3, StatementInvariant DEF DraftInv, InTransaction
  <2> QED BY <2>1, <2>2, <2>4, StatementInvariant DEF DInv, InTransaction
<1> QED BY <1>1, <1>2

LEMMA RecordInvariant ==
  ASSUME DInv, NEW p \in Process, RecordVersion(p), 1 \notin draft.versions
  PROVE  DInv'
<1>1. /\ Statement(p, "record", "commit") /\ pc[p] = "record"
      /\ draft' = [draft EXCEPT !.versions = {1}]
  BY DEF RecordVersion, Statement, Goto
<1>2. draft' \in Database /\ draft'.deletions = draft.deletions /\ draft'.versions = {1}
  BY <1>1 DEF DInv, TypeOK, Database
<1>3. /\ draft.deletions # NoTable /\ draft.deletions.unique
      /\ Stands(draft.deletions.rows) /\ Numbered(draft.deletions)
  BY <1>1 DEF DInv, DraftInv
<1>4. DraftInv'
  BY <1>1, <1>2, <1>3, StatementInvariant DEF DraftInv, InTransaction
<1> QED BY <1>1, <1>2, <1>4, StatementInvariant DEF DInv, InTransaction

\* What the transaction has prepared may be committed.
LEMMA CommitInvariant ==
  ASSUME DInv, NEW p \in Process, Commit(p)
  PROVE  DInv'
<1> USE DEF DInv, Commit, Goto
<1>1. /\ draft.deletions # NoTable /\ draft.deletions.unique /\ draft.versions = {1}
      /\ Stands(draft.deletions.rows) /\ Numbered(draft.deletions)
  BY DEF DraftInv
<1>2. writer = p /\ \A q \in Process : pc'[q] \notin InTransaction
  BY DEF TypeOK, InTransaction
<1>3. TypeOK'
  BY <1>2, OpenAssumption DEF TypeOK, Places, InTransaction
<1>4. Sound(saved')
  BY <1>1 DEF Sound, Stands
<1>5. SavedInv'
  BY <1>1, <1>4 DEF SavedInv, TypeOK
<1>6. DraftInv'
  BY <1>2 DEF DraftInv, InTransaction
<1> QED BY <1>3, <1>5, <1>6

LEMMA MarkInvariant ==
  ASSUME DInv, NEW p \in Process, NEW f \in File, Mark(p, f)
  PROVE  DInv'
<1> DEFINE old == saved.deletions
           row == [id |-> old.seq + 1, file |-> f, status |-> "pending"]
           new == [old EXCEPT !.rows = @ \cup {row}, !.seq = row.id]
<1>1. /\ pc[p] = "open" /\ writer = NoOne /\ old.seq < MaxId
      /\ draft' = saved' /\ UNCHANGED <<writer, pc, mishaps>>
  BY DEF Mark
<1>2. CASE saved' = saved
  <2>1. TypeOK' /\ SavedInv' /\ DraftInv'
    BY <1>1, <1>2 DEF DInv, TypeOK, SavedInv, DraftInv, Stands, Rows, InTransaction
  <2> QED BY <2>1 DEF DInv
<1>3. CASE saved' # saved
  <2>1. /\ saved' = [saved EXCEPT !.deletions.rows = @ \cup {row}, !.deletions.seq = row.id]
        /\ old.unique => \A r \in old.rows : ~SameMark(r, row)
    BY <1>3 DEF Mark
  <2>2. old \in Table /\ old # NoTable /\ Numbered(old)
    BY <1>1 DEF DInv, TypeOK, SavedInv, Sound, Database
  <2>3. row \in Row /\ old.rows \subseteq Row /\ row.id = old.seq + 1 /\ old.seq \in Nat
    BY <1>1, <2>2, OpenAssumption DEF Row, Table
  <2> HIDE DEF row
  <2>4. /\ new \in Table /\ new.rows = old.rows \cup {row} /\ new.seq = row.id /\ new.unique = old.unique
    <3>1. row.id \in 0 .. MaxId
      BY <2>3 DEF Row
    <3>2. old.rows \cup {row} \in SUBSET Row
      BY <2>3
    <3> HIDE DEF row
    <3> QED BY <2>2, <3>1, <3>2 DEF Table
  <2>5. saved' = [saved EXCEPT !.deletions = new]
    BY <2>1 DEF DInv, TypeOK, Database
  <2> HIDE DEF new
  <2>6. /\ saved' \in Database /\ saved'.deletions = new /\ saved'.versions = saved.versions
    BY <2>4, <2>5 DEF DInv, TypeOK, Database
  <2>7. new # NoTable
    BY <2>4, OpenAssumption
  <2>8. Numbered(new)
    BY <2>2, <2>3, <2>4 DEF Numbered, ById, Row
  <2>9. old.unique /\ NoDuplicates(old.rows) => NoDuplicates(new.rows)
    BY <2>1, <2>4 DEF NoDuplicates, SameMark
  <2>10. TypeOK'
    BY <1>1, <2>6 DEF DInv, TypeOK
  <2>11. Sound(saved')
    BY <2>4, <2>6, <2>7, <2>8, <2>9 DEF DInv, SavedInv, Sound
  <2>12. SavedInv'
    BY <1>1, <2>6, <2>7, <2>11 DEF DInv, SavedInv
  <2>13. DraftInv'
    <3>1. \A q \in Process : pc'[q] \notin InTransaction
      BY <1>1, OpenAssumption DEF DInv, TypeOK
    <3> QED BY <1>1, <3>1 DEF DraftInv, InTransaction
  <2> QED BY <2>10, <2>12, <2>13 DEF DInv
<1> QED BY <1>2, <1>3

LEMMA NextInvariant == DInv /\ [Next]_vars => DInv'
<1> SUFFICES ASSUME DInv, [Next]_vars PROVE DInv'
  OBVIOUS
<1>1. CASE UNCHANGED vars
  BY <1>1 DEF vars, DInv, TypeOK, SavedInv, DraftInv, Stands, Rows
<1>2. ASSUME NEW p \in Process, Stop(p) PROVE DInv'
  <2>1. mishaps' \in 0 .. MaxMishaps
    BY <1>2, OpenAssumption DEF Stop, DInv, TypeOK
  <2> QED BY <1>2, <2>1, LeaveInvariant DEF Stop
<1>3. ASSUME NEW p \in Process, Fail(p) PROVE DInv'
  <2>1. mishaps' \in 0 .. MaxMishaps
    BY <1>3 DEF Fail, DInv, TypeOK
  <2> QED BY <1>3, <2>1, LeaveInvariant DEF Fail
<1>4. ASSUME NEW p \in Process, RecordVersion(p) \/ Busy(p) PROVE DInv'
  BY <1>3, <1>4, RecordInvariant DEF RecordVersion, Busy
<1> QED BY <1>1, <1>2, <1>4, ReadInvariant, SchemaInvariant, CleanInvariant, CreateInvariant,
     CopyInvariant, DropInvariant, CommitInvariant, MarkInvariant DEF Next, Open

LEMMA Invariant == Spec => []DInv
BY InitInvariant, NextInvariant, PTL DEF Spec

-----------------------------------------------------------------------------

\* Every variable keeps its type, and there is one writer at a time.
THEOREM TypeCorrect == Spec => []TypeOK
BY Invariant, PTL DEF DInv

\* A database that has been opened has the constraint, and no duplicate rows.
THEOREM UniqueOnceOpened == Spec => []OpenedIsUnique
<1>1. DInv => OpenedIsUnique
  BY DEF DInv, SavedInv, Sound, OpenedIsUnique
<1> QED BY Invariant, <1>1, PTL

\* Only the commit of the migration removes rows, and it leaves the earliest of
\* those that are alike.
THEOREM NoMarkIsLost == Spec => MarksSurvive
<1> DEFINE Kept == \A r \in Rows(saved.deletions) :
                     \E s \in Rows(saved'.deletions) : SameMark(r, s) /\ s.id <= r.id
<1>1. ASSUME DInv, [Next]_vars PROVE Kept
  <2>1. \A r \in Rows(saved.deletions) : r.id \in Nat /\ SameMark(r, r)
    BY <1>1 DEF DInv, TypeOK, Database, Table, Row, Rows, SameMark
  <2>2. CASE UNCHANGED saved
    BY <2>1, <2>2
  <2>3. ASSUME NEW p \in Process, Commit(p) PROVE Kept
    <3>1. draft.deletions # NoTable /\ Stands(draft.deletions.rows) /\ saved' = draft
      BY <1>1, <2>3 DEF DInv, DraftInv, Commit, Goto
    <3> QED BY <3>1 DEF Stands, Rows
  <2>4. ASSUME NEW p \in Process, CreateSchema(p) PROVE Kept
    BY <2>1, <2>4 DEF CreateSchema, Rows
  <2>5. ASSUME NEW p \in Process, NEW f \in File, Mark(p, f), saved' # saved PROVE Kept
    <3> DEFINE row == [id |-> saved.deletions.seq + 1, file |-> f, status |-> "pending"]
    <3>1. saved' = [saved EXCEPT !.deletions.rows = @ \cup {row}, !.deletions.seq = row.id]
      BY <2>5 DEF Mark
    <3>2. saved.deletions \in Table /\ saved.deletions # NoTable
      BY <1>1, <2>5 DEF DInv, TypeOK, SavedInv, Database, Mark
    <3> HIDE DEF row
    <3>3. saved'.deletions.rows = saved.deletions.rows \cup {row}
      BY <1>1, <3>1, <3>2 DEF DInv, TypeOK, Database, Table
    <3>4. DInv'
      BY <1>1, NextInvariant
    <3>5. saved'.deletions # NoTable
      BY <2>5, <3>4 DEF DInv, SavedInv, Mark
    <3> QED BY <2>1, <3>2, <3>3, <3>5 DEF Rows
  <2>6. CASE \E p \in Process : ~Commit(p) /\ ~CreateSchema(p) /\ (Start(p) \/ Open(p) \/ Stop(p))
    <3>1. UNCHANGED saved
      BY <2>6 DEF Open, Start, Stop, CreateVersionTable, GetSchemaVersion, CleanDuplicates,
         CreateNewTable, CopyRows, DropOldTable, RenameNewTable, RecordVersion, Busy, Statement, Fail
    <3> QED BY <2>2, <3>1
  <2> QED BY <1>1, <2>2, <2>3, <2>4, <2>5, <2>6 DEF Next, vars
<1>2. DInv /\ [Next]_vars => [Kept]_vars
  BY <1>1
<1> QED BY Invariant, <1>2, PTL DEF Spec, MarksSurvive

-----------------------------------------------------------------------------
(***************************************************************************)
(* To all who have the database open, the migration with its seven         *)
(* statements is one step, and is taken once.                              *)
(***************************************************************************)

Cleaned(S) == {r \in S : \A s \in S : SameMark(r, s) => r.id <= s.id}

CreateTable ==
  /\ saved.deletions = NoTable
  /\ saved' = [saved EXCEPT !.deletions = [unique |-> FALSE, rows |-> {}, seq |-> 0]]

\* No row is changed, invented or removed but those that repeat an earlier one.
Migrate ==
  /\ saved.versions = {} /\ saved'.versions = {1}
  /\ saved.deletions # NoTable /\ saved'.deletions # NoTable
  /\ saved'.deletions.unique /\ saved'.deletions.rows = Cleaned(saved.deletions.rows)
  /\ saved'.deletions_new = NoTable

AddMark ==
  \E p \in Process, f \in File : Mark(p, f)

MigratesAtOnce == UNCHANGED saved \/ CreateTable \/ Migrate \/ AddMark

\* What the statements up to a place have done to the tables.
DraftIsCleaned ==
  /\ saved.deletions_new = NoTable
  /\ \A p \in Process :
       /\ pc[p] \in {"create", "copy", "drop", "rename", "record"} => draft.versions = saved.versions
       /\ pc[p] \in {"create", "copy", "drop"} =>
            draft.deletions.rows = Cleaned(saved.deletions.rows)
       /\ pc[p] \in {"drop", "rename"} => draft.deletions_new.rows = Cleaned(saved.deletions.rows)
       /\ pc[p] \in {"record", "commit"} =>
            draft.deletions.rows = Cleaned(saved.deletions.rows) /\ draft.deletions_new = NoTable
       /\ pc[p] = "commit" => saved.versions = {}

\* Where Open goes on from a place when the version is recorded.
Direct(p) ==
  \/ pc[p] = "schema" /\ pc'[p] = "versions"
  \/ pc[p] = "versions" /\ pc'[p] = "read"
  \/ pc[p] = "read" /\ pc'[p] = "open"

\* The version stays recorded; who starts then needs no lock and cannot fail.
OpensDirectly ==
  1 \in saved.versions =>
    /\ 1 \in saved'.versions
    /\ saved.deletions # NoTable
    /\ \A p \in Process : pc[p] \in {"schema", "versions", "read"} =>
         UNCHANGED pc[p] \/ Direct(p) \/ Stop(p)

\* A statement of the transaction: only the draft changes, and only its place.
LEMMA StatementCleaned ==
  ASSUME DInv, DraftIsCleaned, NEW p \in Process, NEW from \in InTransaction, NEW to \in InTransaction,
         Statement(p, from, to), draft' \in Database,
         to # "commit" => draft'.versions = saved.versions,
         to \in {"create", "copy", "drop"} => draft'.deletions.rows = Cleaned(saved.deletions.rows),
         to \in {"drop", "rename"} => draft'.deletions_new.rows = Cleaned(saved.deletions.rows),
         to \in {"record", "commit"} =>
           draft'.deletions.rows = Cleaned(saved.deletions.rows) /\ draft'.deletions_new = NoTable,
         to = "commit" => saved.versions = {}
  PROVE  DraftIsCleaned'
<1>1. /\ pc'[p] = to /\ saved' = saved
      /\ \A q \in Process \ {p} : pc'[q] \notin InTransaction
  BY StatementInvariant DEF Statement
<1> QED BY <1>1 DEF DraftIsCleaned, InTransaction, Cleaned

LEMMA TransactionCleaned ==
  ASSUME DInv, DraftIsCleaned, NEW p \in Process,
         \/ CreateNewTable(p) \/ CopyRows(p) \/ DropOldTable(p) \/ RenameNewTable(p)
         \/ RecordVersion(p) /\ 1 \notin draft.versions
  PROVE  DraftIsCleaned'
<1>1. draft \in Database /\ saved \in Database
  BY DEF DInv, TypeOK
<1>2. CASE CreateNewTable(p)
  <2>1. /\ Statement(p, "create", "copy") /\ pc[p] = "create" /\ draft'.deletions = draft.deletions
        /\ draft'.versions = draft.versions
    BY <1>1, <1>2 DEF CreateNewTable, Statement, Goto, Database
  <2>2. draft' \in Database
    BY <1>2, CreateInvariant DEF DInv, TypeOK
  <2> QED BY <2>1, <2>2, StatementCleaned DEF DraftIsCleaned, InTransaction
<1>3. CASE CopyRows(p)
  <2>1. /\ Statement(p, "copy", "drop") /\ pc[p] = "copy" /\ draft'.deletions = draft.deletions
        /\ draft'.versions = draft.versions
    BY <1>1, <1>3 DEF CopyRows, Statement, Goto, Database
  <2>2. draft' \in Database
    BY <1>3, CopyInvariant DEF DInv, TypeOK
  <2>3. draft.deletions_new \in Table
    BY <1>1, <2>1 DEF DInv, DraftInv, Database
  <2>4. draft'.deletions_new.rows = draft.deletions.rows
    <3>1. PICK last \in 0 .. MaxId :
            draft' = [draft EXCEPT !.deletions_new.rows = draft.deletions.rows, !.deletions_new.seq = last]
      BY <1>3 DEF CopyRows
    <3> DEFINE new == [draft.deletions_new EXCEPT !.rows = draft.deletions.rows, !.seq = last]
    <3>2. new.rows = draft.deletions.rows
      BY <2>3 DEF Table
    <3>3. draft' = [draft EXCEPT !.deletions_new = new]
      BY <1>1, <3>1 DEF Database
    <3> HIDE DEF new
    <3> QED BY <1>1, <3>2, <3>3 DEF Database
  <2> QED BY <2>1, <2>2, <2>4, StatementCleaned DEF DraftIsCleaned, InTransaction
<1>4. CASE DropOldTable(p)
  <2>1. /\ Statement(p, "drop", "rename") /\ pc[p] = "drop" /\ draft'.deletions_new = draft.deletions_new
        /\ draft'.versions = draft.versions
    BY <1>1, <1>4 DEF DropOldTable, Statement, Goto, Database
  <2>2. draft' \in Database
    BY <1>4, DropInvariant DEF DInv, TypeOK
  <2> QED BY <2>1, <2>2, StatementCleaned DEF DraftIsCleaned, InTransaction
<1>5. CASE RenameNewTable(p)
  <2>1. /\ Statement(p, "rename", "record") /\ pc[p] = "rename" /\ draft'.deletions = draft.deletions_new
        /\ draft'.deletions_new = NoTable /\ draft'.versions = draft.versions
    BY <1>1, <1>5 DEF RenameNewTable, Statement, Goto, Database
  <2>2. draft' \in Database
    BY <1>5, DropInvariant DEF DInv, TypeOK
  <2> QED BY <2>1, <2>2, StatementCleaned DEF DraftIsCleaned, InTransaction
<1>6. CASE RecordVersion(p) /\ 1 \notin draft.versions
  <2>1. /\ Statement(p, "record", "commit") /\ pc[p] = "record" /\ draft'.deletions = draft.deletions
        /\ draft'.deletions_new = draft.deletions_new
    BY <1>1, <1>6 DEF RecordVersion, Statement, Goto, Database
  <2>2. draft' \in Database
    BY <1>6, RecordInvariant DEF DInv, TypeOK
  <2>3. saved.versions = {}
    BY <1>1, <1>6, <2>1 DEF DraftIsCleaned, Database
  <2> QED BY <2>1, <2>2, <2>3, StatementCleaned DEF DraftIsCleaned, InTransaction
<1> QED BY <1>2, <1>3, <1>4, <1>5, <1>6

\* Whoever is in no transaction leaves the draft of the others alone.
LEMMA OutsideCleaned ==
  ASSUME DInv, DraftIsCleaned, NEW p \in Process, NEW to \in Places \ InTransaction,
         pc' = [pc EXCEPT ![p] = to], saved' = saved, draft' = draft \/ writer \in {p, NoOne}
  PROVE  DraftIsCleaned'
<1>1. pc'[p] = to /\ \A q \in Process \ {p} : pc'[q] = pc[q]
  BY DEF DInv, TypeOK
<1>2. CASE draft' = draft
  BY <1>1, <1>2 DEF DraftIsCleaned, Cleaned, InTransaction
<1>3. CASE writer \in {p, NoOne}
  <2>1. \A q \in Process : pc'[q] \notin InTransaction
    BY <1>1, <1>3, OpenAssumption DEF DInv, TypeOK
  <2> QED BY <2>1 DEF DraftIsCleaned, InTransaction
<1> QED BY <1>2, <1>3

LEMMA CleanStep ==
  ASSUME DInv, DraftIsCleaned, [Next]_vars
  PROVE  DraftIsCleaned' /\ MigratesAtOnce /\ OpensDirectly
<1>1. saved \in Database /\ draft \in Database /\ saved.versions \in SUBSET {1}
  BY DEF DInv, TypeOK, Database
<1>2. 1 \in saved.versions => saved.deletions # NoTable
  BY DEF DInv, SavedInv, Sound
<1>3. CASE UNCHANGED vars
  BY <1>2, <1>3 DEF vars, DraftIsCleaned, Cleaned, MigratesAtOnce, OpensDirectly
<1>4. ASSUME NEW p \in Process, UNCHANGED saved,
             pc[p] \in {"schema", "versions", "read"} /\ 1 \in saved.versions => Direct(p) \/ Stop(p),
             \A q \in Process \ {p} : pc'[q] = pc[q]
      PROVE  MigratesAtOnce /\ OpensDirectly
  BY <1>2, <1>4 DEF MigratesAtOnce, OpensDirectly
<1>5. ASSUME NEW p \in Process, Fail(p), pc[p] \notin {"schema", "versions", "read"} \/ saved.versions = {}
      PROVE  DraftIsCleaned' /\ MigratesAtOnce /\ OpensDirectly
  <2>1. DraftIsCleaned'
    BY <1>5, OutsideCleaned DEF Fail, Release, Places, InTransaction
  <2> QED BY <1>4, <1>5, <2>1 DEF Fail, DInv, TypeOK
<1>6. ASSUME NEW p \in Process, Stop(p)
      PROVE  DraftIsCleaned' /\ MigratesAtOnce /\ OpensDirectly
  <2>1. DraftIsCleaned'
    BY <1>6, OutsideCleaned DEF Stop, Release, Places, InTransaction
  <2> QED BY <1>4, <1>6, <2>1 DEF Stop, DInv, TypeOK
<1>7. ASSUME NEW p \in Process, Start(p) \/ CreateVersionTable(p) \/ GetSchemaVersion(p)
      PROVE  DraftIsCleaned' /\ MigratesAtOnce /\ OpensDirectly
  <2>1. PICK to \in {"schema", "versions", "read", "clean", "open", "failed"} :
          /\ pc' = [pc EXCEPT ![p] = to] /\ UNCHANGED <<saved, draft>>
          /\ pc[p] \in {"schema", "versions", "read"} /\ 1 \in saved.versions =>
               \/ pc[p] = "versions" /\ to = "read"
               \/ pc[p] = "read" /\ to = "open"
    BY <1>7 DEF Start, CreateVersionTable, GetSchemaVersion, Goto
  <2>2. DraftIsCleaned'
    BY <2>1, OutsideCleaned DEF Places, InTransaction
  <2> QED BY <1>4, <2>1, <2>2 DEF Direct, DInv, TypeOK
<1>8. ASSUME NEW p \in Process, CreateSchema(p)
      PROVE  DraftIsCleaned' /\ MigratesAtOnce /\ OpensDirectly
  <2>1. pc[p] = "schema" /\ pc' = [pc EXCEPT ![p] = "versions"]
    BY <1>8 DEF CreateSchema, Goto
  <2>2. CASE UNCHANGED <<saved, draft>>
    <3>1. DraftIsCleaned'
      BY <2>1, <2>2, OutsideCleaned DEF Places, InTransaction
    <3> QED BY <1>4, <2>1, <2>2, <3>1 DEF Direct, DInv, TypeOK
  <2>3. CASE saved.deletions = NoTable /\ ~UNCHANGED <<saved, draft>>
    <3>1. CreateTable /\ writer = NoOne
      BY <1>8, <2>3 DEF CreateSchema, CreateTable
    <3>2. saved'.deletions_new = saved.deletions_new
      BY <1>1, <3>1 DEF CreateTable, Database
    <3>3. \A q \in Process : pc'[q] \notin InTransaction
      BY <2>1, <3>1, OpenAssumption DEF DInv, TypeOK, InTransaction
    <3>4. DraftIsCleaned'
      BY <3>2, <3>3 DEF DraftIsCleaned, InTransaction
    <3> QED BY <1>2, <2>3, <3>1, <3>4 DEF MigratesAtOnce, OpensDirectly
  <2> QED BY <1>8, <2>2, <2>3 DEF CreateSchema
<1>9. ASSUME NEW p \in Process, CleanDuplicates(p)
      PROVE  DraftIsCleaned' /\ MigratesAtOnce /\ OpensDirectly
  <2>1. /\ pc[p] = "clean" /\ pc' = [pc EXCEPT ![p] = "create"] /\ UNCHANGED saved
        /\ draft' = [saved EXCEPT !.deletions.rows = Cleaned(saved.deletions.rows)]
        /\ writer = NoOne
    BY <1>9 DEF CleanDuplicates, Goto, Cleaned
  <2>2. saved.deletions \in Table
    BY <1>1, <2>1 DEF DInv, SavedInv, Database
  <2>3. draft'.versions = saved.versions /\ draft'.deletions.rows = Cleaned(saved.deletions.rows)
    BY <1>1, <2>1, <2>2 DEF Database, Table
  <2>4. pc'[p] = "create" /\ \A q \in Process \ {p} : pc'[q] = pc[q] /\ pc'[q] \notin InTransaction
    BY <2>1, OpenAssumption DEF DInv, TypeOK
  <2>5. DraftIsCleaned'
    BY <2>1, <2>3, <2>4 DEF DraftIsCleaned, InTransaction
  <2> QED BY <1>4, <2>1, <2>4, <2>5
<1>10. ASSUME NEW p \in Process,
              \/ CreateNewTable(p) \/ CopyRows(p) \/ DropOldTable(p) \/ RenameNewTable(p)
              \/ RecordVersion(p) /\ 1 \notin draft.versions
       PROVE  DraftIsCleaned' /\ MigratesAtOnce /\ OpensDirectly
  <2>1. /\ UNCHANGED saved /\ pc[p] \in InTransaction
        /\ \A q \in Process \ {p} : pc'[q] = pc[q]
    BY <1>10 DEF CreateNewTable, CopyRows, DropOldTable, RenameNewTable, RecordVersion, Statement, Goto,
       InTransaction, DInv, TypeOK
  <2>2. DraftIsCleaned'
    BY <1>10, TransactionCleaned
  <2> QED BY <1>4, <2>1, <2>2 DEF InTransaction
<1>11. ASSUME NEW p \in Process, Commit(p)
       PROVE  DraftIsCleaned' /\ MigratesAtOnce /\ OpensDirectly
  <2>1. /\ pc[p] = "commit" /\ pc' = [pc EXCEPT ![p] = "open"] /\ saved' = draft
        /\ writer = p
    BY <1>11 DEF Commit, Goto, DInv, TypeOK, InTransaction
  <2>2. Migrate
    BY <2>1 DEF Migrate, DInv, SavedInv, DraftInv, DraftIsCleaned
  <2>3. \A q \in Process : pc'[q] \notin InTransaction
    BY <2>1 DEF DInv, TypeOK, InTransaction
  <2>4. DraftIsCleaned'
    BY <2>2, <2>3 DEF DraftIsCleaned, Migrate, InTransaction
  <2> QED BY <2>2, <2>4 DEF MigratesAtOnce, OpensDirectly, Migrate
<1>12. ASSUME NEW p \in Process, NEW f \in File, Mark(p, f)
       PROVE  DraftIsCleaned' /\ MigratesAtOnce /\ OpensDirectly
  <2>1. pc[p] = "open" /\ writer = NoOne /\ UNCHANGED pc
    BY <1>12 DEF Mark
  <2>2. saved'.versions = saved.versions /\ saved'.deletions_new = saved.deletions_new
    BY <1>1, <1>12 DEF Mark, Database
  <2>3. \A q \in Process : pc'[q] \notin InTransaction
    BY <2>1, OpenAssumption DEF DInv, TypeOK
  <2>4. DraftIsCleaned'
    BY <2>2, <2>3 DEF DraftIsCleaned, InTransaction
  <2> QED BY <1>2, <1>12, <2>1, <2>2, <2>4 DEF MigratesAtOnce, AddMark, OpensDirectly
<1>13. ASSUME NEW p \in Process, Busy(p)
       PROVE  DraftIsCleaned' /\ MigratesAtOnce /\ OpensDirectly
  <2>1. Fail(p) /\ (pc[p] \notin {"schema", "versions", "read"} \/ saved.versions = {})
    BY <1>1, <1>2, <1>13 DEF Busy
  <2> QED BY <1>5, <2>1
<1>14. ASSUME NEW p \in Process, RecordVersion(p), 1 \in draft.versions
       PROVE  DraftIsCleaned' /\ MigratesAtOnce /\ OpensDirectly
  BY <1>5, <1>14 DEF RecordVersion
<1> QED BY <1>3, <1>6, <1>7, <1>8, <1>9, <1>10, <1>11, <1>12, <1>13, <1>14 DEF Next, Open

LEMMA DraftCleaned == Spec => []DraftIsCleaned
<1>1. Init => DraftIsCleaned
  BY OpenAssumption DEF Init, DraftIsCleaned
<1>2. DInv /\ DraftIsCleaned /\ [Next]_vars => DraftIsCleaned'
  BY CleanStep
<1> QED BY Invariant, <1>1, <1>2, PTL DEF Spec

\* Whoever migrates, beside whom, and wherever a process is stopped: others see
\* the old table or the new one, with the rows that are no repetition, and none
\* else; and the migration is committed once only.
THEOREM MigrationIsAtomic == Spec => [][MigratesAtOnce]_vars
<1>1. DInv /\ DraftIsCleaned /\ [Next]_vars => [MigratesAtOnce]_vars
  BY CleanStep
<1> QED BY Invariant, DraftCleaned, <1>1, PTL DEF Spec

\* The safety half of LaterOpenSucceeds: each step of a process that opens a
\* migrated database is the next one on the direct way, unless it is stopped.
THEOREM LaterOpenIsDirect == Spec => [][OpensDirectly]_vars
<1>1. DInv /\ DraftIsCleaned /\ [Next]_vars => [OpensDirectly]_vars
  BY CleanStep
<1> QED BY Invariant, DraftCleaned, <1>1, PTL DEF Spec
=============================================================================
