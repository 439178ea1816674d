-------------------------- MODULE DeletionsProofs --------------------------
(***************************************************************************)
(* The file that all users choose to keep survives, and a row that says    *)
(* "deleted" is true, for any number of files, groups, reviews and         *)
(* executing sessions, and every removal is accounted for.  The same       *)
(* beside a server that is stopped and started.                            *)
(***************************************************************************)
EXTENDS WebServer, FiniteSetTheorems, TLAPS

\* The files that are the only choice of their group.
Sole == {k \in File : \E g \in Group : Keeper[g] = {k}}

\* Such a file is there, and neither marked, nor about to be marked, nor
\* listed by a session.
SoleUntouched ==
  \A k \in Sole :
    /\ k \in disk
    /\ \A row \in Row : FileOf(row) = k => status[row] # "pending"
    /\ \A e \in Session : \A row \in todo[e] : FileOf(row) # k
    /\ \A r \in Reviewer : k \notin marking[r]

\* What a session is about to record as deleted is gone already.
OutcomeIsTrue ==
  \A e \in Session : outcome[e] = "deleted" => FileOf(current[e]) \notin disk

IInv == TypeOK /\ SoleUntouched /\ DeletedFilesAreGone /\ OutcomeIsTrue

\* Marking all files of a group but the chosen one spares the sole choices.
LEMMA OthersAreNotSole ==
  ASSUME NEW g \in Group, NEW keep \in Keeper[g]
  PROVE  g \ {keep} \subseteq File /\ (g \ {keep}) \cap Sole = {}
<1>1. g \subseteq File
  BY GroupAssumption
<1>2. ASSUME NEW k \in Sole, k \in g, k # keep PROVE FALSE
  <2> PICK h \in Group : Keeper[h] = {k}
    BY <1>2 DEF Sole
  <2>1. k \in h
    BY GroupAssumption
  <2>2. h = g
    BY <1>2, <2>1, GroupAssumption
  <2> QED BY <1>2, <2>2
<1> QED BY <1>1, <1>2

\* INSERT ... ON CONFLICT DO NOTHING gives rows of the named files, and no
\* others, the status pending.
LEMMA InsertPendingEffect ==
  ASSUME TypeOK, NEW S \in SUBSET File, InsertPending(S)
  PROVE  /\ marks' \in [File -> 0 .. MaxMarks]
         /\ status' \in [Row -> {"none", "pending", "deleted", "failed"}]
         /\ \A row \in Row : \/ status'[row] = status[row]
                             \/ status'[row] = "pending" /\ FileOf(row) \in S
<1> DEFINE new == {f \in S : ~IsPending(f)}
<1>1. /\ \A f \in new : marks[f] < MaxMarks
      /\ marks' = [f \in File |-> IF f \in new THEN marks[f] + 1 ELSE marks[f]]
      /\ status' = [row \in Row |->
                      IF FileOf(row) \in new /\ row[2] = marks[FileOf(row)] + 1
                      THEN "pending" ELSE status[row]]
  BY DEF InsertPending
<1>2. new \subseteq S
  OBVIOUS
<1> HIDE DEF new
<1>3. marks' \in [File -> 0 .. MaxMarks]
  BY <1>1, MarksAssumption DEF TypeOK
<1> QED BY <1>1, <1>2, <1>3 DEF TypeOK

\* UPDATE ... WHERE id = row changes that row or nothing.
LEMMA SetStatusEffect ==
  ASSUME TypeOK, NEW row \in Row, NEW s \in {"deleted", "failed"}, SetStatus(row, s)
  PROVE  /\ status' \in [Row -> {"none", "pending", "deleted", "failed"}]
         /\ \A q \in Row : status'[q] = status[q] \/ (q = row /\ status'[q] = s)
BY DEF SetStatus, TypeOK

\* A statement that only inserts rows of other files keeps the invariant.
LEMMA MarkingInvariant ==
  ASSUME IInv, NEW S \in SUBSET File, S \cap Sole = {}, InsertPending(S),
         marking' \in [Reviewer -> SUBSET File],
         \A r \in Reviewer : marking'[r] \subseteq marking[r],
         UNCHANGED <<disk, sessions>>
  PROVE  IInv'
<1> USE DEF IInv, sessions
<1>1. TypeOK'
  BY InsertPendingEffect DEF TypeOK
<1>2. \A row \in Row : \/ status'[row] = status[row]
                       \/ status'[row] = "pending" /\ FileOf(row) \in S
  BY InsertPendingEffect
<1>3. SoleUntouched'
  BY <1>2 DEF SoleUntouched
<1>4. DeletedFilesAreGone' /\ OutcomeIsTrue'
  BY <1>2 DEF DeletedFilesAreGone, OutcomeIsTrue
<1> QED BY <1>1, <1>3, <1>4

\* A session that ends or is killed keeps the invariant, if the rows do.
LEMMA EndInvariant ==
  ASSUME IInv, NEW e \in Session, End(e), UNCHANGED <<disk, marks, marking>>, lost' \subseteq File,
         status' \in [Row -> {"none", "pending", "deleted", "failed"}],
         \A row \in Row : \/ status'[row] = status[row]
                          \/ status'[row] = "failed"
                          \/ status'[row] = "deleted" /\ FileOf(row) \notin disk
  PROVE  IInv'
<1> USE DEF IInv, End
<1>1. TypeOK'
  BY DEF TypeOK
<1>2. \A d \in Session : todo'[d] \subseteq todo[d]
  BY DEF TypeOK
<1>3. SoleUntouched'
  BY <1>2 DEF SoleUntouched
<1>4. DeletedFilesAreGone'
  BY DEF DeletedFilesAreGone
<1>5. OutcomeIsTrue'
  BY DEF OutcomeIsTrue, TypeOK
<1> QED BY <1>1, <1>3, <1>4, <1>5

\* The loop goes on after an outcome that was recorded, or was not.
LEMMA LoopInvariant ==
  ASSUME IInv, NEW e \in Session, NextDeletion(e), UNCHANGED <<disk, marks, marking>>, lost' \subseteq File,
         status' \in [Row -> {"none", "pending", "deleted", "failed"}],
         \A row \in Row : \/ status'[row] = status[row]
                          \/ status'[row] = "failed"
                          \/ status'[row] = "deleted" /\ FileOf(row) \notin disk
  PROVE  IInv'
<1>1. CASE End(e)
  BY <1>1, EndInvariant
<1>2. CASE ~End(e)
  <2> USE <1>2 DEF NextDeletion, IInv
  <2>1. TypeOK'
    BY DEF TypeOK
  <2>2. SoleUntouched'
    BY DEF SoleUntouched
  <2>3. DeletedFilesAreGone'
    BY DEF DeletedFilesAreGone
  <2>4. OutcomeIsTrue'
    BY DEF OutcomeIsTrue, TypeOK
  <2> QED BY <2>1, <2>2, <2>3, <2>4
<1> QED BY <1>1, <1>2

\* A fault adds to the history only what is a file.
LEMMA UnrecordedAreFiles == \A e \in Session : Unrecorded(e) \subseteq File
BY DEF Unrecorded

LEMMA InitInvariant == Init => IInv
BY MarksAssumption DEF Init, IInv, TypeOK, SoleUntouched, Sole, DeletedFilesAreGone, OutcomeIsTrue

\* Every step of every user, review and session keeps the invariant.
LEMMA NextInvariant == IInv /\ [Next]_vars => IInv'
<1> SUFFICES ASSUME IInv, [Next]_vars PROVE IInv'
  OBVIOUS
<1>1. ASSUME NEW g \in Group, NEW keep \in g, MarkGroupForDeletion(g, keep) PROVE IInv'
  <2>1. g \ {keep} \subseteq File /\ (g \ {keep}) \cap Sole = {}
    BY <1>1, OthersAreNotSole DEF MarkGroupForDeletion
  <2>2. marking' \in [Reviewer -> SUBSET File] /\ \A r \in Reviewer : marking'[r] \subseteq marking[r]
    BY <1>1 DEF MarkGroupForDeletion, IInv, TypeOK
  <2> QED BY <1>1, <2>1, <2>2, MarkingInvariant DEF MarkGroupForDeletion
<1>2. ASSUME NEW r \in Reviewer, NEW g \in Group, NEW keep \in g, ChooseKeeper(r, g, keep) PROVE IInv'
  <2> USE <1>2 DEF ChooseKeeper, IInv, table, sessions
  <2>1. g \ {keep} \subseteq File /\ (g \ {keep}) \cap Sole = {}
    BY OthersAreNotSole
  <2>2. TypeOK'
    BY <2>1 DEF TypeOK
  <2>3. SoleUntouched'
    BY <2>1 DEF SoleUntouched, TypeOK
  <2>4. DeletedFilesAreGone' /\ OutcomeIsTrue'
    BY DEF DeletedFilesAreGone, OutcomeIsTrue
  <2> QED BY <2>2, <2>3, <2>4
<1>3. ASSUME NEW r \in Reviewer, NEW f \in File, MarkForDeletion(r, f) PROVE IInv'
  <2>1. {f} \cap Sole = {}
    BY <1>3 DEF MarkForDeletion, IInv, SoleUntouched
  <2>2. marking' \in [Reviewer -> SUBSET File] /\ \A q \in Reviewer : marking'[q] \subseteq marking[q]
    BY <1>3 DEF MarkForDeletion, IInv, TypeOK
  <2>3. CASE InsertPending({f})
    BY <1>3, <2>1, <2>2, <2>3, MarkingInvariant DEF MarkForDeletion
  <2>4. CASE UNCHANGED table
    BY <1>3, <2>2, <2>4 DEF MarkForDeletion, IInv, TypeOK, SoleUntouched, DeletedFilesAreGone,
       OutcomeIsTrue, table, sessions
  <2> QED BY <1>3, <2>3, <2>4 DEF MarkForDeletion
<1>4. ASSUME NEW f \in File, UnmarkForDeletion(f) PROVE IInv'
  <2> USE <1>4 DEF UnmarkForDeletion, DeletePending, IInv, sessions
  <2>1. TypeOK'
    BY DEF TypeOK
  <2>2. SoleUntouched'
    BY DEF SoleUntouched
  <2>3. DeletedFilesAreGone' /\ OutcomeIsTrue'
    BY DEF DeletedFilesAreGone, OutcomeIsTrue
  <2> QED BY <2>1, <2>2, <2>3
<1>5. ASSUME NEW e \in Session, GetPendingDeletions(e) PROVE IInv'
  <2> USE <1>5 DEF GetPendingDeletions, IInv, table, Pending
  <2>1. TypeOK'
    BY DEF TypeOK
  <2>2. SoleUntouched'
    BY DEF SoleUntouched, TypeOK
  <2>3. DeletedFilesAreGone' /\ OutcomeIsTrue'
    BY DEF DeletedFilesAreGone, OutcomeIsTrue
  <2> QED BY <2>1, <2>2, <2>3
<1>6. ASSUME NEW e \in Session, Confirm(e) PROVE IInv'
  BY <1>6 DEF Confirm, IInv, table, TypeOK, SoleUntouched, DeletedFilesAreGone, OutcomeIsTrue
<1>7. ASSUME NEW e \in Session, Decline(e) PROVE IInv'
  BY <1>7, EndInvariant DEF Decline, IInv, TypeOK, table
<1>8. ASSUME NEW e \in Session, NEW row \in Row, RemoveFile(e, row) PROVE IInv'
  <2> USE <1>8 DEF RemoveFile, IInv, table
  <2>1. FileOf(row) \notin Sole
    BY DEF SoleUntouched
  <2>2. TypeOK'
    BY MarksAssumption DEF TypeOK, Row
  <2>3. SoleUntouched'
    BY <2>1 DEF SoleUntouched, TypeOK
  <2>4. DeletedFilesAreGone'
    BY DEF DeletedFilesAreGone
  <2>5. OutcomeIsTrue'
    BY DEF OutcomeIsTrue, TypeOK
  <2> QED BY <2>2, <2>3, <2>4, <2>5
<1>9. ASSUME NEW e \in Session, RecordOutcome(e) PROVE IInv'
  <2>1. current[e] \in Row /\ outcome[e] \in {"deleted", "failed"}
    BY <1>9 DEF RecordOutcome, NextDeletion, IInv, TypeOK
  <2>2. /\ status' \in [Row -> {"none", "pending", "deleted", "failed"}]
        /\ \A q \in Row : status'[q] = status[q] \/ (q = current[e] /\ status'[q] = outcome[e])
    <3>1. CASE SetStatus(current[e], outcome[e])
      BY <2>1, <3>1, SetStatusEffect DEF IInv
    <3>2. CASE UNCHANGED status
      BY <3>2 DEF IInv, TypeOK
    <3> QED BY <1>9, <3>1, <3>2 DEF RecordOutcome, NextDeletion
  <2>3. \A q \in Row : \/ status'[q] = status[q]
                       \/ status'[q] = "failed"
                       \/ status'[q] = "deleted" /\ FileOf(q) \notin disk
    BY <2>1, <2>2 DEF IInv, OutcomeIsTrue
  <2>4. lost' \subseteq File
    BY <1>9, UnrecordedAreFiles DEF RecordOutcome, IInv, TypeOK
  <2> QED BY <1>9, <2>2, <2>3, <2>4, LoopInvariant DEF RecordOutcome
<1>10. ASSUME NEW e \in Session, KillSession(e) PROVE IInv'
  BY <1>10, EndInvariant, UnrecordedAreFiles DEF KillSession, IInv, TypeOK, table
<1>11. ASSUME NEW r \in Reviewer, KillReview(r) PROVE IInv'
  BY <1>11 DEF KillReview, IInv, table, sessions, TypeOK, SoleUntouched, DeletedFilesAreGone, OutcomeIsTrue
<1>12. CASE UNCHANGED vars
  BY <1>12 DEF vars, IInv, TypeOK, SoleUntouched, DeletedFilesAreGone, OutcomeIsTrue
<1> QED
  BY <1>1, <1>2, <1>3, <1>4, <1>5, <1>6, <1>7, <1>8, <1>9, <1>10, <1>11, <1>12 DEF Next, Work

LEMMA Invariant == Spec => []IInv
BY InitInvariant, NextInvariant, PTL DEF Spec

\* Every variable keeps its type.
THEOREM TypeCorrect == Spec => []TypeOK
BY Invariant, PTL DEF IInv

\* The file that all users choose to keep is never removed, whatever reviews,
\* requests and executions run at once, and wherever they are killed.
THEOREM KeptSurvive == Spec => []KeptFilesSurvive
<1>1. IInv => KeptFilesSurvive
  BY DEF IInv, SoleUntouched, Sole, KeptFilesSurvive
<1> QED BY Invariant, <1>1, PTL

\* A row that says "deleted" belongs to a file that is gone.
THEOREM DeletedGone == Spec => []DeletedFilesAreGone
BY Invariant, PTL DEF IInv

-----------------------------------------------------------------------------
(***************************************************************************)
(* The same on a server that is stopped and started, with any number of    *)
(* requests at once.                                                       *)
(***************************************************************************)

\* A step on a server is a step of Deletions, or the store is closed.
LEMMA WebSteps ==
  ASSUME [WebNext]_webVars
  PROVE  \/ [Next]_vars
         \/ EndAll
         \/ \E e \in WebRequest : RecordOnClosedStore(e)
BY CommandAssumption DEF WebNext, Serve, Signal, Drained, DeadlinePasses, ListenFails, Exit, Kill,
   Request, Handle, RunCommand, WebRequest, webVars, Next, Work

LEMMA WebNextInvariant == IInv /\ [WebNext]_webVars => IInv'
<1> SUFFICES ASSUME IInv, [WebNext]_webVars PROVE IInv'
  OBVIOUS
<1>1. CASE [Next]_vars
  BY <1>1, NextInvariant
<1>2. CASE EndAll
  <2> USE <1>2 DEF EndAll, IInv, table
  <2>1. TypeOK'
    BY UnrecordedAreFiles, CommandAssumption DEF TypeOK, WebRequest
  <2>2. SoleUntouched'
    BY DEF SoleUntouched
  <2>3. DeletedFilesAreGone' /\ OutcomeIsTrue'
    BY DEF DeletedFilesAreGone, OutcomeIsTrue
  <2> QED BY <2>1, <2>2, <2>3
<1>3. ASSUME NEW e \in Session, RecordOnClosedStore(e) PROVE IInv'
  <2>1. NextDeletion(e) /\ UNCHANGED <<disk, status, marks, marking>> /\ lost' \subseteq File
    BY <1>3, UnrecordedAreFiles DEF RecordOnClosedStore, table, IInv, TypeOK
  <2> QED BY <2>1, LoopInvariant DEF IInv, TypeOK
<1> QED BY <1>1, <1>2, <1>3, WebSteps DEF WebRequest

\* Only a server that is up takes requests.
LEMMA ServerNext ==
  ASSUME TypeOK, ServerTypeOK, [WebNext]_webVars
  PROVE  ServerTypeOK'
<1> USE DEF ServerTypeOK
<1>1. CASE EndAll
  BY <1>1 DEF EndAll, WebRequest
<1>2. ASSUME NEW e \in WebRequest, Request(e) \/ Handle(e) PROVE ServerTypeOK'
  <2>1. (pc[e] # "idle" \/ server = "up") /\ server' = server
    BY <1>2 DEF Request, Handle, RemoveFile, RecordOutcome, RecordOnClosedStore
  <2> QED BY <1>2, <2>1
<1>3. ASSUME NEW e \in Command, RunCommand(e) PROVE ServerTypeOK'
  <2>1. server' = server
    BY <1>3 DEF RunCommand
  <2>2. \A d \in WebRequest : pc'[d] = pc[d]
    BY <1>3, CommandAssumption DEF RunCommand, GetPendingDeletions, Confirm, Decline, Work, RemoveFile,
       RecordOutcome, NextDeletion, KillSession, End, WebRequest, TypeOK
  <2> QED BY <2>1, <2>2
<1>4. CASE UNCHANGED pc /\ (server' = server \/ server' \in {"up", "draining", "closing"})
  BY <1>4
<1> QED BY <1>1, <1>2, <1>3, <1>4 DEF WebNext, Serve, Signal, Drained, DeadlinePasses, ListenFails, Exit, Kill,
    MarkGroupForDeletion, UnmarkForDeletion, ChooseKeeper, MarkForDeletion, KillReview, webVars, vars, sessions

LEMMA WebServerInvariant == WebSpec => [](IInv /\ ServerTypeOK)
<1>1. WebInit => Init /\ ServerTypeOK
  BY DEF Init, WebInit, ServerTypeOK, WebRequest
<1>2. IInv /\ ServerTypeOK /\ [WebNext]_webVars => ServerTypeOK'
  BY ServerNext DEF IInv
<1> QED BY InitInvariant, WebNextInvariant, <1>1, <1>2, PTL DEF WebSpec

\* The server's variables have their types, and one that is down has no request.
THEOREM ServerTypeCorrect == WebSpec => []ServerTypeOK
BY WebServerInvariant, PTL

\* On a server, too, every variable keeps its type.
THEOREM WebTypeCorrect == WebSpec => []TypeOK
BY WebServerInvariant, PTL DEF IInv

\* The file that all users choose to keep survives any shutdown, also while
\* executions go on with a closed store.
THEOREM WebKeptSurvive == WebSpec => []KeptFilesSurvive
<1>1. IInv => KeptFilesSurvive
  BY DEF IInv, SoleUntouched, Sole, KeptFilesSurvive
<1> QED BY WebServerInvariant, <1>1, PTL

\* A row that says "deleted" belongs to a file that is gone, however the server
\* was stopped.
THEOREM WebDeletedGone == WebSpec => []DeletedFilesAreGone
BY WebServerInvariant, PTL DEF IInv

-----------------------------------------------------------------------------
(***************************************************************************)
(* The life of a row, for any number of reviews and sessions, whatever     *)
(* fails: it begins as pending, its outcome may be replaced by another     *)
(* session's but never withdrawn, and a withdrawn mark does not come back. *)
(***************************************************************************)

\* AUTOINCREMENT: there is no row yet with a number still to be given out.
RowsAreNumbered == \A row \in Row : status[row] # "none" => row[2] <= marks[FileOf(row)]

\* UNIQUE(file_id, status), which statements that are rejected or ignored keep:
\* a file has at most one row of each status.
OneRowPerStatus ==
  \A q, row \in Row :
    FileOf(q) = FileOf(row) /\ status[q] = status[row] /\ status[q] # "none" => q = row

\* The row was inserted, and is still there if nobody could withdraw it.
Marked(row) ==
  /\ row[2] <= marks[FileOf(row)]
  /\ FileOf(row) \notin Unmarkable => status[row] # "none"

\* What a session has listed or is at.
Held(e) == (todo[e] \cup {current[e]}) \cap Row
HeldAreMarked == \A e \in Session : \A row \in Held(e) : Marked(row)

\* A file that is gone was marked, and has a row unless the mark was withdrawn:
\* no kill, lost statement or overlap of sessions makes a removal vanish.
RemovedWereMarked == \A f \in File \ disk : \E row \in Row : FileOf(row) = f /\ Marked(row)

RInv == TypeOK /\ RowsAreNumbered /\ OneRowPerStatus /\ HeldAreMarked /\ RemovedWereMarked

\* InsertPending writes rows that were not there.
LEMMA NewRowsOnly ==
  ASSUME TypeOK, RowsAreNumbered, NEW S \in SUBSET File, InsertPending(S)
  PROVE  /\ marks' \in [File -> 0 .. MaxMarks]
         /\ status' \in [Row -> {"none", "pending", "deleted", "failed"}]
         /\ \A f \in File : marks[f] <= marks'[f]
         /\ \A row \in Row : status[row] # "none" => status'[row] = status[row]
         /\ \A row \in Row : status'[row] \in {status[row], "pending"}
         /\ RowLife /\ RowsAreNumbered' /\ (OneRowPerStatus => OneRowPerStatus')
<1> DEFINE new == {f \in S : ~IsPending(f)}
<1>1. /\ \A f \in new : marks[f] < MaxMarks
      /\ marks' = [f \in File |-> IF f \in new THEN marks[f] + 1 ELSE marks[f]]
      /\ status' = [row \in Row |->
                      IF FileOf(row) \in new /\ row[2] = marks[FileOf(row)] + 1
                      THEN "pending" ELSE status[row]]
  BY DEF InsertPending
<1>2. new \subseteq File /\ \A row \in Row : FileOf(row) \in new => status[row] # "pending"
  BY DEF IsPending, Pending
<1> HIDE DEF new
<1>3. \A f \in File : marks[f] \in Nat
  BY MarksAssumption DEF TypeOK
<1>4. \A row \in Row : FileOf(row) \in File /\ row[2] \in Nat /\ row = <<FileOf(row), row[2]>>
  BY MarksAssumption DEF Row, FileOf
<1>5. marks' \in [File -> 0 .. MaxMarks] /\ \A f \in File : marks[f] <= marks'[f]
  BY <1>1, <1>3, MarksAssumption DEF TypeOK
<1>6. \A row \in Row : status[row] # "none" => status'[row] = status[row]
  BY <1>1, <1>3, <1>4 DEF RowsAreNumbered
<1>7. RowsAreNumbered'
  BY <1>1, <1>3, <1>4 DEF RowsAreNumbered
<1>8. RowLife
  BY <1>1, <1>3, <1>4, <1>6 DEF RowLife
<1>9. ASSUME OneRowPerStatus PROVE OneRowPerStatus'
  <2> SUFFICES ASSUME NEW q \in Row, NEW row \in Row, FileOf(q) = FileOf(row),
                      status'[q] = status'[row], status'[q] # "none"
               PROVE  q = row
    BY DEF OneRowPerStatus
  <2>1. CASE FileOf(q) \in new
    <3>1. \A r \in {q, row} : r[2] = marks[FileOf(q)] + 1 \/ (status'[r] = status[r] /\ status[r] # "pending")
      BY <1>1, <1>2, <2>1
    <3> QED BY <1>1, <1>4, <1>9, <2>1, <3>1 DEF OneRowPerStatus
  <2>2. CASE FileOf(q) \notin new
    BY <1>1, <1>9, <2>2 DEF OneRowPerStatus
  <2> QED BY <2>1, <2>2
<1> QED BY <1>1, <1>5, <1>6, <1>7, <1>8, <1>9 DEF TypeOK

\* A step after which sessions hold no more rows than before, except pending
\* ones, and only files of held rows are removed.
LEMMA RowsStep ==
  ASSUME RInv, TypeOK', RowsAreNumbered', OneRowPerStatus',
         \A f \in File : marks[f] <= marks'[f],
         \A row \in Row : status[row] # "none" /\ FileOf(row) \notin Unmarkable => status'[row] # "none",
         \A e \in Session : Held(e)' \subseteq Held(e) \cup Pending,
         \A f \in disk \ disk' : \E e \in Session : \E row \in Held(e) : FileOf(row) = f
  PROVE  RInv'
<1> USE DEF RInv
<1>1. \A row \in Row : FileOf(row) \in File /\ row[2] \in Nat
  BY MarksAssumption DEF Row, FileOf
<1>2. \A f \in File : marks[f] \in Nat /\ marks'[f] \in Nat
  BY MarksAssumption DEF TypeOK
<1>3. \A row \in Row : Marked(row) => Marked(row)'
  BY <1>1, <1>2 DEF Marked
<1>4. \A row \in Pending : row \in Row /\ Marked(row)
  BY DEF Pending, Marked, RowsAreNumbered
<1>5. HeldAreMarked'
  <2> SUFFICES ASSUME NEW e \in Session, NEW row \in Held(e)' PROVE Marked(row)'
    BY DEF HeldAreMarked
  <2>1. row \in Row
    BY DEF Held
  <2>2. Marked(row)
    BY <1>4 DEF HeldAreMarked
  <2> QED BY <1>3, <2>1, <2>2
<1>6. RemovedWereMarked'
  <2> SUFFICES ASSUME NEW f \in File \ disk' PROVE \E row \in Row : FileOf(row) = f /\ Marked(row)
    BY <1>3 DEF RemovedWereMarked
  <2>1. CASE f \notin disk
    BY <2>1 DEF RemovedWereMarked
  <2>2. CASE f \in disk
    <3>1. PICK e \in Session : \E row \in Held(e) : FileOf(row) = f
      BY <2>2
    <3> QED BY <3>1 DEF HeldAreMarked, Held
  <2> QED BY <2>1, <2>2
<1> QED BY <1>5, <1>6

\* A step that leaves the table and the disk alone.
LEMMA RowsRest ==
  ASSUME RInv, TypeOK', UNCHANGED <<disk, table>>,
         \A e \in Session : Held(e)' \subseteq Held(e) \cup Pending
  PROVE  RInv' /\ RowLife
<1> USE DEF table
<1>1. RowsAreNumbered' /\ OneRowPerStatus' /\ RowLife
  BY DEF RInv, TypeOK, RowsAreNumbered, OneRowPerStatus, RowLife
<1>2. \A f \in File : marks[f] <= marks'[f]
  BY MarksAssumption DEF RInv, TypeOK
<1> QED BY <1>1, <1>2, RowsStep

\* A step that only inserts rows.
LEMMA RowsInserted ==
  ASSUME RInv, TypeOK', NEW S \in SUBSET File, InsertPending(S), UNCHANGED <<disk, sessions>>
  PROVE  RInv' /\ RowLife
<1>1. /\ \A f \in File : marks[f] <= marks'[f]
      /\ \A row \in Row : status[row] # "none" => status'[row] = status[row]
      /\ RowLife /\ RowsAreNumbered' /\ OneRowPerStatus'
  BY NewRowsOnly DEF RInv
<1>2. \A e \in Session : Held(e)' = Held(e)
  BY DEF Held, sessions
<1> QED BY <1>1, <1>2, RowsStep

\* A session goes on after a file: a statement may have set the status of the
\* row it was at.
LEMMA RowsLoop ==
  ASSUME RInv, TypeOK', NEW e \in Session, pc[e] = "record", NextDeletion(e),
         UNCHANGED <<disk, marks>>, SetStatus(current[e], outcome[e]) \/ UNCHANGED status
  PROVE  RInv' /\ RowLife
<1>1. \A d \in Session : Held(d)' \subseteq Held(d)
  BY MarksAssumption DEF NextDeletion, End, Held, RInv, TypeOK, Row
<1>2. CASE UNCHANGED status
  BY <1>1, <1>2, RowsRest DEF table
<1>3. CASE SetStatus(current[e], outcome[e]) /\ ~UNCHANGED status
  <2>1. current[e] \in Row /\ outcome[e] \in {"deleted", "failed"}
    BY DEF RInv, TypeOK
  <2>2. /\ status[current[e]] # "none" /\ ~Conflict(current[e], outcome[e])
        /\ status' = [status EXCEPT ![current[e]] = outcome[e]]
    BY <1>3 DEF SetStatus
  <2>3. RowLife /\ \A row \in Row : status[row] # "none" => status'[row] # "none"
    BY <2>1, <2>2 DEF RowLife, RInv, TypeOK
  <2>4. RowsAreNumbered'
    BY <2>1, <2>2 DEF RowsAreNumbered, RInv, TypeOK
  <2>5. OneRowPerStatus'
    BY <2>1, <2>2 DEF OneRowPerStatus, Conflict, RInv, TypeOK
  <2>6. \A f \in File : marks[f] <= marks'[f]
    BY MarksAssumption DEF RInv, TypeOK
  <2> QED BY <1>1, <2>3, <2>4, <2>5, <2>6, RowsStep
<1> QED BY <1>2, <1>3

LEMMA RowsInit == Init => RInv
<1> SUFFICES ASSUME Init PROVE RInv
  OBVIOUS
<1>1. TypeOK
  BY InitInvariant DEF IInv
<1>2. RowsAreNumbered /\ OneRowPerStatus /\ RemovedWereMarked
  BY DEF Init, RowsAreNumbered, OneRowPerStatus, RemovedWereMarked
<1>3. HeldAreMarked
  BY MarksAssumption DEF Init, HeldAreMarked, Held, Row
<1> QED BY <1>1, <1>2, <1>3 DEF RInv

LEMMA RowsNext ==
  ASSUME RInv, TypeOK', [Next]_vars
  PROVE  RInv' /\ RowLife
<1>1. ASSUME NEW g \in Group, NEW keep \in g, MarkGroupForDeletion(g, keep) PROVE RInv' /\ RowLife
  <2>1. g \ {keep} \subseteq File
    BY GroupAssumption
  <2> QED BY <1>1, <2>1, RowsInserted DEF MarkGroupForDeletion
<1>2. ASSUME NEW r \in Reviewer, NEW f \in File, MarkForDeletion(r, f) PROVE RInv' /\ RowLife
  <2>1. CASE InsertPending({f})
    BY <1>2, <2>1, RowsInserted DEF MarkForDeletion
  <2>2. CASE UNCHANGED table
    BY <1>2, <2>2, RowsRest DEF MarkForDeletion, sessions, Held
  <2> QED BY <1>2, <2>1, <2>2 DEF MarkForDeletion
<1>3. ASSUME NEW f \in File, UnmarkForDeletion(f) PROVE RInv' /\ RowLife
  <2> USE <1>3 DEF UnmarkForDeletion, DeletePending, Pending, sessions
  <2>1. RowsAreNumbered' /\ OneRowPerStatus' /\ RowLife
    BY DEF RInv, TypeOK, RowsAreNumbered, OneRowPerStatus, RowLife
  <2>2. \A row \in Row : status[row] # "none" /\ FileOf(row) \notin Unmarkable => status'[row] # "none"
    BY DEF RInv, TypeOK
  <2>3. \A k \in File : marks[k] <= marks'[k]
    BY MarksAssumption DEF RInv, TypeOK
  <2> QED BY <2>1, <2>2, <2>3, RowsStep DEF Held
<1>4. ASSUME NEW e \in Session, GetPendingDeletions(e) PROVE RInv' /\ RowLife
  <2>1. \A d \in Session : Held(d)' \subseteq Held(d) \cup Pending
    BY <1>4 DEF GetPendingDeletions, Held, RInv, TypeOK
  <2> QED BY <1>4, <2>1, RowsRest DEF GetPendingDeletions
<1>5. ASSUME NEW e \in Session, NEW row \in Row, RemoveFile(e, row) PROVE RInv' /\ RowLife
  <2> USE <1>5 DEF RemoveFile, table
  <2>1. row \in Held(e)
    BY DEF Held
  <2>2. \A d \in Session : Held(d)' \subseteq Held(d)
    BY DEF Held, RInv, TypeOK
  <2>3. \A f \in disk \ disk' : FileOf(row) = f
    OBVIOUS
  <2>4. RowsAreNumbered' /\ OneRowPerStatus' /\ RowLife
    BY DEF RInv, TypeOK, RowsAreNumbered, OneRowPerStatus, RowLife
  <2>5. \A f \in File : marks[f] <= marks'[f]
    BY MarksAssumption DEF RInv, TypeOK
  <2> QED BY <2>1, <2>2, <2>3, <2>4, <2>5, RowsStep
<1>6. ASSUME NEW e \in Session, RecordOutcome(e) PROVE RInv' /\ RowLife
  BY <1>6, RowsLoop DEF RecordOutcome
<1>7. ASSUME NEW e \in Session, End(e), UNCHANGED <<disk, table, marking>> PROVE RInv' /\ RowLife
  <2>1. \A d \in Session : Held(d)' \subseteq Held(d)
    BY <1>7, MarksAssumption DEF End, Held, RInv, TypeOK, Row
  <2> QED BY <1>7, <2>1, RowsRest
<1>8. ASSUME UNCHANGED <<disk, table, todo, current>> PROVE RInv' /\ RowLife
  BY <1>8, RowsRest DEF Held
<1> QED BY <1>1, <1>2, <1>3, <1>4, <1>5, <1>6, <1>7, <1>8 DEF Next, Work, ChooseKeeper, Confirm, Decline,
    KillSession, KillReview, vars, sessions, table

LEMMA RowsInvariant == Spec => [](IInv /\ RInv)
<1>1. IInv /\ RInv /\ [Next]_vars => (IInv /\ RInv)'
  BY NextInvariant, RowsNext DEF IInv
<1> QED BY InitInvariant, RowsInit, <1>1, PTL DEF Spec

LEMMA RowsWebNext ==
  ASSUME RInv, TypeOK', [WebNext]_webVars
  PROVE  RInv' /\ RowLife
<1>1. CASE [Next]_vars
  BY <1>1, RowsNext
<1>2. CASE EndAll
  <2>1. \A e \in Session : Held(e)' \subseteq Held(e)
    BY <1>2, MarksAssumption DEF EndAll, Held, Row
  <2> QED BY <1>2, <2>1, RowsRest DEF EndAll
<1>3. ASSUME NEW e \in WebRequest, RecordOnClosedStore(e) PROVE RInv' /\ RowLife
  BY <1>3, RowsLoop DEF RecordOnClosedStore, table, WebRequest
<1> QED BY <1>1, <1>2, <1>3, WebSteps

LEMMA WebRowsInvariant == WebSpec => [](IInv /\ RInv)
<1>1. IInv /\ RInv /\ [WebNext]_webVars => (IInv /\ RInv)'
  BY WebNextInvariant, RowsWebNext DEF IInv
<1>2. WebInit => IInv /\ RInv
  BY InitInvariant, RowsInit DEF WebInit
<1> QED BY <1>1, <1>2, PTL DEF WebSpec

\* UNIQUE(file_id, status) is never violated, though the updates of outcomes
\* ignore a rejected one: no two rows of a file have one status.
THEOREM StatusIsUnique == Spec => []OneRowPerStatus
BY RowsInvariant, PTL DEF RInv

\* Executing removes nothing that was not marked, and a removed file keeps a row
\* unless its mark was withdrawn.
THEOREM RemovedLeaveRows == Spec => []RemovedWereMarked
BY RowsInvariant, PTL DEF RInv

\* No withdrawn mark comes back, and no outcome is taken back for a pending mark.
THEOREM RowsLiveOnce == Spec => MarksLiveOnce
<1>1. IInv /\ RInv /\ [Next]_vars /\ IInv' => [RowLife]_vars
  BY RowsNext DEF IInv
<1> QED BY RowsInvariant, <1>1, PTL DEF Spec, MarksLiveOnce

\* All three beside a server, with any number of requests and however it stops.
THEOREM WebRowsLiveOnce == WebSpec => [](OneRowPerStatus /\ RemovedWereMarked) /\ MarksLiveOnce
<1>1. IInv /\ RInv /\ [WebNext]_webVars /\ IInv' => [RowLife]_vars
  BY RowsWebNext DEF IInv
<1>2. IInv /\ RInv => OneRowPerStatus /\ RemovedWereMarked
  BY DEF RInv
<1> QED BY WebRowsInvariant, <1>1, <1>2, PTL DEF WebSpec, MarksLiveOnce

-----------------------------------------------------------------------------
(***************************************************************************)
(* Every removal is accounted for.  That a removed file has a row is       *)
(* RemovedWereMarked; what is left to show is that the row has an outcome  *)
(* unless a session still has to record it, or was kept from that.         *)
(***************************************************************************)

HasOutcome(f) == \E row \in Row : FileOf(row) = f /\ status[row] \in {"deleted", "failed"}

Accounted ==
  \A f \in File \ (disk \cup Unmarkable) :
    HasOutcome(f) \/ f \in lost \/ \E e \in Session : f \in Unrecorded(e)

\* A step that forgets nothing, and removes files only in the name of a session.
LEMMA AccountedStep ==
  ASSUME Accounted, RowLife, lost \subseteq lost',
         \A e \in Session : \A f \in Unrecorded(e) \ Unmarkable :
           f \in Unrecorded(e)' \/ f \in lost' \/ HasOutcome(f)',
         \A f \in disk \ disk' : \E e \in Session : f \in Unrecorded(e)'
  PROVE  Accounted'
<1> SUFFICES ASSUME NEW f \in File \ (disk' \cup Unmarkable)
             PROVE  HasOutcome(f)' \/ f \in lost' \/ \E e \in Session : f \in Unrecorded(e)'
  BY DEF Accounted
<1>1. CASE f \in disk
  BY <1>1
<1>2. CASE HasOutcome(f)
  BY <1>2 DEF HasOutcome, RowLife
<1>3. CASE f \in lost
  BY <1>3
<1>4. ASSUME NEW e \in Session, f \in Unrecorded(e)
      PROVE  HasOutcome(f)' \/ f \in lost' \/ \E d \in Session : f \in Unrecorded(d)'
  BY <1>4
<1> QED BY <1>1, <1>2, <1>3, <1>4 DEF Accounted

\* The update that records an outcome: it is written, or UNIQUE rejects it
\* because another row of the file has that outcome already.
LEMMA OutcomeIsWritten ==
  ASSUME RInv, NEW e \in Session, pc[e] = "record", SetStatus(current[e], outcome[e]),
         NEW f \in Unrecorded(e) \ Unmarkable
  PROVE  HasOutcome(f)'
<1>1. /\ current[e] \in Row /\ FileOf(current[e]) = f
      /\ outcome[e] = "deleted"
      /\ status[current[e]] # "none"
  BY MarksAssumption DEF RInv, HeldAreMarked, Held, Marked, Unrecorded, TypeOK
<1>2. CASE Conflict(current[e], "deleted")
  BY <1>1, <1>2 DEF SetStatus, Conflict, HasOutcome
<1>3. CASE ~Conflict(current[e], "deleted")
  <2>1. status'[current[e]] = "deleted"
    BY <1>1, <1>3 DEF SetStatus, RInv, TypeOK
  <2> QED BY <1>1, <2>1 DEF HasOutcome
<1> QED BY <1>2, <1>3

\* A session forgets what it was at only by recording it, or because of a fault.
LEMMA AccountedNext ==
  ASSUME RInv, Accounted, TypeOK', [Next]_vars
  PROVE  Accounted'
<1>1. RowLife
  BY RowsNext
<1>2. ASSUME NEW e \in Session, UNCHANGED disk, lost \subseteq lost',
             \A d \in Session \ {e} : pc'[d] = pc[d] /\ outcome'[d] = outcome[d] /\ current'[d] = current[d],
             \A f \in Unrecorded(e) \ Unmarkable : f \in lost' \/ HasOutcome(f)'
      PROVE  Accounted'
  <2>1. \A d \in Session \ {e} : Unrecorded(d)' = Unrecorded(d)
    BY <1>2 DEF Unrecorded
  <2> QED BY <1>1, <1>2, <2>1, AccountedStep
<1>3. CASE UNCHANGED <<disk, sessions>>
  <2>1. \A e \in Session : Unrecorded(e)' = Unrecorded(e)
    BY <1>3 DEF Unrecorded, sessions
  <2> QED BY <1>1, <1>3, <2>1, AccountedStep DEF sessions
<1>4. ASSUME NEW e \in Session, GetPendingDeletions(e) \/ Confirm(e) \/ Decline(e) PROVE Accounted'
  <2>1. Unrecorded(e) = {}
    BY <1>4 DEF GetPendingDeletions, Confirm, Decline, Unrecorded
  <2>2. /\ UNCHANGED <<disk, lost>>
        /\ \A d \in Session \ {e} : pc'[d] = pc[d] /\ outcome'[d] = outcome[d] /\ current'[d] = current[d]
    BY <1>4 DEF GetPendingDeletions, Confirm, Decline, End, RInv, TypeOK
  <2> QED BY <1>2, <2>1, <2>2
<1>5. ASSUME NEW e \in Session, NEW row \in Row, RemoveFile(e, row) PROVE Accounted'
  <2>1. pc[e] = "run" /\ pc'[e] = "record" /\ current'[e] = row
    BY <1>5 DEF RemoveFile, RInv, TypeOK
  <2>2. \A d \in Session \ {e} : Unrecorded(d)' = Unrecorded(d)
    BY <1>5 DEF RemoveFile, Unrecorded, RInv, TypeOK
  <2>3. Unrecorded(e) = {}
    BY <2>1 DEF Unrecorded
  <2>4. \A f \in disk \ disk' : f \in Unrecorded(e)'
    BY <1>5, <2>1 DEF RemoveFile, Unrecorded, RInv, TypeOK
  <2>5. lost' = lost
    BY <1>5 DEF RemoveFile
  <2> QED BY <1>1, <2>2, <2>3, <2>4, <2>5, AccountedStep
<1>6. ASSUME NEW e \in Session, RecordOutcome(e) PROVE Accounted'
  <2>1. \A d \in Session \ {e} : pc'[d] = pc[d] /\ outcome'[d] = outcome[d] /\ current'[d] = current[d]
    BY <1>6 DEF RecordOutcome, NextDeletion, End, RInv, TypeOK
  <2>2. CASE SetStatus(current[e], outcome[e]) /\ UNCHANGED lost
    <3>1. \A f \in Unrecorded(e) \ Unmarkable : HasOutcome(f)'
      BY <1>6, <2>2, OutcomeIsWritten DEF RecordOutcome
    <3> QED BY <1>2, <1>6, <2>1, <2>2, <3>1 DEF RecordOutcome
  <2>3. CASE lost' = lost \cup Unrecorded(e)
    BY <1>2, <1>6, <2>1, <2>3 DEF RecordOutcome
  <2> QED BY <1>6, <2>2, <2>3 DEF RecordOutcome
<1>7. ASSUME NEW e \in Session, KillSession(e) PROVE Accounted'
  <2>1. /\ UNCHANGED disk /\ lost' = lost \cup Unrecorded(e)
        /\ \A d \in Session \ {e} : pc'[d] = pc[d] /\ outcome'[d] = outcome[d] /\ current'[d] = current[d]
    BY <1>7 DEF KillSession, End, RInv, TypeOK
  <2> QED BY <1>2, <2>1
<1> QED BY <1>3, <1>4, <1>5, <1>6, <1>7 DEF Next, Work, MarkGroupForDeletion, ChooseKeeper, MarkForDeletion,
    UnmarkForDeletion, KillReview, vars, sessions

\* The same when the server goes on with a closed store, and when it ends.
LEMMA AccountedWebNext ==
  ASSUME RInv, Accounted, TypeOK', [WebNext]_webVars
  PROVE  Accounted'
<1>1. RowLife
  BY RowsWebNext
<1>2. CASE [Next]_vars
  BY <1>2, AccountedNext
<1>3. CASE EndAll
  <2>1. \A e \in Session : Unrecorded(e)' = Unrecorded(e) \/ Unrecorded(e) \subseteq lost'
    BY <1>3 DEF EndAll, WebRequest, Unrecorded
  <2>2. lost \subseteq lost' /\ disk' = disk
    BY <1>3 DEF EndAll
  <2> QED BY <1>1, <2>1, <2>2, AccountedStep
<1>4. ASSUME NEW e \in WebRequest, RecordOnClosedStore(e) PROVE Accounted'
  <2>1. \A d \in Session \ {e} : Unrecorded(d)' = Unrecorded(d)
    BY <1>4 DEF RecordOnClosedStore, NextDeletion, End, RInv, TypeOK, Unrecorded, WebRequest
  <2>2. lost' = lost \cup Unrecorded(e) /\ disk' = disk
    BY <1>4 DEF RecordOnClosedStore
  <2> QED BY <1>1, <2>1, <2>2, AccountedStep
<1> QED BY <1>2, <1>3, <1>4, WebSteps

LEMMA AccountedIsRecorded == RInv /\ Accounted => RemovedIsRecorded
<1> SUFFICES ASSUME RInv, Accounted, NEW f \in File \ (disk \cup Unmarkable), ~HasOutcome(f)
             PROVE  IsPending(f) /\ (f \in lost \/ \E e \in Session : f \in Unrecorded(e))
  BY DEF RemovedIsRecorded, HasOutcome
<1>1. PICK row \in Row : FileOf(row) = f /\ status[row] # "none"
  BY DEF RInv, RemovedWereMarked, Marked
<1>2. status[row] = "pending"
  BY <1>1 DEF HasOutcome, RInv, TypeOK
<1> QED BY <1>1, <1>2 DEF Accounted, IsPending, Pending

\* Whatever sessions overlap, and whatever is killed or fails, a removed file has
\* an outcome, or stays pending because a fault dropped the record.
THEOREM RemovalsAreRecorded == Spec => []RemovedIsRecorded
<1>1. Init => Accounted
  BY DEF Init, Accounted
<1>2. IInv /\ RInv /\ Accounted /\ [Next]_vars /\ IInv' => Accounted'
  BY AccountedNext DEF IInv
<1> QED BY RowsInvariant, AccountedIsRecorded, <1>1, <1>2, PTL DEF Spec

\* So it is beside a server, whose shutdown closes the store under its requests.
THEOREM WebRemovalsAreRecorded == WebSpec => []RemovedIsRecorded
<1>1. WebInit => Accounted
  BY DEF WebInit, Init, Accounted
<1>2. IInv /\ RInv /\ Accounted /\ [WebNext]_webVars /\ IInv' => Accounted'
  BY AccountedWebNext DEF IInv
<1> QED BY WebRowsInvariant, AccountedIsRecorded, <1>1, <1>2, PTL DEF WebSpec

-----------------------------------------------------------------------------
(***************************************************************************)
(* The part of CommandsEnd that needs no fairness: a running session       *)
(* always has a row to deal with, has less to do after each step of its    *)
(* own, and no other process gives it more.                                *)
(***************************************************************************)

SomethingToDo == \A e \in Session : pc[e] \in {"confirm", "run"} => todo[e] # {}

Remaining(e) == 2 * Cardinality(todo[e]) + (IF pc[e] = "record" THEN 1 ELSE 0)

SessionProgress ==
  \A e \in Session : pc[e] \in {"run", "record"} =>
    /\ Remaining(e)' <= Remaining(e)
    /\ Work(e) => Remaining(e)' < Remaining(e)

LEMMA RowsAreFinite ==
  ASSUME IsFiniteSet(File), NEW S \in SUBSET Row
  PROVE  /\ Cardinality(S) \in Nat
         /\ \A row \in S : Cardinality(S \ {row}) = Cardinality(S) - 1
<1>1. IsFiniteSet(1 .. MaxMarks)
  BY MarksAssumption, FS_Interval
<1>2. IsFiniteSet(Row)
  BY <1>1, FS_Product DEF Row
<1>3. IsFiniteSet(S)
  BY <1>2, FS_Subset
<1> QED BY <1>3, FS_CardinalityType, FS_RemoveElement

LEMMA SessionStep ==
  ASSUME IsFiniteSet(File), TypeOK, SomethingToDo, [Next]_vars
  PROVE  SomethingToDo' /\ SessionProgress
<1> USE DEF SomethingToDo
<1>1. \A e \in Session : Cardinality(todo[e]) \in Nat
  BY RowsAreFinite DEF TypeOK
<1>2. \A e \in Session : Work(e) => /\ pc[e] \in {"run", "record"}
                                    /\ pc'[e] # pc[e]
                                    /\ \A d \in Session \ {e} : pc'[d] = pc[d] /\ todo'[d] = todo[d]
  BY DEF Work, RemoveFile, RecordOutcome, NextDeletion, End, TypeOK
<1>3. ASSUME NEW e \in Session,
             \A d \in Session \ {e} : pc'[d] = pc[d] /\ todo'[d] = todo[d],
             pc'[e] \in {"confirm", "run"} => todo'[e] # {},
             pc[e] \in {"run", "record"} =>
               Remaining(e)' <= Remaining(e) /\ (Work(e) => Remaining(e)' < Remaining(e))
      PROVE  SomethingToDo' /\ SessionProgress
  <2>1. \A d \in Session \ {e} : Remaining(d)' = Remaining(d) /\ Remaining(d) \in Nat /\ ~Work(d)
    BY <1>1, <1>2, <1>3 DEF Remaining
  <2> QED BY <1>3, <2>1 DEF SessionProgress
<1>4. CASE UNCHANGED <<pc, todo>>
  <2>1. \A e \in Session : Remaining(e)' = Remaining(e) /\ Remaining(e) \in Nat /\ ~Work(e)
    BY <1>1, <1>2, <1>4 DEF Remaining
  <2> QED BY <1>4, <2>1 DEF SessionProgress
<1>5. ASSUME NEW e \in Session, End(e), pc[e] \in {"run", "record"} => pc[e] = "record" \/ KillSession(e)
      PROVE  SomethingToDo' /\ SessionProgress
  <2>1. pc'[e] = "idle" /\ todo'[e] = {} /\ \A d \in Session \ {e} : pc'[d] = pc[d] /\ todo'[d] = todo[d]
    BY <1>5 DEF End, TypeOK
  <2>2. Cardinality({}) = 0
    BY FS_EmptySet
  <2>3. Remaining(e)' = 0
    BY <2>1, <2>2 DEF Remaining
  <2>4. pc[e] = "run" => Cardinality(todo[e]) # 0
    <3> SUFFICES ASSUME pc[e] = "run", Cardinality(todo[e]) = 0 PROVE FALSE
      OBVIOUS
    <3>1. PICK row \in todo[e] : TRUE
      OBVIOUS
    <3>2. Cardinality(todo[e] \ {row}) = 0 - 1 /\ Cardinality(todo[e] \ {row}) \in Nat
      BY <3>1, RowsAreFinite DEF TypeOK
    <3> QED BY <3>2
  <2>5. pc[e] \in {"run", "record"} => Remaining(e) \in Nat /\ Remaining(e) > 0
    BY <1>1, <2>4 DEF Remaining
  <2> QED BY <1>3, <2>1, <2>3, <2>5
<1>6. ASSUME NEW e \in Session, GetPendingDeletions(e) PROVE SomethingToDo' /\ SessionProgress
  BY <1>3, <1>6 DEF GetPendingDeletions, TypeOK
<1>7. ASSUME NEW e \in Session, Confirm(e) PROVE SomethingToDo' /\ SessionProgress
  BY <1>3, <1>7 DEF Confirm, TypeOK
<1>8. ASSUME NEW e \in Session, NEW row \in Row, RemoveFile(e, row) PROVE SomethingToDo' /\ SessionProgress
  <2>1. /\ pc[e] = "run" /\ pc'[e] = "record" /\ todo'[e] = todo[e] \ {row} /\ row \in todo[e]
        /\ \A d \in Session \ {e} : pc'[d] = pc[d] /\ todo'[d] = todo[d]
    BY <1>8 DEF RemoveFile, TypeOK
  <2>2. Cardinality(todo[e] \ {row}) = Cardinality(todo[e]) - 1
    BY <2>1, RowsAreFinite DEF TypeOK
  <2>3. Remaining(e)' < Remaining(e) /\ Remaining(e)' <= Remaining(e)
    BY <1>1, <2>1, <2>2 DEF Remaining
  <2> QED BY <1>3, <2>1, <2>3
<1>9. ASSUME NEW e \in Session, RecordOutcome(e), ~End(e) PROVE SomethingToDo' /\ SessionProgress
  <2>1. /\ pc[e] = "record" /\ pc'[e] = "run" /\ todo'[e] = todo[e] /\ todo[e] # {}
        /\ \A d \in Session \ {e} : pc'[d] = pc[d] /\ todo'[d] = todo[d]
    BY <1>9 DEF RecordOutcome, NextDeletion, TypeOK
  <2>2. Remaining(e)' < Remaining(e) /\ Remaining(e)' <= Remaining(e)
    BY <1>1, <2>1 DEF Remaining
  <2> QED BY <1>3, <2>1, <2>2
<1> QED BY <1>4, <1>5, <1>6, <1>7, <1>8, <1>9 DEF Next, Work, MarkGroupForDeletion, ChooseKeeper, MarkForDeletion,
    UnmarkForDeletion, Decline, KillSession, KillReview, RecordOutcome, vars, sessions

\* Every step of a confirmed session, removing or recording, brings it nearer to
\* its end, it is never without a row to go on with, and nobody can prolong it.
THEOREM SessionsProgress ==
  ASSUME IsFiniteSet(File)
  PROVE  Spec => []SomethingToDo /\ [][SessionProgress]_vars
<1>1. Init => SomethingToDo
  BY DEF Init, SomethingToDo
<1>2. IInv /\ SomethingToDo /\ [Next]_vars => SomethingToDo' /\ [SessionProgress]_vars
  BY SessionStep DEF IInv
<1> QED BY Invariant, <1>1, <1>2, PTL DEF Spec
=============================================================================
