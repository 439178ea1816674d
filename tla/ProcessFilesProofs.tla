------------------------- MODULE ProcessFilesProofs -------------------------
(***************************************************************************)
(* The worker pool of scanner/hasher.go loses no file, sends on no closed  *)
(* channel, returns all results and comes to its end, for any number of    *)
(* files and workers.                                                      *)
(***************************************************************************)
EXTENDS ProcessFiles, FiniteSetTheorems, TLAPS

\* How far the calling goroutine is tells what is closed and who is left.
Closing ==
  /\ pc = "sending" <=> ~workClosed
  /\ pc \in {"sending", "waiting"} <=> ~resultClosed
  /\ exited # {} => workClosed /\ work = {}
  /\ \A w \in exited : holding[w] = NoJob
  /\ resultClosed => exited = Worker
  /\ collected => resultClosed /\ resultCh = {}
  /\ pc \in {"returned", "done"} => collected
  /\ pc # "sending" /\ ~err => unsent = {}
  /\ err => cancelled
  /\ pc # "done" <=> outcome = "none"
  /\ pc # "done" => stored = {}

IInv == TypeOK /\ EachFileOnce /\ Closing

\* A worker takes a file: the files held grow by it.
LEMMA HeldAfterTake ==
  ASSUME TypeOK, NEW w \in Worker, NEW f \in Job, holding[w] = NoJob,
         holding' = [holding EXCEPT ![w] = f]
  PROVE  Held' = Held \cup {f}
<1>1. \A v \in Worker : holding'[v] = IF v = w THEN f ELSE holding[v]
  BY DEF TypeOK
<1>2. f # NoJob
  BY JobAssumption
<1> QED
  BY <1>1, <1>2 DEF Held

\* A worker sends its result: the files held shrink by its file.
LEMMA HeldAfterSend ==
  ASSUME TypeOK, NEW w \in Worker, holding[w] # NoJob,
         \A u, v \in Worker : holding[u] = holding[v] /\ holding[u] # NoJob => u = v,
         holding' = [holding EXCEPT ![w] = NoJob]
  PROVE  Held' = Held \ {holding[w]}
<1>1. \A v \in Worker : holding'[v] = IF v = w THEN NoJob ELSE holding[v]
  BY DEF TypeOK
<1> QED
  BY <1>1 DEF Held

LEMMA InitInvariant == Init => IInv
BY DEF Init, IInv, TypeOK, EachFileOnce, Closing, Held

\* Every step of every goroutine keeps the inductive invariant.
LEMMA NextInvariant == IInv /\ [Next]_vars => IInv'
<1> SUFFICES ASSUME IInv, [Next]_vars PROVE IInv'
  OBVIOUS
<1> USE DEF IInv, channels
<1>1. CASE \E f \in Job : SendWork(f)
  <2> PICK f \in Job : SendWork(f)
    BY <1>1
  <2>1. TypeOK'
    BY DEF TypeOK, SendWork
  <2>2. EachFileOnce'
    BY DEF EachFileOnce, SendWork, Held, TypeOK
  <2>3. Closing'
    BY DEF Closing, SendWork
  <2> QED BY <2>1, <2>2, <2>3
<1>2. CASE CloseWork
  <2>1. TypeOK'
    BY <1>2 DEF TypeOK, CloseWork
  <2>2. EachFileOnce'
    BY <1>2 DEF EachFileOnce, CloseWork, Held
  <2>3. Closing'
    BY <1>2 DEF Closing, CloseWork
  <2> QED BY <2>1, <2>2, <2>3
<1>3. CASE CloseResults
  <2>1. TypeOK'
    BY <1>3 DEF TypeOK, CloseResults
  <2>2. EachFileOnce'
    BY <1>3 DEF EachFileOnce, CloseResults, Held
  <2>3. Closing'
    BY <1>3 DEF Closing, CloseResults
  <2> QED BY <2>1, <2>2, <2>3
<1>4. CASE ReturnResults
  <2>1. TypeOK'
    BY <1>4 DEF TypeOK, ReturnResults
  <2>2. EachFileOnce'
    BY <1>4 DEF EachFileOnce, ReturnResults, Held
  <2>3. Closing'
    BY <1>4 DEF Closing, ReturnResults
  <2> QED BY <2>1, <2>2, <2>3
<1>5. CASE StoreResults
  <2>1. TypeOK'
    BY <1>5 DEF TypeOK, StoreResults
  <2>2. EachFileOnce'
    BY <1>5 DEF EachFileOnce, StoreResults, Held
  <2>3. Closing'
    BY <1>5 DEF Closing, StoreResults
  <2> QED BY <2>1, <2>2, <2>3
<1>6. CASE \E w \in Worker : TakeWork(w)
  <2> PICK w \in Worker : TakeWork(w)
    BY <1>6
  <2> PICK f \in work : work' = work \ {f} /\ holding' = [holding EXCEPT ![w] = f]
    BY DEF TakeWork
  <2>1. TypeOK'
    BY DEF TypeOK, TakeWork
  <2>2. EachFileOnce'
    <3>1. Held' = Held \cup {f}
      BY HeldAfterTake DEF TakeWork, TypeOK
    <3>2. f \notin Held
      BY DEF EachFileOnce
    <3>3. \A v \in Worker : holding[v] # f
      BY <3>2, JobAssumption DEF Held, TypeOK
    <3>4. \A u, v \in Worker : holding'[u] = holding'[v] /\ holding'[u] # NoJob => u = v
      BY <3>3 DEF EachFileOnce, TypeOK
    <3> QED BY <3>1, <3>2, <3>4 DEF EachFileOnce, TakeWork
  <2>3. Closing'
    BY DEF Closing, TakeWork, TypeOK
  <2> QED BY <2>1, <2>2, <2>3
<1>7. CASE \E w \in Worker : SendResult(w)
  <2> PICK w \in Worker : SendResult(w)
    BY <1>7
  <2>1. TypeOK'
    BY DEF TypeOK, SendResult
  <2>2. EachFileOnce'
    <3>1. Held' = Held \ {holding[w]} /\ holding[w] \in Held
      BY HeldAfterSend DEF SendResult, EachFileOnce, Held
    <3>2. \A u, v \in Worker : holding'[u] = holding'[v] /\ holding'[u] # NoJob => u = v
      BY DEF EachFileOnce, TypeOK, SendResult
    <3> QED BY <3>1, <3>2 DEF EachFileOnce, SendResult
  <2>3. Closing'
    <3>1. w \notin exited
      BY DEF Closing, SendResult
    <3>2. \A v \in exited : holding'[v] = NoJob
      BY <3>1 DEF Closing, SendResult, TypeOK
    <3>3. ~collected
      BY <3>1 DEF Closing
    <3> QED BY <3>1, <3>2, <3>3 DEF Closing, SendResult
  <2> QED BY <2>1, <2>2, <2>3
<1>8. CASE \E w \in Worker : WorkerExit(w)
  <2> PICK w \in Worker : WorkerExit(w)
    BY <1>8
  <2>1. TypeOK'
    BY DEF TypeOK, WorkerExit
  <2>2. EachFileOnce'
    BY DEF EachFileOnce, WorkerExit, Held
  <2>3. Closing'
    BY DEF Closing, WorkerExit, TypeOK
  <2> QED BY <2>1, <2>2, <2>3
<1>9. CASE \E f \in Job : Collect(f)
  <2> PICK f \in Job : Collect(f)
    BY <1>9
  <2>1. TypeOK'
    BY DEF TypeOK, Collect
  <2>2. EachFileOnce'
    BY DEF EachFileOnce, Collect, Held, TypeOK
  <2>3. Closing'
    BY DEF Closing, Collect
  <2> QED BY <2>1, <2>2, <2>3
<1>10. CASE CollectorExit
  <2>1. TypeOK'
    BY <1>10 DEF TypeOK, CollectorExit
  <2>2. EachFileOnce'
    BY <1>10 DEF EachFileOnce, CollectorExit, Held
  <2>3. Closing'
    BY <1>10 DEF Closing, CollectorExit
  <2> QED BY <2>1, <2>2, <2>3
<1>11. CASE Cancel
  <2>1. TypeOK'
    BY <1>11 DEF TypeOK, Cancel
  <2>2. EachFileOnce'
    BY <1>11 DEF EachFileOnce, Cancel, Held
  <2>3. Closing'
    BY <1>11 DEF Closing, Cancel
  <2> QED BY <2>1, <2>2, <2>3
<1>12. CASE UNCHANGED vars
  BY <1>12 DEF vars, TypeOK, EachFileOnce, Closing, Held
<1> QED
  BY <1>1, <1>2, <1>3, <1>4, <1>5, <1>6, <1>7, <1>8, <1>9, <1>10, <1>11, <1>12
  DEF Next, Caller, WorkerStep, Collector, Terminated

LEMMA Invariant == Spec => []IInv
BY InitInvariant, NextInvariant, PTL DEF Spec

\* Every variable keeps its type.
THEOREM TypeCorrect == Spec => []TypeOK
BY Invariant, PTL DEF IInv

\* No file is lost or hashed twice between slice files and slice results.
THEOREM FilesOnce == Spec => []EachFileOnce
BY Invariant, PTL DEF IInv

\* No goroutine sends on a closed channel: resultCh is closed only after all
\* workers have exited, and a worker that holds a file has not.
THEOREM NoPanic == Spec => []NoSendOnClosed
<1>1. IInv => NoSendOnClosed
  BY DEF IInv, Closing, NoSendOnClosed, Held
<1> QED BY Invariant, <1>1, PTL

\* The collector is the last to end, so all channels and workers are empty.
LEMMA InvariantReturns == IInv => ReturnsAllResults
<1> SUFFICES ASSUME IInv, pc \in {"returned", "done"}
             PROVE  results = Job \ unsent /\ (~err => results = Job) /\ exited = Worker /\ collected
  BY DEF ReturnsAllResults
<1>1. collected /\ resultClosed /\ resultCh = {} /\ exited = Worker
  BY DEF IInv, Closing
<1>2. work = {} /\ Held = {}
  BY <1>1, WorkerAssumption DEF IInv, Closing, Held
<1>3. ~err => unsent = {}
  BY DEF IInv, Closing
<1> QED BY <1>1, <1>2, <1>3 DEF IInv, EachFileOnce

\* processFiles returns the results of all files it has sent.
THEOREM AllReturned == Spec => []ReturnsAllResults
BY Invariant, InvariantReturns, PTL

\* The pool implements a hashing round that stores all results, or none because
\* it was cancelled or because its transaction failed: the steps of its
\* goroutines are steps of HashRound or change nothing there.
THEOREM RoundStepwise == Spec => Round!Init /\ [][Round!Next]_(Round!vars)
<1>1. Init => Round!Init
  BY DEF Init, Round!Init
<1>2. ASSUME IInv, IInv', [Next]_vars PROVE [Round!Next]_(Round!vars)
  <2> USE <1>2 DEF IInv, Round!vars
  <2>1. CASE StoreResults
    <3>1. outcome = "none" /\ cancelled' = cancelled
      BY <2>1 DEF StoreResults, Closing
    <3>2. CASE err /\ outcome' = "cancelled" /\ UNCHANGED stored
      <4>1. cancelled
        BY <3>2 DEF Closing
      <4> QED BY <3>1, <3>2, <4>1 DEF Round!Next, Round!Abandon
    <3>3. CASE ~err /\ outcome' = "stored" /\ stored' = results
      <4>1. results = Job
        BY <2>1, <3>3, InvariantReturns DEF ReturnsAllResults, StoreResults
      <4> QED BY <3>1, <3>3, <4>1 DEF Round!Next, Round!Store
    <3>4. CASE ~err /\ outcome' = "failed" /\ UNCHANGED stored
      BY <3>1, <3>4 DEF Round!Next, Round!Fail
    <3> QED BY <2>1, <3>2, <3>3, <3>4 DEF StoreResults
  <2>2. CASE Cancel
    BY <2>2 DEF Cancel, Round!Next, Round!Cancel, channels, Closing
  <2>3. CASE Next /\ ~StoreResults /\ ~Cancel
    <3>1. UNCHANGED <<cancelled, stored, outcome>>
      BY <2>3 DEF Next, Caller, WorkerStep, Collector, SendWork, CloseWork, CloseResults,
         ReturnResults, TakeWork, SendResult, WorkerExit, Collect, CollectorExit,
         Terminated, vars
    <3> QED BY <3>1
  <2>4. CASE UNCHANGED vars
    BY <2>4 DEF vars
  <2> QED BY <2>1, <2>2, <2>3, <2>4
<1> QED BY <1>1, <1>2, Invariant, PTL DEF Spec

-----------------------------------------------------------------------------
(***************************************************************************)
(* What RoundEnds needs besides a fair scheduler: until the round is done, *)
(* some goroutine can go on, and whatever a goroutine does brings the      *)
(* round nearer to its end.                                                *)
(***************************************************************************)

CallerReady ==
  \/ pc = "sending" /\ (unsent = {} \/ cancelled \/ Cardinality(work) < Concurrency)
  \/ pc = "waiting" /\ exited = Worker
  \/ pc = "collecting" /\ collected
  \/ pc = "returned"

WorkerReady(w) ==
  \/ holding[w] = NoJob /\ work # {}
  \/ holding[w] # NoJob /\ Cardinality(resultCh) < Concurrency
  \/ holding[w] = NoJob /\ workClosed /\ w \notin exited

CollectorReady == resultCh # {} \/ (resultClosed /\ ~collected)

\* Nobody waits on everybody.
NeverBlocked == pc = "done" \/ CallerReady \/ CollectorReady \/ \E w \in Worker : WorkerReady(w)

Rank ==
  CASE pc = "sending" -> 4
    [] pc = "waiting" -> 3
    [] pc = "collecting" -> 2
    [] pc = "returned" -> 1
    [] pc = "done" -> 0

\* The stations that the files, the workers and the caller have still to pass.
StationsAhead ==
  4 * Cardinality(unsent) + 3 * Cardinality(work) + 2 * Cardinality(Held) + Cardinality(resultCh)
  + Cardinality(Worker \ exited) + Rank + (IF collected THEN 0 ELSE 1)

RoundProgress ==
  /\ StationsAhead \in Nat /\ StationsAhead' \in Nat
  /\ Caller \/ Collector \/ (\E w \in Worker : WorkerStep(w)) => StationsAhead' < StationsAhead
  /\ Cancel => StationsAhead' = StationsAhead

LEMMA Counting ==
  ASSUME NEW T, IsFiniteSet(T)
  PROVE  /\ \A S \in SUBSET T : Cardinality(S) \in Nat
         /\ \A S \in SUBSET T, x \in T : x \in S => Cardinality(S \ {x}) = Cardinality(S) - 1
         /\ \A S \in SUBSET T, x \in T : x \notin S => Cardinality(S \cup {x}) = Cardinality(S) + 1
<1>1. \A S \in SUBSET T : IsFiniteSet(S)
  BY FS_Subset
<1> QED BY <1>1, FS_CardinalityType, FS_AddElement, FS_RemoveElement

\* Each file and each worker is counted, and the sum is a number.
LEMMA StationsType ==
  ASSUME TypeOK
  PROVE  /\ Cardinality(unsent) \in Nat /\ Cardinality(work) \in Nat /\ Cardinality(Held) \in Nat
         /\ Cardinality(resultCh) \in Nat /\ Cardinality(Worker \ exited) \in Nat
         /\ Rank \in Nat /\ StationsAhead \in Nat
<1>1. Held \subseteq Job
  BY DEF Held, TypeOK
<1>2. /\ Cardinality(unsent) \in Nat /\ Cardinality(work) \in Nat /\ Cardinality(Held) \in Nat
      /\ Cardinality(resultCh) \in Nat
  BY <1>1, Counting, JobAssumption DEF TypeOK
<1>3. Cardinality(Worker \ exited) \in Nat
  BY Counting, WorkerAssumption
<1>4. Rank \in Nat
  BY DEF Rank, TypeOK
<1> QED BY <1>2, <1>3, <1>4 DEF StationsAhead

LEMMA StationsNumber == TypeOK => StationsAhead \in Nat
BY StationsType

\* A full channel has a reader: if no worker is free to take a file, all of them
\* hold one, and if there is no room for their results, the collector has one.
LEMMA InvariantNeverBlocked == IInv => NeverBlocked
<1> SUFFICES ASSUME IInv PROVE NeverBlocked
  OBVIOUS
<1> USE DEF IInv
<1>1. Cardinality(Worker) \in Nat /\ Cardinality(Worker) > 0
  BY WorkerAssumption, FS_CardinalityType, FS_EmptySet
<1>2. Cardinality({}) = 0
  BY FS_EmptySet
<1>3. Cardinality(resultCh) < Concurrency \/ resultCh # {}
  BY <1>1, <1>2 DEF Concurrency
<1>4. CASE pc = "sending"
  <2>1. Cardinality(work) < Concurrency \/ work # {}
    BY <1>1, <1>2 DEF Concurrency
  <2>2. PICK w \in Worker : TRUE
    BY WorkerAssumption
  <2> QED BY <1>3, <1>4, <2>1, <2>2 DEF NeverBlocked, CallerReady, CollectorReady, WorkerReady
<1>5. CASE pc = "waiting"
  <2>1. workClosed
    BY <1>5 DEF Closing
  <2>2. exited = Worker \/ \E w \in Worker : w \notin exited
    BY DEF TypeOK
  <2> QED BY <1>3, <1>5, <2>1, <2>2 DEF NeverBlocked, CallerReady, CollectorReady, WorkerReady
<1>6. CASE pc = "collecting"
  <2>1. resultClosed
    BY <1>6 DEF Closing
  <2> QED BY <1>6, <2>1 DEF NeverBlocked, CallerReady, CollectorReady
<1>7. CASE pc \in {"returned", "done"}
  BY <1>7 DEF NeverBlocked, CallerReady
<1> QED BY <1>4, <1>5, <1>6, <1>7 DEF TypeOK

LEMMA InvariantProgress == IInv /\ IInv' /\ [Next]_vars => [RoundProgress]_vars
<1> SUFFICES ASSUME IInv, IInv', Next PROVE RoundProgress \/ UNCHANGED vars
  OBVIOUS
<1> USE DEF IInv, channels
<1>1. StationsAhead \in Nat /\ StationsAhead' \in Nat
  <2>1. (TypeOK => StationsAhead \in Nat)'
    BY StationsNumber, PTL
  <2> QED BY <2>1, StationsNumber
<1>2. /\ Cardinality(unsent) \in Nat /\ Cardinality(work) \in Nat /\ Cardinality(Held) \in Nat
      /\ Cardinality(resultCh) \in Nat /\ Cardinality(Worker \ exited) \in Nat
      /\ Rank \in Nat /\ (pc' = pc => Rank' = Rank)
  BY StationsType DEF Rank
<1>3. ASSUME NEW S \in SUBSET Job, NEW f \in Job
      PROVE  /\ f \in S => Cardinality(S \ {f}) = Cardinality(S) - 1
             /\ f \notin S => Cardinality(S \cup {f}) = Cardinality(S) + 1
  BY Counting, JobAssumption
<1>4. Held \subseteq Job /\ \A w \in Worker : holding[w] # NoJob => holding[w] \in Job /\ holding[w] \in Held
  BY DEF Held, TypeOK
<1>5. ASSUME NEW f \in Job, SendWork(f) PROVE RoundProgress
  <2>1. Cardinality(unsent') = Cardinality(unsent) - 1 /\ Cardinality(work') = Cardinality(work) + 1
    <3>1. f \in unsent /\ f \notin work /\ unsent' = unsent \ {f} /\ work' = work \cup {f}
      BY <1>5 DEF SendWork, EachFileOnce
    <3> QED BY <1>3, <3>1 DEF TypeOK
  <2>2. UNCHANGED <<pc, Held, resultCh, exited, collected>> /\ ~Cancel
    BY <1>5 DEF SendWork, Held, Cancel
  <2> QED BY <1>1, <1>2, <2>1, <2>2 DEF RoundProgress, StationsAhead
<1>6. ASSUME CloseWork \/ CloseResults \/ ReturnResults \/ StoreResults PROVE RoundProgress
  <2>1. Rank' < Rank /\ Rank \in Nat /\ Rank' \in Nat
    BY <1>6 DEF CloseWork, CloseResults, ReturnResults, StoreResults, Rank
  <2>2. UNCHANGED <<unsent, work, Held, resultCh, exited, collected>> /\ ~Cancel
    BY <1>6 DEF CloseWork, CloseResults, ReturnResults, StoreResults, Held, Cancel
  <2> QED BY <1>1, <1>2, <2>1, <2>2 DEF RoundProgress, StationsAhead
<1>7. ASSUME NEW w \in Worker, TakeWork(w) PROVE RoundProgress
  <2>1. PICK f \in work : work' = work \ {f} /\ holding' = [holding EXCEPT ![w] = f]
    BY <1>7 DEF TakeWork
  <2>2. f \in Job /\ f \notin Held
    BY DEF TypeOK, EachFileOnce
  <2>3. Held' = Held \cup {f}
    BY <1>7, <2>1, <2>2, HeldAfterTake DEF TakeWork
  <2>4. Cardinality(work') = Cardinality(work) - 1 /\ Cardinality(Held') = Cardinality(Held) + 1
    BY <1>3, <1>4, <2>1, <2>2, <2>3 DEF TypeOK
  <2>5. UNCHANGED <<pc, unsent, resultCh, exited, collected>> /\ ~Cancel
    BY <1>7, <2>1 DEF TakeWork, Cancel
  <2> QED BY <1>1, <1>2, <2>4, <2>5 DEF RoundProgress, StationsAhead
<1>8. ASSUME NEW w \in Worker, SendResult(w) PROVE RoundProgress
  <2>1. holding[w] \in Job /\ holding[w] \in Held /\ holding[w] \notin resultCh
    BY <1>4, <1>8 DEF SendResult, EachFileOnce
  <2>2. Held' = Held \ {holding[w]} /\ resultCh' = resultCh \cup {holding[w]}
    BY <1>8, HeldAfterSend DEF SendResult, EachFileOnce
  <2>3. Cardinality(Held') = Cardinality(Held) - 1 /\ Cardinality(resultCh') = Cardinality(resultCh) + 1
    BY <1>3, <1>4, <2>1, <2>2 DEF TypeOK
  <2>4. UNCHANGED <<pc, unsent, work, exited, collected>> /\ ~Cancel
    BY <1>8, <2>1 DEF SendResult, Cancel
  <2> QED BY <1>1, <1>2, <2>3, <2>4 DEF RoundProgress, StationsAhead
<1>9. ASSUME NEW w \in Worker, WorkerExit(w) PROVE RoundProgress
  <2>1. w \in Worker \ exited /\ Worker \ exited' = (Worker \ exited) \ {w}
    BY <1>9 DEF WorkerExit
  <2>2. Cardinality(Worker \ exited') = Cardinality(Worker \ exited) - 1
    BY <2>1, Counting, WorkerAssumption
  <2>3. UNCHANGED <<pc, unsent, work, Held, resultCh, collected>> /\ ~Cancel
    BY <1>9, <2>1 DEF WorkerExit, Cancel, Held
  <2> QED BY <1>1, <1>2, <2>2, <2>3 DEF RoundProgress, StationsAhead
<1>10. ASSUME NEW f \in Job, Collect(f) PROVE RoundProgress
  <2>1. Cardinality(resultCh') = Cardinality(resultCh) - 1
    BY <1>3, <1>10 DEF Collect, TypeOK
  <2>2. UNCHANGED <<pc, unsent, work, Held, exited, collected>> /\ ~Cancel
    BY <1>10 DEF Collect, Cancel, Held
  <2> QED BY <1>1, <1>2, <2>1, <2>2 DEF RoundProgress, StationsAhead
<1>11. ASSUME CollectorExit PROVE RoundProgress
  <2>1. ~collected /\ collected' = TRUE
    BY <1>11 DEF CollectorExit
  <2>2. UNCHANGED <<pc, unsent, work, Held, resultCh, exited>> /\ ~Cancel
    BY <1>11 DEF CollectorExit, Cancel, Held
  <2> QED BY <1>1, <1>2, <2>1, <2>2 DEF RoundProgress, StationsAhead
<1>12. ASSUME Cancel PROVE RoundProgress
  <2>1. UNCHANGED <<pc, unsent, work, Held, resultCh, exited, collected, stored, results, workClosed, resultClosed>>
    BY <1>12 DEF Cancel, Held
  <2>2. cancelled' # cancelled
    BY <1>12 DEF Cancel
  <2>3. ~(Caller \/ Collector \/ \E w \in Worker : WorkerStep(w))
    BY <2>2 DEF Caller, Collector, WorkerStep, SendWork, CloseWork, CloseResults, ReturnResults, StoreResults,
       TakeWork, SendResult, WorkerExit, Collect, CollectorExit
  <2>4. StationsAhead' = StationsAhead
    BY <1>2, <2>1 DEF StationsAhead
  <2> QED BY <1>1, <2>3, <2>4 DEF RoundProgress
<1> QED BY <1>5, <1>6, <1>7, <1>8, <1>9, <1>10, <1>11, <1>12
        DEF Next, Caller, WorkerStep, Collector, Terminated

\* The pool never blocks, cancelled or not: until processFiles has returned and
\* its results are stored, a worker, the collector or the caller can go on.
THEOREM PoolNeverBlocks == Spec => []NeverBlocked
BY Invariant, InvariantNeverBlocked, PTL

\* The pool does not go on for ever: every step of a goroutine leaves fewer
\* stations ahead, and Ctrl-C adds none.
THEOREM RoundAdvances == Spec => [][RoundProgress]_vars
BY Invariant, InvariantProgress, PTL DEF Spec
=============================================================================
