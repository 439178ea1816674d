---------------------------- MODULE ProcessFiles ----------------------------
(***************************************************************************)
(* The worker pool of scanner/hasher.go: processFiles hands files to       *)
(* `concurrency` workers over channel work and collects their results over *)
(* channel resultCh in another goroutine; its caller (one round of         *)
(* PartialHash or FullHash) stores or drops the results.  Ctrl-C may make  *)
(* ctx done at any moment.                                                 *)
(*                                                                         *)
(* The order of files and results does not matter, so that a channel is    *)
(* the set of the values in its buffer, and slice results a set.           *)
(***************************************************************************)
EXTENDS Naturals, FiniteSets

CONSTANTS
  Job,     \* the files of the round
  Worker,  \* the worker goroutines
  NoJob    \* what a worker holds that waits for work

ASSUME JobAssumption == IsFiniteSet(Job) /\ NoJob \notin Job

ASSUME WorkerAssumption == IsFiniteSet(Worker) /\ Worker # {}

VARIABLES
  pc,            \* the calling goroutine: sending, waiting for the workers,
                 \* waiting for the collector, back in the caller, done
  cancelled,     \* ctx is done
  err,           \* processFiles returns ctx.Err()
  unsent,        \* files not yet sent
  work,          \* the buffer of channel work
  workClosed,
  holding,       \* holding[w]: the file a worker is hashing or sending
  exited,        \* the workers whose loop has ended
  resultCh,      \* the buffer of channel resultCh
  resultClosed,
  results,       \* slice results, appended to by the collector
  collected,     \* the collector has closed channel done
  stored,        \* the files whose results the caller has stored
  outcome        \* how the round ended: "stored", "cancelled" or "failed"

channels == <<work, workClosed, resultCh, resultClosed>>
vars == <<pc, cancelled, err, unsent, work, workClosed, holding, exited,
          resultCh, resultClosed, results, collected, stored, outcome>>

Concurrency == Cardinality(Worker)

Init ==
  /\ pc = "sending"
  /\ cancelled = FALSE
  /\ err = FALSE
  /\ unsent = Job
  /\ work = {}
  /\ workClosed = FALSE
  /\ holding = [w \in Worker |-> NoJob]
  /\ exited = {}
  /\ resultCh = {}
  /\ resultClosed = FALSE
  /\ results = {}
  /\ collected = FALSE
  /\ stored = {}
  /\ outcome = "none"

(***************************************************************************)
(* The calling goroutine.                                                  *)
(***************************************************************************)

\* select: work has room for a file.  If ctx is done as well, either case may
\* be taken.
SendWork(f) ==
  /\ pc = "sending"
  /\ f \in unsent
  /\ Cardinality(work) < Concurrency
  /\ unsent' = unsent \ {f}
  /\ work' = work \cup {f}
  /\ UNCHANGED <<pc, cancelled, err, workClosed, holding, exited, resultCh,
                 resultClosed, results, collected, stored, outcome>>

\* Mutant: work is not closed when ctx is done.
CloseWorkUnlessCancelled ==
  /\ pc = "sending"
  /\ \/ unsent = {} /\ err' = FALSE /\ workClosed' = TRUE
     \/ unsent # {} /\ cancelled /\ err' = TRUE /\ UNCHANGED workClosed
  /\ pc' = "waiting"
  /\ UNCHANGED <<cancelled, unsent, work, holding, exited, resultCh,
                 resultClosed, results, collected, stored, outcome>>

\* close(work): all files are sent, or select took the case of ctx.Done.
CloseWork ==
  /\ pc = "sending"
  /\ \/ unsent = {} /\ err' = FALSE
     \/ unsent # {} /\ cancelled /\ err' = TRUE
  /\ workClosed' = TRUE
  /\ pc' = "waiting"
  /\ UNCHANGED <<cancelled, unsent, work, holding, exited, resultCh,
                 resultClosed, results, collected, stored, outcome>>

\* Mutant: wg.Wait is forgotten.
CloseResultsAtOnce ==
  /\ pc = "waiting"
  /\ resultClosed' = TRUE
  /\ pc' = "collecting"
  /\ UNCHANGED <<cancelled, err, unsent, work, workClosed, holding, exited,
                 resultCh, results, collected, stored, outcome>>

\* wg.Wait returns when all workers are done; then close(resultCh).
CloseResults ==
  /\ pc = "waiting"
  /\ exited = Worker
  /\ resultClosed' = TRUE
  /\ pc' = "collecting"
  /\ UNCHANGED <<cancelled, err, unsent, work, workClosed, holding, exited,
                 resultCh, results, collected, stored, outcome>>

\* Mutant: <-done is forgotten.
ReturnAtOnce ==
  /\ pc = "collecting"
  /\ pc' = "returned"
  /\ UNCHANGED <<cancelled, err, unsent, channels, holding, exited, results,
                 collected, stored, outcome>>

\* <-done, and processFiles returns.
ReturnResults ==
  /\ pc = "collecting"
  /\ collected
  /\ pc' = "returned"
  /\ UNCHANGED <<cancelled, err, unsent, channels, holding, exited, results,
                 collected, stored, outcome>>

\* Mutant: the results are stored in spite of the error.
StoreAlways ==
  /\ pc = "returned"
  /\ stored' = results
  /\ outcome' = "stored"
  /\ pc' = "done"
  /\ UNCHANGED <<cancelled, err, unsent, channels, holding, exited, results, collected>>

\* PartialHash and FullHash return the error without storing, or store the
\* results in one transaction, which is rolled back if a statement fails.
StoreResults ==
  /\ pc = "returned"
  /\ \/ err /\ outcome' = "cancelled" /\ UNCHANGED stored
     \/ ~err /\ outcome' = "stored" /\ stored' = results
     \/ ~err /\ outcome' = "failed" /\ UNCHANGED stored
  /\ pc' = "done"
  /\ UNCHANGED <<cancelled, err, unsent, channels, holding, exited, results, collected>>

(***************************************************************************)
(* The workers and the collector.                                          *)
(***************************************************************************)

TakeWork(w) ==
  /\ w \notin exited
  /\ holding[w] = NoJob
  /\ \E f \in work :
       /\ work' = work \ {f}
       /\ holding' = [holding EXCEPT ![w] = f]
  /\ UNCHANGED <<pc, cancelled, err, unsent, workClosed, exited, resultCh,
                 resultClosed, results, collected, stored, outcome>>

\* Mutant: f := <-work instead of a range loop, which yields the zero value.
SendZeroValue(w) ==
  /\ holding[w] # NoJob \/ (workClosed /\ work = {} /\ w \notin exited)
  /\ Cardinality(resultCh) < Concurrency
  /\ resultCh' = resultCh \cup {holding[w]}
  /\ holding' = [holding EXCEPT ![w] = NoJob]
  /\ UNCHANGED <<pc, cancelled, err, unsent, work, workClosed, exited,
                 resultClosed, results, collected, stored, outcome>>

SendResult(w) ==
  /\ holding[w] # NoJob
  /\ Cardinality(resultCh) < Concurrency
  /\ resultCh' = resultCh \cup {holding[w]}
  /\ holding' = [holding EXCEPT ![w] = NoJob]
  /\ UNCHANGED <<pc, cancelled, err, unsent, work, workClosed, exited,
                 resultClosed, results, collected, stored, outcome>>

\* The range loop ends when work is closed and drained; then wg.Done.
WorkerExit(w) ==
  /\ w \notin exited
  /\ holding[w] = NoJob
  /\ workClosed /\ work = {}
  /\ exited' = exited \cup {w}
  /\ UNCHANGED <<pc, cancelled, err, unsent, channels, holding, results, collected, stored, outcome>>

\* Mutant: results that arrive after Ctrl-C are dropped.
CollectUnlessCancelled(f) ==
  /\ f \in resultCh
  /\ resultCh' = resultCh \ {f}
  /\ results' = IF cancelled THEN results ELSE results \cup {f}
  /\ UNCHANGED <<pc, cancelled, err, unsent, work, workClosed, holding, exited,
                 resultClosed, collected, stored, outcome>>

Collect(f) ==
  /\ f \in resultCh
  /\ resultCh' = resultCh \ {f}
  /\ results' = results \cup {f}
  /\ UNCHANGED <<pc, cancelled, err, unsent, work, workClosed, holding, exited,
                 resultClosed, collected, stored, outcome>>

CollectorExit ==
  /\ ~collected
  /\ resultClosed /\ resultCh = {}
  /\ collected' = TRUE
  /\ UNCHANGED <<pc, cancelled, err, unsent, channels, holding, exited, results, stored, outcome>>

Cancel ==
  /\ pc # "done"
  /\ ~cancelled
  /\ cancelled' = TRUE
  /\ UNCHANGED <<pc, err, unsent, channels, holding, exited, results, collected, stored, outcome>>

Caller == (\E f \in Job : SendWork(f)) \/ CloseWork \/ CloseResults \/ ReturnResults \/ StoreResults
WorkerStep(w) == TakeWork(w) \/ SendResult(w) \/ WorkerExit(w)
Collector == (\E f \in Job : Collect(f)) \/ CollectorExit

\* All goroutines are done; the round does not go on.
Terminated == pc = "done" /\ UNCHANGED vars

Next == Caller \/ (\E w \in Worker : WorkerStep(w)) \/ Collector \/ Cancel \/ Terminated

\* The Go scheduler runs every goroutine that can go on.
Spec ==
  /\ Init
  /\ [][Next]_vars
  /\ WF_vars(Caller)
  /\ WF_vars(Collector)
  /\ \A w \in Worker : WF_vars(WorkerStep(w))

(***************************************************************************)
(* Properties.                                                             *)
(***************************************************************************)

\* Every variable has its type.
TypeOK ==
  /\ pc \in {"sending", "waiting", "collecting", "returned", "done"}
  /\ cancelled \in BOOLEAN /\ err \in BOOLEAN /\ collected \in BOOLEAN
  /\ workClosed \in BOOLEAN /\ resultClosed \in BOOLEAN
  /\ unsent \subseteq Job /\ work \subseteq Job /\ resultCh \subseteq Job
  /\ results \subseteq Job /\ stored \subseteq Job
  /\ holding \in [Worker -> Job \cup {NoJob}]
  /\ exited \subseteq Worker
  /\ outcome \in {"none", "stored", "cancelled", "failed"}

Held == {holding[w] : w \in Worker} \ {NoJob}

\* No file is lost or hashed twice on its way from the slice files through both
\* channels and the workers to slice results.
EachFileOnce ==
  /\ unsent \cup work \cup Held \cup resultCh \cup results = Job
  /\ unsent \cap (work \cup Held \cup resultCh \cup results) = {}
  /\ work \cap (Held \cup resultCh \cup results) = {}
  /\ Held \cap (resultCh \cup results) = {}
  /\ resultCh \cap results = {}
  /\ \A v, w \in Worker : holding[v] = holding[w] /\ holding[v] # NoJob => v = w

\* Neither channel is sent to after it was closed, which would panic: a worker
\* that holds a file keeps wg.Wait, and so close(resultCh), waiting.
NoSendOnClosed ==
  /\ pc = "sending" => ~workClosed
  /\ resultClosed => Held = {}

\* When processFiles returns, its slice holds exactly the results of the files
\* that were sent, all of them unless it returns an error, nobody writes to it
\* any more, and no goroutine is left.
ReturnsAllResults ==
  pc \in {"returned", "done"} =>
    /\ results = Job \ unsent
    /\ ~err => results = Job
    /\ exited = Worker /\ collected

\* The pool never blocks for good, cancelled or not.
RoundEnds == <>(pc = "done")

\* A round is stored completely or not at all, and not at all only if it was
\* cancelled or its transaction failed: no part of what the workers have done by
\* the time of a Ctrl-C gets into the database.
Round == INSTANCE HashRound
RoundRefinement == Round!Spec
=============================================================================
