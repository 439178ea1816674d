----------------------------- MODULE HashRound -----------------------------
(***************************************************************************)
(* One round of PartialHash or FullHash as the rest of the scan sees it:   *)
(* the results of all files of the round are stored at once, or none of    *)
(* them, because the scan was cancelled meanwhile or because their         *)
(* transaction failed.  ProcessFiles implements it, and ScanPipeline takes *)
(* a round for one of these three steps.                                   *)
(***************************************************************************)
CONSTANT Job   \* the files of the round

VARIABLES
  cancelled,  \* ctx is done
  stored,     \* the files whose results are in the database
  outcome     \* "none" as long as the round goes on

vars == <<cancelled, stored, outcome>>

Init == cancelled = FALSE /\ stored = {} /\ outcome = "none"

Cancel == outcome = "none" /\ cancelled' = TRUE /\ UNCHANGED <<stored, outcome>>

Store ==
  /\ outcome = "none"
  /\ stored' = Job
  /\ outcome' = "stored"
  /\ UNCHANGED cancelled

\* processFiles returns an error: its results are dropped.
Abandon ==
  /\ outcome = "none"
  /\ cancelled
  /\ outcome' = "cancelled"
  /\ UNCHANGED <<cancelled, stored>>

\* The batch update fails: its transaction is rolled back.
Fail ==
  /\ outcome = "none"
  /\ outcome' = "failed"
  /\ UNCHANGED <<cancelled, stored>>

Next == Cancel \/ Store \/ Abandon \/ Fail

Spec == Init /\ [][Next]_vars /\ WF_vars(Store \/ Abandon \/ Fail)
=============================================================================
