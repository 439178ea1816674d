------------------------------ MODULE FileWalk ------------------------------
(***************************************************************************)
(* What the walk of a scan promises to the phases after it, whatever the   *)
(* runs it takes: only files that are wanted get a row, and the walk is    *)
(* marked as complete only when all those are there that could be read for *)
(* sure.  TreeWalk, which knows of directories, and the walk of            *)
(* ScanPipeline, which knows of the phases, both implement it.             *)
(***************************************************************************)

VARIABLES
  wanted,    \* the files that belong into the table
  sure,      \* those among them that can always be reached and read
  recorded,  \* the files that have a row
  done       \* the walk is marked as complete

vars == <<wanted, sure, recorded, done>>

Init == sure \subseteq wanted /\ recorded = {} /\ done = FALSE

Record ==
  /\ ~done
  /\ recorded \subseteq recorded' /\ recorded' \subseteq recorded \cup wanted
  /\ UNCHANGED <<wanted, sure, done>>

Finish ==
  /\ ~done
  /\ sure \subseteq recorded
  /\ done' = TRUE
  /\ UNCHANGED <<wanted, sure, recorded>>

Spec == Init /\ [][Record \/ Finish]_vars
=============================================================================
