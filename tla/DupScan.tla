------------------------------ MODULE DupScan ------------------------------
(***************************************************************************)
(* What a finddups scan promises, with nothing of how it is done: the      *)
(* files under the root are looked at, and what is published is the        *)
(* partition of the readable ones into sets of duplicates.  The phases,    *)
(* the batches, the restarts and the database of scanner/ and db/ are in   *)
(* ScanPipeline, which implements this module.                             *)
(***************************************************************************)
EXTENDS DiskFiles

VARIABLES
  disk,    \* the files: disk.content[f], disk.inode[f]
  report   \* the published sets of duplicates

vars == <<disk, report>>

Init == disk \in Disks /\ report = {}

\* A scan ends: all duplicates among the files it could read are published
\* at once, and a later scan of the same disk publishes nothing else.
Publish ==
  /\ report = {}
  /\ \E unread \in SUBSET Flaky : report' = DuplicateClasses(disk, File \ unread)
  /\ UNCHANGED disk

Spec == Init /\ [][Publish]_vars
=============================================================================
