---------------------------- MODULE MCScanStatus ----------------------------
(***************************************************************************)
(* ScanStatus on the small disks of MCScanPipeline.                        *)
(***************************************************************************)
EXTENDS ScanStatus, MCScanPipeline
=============================================================================
