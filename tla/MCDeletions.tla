---------------------------- MODULE MCDeletions ----------------------------
(***************************************************************************)
(* Deletions for one small group of files.                                 *)
(***************************************************************************)
EXTENDS Deletions

CONSTANTS
  Groups,   \* the duplicate groups, as a set of sets of files
  Choices   \* the files that users may choose to keep

MCKeeper == [g \in Groups |-> g \cap Choices]
=============================================================================
