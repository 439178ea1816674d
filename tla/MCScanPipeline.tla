--------------------------- MODULE MCScanPipeline ---------------------------
(***************************************************************************)
(* ScanPipeline on small disks.  The contents: "e" is empty, "s" and "t"   *)
(* are small and of one size, "x", "y" and "z" are large and of one size,  *)
(* and the partial hash does not tell "x" from "y".                        *)
(***************************************************************************)
EXTENDS ScanPipeline, TLC

CONSTANT Mixed   \* the contents that occur on the disks of this run

MCContent == {"e", "s", "t", "x", "y", "z"}
MCSize == [c \in MCContent |-> CASE c = "e" -> 0 [] c \in {"s", "t"} -> 1 [] OTHER -> 2]
MCHead == [c \in MCContent |-> IF c = "y" THEN "x" ELSE c]

\* An inode is named by the set of its paths, so that there is one disk for
\* each way of linking and the set of disks is symmetric in File.
MCInode == SUBSET File

Linkings == {[f \in File |-> {g \in File : p[g] = p[f]}] : p \in [File -> File]}

MCDisks ==
  {d \in [content : [File -> Mixed], inode : Linkings] :
     \A f, g \in File : d.inode[f] = d.inode[g] => d.content[f] = d.content[g]}

MCSymmetry == Permutations(File)
=============================================================================
