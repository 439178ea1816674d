----------------------------- MODULE DiskFiles -----------------------------
(***************************************************************************)
(* The files a scan looks at, and what finddups calls duplicates.  Shared  *)
(* by the abstract scan (DupScan) and the real one (ScanPipeline).         *)
(***************************************************************************)
EXTENDS Naturals, FiniteSets

CONSTANTS
  File,     \* the regular files under the scanned root
  Content,  \* the file contents that occur
  Inode,    \* the (device, inode) pairs that occur
  Size,     \* Size[c]: the length of content c
  Disks,    \* the states of the disk a scan may be started on
  Flaky     \* files whose stat, open or read may fail

ASSUME FileAssumption == IsFiniteSet(File) /\ Flaky \subseteq File

ASSUME SizeAssumption == Size \in [Content -> Nat]

\* Two paths with one inode are one file, so they have one content.
ASSUME DisksAssumption ==
  /\ Disks \subseteq [content : [File -> Content], inode : [File -> Inode]]
  /\ \A d \in Disks, f, g \in File :
       d.inode[f] = d.inode[g] => d.content[f] = d.content[g]

\* The files of S whose content is that of f.
SameContent(d, S, f) == {g \in S : d.content[g] = d.content[f]}

\* At least two non-empty files of one content, not all hard links to one inode.
Duplicates(d, S) ==
  {f \in S : /\ Size[d.content[f]] > 0
             /\ \E g, h \in SameContent(d, S, f) : d.inode[g] # d.inode[h]}

DuplicateClasses(d, S) == {SameContent(d, S, f) : f \in Duplicates(d, S)}
=============================================================================
