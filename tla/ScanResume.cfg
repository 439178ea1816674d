\* Hashing rounds of one file and one interruption.
CONSTANTS
  File = {f1, f2}
  Flaky = {}
  Mixed = {"s", "x"}
  Content <- MCContent
  Inode <- MCInode
  Size <- MCSize
  Head <- MCHead
  Disks <- MCDisks
  PartialSize = 1
  WalkBatch = 2
  HashBatch = 1
  MaxRuns = 2
  Faults = {"cancel"}
  None = None
SPECIFICATION Spec
INVARIANT ResumeIsComplete
