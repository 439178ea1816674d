\* Ctrl-C and nothing else.
CONSTANTS
  File = {f1, f2}
  Flaky = {}
  Mixed = {"s"}
  Content <- MCContent
  Inode <- MCInode
  Size <- MCSize
  Head <- MCHead
  Disks <- MCDisks
  PartialSize = 1
  WalkBatch = 2
  HashBatch = 3
  MaxRuns = 2
  Faults = {"cancel"}
  None = None
SPECIFICATION Spec
PROPERTY InterruptIsClean
