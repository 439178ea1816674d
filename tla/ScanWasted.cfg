\* One uninterrupted run; three files, of which some may be hard links.
CONSTANTS
  File = {f1, f2, f3}
  Flaky = {}
  Mixed = {"s", "x"}
  Content <- MCContent
  Inode <- MCInode
  Size <- MCSize
  Head <- MCHead
  Disks <- MCDisks
  PartialSize = 1
  WalkBatch = 2
  HashBatch = 3
  MaxRuns = 1
  Faults = {}
  None = None
SPECIFICATION Spec
INVARIANT WastedIsReclaimable
