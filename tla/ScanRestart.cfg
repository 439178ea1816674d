\* Two runs, the first interrupted anywhere; one round holds all files.
CONSTANTS
  File = {f1, f2, f3}
  Flaky = {f1, f2}
  Mixed = {"e", "s", "x", "y", "z"}
  Content <- MCContent
  Inode <- MCInode
  Size <- MCSize
  Head <- MCHead
  Disks <- MCDisks
  PartialSize = 1
  WalkBatch = 2
  HashBatch = 3
  MaxRuns = 2
  Faults = {"cancel", "crash", "store"}
  None = None
SPECIFICATION Spec
INVARIANTS TypeOK Complete NoWorkTwice WalkDoneMeansAllRecorded
PROPERTIES PublishedGroupsAreStable LastRunCompletes ScanRefinement WalkImplemented
