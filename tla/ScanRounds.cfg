\* Two runs, the first interrupted anywhere, also between hashing rounds of one
\* file, and status commands at all times.
CONSTANTS
  File = {f1, f2, f3}
  Flaky = {f1, f2, f3}
  Mixed = {"e", "s", "x", "y"}
  Content <- MCContent
  Inode <- MCInode
  Size <- MCSize
  Head <- MCHead
  Disks <- MCDisks
  PartialSize = 1
  WalkBatch = 2
  HashBatch = 1
  MaxRuns = 2
  Faults = {"cancel", "crash", "store"}
  None = None
SPECIFICATION WatchedSpec
SYMMETRY MCSymmetry
INVARIANTS Complete GroupsSound GroupTableConsistent OnlyCandidatesAreRead
INVARIANTS CompleteIsResolved CountsAddUp
PROPERTIES StatusNeverGoesBack ResultsStay
