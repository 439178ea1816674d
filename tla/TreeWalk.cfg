\* All small trees; two walks, each of which may be cut short anywhere.
CONSTANTS
  Entry <- MCEntry
  Root = "root"
  Trees <- MCTrees
  BatchSize = 2
  MaxRuns = 2
  Faults = {"cancel", "crash", "store"}
SPECIFICATION Spec
CHECK_DEADLOCK FALSE
PROPERTIES WalkRefinement ProgressSaved WalkEnds
