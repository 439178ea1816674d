\* Two workers; both channels can be full while both workers hold a file.
CONSTANTS
  Job = {j1, j2, j3, j4, j5}
  Worker = {w1, w2}
  NoJob = NoJob
SPECIFICATION Spec
INVARIANTS TypeOK EachFileOnce NoSendOnClosed ReturnsAllResults
PROPERTIES RoundEnds RoundRefinement
