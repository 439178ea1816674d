\* A web request, a `finddups delete` and a review of one group, on a server that
\* is stopped, killed and started again; statements fail and users withdraw marks.
CONSTANTS
  File = {a, b, c}
  Groups = {{a, b, c}}
  Choices = {a}
  Group <- Groups
  Keeper <- MCKeeper
  Stubborn = {b}
  Unmarkable = {c}
  Reviewer = {r}
  Session = {e1, e2}
  Command = {e2}
  MaxMarks = 2
  MaxRows = 3
  Faults = {"kill", "store"}
  NoRow = NoRow
SPECIFICATION WebSpec
CHECK_DEADLOCK FALSE
INVARIANTS TypeOK KeptFilesSurvive DeletedFilesAreGone RemovedIsRecorded
PROPERTIES MarksLiveOnce CommandsEnd ShutdownEnds
