\* Three processes on any small database; one of them may be stopped anywhere.
CONSTANTS
  Process = {p1, p2, p3}
  File <- MCFile
  Status <- MCStatus
  MaxId = 4
  MaxMishaps = 1
  Databases <- MCDatabases
  NoTable = NoTable
  NoOne = NoOne
SPECIFICATION Spec
CHECK_DEADLOCK FALSE
INVARIANTS TypeOK OpenedIsUnique
PROPERTIES MarksSurvive LaterOpenSucceeds
