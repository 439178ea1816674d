\* The same file fails to be removed twice.
CONSTANTS
  File = {a, b}
  Groups = {{a, b}}
  Choices = {a}
  Group <- Groups
  Keeper <- MCKeeper
  Stubborn = {b}
  Unmarkable = {}
  Reviewer = {}
  Session = {e1}
  MaxMarks = 2
  MaxRows = 2
  Faults = {}
  NoRow = NoRow
SPECIFICATION Spec
CHECK_DEADLOCK FALSE
PROPERTY ExecutedIsNotPending
