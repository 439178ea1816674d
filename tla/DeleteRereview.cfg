\* A group is marked twice, with different files to keep.
CONSTANTS
  File = {a, b}
  Groups = {{a, b}}
  Choices = {a, b}
  Group <- Groups
  Keeper <- MCKeeper
  Stubborn = {}
  Unmarkable = {}
  Reviewer = {}
  Session = {e1}
  MaxMarks = 1
  MaxRows = 2
  Faults = {}
  NoRow = NoRow
SPECIFICATION Spec
CHECK_DEADLOCK FALSE
PROPERTY KeptFileIsNotMarked
