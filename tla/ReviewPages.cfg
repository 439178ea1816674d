\* One page, two scans, and a third file that is found by one of them.
CONSTANTS
  a = a
  b = b
  c = c
  File = {a, b, c}
  Results <- MCResults
  Page = {p}
  MaxScans = 2
  MaxLoads = 1
  MaxPosts = 2
  NoForm = NoForm
SPECIFICATION Spec
INVARIANTS TypeOK OneSubmission
PROPERTIES MarksAreAsShown SubmissionEnds
