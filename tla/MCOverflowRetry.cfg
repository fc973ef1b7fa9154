\* Up to five messages, three rounds that preserve 2, 1 and 0 messages.
SPECIFICATION Spec
CONSTANTS
  Paths = {"a"}
  Schedule <- ShortSchedule
  CollapseThreshold = 3
  ClusterMin = 3
  Topics = 2
  OutputSizes = {1}
  NoteSize = 1
  MaxOps = 1
  MaxId = 5
INVARIANTS
  OneSummaryFirst
  LastResortIsMinimal
PROPERTIES
  WordsLeaveForCause
\* The CLI leaves on an error, and the identities run out.
CHECK_DEADLOCK FALSE
