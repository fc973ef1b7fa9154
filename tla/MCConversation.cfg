\* Up to four turns or recoveries, one kill, compaction from the second answer on.
SPECIFICATION FairSpec
CONSTANTS
  Preserve = 2
  Threshold = 2
  Schedule <- MCSchedule
  CollapseThreshold = 2
  ClusterMin = 2
  MaxFolds = 1
  MaxIterations = 3
  MaxTools = 2
  Inputs = {1}
  RotateAfter = 7
  KeepRotated = 1
  MaxId = 7
  MaxResumes = 1
INVARIANTS
  NoOrphanResults
  RequestsAreAnswered
  DiskCoversMemory
  EffectsAreRecorded
PROPERTIES
  NothingSilentlyDropped
  GrowthIsBounded
  TurnEnds
\* A session file with a spoilt line cannot be resumed, and the bounds stop the rest.
CHECK_DEADLOCK FALSE
