\* One file, four texts and two times it may have any number of times, two ingestions at
\* any moment.
SPECIFICATION FairSpec
CONSTANTS
  Files = {1}
  Pieces <- MCPieces
  Unreadable = {4}
  Written <- MCWritten
  Ingests = {i1, i2}
  BatchSize = 1
INVARIANTS
  RowsTellTheTruth
  OneVersionIsFound
PROPERTIES
  CatchesUp
