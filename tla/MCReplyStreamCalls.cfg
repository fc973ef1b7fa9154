SPECIFICATION Spec
CONSTANTS
  MaxCalls = 2
  MaxPieces = 2
  ReasonsFirst = TRUE
INVARIANTS
  CliGetsEveryCall
