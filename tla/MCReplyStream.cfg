SPECIFICATION Spec
CONSTANTS
  MaxCalls = 3
  MaxPieces = 2
  ReasonsFirst = TRUE
INVARIANTS
  DesktopGetsEveryCall
  CliCallsAreWhole
  ShownIsSaid
PROPERTIES
  KeepsProtocol
