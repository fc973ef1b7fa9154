\* Two turns: in different chats, or, after a reload, overlapping in one.
SPECIFICATION FairSpec
CONSTANTS
  Chats = {c1, c2}
  Folders = {f1}
  NoFolder = NoFolder
  MaxTurns = 2
  MaxSteps = 2
  MaxCalls = 1
  MaxStages = 2
ACTION_CONSTRAINT Apart
INVARIANTS
  RunningTurnsAreStoppable
  NoDeadEntries
PROPERTIES
  ConversationsAreIndependent
  KeepsContract
  TurnsEnd
