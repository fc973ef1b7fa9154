\* Two chats whose turns have different project folders.
SPECIFICATION Spec
CONSTANTS
  Chats = {c1, c2}
  Folders = {f1, f2}
  NoFolder = NoFolder
  MaxTurns = 2
  MaxSteps = 1
  MaxCalls = 1
  MaxStages = 0
PROPERTIES
  ToolsSeeTheirProject
