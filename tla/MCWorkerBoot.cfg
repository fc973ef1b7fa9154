\* One worker, as workers share nothing; two prompts, so that a replay can be of
\* the wrong one; three deliveries: a first, its replay, and another.
SPECIFICATION Spec
CONSTANTS
  Workers = {w1}
  Prompts = {p1, p2}
  NoPrompt = NoPrompt
  MaxAttempts = 3
INVARIANTS
  StatusAndErrorAgree
  PromptsAreOfThisBoot
  FileLagsOnlyAcceptance
PROPERTIES
  ClearedGateStaysClear
  DeliversPrompts
