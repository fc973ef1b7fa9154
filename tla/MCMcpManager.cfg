SPECIFICATION Spec
CONSTANTS
  Servers = {"s1", "s2"}
  Order <- MCOrder
  Tools = {"read", "write", "read_"}
  ToolsOf <- MCToolsOf
  Qualified <- MCQualified
  Processes = {1, 2}
  None = 0
  MaxPages = 1
  MaxOut = 1
INVARIANTS OneProcess HandshakeFirst OfferedToolsReachTheirServer
PROPERTIES CallsRunAtMostOnce EveryOpEnds
\* The client may abort while it builds its runtime.
CHECK_DEADLOCK FALSE
