SPECIFICATION GateSpec
CONSTANTS
  MaxHooks = 2
  MaxPayload = 2
INVARIANTS RunsAsAuthorised ToolAwaitsHooks ErrorsAreTold
PROPERTIES AbortEndsCall
\* A hook that floods its output while its payload is being written blocks both.
CHECK_DEADLOCK FALSE
