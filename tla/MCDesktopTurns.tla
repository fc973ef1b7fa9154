--------------------------- MODULE MCDesktopTurns ---------------------------
(* DesktopTurns on the chats, folders and bounds its configurations name.  *)
EXTENDS DesktopTurns

\* Bounds: the folder is chosen before the first turn, and a turn in several stages has the
\* application to itself; two turns overlap in the loop of steps.
Apart ==
  /\ projectRoot' # projectRoot => submitted = 0
  /\ (\E t \in Turns : turn'[t].stages > 0) => submitted' < 2
=============================================================================
