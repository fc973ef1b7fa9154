\* Two waiting tasks, three cancels: enough for a cancel to finish, and another
\* to be half done, while each task is anywhere in its loop.
SPECIFICATION FairTokenSpec
CONSTANTS
  Waiters = {w1, w2}
  Cancellers = {c1, c2, c3}
INVARIANTS
  NoLostWakeup
PROPERTIES
  Implements
\* Once every cancel is done and every task has returned there is nothing left.
CHECK_DEADLOCK FALSE
