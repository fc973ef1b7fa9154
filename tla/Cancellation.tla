---------------------------- MODULE Cancellation ----------------------------
(***************************************************************************)
(* What a cancel token promises the tasks that wait on it: waiting ends    *)
(* once the token is cancelled, and ends no earlier.                       *)
(***************************************************************************)
CONSTANT Waiters   \* the tasks that hold the token

VARIABLES
  cancelled,       \* has the token been cancelled?
  phase            \* of each task: working, waiting on the token, or returned

vars == <<cancelled, phase>>

TypeOK ==
  /\ cancelled \in BOOLEAN
  /\ phase \in [Waiters -> {"working", "waiting", "returned"}]

Init ==
  /\ cancelled = FALSE
  /\ phase = [w \in Waiters |-> "working"]

Cancel ==
  /\ cancelled' = TRUE
  /\ UNCHANGED phase

Move(w, from, to) ==
  /\ phase[w] = from
  /\ phase' = [phase EXCEPT ![w] = to]
  /\ UNCHANGED cancelled

Wait(w)   == Move(w, "working", "waiting")
\* What it was waiting for besides the token came first.
Leave(w)  == Move(w, "waiting", "working")
Return(w) == cancelled /\ Move(w, "waiting", "returned")

Next == Cancel \/ \E w \in Waiters : Wait(w) \/ Leave(w) \/ Return(w)

Spec == Init /\ [][Next]_vars

\* Nobody waits for ever on a cancelled token.
LiveSpec == Spec /\ \A w \in Waiters : WF_vars(Return(w))
=============================================================================
