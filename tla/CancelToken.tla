----------------------------- MODULE CancelToken -----------------------------
(***************************************************************************)
(* The CancelToken of desktop/src/agent.rs: an AtomicBool and a tokio      *)
(* Notify.  Tasks on one side call cancelled() inside a select!, threads   *)
(* on the other call cancel(); every step below is one access to the flag  *)
(* or to the Notify.                                                       *)
(*                                                                         *)
(* tokio: notify_waiters() reaches every Notified future that exists when  *)
(* it is called, polled or not, and stores nothing for later ones.         *)
(*                                                                         *)
(* Names say Token where module DesktopTurns has the plain ones: their     *)
(* proofs are in one module.                                               *)
(***************************************************************************)
EXTENDS FiniteSets

CONSTANTS
  Waiters,      \* tasks that wait with cancelled()
  Cancellers    \* calls of cancel(): cancel_turn, or begin_turn of a newer turn

VARIABLES
  cancelled,    \* the AtomicBool
  waiter,       \* where each task is in cancelled()
  woken,        \* tasks whose Notified future has been notified
  canceller     \* where each call of cancel() is

tokenVars == <<cancelled, waiter, woken, canceller>>

TokenTypeOK ==
  /\ cancelled \in BOOLEAN
  /\ waiter \in [Waiters -> {"working", "register", "check", "poll", "await", "returned"}]
  /\ woken \subseteq {w \in Waiters : waiter[w] # "working"}
  /\ canceller \in [Cancellers -> {"store", "notify", "done"}]

TokenInit ==
  /\ cancelled = FALSE
  /\ waiter = [w \in Waiters |-> "working"]
  /\ woken = {}
  /\ canceller = [c \in Cancellers |-> "store"]

-----------------------------------------------------------------------------
(* cancelled(), in a task *)

\* The select! polls cancelled() for the first time.
Call(w) ==
  /\ waiter[w] = "working"
  /\ waiter' = [waiter EXCEPT ![w] = "register"]
  /\ UNCHANGED <<cancelled, woken, canceller>>

\* let notified = self.notify.notified();
Register(w) ==
  /\ waiter[w] = "register"
  /\ waiter' = [waiter EXCEPT ![w] = "check"]
  /\ woken' = woken \ {w}
  /\ UNCHANGED <<cancelled, canceller>>

ReadFlag(w) ==
  /\ waiter[w] = "check"
  /\ waiter' = [waiter EXCEPT ![w] = IF cancelled THEN "returned" ELSE "poll"]
  /\ UNCHANGED <<cancelled, woken, canceller>>

\* notified.await is polled, and has to wait.
Poll(w) ==
  /\ waiter[w] = "poll" /\ w \notin woken
  /\ waiter' = [waiter EXCEPT ![w] = "await"]
  /\ UNCHANGED <<cancelled, woken, canceller>>

\* notified.await completes; round the loop.
Wake(w) ==
  /\ waiter[w] \in {"poll", "await"} /\ w \in woken
  /\ waiter' = [waiter EXCEPT ![w] = "register"]
  /\ UNCHANGED <<cancelled, woken, canceller>>

\* The other branch of the select! completes and the future is dropped.
Drop(w) ==
  /\ waiter[w] \in {"register", "check", "poll", "await"}
  /\ waiter' = [waiter EXCEPT ![w] = "working"]
  /\ woken' = woken \ {w}
  /\ UNCHANGED <<cancelled, canceller>>

-----------------------------------------------------------------------------
(* cancel(), in a thread *)

Store(c) ==
  /\ canceller[c] = "store"
  /\ cancelled' = TRUE
  /\ canceller' = [canceller EXCEPT ![c] = "notify"]
  /\ UNCHANGED <<waiter, woken>>

\* Only a future that has been polled is reached, as with notify_one.
Registered_FaultyLate == {w \in Waiters : waiter[w] = "await"}

\* The tasks a notification reaches: those whose future exists.
Registered == {w \in Waiters : waiter[w] \in {"check", "poll", "await"}}

\* Only one of the waiting tasks is woken (notify_one).
Notify_FaultyOne(c) ==
  /\ canceller[c] = "notify"
  /\ IF Registered = {} THEN UNCHANGED woken
     ELSE \E w \in Registered : woken' = woken \cup {w}
  /\ canceller' = [canceller EXCEPT ![c] = "done"]
  /\ UNCHANGED <<cancelled, waiter>>

Notify(c) ==
  /\ canceller[c] = "notify"
  /\ woken' = woken \cup Registered
  /\ canceller' = [canceller EXCEPT ![c] = "done"]
  /\ UNCHANGED <<cancelled, waiter>>

-----------------------------------------------------------------------------
TokenNext ==
  \/ \E w \in Waiters : Call(w) \/ Register(w) \/ ReadFlag(w) \/ Poll(w) \/ Wake(w) \/ Drop(w)
  \/ \E c \in Cancellers : Store(c) \/ Notify(c)

TokenSpec == TokenInit /\ [][TokenNext]_tokenVars

\* A task that is inside cancelled() is polled when it can move, and a thread
\* inside cancel() does not stop between its two statements.
Fairness ==
  /\ \A w \in Waiters : WF_tokenVars(Register(w) \/ ReadFlag(w) \/ Poll(w) \/ Wake(w))
  /\ \A c \in Cancellers : WF_tokenVars(Notify(c))

FairTokenSpec == TokenSpec /\ Fairness

-----------------------------------------------------------------------------
(* Properties *)

(* The race the doc comment of CancelToken names: a task that has found the   *)
(* flag clear never goes to sleep on a cancelled token with no notification   *)
(* delivered or still to come, however the making of its future, its check    *)
(* and the two statements of cancel() interleave.                             *)
NoLostWakeup ==
  \A w \in Waiters :
    (cancelled /\ waiter[w] \in {"poll", "await"} /\ w \notin woken)
      => \E c \in Cancellers : canceller[c] = "notify"

TokenPhase(place) ==
  CASE place = "working"  -> "working"
    [] place = "returned" -> "returned"
    [] OTHER              -> "waiting"

Abstract == INSTANCE Cancellation
              WITH phase <- [w \in Waiters |-> TokenPhase(waiter[w])]

(* The token keeps the promise of Cancellation: cancelled() returns only on a *)
(* cancelled token, and every task that waits on a cancelled one returns.     *)
Implements == Abstract!LiveSpec
=============================================================================
