---------------------------- MODULE TurnContract ----------------------------
(***************************************************************************)
(* What the desktop application promises for each turn it is given: it is  *)
(* reported over exactly once, as stopped only if a stop was asked for,    *)
(* its caller is answered after the report, and a stop is honoured however *)
(* long the model and the tools take.                                      *)
(***************************************************************************)
CONSTANT Turns

VARIABLES
  phase,      \* of each turn: new, running, finished, answered
  outcome,    \* how it was reported over, or "none"
  asked       \* was it asked to stop?

vars == <<phase, outcome, asked>>

Outcomes == {"done", "cancelled", "failed", "refused"}

TypeOK ==
  /\ phase \in [Turns -> {"new", "running", "finished", "answered"}]
  /\ outcome \in [Turns -> Outcomes \cup {"none"}]
  /\ asked \in [Turns -> BOOLEAN]

Init ==
  /\ phase = [t \in Turns |-> "new"]
  /\ outcome = [t \in Turns |-> "none"]
  /\ asked = [t \in Turns |-> FALSE]

Start(t) ==
  /\ phase[t] = "new"
  /\ phase' = [phase EXCEPT ![t] = "running"]
  /\ UNCHANGED <<outcome, asked>>

\* Turns of different conversations are never asked in one step.
AskToStop(t) ==
  /\ phase[t] # "new"
  /\ asked' = [asked EXCEPT ![t] = TRUE]
  /\ UNCHANGED <<phase, outcome>>

Finish(t) ==
  /\ phase[t] = "running"
  /\ phase' = [phase EXCEPT ![t] = "finished"]
  /\ \E o \in Outcomes :
       /\ o = "cancelled" => asked[t]
       /\ outcome' = [outcome EXCEPT ![t] = o]
  /\ UNCHANGED asked

Answer(t) ==
  /\ phase[t] = "finished"
  /\ phase' = [phase EXCEPT ![t] = "answered"]
  /\ UNCHANGED <<outcome, asked>>

Next == \E t \in Turns : Start(t) \/ AskToStop(t) \/ Finish(t) \/ Answer(t)

Spec == Init /\ [][Next]_vars

LiveSpec ==
  /\ Spec
  /\ \A t \in Turns : WF_vars(asked[t] /\ Finish(t)) /\ WF_vars(Answer(t))
=============================================================================
