---------------------------- MODULE PromptDelivery ----------------------------
(***************************************************************************)
(* What the worker registry promises about prompts: at most one is in      *)
(* flight to a worker, only the one in flight can bounce, and what is      *)
(* armed for replay is the one that bounced last and was not sent since.   *)
(***************************************************************************)
CONSTANTS Workers, Prompts, NoPrompt

VARIABLES
  inFlight,   \* to each worker: the prompt neither accepted nor bounced
  armed       \* for each worker: the prompt to send again

vars == <<inFlight, armed>>

Init ==
  /\ inFlight = [w \in Workers |-> NoPrompt]
  /\ armed = [w \in Workers |-> NoPrompt]

Leave(w, flying, waiting) ==
  /\ inFlight' = [inFlight EXCEPT ![w] = flying]
  /\ armed' = [armed EXCEPT ![w] = waiting]

Send(w, p) == inFlight[w] = NoPrompt /\ Leave(w, p, NoPrompt)
Replay(w)  == armed[w] # NoPrompt /\ Send(w, armed[w])
\* Accepted, or held to be: a ready screen counts, however old it is.
Accept(w)  == inFlight[w] # NoPrompt /\ Leave(w, NoPrompt, armed[w])
Bounce(w)  == inFlight[w] # NoPrompt /\ Leave(w, NoPrompt, inFlight[w])
Reset(w)   == Leave(w, NoPrompt, NoPrompt)

Next == \E w \in Workers :
          \/ \E p \in Prompts : Send(w, p)
          \/ Replay(w) \/ Accept(w) \/ Bounce(w) \/ Reset(w)

Spec == Init /\ [][Next]_vars
===============================================================================
