------------------------------ MODULE AtMostOnce ------------------------------
(***************************************************************************)
(* What a call of a remote tool promises: the tool runs at most once for   *)
(* it, and success is reported only of a call that ran.  A call that fails *)
(* may have run.                                                           *)
(***************************************************************************)
VARIABLES
  asked,   \* a call is under way
  ran,     \* how often the tool ran for it
  told     \* what the caller was told of the last call

vars == <<asked, ran, told>>

Init == ~asked /\ ran = 0 /\ told = "nothing"

Ask == ~asked /\ asked' = TRUE /\ ran' = 0 /\ told' = "nothing"

Run == ran = 0 /\ ran' = 1 /\ UNCHANGED <<asked, told>>

Tell ==
  /\ asked /\ asked' = FALSE
  /\ told' \in {"failed"} \cup (IF ran = 1 THEN {"ok"} ELSE {})
  /\ UNCHANGED ran

Next == Ask \/ Run \/ Tell

Spec == Init /\ [][Next]_vars
===============================================================================
