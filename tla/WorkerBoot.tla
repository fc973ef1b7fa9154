------------------------------ MODULE WorkerBoot ------------------------------
(***************************************************************************)
(* The worker registry of runtime/src/worker_boot.rs: the boot of coding   *)
(* agents in terminals, driven by the text of their screens.  Every call   *)
(* takes the lock of the registry, so it is one step; what is hard is that *)
(* screens, time-outs and completions arrive late and in any order.        *)
(*                                                                         *)
(* A screen is what the detectors find in it.  Task receipts only decide   *)
(* whether a screen shows a misdelivery; messages, times, the log of       *)
(* events and the classification of a time-out are left out.  The state    *)
(* file can be written.                                                    *)
(***************************************************************************)
EXTENDS Naturals

CONSTANTS
  Workers,      \* workers ever created
  Prompts,      \* prompts that may be sent
  NoPrompt,     \* None
  MaxAttempts   \* bound: deliveries between two restarts

ASSUME WorkerConstants == NoPrompt \notin Prompts /\ MaxAttempts \in Nat

VARIABLE worker   \* the table of workers

Statuses == {"absent", "spawning", "trust_required", "tool_permission_required",
             "ready_for_prompt", "running", "finished", "failed"}

Failures == {"none", "trust_gate", "tool_permission_gate", "prompt_delivery",
             "provider", "startup_no_evidence"}

\* shown: what .claw/worker-state.json says of the worker.
Worker == [status : Statuses, auto : BOOLEAN, recover : BOOLEAN, cleared : BOOLEAN,
           attempts : 0..MaxAttempts, inFlight : BOOLEAN,
           last : Prompts \cup {NoPrompt}, replay : Prompts \cup {NoPrompt},
           error : Failures,
           shown : [status : Statuses, cleared : BOOLEAN, inFlight : BOOLEAN]]

Screen == [tool : BOOLEAN, trust : BOOLEAN, misdelivered : BOOLEAN,
           running : BOOLEAN, ready : BOOLEAN]

Absent == [status |-> "absent", auto |-> FALSE, recover |-> FALSE, cleared |-> FALSE,
           attempts |-> 0, inFlight |-> FALSE, last |-> NoPrompt, replay |-> NoPrompt,
           error |-> "none",
           shown |-> [status |-> "absent", cleared |-> FALSE, inFlight |-> FALSE]]

Init == worker = [w \in Workers |-> Absent]

Exists(w) == worker[w].status # "absent"

Set(w, x) == worker' = [worker EXCEPT ![w] = x]

\* push_event: the snapshot is written with every event.
Emit(x) ==
  [x EXCEPT !.shown = [status |-> x.status, cleared |-> x.cleared, inFlight |-> x.inFlight]]

-----------------------------------------------------------------------------
Create(w) ==
  /\ ~Exists(w)
  /\ \E auto, recover \in BOOLEAN :
       Set(w, Emit([Absent EXCEPT !.status = "spawning", !.auto = auto, !.recover = recover]))

\* observe_startup_preflight found something to warn about.
Preflight(w) == Exists(w) /\ Set(w, Emit(worker[w]))

-----------------------------------------------------------------------------
(* observe *)

\* Faulty variants (suffix _Faulty...) are what a property must reject.
ObserveToolPrompt(w, screen) ==
  /\ Exists(w) /\ screen.tool
  /\ Set(w, Emit([worker[w] EXCEPT !.status = "tool_permission_required",
                                   !.error = "tool_permission_gate"]))

\* The trust prompt is taken for a new one although the gate was cleared.
AtTrustGate_FaultyAgain(x, screen) == screen.trust

AtTrustGate(x, screen) == ~x.cleared /\ screen.trust

ObserveTrustPrompt(w, screen) ==
  /\ Exists(w) /\ ~screen.tool
  /\ AtTrustGate(worker[w], screen) /\ ~worker[w].auto
  /\ Set(w, Emit([worker[w] EXCEPT !.status = "trust_required", !.error = "trust_gate"]))

\* The gate of an allowlisted folder opens, but the error stays.
PastTrustGate_FaultyKeepsError(x, screen) ==
  IF AtTrustGate(x, screen)
    THEN Emit([x EXCEPT !.cleared = TRUE, !.error = "trust_gate", !.status = "spawning"])
    ELSE x

\* An allowlisted folder opens the gate and the rest of the screen is read.
PastTrustGate(x, screen) ==
  IF AtTrustGate(x, screen)
    THEN Emit([x EXCEPT !.cleared = TRUE, !.error = "none", !.status = "spawning"])
    ELSE x

\* An old screen is held against a prompt that was accepted long ago.
Misdelivered_FaultyStale(x, screen) == x.last # NoPrompt /\ screen.misdelivered

Misdelivered(x, screen) == x.inFlight /\ x.last # NoPrompt /\ screen.misdelivered

ObserveMisdelivery(w, screen) ==
  LET x == PastTrustGate(worker[w], screen) IN
  /\ Exists(w) /\ ~screen.tool
  /\ AtTrustGate(worker[w], screen) => worker[w].auto
  /\ Misdelivered(x, screen)
  /\ Set(w, Emit([x EXCEPT !.error = "prompt_delivery", !.inFlight = FALSE,
                           !.replay = IF x.recover THEN x.last ELSE @,
                           !.status = IF x.recover THEN "ready_for_prompt" ELSE "failed"]))

\* A running cue.  No event is pushed.
Accepted(x, screen) ==
  IF screen.running /\ x.inFlight
    THEN [x EXCEPT !.inFlight = FALSE, !.status = "running", !.error = "none"]
    ELSE x

Ready(x, screen) ==
  IF screen.ready /\ x.status # "ready_for_prompt"
    THEN Emit([x EXCEPT !.status = "ready_for_prompt", !.inFlight = FALSE,
                        !.error = IF @ = "trust_gate" THEN "none" ELSE @])
    ELSE x

ObserveProgress(w, screen) ==
  LET x == PastTrustGate(worker[w], screen) IN
  /\ Exists(w) /\ ~screen.tool
  /\ AtTrustGate(worker[w], screen) => worker[w].auto
  /\ ~Misdelivered(x, screen)
  /\ Set(w, Ready(Accepted(x, screen), screen))

-----------------------------------------------------------------------------
ResolveTrust(w) ==
  /\ worker[w].status = "trust_required"
  /\ Set(w, Emit([worker[w] EXCEPT !.cleared = TRUE, !.error = "none", !.status = "spawning"]))

Dispatch(w, p) ==
  /\ worker[w].status = "ready_for_prompt"
  /\ worker[w].attempts < MaxAttempts
  /\ Set(w, Emit([worker[w] EXCEPT !.attempts = @ + 1, !.inFlight = TRUE, !.last = p,
                                   !.replay = NoPrompt, !.error = "none", !.status = "running"]))

\* send_prompt with a prompt, and without one.
SendPrompt(w, p) == Dispatch(w, p)
ReplayPrompt(w)  == worker[w].replay # NoPrompt /\ Dispatch(w, worker[w].replay)

\* The prompt armed before the restart survives it.
Restart_FaultyKeepsReplay(w) ==
  /\ Exists(w)
  /\ Set(w, Emit([worker[w] EXCEPT !.status = "spawning", !.cleared = FALSE, !.last = NoPrompt,
                                   !.error = "none", !.attempts = 0, !.inFlight = FALSE]))

Restart(w) ==
  /\ Exists(w)
  /\ Set(w, Emit([worker[w] EXCEPT !.status = "spawning", !.cleared = FALSE,
                                   !.last = NoPrompt, !.replay = NoPrompt, !.error = "none",
                                   !.attempts = 0, !.inFlight = FALSE]))

Terminate(w) ==
  /\ Exists(w)
  /\ Set(w, Emit([worker[w] EXCEPT !.status = "finished", !.inFlight = FALSE]))

\* observe_completion, with a provider failure or without.
Complete(w) ==
  /\ Exists(w)
  /\ \/ Set(w, Emit([worker[w] EXCEPT !.status = "failed", !.error = "provider",
                                      !.inFlight = FALSE]))
     \/ Set(w, Emit([worker[w] EXCEPT !.status = "finished", !.error = "none",
                                      !.inFlight = FALSE]))

\* The snapshot is written before the worker is changed.
TimeOut_FaultyEarlyFile(w) ==
  /\ Exists(w)
  /\ Set(w, [Emit(worker[w]) EXCEPT !.status = "failed", !.error = "startup_no_evidence",
                                    !.inFlight = FALSE])

\* observe_startup_timeout, from whatever state the worker is in.
TimeOut(w) ==
  /\ Exists(w)
  /\ Set(w, Emit([worker[w] EXCEPT !.status = "failed", !.error = "startup_no_evidence",
                                   !.inFlight = FALSE]))

-----------------------------------------------------------------------------
Next ==
  \E w \in Workers :
    \/ Create(w) \/ Preflight(w) \/ ResolveTrust(w) \/ ReplayPrompt(w)
    \/ Restart(w) \/ Terminate(w) \/ Complete(w) \/ TimeOut(w)
    \/ \E p \in Prompts : SendPrompt(w, p)
    \/ \E screen \in Screen :
         \/ ObserveToolPrompt(w, screen) \/ ObserveTrustPrompt(w, screen)
         \/ ObserveMisdelivery(w, screen) \/ ObserveProgress(w, screen)

Spec == Init /\ [][Next]_worker

-----------------------------------------------------------------------------
(* Properties *)

TypeOK == worker \in [Workers -> Worker]

(* A worker that is stuck says on what: its last error is that of the gate   *)
(* it waits at or of the failure it ended with, and one that is starting or  *)
(* running has none, whatever screens were seen on the way.                  *)
StatusAndErrorAgree ==
  \A w \in Workers : LET x == worker[w] IN
    /\ x.status = "trust_required" => x.error = "trust_gate" /\ ~x.cleared
    /\ x.status = "tool_permission_required" => x.error = "tool_permission_gate"
    /\ x.status = "failed" => x.error \in {"prompt_delivery", "provider", "startup_no_evidence"}
    /\ x.status \in {"spawning", "running"} => x.error = "none"

(* A trust gate that was cleared does not close again before a restart: the  *)
(* old prompt stays on the screen and is seen again.                         *)
ClearedGateStaysClear ==
  [][\A w \in Workers :
       worker[w].cleared /\ worker'[w].status # "spawning"
         => worker'[w].cleared /\ worker'[w].status # "trust_required"]_worker

(* Nothing of an earlier boot is delivered: a prompt that is in flight,      *)
(* armed or blamed was sent since the last restart.                          *)
PromptsAreOfThisBoot ==
  \A w \in Workers : LET x == worker[w] IN
    (x.inFlight \/ x.last # NoPrompt \/ x.replay # NoPrompt \/ x.error = "prompt_delivery")
      => x.attempts > 0

(* An external observer that polls the state file misses nothing but the     *)
(* acceptance of a prompt: what the file says is what the worker is, unless  *)
(* a running cue came after the last event.                                  *)
FileLagsOnlyAcceptance ==
  \A w \in Workers : LET x == worker[w] IN
    \/ x.shown = [status |-> x.status, cleared |-> x.cleared, inFlight |-> x.inFlight]
    \/ x.status = "running" /\ ~x.inFlight /\ x.shown.inFlight

Delivery == INSTANCE PromptDelivery
              WITH inFlight <- [w \in Workers |->
                                  IF worker[w].inFlight THEN worker[w].last ELSE NoPrompt],
                   armed    <- [w \in Workers |-> worker[w].replay]

(* The registry keeps the promise of PromptDelivery: screens that come late  *)
(* never put two prompts in flight, bounce one that was accepted, or arm for *)
(* replay anything but what bounced.                                         *)
DeliversPrompts == Delivery!Spec
===============================================================================
