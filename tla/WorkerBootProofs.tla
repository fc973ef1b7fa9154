---------------------------- MODULE WorkerBootProofs ----------------------------
(***************************************************************************)
(* Theorems of WorkerBoot, for any number of workers, prompts and          *)
(* deliveries: what a worker says of itself is consistent, a trust gate    *)
(* that was cleared stays clear, and the registry implements               *)
(* PromptDelivery.                                                         *)
(*                                                                         *)
(* The invariant is one of each worker's record, Good.  What it adds to    *)
(* the properties: a prompt in flight is a prompt, and nothing is armed    *)
(* while one is; a ready worker has none in flight.                        *)
(***************************************************************************)
EXTENDS WorkerBoot, TLAPS

Agree(x) ==
  /\ x.status = "trust_required" => x.error = "trust_gate" /\ ~x.cleared
  /\ x.status = "tool_permission_required" => x.error = "tool_permission_gate"
  /\ x.status = "failed" => x.error \in {"prompt_delivery", "provider", "startup_no_evidence"}
  /\ x.status \in {"spawning", "running"} => x.error = "none"

OfThisBoot(x) ==
  (x.inFlight \/ x.last # NoPrompt \/ x.replay # NoPrompt \/ x.error = "prompt_delivery")
    => x.attempts > 0

Flight(x) ==
  /\ x.inFlight => x.last \in Prompts /\ x.replay = NoPrompt
  /\ x.status \in {"ready_for_prompt", "absent"} => ~x.inFlight

Lags(x) ==
  \/ x.shown = [status |-> x.status, cleared |-> x.cleared, inFlight |-> x.inFlight]
  \/ x.status = "running" /\ ~x.inFlight /\ x.shown.inFlight

Good(x) == x \in Worker /\ Agree(x) /\ OfThisBoot(x) /\ Flight(x) /\ Lags(x)

IInv == worker \in [Workers -> Worker] /\ \A w \in Workers : Good(worker[w])

(* The prompt in flight to a worker, and the moves PromptDelivery allows.    *)
Flying(x) == IF x.inFlight THEN x.last ELSE NoPrompt

Moves(x, y) ==
  \/ Flying(y) = Flying(x) /\ y.replay = x.replay
  \/ Flying(x) = NoPrompt /\ Flying(y) \in Prompts /\ y.replay = NoPrompt
  \/ /\ Flying(x) # NoPrompt /\ Flying(y) = NoPrompt
     /\ y.replay \in {x.replay, Flying(x)}
  \/ Flying(y) = NoPrompt /\ y.replay = NoPrompt

(* What a step of the worker w may do.                                       *)
GoodStep(w) == \E x : Set(w, x) /\ Good(x) /\ Moves(worker[w], x)

LEMMA AbsentGood == Good(Absent)
BY WorkerConstants DEF Good, Absent, Worker, Agree, OfThisBoot, Flight, Lags, Statuses, Failures

LEMMA InitIInv == Init => IInv
BY AbsentGood DEF Init, IInv, Good

LEMMA SetGood ==
  ASSUME IInv, NEW w \in Workers, NEW x, Good(x), Set(w, x)
  PROVE  IInv'
BY DEF IInv, Good, Set

(* Writing the file keeps the rest of the record, and leaves no lag.         *)
LEMMA EmitGood ==
  ASSUME NEW x \in Worker, Agree(x), OfThisBoot(x), Flight(x)
  PROVE  Good(Emit(x))
<1> DEFINE y == Emit(x)
<1>1. /\ y \in Worker
      /\ y.status = x.status /\ y.error = x.error /\ y.cleared = x.cleared
      /\ y.inFlight = x.inFlight /\ y.last = x.last /\ y.replay = x.replay
      /\ y.attempts = x.attempts
      /\ y.shown = [status |-> x.status, cleared |-> x.cleared, inFlight |-> x.inFlight]
  BY DEF Emit, Worker
<1> HIDE DEF y
<1>2. Agree(y) /\ OfThisBoot(y) /\ Flight(y) /\ Lags(y)
  BY <1>1 DEF Agree, OfThisBoot, Flight, Lags
<1>. QED BY <1>1, <1>2 DEF Good, y

LEMMA EmitKeeps ==
  ASSUME NEW x \in Worker
  PROVE  Emit(x).replay = x.replay /\ Flying(Emit(x)) = Flying(x)
BY DEF Emit, Worker, Flying

(* An action that sets a record with an event takes a good step.             *)
LEMMA EmitStep ==
  ASSUME NEW w \in Workers, NEW x \in Worker, Set(w, Emit(x)),
         Agree(x), OfThisBoot(x), Flight(x), Moves(worker[w], x)
  PROVE  GoodStep(w)
<1>1. Good(Emit(x))
  BY EmitGood
<1>2. Moves(worker[w], Emit(x))
  BY EmitKeeps DEF Moves
<1>. QED BY <1>1, <1>2 DEF GoodStep

-----------------------------------------------------------------------------
LEMMA CreateStep ==
  ASSUME IInv, NEW w \in Workers, Create(w)
  PROVE  GoodStep(w)
<1>1. PICK auto \in BOOLEAN, recover \in BOOLEAN :
        Set(w, Emit([Absent EXCEPT !.status = "spawning", !.auto = auto, !.recover = recover]))
  BY DEF Create
<1> DEFINE x == [Absent EXCEPT !.status = "spawning", !.auto = auto, !.recover = recover]
<1>2. /\ x \in Worker /\ x.status = "spawning" /\ x.error = "none" /\ ~x.inFlight
      /\ x.last = NoPrompt /\ x.replay = NoPrompt
  <2>1. /\ Absent \in Worker /\ Absent.error = "none" /\ ~Absent.inFlight
        /\ Absent.last = NoPrompt /\ Absent.replay = NoPrompt
    BY AbsentGood DEF Absent, Good
  <2>. QED BY <2>1 DEF Worker, Statuses
<1>3. Set(w, Emit(x))
  BY <1>1
<1> HIDE DEF x
<1>4. Agree(x) /\ OfThisBoot(x) /\ Flight(x) /\ Moves(worker[w], x)
  BY <1>2 DEF Agree, OfThisBoot, Flight, Moves, Flying
<1>. QED BY <1>2, <1>3, <1>4, EmitStep

LEMMA PreflightStep ==
  ASSUME IInv, NEW w \in Workers, Preflight(w)
  PROVE  GoodStep(w)
<1>1. Moves(worker[w], worker[w])
  BY DEF Moves
<1>. QED BY <1>1, EmitStep DEF Preflight, IInv, Good

(* The actions that end what a worker is doing.                              *)
LEMMA EndStep ==
  ASSUME IInv, NEW w \in Workers, Exists(w),
         NEW status \in {"finished", "failed"}, NEW error \in Failures,
         status = "failed" => error \in {"provider", "startup_no_evidence"},
         error \in {worker[w].error, "none", "provider", "startup_no_evidence"},
         Set(w, Emit([worker[w] EXCEPT !.status = status, !.error = error, !.inFlight = FALSE]))
  PROVE  GoodStep(w)
<1> DEFINE x == [worker[w] EXCEPT !.status = status, !.error = error, !.inFlight = FALSE]
<1>1. Good(worker[w]) /\ worker[w] \in Worker
  BY DEF IInv, Good
<1>2. /\ x \in Worker /\ x.status = status /\ x.error = error /\ ~x.inFlight
      /\ x.last = worker[w].last /\ x.replay = worker[w].replay
      /\ x.attempts = worker[w].attempts
  BY <1>1 DEF Worker, Statuses
<1>3. Set(w, Emit(x))
  OBVIOUS
<1> HIDE DEF x
<1>4. Agree(x) /\ Flight(x) /\ OfThisBoot(x)
  BY <1>1, <1>2 DEF Agree, OfThisBoot, Flight, Good
<1>5. Moves(worker[w], x)
  BY <1>1, <1>2 DEF Moves, Flying
<1>. QED BY <1>2, <1>3, <1>4, <1>5, EmitStep

LEMMA EndingsStep ==
  ASSUME IInv, NEW w \in Workers, Terminate(w) \/ Complete(w) \/ TimeOut(w)
  PROVE  GoodStep(w)
<1>1. worker[w] \in Worker /\ worker[w].error \in Failures
  BY DEF IInv, Good, Worker
<1>2. CASE Terminate(w)
  <2>1. [worker[w] EXCEPT !.status = "finished", !.error = worker[w].error, !.inFlight = FALSE]
          = [worker[w] EXCEPT !.status = "finished", !.inFlight = FALSE]
    BY <1>1 DEF Worker
  <2>. QED BY <1>1, <1>2, <2>1, EndStep DEF Terminate
<1>3. CASE Complete(w)
  BY <1>3, EndStep DEF Complete, Failures
<1>4. CASE TimeOut(w)
  BY <1>4, EndStep DEF TimeOut, Failures
<1>. QED BY <1>2, <1>3, <1>4

-----------------------------------------------------------------------------
(* observe *)

LEMMA ToolPromptStep ==
  ASSUME IInv, NEW w \in Workers, NEW screen \in Screen, ObserveToolPrompt(w, screen)
  PROVE  GoodStep(w)
<1> DEFINE x == [worker[w] EXCEPT !.status = "tool_permission_required",
                                  !.error = "tool_permission_gate"]
<1>1. Good(worker[w]) /\ worker[w] \in Worker
  BY DEF IInv, Good
<1>2. /\ x \in Worker /\ x.status = "tool_permission_required"
      /\ x.error = "tool_permission_gate" /\ x.inFlight = worker[w].inFlight
      /\ x.last = worker[w].last /\ x.replay = worker[w].replay
      /\ x.attempts = worker[w].attempts
  BY <1>1 DEF Worker, Statuses, Failures
<1>3. Set(w, Emit(x))
  BY DEF ObserveToolPrompt
<1> HIDE DEF x
<1>4. Agree(x) /\ OfThisBoot(x) /\ Flight(x) /\ Moves(worker[w], x)
  BY <1>1, <1>2 DEF Agree, OfThisBoot, Flight, Good, Moves, Flying
<1>. QED BY <1>2, <1>3, <1>4, EmitStep

LEMMA TrustPromptStep ==
  ASSUME IInv, NEW w \in Workers, NEW screen \in Screen, ObserveTrustPrompt(w, screen)
  PROVE  GoodStep(w)
<1> DEFINE x == [worker[w] EXCEPT !.status = "trust_required", !.error = "trust_gate"]
<1>1. Good(worker[w]) /\ worker[w] \in Worker /\ ~worker[w].cleared
  BY DEF IInv, Good, ObserveTrustPrompt, AtTrustGate
<1>2. /\ x \in Worker /\ x.status = "trust_required" /\ ~x.cleared
      /\ x.error = "trust_gate" /\ x.inFlight = worker[w].inFlight
      /\ x.last = worker[w].last /\ x.replay = worker[w].replay
      /\ x.attempts = worker[w].attempts
  BY <1>1 DEF Worker, Statuses, Failures
<1>3. Set(w, Emit(x))
  BY DEF ObserveTrustPrompt
<1> HIDE DEF x
<1>4. Agree(x) /\ OfThisBoot(x) /\ Flight(x) /\ Moves(worker[w], x)
  BY <1>1, <1>2 DEF Agree, OfThisBoot, Flight, Good, Moves, Flying
<1>. QED BY <1>2, <1>3, <1>4, EmitStep

(* The part of observe that opens the gate of an allowlisted folder leaves   *)
(* the prompts alone.                                                        *)
LEMMA PastTrustGateGood ==
  ASSUME NEW x, Good(x), NEW screen \in Screen
  PROVE  LET y == PastTrustGate(x, screen)
         IN  Good(y) /\ y.inFlight = x.inFlight /\ y.last = x.last /\ y.replay = x.replay
<1> DEFINE y == PastTrustGate(x, screen)
<1>1. CASE AtTrustGate(x, screen)
  <2> DEFINE z == [x EXCEPT !.cleared = TRUE, !.error = "none", !.status = "spawning"]
  <2>1. /\ z \in Worker /\ z.error = "none" /\ z.status = "spawning"
        /\ z.inFlight = x.inFlight /\ z.last = x.last /\ z.replay = x.replay
        /\ z.attempts = x.attempts
    BY DEF Good, Worker, Statuses, Failures
  <2>2. y = Emit(z)
    BY <1>1 DEF PastTrustGate
  <2> HIDE DEF z
  <2>3. Agree(z) /\ OfThisBoot(z) /\ Flight(z)
    BY <2>1 DEF Agree, OfThisBoot, Flight, Good
  <2>4. Good(Emit(z))
    BY <2>1, <2>3, EmitGood
  <2>5. Emit(z).inFlight = z.inFlight /\ Emit(z).last = z.last /\ Emit(z).replay = z.replay
    BY <2>1 DEF Emit, Worker
  <2>. QED BY <2>1, <2>2, <2>4, <2>5
<1>2. CASE ~AtTrustGate(x, screen)
  BY <1>2 DEF PastTrustGate
<1>. QED BY <1>1, <1>2

LEMMA MisdeliveryStep ==
  ASSUME IInv, NEW w \in Workers, NEW screen \in Screen, ObserveMisdelivery(w, screen)
  PROVE  GoodStep(w)
<1>1. PICK x : /\ x = PastTrustGate(worker[w], screen) /\ Good(x)
               /\ x.inFlight = worker[w].inFlight /\ x.last = worker[w].last
               /\ x.replay = worker[w].replay
  BY PastTrustGateGood DEF IInv
<1> DEFINE armed == IF x.recover THEN x.last ELSE x.replay
           status == IF x.recover THEN "ready_for_prompt" ELSE "failed"
           y == [x EXCEPT !.error = "prompt_delivery", !.inFlight = FALSE,
                          !.replay = armed, !.status = status]
<1>2. x.inFlight /\ x.last # NoPrompt /\ Set(w, Emit(y))
  BY <1>1, Zenon DEF ObserveMisdelivery, Misdelivered
<1>3. armed \in {x.last, x.replay} /\ status \in {"ready_for_prompt", "failed"}
  OBVIOUS
<1> HIDE DEF armed, status
<1>4. x \in Worker /\ x.last \in Prompts \cup {NoPrompt} /\ armed \in Prompts \cup {NoPrompt}
  BY <1>1, <1>3 DEF Good, Worker
<1>5. /\ y \in Worker /\ y.status = status /\ y.error = "prompt_delivery" /\ ~y.inFlight
      /\ y.last = x.last /\ y.replay = armed /\ y.attempts = x.attempts
  BY <1>3, <1>4 DEF Worker, Statuses, Failures
<1> HIDE DEF y
<1>6. Agree(y) /\ OfThisBoot(y) /\ Flight(y)
  BY <1>1, <1>2, <1>3, <1>5 DEF Agree, OfThisBoot, Flight, Good
<1>7. Moves(worker[w], y)
  BY <1>1, <1>2, <1>3, <1>5 DEF Moves, Flying
<1>. QED BY <1>2, <1>5, <1>6, <1>7, EmitStep

(* Reading the cues of a screen leaves what is armed alone and at most lands *)
(* the prompt in flight.                                                     *)
Lands(x, y) == y.replay = x.replay /\ Flying(y) \in {Flying(x), NoPrompt}

LEMMA AcceptedGood ==
  ASSUME NEW x, Good(x), NEW screen \in Screen
  PROVE  Good(Accepted(x, screen)) /\ Lands(x, Accepted(x, screen))
<1>1. CASE screen.running /\ x.inFlight
  <2> DEFINE y == [x EXCEPT !.inFlight = FALSE, !.status = "running", !.error = "none"]
  <2>1. /\ y \in Worker /\ y.status = "running" /\ y.error = "none" /\ ~y.inFlight
        /\ y.last = x.last /\ y.replay = x.replay /\ y.attempts = x.attempts
        /\ y.shown = x.shown
    BY DEF Good, Worker, Statuses, Failures
  <2>2. Accepted(x, screen) = y
    BY <1>1 DEF Accepted
  <2> HIDE DEF y
  <2>3. x.shown.inFlight
    BY <1>1 DEF Good, Lags
  <2>4. Agree(y) /\ OfThisBoot(y) /\ Flight(y) /\ Lags(y)
    BY <2>1, <2>3 DEF Agree, OfThisBoot, Flight, Lags, Good
  <2>. QED BY <2>1, <2>2, <2>4 DEF Good, Lands, Flying
<1>2. CASE ~(screen.running /\ x.inFlight)
  BY <1>2 DEF Accepted, Lands
<1>. QED BY <1>1, <1>2

LEMMA ReadyGood ==
  ASSUME NEW x, Good(x), NEW screen \in Screen
  PROVE  Good(Ready(x, screen)) /\ Lands(x, Ready(x, screen))
<1>1. CASE screen.ready /\ x.status # "ready_for_prompt"
  <2> DEFINE error == IF x.error = "trust_gate" THEN "none" ELSE x.error
             y == [x EXCEPT !.status = "ready_for_prompt", !.inFlight = FALSE, !.error = error]
  <2>1. error \in {"none", x.error} /\ error \in Failures
    BY DEF Good, Worker, Failures
  <2>2. Ready(x, screen) = Emit(y)
    BY <1>1 DEF Ready
  <2> HIDE DEF error
  <2>3. /\ y \in Worker /\ y.status = "ready_for_prompt" /\ y.error = error /\ ~y.inFlight
        /\ y.last = x.last /\ y.replay = x.replay /\ y.attempts = x.attempts
    BY <2>1 DEF Good, Worker, Statuses
  <2> HIDE DEF y
  <2>4. Agree(y) /\ OfThisBoot(y) /\ Flight(y)
    BY <2>1, <2>3 DEF Agree, OfThisBoot, Flight, Good
  <2>5. Good(Emit(y))
    BY <2>3, <2>4, EmitGood
  <2>6. Emit(y).replay = x.replay /\ Flying(Emit(y)) = NoPrompt
    BY <2>3, EmitKeeps DEF Flying
  <2>. QED BY <2>2, <2>5, <2>6 DEF Lands
<1>2. CASE ~(screen.ready /\ x.status # "ready_for_prompt")
  BY <1>2 DEF Ready, Lands
<1>. QED BY <1>1, <1>2

LEMMA ProgressStep ==
  ASSUME IInv, NEW w \in Workers, NEW screen \in Screen, ObserveProgress(w, screen)
  PROVE  GoodStep(w)
<1>1. PICK x : /\ x = PastTrustGate(worker[w], screen) /\ Good(x)
               /\ x.inFlight = worker[w].inFlight /\ x.last = worker[w].last
               /\ x.replay = worker[w].replay
  BY PastTrustGateGood DEF IInv
<1>2. PICK y : y = Accepted(x, screen) /\ Good(y) /\ Lands(x, y)
  BY <1>1, AcceptedGood
<1>3. PICK z : z = Ready(y, screen) /\ Good(z) /\ Lands(y, z)
  BY <1>2, ReadyGood
<1>4. Set(w, z)
  BY <1>1, <1>2, <1>3 DEF ObserveProgress
<1>5. Moves(worker[w], z)
  <2>1. z.replay = worker[w].replay /\ Flying(z) \in {Flying(worker[w]), NoPrompt}
    BY <1>1, <1>2, <1>3 DEF Lands, Flying
  <2>. QED BY <2>1 DEF Moves
<1>. QED BY <1>3, <1>4, <1>5 DEF GoodStep

-----------------------------------------------------------------------------
(* The gate, the prompts and the restart                                     *)

LEMMA ResolveStep ==
  ASSUME IInv, NEW w \in Workers, ResolveTrust(w)
  PROVE  GoodStep(w)
<1> DEFINE x == [worker[w] EXCEPT !.cleared = TRUE, !.error = "none", !.status = "spawning"]
<1>1. Good(worker[w])
  BY DEF IInv
<1>2. /\ x \in Worker /\ x.status = "spawning" /\ x.error = "none"
      /\ x.inFlight = worker[w].inFlight /\ x.attempts = worker[w].attempts
      /\ x.last = worker[w].last /\ x.replay = worker[w].replay
  BY <1>1 DEF Good, Worker, Statuses, Failures
<1>3. Set(w, Emit(x))
  BY DEF ResolveTrust
<1> HIDE DEF x
<1>4. Agree(x) /\ OfThisBoot(x) /\ Flight(x) /\ Moves(worker[w], x)
  BY <1>1, <1>2 DEF Agree, OfThisBoot, Flight, Good, Moves, Flying
<1>. QED BY <1>2, <1>3, <1>4, EmitStep

LEMMA DispatchStep ==
  ASSUME IInv, NEW w \in Workers, NEW p \in Prompts, Dispatch(w, p)
  PROVE  GoodStep(w)
<1> DEFINE n == worker[w].attempts + 1
           x == [worker[w] EXCEPT !.attempts = n, !.inFlight = TRUE, !.last = p,
                                  !.replay = NoPrompt, !.error = "none", !.status = "running"]
<1>1. Good(worker[w]) /\ worker[w].status = "ready_for_prompt"
  BY DEF IInv, Dispatch
<1>2. n \in 0..MaxAttempts /\ n > 0
  <2>1. worker[w].attempts \in 0..MaxAttempts /\ worker[w].attempts < MaxAttempts
    BY <1>1 DEF Good, Worker, Dispatch
  <2>. QED BY <2>1, WorkerConstants
<1>3. Set(w, Emit(x))
  BY DEF Dispatch
<1> HIDE DEF n
<1>4. /\ x \in Worker /\ x.status = "running" /\ x.error = "none" /\ x.inFlight
      /\ x.attempts = n /\ x.last = p /\ x.replay = NoPrompt
  BY <1>1, <1>2 DEF Good, Worker, Statuses, Failures
<1> HIDE DEF x
<1>5. Agree(x) /\ OfThisBoot(x) /\ Flight(x)
  BY <1>2, <1>4 DEF Agree, OfThisBoot, Flight
<1>6. Moves(worker[w], x)
  BY <1>1, <1>4 DEF Good, Flight, Moves, Flying
<1>. QED BY <1>3, <1>4, <1>5, <1>6, EmitStep

LEMMA RestartStep ==
  ASSUME IInv, NEW w \in Workers, Restart(w)
  PROVE  GoodStep(w)
<1> DEFINE x == [worker[w] EXCEPT !.status = "spawning", !.cleared = FALSE,
                                  !.last = NoPrompt, !.replay = NoPrompt, !.error = "none",
                                  !.attempts = 0, !.inFlight = FALSE]
<1>1. Good(worker[w]) /\ 0 \in 0..MaxAttempts
  BY WorkerConstants DEF IInv
<1>2. /\ x \in Worker /\ x.status = "spawning" /\ x.error = "none" /\ ~x.inFlight
      /\ x.last = NoPrompt /\ x.replay = NoPrompt
  BY <1>1 DEF Good, Worker, Statuses, Failures
<1>3. Set(w, Emit(x))
  BY DEF Restart
<1> HIDE DEF x
<1>4. Agree(x) /\ OfThisBoot(x) /\ Flight(x) /\ Moves(worker[w], x)
  BY <1>2 DEF Agree, OfThisBoot, Flight, Moves, Flying
<1>. QED BY <1>2, <1>3, <1>4, EmitStep

LEMMA PromptStep ==
  ASSUME IInv, NEW w \in Workers, ReplayPrompt(w) \/ \E p \in Prompts : SendPrompt(w, p)
  PROVE  GoodStep(w)
<1>1. CASE ReplayPrompt(w)
  <2>1. worker[w].replay \in Prompts
    BY <1>1 DEF ReplayPrompt, IInv, Worker
  <2>. QED BY <1>1, <2>1, DispatchStep DEF ReplayPrompt
<1>. QED BY <1>1, DispatchStep DEF SendPrompt

-----------------------------------------------------------------------------
LEMMA NextStep ==
  ASSUME IInv, Next
  PROVE  \E w \in Workers : GoodStep(w)
<1>1. ASSUME NEW w \in Workers, NEW screen \in Screen,
             \/ ObserveToolPrompt(w, screen) \/ ObserveTrustPrompt(w, screen)
             \/ ObserveMisdelivery(w, screen) \/ ObserveProgress(w, screen)
      PROVE  GoodStep(w)
  BY <1>1, ToolPromptStep, TrustPromptStep, MisdeliveryStep, ProgressStep
<1>. QED BY <1>1, CreateStep, PreflightStep, ResolveStep, PromptStep, RestartStep, EndingsStep
         DEF Next

LEMMA Inductive == Spec => []IInv
<1>1. IInv /\ [Next]_worker => IInv'
  <2>1. ASSUME IInv, UNCHANGED worker PROVE IInv'
    BY <2>1 DEF IInv
  <2>2. ASSUME IInv, Next PROVE IInv'
    BY <2>2, NextStep, SetGood DEF GoodStep
  <2>. QED BY <2>1, <2>2
<1>. QED BY <1>1, InitIInv, PTL DEF Spec

(* Every call of the registry leaves records in their ranges.                *)
THEOREM TypeCorrect == Spec => []TypeOK
<1>1. IInv => TypeOK
  BY DEF IInv, TypeOK
<1>. QED BY <1>1, Inductive, PTL

(* However screens, time-outs and completions are ordered, a worker that is  *)
(* blocked or failed carries the matching error and one that starts or runs  *)
(* carries none.                                                             *)
THEOREM StatusAndErrorAlwaysAgree == Spec => []StatusAndErrorAgree
<1>1. IInv => StatusAndErrorAgree
  BY DEF IInv, Good, Agree, StatusAndErrorAgree
<1>. QED BY <1>1, Inductive, PTL

(* No restart lets a prompt of the earlier boot through.                     *)
THEOREM OnlyPromptsOfThisBoot == Spec => []PromptsAreOfThisBoot
<1>1. IInv => PromptsAreOfThisBoot
  BY DEF IInv, Good, OfThisBoot, PromptsAreOfThisBoot
<1>. QED BY <1>1, Inductive, PTL

(* The state file differs from its worker at most by an accepted prompt.     *)
THEOREM FileLagsNoMore == Spec => []FileLagsOnlyAcceptance
<1>1. IInv => FileLagsOnlyAcceptance
  BY DEF IInv, Good, Lags, FileLagsOnlyAcceptance
<1>. QED BY <1>1, Inductive, PTL

-----------------------------------------------------------------------------
(* What a step leaves of an open trust gate, whatever it makes of the rest.  *)
KeepsGate(x, y) == x.cleared /\ y.status # "spawning" => y.cleared

LEMMA EmitFields ==
  ASSUME NEW x \in Worker
  PROVE  Emit(x) \in Worker /\ Emit(x).cleared = x.cleared /\ Emit(x).status = x.status
BY DEF Emit, Worker

(* observe closes no gate: it reads the screen after the trust prompt.       *)
LEMMA ObserveKeepsGate ==
  ASSUME IInv, NEW w \in Workers, NEW screen \in Screen,
         \/ ObserveToolPrompt(w, screen) \/ ObserveTrustPrompt(w, screen)
         \/ ObserveMisdelivery(w, screen) \/ ObserveProgress(w, screen)
  PROVE  \E y : Set(w, y) /\ KeepsGate(worker[w], y)
<1>1. worker[w] \in Worker
  BY DEF IInv
<1>2. CASE ObserveToolPrompt(w, screen)
  <2>1. PICK x : x = [worker[w] EXCEPT !.status = "tool_permission_required",
                                       !.error = "tool_permission_gate"]
    OBVIOUS
  <2>2. x \in Worker /\ x.cleared = worker[w].cleared
    BY <1>1, <2>1 DEF Worker, Statuses, Failures
  <2>3. Set(w, Emit(x))
    BY <1>2, <2>1 DEF ObserveToolPrompt
  <2>. QED BY <2>2, <2>3, EmitFields DEF KeepsGate
<1>3. CASE ObserveTrustPrompt(w, screen)
  <2>1. ~worker[w].cleared /\ \E y : Set(w, y)
    BY <1>3 DEF ObserveTrustPrompt, AtTrustGate
  <2>. QED BY <2>1 DEF KeepsGate
<1>4. CASE ObserveMisdelivery(w, screen) \/ ObserveProgress(w, screen)
  <2>1. PICK x : x = PastTrustGate(worker[w], screen)
    OBVIOUS
  <2>2. x \in Worker /\ (worker[w].cleared => x.cleared)
    <3>1. CASE AtTrustGate(worker[w], screen)
      <4>1. PICK z : z = [worker[w] EXCEPT !.cleared = TRUE, !.error = "none", !.status = "spawning"]
        OBVIOUS
      <4>2. z \in Worker /\ z.cleared
        BY <1>1, <4>1 DEF Worker, Statuses, Failures
      <4>3. x = Emit(z)
        BY <2>1, <3>1, <4>1 DEF PastTrustGate
      <4>. QED BY <4>2, <4>3, EmitFields
    <3>2. CASE ~AtTrustGate(worker[w], screen)
      BY <1>1, <2>1, <3>2 DEF PastTrustGate
    <3>. QED BY <3>1, <3>2
  <2>3. CASE ObserveMisdelivery(w, screen)
    <3>1. PICK z : z = [x EXCEPT !.error = "prompt_delivery", !.inFlight = FALSE,
                                 !.replay = IF x.recover THEN x.last ELSE @,
                                 !.status = IF x.recover THEN "ready_for_prompt" ELSE "failed"]
      OBVIOUS
    <3>2. z \in Worker /\ z.cleared = x.cleared
      BY <2>2, <3>1 DEF Worker, Statuses, Failures
    <3>3. Set(w, Emit(z))
      BY <2>1, <2>3, <3>1 DEF ObserveMisdelivery
    <3>. QED BY <2>2, <3>2, <3>3, EmitFields DEF KeepsGate
  <2>4. CASE ObserveProgress(w, screen)
    <3>1. PICK z : z = Accepted(x, screen)
      OBVIOUS
    <3>2. z \in Worker /\ z.cleared = x.cleared
      BY <2>2, <3>1 DEF Accepted, Worker, Statuses, Failures
    <3>3. PICK y : y = Ready(z, screen)
      OBVIOUS
    <3>4. y.cleared = z.cleared
      <4>1. CASE screen.ready /\ z.status # "ready_for_prompt"
        <5>1. PICK r : r = [z EXCEPT !.status = "ready_for_prompt", !.inFlight = FALSE,
                                     !.error = IF @ = "trust_gate" THEN "none" ELSE @]
          OBVIOUS
        <5>2. r \in Worker /\ r.cleared = z.cleared
          BY <3>2, <5>1 DEF Worker, Statuses, Failures
        <5>3. y = Emit(r)
          BY <3>3, <4>1, <5>1 DEF Ready
        <5>. QED BY <5>2, <5>3, EmitFields
      <4>2. CASE ~(screen.ready /\ z.status # "ready_for_prompt")
        BY <3>3, <4>2 DEF Ready
      <4>. QED BY <4>1, <4>2
    <3>5. Set(w, y)
      BY <2>1, <2>4, <3>1, <3>3 DEF ObserveProgress
    <3>. QED BY <2>2, <3>2, <3>4, <3>5 DEF KeepsGate
  <2>. QED BY <1>4, <2>3, <2>4
<1>. QED BY <1>2, <1>3, <1>4

LEMMA OthersKeepGate ==
  ASSUME IInv, NEW w \in Workers,
         \/ Create(w) \/ Preflight(w) \/ ResolveTrust(w) \/ ReplayPrompt(w)
         \/ Restart(w) \/ Terminate(w) \/ Complete(w) \/ TimeOut(w)
         \/ \E p \in Prompts : SendPrompt(w, p)
  PROVE  \E y : Set(w, y) /\ KeepsGate(worker[w], y)
<1>1. worker[w] \in Worker
  BY DEF IInv
<1>2. ASSUME NEW x \in Worker, Set(w, Emit(x)), worker[w].cleared /\ x.status # "spawning" => x.cleared
      PROVE  \E y : Set(w, y) /\ KeepsGate(worker[w], y)
  BY <1>2, EmitFields DEF KeepsGate
<1>3. CASE Create(w)
  <2>1. PICK auto \in BOOLEAN, recover \in BOOLEAN :
          Set(w, Emit([Absent EXCEPT !.status = "spawning", !.auto = auto, !.recover = recover]))
    BY <1>3 DEF Create
  <2>2. PICK x : x = [Absent EXCEPT !.status = "spawning", !.auto = auto, !.recover = recover]
    OBVIOUS
  <2>3. x \in Worker /\ x.status = "spawning"
    BY <2>2, AbsentGood DEF Good, Worker, Statuses
  <2>. QED BY <1>2, <2>1, <2>2, <2>3
<1>4. CASE Preflight(w)
  BY <1>1, <1>2, <1>4 DEF Preflight
<1>5. CASE ResolveTrust(w)
  <2>1. PICK x : x = [worker[w] EXCEPT !.cleared = TRUE, !.error = "none", !.status = "spawning"]
    OBVIOUS
  <2>2. x \in Worker /\ x.cleared
    BY <1>1, <2>1 DEF Worker, Statuses, Failures
  <2>. QED BY <1>2, <1>5, <2>1, <2>2 DEF ResolveTrust
<1>6. CASE ReplayPrompt(w) \/ \E p \in Prompts : SendPrompt(w, p)
  <2>1. PICK p \in Prompts : Dispatch(w, p)
    <3>1. ReplayPrompt(w) => worker[w].replay \in Prompts
      BY <1>1 DEF ReplayPrompt, Worker
    <3>. QED BY <1>6, <3>1 DEF ReplayPrompt, SendPrompt
  <2>2. PICK x : x = [worker[w] EXCEPT !.attempts = @ + 1, !.inFlight = TRUE, !.last = p,
                                       !.replay = NoPrompt, !.error = "none", !.status = "running"]
    OBVIOUS
  <2>3. x \in Worker /\ x.cleared = worker[w].cleared
    <3>1. worker[w].attempts + 1 \in 0..MaxAttempts
      BY <1>1, <2>1, WorkerConstants DEF Dispatch, Worker
    <3>. QED BY <1>1, <2>2, <3>1 DEF Worker, Statuses, Failures
  <2>. QED BY <1>2, <2>1, <2>2, <2>3 DEF Dispatch
<1>7. CASE Restart(w)
  <2>1. PICK x : x = [worker[w] EXCEPT !.status = "spawning", !.cleared = FALSE,
                                       !.last = NoPrompt, !.replay = NoPrompt, !.error = "none",
                                       !.attempts = 0, !.inFlight = FALSE]
    OBVIOUS
  <2>2. x \in Worker /\ x.status = "spawning"
    <3>1. 0 \in 0..MaxAttempts
      BY WorkerConstants
    <3>2. NoPrompt \in Prompts \cup {NoPrompt} /\ "spawning" \in Statuses /\ "none" \in Failures
      BY DEF Statuses, Failures
    <3>. QED BY <1>1, <2>1, <3>1, <3>2 DEF Worker
  <2>. QED BY <1>2, <1>7, <2>1, <2>2 DEF Restart
<1>8. CASE Terminate(w) \/ Complete(w) \/ TimeOut(w)
  <2>1. PICK status \in {"finished", "failed"}, error \in Failures :
          Set(w, Emit([worker[w] EXCEPT !.status = status, !.error = error, !.inFlight = FALSE]))
    <3>1. [worker[w] EXCEPT !.status = "finished", !.error = worker[w].error, !.inFlight = FALSE]
            = [worker[w] EXCEPT !.status = "finished", !.inFlight = FALSE]
      BY <1>1 DEF Worker
    <3>2. worker[w].error \in Failures
      BY <1>1 DEF Worker
    <3>3. Terminate(w) => Set(w, Emit([worker[w] EXCEPT !.status = "finished", !.error = worker[w].error,
                                                        !.inFlight = FALSE]))
      BY <3>1 DEF Terminate
    <3>. QED BY <1>8, <3>2, <3>3 DEF Complete, TimeOut, Failures
  <2>2. PICK x : x = [worker[w] EXCEPT !.status = status, !.error = error, !.inFlight = FALSE]
    OBVIOUS
  <2>3. x \in Worker /\ x.cleared = worker[w].cleared
    BY <1>1, <2>2 DEF Worker, Statuses
  <2>. QED BY <1>2, <2>1, <2>2, <2>3
<1>. QED BY <1>3, <1>4, <1>5, <1>6, <1>7, <1>8

(* Once a folder is trusted no screen, late or repeated, asks again before a *)
(* restart: observe looks for a trust prompt only while the gate is closed.  *)
THEOREM TrustIsAskedOnce == Spec => ClearedGateStaysClear
<1> DEFINE Stays == \A w \in Workers :
             worker[w].cleared /\ worker'[w].status # "spawning"
               => worker'[w].cleared /\ worker'[w].status # "trust_required"
<1>1. ASSUME IInv, IInv', [Next]_worker PROVE [Stays]_worker
  <2>1. ASSUME Next, NEW v \in Workers, worker[v].cleared, worker'[v].status # "spawning"
        PROVE  worker'[v].cleared
    <3>1. PICK w \in Workers : \E y : Set(w, y) /\ KeepsGate(worker[w], y)
      BY <1>1, <2>1, ObserveKeepsGate, OthersKeepGate DEF Next
    <3>2. PICK y : Set(w, y) /\ KeepsGate(worker[w], y)
      BY <3>1
    <3>. QED BY <1>1, <2>1, <3>2 DEF Set, KeepsGate, IInv
  <2>2. \A v \in Workers : worker'[v].status = "trust_required" => ~worker'[v].cleared
    BY <1>1 DEF IInv, Good, Agree
  <2>. QED BY <1>1, <2>1, <2>2
<1>. QED BY <1>1, Inductive, PTL DEF Spec, ClearedGateStaysClear

-----------------------------------------------------------------------------
LEMMA SetMaps ==
  ASSUME IInv, NEW w \in Workers, NEW x, Set(w, x)
  PROVE  Delivery!Leave(w, Flying(x), x.replay)
<1>1. \A v \in Workers : worker'[v] = IF v = w THEN x ELSE worker[v]
  BY DEF IInv, Set
<1>2. [v \in Workers |-> IF worker'[v].inFlight THEN worker'[v].last ELSE NoPrompt]
        = [[v \in Workers |-> IF worker[v].inFlight THEN worker[v].last ELSE NoPrompt]
             EXCEPT ![w] = Flying(x)]
  BY <1>1 DEF Flying
<1>3. [v \in Workers |-> worker'[v].replay]
        = [[v \in Workers |-> worker[v].replay] EXCEPT ![w] = x.replay]
  BY <1>1
<1>. QED BY <1>2, <1>3 DEF Delivery!Leave

LEMMA StepRefines == IInv /\ [Next]_worker => [Delivery!Next]_(Delivery!vars)
<1>1. SUFFICES ASSUME IInv, [Next]_worker
               PROVE  Delivery!Next \/ UNCHANGED Delivery!vars
  OBVIOUS
<1>2. CASE UNCHANGED worker
  BY <1>2 DEF Delivery!vars
<1>3. CASE Next
  <2>0. PICK w \in Workers : GoodStep(w)
    BY <1>1, <1>3, NextStep
  <2>1. PICK x : Set(w, x) /\ Good(x) /\ Moves(worker[w], x)
    BY <2>0 DEF GoodStep
  <2> DEFINE fly == [v \in Workers |-> IF worker[v].inFlight THEN worker[v].last ELSE NoPrompt]
             armed == [v \in Workers |-> worker[v].replay]
  <2>2. Delivery!Leave(w, Flying(x), x.replay)
    BY <1>1, <2>1, SetMaps
  <2>3. fly[w] = Flying(worker[w]) /\ armed[w] = worker[w].replay
    BY DEF Flying
  <2>4. CASE Flying(x) = Flying(worker[w]) /\ x.replay = worker[w].replay
    BY <2>2, <2>3, <2>4 DEF Delivery!Leave, Delivery!vars
  <2>5. CASE Flying(worker[w]) = NoPrompt /\ Flying(x) \in Prompts /\ x.replay = NoPrompt
    <3>1. Delivery!Send(w, Flying(x))
      BY <2>2, <2>3, <2>5 DEF Delivery!Send
    <3>. QED BY <2>5, <3>1 DEF Delivery!Next
  <2>6. CASE /\ Flying(worker[w]) # NoPrompt /\ Flying(x) = NoPrompt
             /\ x.replay \in {worker[w].replay, Flying(worker[w])}
    <3>1. CASE x.replay = worker[w].replay
      <4>1. Delivery!Accept(w)
        BY <2>2, <2>3, <2>6, <3>1 DEF Delivery!Accept, Delivery!Leave
      <4>. QED BY <4>1 DEF Delivery!Next
    <3>2. CASE x.replay = Flying(worker[w])
      <4>1. Delivery!Bounce(w)
        BY <2>2, <2>3, <2>6, <3>2 DEF Delivery!Bounce, Delivery!Leave
      <4>. QED BY <4>1 DEF Delivery!Next
    <3>. QED BY <2>6, <3>1, <3>2
  <2>7. CASE Flying(x) = NoPrompt /\ x.replay = NoPrompt
    BY <2>2, <2>7 DEF Delivery!Reset, Delivery!Next
  <2>. QED BY <2>1, <2>4, <2>5, <2>6, <2>7 DEF Moves
<1>. QED BY <1>1, <1>2, <1>3

(* The registry implements PromptDelivery: one prompt in flight at most, and *)
(* only what bounced is armed, whatever is read from the screens and when.   *)
THEOREM RegistryDelivers == Spec => DeliversPrompts
<1>1. Init => Delivery!Init
  BY DEF Init, Delivery!Init, Absent
<1>. QED BY <1>1, StepRefines, Inductive, PTL DEF Spec, DeliversPrompts, Delivery!Spec
=================================================================================
