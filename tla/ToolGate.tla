------------------------------- MODULE ToolGate -------------------------------
(***************************************************************************)
(* What stands between a tool use the model asks for and its result: the   *)
(* hooks before it (runtime/src/hooks.rs), the permission policy           *)
(* (runtime/src/permissions.rs), the executor, and the hooks after it, in  *)
(* the order of ConversationRuntime::run_turn.  Conversation has this as   *)
(* one step that runs or refuses the tool.                                 *)
(*                                                                         *)
(* A hook is a process: the gate writes the payload into its stdin, then   *)
(* polls for its exit and for the abort of the turn (Ctrl-C), and reads    *)
(* the output when it has exited.  A pipe holds one unit of payload.       *)
(***************************************************************************)
EXTENDS Naturals

CONSTANTS
  MaxHooks,    \* bound: hooks of an event that match the tool
  MaxPayload   \* bound: units of payload

ASSUME GateConstants == MaxHooks \in Nat /\ MaxPayload \in Nat \ {0}

VARIABLES
  gate,     \* where the call is: the stage, the event, hooks left, payload left to write
  result,   \* the HookRunResult of the event
  input,    \* the effective input: as given, or as the hooks updated it
  hook,     \* the process of the running hook
  aborted,  \* the abort signal of the turn
  basis,    \* what the call was authorised on
  tool,     \* what the tool did, and on which input
  isError   \* the flag of the result message

gateVars == <<gate, result, input, hook, aborted, basis, tool, isError>>

Stages == {"idle", "next", "write", "poll", "authorise", "prompt", "execute", "done"}

Events == {"pre", "post", "failure"}

Overrides == {"none", "allow", "deny", "ask"}

Inputs == {"given", "updated"}

\* What a hook that ended said: its exit status and the parts of its JSON that count.
Verdict == [exit : {"allow", "deny", "failed"}, override : Overrides, updates : BOOLEAN]

NoVerdict == [exit |-> "allow", override |-> "none", updates |-> FALSE]

\* stuck: it writes more output than a pipe holds, and nobody reads before it has exited.
Hook == [alive : BOOLEAN, closed : BOOLEAN, stuck : BOOLEAN, pipe : 0..1, verdict : Verdict]

NoHook == [alive |-> FALSE, closed |-> TRUE, stuck |-> FALSE, pipe |-> 0, verdict |-> NoVerdict]

\* HookRunResult
Outcome == [denied : BOOLEAN, failed : BOOLEAN, cancelled : BOOLEAN, override : Overrides]

Passed == [denied |-> FALSE, failed |-> FALSE, cancelled |-> FALSE, override |-> "none"]

Stops(r) == r.denied \/ r.failed \/ r.cancelled

\* Which rules match the tool and the input, and how the mode of the session compares
\* with the one the tool requires: it is enough, or it is workspace-write and the tool
\* requires danger-full-access, or it is short of it in another way.
Rules == [deny : BOOLEAN, ask : BOOLEAN, allow : BOOLEAN, mode : {"enough", "raisable", "short"}]

NoRules == [deny |-> FALSE, ask |-> FALSE, allow |-> FALSE, mode |-> "short"]

NoBasis == [rules |-> NoRules, hooks |-> Passed, input |-> "given", said |-> "nobody"]

Idle == [at |-> "idle", event |-> "pre", left |-> 0, payload |-> 0]

GateInit ==
  /\ gate = Idle /\ result = Passed /\ input = "given" /\ hook = NoHook
  /\ aborted = FALSE /\ basis = NoBasis /\ tool = [did |-> "nothing", on |-> "given"]
  /\ isError = FALSE

-----------------------------------------------------------------------------
(* The hooks of an event *)

\* run_commands.  An aborted turn cancels an event that has any hooks, also one none of
\* which matches the tool; an event without hooks passes.  A process that an earlier
\* event left behind is not looked at any more.
Begins(event) ==
  /\ hook' = NoHook
  /\ \E n \in 0..MaxHooks, others \in BOOLEAN :
       IF (n > 0 \/ others) /\ aborted
         THEN /\ gate' = [Idle EXCEPT !.at = "next", !.event = event]
              /\ result' = [Passed EXCEPT !.cancelled = TRUE]
         ELSE /\ gate' = [Idle EXCEPT !.at = "next", !.event = event, !.left = n]
              /\ result' = Passed

\* A tool use of the assistant message.
ToolUse ==
  /\ gate.at = "idle"
  /\ Begins("pre")
  /\ UNCHANGED <<input, aborted, basis, tool, isError>>

Ended(r) == result' = r /\ gate' = [gate EXCEPT !.at = "next", !.left = 0, !.payload = 0]

\* The process starts, or cannot.  One that a write error left behind is not waited for.
Spawn ==
  /\ gate.at = "next" /\ gate.left > 0
  /\ \E size \in 1..MaxPayload :
       gate' = [gate EXCEPT !.at = "write", !.left = @ - 1, !.payload = size]
  /\ hook' = [NoHook EXCEPT !.alive = TRUE, !.closed = FALSE]
  /\ UNCHANGED <<result, input, aborted, basis, tool, isError>>

SpawnFails ==
  /\ gate.at = "next" /\ gate.left > 0
  /\ Ended([result EXCEPT !.failed = TRUE])
  /\ hook' = NoHook
  /\ UNCHANGED <<input, aborted, basis, tool, isError>>

\* write_all blocks while the pipe is full, and does not look at the abort signal.
WritePayload ==
  /\ gate.at = "write" /\ gate.payload > 0 /\ ~hook.closed /\ hook.pipe = 0
  /\ hook' = [hook EXCEPT !.pipe = 1]
  /\ gate' = [gate EXCEPT !.payload = @ - 1]
  /\ UNCHANGED <<result, input, aborted, basis, tool, isError>>

PayloadWritten ==
  /\ gate.at = "write" /\ gate.payload = 0
  /\ gate' = [gate EXCEPT !.at = "poll"]
  /\ UNCHANGED <<result, input, hook, aborted, basis, tool, isError>>

\* A write error passes for a hook that said nothing.
AfterWriteError_FaultyIgnored == [result EXCEPT !.override = "none"]

\* The hook closed its stdin or exited: it counts as failed to start.
AfterWriteError == [result EXCEPT !.failed = TRUE]

WriteFails ==
  /\ gate.at = "write" /\ gate.payload > 0 /\ hook.closed
  /\ Ended(AfterWriteError)
  /\ UNCHANGED <<input, hook, aborted, basis, tool, isError>>

\* The signal is looked at when the hook has exited.
SeesAbort_FaultyAfterExit == aborted /\ ~hook.alive

\* The signal is looked at before each poll of the process.
SeesAbort == aborted

\* A hook that is still running, or has just exited, is killed and says nothing.
Cancelled ==
  /\ gate.at = "poll" /\ SeesAbort
  /\ hook' = NoHook
  /\ Ended([result EXCEPT !.cancelled = TRUE])
  /\ UNCHANGED <<input, aborted, basis, tool, isError>>

\* merge_parsed_hook_output: what a later hook says replaces what an earlier one said.
Merged(r, v) == [r EXCEPT !.override = IF v.override = "none" THEN @ ELSE v.override]

\* A hook that denies or fails ends the event; one that allows lets the next one run.
Exited ==
  /\ gate.at = "poll" /\ ~SeesAbort /\ ~hook.alive
  /\ LET v == hook.verdict
         r == Merged(result, v)
     IN  /\ result' = [r EXCEPT !.denied = v.exit = "deny", !.failed = v.exit = "failed"]
         /\ gate' = [gate EXCEPT !.at = "next", !.left = IF v.exit = "allow" THEN @ ELSE 0]
         /\ input' = IF v.updates /\ gate.event = "pre" THEN "updated" ELSE input
  /\ hook' = NoHook
  /\ UNCHANGED <<aborted, basis, tool, isError>>

-----------------------------------------------------------------------------
(* The permission policy *)

\* The mode of the session, an allow rule, or else the user where a mode can be raised.
ByMode(r) ==
  IF r.allow \/ r.mode = "enough" THEN "allow"
  ELSE IF r.mode = "raisable" THEN "ask"
  ELSE "deny"

\* A hook's allow comes before the ask rules.
Authorize_FaultyAllowFirst(r, override) ==
  IF r.deny \/ override = "deny" THEN "deny"
  ELSE IF override = "allow" THEN "allow"
  ELSE IF override = "ask" \/ r.ask THEN "ask"
  ELSE ByMode(r)

\* authorize_with_context, for one input.
Authorize(r, override) ==
  IF r.deny \/ override = "deny" THEN "deny"
  ELSE IF override = "ask" THEN "ask"
  ELSE IF override = "allow" /\ r.ask THEN "ask"
  ELSE IF override = "allow" /\ (r.allow \/ r.mode = "enough") THEN "allow"
  ELSE IF r.ask THEN "ask"
  ELSE ByMode(r)

\* The rules are matched against the effective input.
Judged == input

Go(at) == gate' = [Idle EXCEPT !.at = at]

Refuse == Go("done") /\ isError' = TRUE

HooksAreDone == gate.at = "next" /\ gate.event = "pre" /\ gate.left = 0

\* Hooks that cancelled, failed or denied refuse the tool.
RefusedByHooks ==
  /\ HooksAreDone /\ Stops(result)
  /\ Refuse
  /\ UNCHANGED <<result, input, hook, aborted, basis, tool>>

\* Else the policy decides.  Which rules match is free, and is recorded for the input
\* they were put to.  Without a prompter nobody can be asked.
Decide ==
  /\ HooksAreDone /\ ~Stops(result)
  /\ \E rules \in Rules, prompter \in BOOLEAN :
       LET verdict == Authorize(rules, result.override)
           record  == basis' = [rules |-> rules, hooks |-> result, input |-> Judged,
                                said |-> "nobody"]
       IN  \/ verdict = "allow" /\ Go("execute") /\ record /\ UNCHANGED isError
           \/ verdict = "ask" /\ prompter /\ Go("prompt") /\ record /\ UNCHANGED isError
           \/ verdict = "ask" /\ ~prompter /\ Refuse /\ UNCHANGED basis
           \/ verdict = "deny" /\ Refuse /\ UNCHANGED basis
  /\ UNCHANGED <<result, input, hook, aborted, tool>>

\* The prompt at the terminal; a read error and the end of the input are a no.
Answers(yes) ==
  /\ gate.at = "prompt"
  /\ IF yes THEN Go("execute") /\ basis' = [basis EXCEPT !.said = "yes"] /\ UNCHANGED isError
            ELSE Refuse /\ basis' = NoBasis
  /\ UNCHANGED <<result, input, hook, aborted, tool>>

-----------------------------------------------------------------------------
(* The executor and the hooks after it *)

\* ToolExecutor::execute: the tool is not enabled or its input is no JSON, or it runs
\* and succeeds or fails.
Execute ==
  /\ gate.at = "execute"
  /\ \E did \in {"rejected", "succeeded", "failed"} :
       /\ tool' = [did |-> did, on |-> input]
       /\ isError' = (did # "succeeded")
       /\ Begins(IF did = "succeeded" THEN "post" ELSE "failure")
  /\ UNCHANGED <<input, aborted, basis>>

\* Only a hook that denies makes the result an error.
Objected_FaultyDeniedOnly == result.denied

\* A hook that denies, fails or is cancelled makes it one.
Objected == Stops(result)

Conclude ==
  /\ gate.at = "next" /\ gate.event # "pre" /\ gate.left = 0
  /\ Go("done")
  /\ isError' = (isError \/ Objected)
  /\ UNCHANGED <<result, input, hook, aborted, basis, tool>>

\* The result is pushed.  The next call is of this turn, or of one with a new signal.
NextCall(newTurn) ==
  /\ gate.at = "done"
  /\ gate' = Idle /\ result' = Passed /\ input' = "given" /\ basis' = NoBasis
  /\ tool' = [did |-> "nothing", on |-> "given"] /\ isError' = FALSE
  /\ aborted' = (aborted /\ ~newTurn)
  /\ UNCHANGED hook

-----------------------------------------------------------------------------
(* The user, and the hook's process *)

\* HookAbortMonitor, on its own thread.
Abort ==
  /\ ~aborted /\ gate.at # "idle"
  /\ aborted' = TRUE
  /\ UNCHANGED <<gate, result, input, hook, basis, tool, isError>>

HookStep(h) == hook' = h /\ UNCHANGED <<gate, result, input, aborted, basis, tool, isError>>

HookReads == hook.alive /\ ~hook.stuck /\ hook.pipe > 0 /\ HookStep([hook EXCEPT !.pipe = 0])

HookClosesStdin == hook.alive /\ ~hook.stuck /\ ~hook.closed /\ HookStep([hook EXCEPT !.closed = TRUE])

HookFloods == hook.alive /\ ~hook.stuck /\ HookStep([hook EXCEPT !.stuck = TRUE])

HookExits ==
  /\ hook.alive /\ ~hook.stuck
  /\ \E v \in Verdict : HookStep([NoHook EXCEPT !.verdict = v])

-----------------------------------------------------------------------------
\* What the thread of the turn does without waiting for anybody.
GateStep ==
  \/ Spawn \/ SpawnFails \/ WritePayload \/ PayloadWritten \/ WriteFails \/ Cancelled \/ Exited
  \/ RefusedByHooks \/ Decide \/ Execute \/ Conclude

GateNext ==
  \/ ToolUse \/ GateStep \/ Abort
  \/ \E yes \in BOOLEAN : Answers(yes)
  \/ \E newTurn \in BOOLEAN : NextCall(newTurn)
  \/ HookReads \/ HookClosesStdin \/ HookFloods \/ HookExits

\* The thread runs, tools return and the user answers prompts; nothing is assumed of hooks.
GateSpec ==
  /\ GateInit /\ [][GateNext]_gateVars
  /\ WF_gateVars(GateStep) /\ WF_gateVars(\E yes \in BOOLEAN : Answers(yes))

-----------------------------------------------------------------------------
(* Properties *)

GateTypeOK ==
  /\ gate \in [at : Stages, event : Events, left : 0..MaxHooks, payload : 0..MaxPayload]
  /\ result \in Outcome /\ input \in Inputs /\ hook \in Hook /\ aborted \in BOOLEAN
  /\ basis \in [rules : Rules, hooks : Outcome, input : Inputs, said : {"nobody", "yes"}]
  /\ tool \in [did : {"nothing", "rejected", "succeeded", "failed"}, on : Inputs]
  /\ isError \in BOOLEAN

\* A tool runs only on the input it was authorised for, after hooks that let it pass, and
\* with the user's yes wherever an ask rule, a hook or the mode calls for it: an allow of
\* a hook stands in for none of these (authorize_with_context).
RunsAsAuthorised ==
  tool.did # "nothing" =>
    /\ basis.input = tool.on /\ ~Stops(basis.hooks) /\ ~basis.rules.deny
    /\ basis.hooks.override # "deny"
    /\ \/ basis.said = "yes"
       \/ /\ ~basis.rules.ask /\ basis.hooks.override # "ask"
          /\ basis.rules.allow \/ basis.rules.mode = "enough"

\* No tool runs beside a hook that was to judge it: every process started for the event
\* has exited or was killed when the tool is asked about or started (output_with_stdin).
ToolAwaitsHooks == gate.at \in {"prompt", "execute"} => ~hook.alive

\* A result that is no error is of a tool that succeeded and of hooks that all let it
\* pass; an error never passes for a success because of what the hooks said.
ErrorsAreTold ==
  gate.at = "done" /\ ~isError => tool.did = "succeeded" /\ ~Stops(basis.hooks) /\ ~Stops(result)

\* An abort ends the call whatever the hooks do, as long as what is written to them fits
\* a pipe: a hook that hangs or floods its output is killed.
Fits == gate.payload + hook.pipe <= 1

AbortEndsCall == (aborted /\ Fits) ~> (gate.at \in {"idle", "done"} \/ ~Fits)
===============================================================================
