---------------------------- MODULE DesktopTurns ----------------------------
(***************************************************************************)
(* The turns of the desktop application: submit and stopActive of the      *)
(* webview (desktop-ui/src/App.tsx), send_prompt, begin_turn, end_turn and *)
(* cancel_turn (desktop/src/commands.rs), the agent loop of                *)
(* desktop/src/agent.rs and the workspace root the file tools share        *)
(* (tools/src/lib.rs).  Turns of several chats run side by side, each on   *)
(* its own task, their tools on the blocking pool.                         *)
(*                                                                         *)
(* Text, stages and tool arguments are abstracted to how many there are.   *)
(* A token is a flag: module CancelToken shows that waiting on one ends    *)
(* when, and only when, it is cancelled.                                   *)
(***************************************************************************)
EXTENDS Integers, Sequences

CONSTANTS
  Chats,       \* conversations of the sidebar
  Folders,     \* project folders the user may open
  NoFolder,    \* none is open
  MaxTurns,    \* bound: turns ever submitted
  MaxSteps,    \* MAX_STEPS of agent.rs
  MaxCalls,    \* bound: tool calls in one answer
  MaxStages    \* bound: stages triage asks for; 0 is a run without enhancement

ASSUME DesktopConstants ==
  /\ Chats # {} /\ NoFolder \notin Folders
  /\ MaxTurns \in Nat /\ MaxSteps \in Nat \ {0} /\ MaxCalls \in Nat /\ MaxStages \in Nat

Turns  == 1..MaxTurns
NoTurn == 0

VARIABLES
  projectRoot,    \* App.tsx: the open folder, shared by the chats
  runs,           \* App.tsx: runs, the live turn of each chat and its stopping flag
  submitted,      \* turns submitted so far; the latest is turn number submitted
  flags,          \* commands.rs: cancel_flags, the turn registered for a chat
  turn,           \* the turns: where they are and what they hold
  sent,           \* the terminal events of each turn's channel
  workspaceRoot   \* tools: WORKSPACE_ROOT

vars == <<projectRoot, runs, submitted, flags, turn, sent, workspaceRoot>>

NoRun == [turn |-> NoTurn, stopping |-> FALSE]

Places == {"free", "invoked", "retrieve", "prepare", "stage", "step", "stream", "final",
           "call", "execute", "tool", "ending", "failing", "report", "settle", "over"}

\* task: its call on the blocking pool: none, not yet run, or run.
Turn == [pc : Places, chat : Chats, root : Folders \cup {NoFolder},
         stages : 0..MaxStages, stage : Nat, step : Nat, calls : Nat,
         cancelled : BOOLEAN, task : {"none", "queued", "ran"}]

FreeTurn == [pc |-> "free", chat |-> CHOOSE c \in Chats : TRUE, root |-> NoFolder,
             stages |-> 0, stage |-> 0, step |-> 0, calls |-> 0,
             cancelled |-> FALSE, task |-> "none"]

Init ==
  /\ projectRoot \in Folders \cup {NoFolder}    \* remembered in localStorage
  /\ runs = [c \in Chats |-> NoRun]
  /\ submitted = 0
  /\ flags = [c \in Chats |-> NoTurn]
  /\ turn = [t \in Turns |-> FreeTurn]
  /\ sent = [t \in Turns |-> <<>>]
  /\ workspaceRoot = NoFolder

-----------------------------------------------------------------------------
(* The webview *)

OpenFolder ==
  /\ projectRoot' \in Folders \cup {NoFolder}
  /\ UNCHANGED <<runs, submitted, flags, turn, sent, workspaceRoot>>

Submit(c) ==
  LET t == submitted + 1 IN
  /\ runs[c] = NoRun
  /\ submitted < MaxTurns
  /\ submitted' = t
  /\ runs' = [runs EXCEPT ![c] = [turn |-> t, stopping |-> FALSE]]
  /\ turn' = [turn EXCEPT ![t] = [FreeTurn EXCEPT !.pc = "invoked", !.chat = c,
                                                  !.root = projectRoot]]
  /\ UNCHANGED <<projectRoot, flags, sent, workspaceRoot>>

\* The token registered for a chat, if there is one, is cancelled.
TurnsWithCancelled(c) ==
  IF flags[c] = NoTurn THEN turn ELSE [turn EXCEPT ![flags[c]].cancelled = TRUE]

\* cancel_turn ignores the conversation and stops whoever is registered.
Stop_FaultyUnkeyed(c) ==
  /\ runs[c].turn # NoTurn /\ ~runs[c].stopping
  /\ runs' = [runs EXCEPT ![c].stopping = TRUE]
  /\ turn' = [t \in Turns |-> IF \E d \in Chats : flags[d] = t
                                THEN [turn[t] EXCEPT !.cancelled = TRUE] ELSE turn[t]]
  /\ UNCHANGED <<projectRoot, submitted, flags, sent, workspaceRoot>>

\* stopActive and the cancel_turn it invokes.
Stop(c) ==
  /\ runs[c].turn # NoTurn /\ ~runs[c].stopping
  /\ runs' = [runs EXCEPT ![c].stopping = TRUE]
  /\ turn' = TurnsWithCancelled(c)
  /\ UNCHANGED <<projectRoot, submitted, flags, sent, workspaceRoot>>

\* The page is loaded again: the chats are restored, the live runs are not,
\* and the turns go on without it.
Reload ==
  /\ runs # [c \in Chats |-> NoRun]
  /\ runs' = [c \in Chats |-> NoRun]
  /\ UNCHANGED <<projectRoot, submitted, flags, turn, sent, workspaceRoot>>

-----------------------------------------------------------------------------
(* send_prompt, around the turn *)

GoTo(t, place) == turn' = [turn EXCEPT ![t].pc = place]

Quiet == UNCHANGED <<projectRoot, runs, submitted, flags, sent, workspaceRoot>>

\* Workspace::open fails and send_prompt returns before begin_turn.
OpenFails(t) ==
  /\ turn[t].pc = "invoked" /\ turn[t].root # NoFolder
  /\ GoTo(t, "settle")
  /\ Quiet

BeginTurn(t) ==
  LET c == turn[t].chat IN
  /\ turn[t].pc = "invoked"
  /\ flags' = [flags EXCEPT ![c] = t]
  /\ \E place \in {"retrieve", "prepare"} :     \* with attached documents, or without
       turn' = [TurnsWithCancelled(c) EXCEPT ![t].pc = place]
  /\ UNCHANGED <<projectRoot, runs, submitted, sent, workspaceRoot>>

\* The entry is removed whoever registered it.
EndTurn_FaultyAnyToken(t) ==
  /\ turn[t].pc \in {"ending", "failing"}
  /\ flags' = [flags EXCEPT ![turn[t].chat] = NoTurn]
  /\ GoTo(t, IF turn[t].pc = "failing" THEN "report" ELSE "settle")
  /\ UNCHANGED <<projectRoot, runs, submitted, sent, workspaceRoot>>

\* A turn that failed leaves its entry behind.
EndTurn_FaultyOnlyOk(t) ==
  /\ turn[t].pc \in {"ending", "failing"}
  /\ flags' = IF turn[t].pc = "ending" /\ flags[turn[t].chat] = t
                THEN [flags EXCEPT ![turn[t].chat] = NoTurn] ELSE flags
  /\ GoTo(t, IF turn[t].pc = "failing" THEN "report" ELSE "settle")
  /\ UNCHANGED <<projectRoot, runs, submitted, sent, workspaceRoot>>

EndTurn(t) ==
  LET c == turn[t].chat IN
  /\ turn[t].pc \in {"ending", "failing"}
  /\ flags' = IF flags[c] = t THEN [flags EXCEPT ![c] = NoTurn] ELSE flags
  /\ GoTo(t, IF turn[t].pc = "failing" THEN "report" ELSE "settle")
  /\ UNCHANGED <<projectRoot, runs, submitted, sent, workspaceRoot>>

ReportFailure(t) ==
  /\ turn[t].pc = "report"
  /\ sent' = [sent EXCEPT ![t] = Append(@, "failed")]
  /\ GoTo(t, "settle")
  /\ UNCHANGED <<projectRoot, runs, submitted, flags, workspaceRoot>>

\* The promise submit awaits settles.
Settle(t) ==
  LET c == turn[t].chat IN
  /\ turn[t].pc = "settle"
  /\ GoTo(t, "over")
  /\ runs' = IF runs[c].turn = t THEN [runs EXCEPT ![c] = NoRun] ELSE runs
  /\ UNCHANGED <<projectRoot, submitted, flags, sent, workspaceRoot>>

-----------------------------------------------------------------------------
(* run_turn and agent::run *)

\* run_turn sends its last event and returns Ok.
End(t, event) ==
  /\ GoTo(t, "ending")
  /\ sent' = [sent EXCEPT ![t] = Append(@, event)]
  /\ UNCHANGED <<projectRoot, runs, submitted, flags, workspaceRoot>>

Fail(t) == GoTo(t, "failing") /\ Quiet

\* agent::run returned an answer: on to the next stage, or done.
RunEnds(t) ==
  IF turn[t].stage + 1 < turn[t].stages
    THEN /\ turn' = [turn EXCEPT ![t].pc = "stage", ![t].stage = @ + 1]
         /\ Quiet
    ELSE End(t, "done")

\* retrieve_attachment_context, when the token does not come first.
Retrieve(t) ==
  /\ turn[t].pc = "retrieve"
  /\ (GoTo(t, "prepare") /\ Quiet) \/ Fail(t)

\* triage counts the stages, and the client for the model is made.
Prepare(t) ==
  /\ turn[t].pc = "prepare"
  /\ \/ Fail(t)
     \/ /\ \E n \in 0..MaxStages :
             turn' = [turn EXCEPT ![t].stages = n, ![t].pc = IF n = 0 THEN "step" ELSE "stage"]
        /\ Quiet

\* The polls of is_cancelled between stages, steps and calls.
Check(t) ==
  /\ turn[t].pc \in {"stage", "step", "call"}
  /\ IF turn[t].cancelled THEN End(t, "cancelled")
     ELSE /\ turn' = [turn EXCEPT ![t].pc = CASE turn[t].pc = "stage" -> "step"
                                              [] turn[t].pc = "step"  -> "stream"
                                              [] turn[t].pc = "call"  -> "execute",
                                  ![t].step = IF turn[t].pc = "stage" THEN 0 ELSE @]
          /\ Quiet

\* A tool that is running is awaited without the token.
Cancelled_FaultyNotInTool(t) ==
  /\ turn[t].pc \in {"retrieve", "stream", "final", "execute"}
  /\ turn[t].cancelled
  /\ End(t, "cancelled")

\* The token's branch of a select!.
Cancelled(t) ==
  /\ turn[t].pc \in {"retrieve", "stream", "final", "execute", "tool"}
  /\ turn[t].cancelled
  /\ End(t, "cancelled")

\* A stream ends.  Its select! is biased: the token is looked at first.
Reply(t) ==
  /\ turn[t].pc \in {"stream", "final"} /\ ~turn[t].cancelled
  /\ \/ RunEnds(t)
     \/ /\ turn[t].pc = "stream"
        /\ \E k \in 1..MaxCalls :
             turn' = [turn EXCEPT ![t].pc = "call", ![t].calls = k]
        /\ Quiet

StreamFails(t) ==
  /\ turn[t].pc \in {"stream", "final"} /\ ~turn[t].cancelled
  /\ Fail(t)

\* The step counter never reaches its limit.
AfterCall_FaultyNoLimit(t) ==
  IF turn[t].calls > 1
    THEN [turn EXCEPT ![t].pc = "call", ![t].calls = @ - 1, ![t].task = "none"]
    ELSE [turn EXCEPT ![t].pc = "step", ![t].calls = 0, ![t].task = "none"]

\* The result is pushed; the next call, the next step, or the last request.
AfterCall(t) ==
  IF turn[t].calls > 1
    THEN [turn EXCEPT ![t].pc = "call", ![t].calls = @ - 1, ![t].task = "none"]
  ELSE IF turn[t].step + 1 = MaxSteps
    THEN [turn EXCEPT ![t].pc = "final", ![t].calls = 0, ![t].task = "none"]
    ELSE [turn EXCEPT ![t].pc = "step", ![t].step = @ + 1, ![t].calls = 0, ![t].task = "none"]

\* execute: the path is refused, or the root is stated and the tool spawned.
Execute(t) ==
  /\ turn[t].pc = "execute"
  /\ \/ /\ turn[t].root # NoFolder
        /\ turn' = AfterCall(t)
        /\ UNCHANGED workspaceRoot
     \/ /\ turn' = [turn EXCEPT ![t].pc = "tool", ![t].task = "queued"]
        /\ workspaceRoot' = turn[t].root
  /\ UNCHANGED <<projectRoot, runs, submitted, flags, sent>>

\* A thread of the blocking pool runs the tool, awaited or abandoned.
RunTask(t) ==
  /\ turn[t].task = "queued"
  /\ turn' = [turn EXCEPT ![t].task = "ran"]
  /\ Quiet

ToolDone(t) ==
  /\ turn[t].pc = "tool" /\ turn[t].task = "ran"
  /\ turn' = AfterCall(t)
  /\ Quiet

-----------------------------------------------------------------------------
\* The steps of a turn that wait for nothing outside the application.
Advance(t) ==
  \/ OpenFails(t) \/ BeginTurn(t) \/ EndTurn(t) \/ ReportFailure(t) \/ Settle(t)
  \/ Prepare(t) \/ Check(t) \/ Cancelled(t) \/ Execute(t) \/ ToolDone(t)

\* The steps that wait for the model, the index or a tool.
Outside(t) == Retrieve(t) \/ Reply(t) \/ StreamFails(t) \/ RunTask(t)

Next ==
  \/ OpenFolder \/ Reload
  \/ \E c \in Chats : Submit(c) \/ Stop(c)
  \/ \E t \in Turns : Advance(t) \/ Outside(t)

Spec == Init /\ [][Next]_vars

\* The runtime polls every task that can move.
FairSpec == Spec /\ \A t \in Turns : WF_vars(Advance(t))

-----------------------------------------------------------------------------
(* Properties *)

TypeOK ==
  /\ projectRoot \in Folders \cup {NoFolder} /\ workspaceRoot \in Folders \cup {NoFolder}
  /\ runs \in [Chats -> [turn : Turns \cup {NoTurn}, stopping : BOOLEAN]]
  /\ submitted \in 0..MaxTurns
  /\ flags \in [Chats -> Turns \cup {NoTurn}]
  /\ turn \in [Turns -> Turn]
  /\ \A t \in Turns :
       /\ turn[t].step < MaxSteps /\ turn[t].calls <= MaxCalls
       /\ turn[t].stage <= turn[t].stages /\ Len(sent[t]) <= 1
       /\ turn[t].pc = "tool" => turn[t].task # "none"

Begun(t) == turn[t].pc \notin {"free", "invoked", "report", "settle", "over"}

(* From begin_turn on a turn is the one a stop in its chat reaches, or it    *)
(* has been superseded there and cancelled: however turns of one chat        *)
(* overlap after a reload, none that has begun runs on with nobody able to   *)
(* stop it, and an older turn that ends never takes the registration of the  *)
(* newer one with it.                                                        *)
RunningTurnsAreStoppable ==
  \A t \in Turns : Begun(t) => flags[turn[t].chat] = t \/ turn[t].cancelled

(* The table does not grow with dead entries: what it holds is a turn of     *)
(* that chat that has not ended.                                             *)
NoDeadEntries ==
  \A c \in Chats : flags[c] # NoTurn => turn[flags[c]].chat = c /\ Begun(flags[c])

(* Conversations run independently: a turn is only ever cancelled by a stop  *)
(* in its own chat or by a newer turn of that chat.                          *)
ConversationsAreIndependent ==
  [][\A t \in Turns :
       (turn[t].chat = turn'[t].chat /\ ~turn[t].cancelled /\ turn'[t].cancelled)
         => LET c == turn[t].chat
            IN  (runs'[c].stopping /\ ~runs[c].stopping) \/ flags'[c] \notin {t, NoTurn}]_vars

PhaseOf(t) ==
  IF turn[t].pc = "free" THEN "new"
  ELSE IF turn[t].pc = "over" THEN "answered"
  ELSE IF turn[t].pc = "settle" \/ sent[t] # <<>> THEN "finished" ELSE "running"

OutcomeOf(t) ==
  IF sent[t] # <<>> THEN sent[t][Len(sent[t])]
  ELSE IF turn[t].pc \in {"settle", "over"} THEN "refused" ELSE "none"

Contract == INSTANCE TurnContract
              WITH phase   <- [t \in Turns |-> PhaseOf(t)],
                   outcome <- [t \in Turns |-> OutcomeOf(t)],
                   asked   <- [t \in Turns |-> turn[t].cancelled]

(* Every turn is reported over exactly once and answered after that; it is   *)
(* reported cancelled only if its token was; and a turn whose token was      *)
(* cancelled ends although the model, the index and the tools never answer.  *)
KeepsContract == Contract!LiveSpec

(* If the model, the index and the tools answer, a turn ends by itself       *)
(* however many tools the model asks for (MAX_STEPS of agent.rs).            *)
TurnsEnd ==
  (\A t \in Turns : WF_vars(Outside(t)))
    => \A t \in Turns : (turn[t].pc = "invoked") ~> (turn[t].pc = "over")

(* "Stating the folder here is what lets a write inside the project actually *)
(* land" (agent.rs, execute): a tool of a turn that has a project runs with  *)
(* that project as its workspace.                                            *)
ToolsSeeTheirProject ==
  [][\A t \in Turns :
       (turn[t].task = "queued" /\ turn'[t].task = "ran" /\ turn[t].root # NoFolder)
         => workspaceRoot = turn[t].root]_vars
=============================================================================
