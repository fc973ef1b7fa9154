# disco-code: formal models

TLA+ models of disco-code, checked with TLC and, for the most important
invariants, proved with TLAPS. Paths below are relative to `src/`; `runtime`,
`desktop`, `tools` and `rusty-claude-cli` are crates under `crates/`.

- [The system](#the-system): components, state, interactions, what is hard
- [Modules](#modules): what each models and how it corresponds to the code
- [Runs](#runs): what each checks, bounds, fairness
- [Disagreements](#disagreements): where the code does not do what it says
- [Proofs](#proofs)
- [What is not modelled](#what-is-not-modelled)
- [Plan](#plan)

## The system

disco-code is a coding assistant: a command-line program (`claw`, crate
`rusty-claude-cli`) and a desktop application (crate `desktop`, webview in
`desktop-ui/`) over a shared core (`runtime`, `tools`, `api`, `plugins`,
`commands`, `telemetry`, `claw-rag-service`).

| Component | State | Operations | Hard behaviour | What makes it correct |
|---|---|---|---|---|
| Conversation turn, `runtime/conversation.rs` | session, token count, iteration, pending tool uses | `run_turn`, `maybe_auto_compact`, health probe | a failed write, an error or a kill in the middle of a batch of tools; compaction between a tool use and its result; an overflow in the middle of a turn | tool uses and results stay paired; what ran is on record; the loop ends |
| Session file, `runtime/session.rs` | messages in memory, JSONL file, rotated files | push, append, bootstrap, save, rotate, clean up, load | append and atomic rewrite mixed, partial lines, kill between rename and write | the file covers the memory; nothing is dropped without a cause |
| Compaction, `runtime/compact.rs` | none, rewrites a session | `should_compact`, `compact_session` | boundary inside a batch, summary of a summary | pairs are not split |
| Trident, `runtime/trident.rs`, and the overflow retry, `main.rs` `LiveCli::run_turn` | the session of the CLI, the session of the attempt, the round | supersede, collapse, cluster, compact, retry | three rewritings in a row, repeated on their own output | what goes has a cause and is counted; the last round is minimal |
| Desktop turns, `desktop/commands.rs`, `desktop/agent.rs`, `desktop-ui/src/App.tsx` | live run of each chat, table of cancel tokens, the turns, the process-wide workspace root | submit, stop, reload, begin, end, the agent loop, tools on the blocking pool | turns of several chats side by side, and of one chat after a reload; a silent model | a running turn can be stopped, chats do not touch each other |
| Cancel token, `desktop/agent.rs` | a flag, a `Notify` | `cancel`, `cancelled` | the check and the wait are two steps | no lost wake-up |
| Tool gate, `runtime/hooks.rs`, `runtime/permissions.rs` | mode, rules, the running hook's process, abort signal | `run_commands`, `authorize_with_context`, prompt, `execute` | a hook that hangs, floods or closes its pipes; an input updated before it is judged; abort while a hook runs | what runs was authorised on that input; an abort ends the call |
| Worker boot, trust | workers, trust gate, prompt in flight | create, observe, resolve trust, send prompt, restart, time out, complete | screen observations arrive in any order and late | a prompt is delivered once, to a ready worker |
| MCP servers, `runtime/mcp_stdio.rs` | a child process per server, tool index | spawn, initialize, discover, call, retry, reset, shut down | time-outs, late answers, a dead server, partial discovery | no process is forgotten or used before its handshake; a call runs at most once; every operation ends |
| Task, team and cron registries | tables behind a mutex each | create, assign, update, stop, delete | several tools at once, check then act | status moves forward only |
| Lanes, policy, branch checks | event lists | classify, reconcile | duplicates and disorder | one terminal event |
| Document index, `claw-rag-service` | SQLite tables of files, chunks and vectors, a vector index | ingest, query | ingestion cut anywhere, two at once, files that change meanwhile | a row stands for all chunks of its version; the index catches up |
| Plugins, `plugins` | installed directories, registry, settings | install, update, uninstall, enable, disable, sync, discover | three things on disk and no transaction; a command cut at any step | a sync sees damage; what a command said stays so |
| Reply streams, `api/providers/openai_compat.rs` and its readers | `StreamState`, pending tool, calls by index | ingest a chunk, finish, read an event, stall and ask again | names after arguments, several open calls, a cut or stalled stream | the events are a proper stream of blocks; no call is lost or mixed |
| Request building, configuration, sandbox, rendering | mostly none | parse, translate | | |

How they interact: the REPL calls `LiveCli::run_turn`, which builds a
`ConversationRuntime` on a clone of the session, runs the turn, adopts the
runtime if it succeeded and saves. The runtime calls the provider, the hooks,
the permission policy and the tool executor, all synchronously, and appends each
message to the session file as it goes. In the desktop application the webview
invokes `send_prompt` and `cancel_turn` as messages; each turn is a tokio task,
its tools run on blocking threads and share the process-wide workspace root of
`tools`; the cancel tokens of the running turns are in one table.

Everything in this code that is hard to test is listed at its line under
`hazards` in `PROJECT.json`, with the properties that cover it.

## Modules

| Module | Models | Extended by |
|---|---|---|
| `Conversation` | turn, session, file, compaction, overflow recovery, save, kill and resume | `MCConversation`, `ConversationProofs` |
| `OverflowRetry` | what Trident makes of the messages, and the rounds of the retry | `MCOverflowRetry`, `OverflowRetryProofs` |
| `Cancellation` | what a cancel token promises (abstract) | instance in `CancelToken` |
| `CancelToken` | the flag and the `Notify` | `MCCancelToken`, `DesktopTurnsProofs` |
| `TurnContract` | what a desktop turn promises (abstract) | instance in `DesktopTurns` |
| `DesktopTurns` | webview, commands, agent loop, workspace root | `MCDesktopTurns`, `DesktopTurnsProofs` |
| `PromptDelivery` | what the worker registry promises about prompts (abstract) | instance in `WorkerBoot` |
| `WorkerBoot` | the worker registry and its state file | `MCWorkerBoot`, `WorkerBootProofs` |
| `AtMostOnce` | what a call of a remote tool promises (abstract) | instance in `McpManager` |
| `McpManager` | the manager of MCP servers, their processes, the tools offered | `MCMcpManager`, `McpManagerProofs` |
| `ToolGate` | hooks, permission policy, prompt and executor around one tool use | `MCToolGate`, `ToolCallProofs` |
| `PluginManager` | plugin directories, registry and settings | `MCPluginManager`, `PluginManagerProofs` |
| `DocumentIndex` | ingestion into the tables of the index | `MCDocumentIndex`, `DocumentIndexProofs` |
| `BlockStream` | what a stream of content blocks promises its readers (abstract) | instance in `ReplyStream` |
| `ReplyStream` | the OpenAI-compatible adapter and its two readers | `MCReplyStream`, `ToolCallProofs` |

Operators named `X_Faulty...` are mutations of the operator `X` below them, the
kind of slip a property is meant to catch; nothing uses them.

### Conversation

`messages` is `Session::messages`, `disk` the records of the session file (and
whether its last line lacks the newline), `rotated` the `.rot-` files,
`compactions` whether `Session::compaction` is set, `usage` the token count that
triggers automatic compaction, `pc` where the single thread of the CLI is. A
message is an identity; an assistant message knows how many tool uses it has and
a tool result which of them it answers. `usage` counts answers that reported a
unit of input tokens, `round` the recoveries of the running turn.

| Action | Code |
|---|---|
| `BeginTurn`, `ProbeFails` | `run_turn` up to the loop: probe after a compaction, push of the user message |
| `IterationLimit`, `StreamFails`, `AssistantReplies` | one turn of the loop up to the tools: limit, an error that ends the turn, or stream, push and `maybe_auto_compact` |
| `Recover` | a round of the recovery in `LiveCli::run_turn`: Trident on the attempt's session, the compaction of the schedule, a new runtime whose `run_turn` probes and pushes the prompt again |
| `RunTool`, `PushResult`, `PushResultFails` | one tool use: hooks, permission, execution (it ran or it was denied), then the push of the result |
| `ManualCompact` | `/compact` |
| `Rotate`, `WriteSnapshot`, `Cleanup`, `SaveFails` | `save_to_path`, step by step |
| `ExitOnError`, `Crash`, `Resume` | the REPL leaves on an error of a turn or a save; a kill at any point, also in the middle of an append; `load_from_path` |

`push_message` appends to the file before it returns and takes the message back
when that fails. What a broken append leaves is a choice: nothing, a fragment,
or the line without its newline (`FileAfterBrokenWrite`). The next append lands
in an unterminated line, and one unreadable line makes the file unloadable.
A bootstrap inside an append is taken as one step. Prompt-history records,
which share the file, are left out.

`StreamFails` stands for the errors that `LiveCli::run_turn` does not recover from
(other than a context window, a stream without content or an undecodable body;
or no round left; or nothing more to compact; or a health probe that fails);
`ExitOnError` is `run_repl` passing them on. `Recover` replaces the session in
memory and leaves the file as it is; the prompt and what follows are appended to
it, and only a turn that ends well rewrites it. Which messages Trident takes is a
choice here: any tool use but the last (`Overtakable`), and any group that a stage
could fold (`Foldable`); `trimmed` remembers them. What it does to texts is
`OverflowRetry`.

### OverflowRetry

`live` is the session of the CLI's runtime, `turn` the one of the attempt,
`round` the round of the retry. A message keeps its kind, its tool uses (tool and
path) and whether it is short or long. What is put in place of others keeps what it
says of them: `quotes`, those of which it holds an excerpt, and `counts`, those it
only counts. The note of a collapsed run quotes its first five texts
(`generate_collapse_summary`; `Topics`), that of a cluster has a number, tool names
and paths (`generate_cluster_summary`), a summary has an excerpt of each message
removed; of a note that is its number, so what it quoted is then only counted; and
the timeline of an earlier summary is lost in the merge. What a merged summary
repeats of the other lines of the earlier one is taken for nothing.

`Supersede`, `Collapse` and `Cluster` are the three stages as functions on
sequences; `Similar` is the weighted similarity over a common denominator, so no
floating point is involved; `Clusters` is the greedy grouping, message by message.
Reads, writes and edits are told apart: an edit supersedes like a write, as in the
code. Results of the built-in tools name their file in `filePath` or in a nested
object (`runtime/file_ops.rs`), which `extract_path_from_tool_output` does not look
at, so only tool uses count as file operations. A retry that fails for another
reason, or for want of rounds, ends the REPL.

### CancelToken and Cancellation

One action per access: `Register` makes the `Notified` future, `ReadFlag` reads the
flag, `Poll` is the await that has to wait, `Wake` the await completing, `Drop` the losing branch of a `select!`;
`Store` and `Notify` are the two statements of `cancel`. tokio is external: its
`notify_waiters` reaches every `Notified` future that exists, polled or not.

### DesktopTurns and TurnContract

`runs`, `projectRoot` and `submitted` are the webview's state, `flags` is the
table of `commands.rs`, `workspaceRoot` the static of `tools`, and `turn` holds
each turn's place in `send_prompt`, `run_turn`, `agent::run` and `execute`. A
turn waits in `retrieve`, `stream`, `final` and `tool`; only there, and in
`execute` before the tool is spawned, does a cancelled token interrupt it
(`Cancelled`); elsewhere the code polls the flag (`Check`). `task` is the call on
the blocking pool: it goes on when the turn has been cancelled.

`Stop` is the press of the button and the handling of `cancel_turn` in one step.
In the code a message lies between, but the webview's messages are handled in
order, so a later prompt of the same chat does not overtake the stop; that the
stop can overtake the *start* of the turn before it is kept, as `Submit` and
`BeginTurn` are separate steps (`send_prompt` is handed to the runtime, while
`cancel_turn` runs at once).

### WorkerBoot and PromptDelivery

`worker` is the registry's table; every call holds its mutex, so it is one
action. A record has the fields of `Worker` that decide something, and `shown`,
what `worker-state.json` says: `Emit` is `push_event`, which writes the file
whenever it is called, and only then. A screen is a choice of what the detectors
find in it, so an old screen is one like any other.

| Action | Code |
|---|---|
| `ObserveToolPrompt`, `ObserveTrustPrompt`, `ObserveMisdelivery`, `ObserveProgress` | `observe`, by the return it leaves through; an allowlisted gate opens (`PastTrustGate`) and the rest of the screen is read |
| `ResolveTrust`, `SendPrompt`, `ReplayPrompt`, `Restart`, `Terminate` | the calls of these names (`send_prompt` with a prompt and without) |
| `Complete`, `TimeOut`, `Preflight` | `observe_completion`, `observe_startup_timeout`, `observe_startup_preflight` |

`PromptDelivery` knows the prompt in flight and the one armed for replay. A
ready screen counts as acceptance there too: the code cannot tell an old one
from a new one.

### McpManager and AtMostOnce

`held`, `initialized` and `index` are the process, the handshake flag and the
routes that `McpServerManager` keeps of each server; `process` is what the
operating system has: live or dead, the request it was given, its unread lines.
The client is one thread, `client`, since `RuntimeMcpState` is behind a mutex.
Request ids are kept as what the client compares, whether a line answers the
latest request; writing a request turns every unread answer into one to an
earlier request.

| Action | Code |
|---|---|
| `Start`, `Call`, `ListOrRead`, `Offer`, `Shutdown` | `RuntimeMcpState`: discovery when a runtime is built, the three operations of a tool use, registration of the tools, drop |
| `SpawnFails`, `Spawn`, `GreetAgain`, `AlreadyReady`, `Initialized`, `InitializeFails` | `ensure_server_ready` |
| `Send`, `Refused`, `Empty`, `RequestFails`, `NextPage`, `Discovered`, `Succeeds` | the operation's request and how it ends |
| `Handle`, `Chatter`, `Exit` | the server processes (external) |

`OperationError` is the loop around an operation: `should_reset_server`,
`is_retryable_error`, one retry for everything but tool calls. `AtMostOnce`
knows nothing of processes: a call may run once, and "ok" is said only of one
that ran.

### ToolGate

One tool use from the assistant message to its result: hooks before it
(`Spawn` to `Exited`, a process with a pipe each way), `Decide` and `Answers`
(`authorize_with_context` and the prompt), `Execute`, hooks after it, `Conclude`.
Which rules match is chosen at `Decide` and kept in `basis` with the input they
were put to. `stuck` is a hook that writes more than the pipe to the gate holds;
`closed` one that closed its stdin. The abort signal is set by another thread.
`Conversation` has all of this as one step that runs or refuses the tool.

### PluginManager

`dir`, `registry` and `enabled` are the three things on disk; `cmd` is the
command that runs with what it has read. Removal and copy of a directory pass
through any part of its files (`PartOf`: no manifest, a manifest that names
missing files, a copy that loads but is not whole), writing a file through an
empty one, and `Stop` ends a command anywhere. A command is the sequence of calls
the CLI makes (`Calls`); `plugin_registry()` and its sync are part of most.
`promise` and `halfPruned` are history: what the user was told, and the one case
in which damage is not seen.

### DocumentIndex

Each statement of `run_ingest` on a table is an action; `row`, `chunk` (with
`vec`, whether it has its vector) are the tables, `file` the files, each with a text
(a number that stands for its hash) and a time of modification (its size goes with
it). `Fail` ends an ingestion anywhere. `Stat` and `Read` are two steps, so a file
can change in between; `Read` passes over a file that is gone, or that is there and
cannot be read (`Unreadable`: not UTF-8, or no permission), which stays one the walk
has seen. `Edit` gives a file any text and time of `Written`, also those it had
before. Ingestions run side by side on the same tables, as after a cancelled turn
(`commands.rs:593`). `mixed` and `restored` are history: the files at which an
ingestion was at work, from its decision to delete to its row, beside another one,
until nothing of them is left, and the files that were put back exactly as their row
says.

### ReplyStream and BlockStream

`Chunk` is a chunk of the server and all of `StreamState::ingest_chunk` on it;
`Reasons`, `Says`, `Asks` and `CallsEnd` are its parts, each of which appends
events. `Close` is the end of the body with `finish`. `Deliver` hands one event
to both readers: `CliReads` is `consume_stream`, with its one pending tool, and
`DeskReads` is `stream_step`, with calls by index. `block` and `message` are what
a reader who goes by the index sees, and the refinement of `BlockStream` is about
them. A piece is numbered within its source, so a lost, doubled or swapped piece
shows. `Stall` is the time-out of the CLI after a tool result; `Fallback` its
request without streaming when a stream ended without events.

## Runs

| Run | Question | States | Result |
|---|---|---|---|
| `conversation` | do turns, recoveries, compactions, saves, failures, kills and resumes keep session and file right? | 694,000 | pass |
| `overflow_retry` | does the retry lose wording for stated causes only, and shrink? | 509,000 | pass |
| `cancel_token` | does the token implement the abstract one? | 1,800 | pass |
| `desktop_turns` | do overlapping turns stay stoppable, apart, keep the contract, and end? | 223,000 | pass |
| `worker_boot` | whatever order screens, time-outs and restarts come in, is a worker's record right? | 1,400 | pass |
| `mcp` | whatever servers do, are processes, names and calls kept straight, and does every operation end? | 693,000 | pass |
| `tool_gate` | is what runs what was authorised, and can it be aborted? | 358,000 | pass |
| `plugins` | do the three things on disk survive commands cut anywhere? | 2,283,000 | pass |
| `index` | do the tables survive ingestions cut anywhere, two at once, while files change? | 651,000 | pass |
| `reply_stream` | however a reply is cut into chunks, do both readers get it right? | 176,000 | pass |
| `desktop_root`, `reply_calls` | see [Disagreements](#disagreements) | | violation |

Each module also states its types (`TypeOK`), which the proofs use; no run is
spent on types.

**Conversation.** `NoOrphanResults` and `RequestsAreAnswered` are the pairing of
tool uses and results, in memory, in the file and at each request; batches of which
Trident took a message (`Touched`) are excepted, as the code does split them.
`DiskCoversMemory`: the file holds every message of the session, and behind it
exactly those that follow it in the session, although compactions and recoveries
shorten the session and leave the file alone; it is said of a file that loads and
has no open line (see [Disagreements](#disagreements) for the other).
`EffectsAreRecorded`: the call of a tool that ran is on record even when a kill or a
failed write cut the turn right after, and its result too unless one did.
`NothingSilentlyDropped`: no rewrite loses a message that no summary or note stands
for and Trident did not drop. `GrowthIsBounded`: past the threshold an answer leaves
a bounded session, but for results whose assistant message Trident dropped: the walk
back keeps any run of results. `TurnEnds` is liveness.
Bounds: seven messages of user and assistant, counting the prompt of a recovery,
with up to two tool uses each, so a batch is longer than one and the boundary of
`Preserve = 2` falls inside it; a schedule of two rounds, that preserve 2 and 0;
thresholds of Trident of 2 and one group folded a round, so that folding and dropping
happen on these short sessions, again on what they left; every answer reports a unit
of tokens (`Inputs = {1}`), and answers without are in the proofs; the file rotates
after seven records, one rotated file is kept; one resume, so a session continues on
a broken file.
Fairness: weak fairness of the answer (or the iteration limit), of the tool and
of the push, that is, the provider, the tools and the file system return. The
user, the provider's errors, kills and resumes have none.

**OverflowRetry.** Up to five user and assistant messages, one file, one tool use
a message, the schedule cut to 2, 1, 0, both thresholds to 3 and the topics of a note
to 2, so that all rounds happen on histories of five messages and collapse, cluster
and supersede each apply, also to their own output, and a note quotes some of its
messages and only counts others. `OneSummaryFirst`: summaries are merged.
`LastResortIsMinimal`: the attempt that preserves nothing is summary and prompt.
`WordsLeaveForCause`: what a message said leaves a retry, but for an excerpt, only
because a later write or edit of its file overtook it, or because it is one of as
many alike, or of as much small talk, as the thresholds ask for, and then a note or
the summary counts it. It does not say that what goes is obsolete: it is not (see
[Disagreements](#disagreements)). Two tool uses a message are in the proof.

**CancelToken.** Two tasks and three cancels: one cancel can be over and another
between its statements while each task is anywhere. Fairness: a task inside
`cancelled()` is polled when it can move; a thread inside `cancel()` goes on. A
task that does not wait, and a cancel nobody asks for, have none.

**DesktopTurns.** `RunningTurnsAreStoppable` and `NoDeadEntries` relate the table
to the turns, `ConversationsAreIndependent` says who may cancel whom, and
`KeepsContract` is the refinement of `TurnContract`: one report, then the answer,
cancelled only if asked, and a turn whose token is cancelled ends.
Bounds: two chats and two turns, which is two chats side by side or one chat with
two overlapping turns after a reload; one folder, chosen before the first turn or
not at all; one call a reply; a turn in two stages runs alone, as stages share
nothing with other turns (`Apart` in `MCDesktopTurns`, an action constraint; a turn
may always take no stages, so it only restrains choices of the user and of triage,
and fairness is not touched); two steps of the loop, so that the limit is met once
by going on and once by stopping. Fairness in `FairSpec`: the runtime polls every
task that can move; it says nothing of the model, the index and the tools, so `KeepsContract` holds with
all of them silent. `TurnsEnd` has that they answer as its premise.

**WorkerBoot.** `StatusAndErrorAgree` relates the status to the error,
`ClearedGateStaysClear` is an action property about a prompt that stays on the
screen, `PromptsAreOfThisBoot` is about restarts, `FileLagsOnlyAcceptance` about
the file and `DeliversPrompts` the refinement of `PromptDelivery`.
Bounds: one worker, as workers share nothing in the model; two prompts, so that
a replay can be told from a new prompt; three deliveries between two restarts,
one more than a bounce and its replay. The state space is finite otherwise and
explored whole. Safety only: nothing obliges a screen to be observed.

**McpManager.** `OneProcess`: a process that lives is one the manager holds, and
for one server. `HandshakeFirst`: nothing but `initialize` is written to a process
that has not answered it. `OfferedToolsReachTheirServer`: names after
normalisation. `CallsRunAtMostOnce` is the refinement of `AtMostOnce`,
`EveryOpEnds` liveness.
Bounds: two servers, two tools of the one and a tool of the other with the same
qualified name; one unread line in a pipe, which is enough for an answer that
comes after its time-out; one more page of a list. Fairness: the client goes on
and its timers fire; nothing of the servers. That a list ends is assumed
(`MaxPages`): the code follows cursors for ever.

**ToolGate.** `RunsAsAuthorised` states the precedence of rules, hooks, mode and
prompt as what must have been said for what ran, not as the order of the checks.
`ToolAwaitsHooks`, `ErrorsAreTold` and `AbortEndsCall` are about hooks that do not
behave. Two hooks an event, so that a later one can contradict an earlier, and a
payload of up to two pipes, so that writing it can block. Fairness: the thread of
the turn, and a user who answers prompts. `AbortEndsCall` excludes the payload
that does not fit the pipe: `write_all` does not look at the signal, so a hook
that does not read a long payload blocks the turn for good.

**PluginManager.** One bundled and one external plugin and two versions: a
command on one can disturb the other, and a copy can be of an old version.
Safety: nothing obliges a command to be given.

**DocumentIndex.** Two ingestions at once; one file, since files share nothing but
the walk, whose order the proofs have; a text of two chunks (one more than a batch),
one of one chunk, a blank one and one that cannot be read, at times earlier and
later, the second at the time of the first; the file goes from any of them to any
other and back, is moved away and comes back, at any moment.
Each property leaves out files that two ingestions work at together (`mixed`): there
the code does mix chunks and write rows that are not true. `RowsTellTheTruth` says
what may be believed of a row when the chunks were deleted and the row not yet: the
file is not as the row says, unless somebody put it back just so. `CatchesUp` says
that if edits and failures end, a file that can be read is found as it is and nothing
else of it is; of a file that cannot be read it says nothing, and rightly (see
[Disagreements](#disagreements)). Fairness: ingestions are started again and again
(with every message that has attachments) and go on until they end.

**ReplyStream.** Three calls, two pieces of each source: a call can be open before
and after another, and a name can come between two pieces. `ReasonsFirst`: servers
send their reasoning before all else. Safety: a server may stop sending. Every
division of such a reply into chunks, cut, stalled or failing anywhere, is in the
run.

## Disagreements

Two have a run that TLC finds violated; `findings` in `PROJECT.json` quotes the
line of the repository that says otherwise.

- `desktop_root`, `ToolsSeeTheirProject`: the workspace root is one static for
  the process. Turn A states its folder and spawns its tool; turn B states its
  own; A's tool reads B's.
- `reply_calls`, `CliGetsEveryCall`: the adapter leaves the calls of a reply open
  until the server says `tool_calls`. `consume_stream` has one pending tool, so
  the start of a second call overwrites the first, which is never run. The
  desktop agent keeps calls by index and has both (`DesktopGetsEveryCall`).

Others were met while modelling:

- A stop handled between `submit` and `begin_turn` finds no token
  (`commands.rs:78`); the interface shows "stopping" and refuses a second stop.
- Write a file twice and overflow: stage 1 of Trident removes the superseded tool
  use and leaves its result in the request (`trident.rs:219`). Such a result stays:
  the walk back of a compaction takes any run of results along, so it can hold a
  compaction back.
- Stage 1 of Trident, "zero-cost factual pruning" (`trident.rs:163`), lets an edit of
  one line overtake the write of the whole file (`trident.rs:203`), and removes a whole
  message when one of its tool uses is superseded (`trident.rs:209`): a second use,
  which nothing overtook, leaves the request with it.
- Stage 3 clusters by role, tools, files and length, not by what is said: user
  prompts of like length count as similar, and a note "n similar messages grouped"
  takes their place (`trident.rs:604-646`). A merge of two summaries drops the
  timeline of the earlier one.
- An append that failed leaves a line without newline; the file then loads, the next
  append lands in that line, and no later resume accepts the file (`session.rs:640`).
- The stages of Trident run before the recent tail is taken, so "preserved
  verbatim" (`compact.rs:5`) is said of messages that were rewritten.
- The threshold learnt from the server (`main.rs:7772`) is set on the runtime of
  the failed attempt; every later one has a new runtime with the default.
- A worker that waited at a tool prompt with a prompt in flight shows a running
  cue: its status changes without an event (`worker_boot.rs:525`), and the polled
  file says it waits. `FileLagsOnlyAcceptance`, which passes, says that this is
  the only way the two differ.
- A file that went away after some of its chunks were stored and before its row
  was written stays in the index: the sweep goes by rows (`ingest.rs:201`).
- A file that is there and can no longer be read is passed over after the walk has
  counted it among those it saw (`ingest.rs:133`, `159`): its old row and chunks are
  neither replaced nor swept, and are found for as long as it stays that way, though
  every ingestion succeeds.
- Two ingestions at one file (`commands.rs:593`): one deletes the chunks between the
  other's inserts and its row, and ends early; the row then vouches for chunks that
  are gone, and the file is skipped from then on.
- An ingestion cut between the two deletes of an edited file, which is then put back
  with its old time: its row is believed, and its chunks are gone.
- A reasoning block is pushed twice by the CLI, empty when it starts and full when
  it ends (`main.rs:13799`, `12838`).
- Two tools of one name after normalisation fail the construction of the runtime
  (`tools/src/lib.rs:207`); the servers that discovery started are then left
  without a manager, and nothing kills them (`client.at = "aborted"`).

A worker that finished or was terminated comes back when a late screen shows a
prompt, a ready cue or a tool prompt, although `observe_completion` speaks of a "terminal state". A retried request
carries the prompt once more each round, because the failed attempt's session
already holds it.

## Proofs

All proofs are for every value of the constants that satisfies the module's
`ASSUME`, which TLC evaluates in the runs.

- `ConversationProofs`: `TypeCorrect` (`Spec => []TypeOK`) and, for every
  preserve count, threshold, schedule, limit and batch size, each of the module's
  safety properties. For the recovery, `Trimmed` is taken apart once: it is the
  session without the dropped and folded positions, with a note at the first position
  of each group, so that what stays keeps its order (`IsTrim`); everything else is
  about sequences related like that.
  - `NoOrphans`. Pairing is not inductive by itself: a result is
    appended because a batch is open, so the invariant adds `BatchIsOpen` (while
    results are being recorded, the session ends with the assistant message of the
    batch and its results so far) and `OpenLineExists` (an unterminated line is a
    line of the file). The main lemmas are that compaction at the walked-back
    boundary keeps pairing, and that trimming does for every batch that lost no
    message (a batch none of whose messages went still stands together); appending a
    result keeps it because of `BatchIsOpen`.
  - `Bounded` is an action property: a compaction after an answer keeps the
    preserved messages, the summary and what the boundary was walked back over,
    which is at most one batch, because of pairing.
  - `DiskCovers`. The invariant `Covered` says it of every place of the process but
    after a failed save, hence also while an append or a save is under way, and
    position by position, so that compaction (which drops a prefix) and trimming
    (which drops what the property excepts) both keep it.
  - `RequestsAnswered`. The invariant `Settled` says which tool uses stand without
    all their results: those of turns that were cut, those of batches Trident took a
    message of, and of the batch that is open.
  - `EffectsRecorded` and `NothingIsDropped` share the invariant `Lossless`: the
    file is there and whole while a turn runs (`FileIsThere`), a running process has
    each record of its file in the session, a summary, or among what Trident took
    (`Known`), and calls and results of tools that ran are in memory while there is a
    process and in files or summaries at any time, in the rotated files between the
    two steps of a save (`Recorded`, `Called`). A call needs no exception for turns
    that were cut: it is written before its tool is started.
- `OverflowRetryProofs`: `OneSummary` (`Spec => []OneSummaryFirst`), `LastResort`
  (`Spec => []LastResortIsMinimal`) and `LossesHaveCauses`
  (`Spec => WordsLeaveForCause`), for any files, schedule, thresholds and number
  of tool uses a message, and `TypeCorrect`. Most of the work is what the stages
  return, for sequences of any length: that the n-th message of `At` is the one of
  rank n (`RankMeans`, `AtMeans`), that replacing disjoint groups by a note each
  leaves the others in place, makes no summary and counts what the groups said
  (`FoldedMeans`, in which `AreGroups` is all that is asked of the groups), that the chatty runs and the clusters are such
  groups (`RunsAreGroups`, `ClustersAreGroups`), and that the boundary of the
  compaction exists (`CutMeans`). The greedy grouping is a recursive function; what
  is said of all its values follows from a counterexample with the least argument
  (`LeastNatural`), which the theorems on well-founded relations give without an
  induction rule. The invariant adds that the session of the CLI has one summary at
  most and first, and that an attempt under way has something to send (`Working`).
- `DesktopTurnsProofs`: `StoppableAlways` (`Spec => []RunningTurnsAreStoppable`)
  and `NoDeadEntriesEver` (`Spec => []NoDeadEntries`), for any number of chats and
  turns. Neither is inductive alone: that an older turn which ends leaves the
  newer one registered needs that entries belong to their own chat, and that a
  new turn is not in the table already needs that turns not yet submitted have
  never begun (`FreeUntilSubmitted`). Most steps are one lemma, `OneTurnMoves`:
  they move one turn within `BegunPlaces` and leave chat, token and table alone.
  `CancelledFromOwnChat` is the action property `ConversationsAreIndependent`.
  `TurnsKeepTheirContract` (`Spec => Contract!Spec`) is the safety part of
  `KeepsContract`, step by step: `Moves` says which steps a turn can take once begun, and
  the invariant `Telling` where a turn may be when it has or has not told its end,
  and what it told. `TypeCorrect` needs `Limits`: how far a turn may be with the
  steps and calls it has used, and that it is reported over once.
  A section on the token of a turn (`CancelToken`) has `WakeupsArrive`
  (`TokenSpec => []NoLostWakeup`), for any number of tasks and cancels, and
  `TokenRefines`: every step of the token is a step of `Cancellation` or leaves it
  unchanged.
- `WorkerBootProofs`: `StatusAndErrorAlwaysAgree`, `OnlyPromptsOfThisBoot`,
  `FileLagsNoMore` and the whole refinement, `RegistryDelivers`
  (`Spec => Delivery!Spec`), which has no fairness. Everything said is said of
  one record, so the invariant is `Good` of each record: a lemma per action shows
  that it leaves a good record, and another which move of `PromptDelivery` it
  is. Beyond the properties `Good` says that what
  is in flight is a prompt, that nothing is armed meanwhile, and that a ready
  worker has none in flight: without it a dispatch could overtake another.
  `TrustIsAskedOnce` (`Spec => ClearedGateStaysClear`) is an action property: each
  observation keeps the gate, whatever the screen shows.
- `PluginManagerProofs`: `SyncSeesAllDamage` (`Spec => []SyncSeesDamage`), for any
  plugins and versions and whatever is cut where. The invariant says that a
  record of the present version, on disk or in the memory of the command, stands
  for a whole copy (`RecordsAreEarned`); to be inductive it needs that records are
  of versions of the past (`OfThePast`), that a copy is replaced only while its
  record is out of date (`ReplacedForCause`), that what a sync has still to look
  at is as it read it (`LeftAsRead`), and which calls a command may have left
  (`OwnPlugins`, `InACall`).
  `PromisesAreKept` (`Spec => []PromisesKept`) has an invariant of its own,
  `Promised`. Between commands a promise is about what is on disk; while one runs it
  is about what the registry will be once the record in memory is written
  (`RecordOf`, `Kept`). A promise about the plugin being changed is open until the
  command tells a new one (`Unpromised`), and what an install or an uninstall has
  done is on disk when it does (`Installed`). Both need the order of the calls left
  (`InOrder`) and where within them the command is (`Inside`). `TypeCorrect` needs that no
  version is ahead of its source (`Versions`); its bound `MaxVersion` is at least 1.
- `McpManagerProofs`: `TypeCorrect`, `NoProcessIsLost` (`Spec => []OneProcess`),
  `GreetedBeforeAsked` (`Spec => []HandshakeFirst`), `NamesReachTheirTools`
  (`Spec => []OfferedToolsReachTheirServer`) and `CallsRefineOnce`
  (`Spec => CallsRunAtMostOnce`), for any servers, tools, names, pages and pipes.
  The one assumption on the order of the servers is that it names some and none
  twice: they are the keys of a `BTreeMap`, and there is no manager without
  servers. `IProcs`: no process is held for two servers and every live one is held
  (`HeldOnce`, `Owned`), the flag `initialized` is about the process held now
  (`Greeted`), and the client is where the handshake allows (`AtServer`,
  `Employed`). `ICalls`: only the process of the call under way may have it to run
  (`OneCall`), and an answer to the latest request means it was handled
  (`OwnIsHandled`, `CallRan`), so a late answer is not taken for it. `INames`: a tool
  offered is of a server that discovery has left behind, and is routed unless a
  name is taken (`Routed`, `Surveyed`).
- `ToolCallProofs`, a tool call from the stream to its result. In its first part,
  `BlocksAreProper` (`Spec => KeepsProtocol`, the refinement of `BlockStream`),
  `DesktopHasEveryCall` (`Spec => []DesktopGetsEveryCall`), `CliCallsStayWhole`
  (`Spec => []CliCallsAreWhole`), `ShownStaysSaid` (`Spec => []ShownIsSaid`) and
  `TypeCorrect`, for any number of calls and pieces, any division into chunks, and
  any cut, stall or failure. All assume `ReasonsFirst`, a server that sends its
  reasoning before text and calls; without it `DesktopGetsEveryCall` and
  `CliCallsAreWhole` are false (see [What is not modelled](#what-is-not-modelled)).
  The properties speak of the end of a request, so the invariant says what they
  need before: `Made` relates a state of the adapter and the events still to be
  delivered to what the readers will have when they are. Reading them is proper
  (`Path`, `Proper`), it leaves each reader with all that the adapter has passed on
  (`Readers`), and what it has not are the arguments of calls without a name
  (`Adapter`). Each operator of the adapter, `Reasons`, `Says`, `Asks`, `CallsEnd`
  and `Finished`, keeps `Made`; the folds over the parts of a chunk and over the
  calls keep it because there is no least step at which they would not
  (`LeastNatural`). Delivering an event takes the first step of the path. `IInv` is
  `Made` while the stream is read, and after it that everything sent has arrived
  (`AllSaid`). For the CLI
  the order of the calls is needed: its one pending tool holds the call that was
  started last, and whatever ends a block, and so flushes it, comes only when that
  call has all it will get (`CliAgrees`; of calls before `lim` no more will come).
  In its second part, `OnlyAuthorisedRuns` (`GateSpec => []RunsAsAuthorised`),
  `HooksAreOver` (`GateSpec => []ToolAwaitsHooks`) and `ErrorsAreAlwaysTold`
  (`GateSpec => []ErrorsAreTold`), for any number of hooks and any payload, and
  `GateTypeCorrect`. The
  invariant says that nothing has been done with the tool before `Execute` and
  something after (`ToolIsAhead`), that another hook is started only when none has
  stopped the call (`NoneStopped`), that a hook is left running only by a write
  error, which stops the call (`LeftRunning`), and what is known of the
  authorisation while the user is asked and while the tool is due
  (`BasisIsSound`).
- `DocumentIndexProofs`: `RowsAreTrue` (`Spec => []RowsTellTheTruth`) and
  `TextsAreNotMixed` (`Spec => []OneVersionIsFound`), for any files, texts, batch size
  and number of ingestions at once, and edits back and forth; the theorems have no
  assumption beyond the constants'. The invariant is about files that are not
  `mixed`, at which therefore one ingestion is at work at most (`Marked`): it adds what
  that ingestion has stored so far, to the chunk (`Progress`), and that the row whose
  chunks it deletes would not pass for an up-to-date one, or the file was put back
  meanwhile (`RowIsStale`). `TypeCorrect` is about every file.

Only model-checked:

- liveness: `TurnEnds`, `TurnsEnd`, `EveryOpEnds`, `AbortEndsCall`, `CatchesUp`, and
  the fairness in `Implements` and `KeepsContract`. The prover does not do ENABLED, so it
  cannot use fairness; the steps of these refinements are proved.

## What is not modelled

Texts: of messages, summaries, tool arguments and errors; which stages triage
picks; token estimates (a session is over budget whenever the caller forces it,
as the CLI's compactions do). In the REPL's recovery, the threshold learnt from an
error stays on the runtime of the failed attempt and changes nothing of a later one
(see above), so it is left out of `Conversation`. `PROJECT.json` lists the components with no module
and why. Two processes on one session file are out: each run of the CLI owns its
file.

For MCP servers: the reading of the configuration, remote transports (which the
manager does not support), what results hold. A notification that is valid JSON
without an id ends the server's request as invalid (`mcp_stdio.rs:1304`), as in
the code; output that is no JSON is skipped there and left out here.

For plugins: two commands at once, sources that go back to an older version or
change while a command runs, a settings file torn in the middle, external
directories, built-in plugins, the commands of a plugin's lifecycle.

For the index: what becomes of a file two ingestions work at together (both are
modelled, the properties leave such files out); a text of another size with the same
time; chunking, ranking, the mirror in Qdrant, from which nothing is deleted.

For replies: usage, the stop reason, tool calls that a model writes into its text,
servers that give all calls of a reply the index 0 (the adapter merges them).
With reasoning between the pieces of a call (`ReasonsFirst = FALSE`) the block
index of a call shifts and both readers go wrong: `DesktopGetsEveryCall` and
`CliCallsAreWhole` fail, `ShownIsSaid` holds. A reply that is cut before its finish
reason passes for a complete one.

For workers: the evidence of a time-out and its classification, the log of
events, a state file that cannot be written or that two workers of one directory
share.

## Plan

In this order, the most important behaviour first; all steps are done.

1. `Conversation`: the turn, the session and its file. Proofs of pairing.
2. `CancelToken`, `DesktopTurns`: turns that can be stopped. Proof of the token
   and of the table of tokens.
3. `OverflowRetry`: Trident and the retry.
4. `WorkerBoot`: a worker from spawn to completion, with screens late and out of
   order. Proof of the refinement of `PromptDelivery`.
5. `McpManager`: server processes with time-outs and retry, discovery.
6. `ToolGate`: what `Conversation` takes as "ran or denied".
7. `PluginManager`: commands cut anywhere. Proof of `SyncSeesDamage`.
8. `DocumentIndex`: ingestion interrupted.
9. `ReplyStream`: the adapter and its readers.
10. Proofs of what the tool gate runs and of what the index's rows say; done.
11. Proofs: the processes, names and calls of the MCP manager, every safety property
    of `Conversation`, the safety part of `KeepsContract`, `PromisesKept`; done.
12. Proofs: what the stages of Trident return, and the retry; the reply stream and
    its readers; done.

The task, team and cron registries were planned and dropped: each operation is
one locked update of one map, and nothing spans two of them.
