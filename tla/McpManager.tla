------------------------------ MODULE McpManager ------------------------------
(***************************************************************************)
(* The manager of MCP servers (runtime/src/mcp_stdio.rs) as the CLI uses   *)
(* it (rusty-claude-cli/src/main.rs, RuntimeMcpState): server processes    *)
(* that are spawned, greeted, asked, timed out, killed and spawned again,  *)
(* and the tools they advertise, which are offered to the model.           *)
(*                                                                         *)
(* The client is one thread: the mutex of RuntimeMcpState is held for a    *)
(* whole operation.  The server processes run beside it and may be silent, *)
(* wrong, late or dead.  The ids of requests are abstracted to what the    *)
(* client compares: whether an answer is that to its latest request.       *)
(***************************************************************************)
EXTENDS Naturals, Sequences, FiniteSets

CONSTANTS
  Servers,     \* servers in the configuration
  Order,       \* their names in the order of the BTreeMap; without any there is no manager
  Tools,       \* names of tools as servers give them
  ToolsOf,     \* the tools a server may advertise
  Qualified,   \* mcp_tool_name: the name the model sees, from the server and the tool
  Processes,   \* names of processes, used again when free
  None,        \* no process
  MaxPages,    \* bound: pages of a list after the first
  MaxOut       \* bound: lines in a pipe

ASSUME McpConstants ==
  /\ Order \in Seq(Servers) /\ Servers = {Order[i] : i \in DOMAIN Order} /\ Order # <<>>
  /\ \A i, j \in DOMAIN Order : Order[i] = Order[j] => i = j
  /\ ToolsOf \in [Servers -> SUBSET Tools]
  /\ Servers \X Tools \subseteq DOMAIN Qualified
  /\ None \notin Processes /\ MaxPages \in Nat /\ MaxOut \in Nat

VARIABLES
  held,          \* the process of each server
  initialized,   \* servers that answered initialize
  process,       \* the processes
  client,        \* where the client is
  index,         \* tool_index: the server and the tool of each routed name
  offered,       \* discovered tools, as pairs of server and tool
  ran,           \* how often the tool of the last call ran
  told           \* what became of the last call

vars == <<held, initialized, process, client, index, offered, ran, told>>

ToolNames == {Qualified[t] : t \in Servers \X Tools}

Ops == {"none", "discover", "call", "read", "list"}

Asked == {"nothing", "initialize", "list", "read", "call"}

\* own: the id is that of the latest request.
Line == [own : BOOLEAN, body : {"result", "error", "empty", "notice"}]

Client == [at : {"off", "ready", "init", "send", "wait", "offer", "idle", "aborted"},
           op : Ops, todo : Seq(Servers), tries : 0..1, attempts : 0..1, pages : 0..MaxPages]

Process == [live : BOOLEAN, greeted : BOOLEAN, asked : Asked, out : Seq(Line)]

Unused == [live |-> FALSE, greeted |-> FALSE, asked |-> "nothing", out |-> <<>>]

Resting == [at |-> "idle", op |-> "none", todo |-> <<>>, tries |-> 0, attempts |-> 0, pages |-> 0]

Init ==
  /\ held = [s \in Servers |-> None] /\ initialized = {}
  /\ process = [p \in Processes |-> Unused]
  /\ client = [Resting EXCEPT !.at = "off"]
  /\ index = [q \in {} |-> None] /\ offered = {}
  /\ ran = 0 /\ told = "nothing"

server == Head(client.todo)
mine   == held[server]

\* The server has a process that has not exited.
Running == \E p \in Processes : p = mine /\ process[p].live

Free(p) == ~process[p].live /\ \A s \in Servers : held[s] # p

Retryable(e)   == e \in {"transport", "timeout"}
ShouldReset(e) == e \in {"transport", "timeout", "invalid"}

-----------------------------------------------------------------------------
(* The processes, which the manager does not control *)

\* A request is handled, with an answer or without.
Handle(p) ==
  /\ process[p].live /\ process[p].asked # "nothing"
  /\ \/ process' = [process EXCEPT ![p].asked = "nothing"]
     \/ /\ Len(process[p].out) < MaxOut
        /\ \E body \in {"result", "error", "empty"} :
             process' = [process EXCEPT ![p].asked = "nothing",
                                        ![p].out = Append(@, [own |-> TRUE, body |-> body])]
  /\ ran' = IF process[p].asked = "call" THEN ran + 1 ELSE ran
  /\ UNCHANGED <<held, initialized, client, index, offered, told>>

\* A notification, or an answer with an id nobody waits for.
Chatter(p) ==
  /\ process[p].live /\ Len(process[p].out) < MaxOut
  /\ \E body \in {"result", "notice"} :
       process' = [process EXCEPT ![p].out = Append(@, [own |-> FALSE, body |-> body])]
  /\ UNCHANGED <<held, initialized, client, index, offered, ran, told>>

Exit(p) ==
  /\ process[p].live
  /\ process' = [process EXCEPT ![p].live = FALSE, ![p].asked = "nothing"]
  /\ UNCHANGED <<held, initialized, client, index, offered, ran, told>>

-----------------------------------------------------------------------------
(* Operations of the client *)

\* RuntimeMcpState::new, for a new runtime with its own manager.
Start ==
  /\ client.at = "off"
  /\ client' = [Resting EXCEPT !.at = "ready", !.op = "discover", !.todo = Order]
  /\ UNCHANGED <<held, initialized, process, index, offered, ran, told>>

\* call_tool of a name that is routed.
Call(q) ==
  /\ client.at = "idle" /\ q \in DOMAIN index
  /\ client' = [Resting EXCEPT !.at = "ready", !.op = "call", !.todo = <<index[q][1]>>]
  /\ ran' = 0 /\ told' = "nothing"
  /\ UNCHANGED <<held, initialized, process, index, offered>>

\* list_resources of one server or of all, and read_resource.
Ask(op, todo) ==
  /\ client.at = "idle"
  /\ client' = [Resting EXCEPT !.at = "ready", !.op = op, !.todo = todo]
  /\ UNCHANGED <<held, initialized, process, index, offered, ran, told>>

ListOrRead ==
  \/ \E s \in Servers : Ask("list", <<s>>) \/ Ask("read", <<s>>)
  \/ Ask("list", Order)

\* The process is forgotten and not killed.
ResetProcess_FaultyLeavesRunning(reset) ==
  IF reset /\ mine # None /\ ~process[mine].live THEN [process EXCEPT ![mine] = Unused]
  ELSE process

\* reset_server: the process is killed, its pipe is gone.
ResetProcess(reset) ==
  IF reset /\ mine # None THEN [process EXCEPT ![mine] = Unused] ELSE process

Reset(reset) ==
  /\ process' = ResetProcess(reset)
  /\ held' = IF reset THEN [held EXCEPT ![server] = None] ELSE held
  /\ initialized' = IF reset THEN initialized \ {server} ELSE initialized

\* The operation on the server is over: the next server, or the caller.
Done ==
  client' = IF Len(client.todo) > 1
              THEN [client EXCEPT !.at = "ready", !.todo = Tail(@), !.tries = 0,
                                  !.attempts = 0, !.pages = 0]
              ELSE [Resting EXCEPT !.at = IF client.op = "discover" THEN "offer" ELSE "idle"]

\* clear_routes_for_server
Unrouted == [q \in {n \in DOMAIN index : index[n][1] # server} |-> index[q]]

\* An error is given to the caller.  discover clears the routes of the server.
Failed ==
  /\ Done
  /\ index' = IF client.op = "discover" THEN Unrouted ELSE index
  /\ told' = IF client.op = "call" THEN "failed" ELSE told
  /\ UNCHANGED <<offered, ran>>

\* The retry does not count itself.
OuterRetry_FaultyNoCount(e) == client.op # "call" /\ Retryable(e)

\* Discovery and resources are asked for once more; tool calls are not.
OuterRetry(e) == client.op # "call" /\ Retryable(e) /\ client.attempts = 0

\* An error of ensure_server_ready or of the request, in the operation's own loop.
OperationError(e) ==
  /\ Reset(ShouldReset(e))
  /\ IF OuterRetry(e)
       THEN /\ client' = [client EXCEPT !.at = "ready", !.attempts = 1, !.tries = 0, !.pages = 0]
            /\ UNCHANGED <<index, offered, ran, told>>
       ELSE Failed

-----------------------------------------------------------------------------
(* ensure_server_ready *)

SpawnFails ==
  /\ client.at = "ready"
  /\ ~Running
  /\ held' = [held EXCEPT ![server] = None]
  /\ initialized' = initialized \ {server}
  /\ process' = IF mine = None THEN process ELSE [process EXCEPT ![mine] = Unused]
  /\ Failed

\* A process that exited is replaced.
Spawn ==
  /\ client.at = "ready"
  /\ ~Running
  /\ \E p \in Processes :
       /\ Free(p) /\ \A r \in Processes : Free(r) => p <= r
       /\ held' = [held EXCEPT ![server] = p]
       /\ process' = [n \in Processes |->
                        IF n = p THEN [Unused EXCEPT !.live = TRUE, !.asked = "initialize"]
                        ELSE IF n = mine THEN Unused ELSE process[n]]
  /\ initialized' = initialized \ {server}
  /\ client' = [client EXCEPT !.at = "init"]
  /\ UNCHANGED <<index, offered, ran, told>>

\* A write makes every answer in the pipe one to an earlier request.  It fails if
\* the process is dead, and then nothing is read.
Written(p, request) ==
  [process EXCEPT ![p].asked = IF process[p].live THEN request ELSE "nothing",
                  ![p].out = IF process[p].live THEN [i \in DOMAIN @ |-> [@[i] EXCEPT !.own = FALSE]]
                             ELSE <<>>]

GreetAgain ==
  /\ client.at = "ready"
  /\ Running /\ server \notin initialized
  /\ process' = Written(mine, "initialize")
  /\ client' = [client EXCEPT !.at = "init"]
  /\ UNCHANGED <<held, initialized, index, offered, ran, told>>

AlreadyReady ==
  /\ client.at = "ready"
  /\ Running /\ server \in initialized
  /\ client' = [client EXCEPT !.at = "send"]
  /\ UNCHANGED <<held, initialized, process, index, offered, ran, told>>

Send ==
  /\ client.at = "send"
  /\ process' = Written(mine, CASE client.op \in {"discover", "list"} -> "list"
                                [] client.op = "read"                 -> "read"
                                [] client.op = "call"                 -> "call")
  /\ client' = [client EXCEPT !.at = "wait"]
  /\ UNCHANGED <<held, initialized, index, offered, ran, told>>

-----------------------------------------------------------------------------
(* What comes of a request: run_process_request over McpStdioProcess::request *)

\* The id is not compared.
IsAnswer_FaultyAnyId(line) == line.body # "notice"

IsAnswer(line) == line.own /\ line.body # "notice"

Waiting == client.at \in {"init", "wait"}

\* The errors a wait can end with.
WaitEnds(e) ==
  \/ e = "invalid" /\ process[mine].out # <<>> /\ ~IsAnswer(Head(process[mine].out))
  \/ e = "transport" /\ process[mine].out = <<>> /\ ~process[mine].live
  \/ e = "timeout" /\ process[mine].out = <<>> /\ process[mine].live

InitializeFails(e) ==
  /\ client.at = "init" /\ WaitEnds(e)
  /\ IF Retryable(e) /\ client.tries = 0
       THEN /\ Reset(TRUE)
            /\ client' = [client EXCEPT !.at = "ready", !.tries = 1]
            /\ UNCHANGED <<index, offered, ran, told>>
       ELSE OperationError(e)

Answered(body) ==
  /\ process[mine].out # <<>> /\ IsAnswer(Head(process[mine].out))
  /\ Head(process[mine].out).body = body

Read == [process EXCEPT ![mine].out = Tail(@)]

\* An error in the answer to initialize passes for a handshake.
Greets_FaultyAnyAnswer == Answered("result") \/ Answered("error")

Greets == Answered("result")

Initialized ==
  /\ client.at = "init" /\ Greets
  /\ process' = [Read EXCEPT ![mine].greeted = Answered("result")]
  /\ initialized' = initialized \cup {server}
  /\ client' = [client EXCEPT !.at = "send"]
  /\ UNCHANGED <<held, index, offered, ran, told>>

\* A JSON-RPC error leaves the process as it is.
Refused ==
  /\ Waiting /\ Answered("error") /\ ~(client.at = "init" /\ Greets)
  /\ process' = Read
  /\ UNCHANGED <<held, initialized>>
  /\ Failed

\* An answer without a result.  Only after initialize and in a list or a read it
\* is an error of the manager; a call hands it to its caller, which fails it.
Empty ==
  /\ Waiting /\ Answered("empty")
  /\ IF client.op = "call" /\ client.at = "wait"
       THEN process' = Read /\ UNCHANGED <<held, initialized>>
       ELSE Reset(TRUE)
  /\ Failed

RequestFails(e) == client.at = "wait" /\ WaitEnds(e) /\ OperationError(e)

\* A page with a cursor.
NextPage ==
  /\ client.at = "wait" /\ client.op \in {"discover", "list"} /\ Answered("result")
  /\ client.pages < MaxPages
  /\ process' = Read
  /\ client' = [client EXCEPT !.at = "send", !.pages = @ + 1]
  /\ UNCHANGED <<held, initialized, index, offered, ran, told>>

\* The last page: the routes of the server are replaced.  Of two tools with one name
\* that which is listed last is routed.
Discovered ==
  /\ client.at = "wait" /\ client.op = "discover" /\ Answered("result")
  /\ process' = Read
  /\ \E found \in SUBSET ToolsOf[server] :
       LET Named(q) == {t \in {server} \X found : Qualified[t] = q}
           names    == {Qualified[t] : t \in {server} \X found}
       IN  /\ \E route \in [names -> {server} \X found] :
                /\ \A q \in names : route[q] \in Named(q)
                /\ index' = [q \in DOMAIN Unrouted \cup names |->
                               IF q \in names THEN route[q] ELSE index[q]]
           /\ offered' = offered \cup ({server} \X found)
  /\ Done
  /\ UNCHANGED <<held, initialized, ran, told>>

Succeeds ==
  /\ client.at = "wait" /\ client.op \in {"list", "read", "call"} /\ Answered("result")
  /\ process' = Read
  /\ told' = IF client.op = "call" THEN "ok" ELSE told
  /\ Done
  /\ UNCHANGED <<held, initialized, index, offered, ran>>

-----------------------------------------------------------------------------
\* A conflict of names is not looked for.
Conflict_FaultyIgnored == FALSE

\* with_runtime_tools: a name that stands twice in what was discovered.
Conflict == \E t, u \in offered : Qualified[t] = Qualified[u] /\ t # u

\* The tools become tools of the registry; if two have one name, the runtime is not
\* built, and what was started is left without its manager.
Offer ==
  /\ client.at = "offer"
  /\ client' = [Resting EXCEPT !.at = IF Conflict THEN "aborted" ELSE "idle"]
  /\ UNCHANGED <<held, initialized, process, index, offered, ran, told>>

\* Drop of BuiltRuntime: every process is killed, and the manager is gone.
Shutdown ==
  /\ client.at = "idle"
  /\ held' = [s \in Servers |-> None] /\ initialized' = {}
  /\ process' = [p \in Processes |->
                   IF \E s \in Servers : held[s] = p THEN Unused ELSE process[p]]
  /\ client' = [Resting EXCEPT !.at = "off"]
  /\ index' = [q \in {} |-> None] /\ offered' = {}
  /\ UNCHANGED <<ran, told>>

Errors == {"invalid", "transport", "timeout"}

\* What the client does without being asked to.
ClientStep ==
  \/ SpawnFails \/ Spawn \/ GreetAgain \/ AlreadyReady \/ Send
  \/ Initialized \/ Refused \/ Empty \/ NextPage \/ Discovered \/ Succeeds \/ Offer
  \/ \E e \in Errors : InitializeFails(e) \/ RequestFails(e)

Next ==
  \/ Start \/ ListOrRead \/ Shutdown \/ ClientStep
  \/ \E q \in ToolNames : Call(q)
  \/ \E p \in Processes : Handle(p) \/ Chatter(p) \/ Exit(p)

\* The client is a running thread and its timers fire; nothing is assumed of servers.
Spec == Init /\ [][Next]_vars /\ WF_vars(ClientStep)
-----------------------------------------------------------------------------
(* Properties *)

TypeOK ==
  /\ held \in [Servers -> Processes \cup {None}] /\ initialized \subseteq Servers
  /\ process \in [Processes -> Process]
  /\ client \in Client /\ (client.at \in {"ready", "init", "send", "wait"} => client.todo # <<>>)
  /\ DOMAIN index \subseteq ToolNames /\ offered \subseteq Servers \X Tools
  /\ \A q \in DOMAIN index : index[q] \in Servers \X Tools
  /\ ran \in Nat /\ told \in {"nothing", "ok", "failed"}

\* Timeouts, retries and replacements leave no server process behind: each that lives
\* is held by one server (reset_server, ensure_server_ready), until a runtime that
\* could not be built drops its manager.
OneProcess ==
  client.at # "aborted" =>
    \A p \in Processes : process[p].live => \E s \in Servers : held[s] = p /\
                             \A r \in Servers : held[r] = p => r = s

\* No process is asked for tools, resources or a call before it has answered initialize
\* with a result: the flag initialized never outlives the process it is about.
HandshakeFirst ==
  \A p \in Processes : process[p].asked \in {"list", "read", "call"} => process[p].greeted

\* A name the model may call leads to the tool it was discovered as, also when names of
\* two servers or of two tools are one after normalisation (with_runtime_tools).
OfferedToolsReachTheirServer ==
  client.at \notin {"off", "aborted", "offer"} /\ client.op # "discover" =>
    \A t \in offered : Qualified[t] \in DOMAIN index /\ index[Qualified[t]] = t

\* A call runs its tool at most once, and success is told only of a call that ran: it is
\* not sent again when its answer is lost, and a late answer is not taken for its own.
Once == INSTANCE AtMostOnce WITH asked <- client.op = "call"

CallsRunAtMostOnce == Once!Spec

\* Every operation ends, whatever the servers do: a silent or dying server costs each
\* request a timeout and a bounded number of retries.  That lists end is assumed (MaxPages).
EveryOpEnds == (client.op # "none") ~> (client.op = "none")
===============================================================================
