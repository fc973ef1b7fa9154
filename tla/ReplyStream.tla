------------------------------ MODULE ReplyStream -----------------------------
(***************************************************************************)
(* How a reply of the model is put together.  The server sends chunks in   *)
(* the OpenAI format; the adapter (api/src/providers/openai_compat.rs,     *)
(* StreamState) turns them into events of content blocks; and the CLI      *)
(* (rusty-claude-cli/src/main.rs, consume_stream) and the desktop agent    *)
(* (desktop/src/agent.rs, stream_step) each build the reply from them.     *)
(*                                                                         *)
(* Text is abstracted to numbered pieces of its source: the reasoning, the *)
(* text, or the arguments of a call.  Both readers are given the same      *)
(* stream here; the stall timeout is the CLI's.  Usage, the stop reason,   *)
(* and tool calls that a model writes into its text are left out.          *)
(***************************************************************************)
EXTENDS Naturals, Sequences

CONSTANTS
  MaxCalls,      \* bound: tool calls of a reply
  MaxPieces,     \* bound: pieces of a source
  ReasonsFirst   \* whether the server sends its reasoning before everything else

ASSUME ReplyConstants ==
  /\ MaxCalls \in Nat \ {0} /\ MaxPieces \in Nat \ {0} /\ ReasonsFirst \in BOOLEAN

VARIABLES
  server,   \* what the server has sent of its reply
  state,    \* StreamState
  pending,  \* events to be delivered
  line,     \* the connection, and the request
  post,     \* the request ends with a tool result, and its first attempt is under way
  block,    \* what the events amount to, index by index
  message,  \* whether the message has begun or ended
  cli,      \* consume_stream
  shown,    \* text that the CLI has printed
  desk      \* stream_step

vars == <<server, state, pending, line, post, block, message, cli, shown, desk>>

\* The indices the server gives to its calls.
Calls == 0..MaxCalls - 1

Thinking  == <<"thinking", 0>>
Text      == <<"text", 0>>
Call(i)   == <<"call", i>>
Nothing   == <<"nothing", 0>>
Sources   == {Thinking, Text} \cup {Call(i) : i \in Calls}

\* Pieces a to b of a source.
From(s, a, b) == [n \in 1..(b - a + 1) |-> <<s, a + n - 1>>]

\* A part of a call in a chunk: it may name the call and bring a piece of its arguments.
Part == [index : Calls, named : BOOLEAN, args : BOOLEAN]

\* The parts of a chunk, in the order of the calls.
Parts == {p \in UNION {[1..n -> Part] : n \in 0..MaxCalls} :
            \A m, n \in DOMAIN p : m < n => p[m].index < p[n].index}

Silent == [sent |-> [s \in Sources |-> 0], named |-> {}, begun |-> 0, finished |-> FALSE]

\* ToolCallState; unsent is the part of the arguments after emitted_len.
NoCall == [named |-> FALSE, unsent |-> <<>>, started |-> FALSE, stopped |-> FALSE]

Fresh == [begun |-> FALSE, thinking |-> FALSE, thought |-> FALSE, text |-> FALSE,
          call |-> [i \in Calls |-> NoCall]]

Unread == [slot |-> Nothing, input |-> <<>>, thinks |-> FALSE, thought |-> <<>>, events |-> <<>>]

Blocks == INSTANCE BlockStream WITH
  Indices <- 0..MaxCalls + 1,
  Content <- {From(s, a, b) : s \in Sources, a \in 1..MaxPieces, b \in 1..MaxPieces}

Request ==
  /\ server' = Silent /\ state' = Fresh /\ pending' = <<>> /\ line' = "open"
  /\ post' \in BOOLEAN
  /\ block' = [i \in 0..MaxCalls + 1 |-> Blocks!Unbegun] /\ message' = "none"
  /\ cli' = Unread /\ shown' = <<>> /\ desk' = [calls |-> <<>>, text |-> <<>>]

Init ==
  /\ server = Silent /\ state = Fresh /\ pending = <<>> /\ line = "open"
  /\ post \in BOOLEAN
  /\ block = [i \in 0..MaxCalls + 1 |-> Blocks!Unbegun] /\ message = "none"
  /\ cli = Unread /\ shown = <<>> /\ desk = [calls |-> <<>>, text |-> <<>>]

-----------------------------------------------------------------------------
(* The adapter: operators on the state and the events made so far *)

Put(r, kind, index, of, pieces) ==
  [r EXCEPT !.events = Append(@, [kind |-> kind, index |-> index, of |-> of, pieces |-> pieces])]

Stop(r, index) == Put(r, "stop", index, Nothing, <<>>)

\* message_started
Begun(r) == IF r.state.begun THEN r
            ELSE Put([r EXCEPT !.state.begun = TRUE], "begin", 0, Nothing, <<>>)

TextIndex(r) == IF r.state.thinking THEN 1 ELSE 0
Offset(r)    == IF r.state.thinking THEN 2 ELSE 1

\* close_thinking
Thought(r) == IF r.state.thinking /\ ~r.state.thought
                THEN Stop([r EXCEPT !.state.thought = TRUE], 0) ELSE r

Reasons(r, piece) ==
  LET open == IF r.state.thinking THEN r
              ELSE Put([r EXCEPT !.state.thinking = TRUE], "start", 0, Thinking, <<>>)
  IN  Put(open, "delta", 0, Thinking, piece)

Says(r, piece) ==
  LET closed == Thought(r)
      open   == IF r.state.text THEN closed
                ELSE Put([closed EXCEPT !.state.text = TRUE], "start", TextIndex(r), Text, <<>>)
  IN  Put(open, "delta", TextIndex(r), Text, piece)

\* apply
Applied(r, part, piece) ==
  [r EXCEPT !.state.call[part.index].named = @ \/ part.named,
            !.state.call[part.index].unsent = @ \o piece]

\* start_event: a call is started once it has a name.
Started(r, i) ==
  IF r.state.call[i].started \/ ~r.state.call[i].named THEN r
  ELSE Put([r EXCEPT !.state.call[i].started = TRUE], "start", i + Offset(r), Call(i), <<>>)

\* Only the last piece is sent, not what came before the name.
Sent_FaultyLast(r, i) ==
  LET c == r.state.call[i] IN
  IF ~c.started \/ c.unsent = <<>> THEN r
  ELSE Put([r EXCEPT !.state.call[i].unsent = <<>>], "delta", i + Offset(r), Call(i),
           <<c.unsent[Len(c.unsent)]>>)

\* delta_event: all arguments that have not been sent.
Sent(r, i) ==
  LET c == r.state.call[i] IN
  IF ~c.started \/ c.unsent = <<>> THEN r
  ELSE Put([r EXCEPT !.state.call[i].unsent = <<>>], "delta", i + Offset(r), Call(i), c.unsent)

\* A call is stopped whether or not it has been.
Stopped_FaultyTwice(r, i) ==
  IF r.state.call[i].started
    THEN Stop([r EXCEPT !.state.call[i].stopped = TRUE], i + Offset(r)) ELSE r

Stopped(r, i) ==
  IF r.state.call[i].started /\ ~r.state.call[i].stopped
    THEN Stop([r EXCEPT !.state.call[i].stopped = TRUE], i + Offset(r)) ELSE r

\* One part of a call; it ends with the chunk that says tool_calls.
Asks(r, part, piece, finish) ==
  LET sent == Sent(Started(Applied(Thought(r), part, piece), part.index), part.index)
  IN  IF finish = "tool_calls" THEN Stopped(sent, part.index) ELSE sent

\* The calls that are open end when the server says tool_calls.
CallsEnd(r, finish) ==
  LET ended[n \in 0..MaxCalls] == IF n = 0 THEN r ELSE Stopped(ended[n - 1], n - 1)
  IN  IF finish = "tool_calls" THEN ended[MaxCalls] ELSE r

\* finish: what is open ends, and then the message, if it ever began.
Finished(r) ==
  LET thought == Thought(r)
      text    == IF r.state.text THEN Stop(thought, TextIndex(r)) ELSE thought
      calls[n \in 0..MaxCalls] ==
        IF n = 0 THEN text ELSE Stopped(Sent(Started(calls[n - 1], n - 1), n - 1), n - 1)
  IN  IF r.state.begun THEN Put(calls[MaxCalls], "end", 0, Nothing, <<>>) ELSE calls[MaxCalls]

-----------------------------------------------------------------------------
(* The server, and what the adapter makes of a chunk *)

\* The next piece of a source.
Piece(s, there) == IF there THEN From(s, server.sent[s] + 1, server.sent[s] + 1) ELSE <<>>

Room(s, there) == there => server.sent[s] < MaxPieces

\* Calls come one after the other, as they are numbered; reasoning, if ReasonsFirst, comes
\* before all else; nothing comes after the reason why the server finishes.
Allowed(reasons, says, parts) ==
  /\ ~server.finished
  /\ Room(Thinking, reasons) /\ Room(Text, says)
  /\ reasons /\ ReasonsFirst => server.sent[Text] = 0 /\ server.begun = 0
  /\ \A n \in DOMAIN parts :
       /\ Room(Call(parts[n].index), parts[n].args)
       /\ parts[n].index + 1 >= server.begun
       /\ parts[n].index <= IF n = 1 THEN server.begun ELSE parts[n - 1].index + 1

Chunk(reasons, says, parts, finish) ==
  /\ line = "open" /\ pending = <<>> /\ Allowed(reasons, says, parts)
  /\ LET r0 == Begun([state |-> state, events |-> <<>>])
         r1 == IF reasons THEN Reasons(r0, Piece(Thinking, TRUE)) ELSE r0
         r2 == IF says THEN Says(r1, Piece(Text, TRUE)) ELSE r1
         r3[n \in 0..Len(parts)] ==
           IF n = 0 THEN r2
           ELSE Asks(r3[n - 1], parts[n], Piece(Call(parts[n].index), parts[n].args), finish)
         r4 == CallsEnd(r3[Len(parts)], finish)
     IN  state' = r4.state /\ pending' = r4.events
  /\ server' = [sent |-> [s \in Sources |-> server.sent[s] +
                            IF \/ s = Thinking /\ reasons
                               \/ s = Text /\ says
                               \/ \E n \in DOMAIN parts : s = Call(parts[n].index) /\ parts[n].args
                              THEN 1 ELSE 0],
                named |-> server.named \cup
                            {i \in Calls : \E n \in DOMAIN parts : parts[n].index = i /\ parts[n].named},
                begun |-> IF parts = <<>> THEN server.begun ELSE parts[Len(parts)].index + 1,
                finished |-> finish # "none"]
  /\ UNCHANGED <<line, post, block, message, cli, shown, desk>>

\* The body ends, at any point: also without a reason or [DONE].
Close ==
  /\ line = "open" /\ pending = <<>>
  /\ LET r == Finished([state |-> state, events |-> <<>>])
     IN  state' = r.state /\ pending' = r.events
  /\ line' = "closed"
  /\ UNCHANGED <<server, post, block, message, cli, shown, desk>>

\* An error of the connection, or a frame that is no chunk, fails the request.
Break ==
  /\ line = "open" /\ pending = <<>> /\ line' = "failed"
  /\ UNCHANGED <<server, state, pending, post, block, message, cli, shown, desk>>

-----------------------------------------------------------------------------
(* The readers *)

\* A pending tool that has been flushed is flushed again.
Flushed_FaultyKeeps(c) ==
  LET thought == IF c.thinks THEN <<[of |-> Thinking, pieces |-> c.thought]>> ELSE <<>>
      tool    == IF c.slot # Nothing THEN <<[of |-> c.slot, pieces |-> c.input]>> ELSE <<>>
  IN  [c EXCEPT !.events = @ \o thought \o tool, !.thinks = FALSE]

\* The end of any block flushes the reasoning and the tool that are pending.
Flushed(c) ==
  LET thought == IF c.thinks THEN <<[of |-> Thinking, pieces |-> c.thought]>> ELSE <<>>
      tool    == IF c.slot # Nothing THEN <<[of |-> c.slot, pieces |-> c.input]>> ELSE <<>>
  IN  [Unread EXCEPT !.events = c.events \o thought \o tool]

\* consume_stream keeps one pending tool, and does not look at the index.  A reasoning
\* block is pushed when it starts, empty, and again when it is flushed.
CliReads(c, e) ==
  CASE e.kind = "start" /\ e.of = Thinking ->
         [c EXCEPT !.thinks = TRUE, !.thought = <<>>,
                     !.events = Append(@, [of |-> Thinking, pieces |-> <<>>])]
    [] e.kind = "start" /\ e.of[1] = "call" -> [c EXCEPT !.slot = e.of, !.input = <<>>]
    [] e.kind = "delta" /\ e.of = Text ->
         [c EXCEPT !.events = Append(@, [of |-> Text, pieces |-> e.pieces])]
    [] e.kind = "delta" /\ e.of = Thinking /\ c.thinks -> [c EXCEPT !.thought = @ \o e.pieces]
    [] e.kind = "delta" /\ e.of[1] = "call" /\ c.slot # Nothing ->
         [c EXCEPT !.input = @ \o e.pieces]
    [] e.kind = "stop" -> Flushed(c)
    [] OTHER -> c

\* stream_step keeps the calls by the index of their block; a delta goes to the first
\* call that has its index.
DeskReads(d, e) ==
  LET mine == {n \in DOMAIN d.calls : d.calls[n].index = e.index} IN
  CASE e.kind = "start" /\ e.of[1] = "call" ->
         [d EXCEPT !.calls = Append(@, [index |-> e.index, of |-> e.of, pieces |-> <<>>])]
    [] e.kind = "delta" /\ e.of = Text -> [d EXCEPT !.text = @ \o e.pieces]
    [] e.kind = "delta" /\ e.of[1] = "call" /\ mine # {} ->
         [d EXCEPT !.calls[CHOOSE n \in mine : \A m \in mine : n <= m].pieces = @ \o e.pieces]
    [] OTHER -> d

\* What a reader who goes by the index sees.
BlockReads(b, e) ==
  CASE e.kind = "start" -> [b EXCEPT ![e.index].at = "open", ![e.index].of = e.of,
                                     ![e.index].marks = @ + 1]
    [] e.kind = "delta" -> [b EXCEPT ![e.index].content = @ \o e.pieces]
    [] e.kind = "stop"  -> [b EXCEPT ![e.index].at = "closed", ![e.index].marks = @ + 1]
    [] OTHER -> b

MessageReads(m, e) ==
  CASE e.kind = "begin" -> "open" [] e.kind = "end" -> "closed" [] OTHER -> m

\* Text is printed as it comes.
Prints(text, e) == IF e.kind = "delta" /\ e.of = Text THEN text \o e.pieces ELSE text

\* next_event
Deliver ==
  /\ pending # <<>>
  /\ LET e == Head(pending) IN
       /\ cli' = CliReads(cli, e) /\ desk' = DeskReads(desk, e) /\ block' = BlockReads(block, e)
       /\ message' = MessageReads(message, e) /\ shown' = Prints(shown, e)
  /\ pending' = Tail(pending)
  /\ UNCHANGED <<server, state, line, post>>

\* Any event may be waited for too long.
MayStall_FaultyAnyEvent == post

\* The timeout covers the first event after a tool result, and the first attempt.
MayStall == post /\ message = "none"

\* The stream is dropped and the same request sent again.
Stall ==
  /\ line = "open" /\ pending = <<>> /\ MayStall
  /\ server' = Silent /\ state' = Fresh /\ post' = FALSE
  /\ block' = [i \in 0..MaxCalls + 1 |-> Blocks!Unbegun] /\ message' = "none"
  /\ cli' = Unread /\ desk' = [calls |-> <<>>, text |-> <<>>]
  /\ UNCHANGED <<pending, line, shown>>

\* The end of the stream is the end of the request, if the message ended.
Complete ==
  /\ line = "closed" /\ pending = <<>> /\ message = "closed"
  /\ line' = "done"
  /\ UNCHANGED <<server, state, pending, post, block, message, cli, shown, desk>>

\* A stream without events: the CLI asks again, without streaming, and the answer comes
\* whole (response_to_events), or the request fails.  The desktop's reply is empty.
Fallback(says, n) ==
  /\ line = "closed" /\ pending = <<>> /\ message = "none"
  /\ LET calls == [i \in 1..n |-> [of |-> Call(i - 1), pieces |-> From(Call(i - 1), 1, 1)]]
         text  == IF says THEN <<[of |-> Text, pieces |-> From(Text, 1, 1)]>> ELSE <<>>
     IN  /\ cli' = [Unread EXCEPT !.events = text \o calls]
         /\ shown' = IF says THEN shown \o From(Text, 1, 1) ELSE shown
         /\ server' = [Silent EXCEPT
              !.sent = [s \in Sources |->
                 IF (s = Text /\ says) \/ (\E i \in 1..n : s = Call(i - 1)) THEN 1 ELSE 0],
              !.named = 0..n - 1, !.begun = n, !.finished = TRUE]
  /\ line' = "answered"
  /\ UNCHANGED <<state, pending, post, block, message, desk>>

FallbackFails ==
  /\ line = "closed" /\ pending = <<>> /\ message = "none" /\ line' = "failed"
  /\ UNCHANGED <<server, state, pending, post, block, message, cli, shown, desk>>

\* The next request of the turn, or of the next turn.
NextRequest == line \in {"done", "answered", "failed"} /\ Request

Next ==
  \/ \E reasons, says \in BOOLEAN, parts \in Parts, finish \in {"none", "stop", "tool_calls"} :
       Chunk(reasons, says, parts, finish)
  \/ Close \/ Break \/ Deliver \/ Stall \/ Complete \/ FallbackFails \/ NextRequest
  \/ \E says \in BOOLEAN, n \in 0..MaxCalls : Fallback(says, n)

Spec == Init /\ [][Next]_vars

-----------------------------------------------------------------------------
(* Properties *)

TypeOK ==
  /\ server.named \subseteq Calls /\ server.begun \in 0..MaxCalls
  /\ server.sent \in [Sources -> 0..MaxPieces]
  /\ \A n \in DOMAIN pending : pending[n].kind \in {"begin", "start", "delta", "stop", "end"}
  /\ line \in {"open", "closed", "done", "answered", "failed"}
  /\ cli.slot \in {Nothing} \cup {Call(i) : i \in Calls}

\* What the server sent of a source, in full.
Whole(s) == From(s, 1, server.sent[s])

\* The events that the adapter makes of any order of chunks, cut anywhere, are a proper
\* stream of blocks: nothing grows or ends that has not begun, all that begins ends, once,
\* and before the message does.
KeepsProtocol == Blocks!Spec

\* The desktop agent has every call that was named, each once and with its own arguments,
\* also with names that come after arguments, and all of the text (stream_step).
DesktopGetsEveryCall ==
  line = "done" =>
    /\ desk.text = Whole(Text)
    /\ {<<desk.calls[n].of, desk.calls[n].pieces>> : n \in DOMAIN desk.calls}
         = {<<Call(i), Whole(Call(i))>> : i \in server.named}
    /\ \A m, n \in DOMAIN desk.calls : desk.calls[m].of = desk.calls[n].of => m = n

CliCalls == {n \in DOMAIN cli.events : cli.events[n].of[1] = "call"}

\* A call that the CLI runs is one the model made, once and with its own arguments; and a
\* reply with calls never passes for one without (consume_stream).
CliCallsAreWhole ==
  line \in {"done", "answered"} =>
    /\ \A n \in CliCalls : \E i \in server.named :
         cli.events[n] = [of |-> Call(i), pieces |-> Whole(Call(i))]
    /\ \A m, n \in CliCalls : cli.events[m].of = cli.events[n].of => m = n
    /\ server.named # {} => CliCalls # {}

TextOf(events) ==
  LET text[n \in 0..Len(events)] ==
        IF n = 0 THEN <<>>
        ELSE IF events[n].of = Text THEN text[n - 1] \o events[n].pieces ELSE text[n - 1]
  IN  text[Len(events)]

CliText == TextOf(cli.events)

\* What the user has read is what the conversation records, whatever was dropped and
\* sent again: the text printed during a request is the text of its reply.
ShownIsSaid ==
  line \in {"done", "answered"} => shown = CliText /\ CliText = Whole(Text)

\* Every call of the reply is run: "both valid tool results must be preserved"
\* (openai_compat.rs) supposes replies with two calls, and
\* stream_message_normalizes_text_and_multiple_tool_calls tests such a stream.
CliGetsEveryCall ==
  line = "done" => {cli.events[n].of : n \in CliCalls} = {Call(i) : i \in server.named}
===============================================================================
