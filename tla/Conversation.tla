---------------------------- MODULE Conversation ----------------------------
(***************************************************************************)
(* One CLI conversation: ConversationRuntime::run_turn                     *)
(* (runtime/src/conversation.rs), the in-memory Session it drives, the     *)
(* JSONL file behind it (runtime/src/session.rs), the compaction that      *)
(* shortens it (runtime/src/compact.rs), and the way the REPL recovers     *)
(* from an overflow with Trident (runtime/src/trident.rs), persists, exits *)
(* and resumes it (rusty-claude-cli/src/main.rs).                          *)
(*                                                                         *)
(* The text of a message is abstracted to an identity: a user message and  *)
(* an assistant message carry a fresh id, an assistant message the number  *)
(* n of ToolUse blocks in it, a tool message the id of the assistant       *)
(* message and the index n of the tool use it answers.  An answer reports  *)
(* one unit of input tokens or none (usage).  The file is the              *)
(* sequence of its records after the session_meta line.  What Trident      *)
(* makes of the texts is module OverflowRetry; here it may drop any tool   *)
(* use but the last and fold any messages it could fold.                   *)
(***************************************************************************)
EXTENDS Integers, Sequences, FiniteSets

CONSTANTS
  Preserve,       \* CompactionConfig::default().preserve_recent_messages
  Threshold,      \* auto_compaction_input_tokens_threshold
  Schedule,       \* preserve_schedule of the recovery
  CollapseThreshold,  \* TridentConfig::default().collapse_threshold
  ClusterMin,     \* TridentConfig::default().cluster_min_size
  MaxFolds,       \* bound: groups of messages one recovery folds
  MaxIterations,  \* max_iterations of the runtime
  MaxTools,       \* bound: tool uses in one assistant message
  Inputs,         \* bound: input tokens an answer reports
  RotateAfter,    \* records after which the file passes ROTATE_AFTER_BYTES
  KeepRotated,    \* MAX_ROTATED_FILES
  MaxId,          \* bound: user and assistant messages ever created
  MaxResumes      \* bound: times the session is resumed from its file

ASSUME ConversationConstants ==
  /\ Preserve \in Nat \ {0} /\ Threshold \in Nat
  /\ Schedule \in Seq(Nat) /\ MaxFolds \in Nat
  /\ CollapseThreshold \in Nat \ {0} /\ ClusterMin \in Nat \ {0}
  /\ MaxIterations \in Nat /\ MaxTools \in Nat /\ Inputs \subseteq {0, 1}
  /\ RotateAfter \in Nat \ {0} /\ KeepRotated \in Nat
  /\ MaxId \in Nat /\ MaxResumes \in Nat

VARIABLES
  pc,           \* where the process is
  messages,     \* Session::messages
  compactions,  \* Session::compaction: its count, 0 for None
  usage,        \* UsageTracker::cumulative_usage().input_tokens
  iterations,   \* of the running attempt at a turn
  round,        \* recoveries of the running turn
  batch,        \* the assistant message whose tool uses are being answered
  batchSize,    \* how many they are: pending_tool_uses.len()
  nextTool,     \* index of the tool use being handled
  disk,         \* the session file: present?, its records, last line unterminated?
  rotated,      \* the .rot- files, oldest first
  nextId,       \* source of fresh identities
  resumes,      \* resumes so far
  \* history variables
  interrupted,  \* assistant messages whose batch was cut short
  executed,     \* tool uses whose tool may have run: <<assistant id, index>>
  summarised,   \* messages a compaction replaced by its summary
  trimmed       \* messages Trident dropped or folded into a note

session == <<messages, compactions>>
turn    == <<usage, iterations, round, batch, batchSize, nextTool>>
files   == <<disk, rotated>>
history == <<interrupted, executed, summarised, trimmed>>
vars    == <<pc, session, turn, files, nextId, resumes, history>>

-----------------------------------------------------------------------------
(* Messages and records *)

Message == [role : {"user", "assistant", "tool", "system"}, id : Nat, n : Nat, usage : {0, 1}]

User(id)                == [role |-> "user", id |-> id, n |-> 0, usage |-> 0]
Assistant(id, k, input) == [role |-> "assistant", id |-> id, n |-> k, usage |-> input]
ToolResult(id, i)       == [role |-> "tool", id |-> id, n |-> i, usage |-> 0]
Summary                 == [role |-> "system", id |-> 0, n |-> 0, usage |-> 0]
Note                    == [role |-> "system", id |-> 0, n |-> 1, usage |-> 0]

\* A line of the file that no longer parses.
Torn   == [role |-> "torn", id |-> 0, n |-> 0, usage |-> 0]
Record == Message \cup {Torn}

Loadable(recs) == \A i \in 1..Len(recs) : recs[i] # Torn

NoFile == [exists |-> FALSE, recs |-> <<>>, open |-> FALSE]
Snapshot(msgs) == [exists |-> TRUE, recs |-> msgs, open |-> FALSE]

\* UsageTracker::from_session.
InputTokens(msgs) == Cardinality({i \in 1..Len(msgs) : msgs[i].usage = 1})

-----------------------------------------------------------------------------
(* compact_session.  Positions are the code's 0-based indices: message k   *)
(* of the code is msgs[k + 1].                                             *)

SummaryPrefix(msgs) == IF Len(msgs) > 0 /\ msgs[1] = Summary THEN 1 ELSE 0

\* The budget never stands in the way: the callers set it to zero.
ShouldCompact(msgs, preserve) == Len(msgs) - SummaryPrefix(msgs) > preserve

\* Where the walk back from a tool result stops.
IsBoundary(msgs, k) ==
  k \in {SummaryPrefix(msgs), Len(msgs)} \/ msgs[k + 1].role # "tool"

\* Faulty variants (suffix _Faulty...) are what a property must reject.
\* The boundary is not walked back from a tool result.
KeepFrom_FaultyNoWalkBack(msgs, preserve) == Len(msgs) - preserve

KeepFrom(msgs, preserve) ==
  LET raw == Len(msgs) - preserve
  IN  CHOOSE k \in SummaryPrefix(msgs)..raw :
        /\ IsBoundary(msgs, k)
        /\ \A l \in (k + 1)..raw : ~IsBoundary(msgs, l)

\* The summary leaves out the newest of the removed messages.
Removed_FaultyOffByOne(msgs, preserve) ==
  {msgs[i] : i \in (SummaryPrefix(msgs) + 1)..(KeepFrom(msgs, preserve) - 1)}

Removed(msgs, preserve) ==
  {msgs[i] : i \in (SummaryPrefix(msgs) + 1)..KeepFrom(msgs, preserve)}

Compacted(msgs, preserve) ==
  [i \in 1..(Len(msgs) - KeepFrom(msgs, preserve) + 1) |->
     IF i = 1 THEN Summary ELSE msgs[KeepFrom(msgs, preserve) + i - 1]]

\* The check is skipped on the terminal iteration, as before #3106.
AutoCompacts_FaultyTerminal(msgs, tokens) ==
  /\ tokens >= Threshold /\ ShouldCompact(msgs, Preserve) /\ Removed(msgs, Preserve) # {}
  /\ msgs[Len(msgs)].n > 0

\* maybe_auto_compact on the session just pushed to.
AutoCompacts(msgs, tokens) ==
  tokens >= Threshold /\ ShouldCompact(msgs, Preserve) /\ Removed(msgs, Preserve) # {}

AutoCompact(msgs, tokens) ==
  IF AutoCompacts(msgs, tokens)
    THEN /\ messages' = Compacted(msgs, Preserve)
         /\ compactions' = compactions + 1
         /\ summarised' = summarised \cup Removed(msgs, Preserve)
    ELSE /\ messages' = msgs
         /\ UNCHANGED <<compactions, summarised>>

-----------------------------------------------------------------------------
(* trident_compact_session, before it compacts *)

Uses(m) == m.role = "assistant" /\ m.n > 0

\* Stage 1 may drop what uses tools if a later message uses tools.
Overtakable(msgs) ==
  {i \in 1..Len(msgs) : Uses(msgs[i]) /\ \E j \in (i + 1)..Len(msgs) : Uses(msgs[j])}

\* Stage 2 folds a run without tools, stage 3 messages of one role.
Foldable(msgs, rest, g) ==
  /\ \A i \in g : msgs[i] # Summary
  /\ \/ /\ Cardinality(g) >= CollapseThreshold
        /\ \A i \in g : msgs[i].role # "tool" /\ ~Uses(msgs[i])
        /\ \A i \in g, j \in g, k \in rest : i < k /\ k < j => k \in g
     \/ /\ Cardinality(g) >= ClusterMin
        /\ \A i \in g : msgs[i].role # "system" /\ \A j \in g : msgs[i].role = msgs[j].role

\* The groups folded when stage 1 dropped the messages at over.
Folds(msgs, over) ==
  LET rest == (1..Len(msgs)) \ over IN
  {fold \in [1..MaxFolds -> {g \in SUBSET rest : g = {} \/ Foldable(msgs, rest, g)}] :
     \A a, b \in 1..MaxFolds : a # b => fold[a] \cap fold[b] = {}}

Folded(fold) == UNION {fold[f] : f \in 1..MaxFolds}
Leads(fold)  == {i \in Folded(fold) :
                   \E f \in 1..MaxFolds : i \in fold[f] /\ \A j \in fold[f] : i <= j}

\* A note stands where the first message of its group stood.
Rank(S, k) == Cardinality({i \in S : i <= k})
Trimmed(msgs, over, fold) ==
  LET stay == ((1..Len(msgs)) \ (over \cup Folded(fold))) \cup Leads(fold)
      At(n) == CHOOSE k \in stay : Rank(stay, k) = n
  IN  [n \in 1..Cardinality(stay) |-> IF At(n) \in Leads(fold) THEN Note ELSE msgs[At(n)]]

\* The batches that lost a message to Trident.
Touched == {m.id : m \in trimmed}

-----------------------------------------------------------------------------
(* append_persisted_message *)

\* The line lands after an unterminated one and makes both unreadable.
Appended(m) ==
  IF disk.open
    THEN [disk EXCEPT !.recs = [@ EXCEPT ![Len(@)] = Torn], !.open = FALSE]
    ELSE [disk EXCEPT !.recs = Append(@, m)]

\* The bootstrap snapshot is taken before the message is pushed.
FileWith_FaultyEarlySnapshot(m) ==
  IF disk.exists THEN Appended(m) ELSE Snapshot(messages)

\* A missing file is bootstrapped with a snapshot that contains m.
FileWith(m) ==
  IF disk.exists THEN Appended(m) ELSE Snapshot(Append(messages, m))

\* What the file may hold when the write of m failed or was cut short: nothing
\* of the line, a fragment of it, or all of it but the newline; for a
\* bootstrap nothing, or the snapshot when only the clean-up after it failed.
FileAfterBrokenWrite(m) ==
  {disk} \cup
  (IF ~disk.exists THEN {FileWith(m)}
   ELSE IF disk.open THEN {[disk EXCEPT !.recs = [@ EXCEPT ![Len(@)] = Torn]]}
   ELSE {[disk EXCEPT !.recs = Append(@, r), !.open = TRUE] : r \in {m, Torn}})

-----------------------------------------------------------------------------
(* The turn *)

Init ==
  /\ pc = "idle"
  /\ messages = <<>> /\ compactions = 0
  /\ usage = 0 /\ iterations = 0 /\ round = 0
  /\ batch = 0 /\ batchSize = 0 /\ nextTool = 0
  /\ disk = NoFile /\ rotated = <<>>
  /\ nextId = 1 /\ resumes = 0
  /\ interrupted = {} /\ executed = {} /\ summarised = {} /\ trimmed = {}

\* The health probe runs first when the session was compacted, and passes.
BeginTurn ==
  LET m == User(nextId) IN
  /\ pc = "idle"
  /\ nextId + MaxIterations <= MaxId
  /\ nextId' = nextId + 1
  /\ iterations' = 0 /\ round' = 0
  /\ usage' = InputTokens(messages)
  /\ \/ /\ messages' = Append(messages, m)
        /\ disk' = FileWith(m)
        /\ pc' = "stream"
     \/ /\ disk' \in FileAfterBrokenWrite(m)
        /\ pc' = "failed"
        /\ UNCHANGED messages
  /\ UNCHANGED <<compactions, batch, batchSize, nextTool, rotated, resumes, history>>

ProbeFails ==
  /\ pc = "idle" /\ compactions > 0 /\ messages # <<>>
  /\ pc' = "failed"
  /\ UNCHANGED <<session, turn, files, nextId, resumes, history>>

\* The iteration limit is never noticed.
OverLimit_FaultyNever == FALSE

OverLimit == iterations + 1 > MaxIterations

IterationLimit ==
  /\ pc = "stream" /\ OverLimit
  /\ pc' = "failed"
  /\ UNCHANGED <<session, turn, files, nextId, resumes, history>>

\* The provider fails, or build_assistant_message refuses its events, and
\* LiveCli::run_turn does not recover from that, or no longer, or the health
\* probe before the retry fails.
StreamFails ==
  /\ pc = "stream" /\ ~OverLimit
  /\ pc' = "failed"
  /\ UNCHANGED <<session, turn, files, nextId, resumes, history>>

\* LiveCli::run_turn takes the error for an overflow of the context window (a
\* stream without content or with an undecodable body too): Trident and a
\* compaction shorten the session, and the prompt is sent again.  The turn has
\* written its own prompt before, so there is a file.
Recover ==
  LET m == User(nextId) IN
  /\ pc = "stream" /\ ~OverLimit
  /\ round < Len(Schedule)
  /\ nextId + MaxIterations <= MaxId
  /\ \E over \in SUBSET Overtakable(messages) : \E fold \in Folds(messages, over) :
       LET msgs     == Trimmed(messages, over, fold)
           preserve == Schedule[round + 1]
           base     == IF ShouldCompact(msgs, preserve) THEN Compacted(msgs, preserve) ELSE msgs
           removed  == IF ShouldCompact(msgs, preserve) THEN Removed(msgs, preserve) ELSE {}
       IN  /\ removed # {} \/ round = 0
           /\ compactions' = IF ShouldCompact(msgs, preserve) THEN compactions + 1 ELSE compactions
           /\ summarised' = summarised \cup removed
           /\ trimmed' = trimmed \cup {messages[i] : i \in over \cup Folded(fold)}
           /\ usage' = InputTokens(base)
           /\ \/ /\ messages' = Append(base, m)
                 /\ disk' = FileWith(m)
                 /\ pc' = "stream"
              \/ /\ messages' = base
                 /\ disk' \in FileAfterBrokenWrite(m)
                 /\ pc' = "failed"
  /\ nextId' = nextId + 1
  /\ iterations' = 0 /\ round' = round + 1
  /\ UNCHANGED <<batch, batchSize, nextTool, rotated, resumes, interrupted, executed>>

AssistantReplies ==
  /\ pc = "stream" /\ ~OverLimit
  /\ nextId <= MaxId
  /\ iterations' = iterations + 1
  /\ nextId' = nextId + 1
  /\ \E k \in 0..MaxTools, input \in Inputs :
       LET m == Assistant(nextId, k, input) IN
       /\ usage' = usage + input
       /\ \/ /\ disk' = FileWith(m)
             /\ AutoCompact(Append(messages, m), usage')
             /\ batch' = nextId /\ batchSize' = k /\ nextTool' = 1
             /\ pc' = IF k = 0 THEN "persist" ELSE "tools"
             /\ UNCHANGED interrupted
          \/ /\ disk' \in FileAfterBrokenWrite(m)
             /\ pc' = "failed"
             /\ interrupted' = interrupted \cup {nextId}
             /\ UNCHANGED <<session, batch, batchSize, nextTool, summarised>>
  /\ UNCHANGED <<round, rotated, resumes, executed, trimmed>>

\* A failing tool abandons the rest of the batch.
RunTool_FaultyEarlyReturn ==
  /\ pc = "tools"
  /\ pc' \in {"record", "stream"}
  /\ executed' = executed \cup {<<batch, nextTool>>}
  /\ UNCHANGED <<session, turn, files, nextId, resumes, interrupted, summarised, trimmed>>

\* Pre hook, permission, tool and post hook: one that is denied counts too.
RunTool ==
  /\ pc = "tools"
  /\ pc' = "record"
  /\ executed' = executed \cup {<<batch, nextTool>>}
  /\ UNCHANGED <<session, turn, files, nextId, resumes, interrupted, summarised, trimmed>>

\* Only the first result of a batch is pushed.
PushResult_FaultyFirstOnly ==
  LET m == ToolResult(batch, nextTool) IN
  /\ pc = "record"
  /\ messages' = Append(messages, m)
  /\ disk' = FileWith(m)
  /\ pc' = "stream"
  /\ UNCHANGED <<compactions, turn, rotated, nextId, resumes, history>>

PushResult ==
  LET m == ToolResult(batch, nextTool) IN
  /\ pc = "record"
  /\ messages' = Append(messages, m)
  /\ disk' = FileWith(m)
  /\ IF nextTool < batchSize
       THEN pc' = "tools" /\ nextTool' = nextTool + 1
       ELSE pc' = "stream" /\ UNCHANGED nextTool
  /\ UNCHANGED <<compactions, usage, iterations, round, batch, batchSize, rotated, nextId, resumes,
                 history>>

PushResultFails ==
  /\ pc = "record"
  /\ disk' \in FileAfterBrokenWrite(ToolResult(batch, nextTool))
  /\ pc' = "failed"
  /\ interrupted' = interrupted \cup {batch}
  /\ UNCHANGED <<session, turn, rotated, nextId, resumes, executed, summarised, trimmed>>

-----------------------------------------------------------------------------
(* persist_session / save_to_path, /compact, exit, kill and resume *)

ManualCompact ==
  /\ pc = "idle"
  /\ pc' = "persist"
  /\ \/ UNCHANGED <<session, summarised>>          \* nothing to compact
     \/ /\ ShouldCompact(messages, Preserve) /\ Removed(messages, Preserve) # {}
        /\ messages' = Compacted(messages, Preserve)
        /\ compactions' = compactions + 1
        /\ summarised' = summarised \cup Removed(messages, Preserve)
  /\ UNCHANGED <<turn, files, nextId, resumes, interrupted, executed, trimmed>>

FileIsBig == disk.exists /\ Len(disk.recs) >= RotateAfter

Rotate ==
  /\ pc = "persist" /\ FileIsBig
  /\ rotated' = Append(rotated, disk.recs)
  /\ disk' = NoFile
  /\ pc' = "write"
  /\ UNCHANGED <<session, turn, nextId, resumes, history>>

WriteSnapshot ==
  /\ pc = "write" \/ (pc = "persist" /\ ~FileIsBig)
  /\ disk' = Snapshot(messages)
  /\ pc' = "cleanup"
  /\ UNCHANGED <<session, turn, rotated, nextId, resumes, history>>

\* An error of the rename to .rot-, of the temporary file, of its rename or of
\* the removal of old rotated files.
SaveFails ==
  /\ pc \in {"persist", "write", "cleanup"}
  /\ pc' = "failed"
  /\ UNCHANGED <<session, turn, files, nextId, resumes, history>>

Cleanup ==
  /\ pc = "cleanup"
  /\ rotated' = IF Len(rotated) > KeepRotated
                  THEN SubSeq(rotated, Len(rotated) - KeepRotated + 1, Len(rotated))
                  ELSE rotated
  /\ pc' = "idle"
  /\ UNCHANGED <<session, turn, disk, nextId, resumes, history>>

\* The process is gone, and its memory with it.
Vanish ==
  /\ pc' = "down"
  /\ messages' = <<>> /\ compactions' = 0
  /\ usage' = 0 /\ iterations' = 0 /\ round' = 0
  /\ batch' = 0 /\ batchSize' = 0 /\ nextTool' = 0
  /\ UNCHANGED <<rotated, resumes, executed, summarised, trimmed>>

\* run_repl propagates the error of a turn or of a save with `?`.
ExitOnError ==
  /\ pc = "failed"
  /\ Vanish
  /\ UNCHANGED <<disk, nextId, interrupted>>

\* The records whose append a kill can cut short.
InFlight ==
  IF pc = "record" THEN {ToolResult(batch, nextTool)}
  ELSE IF nextId > MaxId THEN {}
  ELSE IF pc = "idle" THEN {User(nextId)}
  ELSE IF pc = "stream" THEN {Assistant(nextId, k, 0) : k \in 0..MaxTools}
                              \cup (IF round < Len(Schedule) THEN {User(nextId)} ELSE {})
  ELSE {}

Crash ==
  /\ pc # "down"
  /\ Vanish
  /\ \/ /\ interrupted' = interrupted \cup (IF pc \in {"tools", "record"} THEN {batch} ELSE {})
        /\ UNCHANGED <<disk, nextId>>
     \/ \E m \in InFlight :
          /\ disk' \in FileAfterBrokenWrite(m) \cup {FileWith(m)}
          /\ nextId' = IF m.role = "tool" THEN nextId ELSE nextId + 1
          /\ interrupted' = interrupted \cup {m.id}

\* load_from_path: one bad line refuses the whole file.
Resume ==
  /\ pc = "down" /\ resumes < MaxResumes
  /\ resumes' = resumes + 1
  /\ disk.exists /\ Loadable(disk.recs)
  /\ messages' = disk.recs
  /\ compactions' = IF SummaryPrefix(disk.recs) = 1 THEN 1 ELSE 0
  /\ pc' = "idle"
  /\ UNCHANGED <<turn, files, nextId, history>>

-----------------------------------------------------------------------------
Next ==
  \/ BeginTurn \/ ProbeFails
  \/ IterationLimit \/ StreamFails \/ Recover \/ AssistantReplies
  \/ RunTool \/ PushResult \/ PushResultFails
  \/ ManualCompact \/ Rotate \/ WriteSnapshot \/ SaveFails \/ Cleanup
  \/ ExitOnError \/ Crash \/ Resume

Spec == Init /\ [][Next]_vars

\* The loop of run_turn keeps going: the provider answers, tools return, the
\* file system returns.
Fairness ==
  /\ WF_vars(IterationLimit \/ AssistantReplies)
  /\ WF_vars(RunTool)
  /\ WF_vars(PushResult \/ PushResultFails)

FairSpec == Spec /\ Fairness

-----------------------------------------------------------------------------
(* Properties *)

TypeOK ==
  /\ pc \in {"idle", "stream", "tools", "record", "persist", "write",
             "cleanup", "failed", "down"}
  /\ messages \in Seq(Message)
  /\ compactions \in Nat /\ usage \in Nat /\ iterations \in Nat /\ round \in Nat
  /\ batch \in Nat /\ batchSize \in Nat /\ nextTool \in Nat
  /\ disk \in [exists : BOOLEAN, recs : Seq(Record), open : BOOLEAN]
  /\ rotated \in Seq(Seq(Record))
  /\ nextId \in Nat /\ resumes \in Nat
  /\ interrupted \subseteq Nat /\ executed \subseteq (Nat \X Nat)
  /\ summarised \subseteq Message /\ trimmed \subseteq Message

\* msgs[j] is the assistant message whose uses include the result msgs[i],
\* and nothing but results of its uses stands between them.
Answers(msgs, i, j) ==
  /\ msgs[j].role = "assistant"
  /\ msgs[j].id = msgs[i].id /\ msgs[i].n <= msgs[j].n
  /\ \A l \in (j + 1)..i : msgs[l].role = "tool" /\ msgs[l].id = msgs[i].id

Paired(msgs, spared) ==
  \A i \in 1..Len(msgs) :
    msgs[i].role = "tool" /\ msgs[i].id \notin spared => \E j \in 1..(i - 1) : Answers(msgs, i, j)

(* No tool result ever stands in the session, or in a session file that     *)
(* loads, without the assistant message that asked for it directly before   *)
(* it: compaction never splits a pair (compact.rs:118-127), whatever the    *)
(* interleaving of turns, recoveries, compactions, failed writes, kills and *)
(* reloads.  Only a batch of which Trident dropped or folded a message may  *)
(* be apart.                                                                *)
NoOrphanResults ==
  /\ Paired(messages, Touched)
  /\ Loadable(disk.recs) => Paired(disk.recs, Touched)

Answered(msgs, j) ==
  \A i \in 1..msgs[j].n :
    /\ j + i <= Len(msgs)
    /\ msgs[j + i] = ToolResult(msgs[j].id, i)

(* Whenever the conversation is sent to the provider, every tool use in it  *)
(* has its result directly behind it, in order, unless the turn that ran    *)
(* the tools was cut short by a failed write or a kill, or Trident took a   *)
(* message of the batch.                                                    *)
RequestsAreAnswered ==
  pc = "stream" =>
    \A j \in 1..Len(messages) :
      (messages[j].role = "assistant" /\ messages[j].id \notin interrupted \cup Touched)
        => Answered(messages, j)

\* A message of the conversation itself that Trident never took.
Own(m) == m.role \notin {"system", "torn"} /\ m \notin trimmed

\* The record k is the message i, and the same own messages follow both.
SameFrom(msgs, recs, i, k) ==
  /\ recs[k] = msgs[i]
  /\ \A l \in (k + 1)..Len(recs) : Own(recs[l]) => \E j \in (i + 1)..Len(msgs) : msgs[j] = recs[l]
  /\ \A j \in (i + 1)..Len(msgs) : Own(msgs[j]) => \E l \in (k + 1)..Len(recs) : recs[l] = msgs[j]

(* While the process works, the file holds every message of the session,    *)
(* and behind it exactly those that follow it in the session, although      *)
(* compactions and recoveries shorten the session and never rewrite the     *)
(* file: a kill loses no message push_message accepted, and reorders none.  *)
(* Only summaries, notes and what Trident took may differ.                  *)
DiskCoversMemory ==
  (/\ pc \in {"idle", "stream", "tools", "record", "persist"}
   /\ disk.exists /\ ~disk.open /\ Loadable(disk.recs))
    => \A i \in 1..Len(messages) :
         Own(messages[i]) => \E k \in 1..Len(disk.recs) : SameFrom(messages, disk.recs, i, k)

SomewhereKept(m) ==
  \/ \E i \in 1..Len(messages) : messages[i] = m
  \/ \E i \in 1..Len(disk.recs) : disk.recs[i] = m
  \/ \E f \in 1..Len(rotated) : \E i \in 1..Len(rotated[f]) : rotated[f][i] = m
  \/ m \in summarised \cup trimmed

\* The assistant message that asked for the tool use e.
CallKept(e) ==
  \E k \in e[2]..MaxTools, input \in Inputs \cup {0} : SomewhereKept(Assistant(e[1], k, input))

(* A tool that ran was asked for by a message that is in the session, in    *)
(* the file, in a rotated file or in a summary, even if a failed write or a *)
(* kill cut the turn short right after the tool had its effect; and unless  *)
(* one did, its result is there too.  (Trident may have taken either.)      *)
EffectsAreRecorded ==
  \A e \in executed :
    /\ CallKept(e)
    /\ \/ SomewhereKept(ToolResult(e[1], e[2]))
       \/ e[1] \in interrupted
       \/ pc = "record" /\ e = <<batch, nextTool>>

(* A rewrite of the file (snapshot, rotation, bootstrap) never drops a       *)
(* record but for those a summary or Trident's notes stand for, or Trident   *)
(* dropped for a later edit; only a line left without newline by a broken    *)
(* write can be spoilt by the next append.                                   *)
NothingSilentlyDropped ==
  [][\A m \in {disk.recs[i] : i \in 1..(Len(disk.recs) - (IF disk.open THEN 1 ELSE 0))} :
       m.role \notin {"system", "torn"} => SomewhereKept(m)']_vars

\* No result in the session lost its assistant message to Trident.
Whole(msgs, spared) ==
  \A i \in 1..Len(msgs) : msgs[i].role = "tool" => msgs[i].id \notin spared

(* "including on the terminal (no-tool) iteration, to prevent unbounded      *)
(* session growth" (conversation.rs): once the input tokens pass the         *)
(* threshold, every answer leaves at most the preserved messages, the        *)
(* summary and the results the walk back kept with their assistant message;  *)
(* but the walk back also keeps any run of results whose assistant message   *)
(* Trident dropped.                                                          *)
GrowthIsBounded ==
  [][(pc = "stream" /\ pc' \in {"tools", "persist"} /\ usage' >= Threshold
      /\ Whole(messages', Touched'))
       => Len(messages') <= 1 + Preserve + MaxTools]_vars

(* run_turn with max_iterations set returns, provided the provider, the      *)
(* tools and the file system do.                                            *)
TurnEnds ==
  (pc \in {"stream", "tools", "record"}) ~> (pc \in {"persist", "failed", "down"})
=============================================================================
