---------------------------- MODULE OverflowRetry ----------------------------
(***************************************************************************)
(* What the CLI does when the provider refuses a request because it is too *)
(* large: LiveCli::run_turn (rusty-claude-cli/src/main.rs) compacts with   *)
(* the Trident pipeline (runtime/src/trident.rs: supersede, collapse,      *)
(* cluster) followed by compact_session, preserving fewer recent messages  *)
(* each round, and retries.                                                *)
(*                                                                         *)
(* The text of a message is its size, short or long.  What is put in place *)
(* of messages says which of them it still quotes, shortened, and which it *)
(* only counts.  What the recovery does to the file of the session, and    *)
(* the compaction at the end of an answer, are in module Conversation.     *)
(***************************************************************************)
EXTENDS Integers, Sequences, FiniteSets, SequencesExt

CONSTANTS
  Paths,              \* the files the tools name
  Schedule,           \* preserve_schedule
  CollapseThreshold,  \* TridentConfig::default().collapse_threshold
  ClusterMin,         \* TridentConfig::default().cluster_min_size
  Topics,             \* how many messages a collapsed run quotes
  OutputSizes,        \* bound: the sizes of tool results
  NoteSize,           \* the size of the notes that collapse and cluster write
  MaxOps,             \* bound: tool uses in one assistant message
  MaxId               \* bound: user and assistant messages ever created

ASSUME OverflowConstants ==
  /\ Schedule \in Seq(Nat) /\ Len(Schedule) > 0
  /\ CollapseThreshold \in Nat \ {0} /\ ClusterMin \in Nat \ {0} /\ Topics \in Nat
  /\ IsFiniteSet(Paths) /\ OutputSizes \subseteq {1, 2} /\ NoteSize \in {1, 2}
  /\ MaxOps \in Nat /\ MaxId \in Nat

VARIABLES
  pc,         \* idle, send (a request is out), overflow, failed
  live,       \* messages of self.runtime's session
  turn,       \* messages of the turn's own runtime
  round,      \* 0 for the first attempt, then the round of the retry
  compacted,  \* the turn's session has a SessionCompaction
  prompt,     \* the user message of this turn
  fresh,      \* nothing came back yet for this attempt
  adapted,    \* the turn's runtime has the threshold the server's error named
  learnt,     \* history: an error of this turn named the server's window
  nextId

vars == <<pc, live, turn, round, compacted, prompt, fresh, adapted, learnt, nextId>>

-----------------------------------------------------------------------------
(* Messages *)

Short == 1
Long  == 2

\* A tool use: the tool and its path; "other" is any tool without a file.
Ops == ({"read", "write", "edit"} \X Paths) \cup {<<"other", "none">>}

Msg(kind, id, ops, size, quotes, counts) ==
  [kind |-> kind, id |-> id, ops |-> ops, size |-> size, quotes |-> quotes, counts |-> counts]

User(id, size)       == Msg("user", id, {}, size, {}, {})
Answer(id, size)     == Msg("answer", id, {}, size, {}, {})
Use(id, ops, size)   == Msg("use", id, ops, size, {}, {})
Result(id, op, size) == Msg("result", id, {op}, size, {}, {})

\* What the messages at the positions in S say of the conversation's own ones.
Own == {"user", "answer", "use"}
Verbatim(msgs, S) == {msgs[i].id : i \in {k \in S : msgs[k].kind \in Own}}
Quoted(msgs, S)   == UNION {msgs[i].quotes : i \in S}
Counted(msgs, S)  == UNION {msgs[i].counts : i \in S}

\* The messages compaction writes have the role System.
Synthetic == {"summary", "collapsed", "clustered"}
Role(m) == CASE m.kind = "user" -> "user"
             [] m.kind \in {"answer", "use"} -> "assistant"
             [] m.kind = "result" -> "tool"
             [] OTHER -> "system"

\* The messages at the positions in S, in order.
Rank(S, k) == Cardinality({i \in S : i <= k})
At(msgs, S) == [n \in 1..Cardinality(S) |-> msgs[CHOOSE k \in S : Rank(S, k) = n]]

\* Each group of positions gives way to one message at its first position,
\* which counts the group.  That of a collapsed run quotes the first topics,
\* in 80 characters: of another note that is its count.
Lead(g) == CHOOSE i \in g : \A j \in g : i <= j
Note(msgs, g, kind) ==
  LET topics == IF kind = "collapsed" THEN {i \in g : Rank(g, i) <= Topics} ELSE {}
  IN  Msg(kind, 0, {}, NoteSize, Verbatim(msgs, topics),
          Verbatim(msgs, g) \cup Quoted(msgs, topics) \cup Counted(msgs, topics))

Folded(msgs, groups, kind) ==
  LET leads  == {Lead(g) : g \in groups}
      marked == [i \in 1..Len(msgs) |->
                   IF i \in leads THEN Note(msgs, CHOOSE g \in groups : i = Lead(g), kind)
                                  ELSE msgs[i]]
  IN  At(marked, ((1..Len(msgs)) \ UNION groups) \cup leads)

-----------------------------------------------------------------------------
(* Stage 1: supersede.  The results of the built-in tools name their file   *)
(* in a nested or camel-cased field, so only tool uses count as operations. *)

FileOpsAt(msgs, i, tools) ==
  IF msgs[i].kind = "use" THEN {op[2] : op \in {o \in msgs[i].ops : o[1] \in tools}} ELSE {}

\* A later read supersedes too.
Superseded_FaultyAnyLater(msgs, i) ==
  \E path \in FileOpsAt(msgs, i, {"read", "write", "edit"}), j \in (i + 1)..Len(msgs) :
    path \in FileOpsAt(msgs, j, {"read", "write", "edit"})

\* An edit of a part of the file supersedes like a write of all of it.
Superseded(msgs, i) ==
  \E path \in FileOpsAt(msgs, i, {"read", "write", "edit"}), j \in (i + 1)..Len(msgs) :
    path \in FileOpsAt(msgs, j, {"write", "edit"})

Supersede(msgs) == At(msgs, {i \in 1..Len(msgs) : ~Superseded(msgs, i)})

-----------------------------------------------------------------------------
(* Stage 2: collapse runs of chatty messages. *)

Chatty(m) == m.kind \notin {"use", "result", "summary"} /\ m.size = Short

ChattyRuns(msgs) ==
  {S \in {a..b : a, b \in 1..Len(msgs)} :
     /\ Cardinality(S) >= CollapseThreshold
     /\ \A i \in S : Chatty(msgs[i])
     /\ \A i \in S : \A k \in {i - 1, i + 1} \cap (1..Len(msgs)) : Chatty(msgs[k]) => k \in S}

Collapse(msgs) == Folded(msgs, ChattyRuns(msgs), "collapsed")

-----------------------------------------------------------------------------
(* Stage 3: cluster similar messages, greedily, in order. *)

\* Jaccard overlap as numerator and denominator; two empty sets agree.
Overlap(A, B) ==
  IF A \cup B = {} THEN <<1, 1>> ELSE <<Cardinality(A \cap B), Cardinality(A \cup B)>>

ToolNames(m) == {op[1] : op \in m.ops}
FilePaths(m) == IF m.kind = "use" THEN {op[2] : op \in {o \in m.ops : o[1] # "other"}} ELSE {}

\* 0.4 tools + 0.4 files + 0.2 length >= 0.6, over a common denominator.
Similar(m, o) ==
  LET t == Overlap(ToolNames(m), ToolNames(o))
      f == Overlap(FilePaths(m), FilePaths(o))
      l == IF m.size < o.size THEN <<m.size, o.size>> ELSE <<o.size, m.size>>
  IN  /\ Role(m) = Role(o)
      /\ 4 * t[1] * f[2] * l[2] + 4 * f[1] * t[2] * l[2] + 2 * l[1] * t[2] * f[2]
           >= 6 * t[2] * f[2] * l[2]

\* The message at i gathers those still free that are like it, if enough are.
Gathered(msgs, found, i) ==
  LET free    == {j \in i..Len(msgs) : Role(msgs[j]) # "system"} \ UNION found
      members == {j \in free : j = i \/ Similar(msgs[i], msgs[j])}
  IN  IF i \in free /\ Cardinality(members) >= ClusterMin
        THEN found \cup {members} ELSE found

Clusters(msgs) ==
  LET found[i \in 0..Len(msgs)] == IF i = 0 THEN {} ELSE Gathered(msgs, found[i - 1], i)
  IN  found[Len(msgs)]

Cluster(msgs) == Folded(msgs, Clusters(msgs), "clustered")

-----------------------------------------------------------------------------
(* trident_compact_session *)

SummaryPrefix(msgs) == IF msgs # <<>> /\ msgs[1].kind = "summary" THEN 1 ELSE 0

ShouldCompact(msgs, preserve) == Len(msgs) - SummaryPrefix(msgs) > preserve

\* As in module Conversation, but a session may hold results without a use.
KeepFrom(msgs, preserve) ==
  LET raw == Len(msgs) - preserve
      boundary(k) == k = SummaryPrefix(msgs) \/ k = Len(msgs) \/ msgs[k + 1].kind # "result"
  IN  CHOOSE k \in SummaryPrefix(msgs)..raw :
        boundary(k) /\ \A l \in (k + 1)..raw : ~boundary(l)

RemovedCount(msgs, preserve) ==
  IF ShouldCompact(msgs, preserve) THEN KeepFrom(msgs, preserve) - SummaryPrefix(msgs) ELSE 0

\* The timeline of a summary quotes every message removed, in 160 characters:
\* of a note that is its count.  The timeline of the summary before is lost;
\* what its other lines still say is left out here.
Summary(msgs, removed) ==
  Msg("summary", 0, {}, Long, Verbatim(msgs, removed),
      Verbatim(msgs, removed) \cup Quoted(msgs, removed) \cup Counted(msgs, removed))

\* The new summary is put behind the old one.
Compacted_FaultyNotMerged(msgs, preserve) ==
  LET keep == KeepFrom(msgs, preserve)
      head == Summary(msgs, (SummaryPrefix(msgs) + 1)..keep)
  IN  IF ShouldCompact(msgs, preserve)
        THEN SubSeq(msgs, 1, SummaryPrefix(msgs)) \o <<head>> \o SubSeq(msgs, keep + 1, Len(msgs))
        ELSE msgs

Compacted(msgs, preserve) ==
  LET keep == KeepFrom(msgs, preserve)
      head == Summary(msgs, (SummaryPrefix(msgs) + 1)..keep)
  IN  IF ShouldCompact(msgs, preserve)
        THEN <<head>> \o SubSeq(msgs, keep + 1, Len(msgs)) ELSE msgs

Trident(msgs) == Cluster(Collapse(Supersede(msgs)))

-----------------------------------------------------------------------------
(* The turn and its retries *)

Init ==
  /\ pc = "idle" /\ live = <<>> /\ turn = <<>> /\ round = 0
  /\ compacted = FALSE /\ prompt = User(0, Short) /\ fresh = FALSE
  /\ adapted = FALSE /\ learnt = FALSE /\ nextId = 1

\* prepare_turn_runtime builds a runtime with the default threshold from a
\* clone of base, and its run_turn probes the executor after a compaction,
\* pushes the prompt and sends.
Attempt(base, isCompacted) ==
  /\ turn' = Append(base, prompt')
  /\ compacted' = isCompacted
  /\ fresh' = TRUE
  /\ adapted' = FALSE
  /\ \/ pc' = "send"
     \/ isCompacted /\ pc' = "failed"

BeginTurn ==
  /\ pc = "idle" /\ nextId <= MaxId
  /\ nextId' = nextId + 1
  /\ \E size \in {Short, Long} : prompt' = User(nextId, size)
  /\ round' = 0 /\ learnt' = FALSE
  /\ Attempt(live, compacted)
  /\ UNCHANGED live

ToolRound ==
  /\ pc = "send" /\ nextId <= MaxId
  /\ nextId' = nextId + 1
  /\ fresh' = FALSE
  /\ \E ops \in SUBSET Ops, size \in {Short, Long} :
       /\ ops # {} /\ Cardinality(ops) <= MaxOps
       /\ \E out \in [ops -> OutputSizes] :
            LET order == SetToSeq(ops) IN
            turn' = Append(turn, Use(nextId, ops, size)) \o
                    [i \in 1..Len(order) |-> Result(nextId, order[i], out[order[i]])]
  /\ UNCHANGED <<pc, live, round, compacted, prompt, adapted, learnt>>

\* replace_runtime adopts the turn's session.
TurnDone ==
  /\ pc = "send" /\ nextId <= MaxId
  /\ nextId' = nextId + 1
  /\ \E size \in {Short, Long} : turn' = Append(turn, Answer(nextId, size))
  /\ live' = turn'
  /\ pc' = "idle"
  /\ fresh' = FALSE
  /\ UNCHANGED <<round, compacted, prompt, adapted, learnt>>

\* The error may name the window the server has.
Overflow ==
  /\ pc = "send"
  /\ \E named \in BOOLEAN : adapted' = (adapted \/ named) /\ learnt' = (learnt \/ named)
  /\ IF round < Len(Schedule)
       THEN pc' = "overflow" /\ round' = round + 1
       ELSE pc' = "failed" /\ UNCHANGED round
  /\ UNCHANGED <<live, turn, compacted, prompt, fresh, nextId>>

\* Any other error of the provider or the turn.
TurnFails ==
  /\ pc = "send"
  /\ pc' = "failed"
  /\ UNCHANGED <<live, turn, round, compacted, prompt, fresh, adapted, learnt, nextId>>

\* The session compacted is the original one, never the one it was retried with.
Retry_FaultyOriginal ==
  LET msgs == Trident(turn)  preserve == Schedule[round] IN
  /\ pc = "overflow"
  /\ RemovedCount(msgs, preserve) > 0 \/ round = 1
  /\ UNCHANGED <<live, round, prompt, learnt, nextId>>
  /\ Attempt(live, compacted \/ ShouldCompact(msgs, preserve))

Retry ==
  LET msgs == Trident(turn)  preserve == Schedule[round] IN
  /\ pc = "overflow"
  /\ RemovedCount(msgs, preserve) > 0 \/ round = 1
  /\ live' = Compacted(msgs, preserve)
  /\ UNCHANGED prompt
  /\ Attempt(live', compacted \/ ShouldCompact(msgs, preserve))
  /\ UNCHANGED <<round, learnt, nextId>>

NothingLeft ==
  /\ pc = "overflow"
  /\ round > 1 /\ RemovedCount(Trident(turn), Schedule[round]) = 0
  /\ pc' = "failed"
  /\ UNCHANGED <<live, turn, round, compacted, prompt, fresh, adapted, learnt, nextId>>

Next ==
  \/ BeginTurn \/ ToolRound \/ TurnDone \/ Overflow \/ TurnFails
  \/ Retry \/ NothingLeft

Spec == Init /\ [][Next]_vars

-----------------------------------------------------------------------------
(* Properties *)

IsMessage(m) ==
  /\ m.kind \in {"user", "answer", "use", "result"} \cup Synthetic
  /\ m.id \in 0..MaxId /\ m.ops \subseteq Ops
  /\ m.size \in {Short, Long} /\ m.quotes \cup m.counts \subseteq 0..MaxId

TypeOK ==
  /\ pc \in {"idle", "send", "overflow", "failed"}
  /\ \A m \in ToSet(live) \cup ToSet(turn) : IsMessage(m)
  /\ round \in 0..Len(Schedule)
  /\ {compacted, fresh, adapted, learnt} \subseteq BOOLEAN
  /\ prompt.kind = "user" /\ nextId \in 1..(MaxId + 1)

(* Compaction of a compacted session merges the summaries: there is one, it *)
(* comes first, and no stage of Trident moves, folds or repeats it.          *)
OneSummaryFirst ==
  \A i \in 1..Len(turn) : turn[i].kind = "summary" => i = 1 /\ compacted

(* "preserving fewer recent messages each round ... until it fits"           *)
(* (main.rs): the attempt of a round that preserves nothing carries exactly  *)
(* the summary and the prompt, whatever Trident and the earlier rounds left. *)
LastResortIsMinimal ==
  (pc = "send" /\ fresh /\ round > 0 /\ Schedule[round] = 0)
    => Len(turn) = 2 /\ turn[1].kind = "summary" /\ turn[2] = prompt

\* The tool use at i has a file that a later tool use writes or edits.
Overtaken(msgs, i) ==
  /\ msgs[i].kind = "use"
  /\ \E op \in msgs[i].ops, j \in (i + 1)..Len(msgs) :
       msgs[j].kind = "use" /\ {<<"write", op[2]>>, <<"edit", op[2]>>} \cap msgs[j].ops # {}

\* The message at i is one of many that are like one of them.
OneOfMany(msgs, i) ==
  \E j \in 1..Len(msgs) :
    LET alike == {k \in 1..Len(msgs) : k = j \/ Similar(msgs[j], msgs[k])}
    IN  i \in alike /\ Cardinality(alike) >= ClusterMin

\* The message at i is small talk, in a session that has enough of it.
SmallTalk(msgs, i) ==
  /\ Chatty(msgs[i])
  /\ Cardinality({k \in 1..Len(msgs) : Chatty(msgs[k])}) >= CollapseThreshold

(* The wording of a message of the conversation leaves a retry, but for an   *)
(* excerpt in a summary or a note, for one of three causes only: a later     *)
(* write or edit overtook it (the message goes with all its tool uses), or   *)
(* it is one of as many alike, or as much small talk, as the thresholds ask  *)
(* for; and in these two cases a message of the retry still counts it.       *)
WordsLeaveForCause ==
  [][pc = "overflow" /\ pc' = "send" =>
       LET said == 1..Len(live') IN
       \A i \in 1..Len(turn) :
         turn[i].kind \in Own /\ turn[i].id \notin Verbatim(live', said) \cup Quoted(live', said)
           => \/ Overtaken(turn, i)
              \/ (OneOfMany(turn, i) \/ SmallTalk(turn, i)) /\ turn[i].id \in Counted(live', said)]_vars
=============================================================================
