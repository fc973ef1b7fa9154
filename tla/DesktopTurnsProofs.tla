-------------------------- MODULE DesktopTurnsProofs --------------------------
(***************************************************************************)
(* Theorems of DesktopTurns, for any number of chats, folders and turns    *)
(* and any bounds: the table of cancel flags holds exactly the turns a     *)
(* stop should reach, a turn is cancelled from its own chat alone, and     *)
(* every turn keeps the safety of TurnContract.                            *)
(*                                                                         *)
(* A turn is begun between begin_turn and end_turn.  IInv keeps each begun *)
(* turn registered or cancelled, each entry begun, and a turn that was     *)
(* never submitted out of both; Telling says when a turn has told its end, *)
(* and Limits how far it may go.  The last section is about the cancel     *)
(* token by itself.                                                        *)
(***************************************************************************)
EXTENDS DesktopTurns, CancelToken, TLAPS

Types ==
  /\ projectRoot \in Folders \cup {NoFolder}
  /\ submitted \in 0..MaxTurns
  /\ flags \in [Chats -> Turns \cup {NoTurn}]
  /\ turn \in [Turns -> Turn]

FreeUntilSubmitted == \A t \in Turns : t > submitted => turn[t].pc = "free"

IInv == Types /\ FreeUntilSubmitted /\ RunningTurnsAreStoppable /\ NoDeadEntries

BegunPlaces == Places \ {"free", "invoked", "report", "settle", "over"}

LEMMA BegunMeans ==
  ASSUME Types, NEW t \in Turns
  PROVE  Begun(t) <=> turn[t].pc \in BegunPlaces
BY DEF Types, Turn, Begun, BegunPlaces

LEMMA FreeTurnType == FreeTurn \in Turn
<1>1. (CHOOSE c \in Chats : TRUE) \in Chats
  BY DesktopConstants
<1>. QED BY <1>1, DesktopConstants DEF FreeTurn, Turn, Places

LEMMA InitIInv == Init => IInv
<1> SUFFICES ASSUME Init PROVE IInv
  OBVIOUS
<1>1. Types
  BY FreeTurnType, DesktopConstants DEF Init, Types, Turns, NoTurn
<1>2. \A t \in Turns : turn[t].pc = "free"
  BY DEF Init, FreeTurn
<1>. QED BY <1>1, <1>2 DEF IInv, FreeUntilSubmitted, RunningTurnsAreStoppable,
            NoDeadEntries, Begun, Init, NoTurn

(* A step of one turn that leaves its chat, its token and the table alone    *)
(* keeps the invariant if it stays where it is, goes on after begin_turn, or *)
(* moves outside the part between begin_turn and end_turn.                   *)
LEMMA OneTurnMoves ==
  ASSUME IInv, NEW t \in Turns, NEW rec \in Turn,
         turn' = [turn EXCEPT ![t] = rec],
         rec.chat = turn[t].chat, rec.cancelled = turn[t].cancelled,
         \/ rec.pc = turn[t].pc
         \/ turn[t].pc \in BegunPlaces /\ rec.pc \in BegunPlaces
         \/ turn[t].pc \in {"invoked", "report", "settle"} /\ rec.pc \in {"settle", "over"},
         UNCHANGED <<projectRoot, submitted, flags>>
  PROVE  IInv'
<1>1. Types'
  BY DEF IInv, Types
<1>2. \A u \in Turns : turn'[u] = IF u = t THEN rec ELSE turn[u]
  BY DEF IInv, Types
<1>3. \A u \in Turns : Begun(u)' <=> Begun(u)
  BY <1>2 DEF Begun, BegunPlaces
<1>4. FreeUntilSubmitted'
  BY <1>2 DEF IInv, FreeUntilSubmitted, BegunPlaces
<1>5. RunningTurnsAreStoppable'
  BY <1>2, <1>3 DEF IInv, RunningTurnsAreStoppable
<1>6. NoDeadEntries'
  <2>1. SUFFICES ASSUME NEW c \in Chats, flags[c] # NoTurn
                 PROVE  turn'[flags[c]].chat = c /\ Begun(flags[c])'
    BY DEF NoDeadEntries
  <2>2. flags[c] \in Turns /\ turn[flags[c]].chat = c /\ Begun(flags[c])
    BY <2>1 DEF IInv, Types, NoDeadEntries
  <2>. QED BY <2>2, <1>2, <1>3
<1>. QED BY <1>1, <1>4, <1>5, <1>6 DEF IInv

LEMMA AfterCallMoves ==
  ASSUME Types, NEW t \in Turns
  PROVE  \E rec \in Turn : /\ AfterCall(t) = [turn EXCEPT ![t] = rec]
                           /\ rec.chat = turn[t].chat /\ rec.cancelled = turn[t].cancelled
                           /\ rec.pc \in {"call", "step", "final"}
<1>1. turn[t] \in Turn
  BY DEF Types
<1>2. /\ turn[t].step + 1 \in Nat
      /\ turn[t].calls > 1 => turn[t].calls - 1 \in Nat
  <2>1. turn[t].step \in Nat /\ turn[t].calls \in Nat
    BY <1>1 DEF Turn
  <2>. QED BY <2>1
<1>3. CASE turn[t].calls > 1
  <2> DEFINE rec == [turn[t] EXCEPT !.pc = "call", !.calls = @ - 1, !.task = "none"]
  <2>1. rec \in Turn
    BY <1>1, <1>3, <1>2 DEF Turn, Places
  <2>2. AfterCall(t) = [turn EXCEPT ![t] = rec]
    BY <1>3, <1>1 DEF AfterCall, Turn, Types
  <2>3. /\ rec.chat = turn[t].chat /\ rec.cancelled = turn[t].cancelled
        /\ rec.pc \in {"call", "step", "final"}
    BY <1>1 DEF Turn
  <2> HIDE DEF rec
  <2>. QED BY <2>1, <2>2, <2>3
<1>4. CASE ~(turn[t].calls > 1) /\ turn[t].step + 1 = MaxSteps
  <2> DEFINE rec == [turn[t] EXCEPT !.pc = "final", !.calls = 0, !.task = "none"]
  <2>1. rec \in Turn
    BY <1>1 DEF Turn, Places
  <2>2. AfterCall(t) = [turn EXCEPT ![t] = rec]
    BY <1>4, <1>1 DEF AfterCall, Turn, Types
  <2>3. /\ rec.chat = turn[t].chat /\ rec.cancelled = turn[t].cancelled
        /\ rec.pc \in {"call", "step", "final"}
    BY <1>1 DEF Turn
  <2> HIDE DEF rec
  <2>. QED BY <2>1, <2>2, <2>3
<1>5. CASE ~(turn[t].calls > 1) /\ turn[t].step + 1 # MaxSteps
  <2> DEFINE rec == [turn[t] EXCEPT !.pc = "step", !.step = @ + 1, !.calls = 0, !.task = "none"]
  <2>1. rec \in Turn
    BY <1>1, <1>2 DEF Turn, Places
  <2>2. AfterCall(t) = [turn EXCEPT ![t] = rec]
    BY <1>5, <1>1 DEF AfterCall, Turn, Types
  <2>3. /\ rec.chat = turn[t].chat /\ rec.cancelled = turn[t].cancelled
        /\ rec.pc \in {"call", "step", "final"}
    BY <1>1 DEF Turn
  <2> HIDE DEF rec
  <2>. QED BY <2>1, <2>2, <2>3
<1>. QED BY <1>3, <1>4, <1>5

LEMMA GoToMoves ==
  ASSUME Types, NEW t \in Turns, NEW place \in Places, GoTo(t, place)
  PROVE  \E rec \in Turn : /\ turn' = [turn EXCEPT ![t] = rec]
                           /\ rec.chat = turn[t].chat /\ rec.cancelled = turn[t].cancelled
                           /\ rec.pc = place
<1> DEFINE rec == [turn[t] EXCEPT !.pc = place]
<1>1. turn[t] \in Turn
  BY DEF Types
<1>2. rec \in Turn /\ turn' = [turn EXCEPT ![t] = rec]
  BY <1>1 DEF GoTo, Turn, Types
<1>. QED BY <1>1, <1>2 DEF Turn

\* The places of a turn that runs and has told nothing yet.
Working == BegunPlaces \ {"ending"}

Events == {"done", "cancelled", "failed"}

\* Where a step takes a turn, and what it tells: little, and only once.
Moves(t, place) ==
  \/ /\ sent' = sent
     /\ \/ place = turn[t].pc
        \/ turn[t].pc \in Working /\ place \in Working
        \/ turn[t].pc = "invoked" /\ place = "settle"
        \/ turn[t].pc = "ending"  /\ place = "settle"
        \/ turn[t].pc = "failing" /\ place = "report"
        \/ turn[t].pc = "settle"  /\ place = "over"
  \/ /\ \E e \in Events : /\ e = "cancelled" => turn[t].cancelled
                        /\ sent' = [sent EXCEPT ![t] = Append(@, e)]
     /\ \/ turn[t].pc \in Working  /\ place = "ending"
        \/ turn[t].pc = "report" /\ place = "settle"

Moved(t) ==
  \E rec \in Turn : /\ turn' = [turn EXCEPT ![t] = rec]
                   /\ rec.chat = turn[t].chat /\ rec.cancelled = turn[t].cancelled
                   /\ Moves(t, rec.pc)

LEMMA Going ==
  ASSUME Types, NEW t \in Turns, NEW place \in Places, GoTo(t, place), Moves(t, place)
  PROVE  Moved(t)
BY GoToMoves DEF Moved

(* A step of one turn keeps the invariant unless it is end_turn's.           *)
LEMMA MovedKeeps ==
  ASSUME IInv, NEW t \in Turns, Moved(t), UNCHANGED <<projectRoot, submitted, flags>>,
         turn[t].pc \notin {"ending", "failing"} \/ turn'[t].pc = turn[t].pc
  PROVE  IInv'
<1>1. PICK rec \in Turn : /\ turn' = [turn EXCEPT ![t] = rec]
                          /\ rec.chat = turn[t].chat /\ rec.cancelled = turn[t].cancelled
                          /\ Moves(t, rec.pc)
  BY DEF Moved
<1>2. turn'[t] = rec
  BY <1>1 DEF IInv, Types
<1>3. \/ rec.pc = turn[t].pc
      \/ turn[t].pc \in BegunPlaces /\ rec.pc \in BegunPlaces
      \/ turn[t].pc \in {"invoked", "report", "settle"} /\ rec.pc \in {"settle", "over"}
  BY <1>1, <1>2 DEF Moves, Working, BegunPlaces, Places
<1>. QED BY <1>1, <1>3, OneTurnMoves

-----------------------------------------------------------------------------
(* The webview *)

LEMMA SubmitKeeps ==
  ASSUME IInv, NEW c \in Chats, Submit(c)
  PROVE  IInv'
<1> DEFINE rec == [FreeTurn EXCEPT !.pc = "invoked", !.chat = c, !.root = projectRoot]
<1>1. PICK t \in Turns : /\ submitted \in Nat /\ t = submitted + 1
                         /\ submitted' = t /\ t \in 0..MaxTurns
  BY DesktopConstants DEF IInv, Types, Submit, Turns
<1>2. turn' = [turn EXCEPT ![t] = rec] /\ UNCHANGED <<projectRoot, flags>>
  BY <1>1 DEF Submit
<1>3. rec \in Turn /\ rec.pc = "invoked"
  BY FreeTurnType DEF IInv, Types, Turn, FreeTurn, Places
<1> HIDE DEF rec
<1>4. \A u \in Turns : turn'[u] = IF u = t THEN rec ELSE turn[u]
  BY <1>1, <1>2 DEF IInv, Types
<1>5. Types'
  BY <1>1, <1>2, <1>3 DEF IInv, Types
<1>6. ~Begun(t)
  BY <1>1 DEF IInv, FreeUntilSubmitted, Begun, Turns
<1>7. FreeUntilSubmitted'
  BY <1>1, <1>4 DEF IInv, FreeUntilSubmitted, Turns
<1>8. ~Begun(t)' /\ \A u \in Turns : u # t => (Begun(u)' <=> Begun(u))
  BY <1>1, <1>3, <1>4 DEF Begun
<1>9. RunningTurnsAreStoppable'
  BY <1>2, <1>4, <1>8 DEF IInv, RunningTurnsAreStoppable
<1>10. NoDeadEntries'
  <2>1. SUFFICES ASSUME NEW d \in Chats, flags[d] # NoTurn
                 PROVE  turn'[flags[d]].chat = d /\ Begun(flags[d])'
    BY <1>2 DEF NoDeadEntries
  <2>2. flags[d] \in Turns /\ turn[flags[d]].chat = d /\ Begun(flags[d])
    BY <2>1 DEF IInv, Types, NoDeadEntries
  <2>3. flags[d] # t
    BY <2>2, <1>6
  <2>. QED BY <2>2, <2>3, <1>2, <1>4, <1>8
<1>. QED BY <1>5, <1>7, <1>9, <1>10 DEF IInv

(* Setting the token of a turn only ever helps: no place and no entry moves. *)
LEMMA CancellingKeeps ==
  ASSUME IInv, NEW t \in Turns, turn' = [turn EXCEPT ![t].cancelled = TRUE],
         UNCHANGED <<projectRoot, submitted, flags>>
  PROVE  IInv'
<1>1. \A u \in Turns : /\ turn'[u].pc = turn[u].pc /\ turn'[u].chat = turn[u].chat
                       /\ turn[u].cancelled => turn'[u].cancelled
  BY DEF IInv, Types, Turn
<1>2. Types'
  BY DEF IInv, Types, Turn
<1>3. \A u \in Turns : Begun(u)' <=> Begun(u)
  BY <1>1 DEF Begun
<1>4. FreeUntilSubmitted'
  BY <1>1 DEF IInv, FreeUntilSubmitted
<1>5. RunningTurnsAreStoppable'
  BY <1>1, <1>3 DEF IInv, RunningTurnsAreStoppable
<1>6. NoDeadEntries'
  <2>1. SUFFICES ASSUME NEW c \in Chats, flags[c] # NoTurn
                 PROVE  turn'[flags[c]].chat = c /\ Begun(flags[c])'
    BY DEF NoDeadEntries
  <2>2. flags[c] \in Turns /\ turn[flags[c]].chat = c /\ Begun(flags[c])
    BY <2>1 DEF IInv, Types, NoDeadEntries
  <2>. QED BY <2>2, <1>1, <1>3
<1>. QED BY <1>2, <1>4, <1>5, <1>6 DEF IInv

LEMMA NothingMoves ==
  ASSUME IInv, projectRoot' \in Folders \cup {NoFolder}, UNCHANGED <<submitted, flags, turn>>
  PROVE  IInv'
BY DEF IInv, Types, FreeUntilSubmitted, RunningTurnsAreStoppable, NoDeadEntries, Begun

LEMMA WebviewKeeps ==
  ASSUME IInv, OpenFolder \/ Reload \/ \E c \in Chats : Submit(c) \/ Stop(c)
  PROVE  IInv'
<1>1. CASE OpenFolder
  BY <1>1, NothingMoves DEF OpenFolder
<1>2. CASE Reload
  BY <1>2, NothingMoves DEF Reload, IInv, Types
<1>3. ASSUME NEW c \in Chats, Submit(c) PROVE IInv'
  BY <1>3, SubmitKeeps
<1>4. ASSUME NEW c \in Chats, Stop(c) PROVE IInv'
  <2>1. UNCHANGED <<projectRoot, submitted, flags>>
    BY <1>4 DEF Stop
  <2>2. CASE flags[c] = NoTurn
    BY <1>4, <2>1, <2>2, NothingMoves DEF Stop, TurnsWithCancelled, IInv, Types
  <2>3. CASE flags[c] # NoTurn
    <3>1. flags[c] \in Turns
      BY <2>3 DEF IInv, Types
    <3>2. turn' = [turn EXCEPT ![flags[c]].cancelled = TRUE]
      BY <1>4, <2>3 DEF Stop, TurnsWithCancelled
    <3>. QED BY <2>1, <3>1, <3>2, CancellingKeeps
  <2>. QED BY <2>2, <2>3
<1>. QED BY <1>1, <1>2, <1>3, <1>4

-----------------------------------------------------------------------------
(* send_prompt *)

(* What begin_turn changes: its turn starts, the one registered is cancelled. *)
LEMMA Beginning ==
  ASSUME IInv, NEW t \in Turns, BeginTurn(t)
  PROVE  /\ turn' \in [Turns -> Turn] /\ turn[t].pc = "invoked" /\ turn[t].chat \in Chats
         /\ flags[turn[t].chat] # t /\ flags' = [flags EXCEPT ![turn[t].chat] = t]
         /\ turn'[t].pc \in {"retrieve", "prepare"} /\ turn'[t].chat = turn[t].chat
         /\ turn'[t].cancelled = turn[t].cancelled
         /\ \A u \in Turns \ {t} :
              /\ turn'[u].pc = turn[u].pc /\ turn'[u].chat = turn[u].chat
              /\ turn'[u].cancelled = IF u = flags[turn[t].chat] THEN TRUE ELSE turn[u].cancelled
<1>1. turn[t] \in Turn /\ turn[t].pc = "invoked" /\ turn[t].chat \in Chats
  BY DEF IInv, Types, BeginTurn, Turn
<1>2. PICK c \in Chats : c = turn[t].chat
  BY <1>1
<1>3. PICK place \in {"retrieve", "prepare"} :
        turn' = [TurnsWithCancelled(c) EXCEPT ![t].pc = place]
  BY <1>2 DEF BeginTurn
<1>4. flags' = [flags EXCEPT ![c] = t]
  BY <1>2 DEF BeginTurn
<1>5. \A u \in Turns : turn[u] \in Turn
  BY DEF IInv, Types
<1>6. flags[c] # t
  BY <1>1 DEF IInv, NoDeadEntries, Begun, NoTurn, Turns
<1>7. PICK mid : mid = TurnsWithCancelled(c)
  OBVIOUS
<1>8. /\ mid \in [Turns -> Turn] /\ mid[t] = turn[t]
      /\ \A u \in Turns : /\ mid[u].pc = turn[u].pc /\ mid[u].chat = turn[u].chat
                          /\ mid[u].cancelled = IF u = flags[c] THEN TRUE ELSE turn[u].cancelled
  <2>1. CASE flags[c] = NoTurn
    <3>1. mid = turn /\ \A u \in Turns : u # flags[c]
      BY <1>7, <2>1 DEF TurnsWithCancelled, NoTurn, Turns
    <3>. QED BY <3>1 DEF IInv, Types
  <2>2. CASE flags[c] # NoTurn
    <3>1. flags[c] \in Turns /\ turn \in [Turns -> Turn]
      BY <2>2 DEF IInv, Types
    <3>2. mid = [turn EXCEPT ![flags[c]].cancelled = TRUE]
      BY <1>7, <2>2 DEF TurnsWithCancelled
    <3>3. \A u \in Turns : u # flags[c] => mid[u] = turn[u]
      BY <3>1, <3>2
    <3>4. mid[flags[c]] = [turn[flags[c]] EXCEPT !.cancelled = TRUE]
      BY <3>1, <3>2
    <3>5. /\ mid[flags[c]] \in Turn /\ mid[flags[c]].cancelled = TRUE
          /\ mid[flags[c]].pc = turn[flags[c]].pc /\ mid[flags[c]].chat = turn[flags[c]].chat
      BY <1>5, <3>1, <3>4 DEF Turn
    <3>6. \A u \in Turns : mid[u] \in Turn
      BY <1>5, <3>3, <3>5
    <3>. QED BY <1>6, <3>1, <3>2, <3>3, <3>5, <3>6
  <2>. QED BY <2>1, <2>2
<1>9. turn'[t] = [turn[t] EXCEPT !.pc = place]
  BY <1>3, <1>7, <1>8
<1>10. /\ turn'[t] \in Turn /\ turn'[t].pc = place /\ turn'[t].chat = c
       /\ turn'[t].cancelled = turn[t].cancelled
  BY <1>1, <1>2, <1>9 DEF Turn, Places
<1>11. \A u \in Turns : u # t => turn'[u] = mid[u]
  BY <1>3, <1>7, <1>8
<1>12. turn' \in [Turns -> Turn]
  BY <1>3, <1>7, <1>8, <1>10, <1>11
<1>13. \A u \in Turns \ {t} :
         /\ turn'[u].pc = turn[u].pc /\ turn'[u].chat = turn[u].chat
         /\ turn'[u].cancelled = IF u = flags[c] THEN TRUE ELSE turn[u].cancelled
  BY <1>8, <1>11
<1>14. turn'[t].pc \in {"retrieve", "prepare"}
  BY <1>10
<1>. QED BY <1>1, <1>2, <1>4, <1>6, <1>10, <1>12, <1>13, <1>14

LEMMA BeginTurnKeeps ==
  ASSUME IInv, NEW t \in Turns, BeginTurn(t)
  PROVE  IInv'
<1>1. /\ turn' \in [Turns -> Turn] /\ turn[t].pc = "invoked" /\ turn[t].chat \in Chats
      /\ flags' = [flags EXCEPT ![turn[t].chat] = t]
      /\ UNCHANGED <<projectRoot, submitted>>
  BY Beginning DEF BeginTurn
<1>2. PICK c \in Chats : c = turn[t].chat
  BY <1>1
<1>3. flags' = [flags EXCEPT ![c] = t] /\ UNCHANGED <<projectRoot, submitted>>
  BY <1>1, <1>2
<1>4. \A u \in Turns : turn[u] \in Turn
  BY DEF IInv, Types
<1>5. turn'[t].pc \in {"retrieve", "prepare"} /\ turn'[t].chat = c
  BY <1>2, Beginning
<1>6. ASSUME NEW u \in Turns, u # t
       PROVE  /\ turn'[u].pc = turn[u].pc /\ turn'[u].chat = turn[u].chat
              /\ turn[u].cancelled \/ u = flags[c] => turn'[u].cancelled
  <2>1. \A v \in Turns \ {t} :
          /\ turn'[v].pc = turn[v].pc /\ turn'[v].chat = turn[v].chat
          /\ turn'[v].cancelled = IF v = flags[turn[t].chat] THEN TRUE ELSE turn[v].cancelled
    BY Beginning
  <2>2. turn[u].cancelled \in BOOLEAN
    BY <1>4 DEF Turn
  <2>. QED BY <1>2, <1>6, <2>1, <2>2
<1>7. Types'
  BY <1>1, <1>2, <1>3 DEF IInv, Types
<1>8. Begun(t)' /\ \A u \in Turns : u # t => (Begun(u)' <=> Begun(u))
  BY <1>5, <1>6 DEF Begun
<1>9. FreeUntilSubmitted'
  <2>1. ~(t > submitted)
    BY <1>1 DEF IInv, FreeUntilSubmitted
  <2>. QED BY <2>1, <1>3, <1>6 DEF IInv, FreeUntilSubmitted
<1>10. RunningTurnsAreStoppable'
  <2>1. SUFFICES ASSUME NEW u \in Turns, Begun(u)'
                 PROVE  flags'[turn'[u].chat] = u \/ turn'[u].cancelled
    BY DEF RunningTurnsAreStoppable
  <2>2. \A d \in Chats : flags'[d] = IF d = c THEN t ELSE flags[d]
    BY <1>3 DEF IInv, Types
  <2>3. CASE u = t
    BY <2>2, <2>3, <1>5
  <2>4. CASE u # t
    <3>1. Begun(u) /\ turn[u].chat \in Chats
      BY <2>1, <2>4, <1>4, <1>8 DEF Turn
    <3>2. flags[turn[u].chat] = u \/ turn[u].cancelled
      BY <3>1 DEF IInv, RunningTurnsAreStoppable
    <3>. QED BY <2>2, <2>4, <3>1, <3>2, <1>6
  <2>. QED BY <2>3, <2>4
<1>11. NoDeadEntries'
  <2>1. SUFFICES ASSUME NEW d \in Chats, NEW u, u = flags'[d], u # NoTurn
                 PROVE  turn'[u].chat = d /\ Begun(u)'
    BY DEF NoDeadEntries, Begun
  <2>2. CASE d = c
    <3>1. u = t
      BY <2>1, <2>2, <1>3 DEF IInv, Types
    <3>. QED BY <2>2, <3>1, <1>5, <1>8
  <2>3. CASE d # c
    <3>1. u = flags[d]
      BY <2>1, <2>3, <1>3 DEF IInv, Types
    <3>2. u \in Turns /\ turn[u].chat = d /\ Begun(u)
      BY <2>1, <3>1 DEF IInv, Types, NoDeadEntries
    <3>3. u # t
      BY <3>2, <1>1 DEF Begun
    <3>. QED BY <3>2, <3>3, <1>6, <1>8
  <2>. QED BY <2>2, <2>3
<1>. QED BY <1>7, <1>9, <1>10, <1>11 DEF IInv

LEMMA EndTurnKeeps ==
  ASSUME IInv, NEW t \in Turns, EndTurn(t)
  PROVE  IInv'
<1>1. /\ turn[t] \in Turn /\ turn[t].chat \in Chats
      /\ turn[t].pc \in {"ending", "failing"} /\ turn[t].pc \in BegunPlaces
  BY DEF IInv, Types, EndTurn, Turn, BegunPlaces, Places
<1>2. PICK c \in Chats : c = turn[t].chat
  BY <1>1
<1>3. PICK place \in {"report", "settle"} : GoTo(t, place)
  BY DEF EndTurn
<1>4. PICK rec \in Turn : /\ turn' = [turn EXCEPT ![t] = rec]
                          /\ rec.chat = turn[t].chat /\ rec.cancelled = turn[t].cancelled
                          /\ rec.pc = place
  BY <1>3, GoToMoves DEF IInv, Places
<1>5. /\ flags' = IF flags[c] = t THEN [flags EXCEPT ![c] = NoTurn] ELSE flags
      /\ UNCHANGED <<projectRoot, submitted>>
  BY <1>2 DEF EndTurn
<1>6. \A u \in Turns : turn'[u] = IF u = t THEN rec ELSE turn[u]
  BY <1>4 DEF IInv, Types
<1>7. \A d \in Chats : flags'[d] = IF d = c /\ flags[c] = t THEN NoTurn ELSE flags[d]
  BY <1>5 DEF IInv, Types
<1>8. Types'
  BY <1>4, <1>5 DEF IInv, Types
<1>9. ~Begun(t)' /\ \A u \in Turns : u # t => (Begun(u)' <=> Begun(u))
  BY <1>4, <1>6 DEF Begun
<1>10. FreeUntilSubmitted'
  <2>1. ~(t > submitted)
    BY <1>1 DEF IInv, FreeUntilSubmitted
  <2>. QED BY <2>1, <1>5, <1>6 DEF IInv, FreeUntilSubmitted
<1>11. RunningTurnsAreStoppable'
  <2>1. SUFFICES ASSUME NEW u \in Turns, Begun(u)'
                 PROVE  flags'[turn'[u].chat] = u \/ turn'[u].cancelled
    BY DEF RunningTurnsAreStoppable
  <2>2. u # t /\ turn'[u] = turn[u] /\ Begun(u) /\ turn[u].chat \in Chats
    BY <2>1, <1>6, <1>9 DEF IInv, Types, Turn
  <2>3. flags[turn[u].chat] = u \/ turn[u].cancelled
    BY <2>2 DEF IInv, RunningTurnsAreStoppable
  <2>4. CASE flags[turn[u].chat] = u
    BY <2>2, <2>4, <1>7
  <2>5. CASE turn[u].cancelled
    BY <2>2, <2>5
  <2>. QED BY <2>3, <2>4, <2>5
<1>12. NoDeadEntries'
  <2>1. SUFFICES ASSUME NEW d \in Chats, NEW u, u = flags'[d], u # NoTurn
                 PROVE  turn'[u].chat = d /\ Begun(u)'
    BY DEF NoDeadEntries, Begun
  <2>2. u = flags[d]
    BY <2>1, <1>7
  <2>3. u \in Turns /\ turn[u].chat = d /\ Begun(u)
    BY <2>1, <2>2 DEF IInv, Types, NoDeadEntries
  <2>4. u # t
    BY <2>1, <2>2, <2>3, <1>2, <1>7
  <2>. QED BY <2>3, <2>4, <1>6, <1>9
<1>. QED BY <1>8, <1>10, <1>11, <1>12 DEF IInv

LEMMA SendPromptMoves ==
  ASSUME Types, NEW t \in Turns,
         OpenFails(t) \/ EndTurn(t) \/ ReportFailure(t) \/ Settle(t)
  PROVE  Moved(t)
<1>1. CASE OpenFails(t)
  BY <1>1, Going DEF OpenFails, Quiet, Moves, Places
<1>2. CASE EndTurn(t)
  <2>1. CASE turn[t].pc = "failing"
    BY <1>2, <2>1, Going DEF EndTurn, Moves, Places
  <2>2. CASE turn[t].pc = "ending"
    BY <1>2, <2>2, Going DEF EndTurn, Moves, Places
  <2>. QED BY <1>2, <2>1, <2>2 DEF EndTurn
<1>3. CASE ReportFailure(t)
  BY <1>3, Going DEF ReportFailure, Moves, Places, Events
<1>4. CASE Settle(t)
  BY <1>4, Going DEF Settle, Moves, Places
<1>. QED BY <1>1, <1>2, <1>3, <1>4

-----------------------------------------------------------------------------
(* run_turn and agent::run: the turn stays between begin_turn and end_turn   *)

LEMMA EndMoves ==
  ASSUME Types, NEW t \in Turns, turn[t].pc \in Working, NEW event \in Events, End(t, event),
         event = "cancelled" => turn[t].cancelled
  PROVE  Moved(t)
BY Going DEF End, Moves, Places

LEMMA FailMoves ==
  ASSUME Types, NEW t \in Turns, turn[t].pc \in Working, Fail(t)
  PROVE  Moved(t)
BY Going DEF Fail, Quiet, Moves, Places, Working, BegunPlaces

LEMMA CallMoves ==
  ASSUME Types, NEW t \in Turns, turn[t].pc \in Working, turn' = AfterCall(t), sent' = sent
  PROVE  Moved(t)
<1>1. PICK rec \in Turn : /\ AfterCall(t) = [turn EXCEPT ![t] = rec]
                          /\ rec.chat = turn[t].chat /\ rec.cancelled = turn[t].cancelled
                          /\ rec.pc \in {"call", "step", "final"}
  BY AfterCallMoves
<1>2. Moves(t, rec.pc)
  BY <1>1 DEF Moves, Working, BegunPlaces, Places
<1>. QED BY <1>1, <1>2 DEF Moved

(* What the turn counts may change as well, and its place with it.           *)
LEMMA CountsMove ==
  ASSUME NEW t \in Turns, NEW rec \in Turn, turn' = [turn EXCEPT ![t] = rec], Quiet,
         rec.chat = turn[t].chat, rec.cancelled = turn[t].cancelled,
         turn[t].pc \in Working, rec.pc \in Working
  PROVE  Moved(t)
<1>1. Moves(t, rec.pc)
  BY DEF Moves, Quiet
<1>. QED BY <1>1 DEF Moved

LEMMA RunEndsMoves ==
  ASSUME Types, NEW t \in Turns, turn[t].pc \in Working, RunEnds(t)
  PROVE  Moved(t)
<1>1. CASE turn[t].stage + 1 < turn[t].stages
  <2> DEFINE rec == [turn[t] EXCEPT !.pc = "stage", !.stage = @ + 1]
  <2>1. turn[t] \in Turn
    BY DEF Types
  <2>2. turn[t].stage + 1 \in Nat
    <3>1. turn[t].stage \in Nat
      BY <2>1 DEF Turn
    <3>. QED BY <3>1
  <2>3. rec \in Turn
    BY <2>1, <2>2 DEF Turn, Places
  <2>4. turn' = [turn EXCEPT ![t] = rec] /\ Quiet
    BY <1>1, <2>1 DEF RunEnds, Turn, Types
  <2>5. /\ rec.chat = turn[t].chat /\ rec.cancelled = turn[t].cancelled
        /\ rec.pc \in Working
    BY <2>1 DEF Turn, Working, BegunPlaces, Places
  <2> HIDE DEF rec
  <2>. QED BY <2>3, <2>4, <2>5, CountsMove
<1>2. CASE ~(turn[t].stage + 1 < turn[t].stages)
  BY <1>2, EndMoves DEF RunEnds, Events
<1>. QED BY <1>1, <1>2

LEMMA AwaitedMoves ==
  ASSUME Types, NEW t \in Turns, Retrieve(t) \/ Cancelled(t) \/ StreamFails(t)
  PROVE  Moved(t)
<1>1. turn[t].pc \in Working
  BY DEF Retrieve, Cancelled, StreamFails, Working, BegunPlaces, Places
<1>2. CASE Retrieve(t)
  <2>1. CASE GoTo(t, "prepare") /\ Quiet
    BY <1>1, <2>1, Going DEF Quiet, Moves, Working, BegunPlaces, Places
  <2>. QED BY <1>1, <1>2, <2>1, FailMoves DEF Retrieve
<1>3. CASE Cancelled(t)
  BY <1>1, <1>3, EndMoves DEF Cancelled, Events
<1>4. CASE StreamFails(t)
  BY <1>1, <1>4, FailMoves DEF StreamFails
<1>. QED BY <1>2, <1>3, <1>4

LEMMA PrepareMoves ==
  ASSUME Types, NEW t \in Turns, Prepare(t)
  PROVE  Moved(t)
<1>1. turn[t].pc \in Working /\ turn[t] \in Turn
  BY DEF Prepare, Working, BegunPlaces, Places, Types
<1>2. CASE Fail(t)
  BY <1>1, <1>2, FailMoves
<1>3. ASSUME NEW n \in 0..MaxStages, Quiet,
             turn' = [turn EXCEPT ![t].stages = n, ![t].pc = IF n = 0 THEN "step" ELSE "stage"]
      PROVE  Moved(t)
  <2> DEFINE rec == [turn[t] EXCEPT !.stages = n, !.pc = IF n = 0 THEN "step" ELSE "stage"]
  <2>1. rec \in Turn
    BY <1>1 DEF Turn, Places
  <2>2. turn' = [turn EXCEPT ![t] = rec]
    BY <1>1, <1>3 DEF Types, Turn
  <2>3. /\ rec.chat = turn[t].chat /\ rec.cancelled = turn[t].cancelled
        /\ rec.pc \in Working
    BY <1>1 DEF Turn, Working, BegunPlaces, Places
  <2> HIDE DEF rec
  <2>. QED BY <1>1, <1>3, <2>1, <2>2, <2>3, CountsMove
<1>. QED BY <1>2, <1>3 DEF Prepare

LEMMA CheckMoves ==
  ASSUME Types, NEW t \in Turns, Check(t)
  PROVE  Moved(t)
<1>1. /\ turn[t].pc \in Working /\ turn[t].pc \in {"stage", "step", "call"}
      /\ turn[t] \in Turn
  BY DEF Check, Working, BegunPlaces, Places, Types
<1>2. CASE turn[t].cancelled
  BY <1>1, <1>2, EndMoves DEF Check, Events
<1>3. CASE ~turn[t].cancelled
  <2>1. PICK place \in {"step", "stream", "execute"}, n \in Nat :
          /\ turn' = [turn EXCEPT ![t].pc = place, ![t].step = n]
          /\ Quiet
    BY <1>1, <1>3 DEF Check, Turn, Types
  <2> DEFINE rec == [turn[t] EXCEPT !.pc = place, !.step = n]
  <2>2. rec \in Turn
    BY <1>1 DEF Turn, Places
  <2>3. turn' = [turn EXCEPT ![t] = rec]
    BY <1>1, <2>1 DEF Types, Turn
  <2>4. /\ rec.chat = turn[t].chat /\ rec.cancelled = turn[t].cancelled
        /\ rec.pc \in Working
    BY <1>1 DEF Turn, Working, BegunPlaces, Places
  <2> HIDE DEF rec
  <2>. QED BY <1>1, <2>1, <2>2, <2>3, <2>4, CountsMove
<1>. QED BY <1>2, <1>3

LEMMA ReplyMoves ==
  ASSUME Types, NEW t \in Turns, Reply(t)
  PROVE  Moved(t)
<1>1. turn[t].pc \in Working /\ turn[t] \in Turn
  BY DEF Reply, Working, BegunPlaces, Places, Types
<1>2. CASE RunEnds(t)
  BY <1>1, <1>2, RunEndsMoves
<1>3. ASSUME NEW k \in 1..MaxCalls, Quiet,
             turn' = [turn EXCEPT ![t].pc = "call", ![t].calls = k]
      PROVE  Moved(t)
  <2> DEFINE rec == [turn[t] EXCEPT !.pc = "call", !.calls = k]
  <2>1. k \in Nat
    BY DesktopConstants
  <2>2. rec \in Turn
    BY <1>1, <2>1 DEF Turn, Places
  <2>3. turn' = [turn EXCEPT ![t] = rec]
    BY <1>1, <1>3 DEF Types, Turn
  <2>4. /\ rec.chat = turn[t].chat /\ rec.cancelled = turn[t].cancelled
        /\ rec.pc \in Working
    BY <1>1 DEF Turn, Working, BegunPlaces, Places
  <2> HIDE DEF rec
  <2>. QED BY <1>1, <1>3, <2>2, <2>3, <2>4, CountsMove
<1>. QED BY <1>2, <1>3 DEF Reply

LEMMA ToolMoves ==
  ASSUME Types, NEW t \in Turns, Execute(t) \/ RunTask(t) \/ ToolDone(t)
  PROVE  Moved(t)
<1>1. turn[t] \in Turn
  BY DEF Types
<1>2. CASE ToolDone(t)
  BY <1>2, CallMoves DEF ToolDone, Quiet, Working, BegunPlaces, Places
<1>3. CASE RunTask(t)
  <2> DEFINE rec == [turn[t] EXCEPT !.task = "ran"]
  <2>1. rec \in Turn /\ turn' = [turn EXCEPT ![t] = rec]
    BY <1>1, <1>3 DEF RunTask, Turn, Types
  <2>2. /\ rec.chat = turn[t].chat /\ rec.cancelled = turn[t].cancelled
        /\ rec.pc = turn[t].pc
    BY <1>1 DEF Turn
  <2> HIDE DEF rec
  <2>3. Moves(t, rec.pc)
    BY <1>3, <2>2 DEF RunTask, Quiet, Moves
  <2>. QED BY <2>1, <2>2, <2>3 DEF Moved
<1>4. CASE Execute(t)
  <2>1. turn[t].pc \in Working /\ sent' = sent
    BY <1>4 DEF Execute, Working, BegunPlaces, Places
  <2>2. CASE turn' = AfterCall(t)
    BY <2>1, <2>2, CallMoves
  <2>3. CASE turn' = [turn EXCEPT ![t].pc = "tool", ![t].task = "queued"]
    <3> DEFINE rec == [turn[t] EXCEPT !.pc = "tool", !.task = "queued"]
    <3>1. rec \in Turn /\ turn' = [turn EXCEPT ![t] = rec]
      BY <1>1, <2>3 DEF Turn, Places, Types
    <3>2. /\ rec.chat = turn[t].chat /\ rec.cancelled = turn[t].cancelled
          /\ rec.pc \in Working
      BY <1>1 DEF Turn, Working, BegunPlaces, Places
    <3> HIDE DEF rec
    <3>3. Moves(t, rec.pc)
      BY <2>1, <3>2 DEF Moves
    <3>. QED BY <3>1, <3>2, <3>3 DEF Moved
  <2>. QED BY <1>4, <2>2, <2>3 DEF Execute
<1>. QED BY <1>2, <1>3, <1>4

-----------------------------------------------------------------------------
LEMMA StepMoves ==
  ASSUME Types, NEW t \in Turns, Advance(t) \/ Outside(t), ~BeginTurn(t)
  PROVE  Moved(t)
BY SendPromptMoves, PrepareMoves, CheckMoves, AwaitedMoves, ReplyMoves, ToolMoves
   DEF Advance, Outside

\* What no step of a turn touches, and who touches the table.
LEMMA StepLeaves ==
  ASSUME NEW t \in Turns, Advance(t) \/ Outside(t)
  PROVE  /\ UNCHANGED <<projectRoot, submitted>>
         /\ flags' = flags \/ BeginTurn(t) \/ EndTurn(t)
         /\ runs' = runs \/ Settle(t)
BY DEF Advance, Outside, OpenFails, BeginTurn, EndTurn, ReportFailure, Settle, Prepare, Check,
       Cancelled, Execute, ToolDone, Retrieve, Reply, StreamFails, RunTask, Quiet, Fail, End, RunEnds

LEMMA TurnKeeps ==
  ASSUME IInv, NEW t \in Turns, Advance(t) \/ Outside(t)
  PROVE  IInv'
<1>1. CASE BeginTurn(t) \/ EndTurn(t)
  BY <1>1, BeginTurnKeeps, EndTurnKeeps
<1>2. CASE ~BeginTurn(t) /\ ~EndTurn(t)
  <2>1. Moved(t)
    BY <1>2, StepMoves DEF IInv
  <2>2. turn[t].pc \notin {"ending", "failing"} \/ turn'[t].pc = turn[t].pc
    <3>1. CASE RunTask(t)
      BY <3>1 DEF RunTask, IInv, Types, Turn
    <3>2. CASE ~RunTask(t)
      BY <1>2, <3>2 DEF Advance, Outside, OpenFails, ReportFailure, Settle, Prepare, Check,
         Cancelled, Execute, ToolDone, Retrieve, Reply, StreamFails
    <3>. QED BY <3>1, <3>2
  <2>3. UNCHANGED <<projectRoot, submitted, flags>>
    BY <1>2, StepLeaves
  <2>. QED BY <2>1, <2>2, <2>3, MovedKeeps
<1>. QED BY <1>1, <1>2

LEMMA NextKeeps == IInv /\ [Next]_vars => IInv'
<1>1. ASSUME IInv, UNCHANGED vars PROVE IInv'
  BY <1>1, NothingMoves DEF vars, IInv, Types
<1>. QED BY <1>1, WebviewKeeps, TurnKeeps DEF Next

LEMMA Inductive == Spec => []IInv
BY NextKeeps, InitIInv, PTL DEF Spec

(* However many chats run and however their turns overlap, a turn between    *)
(* begin_turn and end_turn is the one a stop of its chat reaches, or it has  *)
(* been cancelled.                                                           *)
THEOREM StoppableAlways == Spec => []RunningTurnsAreStoppable
<1>1. IInv => RunningTurnsAreStoppable
  BY DEF IInv
<1>. QED BY <1>1, Inductive, PTL

(* The table of cancel flags never holds a turn that has ended, nor one of   *)
(* another chat.                                                             *)
THEOREM NoDeadEntriesEver == Spec => []NoDeadEntries
<1>1. IInv => NoDeadEntries
  BY DEF IInv
<1>. QED BY <1>1, Inductive, PTL

-----------------------------------------------------------------------------
(* What is told of a turn *)

\* A turn tells nothing before its end, something when it reports, and once; the token of
\* a turn that was not submitted is not set.
Telling ==
  /\ runs \in [Chats -> [turn : Turns \cup {NoTurn}, stopping : BOOLEAN]]
  /\ sent \in [Turns -> Seq(Events)]
  /\ \A t \in Turns : /\ turn[t].pc \notin {"ending", "settle", "over"} => sent[t] = <<>>
                      /\ turn[t].pc = "ending" => sent[t] # <<>>
                      /\ turn[t].pc = "free" => ~turn[t].cancelled

LEMMA InitTelling == Init => Telling
<1> SUFFICES ASSUME Init PROVE Telling
  OBVIOUS
<1>1. \A t \in Turns : turn[t].pc = "free" /\ ~turn[t].cancelled /\ sent[t] = <<>>
  BY DEF Init, FreeTurn
<1>2. sent \in [Turns -> Seq(Events)]
  BY DEF Init
<1>3. runs \in [Chats -> [turn : Turns \cup {NoTurn}, stopping : BOOLEAN]]
  BY DEF Init, NoRun
<1>. QED BY <1>1, <1>2, <1>3 DEF Telling

(* What Moved says of the turn and of the others.                            *)
LEMMA MovedMeans ==
  ASSUME Types, NEW t \in Turns, Moved(t)
  PROVE  /\ turn'[t].chat = turn[t].chat /\ turn'[t].cancelled = turn[t].cancelled
         /\ Moves(t, turn'[t].pc)
         /\ \A u \in Turns \ {t} : turn'[u] = turn[u]
<1>1. PICK rec \in Turn : /\ turn' = [turn EXCEPT ![t] = rec]
                          /\ rec.chat = turn[t].chat /\ rec.cancelled = turn[t].cancelled
                          /\ Moves(t, rec.pc)
  BY DEF Moved
<1>2. turn'[t] = rec /\ \A u \in Turns \ {t} : turn'[u] = turn[u]
  BY <1>1 DEF Types
<1>. QED BY <1>1, <1>2

LEMMA MovedTelling ==
  ASSUME Types, Telling, NEW t \in Turns, Moved(t)
  PROVE  /\ sent' \in [Turns -> Seq(Events)]
         /\ \A u \in Turns \ {t} : sent'[u] = sent[u]
         /\ turn'[t].pc \notin {"ending", "settle", "over"} => sent'[t] = <<>>
         /\ turn'[t].pc = "ending" => sent'[t] # <<>>
         /\ turn'[t].pc = "free" => turn[t].pc = "free"
<1>1. Moves(t, turn'[t].pc)
  BY MovedMeans
<1>2. CASE sent' = sent
  BY <1>1, <1>2 DEF Moves, Telling, Working, BegunPlaces, Places
<1>3. CASE sent' # sent
  <2>1. PICK e \in Events : sent' = [sent EXCEPT ![t] = Append(@, e)]
    BY <1>1, <1>3 DEF Moves
  <2>2. turn'[t].pc \in {"ending", "settle"}
    BY <1>1, <1>3 DEF Moves
  <2>3. sent \in [Turns -> Seq(Events)] /\ sent[t] \in Seq(Events)
    BY DEF Telling
  <2>4. Append(sent[t], e) \in Seq(Events) /\ Append(sent[t], e) # <<>>
    BY <2>3
  <2>5. sent' \in [Turns -> Seq(Events)] /\ sent'[t] # <<>>
        /\ \A u \in Turns \ {t} : sent'[u] = sent[u]
    BY <2>1, <2>3, <2>4
  <2>. QED BY <2>2, <2>5
<1>. QED BY <1>2, <1>3

LEMMA TellingKept ==
  ASSUME IInv, Telling, [Next]_vars
  PROVE  Telling'
<1>1. CASE UNCHANGED vars \/ OpenFolder \/ Reload
  <2>1. UNCHANGED <<turn, sent>>
    BY <1>1 DEF vars, OpenFolder, Reload
  <2>2. runs' \in [Chats -> [turn : Turns \cup {NoTurn}, stopping : BOOLEAN]]
    <3>1. runs' = runs \/ runs' = [c \in Chats |-> NoRun]
      BY <1>1 DEF vars, OpenFolder, Reload
    <3>2. NoRun \in [turn : Turns \cup {NoTurn}, stopping : BOOLEAN]
      BY DEF NoRun
    <3>. QED BY <3>1, <3>2 DEF Telling
  <2>. QED BY <2>1, <2>2 DEF Telling
<1>2. ASSUME NEW c \in Chats, Submit(c) PROVE Telling'
  <2>1. PICK t \in Turns : t = submitted + 1 /\ submitted \in Nat
    BY <1>2, DesktopConstants DEF IInv, Types, Submit, Turns
  <2> DEFINE rec == [FreeTurn EXCEPT !.pc = "invoked", !.chat = c, !.root = projectRoot]
  <2>2. rec.pc = "invoked"
    BY DEF FreeTurn
  <2>3. turn' = [turn EXCEPT ![t] = rec] /\ UNCHANGED sent
        /\ runs' = [runs EXCEPT ![c] = [turn |-> t, stopping |-> FALSE]]
    BY <1>2, <2>1 DEF Submit
  <2> HIDE DEF rec
  <2>4. turn[t].pc = "free" /\ sent[t] = <<>>
    BY <2>1 DEF IInv, FreeUntilSubmitted, Telling
  <2>5. \A u \in Turns : turn'[u] = IF u = t THEN rec ELSE turn[u]
    BY <2>3 DEF IInv, Types
  <2>6. runs' \in [Chats -> [turn : Turns \cup {NoTurn}, stopping : BOOLEAN]]
    BY <2>3 DEF Telling
  <2>. QED BY <2>2, <2>3, <2>4, <2>5, <2>6 DEF Telling
<1>3. ASSUME NEW c \in Chats, Stop(c) PROVE Telling'
  <2>1. UNCHANGED sent /\ runs' = [runs EXCEPT ![c].stopping = TRUE]
    BY <1>3 DEF Stop
  <2>2. runs' \in [Chats -> [turn : Turns \cup {NoTurn}, stopping : BOOLEAN]]
    BY <2>1 DEF Telling
  <2>3. CASE flags[c] = NoTurn
    BY <1>3, <2>1, <2>2, <2>3 DEF Stop, TurnsWithCancelled, Telling
  <2>4. CASE flags[c] # NoTurn
    <3>1. PICK f \in Turns : f = flags[c] /\ turn[f].pc # "free"
      BY <2>4 DEF IInv, Types, NoDeadEntries, Begun
    <3>2. turn' = [turn EXCEPT ![f].cancelled = TRUE]
      BY <1>3, <2>4, <3>1 DEF Stop, TurnsWithCancelled
    <3>3. \A u \in Turns : turn'[u].pc = turn[u].pc /\ (u # f => turn'[u] = turn[u])
      BY <3>2 DEF IInv, Types, Turn
    <3>. QED BY <2>1, <2>2, <3>1, <3>3 DEF Telling
  <2>. QED BY <2>3, <2>4
<1>4. ASSUME NEW t \in Turns, BeginTurn(t) PROVE Telling'
  <2>1. UNCHANGED <<runs, sent>>
    BY <1>4 DEF BeginTurn
  <2>2. /\ turn[t].pc = "invoked" /\ turn'[t].pc \in {"retrieve", "prepare"}
        /\ turn[t].chat \in Chats
    BY <1>4, Beginning
  <2>3. PICK f : f = flags[turn[t].chat] /\ (f \in Turns => turn[f].pc # "free")
    BY <2>2 DEF IInv, Types, NoDeadEntries, Begun, NoTurn, Turns
  <2>4. \A u \in Turns \ {t} : /\ turn'[u].pc = turn[u].pc
                               /\ turn'[u].cancelled = IF u = f THEN TRUE ELSE turn[u].cancelled
    <3>1. \A u \in Turns \ {t} :
            /\ turn'[u].pc = turn[u].pc /\ turn'[u].chat = turn[u].chat
            /\ turn'[u].cancelled = IF u = flags[turn[t].chat] THEN TRUE ELSE turn[u].cancelled
      BY <1>4, Beginning
    <3>. QED BY <2>3, <3>1
  <2>5. ASSUME NEW u \in Turns
        PROVE  /\ turn'[u].pc \notin {"ending", "settle", "over"} => sent'[u] = <<>>
               /\ turn'[u].pc = "ending" => sent'[u] # <<>>
               /\ turn'[u].pc = "free" => ~turn'[u].cancelled
    <3>1. CASE u = t
      BY <2>1, <2>2, <3>1 DEF Telling
    <3>2. CASE u # t
      BY <2>1, <2>3, <2>4, <3>2 DEF Telling
    <3>. QED BY <3>1, <3>2
  <2>. QED BY <2>1, <2>5 DEF Telling
<1>5. ASSUME NEW t \in Turns, Advance(t) \/ Outside(t), ~BeginTurn(t) PROVE Telling'
  <2>1. Moved(t) /\ Types
    BY <1>5, StepMoves DEF IInv
  <2>2. runs' \in [Chats -> [turn : Turns \cup {NoTurn}, stopping : BOOLEAN]]
    <3>1. CASE runs' = runs
      BY <3>1 DEF Telling
    <3>2. CASE Settle(t)
      <4>1. runs' = runs \/ \E c \in Chats : runs' = [runs EXCEPT ![c] = NoRun]
        BY <2>1, <3>2 DEF Settle, Types, Turn
      <4>2. NoRun \in [turn : Turns \cup {NoTurn}, stopping : BOOLEAN]
        BY DEF NoRun
      <4>. QED BY <4>1, <4>2 DEF Telling
    <3>. QED BY <1>5, <3>1, <3>2, StepLeaves
  <2>3. turn'[t].cancelled = turn[t].cancelled /\ \A u \in Turns \ {t} : turn'[u] = turn[u]
    BY <2>1, MovedMeans
  <2>. QED BY <2>1, <2>2, <2>3, MovedTelling DEF Telling
<1>. QED BY <1>1, <1>2, <1>3, <1>4, <1>5 DEF Next

LEMMA Invariance == Spec => [](IInv /\ Telling)
BY NextKeeps, TellingKept, InitIInv, InitTelling, PTL DEF Spec

-----------------------------------------------------------------------------
(* The type invariant and its limits *)

\* A turn is in its limits; before triage it is at no stage.
Bounded(r) ==
  /\ r.step < MaxSteps /\ r.calls <= MaxCalls /\ r.stage <= r.stages
  /\ r.pc = "tool" => r.task # "none"
  /\ r.pc \in {"free", "invoked", "retrieve", "prepare"} => r.stage = 0

Limits ==
  /\ workspaceRoot \in Folders \cup {NoFolder}
  /\ \A t \in Turns : Bounded(turn[t]) /\ Len(sent[t]) <= 1

LEMMA FreeTurnIsBounded ==
  ASSUME NEW c, NEW root
  PROVE  Bounded(FreeTurn) /\ Bounded([FreeTurn EXCEPT !.pc = "invoked", !.chat = c, !.root = root])
BY DesktopConstants DEF FreeTurn, Bounded

LEMMA InitLimits == Init => Limits
<1> SUFFICES ASSUME Init PROVE Limits
  OBVIOUS
<1>1. \A t \in Turns : turn[t] = FreeTurn /\ sent[t] = <<>>
  BY DEF Init
<1>2. Bounded(FreeTurn)
  BY FreeTurnIsBounded
<1>3. Len(<<>>) <= 1
  OBVIOUS
<1>. QED BY <1>1, <1>2, <1>3 DEF Init, Limits

LEMMA OneIsBounded ==
  ASSUME Types, NEW t \in Turns, NEW rec, turn' = [turn EXCEPT ![t] = rec], Bounded(rec),
         \A u \in Turns : Bounded(turn[u])
  PROVE  \A u \in Turns : Bounded(turn'[u])
BY DEF Types

LEMMA GoingIsBounded ==
  ASSUME Types, NEW t \in Turns, NEW place, GoTo(t, place),
         place # "tool" /\ (place \in {"free", "invoked", "retrieve", "prepare"} => turn[t].stage = 0),
         \A u \in Turns : Bounded(turn[u])
  PROVE  \A u \in Turns : Bounded(turn'[u])
<1>1. PICK rec : rec = [turn[t] EXCEPT !.pc = place]
  OBVIOUS
<1>2. turn' = [turn EXCEPT ![t] = rec]
  BY <1>1 DEF GoTo, Types
<1>3. Bounded(rec)
  BY <1>1 DEF Bounded, Types, Turn
<1>. QED BY <1>2, <1>3, OneIsBounded

LEMMA AfterCallIsBounded ==
  ASSUME Types, NEW t \in Turns, turn' = AfterCall(t), \A u \in Turns : Bounded(turn[u])
  PROVE  \A u \in Turns : Bounded(turn'[u])
<1>1. turn[t] \in Turn /\ Bounded(turn[t])
  BY DEF Types
<1>2. CASE turn[t].calls > 1
  <2>1. PICK rec : rec = [turn[t] EXCEPT !.pc = "call", !.calls = @ - 1, !.task = "none"]
    OBVIOUS
  <2>2. turn' = [turn EXCEPT ![t] = rec]
    BY <1>2, <2>1 DEF AfterCall, Types
  <2>3. Bounded(rec)
    BY <1>1, <1>2, <2>1, DesktopConstants DEF Bounded, Turn
  <2>. QED BY <2>2, <2>3, OneIsBounded
<1>3. CASE ~(turn[t].calls > 1) /\ turn[t].step + 1 = MaxSteps
  <2>1. PICK rec : rec = [turn[t] EXCEPT !.pc = "final", !.calls = 0, !.task = "none"]
    OBVIOUS
  <2>2. turn' = [turn EXCEPT ![t] = rec]
    BY <1>3, <2>1 DEF AfterCall, Types
  <2>3. Bounded(rec)
    BY <1>1, <2>1, DesktopConstants DEF Bounded, Turn
  <2>. QED BY <2>2, <2>3, OneIsBounded
<1>4. CASE ~(turn[t].calls > 1) /\ turn[t].step + 1 # MaxSteps
  <2>1. PICK rec : rec = [turn[t] EXCEPT !.pc = "step", !.step = @ + 1, !.calls = 0, !.task = "none"]
    OBVIOUS
  <2>2. turn' = [turn EXCEPT ![t] = rec]
    BY <1>4, <2>1 DEF AfterCall, Types
  <2>3. Bounded(rec)
    BY <1>1, <1>4, <2>1, DesktopConstants DEF Bounded, Turn
  <2>. QED BY <2>2, <2>3, OneIsBounded
<1>. QED BY <1>2, <1>3, <1>4

LEMMA StepIsBounded ==
  ASSUME Types, Limits, NEW t \in Turns, Advance(t) \/ Outside(t), ~BeginTurn(t)
  PROVE  \A u \in Turns : Bounded(turn'[u])
<1>1. turn[t] \in Turn /\ Bounded(turn[t]) /\ \A u \in Turns : Bounded(turn[u])
  BY DEF Types, Limits
<1>2. ASSUME NEW rec, turn' = [turn EXCEPT ![t] = rec], Bounded(rec)
      PROVE  \A u \in Turns : Bounded(turn'[u])
  BY <1>1, <1>2, OneIsBounded
<1>3. CASE OpenFails(t) \/ EndTurn(t) \/ ReportFailure(t) \/ Settle(t) \/ Cancelled(t) \/ StreamFails(t)
  <2>1. PICK place \in {"settle", "report", "over", "ending", "failing"} : GoTo(t, place)
    BY <1>3 DEF OpenFails, EndTurn, ReportFailure, Settle, Cancelled, StreamFails, End, Fail
  <2>. QED BY <1>1, <2>1, GoingIsBounded
<1>4. CASE Retrieve(t)
  <2>1. turn[t].pc = "retrieve" /\ (GoTo(t, "prepare") \/ GoTo(t, "failing"))
    BY <1>4 DEF Retrieve, Fail
  <2>2. turn[t].stage = 0
    BY <1>1, <2>1 DEF Bounded
  <2>. QED BY <1>1, <2>1, <2>2, GoingIsBounded
<1>5. CASE Prepare(t)
  <2>1. CASE Fail(t)
    BY <1>1, <2>1, GoingIsBounded DEF Fail
  <2>2. CASE ~Fail(t)
    <3>1. PICK n \in 0..MaxStages :
            turn' = [turn EXCEPT ![t].stages = n, ![t].pc = IF n = 0 THEN "step" ELSE "stage"]
      BY <1>5, <2>2 DEF Prepare
    <3>2. PICK rec : rec = [turn[t] EXCEPT !.stages = n, !.pc = IF n = 0 THEN "step" ELSE "stage"]
      OBVIOUS
    <3>3. turn' = [turn EXCEPT ![t] = rec]
      BY <3>1, <3>2 DEF Types
    <3>4. turn[t].stage = 0
      BY <1>1, <1>5 DEF Prepare, Bounded
    <3>5. Bounded(rec)
      BY <1>1, <3>2, <3>4, DesktopConstants DEF Bounded, Turn
    <3>. QED BY <1>2, <3>3, <3>5
  <2>. QED BY <2>1, <2>2
<1>6. CASE Check(t)
  <2>1. CASE turn[t].cancelled
    <3>1. GoTo(t, "ending")
      BY <1>6, <2>1 DEF Check, End
    <3>. QED BY <1>1, <3>1, GoingIsBounded
  <2>2. CASE ~turn[t].cancelled
    <3>1. PICK rec : rec = [turn[t] EXCEPT !.pc = CASE turn[t].pc = "stage" -> "step"
                                                    [] turn[t].pc = "step"  -> "stream"
                                                    [] turn[t].pc = "call"  -> "execute",
                                           !.step = IF turn[t].pc = "stage" THEN 0 ELSE @]
      OBVIOUS
    <3>2. turn' = [turn EXCEPT ![t] = rec]
      BY <1>6, <2>2, <3>1 DEF Check, Types
    <3>3. rec.pc \in {"step", "stream", "execute"} /\ rec.step \in {0, turn[t].step}
          /\ rec.calls = turn[t].calls /\ rec.stage = turn[t].stage /\ rec.stages = turn[t].stages
      BY <1>1, <1>6, <3>1 DEF Check, Turn
    <3>4. Bounded(rec)
      BY <1>1, <3>3, DesktopConstants DEF Bounded
    <3>. QED BY <1>2, <3>2, <3>4
  <2>. QED BY <2>1, <2>2
<1>7. CASE Reply(t)
  <2>1. CASE RunEnds(t)
    <3>1. CASE turn[t].stage + 1 < turn[t].stages
      <4>1. PICK rec : rec = [turn[t] EXCEPT !.pc = "stage", !.stage = @ + 1]
        OBVIOUS
      <4>2. turn' = [turn EXCEPT ![t] = rec]
        BY <2>1, <3>1, <4>1 DEF RunEnds, Types
      <4>3. Bounded(rec)
        BY <1>1, <3>1, <4>1 DEF Bounded, Turn
      <4>. QED BY <1>2, <4>2, <4>3
    <3>2. CASE ~(turn[t].stage + 1 < turn[t].stages)
      <4>1. GoTo(t, "ending")
        BY <2>1, <3>2 DEF RunEnds, End
      <4>. QED BY <1>1, <4>1, GoingIsBounded
    <3>. QED BY <3>1, <3>2
  <2>2. CASE ~RunEnds(t)
    <3>1. PICK k \in 1..MaxCalls : turn' = [turn EXCEPT ![t].pc = "call", ![t].calls = k]
      BY <1>7, <2>2 DEF Reply
    <3>2. PICK rec : rec = [turn[t] EXCEPT !.pc = "call", !.calls = k]
      OBVIOUS
    <3>3. turn' = [turn EXCEPT ![t] = rec]
      BY <3>1, <3>2 DEF Types
    <3>4. Bounded(rec)
      BY <1>1, <3>2, DesktopConstants DEF Bounded, Turn
    <3>. QED BY <1>2, <3>3, <3>4
  <2>. QED BY <2>1, <2>2
<1>8. CASE Execute(t)
  <2>1. CASE turn' = AfterCall(t)
    BY <1>1, <2>1, AfterCallIsBounded
  <2>2. CASE turn' # AfterCall(t)
    <3>1. PICK rec : rec = [turn[t] EXCEPT !.pc = "tool", !.task = "queued"]
      OBVIOUS
    <3>2. turn' = [turn EXCEPT ![t] = rec]
      BY <1>8, <2>2, <3>1 DEF Execute, Types
    <3>3. Bounded(rec)
      BY <1>1, <3>1 DEF Bounded, Turn
    <3>. QED BY <1>2, <3>2, <3>3
  <2>. QED BY <2>1, <2>2
<1>9. CASE RunTask(t)
  <2>1. PICK rec : rec = [turn[t] EXCEPT !.task = "ran"]
    OBVIOUS
  <2>2. turn' = [turn EXCEPT ![t] = rec]
    BY <1>9, <2>1 DEF RunTask, Types
  <2>3. Bounded(rec)
    BY <1>1, <2>1 DEF Bounded, Turn
  <2>. QED BY <1>2, <2>2, <2>3
<1>10. CASE ToolDone(t)
  BY <1>1, <1>10, AfterCallIsBounded DEF ToolDone
<1>. QED BY <1>3, <1>4, <1>5, <1>6, <1>7, <1>8, <1>9, <1>10 DEF Advance, Outside

\* Cancelling a token keeps a turn in its limits.
LEMMA CancellingIsBounded ==
  ASSUME NEW r \in Turn, Bounded(r)
  PROVE  Bounded([r EXCEPT !.cancelled = TRUE])
BY DEF Bounded, Turn

LEMMA LimitsKept ==
  ASSUME IInv, Telling, Limits, [Next]_vars
  PROVE  Limits'
<1> Types
  BY DEF IInv
<1>1. workspaceRoot' \in Folders \cup {NoFolder}
  <2>1. workspaceRoot' = workspaceRoot \/ \E t \in Turns : workspaceRoot' = turn[t].root
    BY DEF Next, OpenFolder, Reload, Submit, Stop, Advance, Outside, OpenFails, BeginTurn, EndTurn,
           ReportFailure, Settle, Prepare, Check, Cancelled, Execute, ToolDone, Retrieve, Reply,
           StreamFails, RunTask, RunEnds, Fail, End, Quiet, vars
  <2>. QED BY <2>1 DEF Limits, Types, Turn
<1>2. ASSUME NEW t \in Turns PROVE Len(sent'[t]) <= 1
  <2>1. sent' = sent \/ \E u \in Turns : Moved(u)
    BY StepMoves DEF Next, OpenFolder, Reload, Submit, Stop, BeginTurn, vars
  <2>2. ASSUME NEW u \in Turns, Moved(u) PROVE Len(sent'[t]) <= 1
    <3>1. Moves(u, turn'[u].pc)
      BY <2>2, MovedMeans
    <3>2. CASE sent' = sent
      BY <3>2 DEF Limits
    <3>3. CASE sent' # sent
      <4>1. PICK e \in Events : sent' = [sent EXCEPT ![u] = Append(@, e)]
        BY <3>1, <3>3 DEF Moves
      <4>2. sent[u] = <<>>
        BY <3>1, <3>3 DEF Moves, Telling, Working, BegunPlaces, Places
      <4>3. sent'[u] = <<e>> /\ (t # u => sent'[t] = sent[t])
        BY <4>1, <4>2 DEF Telling
      <4>4. Len(<<e>>) <= 1
        OBVIOUS
      <4>5. CASE t = u
        BY <4>3, <4>4, <4>5
      <4>6. CASE t # u
        BY <4>3, <4>6 DEF Limits
      <4>. QED BY <4>5, <4>6
    <3>. QED BY <3>2, <3>3
  <2>. QED BY <2>1, <2>2 DEF Limits
<1>3. ASSUME NEW t \in Turns PROVE Bounded(turn'[t])
  <2>1. Bounded(turn[t]) /\ turn[t] \in Turn
    BY DEF Limits, Types
  <2>2. CASE UNCHANGED vars \/ OpenFolder \/ Reload
    <3>1. turn' = turn
      BY <2>2 DEF vars, OpenFolder, Reload
    <3>. QED BY <2>1, <3>1
  <2>3. ASSUME NEW c \in Chats, Submit(c) PROVE Bounded(turn'[t])
    <3>1. PICK s \in Turns : s = submitted + 1
      BY <2>3, DesktopConstants DEF Types, Submit, Turns
    <3>2. PICK rec : rec = [FreeTurn EXCEPT !.pc = "invoked", !.chat = c, !.root = projectRoot]
      OBVIOUS
    <3>3. Bounded(rec)
      BY <3>2, FreeTurnIsBounded
    <3>4. turn' = [turn EXCEPT ![s] = rec]
      BY <2>3, <3>1, <3>2 DEF Submit
    <3>. QED BY <3>3, <3>4, OneIsBounded DEF Limits
  <2>4. ASSUME NEW c \in Chats, turn' = TurnsWithCancelled(c) PROVE Bounded(turn'[t])
    <3>1. turn'[t] = turn[t] \/ turn'[t] = [turn[t] EXCEPT !.cancelled = TRUE]
      BY <2>4 DEF TurnsWithCancelled, Types
    <3>. QED BY <2>1, <3>1, CancellingIsBounded
  <2>5. ASSUME NEW u \in Turns, BeginTurn(u) PROVE Bounded(turn'[t])
    <3>1. PICK place \in {"retrieve", "prepare"} :
            turn' = [TurnsWithCancelled(turn[u].chat) EXCEPT ![u].pc = place]
      BY <2>5 DEF BeginTurn
    <3>2. PICK between : between = TurnsWithCancelled(turn[u].chat)
      OBVIOUS
    <3>3. /\ between \in [Turns -> Turn]
          /\ between[t] = turn[t] \/ between[t] = [turn[t] EXCEPT !.cancelled = TRUE]
      <4>1. between = turn \/ \E f \in Turns : between = [turn EXCEPT ![f].cancelled = TRUE]
        BY <3>2 DEF TurnsWithCancelled, Types, Turn
      <4>2. CASE between = turn
        BY <4>2 DEF Types
      <4>3. ASSUME NEW f \in Turns, between = [turn EXCEPT ![f].cancelled = TRUE]
            PROVE  /\ between \in [Turns -> Turn]
                   /\ between[t] = turn[t] \/ between[t] = [turn[t] EXCEPT !.cancelled = TRUE]
        <5>1. PICK rec : rec = [turn[f] EXCEPT !.cancelled = TRUE]
          OBVIOUS
        <5>2. rec \in Turn
          BY <5>1 DEF Types, Turn
        <5>3. between = [turn EXCEPT ![f] = rec]
          BY <4>3, <5>1 DEF Types
        <5>. QED BY <5>1, <5>2, <5>3 DEF Types
      <4>. QED BY <4>1, <4>2, <4>3
    <3>4. Bounded(between[t])
      BY <2>1, <3>3, CancellingIsBounded
    <3>5. CASE t # u
      BY <3>1, <3>2, <3>3, <3>4, <3>5
    <3>6. CASE t = u
      <4>1. turn[t].pc = "invoked" /\ turn[t].stage = 0
        BY <2>1, <2>5, <3>6 DEF BeginTurn, Bounded
      <4>2. between[t] \in Turn /\ between[t].stage = 0
        BY <2>1, <3>3, <4>1 DEF Turn
      <4>3. turn'[t] = [between[t] EXCEPT !.pc = place]
        BY <3>1, <3>2, <3>3, <3>6
      <4>. QED BY <3>4, <4>2, <4>3 DEF Bounded, Turn
    <3>. QED BY <3>5, <3>6
  <2>6. ASSUME NEW u \in Turns, Advance(u) \/ Outside(u), ~BeginTurn(u) PROVE Bounded(turn'[t])
    BY <2>6, StepIsBounded
  <2>. QED BY <2>2, <2>3, <2>4, <2>5, <2>6 DEF Next, Stop
<1>. QED BY <1>1, <1>2, <1>3 DEF Limits

(* No turn goes beyond MAX_STEPS of agent.rs, its stages or the calls of its  *)
(* answer, none reports twice, and none awaits a tool that was not spawned.   *)
THEOREM TypeCorrect == Spec => []TypeOK
<1>1. IInv /\ Telling /\ Limits => TypeOK
  BY DEF IInv, Telling, Limits, Types, Bounded, TypeOK
<1>2. IInv /\ Telling /\ Limits /\ [Next]_vars => Limits'
  BY LimitsKept
<1>. QED BY <1>1, <1>2, InitLimits, Invariance, PTL DEF Spec

-----------------------------------------------------------------------------
(* Who cancels a turn *)

LEMMA CancelledByItsChat ==
  ASSUME IInv, Telling, [Next]_vars, NEW t \in Turns, turn[t].chat = turn'[t].chat,
         ~turn[t].cancelled, turn'[t].cancelled
  PROVE  LET c == turn[t].chat
         IN  (runs'[c].stopping /\ ~runs[c].stopping) \/ flags'[c] \notin {t, NoTurn}
<1>1. CASE UNCHANGED vars \/ OpenFolder \/ Reload
  BY <1>1 DEF vars, OpenFolder, Reload
<1>2. ASSUME NEW c \in Chats, Submit(c) PROVE FALSE
  <2>1. PICK s \in Turns : s = submitted + 1
    BY <1>2, DesktopConstants DEF IInv, Types, Submit, Turns
  <2> DEFINE rec == [FreeTurn EXCEPT !.pc = "invoked", !.chat = c, !.root = projectRoot]
  <2>2. rec.cancelled = FALSE
    BY DEF FreeTurn
  <2>3. turn' = [turn EXCEPT ![s] = rec]
    BY <1>2, <2>1 DEF Submit
  <2> HIDE DEF rec
  <2>4. turn'[t] = IF t = s THEN rec ELSE turn[t]
    BY <2>3 DEF IInv, Types
  <2>. QED BY <2>2, <2>4
<1>3. ASSUME NEW c \in Chats, Stop(c)
      PROVE  turn[t].chat = c /\ runs'[c].stopping /\ ~runs[c].stopping
  <2>1. flags[c] # NoTurn
    BY <1>3 DEF Stop, TurnsWithCancelled
  <2>2. PICK f \in Turns : f = flags[c] /\ turn[f].chat = c
    BY <2>1 DEF IInv, Types, NoDeadEntries
  <2>3. turn' = [turn EXCEPT ![f].cancelled = TRUE]
    BY <1>3, <2>1, <2>2 DEF Stop, TurnsWithCancelled
  <2>4. t = f
    BY <2>3 DEF IInv, Types
  <2>5. ~runs[c].stopping /\ runs' = [runs EXCEPT ![c].stopping = TRUE]
    BY <1>3 DEF Stop
  <2>6. runs'[c].stopping
    BY <2>5 DEF Telling
  <2>. QED BY <2>2, <2>4, <2>5, <2>6
<1>4. ASSUME NEW u \in Turns, BeginTurn(u)
      PROVE  flags'[turn[t].chat] \notin {t, NoTurn}
  <2>1. /\ turn[u].chat \in Chats /\ flags' = [flags EXCEPT ![turn[u].chat] = u]
        /\ turn'[u].cancelled = turn[u].cancelled
    BY <1>4, Beginning
  <2>2. u # t
    BY <2>1
  <2>3. \A v \in Turns \ {u} :
          /\ turn'[v].pc = turn[v].pc /\ turn'[v].chat = turn[v].chat
          /\ turn'[v].cancelled = IF v = flags[turn[u].chat] THEN TRUE ELSE turn[v].cancelled
    BY <1>4, Beginning
  <2>4. t = flags[turn[u].chat]
    BY <2>2, <2>3
  <2>5. turn[t].chat = turn[u].chat
    BY <2>1, <2>4 DEF IInv, NoDeadEntries, NoTurn, Turns
  <2>6. flags'[turn[t].chat] = u
    BY <2>1, <2>5 DEF IInv, Types
  <2>. QED BY <2>2, <2>6 DEF NoTurn, Turns
<1>5. ASSUME NEW u \in Turns, Advance(u) \/ Outside(u), ~BeginTurn(u) PROVE FALSE
  <2>1. Moved(u) /\ Types
    BY <1>5, StepMoves DEF IInv
  <2>2. turn'[t].cancelled = turn[t].cancelled
    BY <2>1, MovedMeans
  <2>. QED BY <2>2
<1>. QED BY <1>1, <1>2, <1>3, <1>4, <1>5 DEF Next

(* A turn is only cancelled by a stop in its own chat or by a newer turn of  *)
(* that chat (cancel_turn and begin_turn, which look the token up by chat),  *)
(* however many chats and turns there are.                                   *)
THEOREM CancelledFromOwnChat == Spec => ConversationsAreIndependent
<1>1. IInv /\ Telling /\ [Next]_vars =>
        [\A t \in Turns :
           (turn[t].chat = turn'[t].chat /\ ~turn[t].cancelled /\ turn'[t].cancelled)
             => LET c == turn[t].chat
                IN  (runs'[c].stopping /\ ~runs[c].stopping)
                      \/ flags'[c] \notin {t, NoTurn}]_vars
  BY CancelledByItsChat
<1>. QED BY <1>1, Invariance, PTL DEF Spec, ConversationsAreIndependent

-----------------------------------------------------------------------------
(* The turns keep TurnContract's safety: each step is one of its moves *)

Same(u) == PhaseOf(u)' = PhaseOf(u) /\ OutcomeOf(u)' = OutcomeOf(u)
           /\ turn'[u].cancelled = turn[u].cancelled

\* What the moves of the contract change of their turn.
Starts(t)   == /\ PhaseOf(t) = "new" /\ PhaseOf(t)' = "running"
               /\ OutcomeOf(t)' = OutcomeOf(t) /\ turn'[t].cancelled = turn[t].cancelled
IsAsked(t)  == /\ PhaseOf(t) # "new" /\ PhaseOf(t)' = PhaseOf(t)
               /\ OutcomeOf(t)' = OutcomeOf(t) /\ turn'[t].cancelled = TRUE
Finishes(t) == /\ PhaseOf(t) = "running" /\ PhaseOf(t)' = "finished"
               /\ OutcomeOf(t)' \in Contract!Outcomes
               /\ OutcomeOf(t)' = "cancelled" => turn[t].cancelled
               /\ turn'[t].cancelled = turn[t].cancelled
Answers(t)  == /\ PhaseOf(t) = "finished" /\ PhaseOf(t)' = "answered"
               /\ OutcomeOf(t)' = OutcomeOf(t) /\ turn'[t].cancelled = turn[t].cancelled

LEMMA NothingShows ==
  ASSUME \A u \in Turns : Same(u)
  PROVE  UNCHANGED Contract!vars
BY DEF Same, Contract!vars

LEMMA OneShows ==
  ASSUME NEW t \in Turns, \A u \in Turns \ {t} : Same(u),
         Starts(t) \/ IsAsked(t) \/ Finishes(t) \/ Answers(t)
  PROVE  Contract!Next
<1>1. CASE Starts(t)
  <2>1. Contract!Start(t)
    BY <1>1 DEF Starts, Same, Contract!Start
  <2>. QED BY <2>1 DEF Contract!Next
<1>2. CASE IsAsked(t)
  <2>1. Contract!AskToStop(t)
    BY <1>2 DEF IsAsked, Same, Contract!AskToStop
  <2>. QED BY <2>1 DEF Contract!Next
<1>3. CASE Finishes(t)
  <2>1. Contract!Finish(t)
    BY <1>3 DEF Finishes, Same, Contract!Finish
  <2>. QED BY <2>1 DEF Contract!Next
<1>4. CASE Answers(t)
  <2>1. Contract!Answer(t)
    BY <1>4 DEF Answers, Same, Contract!Answer
  <2>. QED BY <2>1 DEF Contract!Next
<1>. QED BY <1>1, <1>2, <1>3, <1>4

\* What is shown of a turn depends on its place, its token and its channel alone.
LEMMA SameShows ==
  ASSUME NEW u \in Turns, turn'[u].pc = turn[u].pc, sent'[u] = sent[u]
  PROVE  /\ PhaseOf(u)' = PhaseOf(u) /\ OutcomeOf(u)' = OutcomeOf(u)
         /\ turn'[u].cancelled = turn[u].cancelled => Same(u)
BY DEF Same, PhaseOf, OutcomeOf

LEMMA MovedShows ==
  ASSUME Types, Telling, NEW t \in Turns, Moved(t)
  PROVE  Contract!Next \/ UNCHANGED Contract!vars
<1>1. /\ turn'[t].cancelled = turn[t].cancelled /\ Moves(t, turn'[t].pc)
      /\ sent'[t] = sent[t] \/ sent[t] = <<>>
      /\ \A u \in Turns \ {t} : Same(u)
  <2>1. turn'[t].cancelled = turn[t].cancelled /\ Moves(t, turn'[t].pc)
        /\ \A u \in Turns \ {t} : turn'[u] = turn[u]
    BY MovedMeans
  <2>2. \A u \in Turns \ {t} : sent'[u] = sent[u]
    BY MovedTelling
  <2>3. \A u \in Turns \ {t} : Same(u)
    BY <2>1, <2>2, SameShows
  <2>4. sent'[t] = sent[t] \/ sent[t] = <<>>
    BY <2>1 DEF Moves, Telling, Working, BegunPlaces, Places
  <2>. QED BY <2>1, <2>3, <2>4
<1>2. CASE Same(t)
  BY <1>1, <1>2, NothingShows
<1>3. CASE turn'[t].pc = turn[t].pc /\ sent' = sent
  BY <1>1, <1>2, <1>3, SameShows
<1>4. CASE turn[t].pc \in Working /\ turn'[t].pc \in Working /\ sent' = sent
  <2>1. Same(t)
    BY <1>1, <1>4 DEF Same, PhaseOf, OutcomeOf, Working, BegunPlaces, Places
  <2>. QED BY <1>2, <2>1
<1>5. CASE turn[t].pc = "failing" /\ turn'[t].pc = "report" /\ sent' = sent
  <2>1. Same(t)
    BY <1>1, <1>5 DEF Same, PhaseOf, OutcomeOf
  <2>. QED BY <1>2, <2>1
<1>6. CASE turn[t].pc = "ending" /\ turn'[t].pc = "settle" /\ sent' = sent
  <2>1. Same(t)
    BY <1>1, <1>6 DEF Same, PhaseOf, OutcomeOf, Telling
  <2>. QED BY <1>2, <2>1
<1>7. CASE turn[t].pc = "invoked" /\ turn'[t].pc = "settle" /\ sent' = sent
  <2>1. sent[t] = <<>>
    BY <1>7 DEF Telling
  <2>2. Finishes(t)
    BY <1>1, <1>7, <2>1 DEF Finishes, PhaseOf, OutcomeOf, Contract!Outcomes
  <2>. QED BY <1>1, <2>2, OneShows
<1>8. CASE turn[t].pc = "settle" /\ turn'[t].pc = "over" /\ sent' = sent
  <2>1. Answers(t)
    BY <1>1, <1>8 DEF Answers, PhaseOf, OutcomeOf
  <2>. QED BY <1>1, <2>1, OneShows
<1>9. ASSUME NEW e \in Events, sent' = [sent EXCEPT ![t] = Append(@, e)],
             e = "cancelled" => turn[t].cancelled,
             \/ turn[t].pc \in Working /\ turn'[t].pc = "ending"
             \/ turn[t].pc = "report"  /\ turn'[t].pc = "settle"
      PROVE  Contract!Next
  <2>1. sent[t] = <<>> /\ turn[t].pc \notin {"free", "over", "settle"}
    BY <1>9 DEF Telling, Working, BegunPlaces, Places
  <2>2. sent'[t] = <<e>>
    BY <1>9, <2>1 DEF Telling
  <2>3. sent'[t] # <<>> /\ sent'[t][Len(sent'[t])] = e
    BY <2>2
  <2>4. PhaseOf(t) = "running"
    BY <2>1 DEF PhaseOf
  <2>5. PhaseOf(t)' = "finished" /\ OutcomeOf(t)' = e
    BY <1>9, <2>3 DEF PhaseOf, OutcomeOf
  <2>6. Finishes(t)
    BY <1>1, <1>9, <2>4, <2>5 DEF Finishes, Contract!Outcomes, Events
  <2>. QED BY <1>1, <2>6, OneShows
<1>. QED BY <1>1, <1>3, <1>4, <1>5, <1>6, <1>7, <1>8, <1>9 DEF Moves

LEMMA StepRefines == IInv /\ Telling /\ [Next]_vars => [Contract!Next]_(Contract!vars)
<1> SUFFICES ASSUME IInv, Telling, [Next]_vars
             PROVE  Contract!Next \/ UNCHANGED Contract!vars
  OBVIOUS
<1>1. CASE UNCHANGED vars \/ OpenFolder \/ Reload
  <2>1. UNCHANGED <<turn, sent>>
    BY <1>1 DEF vars, OpenFolder, Reload
  <2>2. \A u \in Turns : Same(u)
    BY <2>1, SameShows
  <2>. QED BY <2>2, NothingShows
<1>2. ASSUME NEW c \in Chats, Submit(c) PROVE Contract!Next
  <2>1. PICK t \in Turns : t = submitted + 1 /\ submitted \in Nat
    BY <1>2, DesktopConstants DEF IInv, Types, Submit, Turns
  <2> DEFINE rec == [FreeTurn EXCEPT !.pc = "invoked", !.chat = c, !.root = projectRoot]
  <2>2. rec.pc = "invoked" /\ rec.cancelled = FALSE
    BY DEF FreeTurn
  <2>3. turn' = [turn EXCEPT ![t] = rec] /\ UNCHANGED sent
    BY <1>2, <2>1 DEF Submit
  <2> HIDE DEF rec
  <2>4. turn[t].pc = "free" /\ sent[t] = <<>> /\ turn[t].cancelled = FALSE
    BY <2>1 DEF IInv, FreeUntilSubmitted, Telling, Types, Turn
  <2>5. turn'[t] = rec /\ \A u \in Turns \ {t} : turn'[u] = turn[u]
    BY <2>3 DEF IInv, Types
  <2>6. \A u \in Turns \ {t} : Same(u)
    BY <2>3, <2>5, SameShows
  <2>7. Starts(t)
    BY <2>2, <2>3, <2>4, <2>5 DEF Starts, PhaseOf, OutcomeOf
  <2>. QED BY <2>6, <2>7, OneShows
<1>3. ASSUME NEW f \in Turns, turn[f].pc # "free", sent' = sent, turn'[f].cancelled = TRUE,
             PhaseOf(f)' = PhaseOf(f), OutcomeOf(f)' = OutcomeOf(f),
             \A u \in Turns \ {f} : Same(u)
      PROVE  Contract!Next
  <2>1. IsAsked(f)
    BY <1>3 DEF IsAsked, PhaseOf
  <2>. QED BY <1>3, <2>1, OneShows
<1>4. ASSUME NEW c \in Chats, Stop(c) PROVE Contract!Next \/ UNCHANGED Contract!vars
  <2>1. UNCHANGED sent
    BY <1>4 DEF Stop
  <2>2. CASE flags[c] = NoTurn
    <3>1. \A u \in Turns : Same(u)
      BY <1>4, <2>1, <2>2, SameShows DEF Stop, TurnsWithCancelled
    <3>. QED BY <3>1, NothingShows
  <2>3. CASE flags[c] # NoTurn
    <3>1. PICK f \in Turns : f = flags[c] /\ turn[f].pc # "free"
      BY <2>3 DEF IInv, Types, NoDeadEntries, Begun
    <3>2. turn' = [turn EXCEPT ![f].cancelled = TRUE]
      BY <1>4, <2>3, <3>1 DEF Stop, TurnsWithCancelled
    <3>3. /\ turn'[f].pc = turn[f].pc /\ turn'[f].cancelled = TRUE
          /\ \A u \in Turns \ {f} : turn'[u] = turn[u]
      BY <3>2 DEF IInv, Types, Turn
    <3>4. \A u \in Turns \ {f} : Same(u)
      BY <2>1, <3>3, SameShows
    <3>5. PhaseOf(f)' = PhaseOf(f) /\ OutcomeOf(f)' = OutcomeOf(f)
      BY <2>1, <3>3, SameShows
    <3>. QED BY <1>3, <2>1, <3>1, <3>3, <3>4, <3>5
  <2>. QED BY <2>2, <2>3
<1>5. ASSUME NEW t \in Turns, BeginTurn(t) PROVE Contract!Next \/ UNCHANGED Contract!vars
  <2>1. UNCHANGED sent
    BY <1>5 DEF BeginTurn
  <2>2. /\ turn[t].pc = "invoked" /\ turn'[t].pc \in {"retrieve", "prepare"}
        /\ turn[t].chat \in Chats /\ flags[turn[t].chat] # t
        /\ turn'[t].cancelled = turn[t].cancelled
    BY <1>5, Beginning
  <2>3. PICK f : f = flags[turn[t].chat] /\ f # t /\ (f # NoTurn => f \in Turns /\ turn[f].pc # "free")
    BY <2>2 DEF IInv, Types, NoDeadEntries, Begun
  <2>4. \A u \in Turns \ {t} : /\ turn'[u].pc = turn[u].pc
                               /\ turn'[u].cancelled = IF u = f THEN TRUE ELSE turn[u].cancelled
    <3>1. \A u \in Turns \ {t} :
            /\ turn'[u].pc = turn[u].pc /\ turn'[u].chat = turn[u].chat
            /\ turn'[u].cancelled = IF u = flags[turn[t].chat] THEN TRUE ELSE turn[u].cancelled
      BY <1>5, Beginning
    <3>. QED BY <2>3, <3>1
  <2>5. Same(t)
    BY <2>1, <2>2 DEF Same, PhaseOf, OutcomeOf
  <2>6. \A u \in Turns \ {t} : PhaseOf(u)' = PhaseOf(u) /\ OutcomeOf(u)' = OutcomeOf(u)
    BY <2>1, <2>4, SameShows
  <2>7. \A u \in Turns \ {f} : Same(u)
    BY <2>4, <2>5, <2>6 DEF Same
  <2>8. CASE f = NoTurn
    BY <2>7, <2>8, NothingShows DEF NoTurn, Turns
  <2>9. CASE f # NoTurn
    <3>1. turn'[f].cancelled = TRUE
      BY <2>3, <2>4, <2>9
    <3>. QED BY <1>3, <2>1, <2>3, <2>6, <2>7, <2>9, <3>1
  <2>. QED BY <2>8, <2>9
<1>6. ASSUME NEW t \in Turns, Advance(t) \/ Outside(t), ~BeginTurn(t)
      PROVE  Contract!Next \/ UNCHANGED Contract!vars
  BY <1>6, StepMoves, MovedShows DEF IInv
<1>. QED BY <1>1, <1>2, <1>4, <1>5, <1>6 DEF Next

(* Every turn is reported over exactly once, as stopped only if a stop was    *)
(* asked for, and answered after that (run_turn and send_prompt), however     *)
(* turns overlap: the safety part of KeepsContract.                           *)
THEOREM TurnsKeepTheirContract == Spec => Contract!Spec
<1>1. Init => Contract!Init
  <2>1. SUFFICES ASSUME Init PROVE Contract!Init
    OBVIOUS
  <2>2. \A t \in Turns : turn[t].pc = "free" /\ turn[t].cancelled = FALSE /\ sent[t] = <<>>
    BY <2>1 DEF Init, FreeTurn
  <2>3. \A t \in Turns : PhaseOf(t) = "new" /\ OutcomeOf(t) = "none"
    BY <2>2 DEF PhaseOf, OutcomeOf
  <2>. QED BY <2>2, <2>3 DEF Contract!Init
<1>. QED BY <1>1, StepRefines, Invariance, PTL DEF Spec, Contract!Spec

-----------------------------------------------------------------------------
(***************************************************************************)
(* The cancel token that a turn hands to its model calls and tools, by     *)
(* itself (module CancelToken): no wake-up is lost, and every step is a    *)
(* step of Cancellation, for any number of tasks and of cancels.           *)
(***************************************************************************)
TokenInv == TokenTypeOK /\ NoLostWakeup

LEMMA InitTokenInv == TokenInit => TokenInv
BY DEF TokenInit, TokenInv, TokenTypeOK, NoLostWakeup

LEMMA WaiterStep ==
  ASSUME TokenInv, NEW w \in Waiters,
         Call(w) \/ Register(w) \/ ReadFlag(w) \/ Poll(w) \/ Wake(w) \/ Drop(w)
  PROVE  TokenInv'
<1>1. CASE Call(w)
  BY <1>1 DEF TokenInv, TokenTypeOK, NoLostWakeup, Call
<1>2. CASE Register(w)
  BY <1>2 DEF TokenInv, TokenTypeOK, NoLostWakeup, Register
<1>3. CASE ReadFlag(w)
  BY <1>3 DEF TokenInv, TokenTypeOK, NoLostWakeup, ReadFlag
<1>4. CASE Wake(w)
  BY <1>4 DEF TokenInv, TokenTypeOK, NoLostWakeup, Wake
<1>5. CASE Drop(w)
  BY <1>5 DEF TokenInv, TokenTypeOK, NoLostWakeup, Drop
<1>6. CASE Poll(w)
  BY <1>6 DEF TokenInv, TokenTypeOK, NoLostWakeup, Poll
<1>. QED BY <1>1, <1>2, <1>3, <1>4, <1>5, <1>6

LEMMA CancellerStep ==
  ASSUME TokenInv, NEW c \in Cancellers, Store(c) \/ Notify(c)
  PROVE  TokenInv'
<1>1. CASE Store(c)
  BY <1>1 DEF TokenInv, TokenTypeOK, NoLostWakeup, Store
<1>2. CASE Notify(c)
  <2>1. \A w \in Waiters : waiter'[w] \in {"poll", "await"} => w \in woken'
    BY <1>2 DEF TokenInv, TokenTypeOK, Notify, Registered
  <2>2. TokenTypeOK'
    BY <1>2 DEF TokenInv, TokenTypeOK, Notify, Registered
  <2>. QED BY <2>1, <2>2 DEF TokenInv, NoLostWakeup
<1>. QED BY <1>1, <1>2

LEMMA TokenInductive == TokenSpec => []TokenInv
<1>1. TokenInv /\ [TokenNext]_tokenVars => TokenInv'
  <2>1. ASSUME TokenInv, UNCHANGED tokenVars PROVE TokenInv'
    BY <2>1 DEF TokenInv, TokenTypeOK, NoLostWakeup, tokenVars
  <2>. QED BY <2>1, WaiterStep, CancellerStep DEF TokenNext
<1>. QED BY <1>1, InitTokenInv, PTL DEF TokenSpec

(* However many tasks wait and however many threads cancel, none of the      *)
(* interleavings of cancelled() and cancel() puts a task to sleep for good.  *)
THEOREM WakeupsArrive == TokenSpec => []NoLostWakeup
<1>1. TokenInv => NoLostWakeup
  BY DEF TokenInv
<1>. QED BY <1>1, TokenInductive, PTL

-----------------------------------------------------------------------------
LEMMA PhaseAfter ==
  ASSUME TokenTypeOK, NEW w \in Waiters, NEW place,
         waiter' = [waiter EXCEPT ![w] = place]
  PROVE  [v \in Waiters |-> TokenPhase(waiter'[v])]
           = [[v \in Waiters |-> TokenPhase(waiter[v])] EXCEPT ![w] = TokenPhase(place)]
BY DEF TokenTypeOK, TokenPhase

LEMMA TokenStepRefines == TokenInv /\ [TokenNext]_tokenVars => [Abstract!Next]_(Abstract!vars)
<1> DEFINE phase == [v \in Waiters |-> TokenPhase(waiter[v])]
<1>1. SUFFICES ASSUME TokenInv, [TokenNext]_tokenVars
               PROVE  Abstract!Next \/ UNCHANGED Abstract!vars
  OBVIOUS
<1>2. TokenTypeOK
  BY <1>1 DEF TokenInv
<1>3. ASSUME UNCHANGED <<cancelled, waiter>> PROVE UNCHANGED Abstract!vars
  BY <1>3 DEF Abstract!vars
<1>4. ASSUME NEW w \in Waiters, Call(w) PROVE Abstract!Wait(w)
  BY <1>2, <1>4, PhaseAfter DEF Call, Abstract!Wait, Abstract!Move, TokenPhase, TokenTypeOK
<1>5. ASSUME NEW w \in Waiters, Drop(w) PROVE Abstract!Leave(w)
  BY <1>2, <1>5, PhaseAfter DEF Drop, Abstract!Leave, Abstract!Move, TokenPhase, TokenTypeOK
<1>6. ASSUME NEW w \in Waiters, ReadFlag(w), cancelled PROVE Abstract!Return(w)
  BY <1>2, <1>6, PhaseAfter DEF ReadFlag, Abstract!Return, Abstract!Move, TokenPhase, TokenTypeOK
<1>7. ASSUME NEW w \in Waiters, Register(w) \/ Poll(w) \/ Wake(w) \/ (ReadFlag(w) /\ ~cancelled)
      PROVE  UNCHANGED Abstract!vars
  <2>1. UNCHANGED cancelled
    BY <1>7 DEF Register, Poll, Wake, ReadFlag
  <2>2. /\ waiter[w] \in {"register", "check", "poll", "await"}
        /\ \E place \in {"register", "check", "poll", "await"} :
             waiter' = [waiter EXCEPT ![w] = place]
    BY <1>7 DEF Register, Poll, Wake, ReadFlag
  <2>3. phase' = phase
    BY <1>2, <2>2 DEF TokenTypeOK, TokenPhase
  <2>. QED BY <2>1, <2>3 DEF Abstract!vars
<1>8. ASSUME NEW c \in Cancellers, Store(c) PROVE Abstract!Cancel
  BY <1>8 DEF Store, Abstract!Cancel
<1>9. ASSUME NEW c \in Cancellers, Notify(c) PROVE UNCHANGED Abstract!vars
  BY <1>3, <1>9 DEF Notify
<1>. QED BY <1>1, <1>3, <1>4, <1>5, <1>6, <1>7, <1>8, <1>9 DEF TokenNext, tokenVars, Abstract!Next

(* The token implements the abstract one: a task returns from cancelled()    *)
(* only on a token that was cancelled, and a cancelled one stays so.         *)
THEOREM TokenRefines == TokenSpec => Abstract!Spec
<1>1. TokenInit => Abstract!Init
  BY DEF TokenInit, Abstract!Init, TokenPhase
<1>. QED BY <1>1, TokenStepRefines, TokenInductive, PTL DEF TokenSpec, Abstract!Spec

===============================================================================
