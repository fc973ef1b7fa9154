----------------------------- MODULE ToolCallProofs -----------------------------
(***************************************************************************)
(* A tool call from the stream to its result.                              *)
(*                                                                         *)
(* ReplyStream, for any number of calls and pieces, and a server that      *)
(* sends its reasoning first: the events are a proper stream of blocks,    *)
(* and what the readers have of the reply at its end is what was sent.     *)
(* The argument: Made says of a state of the adapter and its events that   *)
(* reading the events is proper and leaves the readers with all that the   *)
(* adapter has passed on (Readers), and that it holds back only the        *)
(* arguments of calls without a name (Adapter).  Each operator of the      *)
(* adapter keeps it; IInv says it of the events that are pending.          *)
(*                                                                         *)
(* ToolGate, for any number of hooks, any payload, and whatever hooks,     *)
(* rules and the user say: what runs was authorised, no tool runs beside a *)
(* hook that was to judge it, and errors are told.                         *)
(***************************************************************************)
EXTENDS ReplyStream, ToolGate, SequenceTheorems, WellFoundedInduction, TLAPS

Idx == 0..MaxCalls + 1

Pieces == Seq(Sources \X Nat)

Event == [kind : {"begin", "start", "delta", "stop", "end"}, index : Idx,
          of : Sources \cup {Nothing}, pieces : Pieces]

-----------------------------------------------------------------------------
(* What the events amount to *)

Snap(b, m, c, s, d) == [block |-> b, message |-> m, cli |-> c, shown |-> s, desk |-> d]

Now == Snap(block, message, cli, shown, desk)

After(t, e) == Snap(BlockReads(t.block, e), MessageReads(t.message, e), CliReads(t.cli, e),
                    Prints(t.shown, e), DeskReads(t.desk, e))

\* What BlockStream asks of an event.
Proper(t, e) ==
  \/ e.kind = "begin" /\ t.message = "none"
  \/ e.kind = "end" /\ t.message = "open" /\ \A k \in Idx : t.block[k].at # "open"
  \/ /\ e.kind = "start" /\ t.message = "open" /\ e.index \in Idx /\ e.of \in Sources
     /\ t.block[e.index] = Blocks!Unbegun
  \/ /\ e.kind = "delta" /\ t.message = "open" /\ e.index \in Idx
     /\ t.block[e.index].at = "open" /\ t.block[e.index].of \in Sources
     /\ \E a, b \in 1..MaxPieces : e.pieces = From(t.block[e.index].of, a, b)
  \/ /\ e.kind = "stop" /\ t.message = "open" /\ e.index \in Idx
     /\ t.block[e.index].at = "open" /\ t.block[e.index].marks = 1

\* Reading the events leads from s to t, properly.
Path(s, events, t) ==
  \E p : /\ p[1] = s /\ p[Len(events) + 1] = t
         /\ \A n \in 1..Len(events) : Proper(p[n], events[n]) /\ p[n + 1] = After(p[n], events[n])

-----------------------------------------------------------------------------
(* What the adapter knows *)

CallState == [named : BOOLEAN, unsent : Pieces, started : BOOLEAN, stopped : BOOLEAN]

States == [begun : BOOLEAN, thinking : BOOLEAN, thought : BOOLEAN, text : BOOLEAN,
           call : [Calls -> CallState]]

Counts == [Sources -> 0..MaxPieces]

Zero == [s \in Sources |-> 0]

\* What came of a call and was not sent is what waits for the name.
CallKnown(c, i, got, del, heard) ==
  /\ c.unsent = From(Call(i), del[Call(i)] + 1, got[Call(i)]) /\ del[Call(i)] <= got[Call(i)]
  /\ c.named \/ got[Call(i)] > 0 => i < heard
  /\ c.stopped => c.started
  /\ IF c.started THEN c.named ELSE del[Call(i)] = 0

\* got: pieces received; del: pieces passed on; heard: calls up to here have been heard of.
Adapter(st, got, del, heard) ==
  /\ st \in States /\ got \in Counts /\ del \in Counts /\ heard \in 0..MaxCalls
  /\ del[Thinking] = got[Thinking] /\ del[Text] = got[Text]
  /\ st.text <=> got[Text] > 0
  /\ st.thought => st.thinking
  /\ st.thinking /\ (st.text \/ \E i \in Calls : st.call[i].started) => st.thought
  /\ ~st.begun => st = Fresh /\ heard = 0 /\ got = Zero
  /\ \A i \in Calls : CallKnown(st.call[i], i, got, del, heard)

\* Until the reply ends, something other than reasoning ends the reasoning.
Pausing(st, heard) == st.thought => st.text \/ heard > 0

\* Between the parts of a chunk every call with a name has been passed on.
Even(st) ==
  \A i \in Calls : /\ st.call[i].started = st.call[i].named
                   /\ st.call[i].started => st.call[i].unsent = <<>>

-----------------------------------------------------------------------------
(* What the readers have, once they have read all *)

Tx(st)  == IF st.thinking THEN 1 ELSE 0
Off(st) == IF st.thinking THEN 2 ELSE 1

\* Truth values with names: the provers take no literal for an argument.
Yes == TRUE
No  == FALSE

Holds(x, s, closed) ==
  /\ x.of = s /\ x.at = IF closed THEN "closed" ELSE "open"
  /\ x.marks = IF closed THEN 2 ELSE 1

Block == [at : {"none", "open", "closed"}, of : Sources \cup {Nothing}, content : Pieces,
          marks : Nat]

BlocksAgree(b, st, over) ==
  /\ b \in [Idx -> Block]
  /\ st.thinking => Holds(b[0], Thinking, st.thought)
  /\ st.text => Holds(b[Tx(st)], Text, over)
  /\ \A i \in Calls : st.call[i].started => Holds(b[i + Off(st)], Call(i), st.call[i].stopped)
  /\ \A k \in Idx : \/ b[k] = Blocks!Unbegun
                    \/ k = 0 /\ st.thinking
                    \/ k = Tx(st) /\ st.text
                    \/ \E i \in Calls : k = i + Off(st) /\ st.call[i].started

DeskCall == [index : Idx, of : Sources, pieces : Pieces]

\* x is a call that has been started, with what was passed on of it.
Kept(x, call, off, del) ==
  \E i \in Calls : /\ call[i].started
                   /\ x.index = i + off /\ x.of = Call(i) /\ x.pieces = From(Call(i), 1, del[Call(i)])

DeskAgrees(d, call, off, del) ==
  /\ d \in [calls : Seq(DeskCall), text : Pieces]
  /\ d.text = From(Text, 1, del[Text])
  /\ \A n \in 1..Len(d.calls) : Kept(d.calls[n], call, off, del)
  /\ \A i \in Calls : call[i].started => \E n \in 1..Len(d.calls) : d.calls[n].of = Call(i)
  /\ \A m, n \in 1..Len(d.calls) : d.calls[m].of = d.calls[n].of => m = n

Spoken == [of : Sources, pieces : Pieces]

CliState == [slot : {Nothing} \cup {Call(i) : i \in Calls}, input : Pieces, thinks : BOOLEAN,
             thought : Pieces, events : Seq(Spoken)]

IsCall(x) == x.of[1] = "call"

HasCall(events) == \E n \in 1..Len(events) : IsCall(events[n])

\* x is a call before lim, whole, that has been started and is not pending.
Flown(x, slot, call, del, lim) ==
  \E i \in Calls : /\ call[i].started /\ i < lim /\ slot # Call(i)
                   /\ x.of = Call(i) /\ x.pieces = From(Call(i), 1, del[Call(i)])

\* What has been flushed is whole, and of calls before lim, of which no more will come.
CliSaid(events, slot, call, del, lim) ==
  /\ events \in Seq(Spoken)
  /\ TextOf(events) = From(Text, 1, del[Text])
  /\ \A n \in 1..Len(events) : IsCall(events[n]) => Flown(events[n], slot, call, del, lim)
  /\ \A m, n \in 1..Len(events) : IsCall(events[m]) /\ events[m].of = events[n].of => m = n

\* The pending tool is the call that was started last.
CliAgrees(c, call, del, lim) ==
  /\ c \in CliState /\ CliSaid(c.events, c.slot, call, del, lim)
  /\ \/ c.slot = Nothing
     \/ \E i \in Calls : /\ c.slot = Call(i) /\ call[i].started /\ ~call[i].stopped
                         /\ c.input = From(Call(i), 1, del[Call(i)])
                         /\ \A j \in Calls : call[j].started => j <= i
  /\ (\E i \in Calls : call[i].started) => c.slot # Nothing \/ HasCall(c.events)

Readers(t, st, del, m, over, lim) ==
  /\ t.message = m /\ t.shown = From(Text, 1, del[Text])
  /\ BlocksAgree(t.block, st, over)
  /\ DeskAgrees(t.desk, st.call, Off(st), del)
  /\ CliAgrees(t.cli, st.call, del, lim)

-----------------------------------------------------------------------------
\* The least-number principle, for a set: what stands in for induction.
LEMMA LeastNatural ==
  ASSUME NEW T, T \subseteq Nat, T # {}
  PROVE  \E m \in T : \A k \in T : m <= k
<1>1. \E m \in T : \A k \in T : ~(<<k, m>> \in OpToRel(<, Nat))
  BY NatLessThanWellFounded, WFMin
<1>2. PICK m \in T : \A k \in T : ~(<<k, m>> \in OpToRel(<, Nat))
  BY <1>1
<1>3. ASSUME NEW k \in T PROVE m <= k
  <2>1. k \in Nat /\ m \in Nat
    OBVIOUS
  <2>2. ~(k < m)
    BY <1>2, <2>1 DEF OpToRel
  <2>. QED BY <2>1, <2>2
<1>. QED BY <1>3

-----------------------------------------------------------------------------
(* Sources and pieces *)

LEMMA SourcesDiffer ==
  /\ Thinking \in Sources /\ Text \in Sources /\ Thinking # Text
  /\ Nothing \notin Sources /\ Thinking[1] # "call" /\ Text[1] # "call" /\ Nothing[1] # "call"
  /\ \A i \in Calls : /\ Call(i) \in Sources /\ Call(i)[1] = "call" /\ Call(i) # Text
                      /\ Call(i) # Thinking /\ Call(i) # Nothing
  /\ \A i, j \in Calls : Call(i) = Call(j) => i = j
  /\ \A s \in Sources : s = Thinking \/ s = Text \/ \E i \in Calls : s = Call(i)
BY DEF Sources, Thinking, Text, Nothing, Call

LEMMA Numbers ==
  /\ MaxCalls \in Nat /\ MaxCalls > 0 /\ MaxPieces \in Nat /\ MaxPieces > 0
  /\ \A i \in Calls : i \in Nat /\ i < MaxCalls /\ i + 1 \in Idx /\ i + 2 \in Idx
  /\ 0 \in Idx /\ 1 \in Idx
BY ReplyConstants DEF Calls, Idx

\* n pieces of s, numbered from a.
Run(x, s, a, n) ==
  x \in Pieces /\ Len(x) = n /\ \A k \in 1..n : x[k] = <<s, a + k - 1>>

LEMMA FromType ==
  ASSUME NEW s \in Sources, NEW a \in Nat, a > 0, NEW b \in Nat, a <= b + 1
  PROVE  Run(From(s, a, b), s, a, b + 1 - a)
<1>1. b - a + 1 = b + 1 - a /\ b + 1 - a \in Nat
  OBVIOUS
<1>2. From(s, a, b) = [n \in 1..(b + 1 - a) |-> <<s, a + n - 1>>]
  BY <1>1 DEF From
<1>3. \A n \in 1..(b + 1 - a) : <<s, a + n - 1>> \in Sources \X Nat
  OBVIOUS
<1>. QED BY <1>1, <1>2, <1>3 DEF Pieces, Run

LEMMA FromEmpty ==
  ASSUME NEW s \in Sources, NEW b \in Nat
  PROVE  From(s, b + 1, b) = <<>>
<1>1. b - (b + 1) + 1 = 0
  OBVIOUS
<1>. QED BY <1>1 DEF From

LEMMA FromJoin ==
  ASSUME NEW s \in Sources, NEW a \in Nat, a > 0, NEW b \in Nat, NEW c \in Nat,
         a <= b + 1, b <= c
  PROVE  From(s, a, b) \o From(s, b + 1, c) = From(s, a, c)
<1> DEFINE x == From(s, a, b)
           y == From(s, b + 1, c)
           z == From(s, a, c)
<1>1. Run(x, s, a, b + 1 - a) /\ Run(z, s, a, c + 1 - a)
  BY FromType
<1>2. Run(y, s, b + 1, c + 1 - (b + 1))
  BY FromType
<1> HIDE DEF x, y, z
<1>3. /\ x \in Pieces /\ Len(x) = b + 1 - a
      /\ y \in Pieces /\ Len(y) = c + 1 - (b + 1)
      /\ z \in Pieces /\ Len(z) = c + 1 - a
  BY <1>1, <1>2 DEF Run
<1>4. /\ x \o y \in Pieces /\ Len(x \o y) = Len(x) + Len(y)
      /\ \A k \in 1..(Len(x) + Len(y)) : (x \o y)[k] = IF k <= Len(x) THEN x[k] ELSE y[k - Len(x)]
  BY <1>3, ConcatProperties DEF Pieces
<1>5. Len(x) + Len(y) = c + 1 - a
  BY <1>3
<1>6. ASSUME NEW k \in 1..(c + 1 - a) PROVE (x \o y)[k] = z[k]
  <2>1. z[k] = <<s, a + k - 1>>
    BY <1>1 DEF Run
  <2>2. CASE k <= b + 1 - a
    <3>1. k \in 1..(b + 1 - a)
      BY <2>2
    <3>2. (x \o y)[k] = x[k]
      BY <1>3, <1>4, <1>5, <2>2
    <3>. QED BY <1>1, <2>1, <3>1, <3>2 DEF Run
  <2>3. CASE ~(k <= b + 1 - a)
    <3>1. k - (b + 1 - a) \in 1..(c + 1 - (b + 1))
      BY <2>3
    <3>2. (x \o y)[k] = y[k - (b + 1 - a)]
      BY <1>3, <1>4, <1>5, <2>3
    <3>3. y[k - (b + 1 - a)] = <<s, b + 1 + (k - (b + 1 - a)) - 1>>
      BY <1>2, <3>1 DEF Run
    <3>4. b + 1 + (k - (b + 1 - a)) - 1 = a + k - 1
      OBVIOUS
    <3>. QED BY <2>1, <3>2, <3>3, <3>4
  <2>. QED BY <2>2, <2>3
<1>7. x \o y = z
  BY <1>3, <1>4, <1>5, <1>6, SeqEqual DEF Pieces
<1>. QED BY <1>7 DEF x, y, z

LEMMA NextPiece ==
  ASSUME NEW s \in Sources, NEW n \in Nat
  PROVE  /\ From(s, 1, n) \in Pieces /\ From(s, n + 1, n + 1) \in Pieces
         /\ From(s, 1, n) \o From(s, n + 1, n + 1) = From(s, 1, n + 1)
<1>1. From(s, 1, n) \in Pieces
  BY FromType DEF Run
<1>2. Run(From(s, n + 1, n + 1), s, n + 1, n + 1 + 1 - (n + 1))
  BY FromType
<1>3. From(s, 1, n) \o From(s, n + 1, n + 1) = From(s, 1, n + 1)
  <2>1. PICK c \in Nat : c = n + 1
    OBVIOUS
  <2>2. 1 \in Nat /\ 1 > 0 /\ 1 <= n + 1 /\ n <= c
    BY <2>1
  <2>3. From(s, 1, n) \o From(s, n + 1, c) = From(s, 1, c)
    BY <2>2, FromJoin
  <2>. QED BY <2>1, <2>3
<1>. QED BY <1>1, <1>2, <1>3 DEF Run

LEMMA MorePieces ==
  ASSUME NEW s \in Sources, NEW a \in Nat, NEW b \in Nat, a <= b
  PROVE  /\ From(s, 1, a) \in Pieces /\ From(s, a + 1, b) \in Pieces
         /\ Len(From(s, a + 1, b)) = b - a
         /\ From(s, 1, a) \o From(s, a + 1, b) = From(s, 1, b)
<1>1. From(s, 1, a) \in Pieces
  BY FromType DEF Run
<1>2. Run(From(s, a + 1, b), s, a + 1, b + 1 - (a + 1))
  BY FromType
<1>3. b + 1 - (a + 1) = b - a /\ 1 \in Nat /\ 1 > 0 /\ 1 <= a + 1
  OBVIOUS
<1>4. From(s, 1, a) \o From(s, a + 1, b) = From(s, 1, b)
  BY <1>3, FromJoin
<1>. QED BY <1>1, <1>2, <1>3, <1>4 DEF Run

-----------------------------------------------------------------------------
(* Paths *)

LEMMA PathEmpty == ASSUME NEW s PROVE Path(s, <<>>, s)
<1> DEFINE p == [n \in 1..1 |-> s]
<1>1. p[1] = s /\ p[Len(<<>>) + 1] = s /\ 1..Len(<<>>) = {}
  OBVIOUS
<1> HIDE DEF p
<1>. QED BY <1>1 DEF Path

LEMMA PathOfNone == ASSUME NEW s, NEW t, Path(s, <<>>, t) PROVE s = t
BY DEF Path

LEMMA PathAppend ==
  ASSUME NEW s, NEW t, NEW events \in Seq(Event), NEW e \in Event,
         Path(s, events, t), Proper(t, e)
  PROVE  Append(events, e) \in Seq(Event) /\ Path(s, Append(events, e), After(t, e))
<1> DEFINE len == Len(events)
           more == Append(events, e)
<1>1. PICK p : /\ p[1] = s /\ p[len + 1] = t
               /\ \A n \in 1..len : Proper(p[n], events[n]) /\ p[n + 1] = After(p[n], events[n])
  BY DEF Path
<1>2. /\ len \in Nat /\ more \in Seq(Event) /\ Len(more) = len + 1
      /\ \A i \in 1..len : more[i] = events[i]
      /\ more[len + 1] = e
  BY AppendProperties
<1> HIDE DEF len, more
<1> DEFINE q == [n \in 1..(len + 2) |-> IF n <= len + 1 THEN p[n] ELSE After(t, e)]
<1>3. q[1] = s /\ q[len + 1] = t /\ q[Len(more) + 1] = After(t, e)
  BY <1>1, <1>2
<1>4. ASSUME NEW n \in 1..Len(more)
      PROVE  Proper(q[n], more[n]) /\ q[n + 1] = After(q[n], more[n])
  <2>1. CASE n \in 1..len
    <3>1. q[n] = p[n] /\ q[n + 1] = p[n + 1] /\ more[n] = events[n]
      BY <1>2, <2>1
    <3>. QED BY <1>1, <2>1, <3>1
  <2>2. CASE n = len + 1
    <3>1. q[n] = t /\ q[n + 1] = After(t, e) /\ more[n] = e
      BY <1>1, <1>2, <2>2
    <3>. QED BY <3>1
  <2>. QED BY <1>2, <2>1, <2>2
<1> HIDE DEF q
<1>5. Path(s, more, After(t, e))
  BY <1>3, <1>4 DEF Path
<1>. QED BY <1>2, <1>5 DEF more

LEMMA PathHead ==
  ASSUME NEW s, NEW t, NEW events \in Seq(Event), events # <<>>, Path(s, events, t)
  PROVE  /\ Head(events) \in Event /\ Tail(events) \in Seq(Event)
         /\ Proper(s, Head(events)) /\ Path(After(s, Head(events)), Tail(events), t)
<1> DEFINE len == Len(events)
           rest == Tail(events)
<1>1. PICK p : /\ p[1] = s /\ p[len + 1] = t
               /\ \A n \in 1..len : Proper(p[n], events[n]) /\ p[n + 1] = After(p[n], events[n])
  BY DEF Path
<1>2. /\ len \in Nat /\ len > 0 /\ rest \in Seq(Event) /\ Len(rest) = len - 1
      /\ \A i \in 1..Len(rest) : rest[i] = events[i + 1]
      /\ Head(events) = events[1] /\ Head(events) \in Event
  BY HeadTailProperties
<1> HIDE DEF len, rest
<1> DEFINE q == [n \in 1..len |-> p[n + 1]]
<1>3. 1 \in 1..len /\ Len(rest) + 1 = len /\ len \in 1..len
  BY <1>2
<1>4. Proper(s, events[1]) /\ q[1] = After(s, events[1]) /\ q[Len(rest) + 1] = t
  BY <1>1, <1>3
<1>5. ASSUME NEW n \in 1..Len(rest)
      PROVE  Proper(q[n], rest[n]) /\ q[n + 1] = After(q[n], rest[n])
  <2>1. n \in 1..len /\ n + 1 \in 1..len
    BY <1>2
  <2>2. q[n] = p[n + 1] /\ q[n + 1] = p[n + 1 + 1] /\ rest[n] = events[n + 1]
    BY <1>2, <2>1
  <2>. QED BY <1>1, <2>1, <2>2
<1> HIDE DEF q
<1>6. Path(After(s, events[1]), rest, t)
  BY <1>4, <1>5 DEF Path
<1>. QED BY <1>2, <1>4, <1>6 DEF rest

-----------------------------------------------------------------------------
(* The text of a reply *)

Texts(events, f, len) ==
  f = [n \in 0..len |->
         IF n = 0 THEN <<>>
         ELSE IF events[n].of = Text THEN f[n - 1] \o events[n].pieces ELSE f[n - 1]]

LEMMA TextEnds == ASSUME NEW events, NEW len \in Nat PROVE \E f : Texts(events, f, len)
<1> DEFINE T == {n \in Nat : ~ \E f : Texts(events, f, n)}
<1>1. SUFFICES ASSUME T # {} PROVE FALSE
  OBVIOUS
<1>2. T \subseteq Nat
  OBVIOUS
<1> HIDE DEF T
<1>3. PICK m \in T : \A k \in T : m <= k
  BY <1>1, <1>2, LeastNatural
<1>4. m \in Nat /\ ~ \E f : Texts(events, f, m)
  BY DEF T
<1>5. m # 0
  <2>1. Texts(events, [n \in 0..0 |-> <<>>], 0)
    BY DEF Texts
  <2>. QED BY <1>4, <2>1
<1>6. m - 1 \in Nat /\ m - 1 \notin T
  BY <1>3, <1>4, <1>5
<1>7. PICK f : Texts(events, f, m - 1)
  BY <1>6 DEF T
<1> DEFINE next == IF events[m].of = Text THEN f[m - 1] \o events[m].pieces ELSE f[m - 1]
           g == [n \in 0..m |-> IF n < m THEN f[n] ELSE next]
<1>8. ASSUME NEW n \in 0..m
      PROVE  g[n] = IF n = 0 THEN <<>>
                    ELSE IF events[n].of = Text THEN g[n - 1] \o events[n].pieces ELSE g[n - 1]
  <2>1. CASE n = 0
    <3>1. 0 \in 0..(m - 1) /\ 0 < m
      BY <1>4, <1>5
    <3>2. f[0] = <<>>
      BY <1>7, <3>1 DEF Texts
    <3>. QED BY <2>1, <3>1, <3>2
  <2>2. CASE n # 0 /\ n < m
    <3>1. n \in 0..(m - 1) /\ n - 1 \in 0..m /\ n - 1 < m
      BY <1>4, <2>2
    <3>2. g[n] = f[n] /\ g[n - 1] = f[n - 1]
      BY <2>2, <3>1
    <3>3. f[n] = IF events[n].of = Text THEN f[n - 1] \o events[n].pieces ELSE f[n - 1]
      BY <1>7, <2>2, <3>1 DEF Texts
    <3>. QED BY <2>2, <3>2, <3>3
  <2>3. CASE n = m
    <3>1. m - 1 \in 0..m /\ m - 1 < m /\ ~(m < m)
      BY <1>4, <1>5
    <3>2. g[m] = next /\ g[m - 1] = f[m - 1]
      BY <2>3, <3>1
    <3>. QED BY <1>5, <2>3, <3>2
  <2>. QED BY <1>4, <2>1, <2>2, <2>3
<1>9. Texts(events, g, m)
  BY <1>8 DEF Texts
<1>. QED BY <1>4, <1>9

LEMMA TextIs ==
  ASSUME NEW events, Len(events) \in Nat
  PROVE  \E f : Texts(events, f, Len(events)) /\ TextOf(events) = f[Len(events)]
<1> DEFINE f == CHOOSE f : Texts(events, f, Len(events))
<1>1. Texts(events, f, Len(events))
  BY TextEnds
<1>2. TextOf(events) = f[Len(events)]
  BY DEF TextOf, Texts
<1> HIDE DEF f
<1>. QED BY <1>1, <1>2

LEMMA TextsAgree ==
  ASSUME NEW a, NEW b, NEW f, NEW g, NEW la \in Nat, NEW lb \in Nat, NEW len \in Nat,
         len <= la, len <= lb, Texts(a, f, la), Texts(b, g, lb),
         \A n \in 1..len : a[n] = b[n]
  PROVE  f[len] = g[len]
<1> DEFINE T == {n \in 0..len : f[n] # g[n]}
<1>1. SUFFICES ASSUME T # {} PROVE FALSE
  BY DEF T
<1>2. T \subseteq Nat
  OBVIOUS
<1> HIDE DEF T
<1>3. PICK m \in T : \A k \in T : m <= k
  BY <1>1, <1>2, LeastNatural
<1>4. m \in 0..len /\ f[m] # g[m]
  BY DEF T
<1>5. m # 0
  <2>1. 0 \in 0..la /\ 0 \in 0..lb
    OBVIOUS
  <2>2. f[0] = <<>> /\ g[0] = <<>>
    BY <2>1 DEF Texts
  <2>. QED BY <1>4, <2>2
<1>6. m - 1 \in 0..len /\ m - 1 \notin T
  BY <1>3, <1>4, <1>5
<1>7. f[m - 1] = g[m - 1]
  BY <1>6 DEF T
<1>8. m \in 0..la /\ m \in 0..lb /\ m \in 1..len
  BY <1>4, <1>5
<1>9. /\ f[m] = IF a[m].of = Text THEN f[m - 1] \o a[m].pieces ELSE f[m - 1]
      /\ g[m] = IF b[m].of = Text THEN g[m - 1] \o b[m].pieces ELSE g[m - 1]
  BY <1>5, <1>8 DEF Texts
<1>. QED BY <1>4, <1>7, <1>8, <1>9

LEMMA TextOfNone == TextOf(<<>>) = <<>>
<1>1. PICK f : Texts(<<>>, f, 0) /\ TextOf(<<>>) = f[0]
  BY TextIs
<1>2. f[0] = <<>>
  BY <1>1 DEF Texts
<1>. QED BY <1>1, <1>2

LEMMA TextOfAppend ==
  ASSUME NEW S, NEW events \in Seq(S), NEW x \in S
  PROVE  TextOf(Append(events, x)) =
           IF x.of = Text THEN TextOf(events) \o x.pieces ELSE TextOf(events)
<1> DEFINE len == Len(events)
           more == Append(events, x)
<1>1. /\ len \in Nat /\ more \in Seq(S) /\ Len(more) = len + 1
      /\ \A i \in 1..len : more[i] = events[i]
      /\ more[len + 1] = x
  BY AppendProperties
<1>2. PICK f : Texts(events, f, len) /\ TextOf(events) = f[len]
  BY <1>1, TextIs
<1> HIDE DEF more
<1>3. PICK g : Texts(more, g, len + 1) /\ TextOf(more) = g[len + 1]
  BY <1>1, TextIs
<1> HIDE DEF len
<1>4. f[len] = g[len]
  <2>1. len + 1 \in Nat /\ len <= len /\ len <= len + 1 /\ \A n \in 1..len : events[n] = more[n]
    BY <1>1
  <2>. QED BY <1>1, <1>2, <1>3, <2>1, TextsAgree
<1>5. g[len + 1] = IF more[len + 1].of = Text THEN g[len] \o more[len + 1].pieces ELSE g[len]
  <2>1. PICK k \in 0..(len + 1) : k = len + 1 /\ k # 0 /\ k - 1 = len
    BY <1>1
  <2>2. g[k] = IF more[k].of = Text THEN g[k - 1] \o more[k].pieces ELSE g[k - 1]
    BY <1>3, <2>1 DEF Texts
  <2>. QED BY <2>1, <2>2
<1>. QED BY <1>1, <1>2, <1>3, <1>4, <1>5 DEF more

-----------------------------------------------------------------------------
(* What an event does to the blocks *)

\* Where the block of a call is.
Slot(i, off) == i + off

Offsets == {1, 2}

\* Call i starts.
Starting(call, call2, i, del) ==
  /\ ~call[i].started /\ call2[i].started /\ ~call2[i].stopped /\ del[Call(i)] = 0
  /\ \A j \in Calls : j # i => call2[j].started = call[j].started

\* More of call i is passed on.
Passing(call, call2, i, del, del2) ==
  /\ call[i].started /\ del[Call(i)] <= del2[Call(i)]
  /\ \A s \in Sources : s # Call(i) => del2[s] = del[s]
  /\ \A j \in Calls : call2[j].started = call[j].started /\ call2[j].stopped = call[j].stopped

\* No call but i changes, nor anything else that the blocks show.
Moving(st, st2, i) ==
  /\ st2.thinking = st.thinking /\ st2.thought = st.thought /\ st2.text = st.text
  /\ st2.call[i].started
  /\ \A j \in Calls : j # i => /\ st2.call[j].started = st.call[j].started
                               /\ st2.call[j].stopped = st.call[j].stopped

Last(call, i) == \A j \in Calls : call[j].started => j <= i

Ev(kind, index, of, pieces) == [kind |-> kind, index |-> index, of |-> of, pieces |-> pieces]

OthersStay(b, c, k) == c \in [Idx -> Block] /\ \A j \in Idx : j # k => c[j] = b[j]

LEMMA BlockStarts ==
  ASSUME NEW b \in [Idx -> Block], NEW k \in Idx, NEW s \in Sources, b[k] = Blocks!Unbegun
  PROVE  LET c == BlockReads(b, Ev("start", k, s, <<>>)) IN
         OthersStay(b, c, k) /\ Holds(c[k], s, No)
<1> DEFINE c  == BlockReads(b, Ev("start", k, s, <<>>))
           b1 == [b EXCEPT ![k] = [b[k] EXCEPT !.at = "open"]]
           b2 == [b1 EXCEPT ![k] = [b1[k] EXCEPT !.of = s]]
           b3 == [b2 EXCEPT ![k] = [b2[k] EXCEPT !.marks = b2[k].marks + 1]]
<1>1. b[k] \in Block /\ b[k].marks = 0
  BY DEF Blocks!Unbegun
<1>2. c = b3
  BY DEF BlockReads, Ev
<1>3. b1 \in [Idx -> Block] /\ b1[k] = [b[k] EXCEPT !.at = "open"]
  BY <1>1 DEF Block
<1>4. /\ b1[k].marks = 0 /\ b1[k].at = "open" /\ b1[k].content = b[k].content
      /\ \A j \in Idx : j # k => b1[j] = b[j]
  BY <1>1, <1>3 DEF Block
<1> HIDE DEF b1
<1>5. b2 \in [Idx -> Block] /\ b2[k] = [b1[k] EXCEPT !.of = s]
  BY <1>3 DEF Block
<1>6. /\ b2[k].marks = 0 /\ b2[k].at = "open" /\ b2[k].content = b[k].content /\ b2[k].of = s
      /\ \A j \in Idx : j # k => b2[j] = b[j]
  BY <1>3, <1>4, <1>5 DEF Block
<1> HIDE DEF b2
<1>7. b3 \in [Idx -> Block] /\ b3[k] = [b2[k] EXCEPT !.marks = 1]
  <2>1. b2[k].marks + 1 = 1 /\ b2[k] \in Block /\ 1 \in Nat
    BY <1>5, <1>6
  <2>2. [b2[k] EXCEPT !.marks = 1] \in Block
    BY <2>1 DEF Block
  <2>3. b3 = [b2 EXCEPT ![k] = [b2[k] EXCEPT !.marks = 1]]
    BY <2>1
  <2>. QED BY <1>5, <2>2, <2>3
<1>8. /\ b3[k].marks = 1 /\ b3[k].at = "open" /\ b3[k].of = s
      /\ \A j \in Idx : j # k => b3[j] = b[j]
  BY <1>5, <1>6, <1>7 DEF Block
<1> HIDE DEF b3
<1>. QED BY <1>2, <1>7, <1>8 DEF Holds, Yes, No, OthersStay

LEMMA BlockGrows ==
  ASSUME NEW b \in [Idx -> Block], NEW k \in Idx, NEW s, NEW closed, Holds(b[k], s, closed),
         NEW of, NEW pieces \in Pieces
  PROVE  LET c == BlockReads(b, Ev("delta", k, of, pieces)) IN
         OthersStay(b, c, k) /\ Holds(c[k], s, closed)
<1> DEFINE c == BlockReads(b, Ev("delta", k, of, pieces))
<1>1. b[k] \in Block
  OBVIOUS
<1>2. c = [b EXCEPT ![k].content = @ \o pieces]
  BY DEF BlockReads, Ev
<1>3. c = [b EXCEPT ![k] = [b[k] EXCEPT !.content = b[k].content \o pieces]]
  BY <1>1, <1>2
<1>4. b[k].content \o pieces \in Pieces
  BY <1>1, ConcatProperties DEF Block, Pieces
<1>5. [b[k] EXCEPT !.content = b[k].content \o pieces] \in Block
  BY <1>1, <1>4 DEF Block
<1> HIDE DEF c
<1>6. c[k] = [b[k] EXCEPT !.content = b[k].content \o pieces] /\ OthersStay(b, c, k)
  BY <1>3, <1>5 DEF OthersStay
<1>. QED BY <1>1, <1>6 DEF Holds, Yes, No, Block, c

LEMMA BlockStops ==
  ASSUME NEW b \in [Idx -> Block], NEW k \in Idx, NEW s, Holds(b[k], s, No)
  PROVE  LET c == BlockReads(b, Ev("stop", k, Nothing, <<>>)) IN
         OthersStay(b, c, k) /\ Holds(c[k], s, Yes)
<1> DEFINE c  == BlockReads(b, Ev("stop", k, Nothing, <<>>))
           b1 == [b EXCEPT ![k] = [b[k] EXCEPT !.at = "closed"]]
           b2 == [b1 EXCEPT ![k] = [b1[k] EXCEPT !.marks = b1[k].marks + 1]]
<1>1. b[k] \in Block /\ b[k].marks = 1 /\ b[k].of = s
  BY DEF Holds, Yes, No
<1>2. c = b2
  BY DEF BlockReads, Ev
<1>3. b1 \in [Idx -> Block] /\ b1[k] = [b[k] EXCEPT !.at = "closed"]
  BY <1>1 DEF Block
<1>4. /\ b1[k].marks = 1 /\ b1[k].at = "closed" /\ b1[k].of = s
      /\ \A j \in Idx : j # k => b1[j] = b[j]
  BY <1>1, <1>3 DEF Block
<1> HIDE DEF b1
<1>5. b2 \in [Idx -> Block] /\ b2[k] = [b1[k] EXCEPT !.marks = 2]
  <2>1. b1[k].marks + 1 = 2 /\ b1[k] \in Block /\ 2 \in Nat
    BY <1>3, <1>4
  <2>2. [b1[k] EXCEPT !.marks = 2] \in Block
    BY <2>1 DEF Block
  <2>3. b2 = [b1 EXCEPT ![k] = [b1[k] EXCEPT !.marks = 2]]
    BY <2>1
  <2>. QED BY <1>3, <2>2, <2>3
<1>6. /\ b2[k].marks = 2 /\ b2[k].at = "closed" /\ b2[k].of = s
      /\ \A j \in Idx : j # k => b2[j] = b[j]
  BY <1>3, <1>4, <1>5 DEF Block
<1> HIDE DEF b2
<1>. QED BY <1>2, <1>5, <1>6 DEF Holds, Yes, No, OthersStay

LEMMA BlockIgnores ==
  ASSUME NEW b, NEW kind \in {"begin", "end"}, NEW k, NEW of, NEW pieces
  PROVE  BlockReads(b, Ev(kind, k, of, pieces)) = b
BY DEF BlockReads, Ev

\* Where the blocks of a state are, and that no two are in one place.
LEMMA Indices ==
  ASSUME NEW st \in States
  PROVE  /\ Tx(st) \in Idx /\ Off(st) \in {1, 2} /\ Tx(st) \in {0, 1}
         /\ st.thinking => Tx(st) # 0
         /\ \A i \in Calls : i + Off(st) \in Idx /\ i + Off(st) # 0 /\ i + Off(st) # Tx(st)
         /\ \A i, j \in Calls : i + Off(st) = j + Off(st) => i = j
<1>1. MaxCalls \in Nat /\ MaxCalls > 0 /\ \A i \in Calls : i \in Nat /\ i < MaxCalls
  BY Numbers
<1>2. CASE st.thinking
  BY <1>1, <1>2 DEF Tx, Off, Idx
<1>3. CASE ~st.thinking
  BY <1>1, <1>3 DEF Tx, Off, Idx
<1>. QED BY <1>2, <1>3


\* A reasoning block begins before there is any other.
LEMMA BlocksOfFirst ==
  ASSUME NEW b, NEW c, NEW st \in States, NEW over, NEW st2 \in States,
         BlocksAgree(b, st, over), ~st.thinking, ~st.text,
         \A i \in Calls : ~st.call[i].started,
         st2 = [st EXCEPT !.thinking = TRUE], ~st2.thought,
         OthersStay(b, c, 0), Holds(c[0], Thinking, No)
  PROVE  BlocksAgree(c, st2, over)
<1>1. /\ st2.thinking /\ ~st2.text /\ \A i \in Calls : ~st2.call[i].started
  BY DEF States
<1>2. \A k \in Idx : k # 0 => c[k] = Blocks!Unbegun
  BY DEF BlocksAgree, OthersStay
<1>3. c \in [Idx -> Block]
  BY DEF OthersStay
<1>4. Holds(c[0], Thinking, st2.thought) /\ 0 \in Idx
  BY Numbers DEF Holds, Yes, No
<1>. QED BY <1>1, <1>2, <1>3, <1>4 DEF BlocksAgree

LEMMA BlocksOfThinking ==
  ASSUME NEW b, NEW c, NEW st \in States, NEW over, NEW st2 \in States,
         BlocksAgree(b, st, over), st.thinking,
         st2.thinking, st2.text = st.text, st2.call = st.call,
         OthersStay(b, c, 0), Holds(c[0], Thinking, st2.thought)
  PROVE  BlocksAgree(c, st2, over)
<1>1. Tx(st2) = Tx(st) /\ Off(st2) = Off(st)
  BY DEF Tx, Off
<1>2. Tx(st) \in Idx /\ Tx(st) # 0 /\ \A i \in Calls : i + Off(st) \in Idx /\ i + Off(st) # 0
  BY Indices
<1>3. \A k \in Idx : k # 0 => c[k] = b[k]
  BY DEF OthersStay
<1>4. c \in [Idx -> Block]
  BY DEF OthersStay
<1>. QED BY <1>1, <1>2, <1>3, <1>4 DEF BlocksAgree

LEMMA BlocksOfText ==
  ASSUME NEW b, NEW c, NEW st \in States, NEW over, NEW over2, NEW st2 \in States,
         BlocksAgree(b, st, over), st2.thinking = st.thinking, st2.thought = st.thought,
         st2.text, st2.call = st.call,
         OthersStay(b, c, Tx(st)), Holds(c[Tx(st)], Text, over2)
  PROVE  BlocksAgree(c, st2, over2)
<1>1. Tx(st2) = Tx(st) /\ Off(st2) = Off(st)
  BY DEF Tx, Off
<1>2. /\ Tx(st) \in Idx /\ (st.thinking => Tx(st) # 0) /\ 0 \in Idx
      /\ \A i \in Calls : i + Off(st) \in Idx /\ i + Off(st) # Tx(st)
  BY Indices, Numbers
<1>3. \A k \in Idx : k # Tx(st) => c[k] = b[k]
  BY DEF OthersStay
<1>4. c \in [Idx -> Block]
  BY DEF OthersStay
<1>. QED BY <1>1, <1>2, <1>3, <1>4 DEF BlocksAgree

LEMMA BlocksOfCall ==
  ASSUME NEW b, NEW c, NEW st \in States, NEW over, NEW st2 \in States, NEW i \in Calls,
         NEW k, k = Slot(i, Off(st)),
         BlocksAgree(b, st, over), Moving(st, st2, i), OthersStay(b, c, k),
         NEW closed, closed = st2.call[i].stopped, Holds(c[k], Call(i), closed)
  PROVE  BlocksAgree(c, st2, over)
<1> USE DEF Moving
<1>1. Tx(st2) = Tx(st) /\ Off(st2) = Off(st)
  BY DEF Tx, Off
<1>2. /\ Tx(st) \in Idx /\ 0 \in Idx
      /\ \A j \in Calls : j + Off(st) \in Idx /\ j + Off(st) # Tx(st) /\ j + Off(st) # 0
      /\ \A j \in Calls : j + Off(st) = i + Off(st) => j = i
  BY Indices, Numbers
<1>3. \A n \in Idx : n # i + Off(st) => c[n] = b[n]
  BY DEF OthersStay, Slot
<1>4. c \in [Idx -> Block]
  BY DEF OthersStay
<1>5. st2.thinking => Holds(c[0], Thinking, st2.thought)
  BY <1>2, <1>3 DEF BlocksAgree
<1>6. st2.text => Holds(c[Tx(st2)], Text, over)
  BY <1>1, <1>2, <1>3 DEF BlocksAgree
<1>9. Holds(c[i + Off(st)], Call(i), st2.call[i].stopped)
  BY DEF Slot
<1>7. \A j \in Calls : st2.call[j].started => Holds(c[j + Off(st2)], Call(j), st2.call[j].stopped)
  BY <1>1, <1>2, <1>3, <1>9 DEF BlocksAgree
<1>8. \A n \in Idx : \/ c[n] = Blocks!Unbegun
                     \/ n = 0 /\ st2.thinking
                     \/ n = Tx(st2) /\ st2.text
                     \/ \E j \in Calls : n = j + Off(st2) /\ st2.call[j].started
  BY <1>1, <1>3 DEF BlocksAgree
<1>. QED BY <1>4, <1>5, <1>6, <1>7, <1>8 DEF BlocksAgree

-----------------------------------------------------------------------------
(* What an event does to what the CLI has said *)

LEMMA AppendSaid ==
  ASSUME NEW events \in Seq(Spoken), NEW x \in Spoken
  PROVE  /\ Append(events, x) \in Seq(Spoken)
         /\ HasCall(Append(events, x)) <=> HasCall(events) \/ IsCall(x)
         /\ \A n \in 1..Len(Append(events, x)) :
              \/ n \in 1..Len(events) /\ Append(events, x)[n] = events[n]
              \/ n = Len(events) + 1 /\ Append(events, x)[n] = x
         /\ TextOf(Append(events, x)) =
              IF x.of = Text THEN TextOf(events) \o x.pieces ELSE TextOf(events)
<1> DEFINE more == Append(events, x)
<1>1. /\ Len(events) \in Nat /\ more \in Seq(Spoken) /\ Len(more) = Len(events) + 1
      /\ \A n \in 1..Len(events) : more[n] = events[n]
      /\ more[Len(events) + 1] = x
  BY AppendProperties
<1>2. TextOf(more) = IF x.of = Text THEN TextOf(events) \o x.pieces ELSE TextOf(events)
  BY TextOfAppend
<1> HIDE DEF more
<1>3. \A n \in 1..Len(more) : n \in 1..Len(events) \/ n = Len(events) + 1
  BY <1>1
<1>4. \A n \in 1..Len(events) : n \in 1..Len(more)
  BY <1>1
<1>5. Len(events) + 1 \in 1..Len(more)
  BY <1>1
<1>6. HasCall(more) <=> HasCall(events) \/ IsCall(x)
  BY <1>1, <1>3, <1>4, <1>5 DEF HasCall
<1>. QED BY <1>1, <1>2, <1>3, <1>6 DEF more

LEMMA SaidThought ==
  ASSUME NEW events, NEW slot, NEW call, NEW del, NEW lim,
         CliSaid(events, slot, call, del, lim), NEW pieces \in Pieces
  PROVE  CliSaid(Append(events, [of |-> Thinking, pieces |-> pieces]), slot, call, del, lim)
<1> DEFINE x == [of |-> Thinking, pieces |-> pieces]
           more == Append(events, x)
<1>1. x \in Spoken /\ x.of # Text /\ ~IsCall(x) /\ events \in Seq(Spoken)
  BY SourcesDiffer DEF Spoken, IsCall, CliSaid
<1> HIDE DEF x
<1>2. /\ more \in Seq(Spoken) /\ TextOf(more) = TextOf(events)
      /\ \A n \in 1..Len(more) : IsCall(more[n]) => n \in 1..Len(events) /\ more[n] = events[n]
  BY <1>1, AppendSaid
<1>3. \A m, n \in 1..Len(more) : IsCall(more[m]) /\ more[m].of = more[n].of => IsCall(more[n])
  BY DEF IsCall
<1> HIDE DEF more
<1>4. \A m, n \in 1..Len(more) : IsCall(more[m]) /\ more[m].of = more[n].of => m = n
  BY <1>2, <1>3 DEF CliSaid
<1>5. CliSaid(more, slot, call, del, lim)
  BY <1>2, <1>4 DEF CliSaid
<1>. QED BY <1>5 DEF more, x

LEMMA SaidText ==
  ASSUME NEW events, NEW slot, NEW call, NEW del, NEW lim, NEW del2,
         CliSaid(events, slot, call, del, lim), del[Text] \in Nat,
         del2[Text] = del[Text] + 1, \A i \in Calls : del2[Call(i)] = del[Call(i)]
  PROVE  CliSaid(Append(events, [of |-> Text, pieces |-> From(Text, del2[Text], del2[Text])]),
                 slot, call, del2, lim)
<1> DEFINE p == From(Text, del2[Text], del2[Text])
           x == [of |-> Text, pieces |-> p]
           more == Append(events, x)
<1>1. p \in Pieces
  BY NextPiece, SourcesDiffer
<1>2. From(Text, 1, del[Text]) \o p = From(Text, 1, del2[Text])
  BY NextPiece, SourcesDiffer
<1> HIDE DEF p
<1>3. x \in Spoken /\ x.of = Text /\ x.pieces = p /\ ~IsCall(x) /\ events \in Seq(Spoken)
  BY <1>1, SourcesDiffer DEF Spoken, IsCall, CliSaid
<1> HIDE DEF x
<1>4. /\ more \in Seq(Spoken) /\ TextOf(more) = TextOf(events) \o p
      /\ \A n \in 1..Len(more) : IsCall(more[n]) => n \in 1..Len(events) /\ more[n] = events[n]
  BY <1>3, AppendSaid
<1>5. \A m, n \in 1..Len(more) : IsCall(more[m]) /\ more[m].of = more[n].of => IsCall(more[n])
  BY DEF IsCall
<1> HIDE DEF more
<1>6. \A m, n \in 1..Len(more) : IsCall(more[m]) /\ more[m].of = more[n].of => m = n
  BY <1>4, <1>5 DEF CliSaid
<1>7. \A n \in 1..Len(more) : IsCall(more[n]) => Flown(more[n], slot, call, del2, lim)
  <2>1. ASSUME NEW y, Flown(y, slot, call, del, lim) PROVE Flown(y, slot, call, del2, lim)
    BY <2>1 DEF Flown
  <2>. QED BY <1>4, <2>1 DEF CliSaid
<1>8. TextOf(more) = From(Text, 1, del2[Text])
  BY <1>2, <1>4 DEF CliSaid
<1>9. CliSaid(more, slot, call, del2, lim)
  BY <1>4, <1>6, <1>7, <1>8 DEF CliSaid
<1>. QED BY <1>9 DEF more, x, p

LEMMA SaidCall ==
  ASSUME NEW events, NEW i \in Calls, NEW call, NEW del, NEW lim \in Nat, NEW lim2 \in Nat,
         CliSaid(events, Call(i), call, del, lim), call[i].started, i < lim2, lim <= lim2,
         From(Call(i), 1, del[Call(i)]) \in Pieces
  PROVE  CliSaid(Append(events, [of |-> Call(i), pieces |-> From(Call(i), 1, del[Call(i)])]),
                 Nothing, call, del, lim2)
<1> DEFINE x == [of |-> Call(i), pieces |-> From(Call(i), 1, del[Call(i)])]
           more == Append(events, x)
<1>1. /\ x \in Spoken /\ x.of # Text /\ x.of = Call(i) /\ IsCall(x) /\ events \in Seq(Spoken)
  BY SourcesDiffer DEF Spoken, IsCall, CliSaid
<1>2. /\ more \in Seq(Spoken) /\ TextOf(more) = TextOf(events)
      /\ \A n \in 1..Len(more) : \/ n \in 1..Len(events) /\ more[n] = events[n]
                                 \/ n = Len(events) + 1 /\ more[n] = x
  BY <1>1, AppendSaid
<1>3. \A n \in 1..Len(events) : IsCall(events[n]) => events[n].of # Call(i)
  BY DEF CliSaid, Flown
<1>4. \A j \in Calls : j < lim => j < lim2
  BY Numbers
<1>5. \A n \in 1..Len(more) : IsCall(more[n]) => Flown(more[n], Nothing, call, del, lim2)
  <2>1. Flown(x, Nothing, call, del, lim2)
    BY SourcesDiffer DEF Flown
  <2>2. ASSUME NEW y, Flown(y, Call(i), call, del, lim) PROVE Flown(y, Nothing, call, del, lim2)
    BY <1>4, <2>2, SourcesDiffer DEF Flown
  <2> HIDE DEF x, more
  <2>3. ASSUME NEW n \in 1..Len(more), IsCall(more[n])
        PROVE  Flown(more[n], Nothing, call, del, lim2)
    <3>1. CASE more[n] = x
      BY <2>1, <3>1
    <3>2. CASE n \in 1..Len(events) /\ more[n] = events[n]
      BY <2>2, <2>3, <3>2 DEF CliSaid
    <3>. QED BY <1>2, <3>1, <3>2
  <2>. QED BY <2>3
<1> HIDE DEF x, more
<1>6. ASSUME NEW m \in 1..Len(more), NEW n \in 1..Len(more), IsCall(more[m]),
             more[m].of = more[n].of
      PROVE  m = n
  <2>1. IsCall(more[n])
    BY <1>6 DEF IsCall
  <2>. QED BY <1>1, <1>2, <1>3, <1>6, <2>1 DEF CliSaid
<1>7. CliSaid(more, Nothing, call, del, lim2)
  BY <1>2, <1>5, <1>6 DEF CliSaid
<1>. QED BY <1>7 DEF more, x

\* More may be flushed, and what is not said may change.
LEMMA SaidWeaker ==
  ASSUME NEW events, NEW slot, NEW call, NEW del, NEW lim \in Nat, NEW call2, NEW del2,
         NEW lim2 \in Nat, CliSaid(events, slot, call, del, lim), lim <= lim2,
         \A i \in Calls : call[i].started => call2[i].started,
         del2[Text] = del[Text],
         \A i \in Calls : call[i].started /\ i < lim => del2[Call(i)] = del[Call(i)]
  PROVE  CliSaid(events, slot, call2, del2, lim2)
<1>1. ASSUME NEW x, Flown(x, slot, call, del, lim) PROVE Flown(x, slot, call2, del2, lim2)
  BY <1>1, Numbers DEF Flown
<1>. QED BY <1>1 DEF CliSaid

-----------------------------------------------------------------------------
(* What an event does to the CLI *)

\* An event that the CLI ignores, or a change of the adapter that it does not see.
LEMMA CliStays ==
  ASSUME NEW c, NEW call, NEW del, NEW lim \in Nat, NEW call2, NEW del2, NEW lim2 \in Nat,
         CliAgrees(c, call, del, lim), lim <= lim2,
         \A i \in Calls : /\ call2[i].started = call[i].started
                          /\ call2[i].stopped = call[i].stopped,
         del2[Text] = del[Text], \A i \in Calls : call[i].started => del2[Call(i)] = del[Call(i)]
  PROVE  CliAgrees(c, call2, del2, lim2)
<1>1. CliSaid(c.events, c.slot, call2, del2, lim2)
  BY SaidWeaker DEF CliAgrees
<1>. QED BY <1>1 DEF CliAgrees

LEMMA CliThinks ==
  ASSUME NEW c, NEW call, NEW del, NEW lim, CliAgrees(c, call, del, lim)
  PROVE  CliAgrees(CliReads(c, Ev("start", 0, Thinking, <<>>)), call, del, lim)
<1> DEFINE x == [of |-> Thinking, pieces |-> <<>>]
           more == Append(c.events, x)
           d == CliReads(c, Ev("start", 0, Thinking, <<>>))
<1>1. c \in CliState /\ CliSaid(c.events, c.slot, call, del, lim) /\ c.events \in Seq(Spoken)
  BY DEF CliAgrees, CliSaid
<1>2. d = [c EXCEPT !.thinks = TRUE, !.thought = <<>>, !.events = more]
  BY SourcesDiffer DEF CliReads, Ev
<1>3. <<>> \in Pieces
  BY DEF Pieces
<1>4. CliSaid(more, c.slot, call, del, lim)
  BY <1>1, <1>3, SaidThought
<1>5. x \in Spoken
  BY <1>3, SourcesDiffer DEF Spoken
<1>6. more \in Seq(Spoken) /\ (HasCall(c.events) => HasCall(more))
  BY <1>1, <1>5, AppendSaid
<1> HIDE DEF more
<1>7. d \in CliState /\ d.slot = c.slot /\ d.input = c.input /\ d.events = more
  BY <1>1, <1>2, <1>3, <1>6 DEF CliState
<1> HIDE DEF d
<1>8. CliAgrees(d, call, del, lim)
  BY <1>4, <1>6, <1>7 DEF CliAgrees
<1>. QED BY <1>8 DEF d

LEMMA CliThinksOn ==
  ASSUME NEW c, NEW call, NEW del, NEW lim, CliAgrees(c, call, del, lim), NEW pieces \in Pieces
  PROVE  CliAgrees(CliReads(c, Ev("delta", 0, Thinking, pieces)), call, del, lim)
<1> DEFINE d == CliReads(c, Ev("delta", 0, Thinking, pieces))
<1>1. c \in CliState
  BY DEF CliAgrees
<1>2. d = IF c.thinks THEN [c EXCEPT !.thought = @ \o pieces] ELSE c
  BY SourcesDiffer DEF CliReads, Ev
<1>3. c.thought \o pieces \in Pieces
  BY <1>1, ConcatProperties DEF CliState, Pieces
<1>4. d \in CliState /\ d.slot = c.slot /\ d.input = c.input /\ d.events = c.events
  BY <1>1, <1>2, <1>3 DEF CliState
<1> HIDE DEF d
<1>5. CliAgrees(d, call, del, lim)
  BY <1>4 DEF CliAgrees
<1>. QED BY <1>5 DEF d

LEMMA CliSays ==
  ASSUME NEW c, NEW call, NEW del, NEW lim, NEW del2, NEW k,
         CliAgrees(c, call, del, lim), del[Text] \in Nat,
         del2[Text] = del[Text] + 1, \A i \in Calls : del2[Call(i)] = del[Call(i)]
  PROVE  CliAgrees(CliReads(c, Ev("delta", k, Text, From(Text, del2[Text], del2[Text]))),
                   call, del2, lim)
<1> DEFINE p == From(Text, del2[Text], del2[Text])
           x == [of |-> Text, pieces |-> p]
           more == Append(c.events, x)
           d == CliReads(c, Ev("delta", k, Text, p))
<1>1. c \in CliState /\ CliSaid(c.events, c.slot, call, del, lim) /\ c.events \in Seq(Spoken)
  BY DEF CliAgrees, CliSaid
<1>2. d = [c EXCEPT !.events = more]
  BY SourcesDiffer DEF CliReads, Ev
<1>3. p \in Pieces
  BY NextPiece, SourcesDiffer
<1>4. CliSaid(more, c.slot, call, del2, lim)
  BY <1>1, SaidText
<1> HIDE DEF p
<1>5. x \in Spoken
  BY <1>3, SourcesDiffer DEF Spoken
<1>6. more \in Seq(Spoken) /\ (HasCall(c.events) => HasCall(more))
  BY <1>1, <1>5, AppendSaid
<1> HIDE DEF more
<1>7. d \in CliState /\ d.slot = c.slot /\ d.input = c.input /\ d.events = more
  BY <1>1, <1>2, <1>6 DEF CliState
<1> HIDE DEF d
<1>8. CliAgrees(d, call, del2, lim)
  BY <1>4, <1>6, <1>7 DEF CliAgrees
<1>. QED BY <1>8 DEF d, p

\* The end of a block ends all that is pending.
LEMMA CliFlushes ==
  ASSUME NEW c, NEW call, NEW del \in Counts, NEW lim \in Nat, NEW lim2 \in Nat, NEW call2, NEW k,
         CliAgrees(c, call, del, lim), lim <= lim2,
         \A i \in Calls : call[i].started => i < lim2,
         \A i \in Calls : call2[i].started = call[i].started
  PROVE  CliAgrees(CliReads(c, Ev("stop", k, Nothing, <<>>)), call2, del, lim2)
<1> DEFINE d == CliReads(c, Ev("stop", k, Nothing, <<>>))
           x == [of |-> Thinking, pieces |-> c.thought]
           y == [of |-> c.slot, pieces |-> c.input]
           mid == IF c.thinks THEN Append(c.events, x) ELSE c.events
           more == IF c.slot = Nothing THEN mid ELSE Append(mid, y)
<1>1. c \in CliState /\ CliSaid(c.events, c.slot, call, del, lim) /\ c.events \in Seq(Spoken)
  BY DEF CliAgrees, CliSaid
<1>2. x \in Spoken /\ c.thought \in Pieces
  BY <1>1, SourcesDiffer DEF Spoken, CliState
<1>3. /\ CliSaid(mid, c.slot, call, del, lim) /\ mid \in Seq(Spoken)
      /\ HasCall(c.events) => HasCall(mid)
  <2>1. CASE c.thinks
    BY <1>1, <1>2, <2>1, SaidThought, AppendSaid
  <2>2. CASE ~c.thinks
    BY <1>1, <2>2
  <2>. QED BY <2>1, <2>2
<1>4. d = [Unread EXCEPT !.events = more]
  <2>1. d = Flushed(c)
    BY SourcesDiffer DEF CliReads, Ev
  <2>2. c.events \o (IF c.thinks THEN <<x>> ELSE <<>>) = mid
    <3>1. CASE c.thinks
      BY <1>1, <1>2, <3>1, AppendIsConcat
    <3>2. CASE ~c.thinks
      BY <1>1, <3>2, ConcatEmptySeq
    <3>. QED BY <3>1, <3>2
  <2>3. c.slot # Nothing => y \in Spoken
    BY <1>1, SourcesDiffer DEF Spoken, CliState
  <2>4. mid \o (IF c.slot # Nothing THEN <<y>> ELSE <<>>) = more
    <3> HIDE DEF mid, x, y
    <3>1. CASE c.slot # Nothing
      BY <1>3, <2>3, <3>1, AppendIsConcat
    <3>2. CASE c.slot = Nothing
      BY <1>3, <3>2, ConcatEmptySeq
    <3>. QED BY <3>1, <3>2
  <2> HIDE DEF d, more, mid
  <2>. QED BY <2>1, <2>2, <2>4 DEF Flushed
<1>5. /\ CliSaid(more, Nothing, call, del, lim2) /\ more \in Seq(Spoken)
      /\ (\E i \in Calls : call[i].started) => HasCall(more)
  <2>1. CASE c.slot = Nothing
    <3>1. more = mid
      BY <2>1
    <3>2. CliSaid(mid, Nothing, call, del, lim2)
      <4> HIDE DEF mid
      <4>. QED BY <1>3, <2>1, SaidWeaker
    <3>3. (\E i \in Calls : call[i].started) => HasCall(mid)
      BY <1>3, <2>1 DEF CliAgrees
    <3>. QED BY <1>3, <3>1, <3>2, <3>3
  <2>2. CASE c.slot # Nothing
    <3>1. PICK i \in Calls : c.slot = Call(i) /\ call[i].started /\ c.input = From(Call(i), 1, del[Call(i)])
      BY <2>2 DEF CliAgrees
    <3>2. y = [of |-> Call(i), pieces |-> From(Call(i), 1, del[Call(i)])] /\ i < lim2
      BY <3>1
    <3>3. From(Call(i), 1, del[Call(i)]) \in Pieces /\ y \in Spoken /\ IsCall(y)
      BY <1>1, <3>1, <3>2, SourcesDiffer DEF CliState, Spoken, IsCall
    <3>4. more = Append(mid, y)
      BY <2>2
    <3> HIDE DEF mid, y, more
    <3>5. CliSaid(Append(mid, y), Nothing, call, del, lim2)
      BY <1>3, <3>1, <3>2, <3>3, SaidCall
    <3>6. Append(mid, y) \in Seq(Spoken) /\ HasCall(Append(mid, y))
      BY <1>3, <3>3, AppendSaid
    <3>. QED BY <3>4, <3>5, <3>6
  <2>. QED BY <2>1, <2>2
<1> HIDE DEF more, mid, x, y
<1>6. CliSaid(more, Nothing, call2, del, lim2)
  BY <1>5, SaidWeaker
<1>7. d \in CliState /\ d.slot = Nothing /\ d.events = more
  <2>1. <<>> \in Pieces
    BY DEF Pieces
  <2>. QED BY <1>4, <1>5, <2>1 DEF CliState, Unread
<1> HIDE DEF d
<1>8. CliAgrees(d, call2, del, lim2)
  BY <1>5, <1>6, <1>7 DEF CliAgrees
<1>. QED BY <1>8 DEF d

LEMMA CliStarts ==
  ASSUME NEW c, NEW call, NEW del \in Counts, NEW lim \in Nat, NEW call2, NEW k, NEW i \in Calls,
         CliAgrees(c, call, del, lim), Last(call, i), Starting(call, call2, i, del)
  PROVE  CliAgrees(CliReads(c, Ev("start", k, Call(i), <<>>)), call2, del, lim)
<1> USE DEF Starting, Last
<1> DEFINE d == CliReads(c, Ev("start", k, Call(i), <<>>))
<1>1. c \in CliState /\ CliSaid(c.events, c.slot, call, del, lim)
  BY DEF CliAgrees
<1>2. d = [c EXCEPT !.slot = Call(i), !.input = <<>>]
  BY SourcesDiffer DEF CliReads, Ev
<1>3. <<>> \in Pieces
  BY DEF Pieces
<1>4. d \in CliState /\ d.slot = Call(i) /\ d.input = <<>> /\ d.events = c.events
  BY <1>1, <1>2, <1>3 DEF CliState
<1>5. From(Call(i), 1, del[Call(i)]) = <<>>
  BY FromEmpty, SourcesDiffer
<1>6. CliSaid(c.events, Call(i), call2, del, lim)
  <2>1. ASSUME NEW x, Flown(x, c.slot, call, del, lim) PROVE Flown(x, Call(i), call2, del, lim)
    BY <2>1, SourcesDiffer DEF Flown
  <2>. QED BY <1>1, <2>1 DEF CliSaid
<1>7. \A j \in Calls : call2[j].started => j <= i
  BY Numbers
<1> HIDE DEF d
<1>8. CliAgrees(d, call2, del, lim)
  BY <1>4, <1>5, <1>6, <1>7, SourcesDiffer DEF CliAgrees
<1>. QED BY <1>8 DEF d

LEMMA CliHears ==
  ASSUME NEW c, NEW call, NEW del \in Counts, NEW del2 \in Counts, NEW lim \in Nat, NEW call2,
         NEW k, NEW i \in Calls,
         CliAgrees(c, call, del, lim), Last(call, i), lim <= i, Passing(call, call2, i, del, del2)
  PROVE  CliAgrees(CliReads(c, Ev("delta", k, Call(i), From(Call(i), del[Call(i)] + 1, del2[Call(i)]))),
                   call2, del2, lim)
<1> USE DEF Passing, Last
<1> DEFINE p == From(Call(i), del[Call(i)] + 1, del2[Call(i)])
           d == CliReads(c, Ev("delta", k, Call(i), p))
<1>1. c \in CliState /\ CliSaid(c.events, c.slot, call, del, lim)
  BY DEF CliAgrees
<1>2. d = IF c.slot # Nothing THEN [c EXCEPT !.input = @ \o p] ELSE c
  BY SourcesDiffer DEF CliReads, Ev
<1>3. /\ del[Call(i)] \in Nat /\ del2[Call(i)] \in Nat /\ i \in Nat
      /\ del2[Text] = del[Text] /\ \A j \in Calls : j # i => del2[Call(j)] = del[Call(j)]
  BY SourcesDiffer, Numbers DEF Counts
<1>4. p \in Pieces
  BY <1>3, MorePieces, SourcesDiffer
<1>5. From(Call(i), 1, del[Call(i)]) \o p = From(Call(i), 1, del2[Call(i)])
  BY <1>3, MorePieces, SourcesDiffer
<1> HIDE DEF p
<1>6. c.input \o p \in Pieces
  BY <1>1, <1>4, ConcatProperties DEF CliState, Pieces
<1>7. /\ d \in CliState /\ d.slot = c.slot /\ d.events = c.events
      /\ c.slot # Nothing => d.input = c.input \o p
  BY <1>1, <1>2, <1>6 DEF CliState
<1>8. CliSaid(c.events, c.slot, call2, del2, lim)
  <2>1. \A j \in Calls : j < lim => j # i
    BY <1>3, Numbers
  <2>. QED BY <1>1, <1>3, <2>1, SaidWeaker
<1> HIDE DEF d
<1>9. c.slot # Nothing => c.slot = Call(i) /\ c.input = From(Call(i), 1, del[Call(i)]) /\ ~call[i].stopped
  <2>1. SUFFICES ASSUME c.slot # Nothing
        PROVE  c.slot = Call(i) /\ c.input = From(Call(i), 1, del[Call(i)]) /\ ~call[i].stopped
    OBVIOUS
  <2>2. PICK j \in Calls : /\ c.slot = Call(j) /\ call[j].started /\ ~call[j].stopped
                           /\ c.input = From(Call(j), 1, del[Call(j)]) /\ i <= j
    BY <2>1 DEF CliAgrees
  <2>3. j = i
    BY <2>2, Numbers
  <2>. QED BY <2>2, <2>3
<1>10. \A j \in Calls : call2[j].started => j <= i
  OBVIOUS
<1>11. CliAgrees(d, call2, del2, lim)
  BY <1>5, <1>7, <1>8, <1>9, <1>10 DEF CliAgrees
<1>. QED BY <1>11 DEF d, p

-----------------------------------------------------------------------------
(* What an event does to the desktop agent *)

LEMMA DeskStays ==
  ASSUME NEW d, NEW call, NEW off, NEW del, NEW call2, NEW off2, NEW del2,
         DeskAgrees(d, call, off, del), \A i \in Calls : call2[i].started = call[i].started,
         (\E i \in Calls : call[i].started) => off2 = off, del2[Text] = del[Text],
         \A i \in Calls : call[i].started => del2[Call(i)] = del[Call(i)]
  PROVE  DeskAgrees(d, call2, off2, del2)
<1>1. ASSUME NEW x, Kept(x, call, off, del) PROVE Kept(x, call2, off2, del2)
  BY <1>1 DEF Kept
<1>. QED BY <1>1 DEF DeskAgrees

LEMMA DeskSays ==
  ASSUME NEW d, NEW call, NEW off, NEW del, NEW del2, NEW k,
         DeskAgrees(d, call, off, del), del[Text] \in Nat,
         del2[Text] = del[Text] + 1, \A i \in Calls : del2[Call(i)] = del[Call(i)]
  PROVE  DeskAgrees(DeskReads(d, Ev("delta", k, Text, From(Text, del2[Text], del2[Text]))),
                    call, off, del2)
<1> DEFINE p == From(Text, del2[Text], del2[Text])
           e == DeskReads(d, Ev("delta", k, Text, p))
<1>1. d \in [calls : Seq(DeskCall), text : Pieces] /\ d.text = From(Text, 1, del[Text])
  BY DEF DeskAgrees
<1>2. e = [d EXCEPT !.text = @ \o p]
  BY SourcesDiffer DEF DeskReads, Ev
<1>3. p \in Pieces /\ d.text \o p = From(Text, 1, del2[Text])
  BY <1>1, NextPiece, SourcesDiffer
<1> HIDE DEF p
<1>4. d.text \o p \in Pieces
  BY <1>1, <1>3, ConcatProperties DEF Pieces
<1>5. e \in [calls : Seq(DeskCall), text : Pieces] /\ e.text = d.text \o p /\ e.calls = d.calls
  BY <1>1, <1>2, <1>4
<1> HIDE DEF e
<1>6. ASSUME NEW y, Kept(y, call, off, del) PROVE Kept(y, call, off, del2)
  BY <1>6 DEF Kept
<1>7. DeskAgrees(e, call, off, del2)
  BY <1>3, <1>5, <1>6 DEF DeskAgrees
<1>. QED BY <1>7 DEF e, p

LEMMA DeskStarts ==
  ASSUME NEW d, NEW call, NEW off, NEW del, NEW call2, NEW i \in Calls,
         NEW k \in Idx, k = Slot(i, off),
         DeskAgrees(d, call, off, del), Starting(call, call2, i, del)
  PROVE  DeskAgrees(DeskReads(d, Ev("start", k, Call(i), <<>>)), call2, off, del)
<1> USE DEF Starting
<1> DEFINE x == [index |-> k, of |-> Call(i), pieces |-> <<>>]
           more == Append(d.calls, x)
           e == DeskReads(d, Ev("start", k, Call(i), <<>>))
<1>1. /\ d \in [calls : Seq(DeskCall), text : Pieces] /\ d.calls \in Seq(DeskCall)
      /\ d.text = From(Text, 1, del[Text])
  BY DEF DeskAgrees
<1>2. e = [d EXCEPT !.calls = more]
  BY SourcesDiffer DEF DeskReads, Ev
<1>3. x \in DeskCall /\ x.of = Call(i)
  BY SourcesDiffer DEF DeskCall, Pieces
<1>4. From(Call(i), 1, del[Call(i)]) = <<>>
  BY FromEmpty, SourcesDiffer
<1>5. /\ more \in Seq(DeskCall) /\ Len(d.calls) \in Nat /\ Len(more) = Len(d.calls) + 1
      /\ \A n \in 1..Len(d.calls) : more[n] = d.calls[n]
      /\ more[Len(d.calls) + 1] = x
  BY <1>1, <1>3, AppendProperties
<1>6. Kept(x, call2, off, del)
  BY <1>4 DEF Kept, Slot
<1> HIDE DEF x, more
<1>7. /\ \A n \in 1..Len(more) : n \in 1..Len(d.calls) \/ n = Len(d.calls) + 1
      /\ Len(d.calls) + 1 \in 1..Len(more) /\ \A n \in 1..Len(d.calls) : n \in 1..Len(more)
  BY <1>5
<1>8. e \in [calls : Seq(DeskCall), text : Pieces] /\ e.text = d.text /\ e.calls = more
  BY <1>1, <1>2, <1>5
<1> HIDE DEF e
<1>9. \A n \in 1..Len(d.calls) : d.calls[n].of # Call(i)
  BY SourcesDiffer DEF DeskAgrees, Kept
<1>10. \A n \in 1..Len(more) : Kept(more[n], call2, off, del)
  <2>1. ASSUME NEW y, Kept(y, call, off, del) PROVE Kept(y, call2, off, del)
    BY <2>1 DEF Kept
  <2>. QED BY <1>5, <1>6, <1>7, <2>1 DEF DeskAgrees
<1>11. \A j \in Calls : call2[j].started => \E n \in 1..Len(more) : more[n].of = Call(j)
  <2>1. SUFFICES ASSUME NEW j \in Calls, call2[j].started
        PROVE  \E n \in 1..Len(more) : more[n].of = Call(j)
    OBVIOUS
  <2>2. CASE j = i
    BY <1>3, <1>5, <1>7, <2>2
  <2>3. CASE j # i
    BY <1>5, <1>7, <2>1, <2>3 DEF DeskAgrees
  <2>. QED BY <2>2, <2>3
<1>12. \A m, n \in 1..Len(more) : more[m].of = more[n].of => m = n
  BY <1>3, <1>5, <1>7, <1>9 DEF DeskAgrees
<1>13. DeskAgrees(e, call2, off, del)
  BY <1>1, <1>8, <1>10, <1>11, <1>12 DEF DeskAgrees
<1>. QED BY <1>13 DEF e

LEMMA DeskHears ==
  ASSUME NEW d, NEW call, NEW off \in Offsets, NEW del \in Counts, NEW del2 \in Counts, NEW call2,
         NEW i \in Calls, NEW k \in Idx, k = Slot(i, off),
         DeskAgrees(d, call, off, del), Passing(call, call2, i, del, del2)
  PROVE  DeskAgrees(DeskReads(d, Ev("delta", k, Call(i),
                                    From(Call(i), del[Call(i)] + 1, del2[Call(i)]))),
                    call2, off, del2)
<1> USE DEF Passing, Offsets, Slot
<1> DEFINE p == From(Call(i), del[Call(i)] + 1, del2[Call(i)])
           e == DeskReads(d, Ev("delta", k, Call(i), p))
           mine == {n \in DOMAIN d.calls : d.calls[n].index = i + off}
           first == CHOOSE n \in mine : \A m \in mine : n <= m
<1>1. /\ d \in [calls : Seq(DeskCall), text : Pieces] /\ d.calls \in Seq(DeskCall)
      /\ d.text = From(Text, 1, del[Text])
  BY DEF DeskAgrees
<1>2. /\ DOMAIN d.calls = 1..Len(d.calls) /\ Len(d.calls) \in Nat
      /\ d.calls \in [1..Len(d.calls) -> DeskCall]
  BY <1>1, LenProperties
<1>3. /\ del[Call(i)] \in Nat /\ del2[Call(i)] \in Nat
      /\ del2[Text] = del[Text] /\ \A j \in Calls : j # i => del2[Call(j)] = del[Call(j)]
  BY SourcesDiffer DEF Counts
<1>4. PICK at \in 1..Len(d.calls) : d.calls[at].of = Call(i)
  BY DEF DeskAgrees
<1>5. \A n \in 1..Len(d.calls) : d.calls[n].of = Call(i) => n = at
  BY <1>4 DEF DeskAgrees
<1>6. \A n \in 1..Len(d.calls) :
        d.calls[n].index = i + off => d.calls[n].of = Call(i)
  <2>1. \A j \in Calls : j + off = i + off => j = i
    BY Numbers
  <2>. QED BY <2>1 DEF DeskAgrees, Kept
<1>7. d.calls[at].index = i + off /\ d.calls[at].pieces = From(Call(i), 1, del[Call(i)])
  <2>1. PICK j \in Calls : /\ d.calls[at].index = j + off /\ d.calls[at].of = Call(j)
                           /\ d.calls[at].pieces = From(Call(j), 1, del[Call(j)])
    BY DEF DeskAgrees, Kept
  <2>2. j = i
    BY <1>4, <2>1, SourcesDiffer
  <2>. QED BY <2>1, <2>2
<1>8. mine = {at}
  BY <1>2, <1>5, <1>6, <1>7
<1>9. first = at
  BY <1>8
<1>10. e = [d EXCEPT !.calls[at].pieces = @ \o p]
  <2>1. e = [d EXCEPT !.calls[first].pieces = @ \o p]
    <3>1. mine # {}
      BY <1>8
    <3>2. Call(i) # Text /\ Call(i)[1] = "call"
      BY SourcesDiffer
    <3> HIDE DEF p
    <3>. QED BY <3>1, <3>2 DEF DeskReads, Ev
  <2> HIDE DEF first, e, p
  <2>. QED BY <1>9, <2>1
<1>11. p \in Pieces /\ d.calls[at].pieces \o p = From(Call(i), 1, del2[Call(i)])
       /\ d.calls[at].pieces \o p \in Pieces
  <2>1. Call(i) \in Sources
    BY SourcesDiffer
  <2>2. p \in Pieces
    BY <1>3, <2>1, MorePieces
  <2>3. From(Call(i), 1, del[Call(i)]) \o p = From(Call(i), 1, del2[Call(i)])
    BY <1>3, <2>1, MorePieces
  <2>4. From(Call(i), 1, del2[Call(i)]) \in Pieces
    BY <1>3, <2>1, NextPiece
  <2> HIDE DEF p
  <2>. QED BY <1>7, <2>2, <2>3, <2>4
<1> HIDE DEF p, first, mine
<1> DEFINE x == [d.calls[at] EXCEPT !.pieces = d.calls[at].pieces \o p]
           more == [d.calls EXCEPT ![at] = x]
<1>12. /\ x \in DeskCall /\ x.of = Call(i) /\ x.index = i + off
       /\ x.pieces = From(Call(i), 1, del2[Call(i)])
  BY <1>2, <1>4, <1>7, <1>11 DEF DeskCall
<1> HIDE DEF x
<1>13. /\ more \in Seq(DeskCall) /\ Len(more) = Len(d.calls)
       /\ \A n \in 1..Len(d.calls) : more[n] = IF n = at THEN x ELSE d.calls[n]
  BY <1>1, <1>12, ExceptSeq
<1>14. e = [d EXCEPT !.calls = more]
  BY <1>1, <1>10 DEF x
<1> HIDE DEF more, e
<1>15. e \in [calls : Seq(DeskCall), text : Pieces] /\ e.text = d.text /\ e.calls = more
  BY <1>1, <1>13, <1>14
<1>16. \A n \in 1..Len(more) : Kept(more[n], call2, off, del2)
  <2>1. Kept(x, call2, off, del2)
    BY <1>12 DEF Kept
  <2>2. ASSUME NEW y, Kept(y, call, off, del), y.of # Call(i) PROVE Kept(y, call2, off, del2)
    BY <1>3, <2>2 DEF Kept
  <2>. QED BY <1>5, <1>13, <2>1, <2>2 DEF DeskAgrees
<1>17. \A n \in 1..Len(more) : more[n].of = d.calls[n].of
  BY <1>4, <1>12, <1>13
<1>18. \A j \in Calls : call2[j].started => \E n \in 1..Len(more) : more[n].of = Call(j)
  BY <1>13, <1>17 DEF DeskAgrees
<1>19. \A m, n \in 1..Len(more) : more[m].of = more[n].of => m = n
  BY <1>13, <1>17 DEF DeskAgrees
<1>20. DeskAgrees(e, call2, off, del2)
  BY <1>1, <1>3, <1>15, <1>16, <1>18, <1>19 DEF DeskAgrees
<1>. QED BY <1>20 DEF e, p

-----------------------------------------------------------------------------
(* What is told of a snapshot after an event *)

LEMMA AfterIs ==
  ASSUME NEW t, NEW e
  PROVE  /\ After(t, e).block = BlockReads(t.block, e)
         /\ After(t, e).message = MessageReads(t.message, e)
         /\ After(t, e).cli = CliReads(t.cli, e)
         /\ After(t, e).shown = Prints(t.shown, e)
         /\ After(t, e).desk = DeskReads(t.desk, e)
BY DEF After, Snap

LEMMA EventType ==
  /\ Ev("begin", 0, Nothing, <<>>) \in Event /\ Ev("end", 0, Nothing, <<>>) \in Event
  /\ \A k \in Idx : /\ Ev("stop", k, Nothing, <<>>) \in Event
                    /\ \A s \in Sources : /\ Ev("start", k, s, <<>>) \in Event
                                          /\ \A p \in Pieces : Ev("delta", k, s, p) \in Event
<1>1. <<>> \in Pieces
  BY DEF Pieces
<1>. QED BY <1>1, Numbers DEF Event, Ev

LEMMA BeginsMessage ==
  ASSUME NEW t, NEW st \in States, NEW del, NEW lim \in Nat,
         Readers(t, st, del, "none", No, lim)
  PROVE  LET e == Ev("begin", 0, Nothing, <<>>) IN
         Proper(t, e) /\ Readers(After(t, e), [st EXCEPT !.begun = TRUE], del, "open", No, lim)
<1> DEFINE e == Ev("begin", 0, Nothing, <<>>)
           st2 == [st EXCEPT !.begun = TRUE]
           u == After(t, e)
<1>1. Proper(t, e)
  BY DEF Proper, Ev, Readers
<1>2. /\ st2.thinking = st.thinking /\ st2.thought = st.thought /\ st2.text = st.text
      /\ st2.call = st.call
  BY DEF States
<1>3. Tx(st2) = Tx(st) /\ Off(st2) = Off(st)
  BY <1>2 DEF Tx, Off
<1>4. u.block = t.block
  BY AfterIs, BlockIgnores
<1>5. u.message = "open" /\ u.shown = t.shown
  BY AfterIs DEF MessageReads, Prints, Ev
<1>6. u.cli = t.cli /\ u.desk = t.desk
  BY AfterIs DEF CliReads, DeskReads, Ev
<1>7. BlocksAgree(u.block, st2, No)
  BY <1>2, <1>3, <1>4 DEF Readers, BlocksAgree
<1> HIDE DEF u, st2
<1>8. Readers(u, st2, del, "open", No, lim)
  BY <1>2, <1>3, <1>5, <1>6, <1>7 DEF Readers
<1>. QED BY <1>1, <1>8 DEF u, st2

LEMMA Ends ==
  ASSUME NEW t, NEW st \in States, NEW del, NEW lim \in Nat,
         Readers(t, st, del, "open", Yes, lim), st.thinking => st.thought,
         \A i \in Calls : st.call[i].started => st.call[i].stopped
  PROVE  LET e == Ev("end", 0, Nothing, <<>>) IN
         Proper(t, e) /\ Readers(After(t, e), st, del, "closed", Yes, lim)
<1> DEFINE e == Ev("end", 0, Nothing, <<>>)
           u == After(t, e)
<1>1. \A k \in Idx : t.block[k].at # "open"
  BY DEF Readers, BlocksAgree, Holds, Yes, No, Blocks!Unbegun
<1>2. Proper(t, e)
  BY <1>1 DEF Proper, Ev, Readers
<1>4. u.block = t.block
  BY AfterIs, BlockIgnores
<1>5. u.message = "closed" /\ u.shown = t.shown
  BY AfterIs DEF MessageReads, Prints, Ev
<1>6. u.cli = t.cli /\ u.desk = t.desk
  <2>1. CliReads(t.cli, e) = t.cli
    BY DEF CliReads, Ev
  <2>2. DeskReads(t.desk, e) = t.desk
    BY DEF DeskReads, Ev
  <2>. QED BY <2>1, <2>2, AfterIs
<1> HIDE DEF u
<1>7. Readers(u, st, del, "closed", Yes, lim)
  BY <1>4, <1>5, <1>6 DEF Readers
<1>. QED BY <1>2, <1>7 DEF u

LEMMA StartsThinking ==
  ASSUME NEW t, NEW st \in States, NEW del, NEW lim \in Nat,
         Readers(t, st, del, "open", No, lim),
         ~st.thinking, ~st.thought, ~st.text, \A i \in Calls : ~st.call[i].started
  PROVE  LET e == Ev("start", 0, Thinking, <<>>) IN
         /\ Proper(t, e)
         /\ Readers(After(t, e), [st EXCEPT !.thinking = TRUE], del, "open", No, lim)
<1> DEFINE e == Ev("start", 0, Thinking, <<>>)
           st2 == [st EXCEPT !.thinking = TRUE]
           u == After(t, e)
<1>1. st2 \in States /\ st2.call = st.call /\ ~st2.thought
  BY DEF States
<1>2. t.block[0] = Blocks!Unbegun /\ t.block \in [Idx -> Block] /\ 0 \in Idx
  BY Numbers DEF Readers, BlocksAgree
<1>3. Proper(t, e)
  BY <1>2, SourcesDiffer DEF Proper, Ev, Readers
<1>4. OthersStay(t.block, u.block, 0) /\ Holds(u.block[0], Thinking, No)
  <2>1. u.block = BlockReads(t.block, Ev("start", 0, Thinking, <<>>)) /\ Thinking \in Sources
    BY AfterIs, SourcesDiffer
  <2> HIDE DEF u, e
  <2>. QED BY <1>2, <2>1, BlockStarts
<1>5. BlocksAgree(u.block, st2, No)
  <2> HIDE DEF u
  <2>. QED BY <1>1, <1>4, BlocksOfFirst DEF Readers
<1>6. u.message = "open" /\ u.shown = t.shown
  BY AfterIs DEF MessageReads, Prints, Ev, Readers
<1>7. u.desk = t.desk
  BY AfterIs, SourcesDiffer DEF DeskReads, Ev
<1>8. DeskAgrees(u.desk, st2.call, Off(st2), del)
  BY <1>1, <1>7, DeskStays DEF Readers
<1>9. CliAgrees(u.cli, st2.call, del, lim)
  BY <1>1, AfterIs, CliThinks DEF Readers
<1> HIDE DEF u, st2
<1>10. Readers(u, st2, del, "open", No, lim)
  BY <1>5, <1>6, <1>8, <1>9 DEF Readers
<1>. QED BY <1>3, <1>10 DEF u, st2

LEMMA Thinks ==
  ASSUME NEW t, NEW st \in States, NEW del \in Counts, NEW lim \in Nat,
         Readers(t, st, del, "open", No, lim), st.thinking, ~st.thought,
         del[Thinking] < MaxPieces
  PROVE  LET p  == From(Thinking, del[Thinking] + 1, del[Thinking] + 1)
             e  == Ev("delta", 0, Thinking, p)
             del2 == [del EXCEPT ![Thinking] = @ + 1]
         IN  p \in Pieces /\ Proper(t, e) /\ Readers(After(t, e), st, del2, "open", No, lim)
<1> DEFINE p  == From(Thinking, del[Thinking] + 1, del[Thinking] + 1)
           e  == Ev("delta", 0, Thinking, p)
           del2 == [del EXCEPT ![Thinking] = @ + 1]
           u == After(t, e)
<1>1. del[Thinking] \in Nat /\ del[Thinking] + 1 \in 1..MaxPieces
  BY SourcesDiffer, Numbers DEF Counts
<1>2. p \in Pieces
  BY <1>1, NextPiece, SourcesDiffer
<1>3. del2[Text] = del[Text] /\ \A i \in Calls : del2[Call(i)] = del[Call(i)]
  BY SourcesDiffer DEF Counts
<1>4. Holds(t.block[0], Thinking, No) /\ t.block \in [Idx -> Block] /\ 0 \in Idx
  BY Numbers DEF Readers, BlocksAgree, Holds, Yes, No
<1>5. Proper(t, e)
  BY <1>1, <1>4, SourcesDiffer DEF Proper, Ev, Readers, Holds, Yes, No
<1> HIDE DEF p, del2
<1>6. OthersStay(t.block, u.block, 0) /\ Holds(u.block[0], Thinking, No)
  <2>1. u.block = BlockReads(t.block, Ev("delta", 0, Thinking, p))
    BY AfterIs
  <2> HIDE DEF u, e
  <2>. QED BY <1>2, <1>4, <2>1, BlockGrows
<1>7. BlocksAgree(u.block, st, No)
  <2>1. Holds(u.block[0], Thinking, st.thought)
    BY <1>6 DEF Holds, Yes, No
  <2> HIDE DEF u
  <2>. QED BY <1>6, <2>1, BlocksOfThinking DEF Readers
<1>8. u.message = "open" /\ u.shown = t.shown
  BY AfterIs, SourcesDiffer DEF MessageReads, Prints, Ev, Readers
<1>9. u.desk = t.desk
  BY AfterIs, SourcesDiffer DEF DeskReads, Ev
<1>10. DeskAgrees(u.desk, st.call, Off(st), del2)
  BY <1>3, <1>9, DeskStays DEF Readers
<1>11. CliAgrees(u.cli, st.call, del2, lim)
  <2>1. CliAgrees(u.cli, st.call, del, lim)
    BY <1>2, AfterIs, CliThinksOn DEF Readers
  <2> HIDE DEF u
  <2>. QED BY <1>3, <2>1, CliStays
<1> HIDE DEF u, e
<1>12. Readers(u, st, del2, "open", No, lim)
  BY <1>3, <1>7, <1>8, <1>10, <1>11 DEF Readers
<1>. QED BY <1>2, <1>5, <1>12 DEF u, del2, p, e

LEMMA StopsThinking ==
  ASSUME NEW t, NEW st \in States, NEW del \in Counts, NEW lim \in Nat,
         Readers(t, st, del, "open", No, lim), st.thinking, ~st.thought,
         \A i \in Calls : ~st.call[i].started
  PROVE  LET e == Ev("stop", 0, Nothing, <<>>) IN
         /\ Proper(t, e)
         /\ Readers(After(t, e), [st EXCEPT !.thought = TRUE], del, "open", No, lim)
<1> DEFINE e == Ev("stop", 0, Nothing, <<>>)
           st2 == [st EXCEPT !.thought = TRUE]
           u == After(t, e)
<1>1. /\ st2 \in States /\ st2.call = st.call /\ st2.thought /\ st2.thinking /\ st2.text = st.text
      /\ Off(st2) = Off(st)
  BY DEF States, Off
<1>2. Holds(t.block[0], Thinking, No) /\ t.block \in [Idx -> Block] /\ 0 \in Idx
  BY Numbers DEF Readers, BlocksAgree, Holds, Yes, No
<1>3. Proper(t, e)
  BY <1>2 DEF Proper, Ev, Readers, Holds, Yes, No
<1>4. OthersStay(t.block, u.block, 0) /\ Holds(u.block[0], Thinking, Yes)
  BY <1>2, AfterIs, BlockStops
<1>5. BlocksAgree(u.block, st2, No)
  <2>1. Holds(u.block[0], Thinking, st2.thought)
    BY <1>1, <1>4 DEF Holds, Yes, No
  <2> HIDE DEF u, st2
  <2>. QED BY <1>1, <1>4, <2>1, BlocksOfThinking DEF Readers
<1>6. u.message = "open" /\ u.shown = t.shown
  BY AfterIs DEF MessageReads, Prints, Ev, Readers
<1>7. u.desk = t.desk
  BY AfterIs DEF DeskReads, Ev
<1>8. CliAgrees(u.cli, st2.call, del, lim)
  BY <1>1, AfterIs, CliFlushes DEF Readers
<1> HIDE DEF u, st2
<1>9. Readers(u, st2, del, "open", No, lim)
  BY <1>1, <1>5, <1>6, <1>7, <1>8 DEF Readers
<1>. QED BY <1>3, <1>9 DEF u, st2

LEMMA StartsText ==
  ASSUME NEW t, NEW st \in States, NEW del, NEW lim \in Nat,
         Readers(t, st, del, "open", No, lim), ~st.text
  PROVE  LET e == Ev("start", Tx(st), Text, <<>>) IN
         /\ Proper(t, e)
         /\ Readers(After(t, e), [st EXCEPT !.text = TRUE], del, "open", No, lim)
<1> DEFINE e == Ev("start", Tx(st), Text, <<>>)
           st2 == [st EXCEPT !.text = TRUE]
           u == After(t, e)
<1>1. /\ st2 \in States /\ st2.call = st.call /\ st2.text /\ st2.thinking = st.thinking
      /\ st2.thought = st.thought /\ Off(st2) = Off(st)
  BY DEF States, Off
<1>2. t.block \in [Idx -> Block] /\ Tx(st) \in Idx /\ t.block[Tx(st)] = Blocks!Unbegun
  <2>1. /\ Tx(st) \in Idx /\ (st.thinking => Tx(st) # 0)
        /\ \A i \in Calls : i + Off(st) # Tx(st)
    BY Indices
  <2>. QED BY <2>1 DEF Readers, BlocksAgree
<1>3. Proper(t, e)
  BY <1>2, SourcesDiffer DEF Proper, Ev, Readers
<1>4. OthersStay(t.block, u.block, Tx(st)) /\ Holds(u.block[Tx(st)], Text, No)
  <2>1. u.block = BlockReads(t.block, Ev("start", Tx(st), Text, <<>>)) /\ Text \in Sources
    BY AfterIs, SourcesDiffer
  <2> HIDE DEF u, e
  <2>. QED BY <1>2, <2>1, BlockStarts
<1>5. BlocksAgree(u.block, st2, No)
  <2> HIDE DEF u, st2
  <2>. QED BY <1>1, <1>4, BlocksOfText DEF Readers
<1>6. u.message = "open" /\ u.shown = t.shown
  BY AfterIs DEF MessageReads, Prints, Ev, Readers
<1>7. u.desk = t.desk
  BY AfterIs, SourcesDiffer DEF DeskReads, Ev
<1>8. u.cli = t.cli
  BY AfterIs, SourcesDiffer DEF CliReads, Ev
<1> HIDE DEF u, st2
<1>9. Readers(u, st2, del, "open", No, lim)
  BY <1>1, <1>5, <1>6, <1>7, <1>8 DEF Readers
<1>. QED BY <1>3, <1>9 DEF u, st2

LEMMA Talks ==
  ASSUME NEW t, NEW st \in States, NEW del \in Counts, NEW lim \in Nat,
         Readers(t, st, del, "open", No, lim), st.text, del[Text] < MaxPieces
  PROVE  LET p  == From(Text, del[Text] + 1, del[Text] + 1)
             e  == Ev("delta", Tx(st), Text, p)
             del2 == [del EXCEPT ![Text] = @ + 1]
         IN  p \in Pieces /\ Proper(t, e) /\ Readers(After(t, e), st, del2, "open", No, lim)
<1> DEFINE p  == From(Text, del[Text] + 1, del[Text] + 1)
           e  == Ev("delta", Tx(st), Text, p)
           del2 == [del EXCEPT ![Text] = @ + 1]
           u == After(t, e)
<1>1. del[Text] \in Nat /\ del[Text] + 1 \in 1..MaxPieces
  BY SourcesDiffer, Numbers DEF Counts
<1>2. p \in Pieces /\ From(Text, 1, del[Text]) \o p = From(Text, 1, del[Text] + 1)
  BY <1>1, NextPiece, SourcesDiffer
<1>3. del2[Text] = del[Text] + 1 /\ \A i \in Calls : del2[Call(i)] = del[Call(i)]
  BY SourcesDiffer DEF Counts
<1>4. Holds(t.block[Tx(st)], Text, No) /\ t.block \in [Idx -> Block] /\ Tx(st) \in Idx
  BY Indices DEF Readers, BlocksAgree
<1>5. Proper(t, e)
  BY <1>1, <1>4, SourcesDiffer DEF Proper, Ev, Readers, Holds, Yes, No
<1>6. p = From(Text, del2[Text], del2[Text])
  BY <1>3
<1> HIDE DEF p, del2
<1>7. OthersStay(t.block, u.block, Tx(st)) /\ Holds(u.block[Tx(st)], Text, No)
  <2>1. u.block = BlockReads(t.block, Ev("delta", Tx(st), Text, p))
    BY AfterIs
  <2> HIDE DEF u, e
  <2>. QED BY <1>2, <1>4, <2>1, BlockGrows
<1>8. BlocksAgree(u.block, st, No)
  <2> HIDE DEF u
  <2>. QED BY <1>7, BlocksOfText DEF Readers
<1>9. u.message = "open" /\ u.shown = From(Text, 1, del2[Text])
  <2>1. u.shown = t.shown \o p
    <3>1. Prints(t.shown, e) = t.shown \o p
      BY DEF Prints, Ev
    <3> HIDE DEF e
    <3>. QED BY <3>1, AfterIs
  <2>2. t.shown = From(Text, 1, del[Text]) /\ t.message = "open"
    BY DEF Readers
  <2>3. u.message = "open"
    BY <2>2, AfterIs DEF MessageReads, Ev
  <2> HIDE DEF u
  <2>. QED BY <1>2, <1>3, <2>1, <2>2, <2>3
<1>10. DeskAgrees(u.desk, st.call, Off(st), del2)
  <2>1. u.desk = DeskReads(t.desk, Ev("delta", Tx(st), Text, From(Text, del2[Text], del2[Text])))
    BY <1>6, AfterIs
  <2> HIDE DEF u, e
  <2>. QED BY <1>1, <1>3, <2>1, DeskSays DEF Readers
<1>11. CliAgrees(u.cli, st.call, del2, lim)
  <2>1. u.cli = CliReads(t.cli, Ev("delta", Tx(st), Text, From(Text, del2[Text], del2[Text])))
    BY <1>6, AfterIs
  <2> HIDE DEF u, e
  <2>. QED BY <1>1, <1>3, <2>1, CliSays DEF Readers
<1> HIDE DEF u, e
<1>12. Readers(u, st, del2, "open", No, lim)
  BY <1>8, <1>9, <1>10, <1>11 DEF Readers
<1>. QED BY <1>2, <1>5, <1>12 DEF u, del2, p, e

LEMMA StopsText ==
  ASSUME NEW t, NEW st \in States, NEW del \in Counts, NEW lim \in Nat, NEW lim2 \in Nat,
         Readers(t, st, del, "open", No, lim), st.text,
         lim <= lim2, \A i \in Calls : st.call[i].started => i < lim2
  PROVE  LET e == Ev("stop", Tx(st), Nothing, <<>>) IN
         Proper(t, e) /\ Readers(After(t, e), st, del, "open", Yes, lim2)
<1> DEFINE e == Ev("stop", Tx(st), Nothing, <<>>)
           u == After(t, e)
<1>1. Holds(t.block[Tx(st)], Text, No) /\ t.block \in [Idx -> Block] /\ Tx(st) \in Idx
  BY Indices DEF Readers, BlocksAgree
<1>2. Proper(t, e)
  BY <1>1 DEF Proper, Ev, Readers, Holds, Yes, No
<1>3. OthersStay(t.block, u.block, Tx(st)) /\ Holds(u.block[Tx(st)], Text, Yes)
  BY <1>1, AfterIs, BlockStops
<1>4. BlocksAgree(u.block, st, Yes)
  <2> HIDE DEF u
  <2>. QED BY <1>3, BlocksOfText DEF Readers
<1>5. u.message = "open" /\ u.shown = t.shown
  BY AfterIs DEF MessageReads, Prints, Ev, Readers
<1>6. u.desk = t.desk
  BY AfterIs DEF DeskReads, Ev
<1>7. CliAgrees(u.cli, st.call, del, lim2)
  BY AfterIs, CliFlushes DEF Readers
<1> HIDE DEF u
<1>8. Readers(u, st, del, "open", Yes, lim2)
  BY <1>4, <1>5, <1>6, <1>7 DEF Readers
<1>. QED BY <1>2, <1>8 DEF u

\* Nothing has to be read for the end of a text that never began.
LEMMA NoTextOver ==
  ASSUME NEW t, NEW st, NEW del, NEW m, NEW over, NEW over2, NEW lim \in Nat, NEW lim2 \in Nat,
         Readers(t, st, del, m, over, lim), ~st.text \/ over2 = over, lim <= lim2
  PROVE  Readers(t, st, del, m, over2, lim2)
<1>1. BlocksAgree(t.block, st, over2)
  BY DEF Readers, BlocksAgree
<1>2. CliAgrees(t.cli, st.call, del, lim2)
  BY CliStays DEF Readers
<1>. QED BY <1>1, <1>2 DEF Readers

LEMMA StartsCall ==
  ASSUME NEW t, NEW st \in States, NEW del \in Counts, NEW lim \in Nat, NEW i \in Calls,
         Readers(t, st, del, "open", No, lim), ~st.call[i].started, ~st.call[i].stopped,
         del[Call(i)] = 0, \A j \in Calls : st.call[j].started => j <= i
  PROVE  LET e == Ev("start", i + Off(st), Call(i), <<>>) IN
         /\ Proper(t, e)
         /\ Readers(After(t, e), [st EXCEPT !.call[i].started = TRUE], del, "open", No, lim)
<1> DEFINE e == Ev("start", i + Off(st), Call(i), <<>>)
           st2 == [st EXCEPT !.call[i].started = TRUE]
           u == After(t, e)
<1>1. /\ st2 \in States /\ st2.text = st.text /\ st2.thinking = st.thinking
      /\ st2.thought = st.thought /\ Off(st2) = Off(st)
      /\ st2.call[i].started /\ st2.call[i].stopped = st.call[i].stopped
      /\ \A j \in Calls : j # i => st2.call[j] = st.call[j]
  BY DEF States, CallState, Off
<1>2. /\ t.block \in [Idx -> Block] /\ i + Off(st) \in Idx /\ Off(st) \in {1, 2}
      /\ t.block[i + Off(st)] = Blocks!Unbegun
  <2>1. /\ i + Off(st) \in Idx /\ i + Off(st) # 0 /\ i + Off(st) # Tx(st) /\ Off(st) \in {1, 2}
        /\ \A j \in Calls : i + Off(st) = j + Off(st) => i = j
    BY Indices
  <2>. QED BY <2>1 DEF Readers, BlocksAgree
<1>3. Proper(t, e)
  BY <1>2, SourcesDiffer DEF Proper, Ev, Readers
<1>4. OthersStay(t.block, u.block, i + Off(st)) /\ Holds(u.block[i + Off(st)], Call(i), No)
  <2>1. u.block = BlockReads(t.block, Ev("start", i + Off(st), Call(i), <<>>)) /\ Call(i) \in Sources
    BY AfterIs, SourcesDiffer
  <2> HIDE DEF u, e
  <2>. QED BY <1>2, <2>1, BlockStarts
<1>5. BlocksAgree(u.block, st2, No)
  <2>1. Holds(u.block[i + Off(st)], Call(i), st2.call[i].stopped)
    BY <1>1, <1>4 DEF Holds, Yes, No
  <2>2. BlocksAgree(t.block, st, No) /\ Moving(st, st2, i)
    BY <1>1 DEF Readers, Moving
  <2> HIDE DEF u, st2
  <2>3. PICK k : k = Slot(i, Off(st))
    OBVIOUS
  <2>4. PICK closed : closed = st2.call[i].stopped
    OBVIOUS
  <2>5. OthersStay(t.block, u.block, k) /\ Holds(u.block[k], Call(i), closed)
    BY <1>4, <2>1, <2>3, <2>4 DEF Slot
  <2>. QED BY <1>1, <2>2, <2>3, <2>4, <2>5, BlocksOfCall
<1>6. u.message = "open" /\ u.shown = t.shown
  BY AfterIs DEF MessageReads, Prints, Ev, Readers
<1>7. DeskAgrees(u.desk, st2.call, Off(st2), del)
  <2>1. u.desk = DeskReads(t.desk, Ev("start", i + Off(st), Call(i), <<>>))
    BY AfterIs
  <2>2. DeskAgrees(t.desk, st.call, Off(st), del) /\ Starting(st.call, st2.call, i, del)
    BY <1>1 DEF Readers, Starting
  <2> HIDE DEF u, e, st2
  <2>3. PICK k \in Idx : k = Slot(i, Off(st))
    BY <1>2 DEF Slot
  <2>4. u.desk = DeskReads(t.desk, Ev("start", k, Call(i), <<>>))
    BY <2>1, <2>3 DEF Slot
  <2>5. DeskAgrees(u.desk, st2.call, Off(st), del)
    BY <2>2, <2>3, <2>4, DeskStarts
  <2>. QED BY <1>1, <2>5
<1>8. CliAgrees(u.cli, st2.call, del, lim)
  <2>1. u.cli = CliReads(t.cli, Ev("start", i + Off(st), Call(i), <<>>))
    BY AfterIs
  <2>2. /\ CliAgrees(t.cli, st.call, del, lim) /\ Starting(st.call, st2.call, i, del)
        /\ Last(st.call, i)
    BY <1>1 DEF Readers, Starting, Last
  <2> HIDE DEF u, e, st2
  <2>. QED BY <2>1, <2>2, CliStarts
<1> HIDE DEF u, st2
<1>9. Readers(u, st2, del, "open", No, lim)
  BY <1>5, <1>6, <1>7, <1>8 DEF Readers
<1>. QED BY <1>3, <1>9 DEF u, st2

LEMMA Hears ==
  ASSUME NEW t, NEW st \in States, NEW del \in Counts, NEW lim \in Nat, NEW i \in Calls,
         NEW more \in 1..MaxPieces,
         Readers(t, st, del, "open", No, lim), st.call[i].started, ~st.call[i].stopped,
         del[Call(i)] < more, lim <= i, \A j \in Calls : st.call[j].started => j <= i
  PROVE  LET p == From(Call(i), del[Call(i)] + 1, more)
             e == Ev("delta", i + Off(st), Call(i), p)
         IN  /\ p \in Pieces /\ Proper(t, e)
             /\ Readers(After(t, e), [st EXCEPT !.call[i].unsent = <<>>],
                        [del EXCEPT ![Call(i)] = more], "open", No, lim)
<1> DEFINE p == From(Call(i), del[Call(i)] + 1, more)
           e == Ev("delta", i + Off(st), Call(i), p)
           st2 == [st EXCEPT !.call[i].unsent = <<>>]
           del2 == [del EXCEPT ![Call(i)] = more]
           u == After(t, e)
<1>1. /\ Call(i) \in Sources /\ Call(i) # Text /\ del[Call(i)] \in Nat /\ more \in Nat
      /\ del[Call(i)] <= more /\ del[Call(i)] + 1 \in 1..MaxPieces
  BY SourcesDiffer, Numbers DEF Counts
<1>2. p \in Pieces
  BY <1>1, MorePieces
<1>3. /\ del2 \in Counts /\ del2[Call(i)] = more
      /\ \A s \in Sources : s # Call(i) => del2[s] = del[s]
  BY <1>1, Numbers DEF Counts
<1>4. del2[Text] = del[Text]
  BY <1>1, <1>3, SourcesDiffer
<1>5. /\ st2 \in States /\ st2.text = st.text /\ st2.thinking = st.thinking
      /\ st2.thought = st.thought /\ Off(st2) = Off(st)
      /\ \A j \in Calls : st2.call[j].started = st.call[j].started
                          /\ st2.call[j].stopped = st.call[j].stopped
  <2>1. <<>> \in Pieces
    BY DEF Pieces
  <2>. QED BY <2>1 DEF States, CallState, Off
<1>6. /\ t.block \in [Idx -> Block] /\ i + Off(st) \in Idx /\ Off(st) \in {1, 2}
      /\ Holds(t.block[i + Off(st)], Call(i), No)
  BY Indices DEF Readers, BlocksAgree, Holds, Yes, No
<1>7. Proper(t, e)
  BY <1>1, <1>6 DEF Proper, Ev, Readers, Holds, Yes, No
<1>8. p = From(Call(i), del[Call(i)] + 1, del2[Call(i)])
  BY <1>3
<1> HIDE DEF p, del2, st2
<1>9. OthersStay(t.block, u.block, i + Off(st)) /\ Holds(u.block[i + Off(st)], Call(i), No)
  <2>1. u.block = BlockReads(t.block, Ev("delta", i + Off(st), Call(i), p))
    BY AfterIs
  <2> HIDE DEF u, e
  <2>. QED BY <1>2, <1>6, <2>1, BlockGrows
<1>10. BlocksAgree(u.block, st2, No)
  <2>1. Holds(u.block[i + Off(st)], Call(i), st2.call[i].stopped)
    BY <1>5, <1>9 DEF Holds, Yes, No
  <2>2. BlocksAgree(t.block, st, No) /\ Moving(st, st2, i)
    BY <1>5 DEF Readers, Moving
  <2> HIDE DEF u
  <2>3. PICK k : k = Slot(i, Off(st))
    OBVIOUS
  <2>4. PICK closed : closed = st2.call[i].stopped
    OBVIOUS
  <2>5. OthersStay(t.block, u.block, k) /\ Holds(u.block[k], Call(i), closed)
    BY <1>9, <2>1, <2>3, <2>4 DEF Slot
  <2>. QED BY <1>5, <2>2, <2>3, <2>4, <2>5, BlocksOfCall
<1>11. u.message = "open" /\ u.shown = t.shown
  BY <1>1, AfterIs DEF MessageReads, Prints, Ev, Readers
<1>a. Passing(st.call, st2.call, i, del, del2) /\ Last(st.call, i)
  BY <1>1, <1>3, <1>5 DEF Passing, Last
<1>12. DeskAgrees(u.desk, st2.call, Off(st2), del2)
  <2>1. PICK k \in Idx : k = Slot(i, Off(st))
    BY <1>6 DEF Slot
  <2>2. u.desk = DeskReads(t.desk, Ev("delta", k, Call(i),
                                      From(Call(i), del[Call(i)] + 1, del2[Call(i)])))
    BY <1>8, <2>1, AfterIs DEF Slot
  <2>3. DeskAgrees(t.desk, st.call, Off(st), del) /\ Off(st) \in Offsets
    BY <1>6 DEF Readers, Offsets
  <2> HIDE DEF u, e
  <2>4. DeskAgrees(u.desk, st2.call, Off(st), del2)
    BY <1>3, <1>a, <2>1, <2>2, <2>3, DeskHears
  <2>. QED BY <1>5, <2>4
<1>13. CliAgrees(u.cli, st2.call, del2, lim)
  <2>1. u.cli = CliReads(t.cli, Ev("delta", i + Off(st), Call(i),
                                   From(Call(i), del[Call(i)] + 1, del2[Call(i)])))
    BY <1>8, AfterIs
  <2>2. CliAgrees(t.cli, st.call, del, lim)
    BY DEF Readers
  <2> HIDE DEF u, e
  <2>. QED BY <1>3, <1>a, <2>1, <2>2, CliHears
<1> HIDE DEF u, e
<1>14. Readers(u, st2, del2, "open", No, lim)
  BY <1>4, <1>10, <1>11, <1>12, <1>13 DEF Readers
<1>. QED BY <1>2, <1>7, <1>14 DEF u, del2, st2, p, e

LEMMA StopsCall ==
  ASSUME NEW t, NEW st \in States, NEW del \in Counts, NEW lim \in Nat, NEW lim2 \in Nat, NEW over,
         NEW i \in Calls,
         Readers(t, st, del, "open", over, lim), st.call[i].started, ~st.call[i].stopped,
         lim <= lim2, \A j \in Calls : st.call[j].started => j < lim2
  PROVE  LET e == Ev("stop", i + Off(st), Nothing, <<>>) IN
         /\ Proper(t, e)
         /\ Readers(After(t, e), [st EXCEPT !.call[i].stopped = TRUE], del, "open", over, lim2)
<1> DEFINE e == Ev("stop", i + Off(st), Nothing, <<>>)
           st2 == [st EXCEPT !.call[i].stopped = TRUE]
           u == After(t, e)
<1>1. /\ st2 \in States /\ st2.text = st.text /\ st2.thinking = st.thinking
      /\ st2.thought = st.thought /\ Off(st2) = Off(st) /\ st2.call[i].stopped
      /\ \A j \in Calls : st2.call[j].started = st.call[j].started
      /\ \A j \in Calls : j # i => st2.call[j] = st.call[j]
  BY DEF States, CallState, Off
<1>2. /\ t.block \in [Idx -> Block] /\ i + Off(st) \in Idx
      /\ Holds(t.block[i + Off(st)], Call(i), No)
  BY Indices DEF Readers, BlocksAgree, Holds, Yes, No
<1>3. Proper(t, e)
  BY <1>2 DEF Proper, Ev, Readers, Holds, Yes, No
<1>4. OthersStay(t.block, u.block, i + Off(st)) /\ Holds(u.block[i + Off(st)], Call(i), Yes)
  BY <1>2, AfterIs, BlockStops
<1>5. BlocksAgree(u.block, st2, over)
  <2>1. Holds(u.block[i + Off(st)], Call(i), st2.call[i].stopped)
    BY <1>1, <1>4 DEF Holds, Yes, No
  <2>2. BlocksAgree(t.block, st, over) /\ Moving(st, st2, i)
    BY <1>1 DEF Readers, Moving
  <2> HIDE DEF u, st2
  <2>3. PICK k : k = Slot(i, Off(st))
    OBVIOUS
  <2>4. PICK closed : closed = st2.call[i].stopped
    OBVIOUS
  <2>5. OthersStay(t.block, u.block, k) /\ Holds(u.block[k], Call(i), closed)
    BY <1>4, <2>1, <2>3, <2>4 DEF Slot
  <2>. QED BY <1>1, <2>2, <2>3, <2>4, <2>5, BlocksOfCall
<1>6. u.message = "open" /\ u.shown = t.shown
  BY AfterIs DEF MessageReads, Prints, Ev, Readers
<1>7. u.desk = t.desk
  BY AfterIs DEF DeskReads, Ev
<1> HIDE DEF st2
<1>8. DeskAgrees(u.desk, st2.call, Off(st2), del)
  BY <1>1, <1>7, DeskStays DEF Readers
<1>9. CliAgrees(u.cli, st2.call, del, lim2)
  BY <1>1, AfterIs, CliFlushes DEF Readers
<1> HIDE DEF u
<1>10. Readers(u, st2, del, "open", over, lim2)
  BY <1>5, <1>6, <1>8, <1>9 DEF Readers
<1>. QED BY <1>3, <1>10 DEF u, st2

-----------------------------------------------------------------------------
(* What the adapter makes of a chunk *)

Res(st, ev) == [state |-> st, events |-> ev]

\* Reading what was made, after what has been read in s, shows all that was passed on.
Shows(s, st, ev, got, del, heard, m, over, lim, t) ==
  /\ Path(s, ev, t) /\ Adapter(st, got, del, heard) /\ Readers(t, st, del, m, over, lim)
  /\ \A i \in Calls : st.call[i].stopped => i < lim

Made(s, r, got, heard, m, over, lim) ==
  /\ r = Res(r.state, r.events) /\ r.state \in States /\ r.events \in Seq(Event)
  /\ \E t, del : Shows(s, r.state, r.events, got, del, heard, m, over, lim, t)

LEMMA ResIs ==
  ASSUME NEW st, NEW ev
  PROVE  /\ Res(st, ev).state = st /\ Res(st, ev).events = ev
         /\ \A kind, index, of, pieces :
              Put(Res(st, ev), kind, index, of, pieces) =
                Res(st, Append(ev, Ev(kind, index, of, pieces)))
BY DEF Res, Put, Ev

LEMMA ResExcept ==
  ASSUME NEW st, NEW ev
  PROVE  /\ [Res(st, ev) EXCEPT !.state.begun = TRUE] = Res([st EXCEPT !.begun = TRUE], ev)
         /\ [Res(st, ev) EXCEPT !.state.thought = TRUE] = Res([st EXCEPT !.thought = TRUE], ev)
         /\ [Res(st, ev) EXCEPT !.state.thinking = TRUE] = Res([st EXCEPT !.thinking = TRUE], ev)
         /\ [Res(st, ev) EXCEPT !.state.text = TRUE] = Res([st EXCEPT !.text = TRUE], ev)
         /\ \A i : /\ [Res(st, ev) EXCEPT !.state.call[i].started = TRUE]
                        = Res([st EXCEPT !.call[i].started = TRUE], ev)
                  /\ [Res(st, ev) EXCEPT !.state.call[i].stopped = TRUE]
                        = Res([st EXCEPT !.call[i].stopped = TRUE], ev)
                  /\ [Res(st, ev) EXCEPT !.state.call[i].unsent = <<>>]
                        = Res([st EXCEPT !.call[i].unsent = <<>>], ev)
<1>1. \A x : [Res(st, ev) EXCEPT !.state = x] = Res(x, ev)
  BY DEF Res
<1>2. Res(st, ev).state = st
  BY DEF Res
<1>3. [Res(st, ev) EXCEPT !.state.begun = TRUE] = Res([st EXCEPT !.begun = TRUE], ev)
  <2>1. [Res(st, ev) EXCEPT !.state = [Res(st, ev).state EXCEPT !.begun = TRUE]]
          = Res([st EXCEPT !.begun = TRUE], ev)
    BY <1>1, <1>2
  <2>. QED BY <2>1
<1>4. [Res(st, ev) EXCEPT !.state.thought = TRUE] = Res([st EXCEPT !.thought = TRUE], ev)
  <2>1. [Res(st, ev) EXCEPT !.state = [Res(st, ev).state EXCEPT !.thought = TRUE]]
          = Res([st EXCEPT !.thought = TRUE], ev)
    BY <1>1, <1>2
  <2>. QED BY <2>1
<1>5. [Res(st, ev) EXCEPT !.state.thinking = TRUE] = Res([st EXCEPT !.thinking = TRUE], ev)
  <2>1. [Res(st, ev) EXCEPT !.state = [Res(st, ev).state EXCEPT !.thinking = TRUE]]
          = Res([st EXCEPT !.thinking = TRUE], ev)
    BY <1>1, <1>2
  <2>. QED BY <2>1
<1>6. [Res(st, ev) EXCEPT !.state.text = TRUE] = Res([st EXCEPT !.text = TRUE], ev)
  <2>1. [Res(st, ev) EXCEPT !.state = [Res(st, ev).state EXCEPT !.text = TRUE]]
          = Res([st EXCEPT !.text = TRUE], ev)
    BY <1>1, <1>2
  <2>. QED BY <2>1
<1>7. ASSUME NEW i
      PROVE  /\ [Res(st, ev) EXCEPT !.state.call[i].started = TRUE]
                        = Res([st EXCEPT !.call[i].started = TRUE], ev)
             /\ [Res(st, ev) EXCEPT !.state.call[i].stopped = TRUE]
                        = Res([st EXCEPT !.call[i].stopped = TRUE], ev)
             /\ [Res(st, ev) EXCEPT !.state.call[i].unsent = <<>>]
                        = Res([st EXCEPT !.call[i].unsent = <<>>], ev)
  <2>1. [Res(st, ev) EXCEPT !.state = [Res(st, ev).state EXCEPT !.call[i].started = TRUE]]
          = Res([st EXCEPT !.call[i].started = TRUE], ev)
    BY <1>1, <1>2
  <2>2. [Res(st, ev) EXCEPT !.state = [Res(st, ev).state EXCEPT !.call[i].stopped = TRUE]]
          = Res([st EXCEPT !.call[i].stopped = TRUE], ev)
    BY <1>1, <1>2
  <2>3. [Res(st, ev) EXCEPT !.state = [Res(st, ev).state EXCEPT !.call[i].unsent = <<>>]]
          = Res([st EXCEPT !.call[i].unsent = <<>>], ev)
    BY <1>1, <1>2
  <2>. QED BY <2>1, <2>2, <2>3
<1>. QED BY <1>3, <1>4, <1>5, <1>6, <1>7

LEMMA MadeIs ==
  ASSUME NEW s, NEW st, NEW ev \in Seq(Event), NEW t, NEW got, NEW del, NEW heard, NEW m, NEW over,
         NEW lim, Path(s, ev, t), Adapter(st, got, del, heard), Readers(t, st, del, m, over, lim),
         \A i \in Calls : st.call[i].stopped => i < lim
  PROVE  Made(s, Res(st, ev), got, heard, m, over, lim)
<1>1. st \in States
  BY DEF Adapter
<1>2. Shows(s, st, ev, got, del, heard, m, over, lim, t)
  BY DEF Shows
<1>. QED BY <1>1, <1>2, ResIs DEF Made

LEMMA MadeMore ==
  ASSUME NEW s, NEW st, NEW ev \in Seq(Event), NEW t, NEW e \in Event, NEW got, NEW del, NEW heard,
         NEW m, NEW over, NEW lim, Path(s, ev, t), Proper(t, e), Adapter(st, got, del, heard),
         Readers(After(t, e), st, del, m, over, lim),
         \A i \in Calls : st.call[i].stopped => i < lim
  PROVE  Made(s, Res(st, Append(ev, e)), got, heard, m, over, lim)
<1>1. Append(ev, e) \in Seq(Event) /\ Path(s, Append(ev, e), After(t, e))
  BY PathAppend
<1>. QED BY <1>1, MadeIs

\* What stays between the parts of a chunk.
Settled(st, heard) == st.begun /\ Pausing(st, heard) /\ Even(st)

Named(st) == {i \in Calls : st.call[i].named}

LEMMA MakesBegin ==
  ASSUME NEW s, NEW r, NEW got, NEW heard, NEW lim \in Nat,
         Made(s, r, got, heard, IF r.state.begun THEN "open" ELSE "none", No, lim),
         Pausing(r.state, heard), Even(r.state)
  PROVE  LET r2 == Begun(r) IN
         /\ Made(s, r2, got, heard, "open", No, lim) /\ Settled(r2.state, heard)
         /\ Named(r2.state) = Named(r.state)
<1> DEFINE st == r.state
           ev == r.events
           e == Ev("begin", 0, Nothing, <<>>)
           st2 == [st EXCEPT !.begun = TRUE]
<1>1. /\ r = Res(st, ev) /\ st \in States /\ ev \in Seq(Event)
      /\ Pausing(st, heard) /\ Even(st)
  BY DEF Made
<1>2. PICK t, del : Shows(s, st, ev, got, del, heard, IF st.begun THEN "open" ELSE "none", No, lim, t)
  BY DEF Made
<1> HIDE DEF st, ev
<1>3. CASE st.begun
  <2>1. Begun(r) = r /\ r.state = st
    BY <1>3 DEF Begun, st
  <2>. QED BY <1>1, <1>3, <2>1 DEF Settled
<1>4. CASE ~st.begun
  <2>1. /\ Path(s, ev, t) /\ Adapter(st, got, del, heard) /\ Readers(t, st, del, "none", No, lim)
        /\ \A i \in Calls : st.call[i].stopped => i < lim
    BY <1>2, <1>4 DEF Shows
  <2>2. Begun(r) = Res(st2, Append(ev, e))
    <3>1. [r EXCEPT !.state.begun = TRUE] = Res(st2, ev)
      BY <1>1, ResExcept
    <3>2. Begun(r) = Put([r EXCEPT !.state.begun = TRUE], "begin", 0, Nothing, <<>>)
      BY <1>1, <1>4, ResIs DEF Begun
    <3>. QED BY <3>1, <3>2, ResIs
  <2>3. /\ st2 \in States /\ st2.begun /\ st2.call = st.call /\ st2.text = st.text
        /\ st2.thinking = st.thinking /\ st2.thought = st.thought
    BY <1>1 DEF States
  <2>4. Proper(t, e) /\ Readers(After(t, e), st2, del, "open", No, lim)
    BY <1>1, <2>1, BeginsMessage
  <2> HIDE DEF st2
  <2>5. Adapter(st2, got, del, heard)
    BY <2>1, <2>3 DEF Adapter
  <2>6. Made(s, Res(st2, Append(ev, e)), got, heard, "open", No, lim)
    BY <1>1, <2>1, <2>3, <2>4, <2>5, EventType, MadeMore
  <2>7. Settled(st2, heard) /\ Named(st2) = Named(st)
    BY <1>1, <2>3 DEF Settled, Pausing, Even, Named
  <2>. QED BY <2>2, <2>6, <2>7, ResIs DEF st
<1>. QED BY <1>3, <1>4

\* close_thinking, when no call has been started.
LEMMA MakesThought ==
  ASSUME NEW s, NEW r, NEW got, NEW heard, NEW lim \in Nat,
         Made(s, r, got, heard, "open", No, lim), r.state.begun
  PROVE  LET r2 == Thought(r) IN
         /\ Made(s, r2, got, heard, "open", No, lim)
         /\ r2.state.begun /\ r2.state.text = r.state.text /\ r2.state.call = r.state.call
         /\ r2.state.thinking = r.state.thinking
         /\ r2.state.thinking => r2.state.thought
<1> DEFINE st == r.state
           ev == r.events
           e == Ev("stop", 0, Nothing, <<>>)
           st2 == [st EXCEPT !.thought = TRUE]
<1>1. r = Res(st, ev) /\ st \in States /\ ev \in Seq(Event) /\ st.begun
  BY DEF Made
<1>2. PICK t, del : Shows(s, st, ev, got, del, heard, "open", No, lim, t)
  BY DEF Made
<1>3. r.state = st
  OBVIOUS
<1> HIDE DEF st, ev
<1>4. CASE ~(st.thinking /\ ~st.thought)
  <2>1. Thought(r) = r
    BY <1>3, <1>4 DEF Thought
  <2>. QED BY <1>1, <1>3, <1>4, <2>1
<1>5. CASE st.thinking /\ ~st.thought
  <2>1. /\ Path(s, ev, t) /\ Adapter(st, got, del, heard) /\ Readers(t, st, del, "open", No, lim)
        /\ \A i \in Calls : st.call[i].stopped => i < lim
    BY <1>2 DEF Shows
  <2>2. Thought(r) = Res(st2, Append(ev, e))
    <3>1. [r EXCEPT !.state.thought = TRUE] = Res(st2, ev)
      BY <1>1, ResExcept
    <3>2. Thought(r) = Put([r EXCEPT !.state.thought = TRUE], "stop", 0, Nothing, <<>>)
      BY <1>3, <1>5 DEF Thought, Stop
    <3>. QED BY <3>1, <3>2, ResIs
  <2>3. /\ st2 \in States /\ st2.begun /\ st2.call = st.call /\ st2.text = st.text
        /\ st2.thinking = st.thinking /\ st2.thought
    BY <1>1 DEF States
  <2>4. \A i \in Calls : ~st.call[i].started
    BY <1>5, <2>1 DEF Adapter
  <2>5. del \in Counts
    BY <2>1 DEF Adapter
  <2>6. Proper(t, e) /\ Readers(After(t, e), st2, del, "open", No, lim)
    BY <1>1, <1>5, <2>1, <2>4, <2>5, StopsThinking
  <2> HIDE DEF st2
  <2>7. Adapter(st2, got, del, heard)
    BY <1>5, <2>1, <2>3 DEF Adapter
  <2>8. Made(s, Res(st2, Append(ev, e)), got, heard, "open", No, lim)
    <3>1. e \in Event /\ \A i \in Calls : st2.call[i].stopped => i < lim
      BY <2>1, <2>3, EventType, Numbers
    <3>. QED BY <1>1, <2>1, <2>6, <2>7, <3>1, MadeMore
  <2>. QED BY <1>3, <2>2, <2>3, <2>8, ResIs
<1>. QED BY <1>4, <1>5

LEMMA MakesReasons ==
  ASSUME NEW s, NEW r, NEW got, NEW lim \in Nat,
         Made(s, r, got, 0, "open", No, lim), Settled(r.state, 0),
         got[Text] = 0, got[Thinking] < MaxPieces
  PROVE  LET r2 == Reasons(r, From(Thinking, got[Thinking] + 1, got[Thinking] + 1)) IN
         /\ Made(s, r2, [got EXCEPT ![Thinking] = @ + 1], 0, "open", No, lim)
         /\ Settled(r2.state, 0) /\ Named(r2.state) = Named(r.state)
<1> DEFINE st == r.state
           ev == r.events
           p == From(Thinking, got[Thinking] + 1, got[Thinking] + 1)
           e1 == Ev("start", 0, Thinking, <<>>)
           e2 == Ev("delta", 0, Thinking, p)
           got2 == [got EXCEPT ![Thinking] = @ + 1]
<1>1. r = Res(st, ev) /\ st \in States /\ ev \in Seq(Event) /\ Settled(st, 0) /\ r.state = st
  BY DEF Made
<1>2. PICK t, del : Shows(s, st, ev, got, del, 0, "open", No, lim, t)
  BY DEF Made
<1> HIDE DEF st, ev
<1>3. /\ Path(s, ev, t) /\ Adapter(st, got, del, 0) /\ Readers(t, st, del, "open", No, lim)
      /\ \A i \in Calls : st.call[i].stopped => i < lim
  BY <1>2 DEF Shows
<1>4. \A i \in Calls : ~(i < 0)
  BY Numbers
<1>5. \A i \in Calls : ~st.call[i].started
  BY <1>3, <1>4 DEF Adapter, CallKnown
<1>6. ~st.text /\ ~st.thought /\ st.begun /\ del \in Counts /\ del[Thinking] = got[Thinking] /\ got \in Counts
  <2>1. ~st.text /\ del \in Counts /\ del[Thinking] = got[Thinking] /\ got \in Counts
    BY <1>3 DEF Adapter
  <2>. QED BY <1>1, <2>1 DEF Settled, Pausing
<1> DEFINE st1 == IF st.thinking THEN st ELSE [st EXCEPT !.thinking = TRUE]
           ev1 == IF st.thinking THEN ev ELSE Append(ev, e1)
           t1  == IF st.thinking THEN t ELSE After(t, e1)
<1>7. /\ st1 \in States /\ st1.begun = st.begun /\ st1.call = st.call /\ st1.text = st.text
      /\ st1.thinking /\ ~st1.thought
  BY <1>1, <1>6 DEF States
<1>8. Path(s, ev1, t1) /\ Readers(t1, st1, del, "open", No, lim) /\ ev1 \in Seq(Event)
  <2>1. CASE st.thinking
    BY <1>1, <1>3, <2>1
  <2>2. CASE ~st.thinking
    <3>1. Proper(t, e1) /\ Readers(After(t, e1), [st EXCEPT !.thinking = TRUE], del, "open", No, lim)
      BY <1>1, <1>3, <1>5, <1>6, <2>2, StartsThinking
    <3>2. e1 \in Event
      BY EventType, Numbers, SourcesDiffer
    <3>3. Append(ev, e1) \in Seq(Event) /\ Path(s, Append(ev, e1), After(t, e1))
      BY <1>1, <1>3, <3>1, <3>2, PathAppend
    <3>. QED BY <2>2, <3>1, <3>3
  <2>. QED BY <2>1, <2>2
<1>9. Reasons(r, p) = Put(Res(st1, ev1), "delta", 0, Thinking, p)
  <2>1. CASE st.thinking
    <3> HIDE DEF p
    <3>. QED BY <1>1, <2>1 DEF Reasons
  <2>2. CASE ~st.thinking
    <3>1. [r EXCEPT !.state.thinking = TRUE] = Res([st EXCEPT !.thinking = TRUE], ev)
      BY <1>1, ResExcept
    <3>2. Put([r EXCEPT !.state.thinking = TRUE], "start", 0, Thinking, <<>>)
            = Res([st EXCEPT !.thinking = TRUE], Append(ev, e1))
      BY <3>1, ResIs
    <3> HIDE DEF p, e1
    <3>. QED BY <1>1, <2>2, <3>2 DEF Reasons
  <2>. QED BY <2>1, <2>2
<1> HIDE DEF st1, ev1, t1
<1>10. Reasons(r, p) = Res(st1, Append(ev1, e2))
  BY <1>9, ResIs
<1> DEFINE del2 == [del EXCEPT ![Thinking] = @ + 1]
<1>11. p \in Pieces /\ Proper(t1, e2) /\ Readers(After(t1, e2), st1, del2, "open", No, lim)
  <2>1. del[Thinking] < MaxPieces /\ p = From(Thinking, del[Thinking] + 1, del[Thinking] + 1)
    BY <1>6
  <2> HIDE DEF p
  <2>. QED BY <1>6, <1>7, <1>8, <2>1, Thinks
<1>12. e2 \in Event
  <2> HIDE DEF p
  <2>. QED BY <1>11, EventType, Numbers, SourcesDiffer
<1>13. /\ got2 \in Counts /\ del2 \in Counts /\ got2[Thinking] = del2[Thinking]
       /\ \A x \in Sources : x # Thinking => got2[x] = got[x] /\ del2[x] = del[x]
  <2>1. got[Thinking] + 1 \in 0..MaxPieces /\ Thinking \in Sources
    BY <1>6, Numbers, SourcesDiffer DEF Counts
  <2>. QED BY <1>6, <2>1 DEF Counts
<1> HIDE DEF got2, del2
<1>14. /\ got2[Text] = got[Text] /\ del2[Text] = del[Text]
       /\ \A i \in Calls : got2[Call(i)] = got[Call(i)] /\ del2[Call(i)] = del[Call(i)]
  BY <1>13, SourcesDiffer
<1>15. Adapter(st1, got2, del2, 0)
  <2>1. \A i \in Calls : CallKnown(st1.call[i], i, got2, del2, 0)
    BY <1>3, <1>7, <1>14 DEF Adapter, CallKnown
  <2>. QED BY <1>3, <1>5, <1>6, <1>7, <1>13, <1>14, <2>1 DEF Adapter
<1>16. Made(s, Res(st1, Append(ev1, e2)), got2, 0, "open", No, lim)
  <2> HIDE DEF p, e2
  <2>1. \A i \in Calls : st1.call[i].stopped => i < lim
    BY <1>3, <1>7
  <2>. QED BY <1>8, <1>11, <1>12, <1>15, <2>1, MadeMore
<1>17. Settled(st1, 0) /\ Named(st1) = Named(st)
  BY <1>1, <1>6, <1>7 DEF Settled, Pausing, Even, Named
<1>. QED BY <1>10, <1>16, <1>17, ResIs DEF st, got2

LEMMA MakesSays ==
  ASSUME NEW s, NEW r, NEW got, NEW heard, NEW lim \in Nat,
         Made(s, r, got, heard, "open", No, lim), Settled(r.state, heard), got[Text] < MaxPieces
  PROVE  LET r2 == Says(r, From(Text, got[Text] + 1, got[Text] + 1)) IN
         /\ Made(s, r2, [got EXCEPT ![Text] = @ + 1], heard, "open", No, lim)
         /\ Settled(r2.state, heard) /\ Named(r2.state) = Named(r.state)
<1> DEFINE c == Thought(r)
           st == c.state
           ev == c.events
           p == From(Text, got[Text] + 1, got[Text] + 1)
           e1 == Ev("start", Tx(st), Text, <<>>)
           e2 == Ev("delta", Tx(st), Text, p)
           got2 == [got EXCEPT ![Text] = @ + 1]
<1>1. /\ Made(s, c, got, heard, "open", No, lim)
      /\ st.begun /\ st.text = r.state.text /\ st.call = r.state.call /\ (st.thinking => st.thought)
      /\ st.thinking = r.state.thinking
  BY MakesThought DEF Settled
<1> HIDE DEF c
<1>2. c = Res(st, ev) /\ st \in States /\ ev \in Seq(Event) /\ c.state = st
  BY <1>1 DEF Made
<1>3. PICK t, del : Shows(s, st, ev, got, del, heard, "open", No, lim, t)
  BY <1>1 DEF Made
<1> HIDE DEF st, ev
<1>4. /\ Path(s, ev, t) /\ Adapter(st, got, del, heard) /\ Readers(t, st, del, "open", No, lim)
      /\ \A i \in Calls : st.call[i].stopped => i < lim
  BY <1>3 DEF Shows
<1>5. del \in Counts /\ del[Text] = got[Text] /\ got \in Counts
  BY <1>4 DEF Adapter
<1> DEFINE st1 == IF st.text THEN st ELSE [st EXCEPT !.text = TRUE]
           ev1 == IF st.text THEN ev ELSE Append(ev, e1)
           t1  == IF st.text THEN t ELSE After(t, e1)
<1>6. /\ st1 \in States /\ st1.begun = st.begun /\ st1.call = st.call /\ st1.text
      /\ st1.thinking = st.thinking /\ st1.thought = st.thought
  BY <1>2 DEF States
<1>7. Tx(st1) = Tx(st) /\ Tx(st) \in Idx
  BY <1>2, <1>6, Indices DEF Tx
<1>8. Path(s, ev1, t1) /\ Readers(t1, st1, del, "open", No, lim) /\ ev1 \in Seq(Event)
  <2>1. CASE st.text
    BY <1>2, <1>4, <2>1
  <2>2. CASE ~st.text
    <3>1. Proper(t, e1) /\ Readers(After(t, e1), [st EXCEPT !.text = TRUE], del, "open", No, lim)
      BY <1>2, <1>4, <2>2, StartsText
    <3>2. e1 \in Event
      BY <1>7, EventType, SourcesDiffer
    <3>3. Append(ev, e1) \in Seq(Event) /\ Path(s, Append(ev, e1), After(t, e1))
      BY <1>2, <1>4, <3>1, <3>2, PathAppend
    <3>. QED BY <2>2, <3>1, <3>3
  <2>. QED BY <2>1, <2>2
<1>9. TextIndex(r) = Tx(st)
  BY <1>1 DEF TextIndex, Tx
<1>10. Says(r, p) = Put(Res(st1, ev1), "delta", Tx(st), Text, p)
  <2>1. Says(r, p) = Put(IF r.state.text THEN c
                         ELSE Put([c EXCEPT !.state.text = TRUE], "start", Tx(st), Text, <<>>),
                         "delta", Tx(st), Text, p)
    <3> HIDE DEF p, e1, e2, got2, st1, ev1, t1
    <3>. QED BY <1>9 DEF Says, c
  <2>2. CASE st.text
    <3>1. st1 = st /\ ev1 = ev
      BY <2>2
    <3> HIDE DEF p, e1, e2, got2, st1, ev1, t1
    <3>. QED BY <1>1, <1>2, <2>1, <2>2, <3>1
  <2>3. CASE ~st.text
    <3>1. [c EXCEPT !.state.text = TRUE] = Res([st EXCEPT !.text = TRUE], ev)
      BY <1>2, ResExcept
    <3>2. Put([c EXCEPT !.state.text = TRUE], "start", Tx(st), Text, <<>>)
            = Res([st EXCEPT !.text = TRUE], Append(ev, e1))
      BY <3>1, ResIs
    <3>3. st1 = [st EXCEPT !.text = TRUE] /\ ev1 = Append(ev, e1)
      BY <2>3
    <3> HIDE DEF p, e1, e2, got2, st1, ev1, t1
    <3>. QED BY <1>1, <2>1, <2>3, <3>2, <3>3
  <2>. QED BY <2>2, <2>3
<1> HIDE DEF st1, ev1, t1
<1>11. Says(r, p) = Res(st1, Append(ev1, e2))
  BY <1>10, ResIs
<1> DEFINE del2 == [del EXCEPT ![Text] = @ + 1]
<1>12. p \in Pieces /\ Proper(t1, e2) /\ Readers(After(t1, e2), st1, del2, "open", No, lim)
  <2>1. /\ del[Text] < MaxPieces /\ p = From(Text, del[Text] + 1, del[Text] + 1)
        /\ e2 = Ev("delta", Tx(st1), Text, p)
    BY <1>5, <1>7
  <2> HIDE DEF p, e2
  <2>. QED BY <1>5, <1>6, <1>8, <2>1, Talks
<1>13. e2 \in Event
  <2> HIDE DEF p
  <2>. QED BY <1>7, <1>12, EventType, SourcesDiffer
<1>14. /\ got2 \in Counts /\ del2 \in Counts /\ got2[Text] = del2[Text] /\ got2[Text] > 0
       /\ \A x \in Sources : x # Text => got2[x] = got[x] /\ del2[x] = del[x]
  <2>1. got[Text] + 1 \in 0..MaxPieces /\ Text \in Sources /\ got[Text] + 1 > 0
    BY <1>5, Numbers, SourcesDiffer DEF Counts
  <2>. QED BY <1>5, <2>1 DEF Counts
<1> HIDE DEF got2, del2
<1>15. /\ got2[Thinking] = got[Thinking] /\ del2[Thinking] = del[Thinking]
       /\ \A i \in Calls : got2[Call(i)] = got[Call(i)] /\ del2[Call(i)] = del[Call(i)]
  BY <1>14, SourcesDiffer
<1>16. Adapter(st1, got2, del2, heard)
  <2>1. \A i \in Calls : CallKnown(st1.call[i], i, got2, del2, heard)
    BY <1>4, <1>6, <1>15 DEF Adapter, CallKnown
  <2>. QED BY <1>1, <1>4, <1>6, <1>14, <1>15, <2>1 DEF Adapter
<1>17. Made(s, Res(st1, Append(ev1, e2)), got2, heard, "open", No, lim)
  <2> HIDE DEF p, e2
  <2>1. \A i \in Calls : st1.call[i].stopped => i < lim
    BY <1>4, <1>6
  <2>. QED BY <1>8, <1>12, <1>13, <1>16, <2>1, MadeMore
<1>18. Settled(st1, heard) /\ Named(st1) = Named(r.state)
  BY <1>1, <1>6 DEF Settled, Pausing, Even, Named
<1>. QED BY <1>11, <1>17, <1>18, ResIs DEF got2

\* Nothing but call i changes.
Frame(st, st2, i) ==
  /\ st2.begun = st.begun /\ st2.thinking = st.thinking /\ st2.thought = st.thought
  /\ st2.text = st.text
  /\ \A j \in Calls : j # i => st2.call[j] = st.call[j]

\* The reasoning has ended, if there was any.
Over(st) == st.begun /\ (st.thinking => st.thought)

\* The piece of call i that comes with a part.
More(got, i, args) == IF args THEN From(Call(i), got[Call(i)] + 1, got[Call(i)] + 1) ELSE <<>>

Got(got, i, args) == [got EXCEPT ![Call(i)] = @ + IF args THEN 1 ELSE 0]

\* What the operators on call i do to the state.
AppliedTo(st, st2, i, named) ==
  Over(st2) /\ Frame(st, st2, i) /\ st2.call[i].named = (st.call[i].named \/ named)

StartedTo(st, st2, i) ==
  /\ Over(st2) /\ Frame(st, st2, i) /\ st2.call[i].named = st.call[i].named
  /\ st2.call[i].started = st.call[i].named

SentTo(st, st2, i) ==
  /\ Over(st2) /\ Frame(st, st2, i) /\ st2.call[i].named = st.call[i].named
  /\ st2.call[i].started = st.call[i].started
  /\ st2.call[i].started => st2.call[i].unsent = <<>>

StoppedTo(st, st2, i) ==
  /\ Frame(st, st2, i) /\ st2.call[i].named = st.call[i].named
  /\ st2.call[i].started = st.call[i].started /\ st2.call[i].unsent = st.call[i].unsent
  /\ st2.call[i].started => st2.call[i].stopped

LEMMA OffsetIs == ASSUME NEW st, NEW ev PROVE Offset(Res(st, ev)) = Off(st)
BY DEF Offset, Off, Res

LEMMA GotMore ==
  ASSUME NEW got \in Counts, NEW del \in Counts, NEW i \in Calls, NEW args \in BOOLEAN,
         args => got[Call(i)] < MaxPieces, del[Call(i)] <= got[Call(i)]
  PROVE  /\ Got(got, i, args) \in Counts /\ got[Call(i)] <= Got(got, i, args)[Call(i)]
         /\ args => Got(got, i, args)[Call(i)] > 0
         /\ ~args => Got(got, i, args)[Call(i)] = got[Call(i)]
         /\ \A s \in Sources : s # Call(i) => Got(got, i, args)[s] = got[s]
         /\ More(got, i, args) \in Pieces
         /\ From(Call(i), del[Call(i)] + 1, got[Call(i)]) \o More(got, i, args)
              = From(Call(i), del[Call(i)] + 1, Got(got, i, args)[Call(i)])
<1>1. Call(i) \in Sources /\ MaxPieces \in Nat
  BY SourcesDiffer, Numbers
<1>2. PICK a \in Nat, g \in 0..MaxPieces : a = del[Call(i)] /\ g = got[Call(i)]
  BY <1>1 DEF Counts
<1>3. a <= g /\ (args => g + 1 \in 0..MaxPieces) /\ g \in Nat
  BY <1>1, <1>2
<1>4. From(Call(i), a + 1, g) \in Pieces
  BY <1>1, <1>2, <1>3, MorePieces
<1>5. CASE args
  <2>1. Got(got, i, args) = [got EXCEPT ![Call(i)] = g + 1]
    BY <1>2, <1>5 DEF Got
  <2>2. /\ Got(got, i, args) \in Counts /\ Got(got, i, args)[Call(i)] = g + 1
        /\ \A s \in Sources : s # Call(i) => Got(got, i, args)[s] = got[s]
    BY <1>1, <1>3, <1>5, <2>1 DEF Counts
  <2>3. More(got, i, args) = From(Call(i), g + 1, g + 1)
    BY <1>2, <1>5 DEF More
  <2>4. From(Call(i), g + 1, g + 1) \in Pieces
    BY <1>1, <1>3, NextPiece
  <2>5. From(Call(i), a + 1, g) \o From(Call(i), g + 1, g + 1) = From(Call(i), a + 1, g + 1)
    <3>1. PICK b \in Nat, c \in Nat : b = a + 1 /\ c = g + 1
      BY <1>2
    <3>2. b > 0 /\ b <= g + 1 /\ g <= c /\ g \in Nat
      BY <1>2, <1>3, <3>1
    <3>3. From(Call(i), b, g) \o From(Call(i), g + 1, c) = From(Call(i), b, c)
      BY <1>1, <3>2, FromJoin
    <3>. QED BY <3>1, <3>3
  <2>6. g <= g + 1 /\ g + 1 > 0
    BY <1>2
  <2>. QED BY <1>2, <1>5, <2>2, <2>3, <2>4, <2>5, <2>6
<1>6. CASE ~args
  <2>1. Got(got, i, args) = [got EXCEPT ![Call(i)] = g]
    <3>1. g + 0 = g
      OBVIOUS
    <3>. QED BY <1>2, <1>6, <3>1 DEF Got
  <2>2. Got(got, i, args) = got
    BY <1>1, <1>2, <2>1 DEF Counts
  <2>3. More(got, i, args) = <<>>
    BY <1>6 DEF More
  <2>4. From(Call(i), a + 1, g) \o <<>> = From(Call(i), a + 1, g)
    BY <1>4, ConcatEmptySeq DEF Pieces
  <2>5. <<>> \in Pieces
    BY DEF Pieces
  <2>. QED BY <1>2, <1>6, <2>2, <2>3, <2>4, <2>5
<1>. QED BY <1>5, <1>6

\* apply, on the state alone.
Heard(st, i, named, piece) ==
  [st EXCEPT !.call[i].named = @ \/ named, !.call[i].unsent = @ \o piece]

LEMMA AppliedIs ==
  ASSUME NEW st, NEW ev, NEW part, NEW piece
  PROVE  Applied(Res(st, ev), part, piece) = Res(Heard(st, part.index, part.named, piece), ev)
<1>1. \A x, y : [Res(x, ev) EXCEPT !.state = y] = Res(y, ev)
  BY DEF Res
<1>2. \A x : Res(x, ev).state = x
  BY DEF Res
<1> DEFINE i == part.index
           n == st.call[i].named \/ part.named
           u == st.call[i].unsent \o piece
           st1 == [st EXCEPT !.call[i].named = n]
           st2 == [st1 EXCEPT !.call[i].unsent = u]
<1>3. Heard(st, i, part.named, piece) = st2
  BY DEF Heard
<1>4. Applied(Res(st, ev), part, piece) =
        [[Res(st, ev) EXCEPT !.state.call[i].named = Res(st, ev).state.call[i].named \/ part.named]
          EXCEPT !.state.call[i].unsent = Res(st, ev).state.call[i].unsent \o piece]
  BY DEF Applied
<1>5. [Res(st, ev) EXCEPT !.state.call[i].named = Res(st, ev).state.call[i].named \/ part.named]
        = Res(st1, ev)
  <2>1. [Res(st, ev) EXCEPT !.state = [Res(st, ev).state EXCEPT !.call[i].named = n]] = Res(st1, ev)
    BY <1>1, <1>2
  <2>. QED BY <1>2, <2>1
<1>6. Res(st, ev).state.call[i].unsent \o piece = u
  BY <1>2
<1> HIDE DEF st1, n, i, u
<1>7. [Res(st1, ev) EXCEPT !.state.call[i].unsent = u] = Res(st2, ev)
  <2>1. Res(st1, ev).state = st1
    BY <1>2
  <2>2. [Res(st1, ev).state EXCEPT !.call[i].unsent = u] = st2
    BY <2>1
  <2>3. [Res(st1, ev) EXCEPT !.state = st2] = Res(st2, ev)
    BY <1>1
  <2> HIDE DEF st2
  <2>4. [Res(st1, ev) EXCEPT !.state = [Res(st1, ev).state EXCEPT !.call[i].unsent = u]]
          = Res(st2, ev)
    BY <2>2, <2>3
  <2>. QED BY <2>4
<1> HIDE DEF st2
<1>. QED BY <1>3, <1>4, <1>5, <1>6, <1>7 DEF i

Hearing(st, st2, i, named, piece) ==
  /\ st2 \in States /\ Frame(st, st2, i)
  /\ st2.call[i].named = (st.call[i].named \/ named)
  /\ st2.call[i].unsent = st.call[i].unsent \o piece
  /\ st2.call[i].started = st.call[i].started /\ st2.call[i].stopped = st.call[i].stopped

LEMMA HeardIs ==
  ASSUME NEW st \in States, NEW i \in Calls, NEW named \in BOOLEAN, NEW piece \in Pieces
  PROVE  Hearing(st, Heard(st, i, named, piece), i, named, piece)
<1> DEFINE c == st.call[i]
           d == [c EXCEPT !.named = c.named \/ named, !.unsent = c.unsent \o piece]
<1>1. c \in CallState
  BY DEF States
<1>2. c.unsent \o piece \in Pieces
  BY <1>1, ConcatProperties DEF CallState, Pieces
<1>3. /\ d \in CallState /\ d.named = (c.named \/ named) /\ d.unsent = c.unsent \o piece
      /\ d.started = c.started /\ d.stopped = c.stopped
  BY <1>1, <1>2 DEF CallState
<1>4. Heard(st, i, named, piece) = [st EXCEPT !.call = [st.call EXCEPT ![i] = d]]
  BY <1>1 DEF Heard, States
<1> HIDE DEF c, d
<1>5. [st.call EXCEPT ![i] = d] \in [Calls -> CallState]
  BY <1>3 DEF States
<1>. QED BY <1>3, <1>4, <1>5 DEF States, Frame, Hearing, c

\* A part of call i reaches the adapter.
LEMMA MakesApplied ==
  ASSUME NEW s, NEW r, NEW got \in Counts, NEW heard \in Nat, NEW lim \in Nat, NEW part \in Part,
         Made(s, r, got, heard, "open", No, lim), Over(r.state),
         heard <= part.index + 1, lim <= part.index,
         part.args => got[Call(part.index)] < MaxPieces
  PROVE  LET i == part.index
             r2 == Applied(r, part, More(got, i, part.args))
         IN  /\ Made(s, r2, Got(got, i, part.args), i + 1, "open", No, lim)
             /\ AppliedTo(r.state, r2.state, i, part.named)
<1> DEFINE st == r.state
           ev == r.events
<1>1. r = Res(st, ev) /\ st \in States /\ ev \in Seq(Event)
  BY DEF Made
<1>2. PICK t, del : Shows(s, st, ev, got, del, heard, "open", No, lim, t)
  BY DEF Made
<1>3. Over(st)
  OBVIOUS
<1>4. PICK i \in Calls, named \in BOOLEAN, args \in BOOLEAN :
        part.index = i /\ part.named = named /\ part.args = args
  BY DEF Part
<1> HIDE DEF st, ev
<1>5. /\ Path(s, ev, t) /\ Adapter(st, got, del, heard) /\ Readers(t, st, del, "open", No, lim)
      /\ \A j \in Calls : st.call[j].stopped => j < lim
  BY <1>2 DEF Shows
<1>6. /\ CallKnown(st.call[i], i, got, del, heard) /\ del \in Counts
      /\ del[Thinking] = got[Thinking] /\ del[Text] = got[Text]
  BY <1>5 DEF Adapter
<1>7. del[Call(i)] <= got[Call(i)] /\ st.call[i].unsent = From(Call(i), del[Call(i)] + 1, got[Call(i)])
  BY <1>6 DEF CallKnown
<1> DEFINE p == More(got, i, args)
           got2 == Got(got, i, args)
           st2 == Heard(st, i, named, p)
<1>8. /\ got2 \in Counts /\ got[Call(i)] <= got2[Call(i)]
      /\ (args => got2[Call(i)] > 0) /\ (~args => got2[Call(i)] = got[Call(i)])
      /\ \A x \in Sources : x # Call(i) => got2[x] = got[x]
      /\ p \in Pieces
      /\ st.call[i].unsent \o p = From(Call(i), del[Call(i)] + 1, got2[Call(i)])
  BY <1>4, <1>6, <1>7, GotMore
<1>9. /\ st2 \in States /\ Frame(st, st2, i)
      /\ st2.call[i].named = (st.call[i].named \/ named)
      /\ st2.call[i].unsent = st.call[i].unsent \o p
      /\ st2.call[i].started = st.call[i].started /\ st2.call[i].stopped = st.call[i].stopped
  <2> HIDE DEF p
  <2>1. Hearing(st, st2, i, named, p)
    BY <1>1, <1>8, HeardIs
  <2>. QED BY <2>1 DEF Hearing
<1>10. Applied(r, part, p) = Res(st2, ev)
  <2> HIDE DEF p
  <2>. QED BY <1>1, <1>4, AppliedIs
<1> HIDE DEF st2, p, got2
<1>11. \A j \in Calls : /\ st2.call[j].started = st.call[j].started
                        /\ st2.call[j].stopped = st.call[j].stopped
  BY <1>9 DEF Frame
<1>12. Over(st2) /\ Tx(st2) = Tx(st) /\ Off(st2) = Off(st)
  BY <1>3, <1>9 DEF Over, Frame, Tx, Off
<1>13. heard <= i + 1 /\ lim <= i /\ i + 1 \in 0..MaxCalls /\ i \in Nat
  BY <1>4, Numbers DEF Calls
<1>14. Adapter(st2, got2, del, i + 1)
  <2>1. CallKnown(st2.call[i], i, got2, del, i + 1)
    <3>1. del[Call(i)] <= got2[Call(i)] /\ i < i + 1
      BY <1>6, <1>7, <1>8, <1>13, SourcesDiffer, Numbers DEF Counts
    <3>2. st.call[i].stopped => st.call[i].started
      BY <1>6 DEF CallKnown
    <3>3. IF st2.call[i].started THEN st2.call[i].named ELSE del[Call(i)] = 0
      BY <1>6, <1>9 DEF CallKnown
    <3>4. st2.call[i].unsent = From(Call(i), del[Call(i)] + 1, got2[Call(i)])
      BY <1>8, <1>9
    <3>. QED BY <1>9, <3>1, <3>2, <3>3, <3>4 DEF CallKnown
  <2>2. \A j \in Calls : j # i => CallKnown(st2.call[j], j, got2, del, i + 1)
    <3>1. SUFFICES ASSUME NEW j \in Calls, j # i PROVE CallKnown(st2.call[j], j, got2, del, i + 1)
      OBVIOUS
    <3>2. CallKnown(st.call[j], j, got, del, heard) /\ st2.call[j] = st.call[j]
      BY <1>5, <1>9, <3>1 DEF Adapter, Frame
    <3>3. got2[Call(j)] = got[Call(j)]
      BY <1>8, <3>1, SourcesDiffer
    <3>4. j < heard => j < i + 1
      BY <1>13, Numbers
    <3>. QED BY <3>2, <3>3, <3>4 DEF CallKnown
  <2>3. got2[Thinking] = got[Thinking] /\ got2[Text] = got[Text]
    BY <1>8, SourcesDiffer
  <2>4. /\ st2.text = st.text /\ st2.thought = st.thought /\ st2.thinking = st.thinking
        /\ st2.begun /\ (st2.thinking => st2.thought)
    BY <1>9, <1>12 DEF Frame, Over
  <2>5. \A j \in Calls : CallKnown(st2.call[j], j, got2, del, i + 1)
    BY <2>1, <2>2
  <2>6. (st.text <=> got[Text] > 0) /\ (st.thought => st.thinking)
    BY <1>5 DEF Adapter
  <2>. QED BY <1>6, <1>8, <1>9, <1>13, <2>3, <2>4, <2>5, <2>6 DEF Adapter
<1>15. Readers(t, st2, del, "open", No, lim)
  <2>1. CliAgrees(t.cli, st2.call, del, lim)
    BY <1>5, <1>11, CliStays DEF Readers
  <2>2. DeskAgrees(t.desk, st2.call, Off(st2), del)
    BY <1>5, <1>11, <1>12, DeskStays DEF Readers
  <2>3. BlocksAgree(t.block, st2, No)
    <3>1. st2.text = st.text /\ st2.thought = st.thought /\ st2.thinking = st.thinking
      BY <1>9 DEF Frame
    <3>. QED BY <1>5, <1>11, <1>12, <3>1 DEF Readers, BlocksAgree
  <2>. QED BY <1>5, <2>1, <2>2, <2>3 DEF Readers
<1>16. Made(s, Res(st2, ev), got2, i + 1, "open", No, lim)
  BY <1>1, <1>5, <1>11, <1>14, <1>15, MadeIs
<1>17. AppliedTo(st, st2, i, named)
  BY <1>9, <1>12 DEF AppliedTo
<1>. QED BY <1>4, <1>10, <1>16, <1>17, ResIs DEF st, p, got2

\* The marks of a call, on the state and on what has been made of it.
StartMark(st, i)  == [st EXCEPT !.call[i].started = TRUE]
StopMark(st, i)   == [st EXCEPT !.call[i].stopped = TRUE]
SentMark(st, i)   == [st EXCEPT !.call[i].unsent = <<>>]
StartMarked(r, i) == [r EXCEPT !.state.call[i].started = TRUE]
StopMarked(r, i)  == [r EXCEPT !.state.call[i].stopped = TRUE]
SentMarked(r, i)  == [r EXCEPT !.state.call[i].unsent = <<>>]

LEMMA MarksAre ==
  ASSUME NEW st, NEW ev, NEW i
  PROVE  /\ StartMarked(Res(st, ev), i) = Res(StartMark(st, i), ev)
         /\ StopMarked(Res(st, ev), i) = Res(StopMark(st, i), ev)
         /\ SentMarked(Res(st, ev), i) = Res(SentMark(st, i), ev)
<1>1. \A x : [Res(st, ev) EXCEPT !.state = x] = Res(x, ev)
  BY DEF Res
<1>2. Res(st, ev).state = st
  BY DEF Res
<1>3. [Res(st, ev) EXCEPT !.state = [Res(st, ev).state EXCEPT !.call[i].started = TRUE]]
        = Res([st EXCEPT !.call[i].started = TRUE], ev)
  BY <1>1, <1>2
<1>4. [Res(st, ev) EXCEPT !.state = [Res(st, ev).state EXCEPT !.call[i].stopped = TRUE]]
        = Res([st EXCEPT !.call[i].stopped = TRUE], ev)
  BY <1>1, <1>2
<1>5. [Res(st, ev) EXCEPT !.state = [Res(st, ev).state EXCEPT !.call[i].unsent = <<>>]]
        = Res([st EXCEPT !.call[i].unsent = <<>>], ev)
  BY <1>1, <1>2
<1>. QED BY <1>3, <1>4, <1>5
  DEF StartMark, StopMark, SentMark, StartMarked, StopMarked, SentMarked

LEMMA MakesStarted ==
  ASSUME NEW s, NEW r, NEW got, NEW lim \in Nat, NEW i \in Calls,
         Made(s, r, got, i + 1, "open", No, lim), Over(r.state), lim <= i
  PROVE  LET r2 == Started(r, i) IN
         /\ Made(s, r2, got, i + 1, "open", No, lim)
         /\ StartedTo(r.state, r2.state, i)
<1> DEFINE st == r.state
           ev == r.events
<1>1. /\ r = Res(st, ev) /\ st \in States /\ ev \in Seq(Event) /\ Over(st)
      /\ r.state = st
  BY DEF Made
<1>2. PICK t, del : Shows(s, st, ev, got, del, i + 1, "open", No, lim, t)
  BY DEF Made
<1> HIDE DEF st, ev
<1>3. /\ Path(s, ev, t) /\ Adapter(st, got, del, i + 1) /\ Readers(t, st, del, "open", No, lim)
      /\ \A j \in Calls : st.call[j].stopped => j < lim
  BY <1>2 DEF Shows
<1>4. CallKnown(st.call[i], i, got, del, i + 1) /\ del \in Counts /\ st.call[i] \in CallState
  BY <1>1, <1>3 DEF Adapter, States
<1>5. ~(i < lim) /\ ~st.call[i].stopped
  BY <1>3, Numbers
<1>6. CASE st.call[i].started \/ ~st.call[i].named
  <2>1. Started(r, i) = r
    BY <1>1, <1>6 DEF Started
  <2>2. st.call[i].started = st.call[i].named
    BY <1>4, <1>6 DEF CallKnown, CallState
  <2>. QED BY <1>1, <2>1, <2>2 DEF Frame, StartedTo
<1>7. CASE ~st.call[i].started /\ st.call[i].named
  <2> DEFINE e == Ev("start", i + Off(st), Call(i), <<>>)
             st2 == [st EXCEPT !.call[i].started = TRUE]
  <2>1. Started(r, i) = Res(st2, Append(ev, e))
    <3>1. StartMarked(r, i) = Res(st2, ev)
      <4>1. StartMarked(Res(st, ev), i) = Res(StartMark(st, i), ev) /\ r = Res(st, ev)
        BY <1>1, MarksAre
      <4>2. StartMark(st, i) = st2
        BY DEF StartMark
      <4> HIDE DEF st2
      <4>. QED BY <4>1, <4>2
    <3>2. Offset(r) = Off(st)
      BY <1>1, OffsetIs
    <3>3. Started(r, i) = Put(StartMarked(r, i), "start", i + Off(st), Call(i), <<>>)
      BY <1>1, <1>7, <3>2 DEF Started, StartMarked
    <3>. QED BY <3>1, <3>3, ResIs
  <2>2. /\ st2 \in States /\ Frame(st, st2, i) /\ st2.call[i] = [st.call[i] EXCEPT !.started = TRUE]
    BY <1>1 DEF States, CallState, Frame
  <2>3. /\ st2.call[i].started = TRUE /\ st2.call[i].named = st.call[i].named
        /\ st2.call[i].unsent = st.call[i].unsent /\ st2.call[i].stopped = st.call[i].stopped
    BY <1>4, <2>2 DEF CallState
  <2>4. del[Call(i)] = 0
    BY <1>4, <1>7 DEF CallKnown
  <2>5. \A j \in Calls : st.call[j].started => j <= i
    <3>1. SUFFICES ASSUME NEW j \in Calls, st.call[j].started PROVE j <= i
      OBVIOUS
    <3>2. CallKnown(st.call[j], j, got, del, i + 1)
      BY <1>3 DEF Adapter
    <3>3. j < i + 1
      BY <3>1, <3>2 DEF CallKnown
    <3>. QED BY <3>3, Numbers
  <2>6. Proper(t, e) /\ Readers(After(t, e), st2, del, "open", No, lim)
    BY <1>1, <1>3, <1>4, <1>5, <1>7, <2>4, <2>5, StartsCall
  <2>7. e \in Event
    <3>1. i + Off(st) \in Idx
      BY <1>1, Indices
    <3>. QED BY <3>1, EventType, SourcesDiffer
  <2> HIDE DEF st2, e
  <2>8. Over(st2)
    BY <1>1, <2>2 DEF Over, Frame
  <2>9. Adapter(st2, got, del, i + 1)
    <3>1. CallKnown(st2.call[i], i, got, del, i + 1)
      BY <1>4, <1>5, <1>7, <2>3 DEF CallKnown
    <3>2. \A j \in Calls : CallKnown(st2.call[j], j, got, del, i + 1)
      BY <1>3, <2>2, <3>1 DEF Adapter, Frame
    <3>. QED BY <1>3, <2>2, <2>8, <3>2 DEF Adapter, Frame, Over
  <2>10. \A j \in Calls : st2.call[j].stopped => j < lim
    BY <1>3, <2>2, <2>3 DEF Frame
  <2>11. Made(s, Res(st2, Append(ev, e)), got, i + 1, "open", No, lim)
    BY <1>1, <1>3, <2>6, <2>7, <2>9, <2>10, MadeMore
  <2>12. st2.call[i].started = st.call[i].named
    BY <1>4, <1>7, <2>3 DEF CallState
  <2>13. Started(r, i).state = st2
    BY <2>1, ResIs
  <2>. QED BY <1>1, <2>1, <2>2, <2>3, <2>8, <2>11, <2>12, <2>13 DEF StartedTo
<1>. QED BY <1>6, <1>7

LEMMA MakesSent ==
  ASSUME NEW s, NEW r, NEW got, NEW lim \in Nat, NEW i \in Calls,
         Made(s, r, got, i + 1, "open", No, lim), Over(r.state), lim <= i
  PROVE  LET r2 == Sent(r, i) IN
         /\ Made(s, r2, got, i + 1, "open", No, lim)
         /\ SentTo(r.state, r2.state, i)
<1> DEFINE st == r.state
           ev == r.events
<1>1. /\ r = Res(st, ev) /\ st \in States /\ ev \in Seq(Event) /\ Over(st)
      /\ r.state = st
  BY DEF Made
<1>2. PICK t, del : Shows(s, st, ev, got, del, i + 1, "open", No, lim, t)
  BY DEF Made
<1> HIDE DEF st, ev
<1>3. /\ Path(s, ev, t) /\ Adapter(st, got, del, i + 1) /\ Readers(t, st, del, "open", No, lim)
      /\ \A j \in Calls : st.call[j].stopped => j < lim
  BY <1>2 DEF Shows
<1>4. /\ CallKnown(st.call[i], i, got, del, i + 1) /\ del \in Counts /\ got \in Counts
      /\ st.call[i] \in CallState
  BY <1>1, <1>3 DEF Adapter, States
<1>5. ~(i < lim) /\ ~st.call[i].stopped
  BY <1>3, Numbers
<1>6. CASE ~st.call[i].started \/ st.call[i].unsent = <<>>
  <2>1. Sent(r, i) = r
    BY <1>1, <1>6 DEF Sent
  <2>. QED BY <1>1, <1>6, <2>1 DEF Frame, SentTo
<1>7. CASE st.call[i].started /\ st.call[i].unsent # <<>>
  <2>1. PICK more \in 0..MaxPieces : more = got[Call(i)]
    BY <1>4, SourcesDiffer DEF Counts
  <2> DEFINE p == From(Call(i), del[Call(i)] + 1, more)
             e == Ev("delta", i + Off(st), Call(i), p)
             st2 == [st EXCEPT !.call[i].unsent = <<>>]
             del2 == [del EXCEPT ![Call(i)] = more]
  <2>2. st.call[i].unsent = p /\ del[Call(i)] \in Nat /\ del[Call(i)] <= more
    BY <1>4, <2>1, SourcesDiffer DEF CallKnown, Counts
  <2>3. del[Call(i)] < more
    <3>1. del[Call(i)] # more
      BY <1>7, <2>2, FromEmpty, SourcesDiffer
    <3>. QED BY <2>2, <3>1
  <2>4. more \in 1..MaxPieces
    BY <2>2, <2>3
  <2>5. Sent(r, i) = Res(st2, Append(ev, e))
    <3>1. SentMarked(r, i) = Res(st2, ev)
      <4>1. SentMarked(Res(st, ev), i) = Res(SentMark(st, i), ev) /\ r = Res(st, ev)
        BY <1>1, MarksAre
      <4>2. SentMark(st, i) = st2
        BY DEF SentMark
      <4> HIDE DEF st2
      <4>. QED BY <4>1, <4>2
    <3>2. Offset(r) = Off(st)
      BY <1>1, OffsetIs
    <3>3. Sent(r, i) = Put(SentMarked(r, i), "delta", i + Off(st), Call(i), p)
      <4> HIDE DEF p
      <4>. QED BY <1>1, <1>7, <2>2, <3>2 DEF Sent, SentMarked
    <3>. QED BY <3>1, <3>3, ResIs
  <2>6. \A j \in Calls : st.call[j].started => j <= i
    <3>1. SUFFICES ASSUME NEW j \in Calls, st.call[j].started PROVE j <= i
      OBVIOUS
    <3>2. CallKnown(st.call[j], j, got, del, i + 1)
      BY <1>3 DEF Adapter
    <3>3. IF st.call[j].started THEN st.call[j].named ELSE del[Call(j)] = 0
      BY <3>2 DEF CallKnown
    <3>4. j < i + 1
      BY <3>1, <3>2, <3>3 DEF CallKnown
    <3>. QED BY <3>4, Numbers
  <2>7. p \in Pieces /\ Proper(t, e) /\ Readers(After(t, e), st2, del2, "open", No, lim)
    BY <1>1, <1>3, <1>4, <1>5, <1>7, <2>3, <2>4, <2>6, Hears
  <2>8. /\ st2 \in States /\ Frame(st, st2, i) /\ st2.call[i] = [st.call[i] EXCEPT !.unsent = <<>>]
    <3>1. <<>> \in Pieces
      BY DEF Pieces
    <3>. QED BY <1>1, <3>1 DEF States, CallState, Frame
  <2>9. /\ st2.call[i].started = st.call[i].started /\ st2.call[i].named = st.call[i].named
        /\ st2.call[i].unsent = <<>> /\ st2.call[i].stopped = st.call[i].stopped
    BY <1>4, <2>8 DEF CallState
  <2>10. e \in Event
    <3>1. i + Off(st) \in Idx /\ Call(i) \in Sources
      BY <1>1, Indices, SourcesDiffer
    <3> HIDE DEF p
    <3>. QED BY <2>7, <3>1, EventType
  <2>11. /\ del2 \in Counts /\ del2[Call(i)] = more
         /\ \A x \in Sources : x # Call(i) => del2[x] = del[x]
    BY <1>4, <2>4, SourcesDiffer DEF Counts
  <2> HIDE DEF st2, e, p, del2
  <2>12. Over(st2)
    BY <1>1, <2>8 DEF Over, Frame
  <2>13. Adapter(st2, got, del2, i + 1)
    <3>1. CallKnown(st2.call[i], i, got, del2, i + 1)
      <4>1. st2.call[i].unsent = From(Call(i), del2[Call(i)] + 1, got[Call(i)])
        BY <2>1, <2>9, <2>11, FromEmpty, SourcesDiffer
      <4>2. del2[Call(i)] <= got[Call(i)]
        BY <2>1, <2>11
      <4>. QED BY <1>4, <1>5, <1>7, <2>9, <4>1, <4>2 DEF CallKnown
    <3>2. ASSUME NEW j \in Calls, j # i PROVE CallKnown(st2.call[j], j, got, del2, i + 1)
      <4>1. CallKnown(st.call[j], j, got, del, i + 1) /\ st2.call[j] = st.call[j]
        BY <1>3, <2>8, <3>2 DEF Adapter, Frame
      <4>2. del2[Call(j)] = del[Call(j)]
        BY <2>11, <3>2, SourcesDiffer
      <4>. QED BY <4>1, <4>2 DEF CallKnown
    <3>3. del2[Thinking] = del[Thinking] /\ del2[Text] = del[Text]
      BY <2>11, SourcesDiffer
    <3>4. \A j \in Calls : CallKnown(st2.call[j], j, got, del2, i + 1)
      BY <3>1, <3>2
    <3>. QED BY <1>3, <2>8, <2>11, <2>12, <3>3, <3>4 DEF Adapter, Frame, Over
  <2>14. \A j \in Calls : st2.call[j].stopped => j < lim
    BY <1>3, <2>8, <2>9 DEF Frame
  <2>15. Made(s, Res(st2, Append(ev, e)), got, i + 1, "open", No, lim)
    BY <1>1, <1>3, <2>7, <2>10, <2>13, <2>14, MadeMore
  <2>16. Sent(r, i).state = st2
    BY <2>5, ResIs
  <2>. QED BY <1>1, <2>5, <2>8, <2>9, <2>12, <2>15, <2>16 DEF SentTo
<1>. QED BY <1>6, <1>7

LEMMA MadeWeaker ==
  ASSUME NEW s, NEW r, NEW got, NEW heard, NEW m, NEW over, NEW over2, NEW lim \in Nat, NEW lim2 \in Nat,
         Made(s, r, got, heard, m, over, lim), ~r.state.text \/ over2 = over, lim <= lim2
  PROVE  Made(s, r, got, heard, m, over2, lim2)
<1> DEFINE st == r.state
           ev == r.events
<1>1. r = Res(st, ev) /\ st \in States /\ ev \in Seq(Event) /\ (~st.text \/ over2 = over)
  BY DEF Made
<1>2. PICK t, del : Shows(s, st, ev, got, del, heard, m, over, lim, t)
  BY DEF Made
<1> HIDE DEF st, ev
<1>3. /\ Path(s, ev, t) /\ Adapter(st, got, del, heard) /\ Readers(t, st, del, m, over, lim)
      /\ \A j \in Calls : st.call[j].stopped => j < lim
  BY <1>2 DEF Shows
<1>4. Readers(t, st, del, m, over2, lim2)
  BY <1>1, <1>3, NoTextOver
<1>5. \A j \in Calls : st.call[j].stopped => j < lim2
  BY <1>3, Numbers
<1>. QED BY <1>1, <1>3, <1>4, <1>5, MadeIs

LEMMA MakesStopped ==
  ASSUME NEW s, NEW r, NEW got, NEW heard, NEW over, NEW lim \in Nat, NEW lim2 \in Nat,
         NEW i \in Calls, Made(s, r, got, heard, "open", over, lim), r.state.begun,
         lim <= lim2, \A j \in Calls : r.state.call[j].started => j < lim2
  PROVE  LET r2 == Stopped(r, i) IN
         /\ Made(s, r2, got, heard, "open", over, lim2)
         /\ StoppedTo(r.state, r2.state, i)
<1> DEFINE st == r.state
           ev == r.events
<1>1. /\ r = Res(st, ev) /\ st \in States /\ ev \in Seq(Event) /\ st.begun
      /\ r.state = st /\ \A j \in Calls : st.call[j].started => j < lim2
  BY DEF Made
<1>2. PICK t, del : Shows(s, st, ev, got, del, heard, "open", over, lim, t)
  BY DEF Made
<1> HIDE DEF st, ev
<1>3. /\ Path(s, ev, t) /\ Adapter(st, got, del, heard) /\ Readers(t, st, del, "open", over, lim)
      /\ \A j \in Calls : st.call[j].stopped => j < lim
  BY <1>2 DEF Shows
<1>4. CallKnown(st.call[i], i, got, del, heard) /\ del \in Counts /\ st.call[i] \in CallState
  BY <1>1, <1>3 DEF Adapter, States
<1>5. CASE ~(st.call[i].started /\ ~st.call[i].stopped)
  <2>1. Stopped(r, i) = r
    BY <1>1, <1>5 DEF Stopped
  <2>2. Made(s, r, got, heard, "open", over, lim2)
    BY MadeWeaker
  <2>. QED BY <1>1, <1>5, <2>1, <2>2 DEF Frame, StoppedTo
<1>6. CASE st.call[i].started /\ ~st.call[i].stopped
  <2> DEFINE e == Ev("stop", i + Off(st), Nothing, <<>>)
             st2 == [st EXCEPT !.call[i].stopped = TRUE]
  <2>1. Stopped(r, i) = Res(st2, Append(ev, e))
    <3>1. StopMarked(r, i) = Res(st2, ev)
      <4>1. StopMarked(Res(st, ev), i) = Res(StopMark(st, i), ev) /\ r = Res(st, ev)
        BY <1>1, MarksAre
      <4>2. StopMark(st, i) = st2
        BY DEF StopMark
      <4> HIDE DEF st2
      <4>. QED BY <4>1, <4>2
    <3>2. Offset(r) = Off(st)
      BY <1>1, OffsetIs
    <3>3. Stopped(r, i) = Put(StopMarked(r, i), "stop", i + Off(st), Nothing, <<>>)
      BY <1>1, <1>6, <3>2 DEF Stopped, Stop, StopMarked
    <3>. QED BY <3>1, <3>3, ResIs
  <2>2. /\ st2 \in States /\ Frame(st, st2, i) /\ st2.call[i] = [st.call[i] EXCEPT !.stopped = TRUE]
    BY <1>1 DEF States, CallState, Frame
  <2>3. /\ st2.call[i].started = st.call[i].started /\ st2.call[i].named = st.call[i].named
        /\ st2.call[i].unsent = st.call[i].unsent /\ st2.call[i].stopped
    BY <1>4, <2>2 DEF CallState
  <2>4. Proper(t, e) /\ Readers(After(t, e), st2, del, "open", over, lim2)
    BY <1>1, <1>3, <1>4, <1>6, StopsCall
  <2>5. e \in Event
    BY <1>1, Indices, EventType
  <2> HIDE DEF st2, e
  <2>6. \A j \in Calls : st2.call[j].started = st.call[j].started
    BY <2>2, <2>3 DEF Frame
  <2>7. Adapter(st2, got, del, heard)
    <3>1. CallKnown(st2.call[i], i, got, del, heard)
      BY <1>4, <1>6, <2>3 DEF CallKnown
    <3>2. \A j \in Calls : CallKnown(st2.call[j], j, got, del, heard)
      BY <1>3, <2>2, <3>1 DEF Adapter, Frame
    <3>. QED BY <1>1, <1>3, <2>2, <2>6, <3>2 DEF Adapter, Frame
  <2>8. \A j \in Calls : st2.call[j].stopped => j < lim2
    <3>1. \A j \in Calls : j < lim => j < lim2
      BY Numbers
    <3>2. i < lim2
      BY <1>1, <1>6
    <3>3. ASSUME NEW j \in Calls, st2.call[j].stopped PROVE j < lim2
      <4>1. CASE j = i
        BY <3>2, <4>1
      <4>2. CASE j # i
        BY <1>3, <2>2, <3>1, <3>3, <4>2 DEF Frame
      <4>. QED BY <4>1, <4>2
    <3>. QED BY <3>3
  <2>9. Made(s, Res(st2, Append(ev, e)), got, heard, "open", over, lim2)
    BY <1>1, <1>3, <2>4, <2>5, <2>7, <2>8, MadeMore
  <2>10. Stopped(r, i).state = st2
    BY <2>1, ResIs
  <2>. QED BY <1>1, <2>1, <2>2, <2>3, <2>9, <2>10 DEF StoppedTo
<1>. QED BY <1>5, <1>6

\* How far the calls are over after a chunk that came to call i.
Limit(finish, i, lim) == IF finish = "tool_calls" THEN i + 1 ELSE lim

\* What a part of call i adds to the calls with a name.
Naming(i, named) == IF named THEN {i} ELSE {}

\* What a part of call i asks for, and what comes of it.
AskReady(s, r, got, heard, lim, part, i) ==
  /\ got \in Counts /\ heard \in Nat /\ lim \in Nat /\ part \in Part /\ i \in Calls /\ i = part.index
  /\ Made(s, r, got, heard, "open", No, lim) /\ Settled(r.state, heard)
  /\ heard <= i + 1 /\ lim <= i /\ (part.args => got[Call(i)] < MaxPieces)

AskDone(s, r, r2, got, lim, part, i) ==
  /\ Made(s, r2, Got(got, i, part.args), i + 1, "open", No, lim) /\ Settled(r2.state, i + 1)
  /\ Named(r2.state) = Named(r.state) \cup Naming(i, part.named)

LEMMA MakesAsks ==
  ASSUME NEW s, NEW r, NEW got, NEW heard, NEW lim, NEW part, NEW i, NEW finish,
         AskReady(s, r, got, heard, lim, part, i)
  PROVE  AskDone(s, r, Asks(r, part, More(got, i, part.args), finish), got, Limit(finish, i, lim),
                 part, i)
<1> SUFFICES ASSUME got \in Counts, heard \in Nat, lim \in Nat, part \in Part, i \in Calls,
                    i = part.index, Made(s, r, got, heard, "open", No, lim),
                    Settled(r.state, heard), heard <= i + 1, lim <= i,
                    part.args => got[Call(i)] < MaxPieces
             PROVE  AskDone(s, r, Asks(r, part, More(got, i, part.args), finish), got,
                            Limit(finish, i, lim), part, i)
  BY DEF AskReady
<1> DEFINE piece == More(got, i, part.args)
           got2 == Got(got, i, part.args)
           a == Thought(r)
           b == Applied(a, part, piece)
           c == Started(b, i)
           d == Sent(c, i)
           e == IF finish = "tool_calls" THEN Stopped(d, i) ELSE d
<1>1. Asks(r, part, piece, finish) = e
  <2> HIDE DEF piece
  <2>. QED BY DEF Asks
<1>2. /\ Made(s, a, got, heard, "open", No, lim) /\ a.state.begun /\ a.state.call = r.state.call
      /\ Over(a.state)
  BY MakesThought DEF Settled, Over
<1> HIDE DEF a
<1>3. /\ Made(s, b, got2, i + 1, "open", No, lim) /\ AppliedTo(a.state, b.state, i, part.named)
  BY <1>2, MakesApplied
<1> HIDE DEF b, got2
<1>4. /\ Made(s, c, got2, i + 1, "open", No, lim) /\ StartedTo(b.state, c.state, i)
  BY <1>3, MakesStarted DEF AppliedTo
<1> HIDE DEF c
<1>5. /\ Made(s, d, got2, i + 1, "open", No, lim) /\ SentTo(c.state, d.state, i)
  BY <1>4, MakesSent DEF StartedTo
<1> HIDE DEF d
<1>6. /\ Made(s, e, got2, i + 1, "open", No, Limit(finish, i, lim)) /\ Over(e.state)
      /\ Frame(d.state, e.state, i)
      /\ e.state.call[i].named = d.state.call[i].named
      /\ e.state.call[i].started = d.state.call[i].started
      /\ e.state.call[i].unsent = d.state.call[i].unsent
  <2>1. CASE finish = "tool_calls"
    <3>1. \A j \in Calls : d.state.call[j].started => j < i + 1
      <4>1. SUFFICES ASSUME NEW j \in Calls, d.state.call[j].started PROVE j < i + 1
        OBVIOUS
      <4>2. PICK del : CallKnown(d.state.call[j], j, got2, del, i + 1)
        BY <1>5 DEF Made, Shows, Adapter
      <4>. QED BY <4>1, <4>2 DEF CallKnown
    <3>2. i \in Nat /\ lim <= i + 1 /\ i + 1 \in Nat
      BY Numbers
    <3>3. e = Stopped(d, i) /\ Limit(finish, i, lim) = i + 1
      BY <2>1 DEF Limit
    <3> HIDE DEF e
    <3>4. Made(s, Stopped(d, i), got2, i + 1, "open", No, i + 1) /\ StoppedTo(d.state, Stopped(d, i).state, i)
      BY <1>5, <3>1, <3>2, MakesStopped DEF SentTo, Over
    <3>. QED BY <1>5, <3>3, <3>4 DEF StoppedTo, SentTo, Frame, Over
  <2>2. CASE finish # "tool_calls"
    <3>1. e = d /\ Limit(finish, i, lim) = lim
      BY <2>2 DEF Limit
    <3>. QED BY <1>5, <3>1 DEF Frame, SentTo
  <2>. QED BY <2>1, <2>2
<1> HIDE DEF e
<1>7. \A j \in Calls : j # i => e.state.call[j] = r.state.call[j]
  BY <1>2, <1>3, <1>4, <1>5, <1>6 DEF Frame, AppliedTo, StartedTo, SentTo
<1>8. Settled(e.state, i + 1)
  <2>1. Even(e.state)
    <3>1. Even(r.state)
      BY DEF Settled
    <3>. QED BY <1>4, <1>5, <1>6, <1>7, <3>1 DEF Even, StartedTo, SentTo
  <2>2. i + 1 > 0
    BY Numbers
  <2>. QED BY <1>6, <2>1, <2>2 DEF Settled, Over, Pausing
<1>9. e.state.call[i].named = (r.state.call[i].named \/ part.named)
  BY <1>2, <1>3, <1>4, <1>5, <1>6 DEF AppliedTo, StartedTo, SentTo
<1>10. Named(e.state) = Named(r.state) \cup Naming(i, part.named)
  BY <1>7, <1>9 DEF Named, Naming
<1>. QED BY <1>1, <1>6, <1>8, <1>10 DEF got2, AskDone

-----------------------------------------------------------------------------
(* The parts of a chunk *)

Asked(f, r, got, parts, finish, len) ==
  f = [n \in 0..len |->
         IF n = 0 THEN r
         ELSE Asks(f[n - 1], parts[n], More(got, parts[n].index, parts[n].args), finish)]

\* The folds of the model are defined for every number of steps.
LEMMA AskedExists ==
  ASSUME NEW r, NEW got, NEW parts, NEW finish, NEW len \in Nat
  PROVE  \E f : Asked(f, r, got, parts, finish, len)
<1> DEFINE T == {n \in Nat : ~ \E f : Asked(f, r, got, parts, finish, n)}
<1>1. SUFFICES ASSUME T # {} PROVE FALSE
  OBVIOUS
<1>2. T \subseteq Nat
  OBVIOUS
<1> HIDE DEF T
<1>3. PICK m \in T : \A k \in T : m <= k
  BY <1>1, <1>2, LeastNatural
<1>4. m \in Nat /\ ~ \E f : Asked(f, r, got, parts, finish, m)
  BY DEF T
<1>5. m # 0
  <2>1. Asked([n \in 0..0 |-> r], r, got, parts, finish, 0)
    BY DEF Asked
  <2>. QED BY <1>4, <2>1
<1>6. m - 1 \in Nat /\ m - 1 \notin T
  BY <1>3, <1>4, <1>5
<1>7. PICK f : Asked(f, r, got, parts, finish, m - 1)
  BY <1>6 DEF T
<1> DEFINE next(x, n) == Asks(x, parts[n], More(got, parts[n].index, parts[n].args), finish)
           g == [n \in 0..m |-> IF n < m THEN f[n] ELSE next(f[m - 1], m)]
<1>8. \A n \in 0..(m - 1) : f[n] = IF n = 0 THEN r ELSE next(f[n - 1], n)
  BY <1>7 DEF Asked
<1> HIDE DEF next
<1>9. ASSUME NEW n \in 0..m PROVE g[n] = IF n = 0 THEN r ELSE next(g[n - 1], n)
  <2>1. CASE n = 0
    <3>1. 0 \in 0..(m - 1) /\ 0 < m
      BY <1>4, <1>5
    <3>. QED BY <1>8, <2>1, <3>1
  <2>2. CASE n # 0 /\ n < m
    <3>1. n \in 0..(m - 1) /\ n - 1 \in 0..m /\ n - 1 < m
      BY <1>4, <2>2
    <3>2. g[n] = f[n] /\ g[n - 1] = f[n - 1]
      BY <2>2, <3>1
    <3>. QED BY <1>8, <2>2, <3>1, <3>2
  <2>3. CASE n = m
    <3>1. m - 1 \in 0..m /\ m - 1 < m /\ ~(m < m)
      BY <1>4, <1>5
    <3>2. g[m] = next(f[m - 1], m) /\ g[m - 1] = f[m - 1]
      BY <2>3, <3>1
    <3>. QED BY <1>5, <2>3, <3>2
  <2>. QED BY <1>4, <2>1, <2>2, <2>3
<1>10. Asked(g, r, got, parts, finish, m)
  <2>1. g = [n \in 0..m |-> IF n = 0 THEN r ELSE next(g[n - 1], n)]
    <3>1. g = [n \in 0..m |-> g[n]]
      OBVIOUS
    <3> HIDE DEF g
    <3>. QED BY <1>9, <3>1
  <2> HIDE DEF g
  <2>. QED BY <2>1 DEF Asked, next
<1>. QED BY <1>4, <1>10

\* What has come, been heard of, been named and is over after n parts.
GotBy(got, parts, n) ==
  [s \in Sources |-> got[s] + IF \E k \in 1..n : s = Call(parts[k].index) /\ parts[k].args
                                THEN 1 ELSE 0]

HeardBy(heard, parts, n) == IF n = 0 THEN heard ELSE parts[n].index + 1

LimBy(parts, finish, n) == IF n = 0 \/ finish # "tool_calls" THEN 0 ELSE parts[n].index + 1

NamedBy(names, parts, n) ==
  names \cup {i \in Calls : \E k \in 1..n : parts[k].index = i /\ parts[k].named}

\* What the server keeps to.
Fit(got, heard, parts) ==
  /\ parts \in [1..Len(parts) -> Part] /\ Len(parts) \in Nat
  /\ \A m, n \in 1..Len(parts) : m < n => parts[m].index < parts[n].index
  /\ \A n \in 1..Len(parts) : /\ parts[n].args => got[Call(parts[n].index)] < MaxPieces
                              /\ heard <= parts[n].index + 1

LEMMA GotByNone ==
  ASSUME NEW got \in Counts, NEW parts
  PROVE  GotBy(got, parts, 0) = got
<1>1. \A s \in Sources : GotBy(got, parts, 0)[s] = got[s]
  BY DEF GotBy, Counts
<1>. QED BY <1>1 DEF GotBy, Counts

LEMMA GotByType ==
  ASSUME NEW got \in Counts, NEW heard, NEW parts, Fit(got, heard, parts), NEW n \in 0..Len(parts)
  PROVE  GotBy(got, parts, n) \in Counts
<1>1. SUFFICES ASSUME NEW s \in Sources PROVE GotBy(got, parts, n)[s] \in 0..MaxPieces
  BY DEF GotBy, Counts
<1>2. got[s] \in 0..MaxPieces /\ MaxPieces \in Nat /\ Len(parts) \in Nat
  BY Numbers DEF Counts, Fit
<1>3. CASE \E k \in 1..n : s = Call(parts[k].index) /\ parts[k].args
  <2>1. PICK k \in 1..n : s = Call(parts[k].index) /\ parts[k].args
    BY <1>3
  <2>2. k \in 1..Len(parts)
    BY <1>2
  <2>3. got[s] < MaxPieces
    BY <2>1, <2>2 DEF Fit
  <2>4. GotBy(got, parts, n)[s] = got[s] + 1
    BY <1>3 DEF GotBy
  <2>. QED BY <1>2, <2>3, <2>4
<1>4. CASE ~ \E k \in 1..n : s = Call(parts[k].index) /\ parts[k].args
  <2>1. GotBy(got, parts, n)[s] = got[s] + 0
    BY <1>4 DEF GotBy
  <2>. QED BY <1>2, <2>1
<1>. QED BY <1>3, <1>4

LEMMA GotByNext ==
  ASSUME NEW got \in Counts, NEW heard, NEW parts, Fit(got, heard, parts), NEW n \in 1..Len(parts),
         NEW i \in Calls, i = parts[n].index
  PROVE  /\ GotBy(got, parts, n - 1)[Call(i)] = got[Call(i)]
         /\ Got(GotBy(got, parts, n - 1), i, parts[n].args) = GotBy(got, parts, n)
<1>1. Len(parts) \in Nat /\ Call(i) \in Sources
  BY SourcesDiffer DEF Fit
<1>2. \A k \in 1..(n - 1) : k \in 1..Len(parts) /\ k < n
  BY <1>1
<1>3. \A k \in 1..(n - 1) : parts[k].index \in Calls /\ parts[k].index < i
  BY <1>2 DEF Fit, Part
<1>4. \A k \in 1..(n - 1) : Call(parts[k].index) # Call(i)
  <2>1. \A j \in Calls : ~(j < j)
    BY Numbers
  <2>. QED BY <1>3, <2>1, SourcesDiffer
<1>5. GotBy(got, parts, n - 1)[Call(i)] = got[Call(i)]
  BY <1>1, <1>4 DEF GotBy, Counts
<1> DEFINE a == GotBy(got, parts, n - 1)
           b == Got(a, i, parts[n].args)
           c == GotBy(got, parts, n)
<1>6. DOMAIN a = Sources /\ DOMAIN b = Sources /\ DOMAIN c = Sources
  BY DEF GotBy, Got
<1>7. ASSUME NEW s \in Sources PROVE b[s] = c[s]
  <2>1. \A k \in 1..n : k \in 1..(n - 1) \/ k = n
    BY <1>1
  <2>2. \A k \in 1..(n - 1) : k \in 1..n
    BY <1>1
  <2>3. n \in 1..n
    BY <1>1
  <2>4. CASE s = Call(i)
    <3>1. (\E k \in 1..n : s = Call(parts[k].index) /\ parts[k].args) <=> parts[n].args
      BY <1>4, <2>1, <2>3, <2>4
    <3>2. c[s] = got[s] + IF parts[n].args THEN 1 ELSE 0
      BY <3>1 DEF GotBy
    <3>3. b[s] = a[s] + IF parts[n].args THEN 1 ELSE 0
      BY <1>6, <2>4 DEF Got
    <3>. QED BY <1>5, <2>4, <3>2, <3>3
  <2>5. CASE s # Call(i)
    <3>1. (\E k \in 1..n : s = Call(parts[k].index) /\ parts[k].args)
            <=> \E k \in 1..(n - 1) : s = Call(parts[k].index) /\ parts[k].args
      BY <2>1, <2>2, <2>5
    <3>2. c[s] = a[s]
      BY <3>1 DEF GotBy
    <3>3. b[s] = a[s]
      BY <1>6, <2>5 DEF Got
    <3>. QED BY <3>2, <3>3
  <2>. QED BY <2>4, <2>5
<1>8. b = c
  <2>1. b = [s \in Sources |-> b[s]] /\ c = [s \in Sources |-> c[s]]
    BY <1>6 DEF GotBy, Got
  <2> HIDE DEF b, c
  <2>. QED BY <1>7, <2>1
<1>. QED BY <1>5, <1>8

\* What is true after n parts.
AfterParts(s, r, got, heard, names, parts, finish, n) ==
  /\ Made(s, r, GotBy(got, parts, n), HeardBy(heard, parts, n), "open", No, LimBy(parts, finish, n))
  /\ Settled(r.state, HeardBy(heard, parts, n))
  /\ Named(r.state) = NamedBy(names, parts, n)

LEMMA MakesParts ==
  ASSUME NEW s, NEW r, NEW got \in Counts, NEW heard \in Nat, NEW parts, NEW finish, NEW f,
         Made(s, r, got, heard, "open", No, 0), Settled(r.state, heard), Fit(got, heard, parts),
         Asked(f, r, got, parts, finish, Len(parts))
  PROVE  AfterParts(s, f[Len(parts)], got, heard, Named(r.state), parts, finish, Len(parts))
<1> DEFINE len == Len(parts)
           names == Named(r.state)
           T == {n \in 0..len : ~AfterParts(s, f[n], got, heard, names, parts, finish, n)}
<1>1. len \in Nat
  BY DEF Fit
<1>2. T \subseteq Nat /\ (T = {} => AfterParts(s, f[len], got, heard, names, parts, finish, len))
  BY <1>1
<1>3. SUFFICES ASSUME T # {} PROVE FALSE
  BY <1>2
<1> HIDE DEF T
<1>4. PICK n \in T : \A k \in T : n <= k
  BY <1>2, <1>3, LeastNatural
<1>5. n \in 0..len /\ ~AfterParts(s, f[n], got, heard, names, parts, finish, n)
  BY DEF T
<1>6. n # 0
  <2>1. 0 \in 0..len
    BY <1>1
  <2>2. f[0] = r
    BY <2>1 DEF Asked
  <2>3. GotBy(got, parts, 0) = got
    BY GotByNone
  <2>4. HeardBy(heard, parts, 0) = heard /\ LimBy(parts, finish, 0) = 0
    BY DEF HeardBy, LimBy
  <2>5. NamedBy(names, parts, 0) = names
    BY DEF NamedBy
  <2> HIDE DEF names
  <2>6. AfterParts(s, f[0], got, heard, names, parts, finish, 0)
    BY <2>2, <2>3, <2>4, <2>5 DEF AfterParts, names
  <2>. QED BY <1>5, <2>6
<1>7. n \in 1..len /\ n - 1 \in 0..len /\ n \in Nat
  BY <1>1, <1>5, <1>6
<1>8. n - 1 \notin T
  BY <1>4, <1>7
<1>9. AfterParts(s, f[n - 1], got, heard, names, parts, finish, n - 1)
  BY <1>7, <1>8 DEF T
<1>10. parts[n] \in Part
  BY <1>7 DEF Fit
<1>11. PICK i \in Calls : i = parts[n].index
  BY <1>10 DEF Part
<1> DEFINE args == parts[n].args
           g1 == GotBy(got, parts, n - 1)
           h1 == HeardBy(heard, parts, n - 1)
           l1 == LimBy(parts, finish, n - 1)
           q == f[n - 1]
<1>12. g1[Call(i)] = got[Call(i)] /\ Got(g1, i, args) = GotBy(got, parts, n) /\ g1 \in Counts
  BY <1>7, <1>11, GotByNext, GotByType
<1>13. h1 \in Nat /\ h1 <= i + 1 /\ l1 \in Nat /\ l1 <= i
  <2>1. i \in Nat /\ 0 <= i /\ heard <= i + 1
    BY <1>7, <1>11, Numbers DEF Fit
  <2>2. CASE n - 1 = 0
    BY <2>1, <2>2 DEF HeardBy, LimBy
  <2>3. CASE n - 1 # 0
    <3>1. n - 1 \in 1..len /\ n - 1 < n
      BY <1>1, <1>7, <2>3
    <3>2. parts[n - 1].index < i /\ parts[n - 1].index \in Calls
      BY <1>7, <1>11, <3>1 DEF Fit, Part
    <3>3. PICK j \in Nat : j = parts[n - 1].index
      BY <3>2, Numbers
    <3>4. h1 = j + 1 /\ (l1 = 0 \/ l1 = j + 1)
      BY <2>3, <3>3 DEF HeardBy, LimBy
    <3>5. j < i
      BY <3>2, <3>3
    <3>. QED BY <2>1, <3>3, <3>4, <3>5
  <2>. QED BY <2>2, <2>3
<1>14. f[n] = Asks(q, parts[n], More(got, i, args), finish)
  BY <1>6, <1>7, <1>11 DEF Asked
<1>15. More(got, i, args) = More(g1, i, args)
  BY <1>12 DEF More
<1>16. parts[n].args => g1[Call(i)] < MaxPieces
  <2>1. parts[n].args => got[Call(i)] < MaxPieces
    BY <1>7, <1>11 DEF Fit
  <2> HIDE DEF g1
  <2>. QED BY <1>12, <2>1
<1>17. /\ Made(s, q, g1, h1, "open", No, l1) /\ Settled(q.state, h1)
       /\ Named(q.state) = NamedBy(names, parts, n - 1)
  BY <1>9 DEF AfterParts
<1> HIDE DEF g1, h1, l1, q, args
<1>18. /\ Made(s, f[n], Got(g1, i, args), i + 1, "open", No, Limit(finish, i, l1))
       /\ Settled(f[n].state, i + 1)
       /\ Named(f[n].state) = Named(q.state) \cup Naming(i, parts[n].named)
  <2>1. f[n] = Asks(q, parts[n], More(g1, i, parts[n].args), finish)
    BY <1>14, <1>15 DEF args
  <2>2. PICK part \in Part : part = parts[n]
    BY <1>10
  <2>3. i = part.index /\ (part.args => g1[Call(i)] < MaxPieces)
    BY <1>11, <1>16, <2>2
  <2>4. AskReady(s, q, g1, h1, l1, part, i)
    BY <1>12, <1>13, <1>17, <2>3 DEF AskReady
  <2>5. AskDone(s, q, Asks(q, part, More(g1, i, part.args), finish), g1, Limit(finish, i, l1), part, i)
    BY <2>4, MakesAsks
  <2>. QED BY <2>1, <2>2, <2>5 DEF args, AskDone
<1>19. HeardBy(heard, parts, n) = i + 1
  BY <1>6, <1>11 DEF HeardBy
<1>20. Limit(finish, i, l1) = LimBy(parts, finish, n)
  BY <1>6, <1>11 DEF Limit, LimBy, l1
<1>21. NamedBy(names, parts, n) = NamedBy(names, parts, n - 1) \cup Naming(i, parts[n].named)
  <2>1. \A k \in 1..n : k \in 1..(n - 1) \/ k = n
    BY <1>7
  <2>2. n \in 1..n /\ \A k \in 1..(n - 1) : k \in 1..n
    BY <1>7
  <2> HIDE DEF names
  <2>. QED BY <1>11, <2>1, <2>2 DEF NamedBy, Naming
<1> HIDE DEF names
<1>22. AfterParts(s, f[n], got, heard, names, parts, finish, n)
  BY <1>12, <1>17, <1>18, <1>19, <1>20, <1>21 DEF AfterParts
<1>. QED BY <1>5, <1>22

-----------------------------------------------------------------------------
(* The calls end, one after the other *)

Stopping(f, r) ==
  /\ f[0] = r
  /\ \A n \in 1..MaxCalls : Even(f[n - 1].state) => f[n] = Stopped(f[n - 1], n - 1)

\* What does not change when calls end.
Ending(st, st2) ==
  /\ st2.begun /\ Even(st2) /\ st2.thinking = st.thinking /\ st2.thought = st.thought
  /\ st2.text = st.text /\ Named(st2) = Named(st)

StoppedUpTo(s, r, r2, got, heard, over, n) ==
  /\ Made(s, r2, got, heard, "open", over, MaxCalls) /\ Ending(r.state, r2.state)
  /\ \A i \in Calls : i < n /\ r2.state.call[i].started => r2.state.call[i].stopped

LEMMA MakesStopping ==
  ASSUME NEW s, NEW r, NEW got, NEW heard, NEW over, NEW lim \in Nat, NEW f,
         Made(s, r, got, heard, "open", over, lim), lim <= MaxCalls,
         r.state.begun, Even(r.state), Stopping(f, r)
  PROVE  StoppedUpTo(s, r, f[MaxCalls], got, heard, over, MaxCalls)
<1> DEFINE T == {n \in 0..MaxCalls : ~StoppedUpTo(s, r, f[n], got, heard, over, n)}
<1>1. MaxCalls \in Nat
  BY Numbers
<1>2. T \subseteq Nat /\ (T = {} => StoppedUpTo(s, r, f[MaxCalls], got, heard, over, MaxCalls))
  BY <1>1
<1>3. SUFFICES ASSUME T # {} PROVE FALSE
  BY <1>2
<1> HIDE DEF T
<1>4. PICK n \in T : \A k \in T : n <= k
  BY <1>2, <1>3, LeastNatural
<1>5. n \in 0..MaxCalls /\ ~StoppedUpTo(s, r, f[n], got, heard, over, n)
  BY DEF T
<1>6. n # 0
  <2>1. f[0] = r
    BY DEF Stopping
  <2>2. Made(s, r, got, heard, "open", over, MaxCalls)
    BY <1>1, MadeWeaker
  <2>3. \A i \in Calls : ~(i < 0)
    BY Numbers
  <2>4. Ending(r.state, r.state)
    BY DEF Ending
  <2>5. StoppedUpTo(s, r, f[0], got, heard, over, 0)
    BY <2>1, <2>2, <2>3, <2>4 DEF StoppedUpTo
  <2>. QED BY <1>5, <2>5
<1>7. n \in 1..MaxCalls /\ n - 1 \in 0..MaxCalls /\ n - 1 \in Calls /\ n - 1 \notin T
  BY <1>1, <1>4, <1>5, <1>6 DEF Calls
<1>8. PICK q : q = f[n - 1]
  OBVIOUS
<1>a. PICK j \in Calls : j = n - 1
  BY <1>7
<1>9. StoppedUpTo(s, r, q, got, heard, over, j)
  BY <1>7, <1>8, <1>a DEF T
<1>10. /\ Made(s, q, got, heard, "open", over, MaxCalls) /\ Ending(r.state, q.state)
       /\ \A i \in Calls : i < j /\ q.state.call[i].started => q.state.call[i].stopped
  BY <1>9 DEF StoppedUpTo
<1>11. f[n] = Stopped(q, j)
  BY <1>7, <1>8, <1>a, <1>10 DEF Stopping, Ending
<1>12. Made(s, f[n], got, heard, "open", over, MaxCalls) /\ StoppedTo(q.state, f[n].state, j)
  <2>1. \A i \in Calls : q.state.call[i].started => i < MaxCalls
    BY Numbers
  <2>2. q.state.begun /\ MaxCalls <= MaxCalls
    BY <1>1, <1>10 DEF Ending
  <2>3. Made(s, Stopped(q, j), got, heard, "open", over, MaxCalls)
        /\ StoppedTo(q.state, Stopped(q, j).state, j)
    BY <1>1, <1>10, <2>1, <2>2, MakesStopped
  <2>. QED BY <1>11, <2>3
<1>13. Ending(r.state, f[n].state)
  BY <1>10, <1>12 DEF Ending, StoppedTo, Frame, Even, Named
<1>14. \A i \in Calls : i < n /\ f[n].state.call[i].started => f[n].state.call[i].stopped
  <2>1. \A i \in Calls : i < n => i < j \/ i = j
    BY <1>7, <1>a, Numbers
  <2>. QED BY <1>10, <1>12, <2>1 DEF StoppedTo, Frame
<1>15. StoppedUpTo(s, r, f[n], got, heard, over, n)
  BY <1>12, <1>13, <1>14 DEF StoppedUpTo
<1>. QED BY <1>5, <1>15

Endings(f, r, len) == f = [n \in 0..len |-> IF n = 0 THEN r ELSE Stopped(f[n - 1], n - 1)]

LEMMA EndingsExist ==
  ASSUME NEW r, NEW len \in Nat
  PROVE  \E f : Endings(f, r, len)
<1> DEFINE T == {n \in Nat : ~ \E f : Endings(f, r, n)}
<1>1. SUFFICES ASSUME T # {} PROVE FALSE
  OBVIOUS
<1>2. T \subseteq Nat
  OBVIOUS
<1> HIDE DEF T
<1>3. PICK m \in T : \A k \in T : m <= k
  BY <1>1, <1>2, LeastNatural
<1>4. m \in Nat /\ ~ \E f : Endings(f, r, m)
  BY DEF T
<1>5. m # 0
  <2>1. Endings([n \in 0..0 |-> r], r, 0)
    BY DEF Endings
  <2>. QED BY <1>4, <2>1
<1>6. m - 1 \in Nat /\ m - 1 \notin T
  BY <1>3, <1>4, <1>5
<1>7. PICK f : Endings(f, r, m - 1)
  BY <1>6 DEF T
<1> DEFINE next(x, n) == Stopped(x, n - 1)
           g == [n \in 0..m |-> IF n < m THEN f[n] ELSE next(f[m - 1], m)]
<1>8. \A n \in 0..(m - 1) : f[n] = IF n = 0 THEN r ELSE next(f[n - 1], n)
  BY <1>7 DEF Endings
<1> HIDE DEF next
<1>9. ASSUME NEW n \in 0..m PROVE g[n] = IF n = 0 THEN r ELSE next(g[n - 1], n)
  <2>1. CASE n = 0
    <3>1. 0 \in 0..(m - 1) /\ 0 < m
      BY <1>4, <1>5
    <3>. QED BY <1>8, <2>1, <3>1
  <2>2. CASE n # 0 /\ n < m
    <3>1. n \in 0..(m - 1) /\ n - 1 \in 0..m /\ n - 1 < m
      BY <1>4, <2>2
    <3>2. g[n] = f[n] /\ g[n - 1] = f[n - 1]
      BY <2>2, <3>1
    <3>. QED BY <1>8, <2>2, <3>1, <3>2
  <2>3. CASE n = m
    <3>1. m - 1 \in 0..m /\ m - 1 < m /\ ~(m < m)
      BY <1>4, <1>5
    <3>2. g[m] = next(f[m - 1], m) /\ g[m - 1] = f[m - 1]
      BY <2>3, <3>1
    <3>. QED BY <1>5, <2>3, <3>2
  <2>. QED BY <1>4, <2>1, <2>2, <2>3
<1>10. Endings(g, r, m)
  <2>1. g = [n \in 0..m |-> IF n = 0 THEN r ELSE next(g[n - 1], n)]
    <3>1. g = [n \in 0..m |-> g[n]]
      OBVIOUS
    <3> HIDE DEF g
    <3>. QED BY <1>9, <3>1
  <2> HIDE DEF g
  <2>. QED BY <2>1 DEF Endings, next
<1>. QED BY <1>4, <1>10

Closed(f, r, len) ==
  f = [n \in 0..len |->
         IF n = 0 THEN r ELSE Stopped(Sent(Started(f[n - 1], n - 1), n - 1), n - 1)]

LEMMA ClosedExists ==
  ASSUME NEW r, NEW len \in Nat
  PROVE  \E f : Closed(f, r, len)
<1> DEFINE T == {n \in Nat : ~ \E f : Closed(f, r, n)}
<1>1. SUFFICES ASSUME T # {} PROVE FALSE
  OBVIOUS
<1>2. T \subseteq Nat
  OBVIOUS
<1> HIDE DEF T
<1>3. PICK m \in T : \A k \in T : m <= k
  BY <1>1, <1>2, LeastNatural
<1>4. m \in Nat /\ ~ \E f : Closed(f, r, m)
  BY DEF T
<1>5. m # 0
  <2>1. Closed([n \in 0..0 |-> r], r, 0)
    BY DEF Closed
  <2>. QED BY <1>4, <2>1
<1>6. m - 1 \in Nat /\ m - 1 \notin T
  BY <1>3, <1>4, <1>5
<1>7. PICK f : Closed(f, r, m - 1)
  BY <1>6 DEF T
<1> DEFINE next(x, n) == Stopped(Sent(Started(x, n - 1), n - 1), n - 1)
           g == [n \in 0..m |-> IF n < m THEN f[n] ELSE next(f[m - 1], m)]
<1>8. \A n \in 0..(m - 1) : f[n] = IF n = 0 THEN r ELSE next(f[n - 1], n)
  BY <1>7 DEF Closed
<1> HIDE DEF next
<1>9. ASSUME NEW n \in 0..m PROVE g[n] = IF n = 0 THEN r ELSE next(g[n - 1], n)
  <2>1. CASE n = 0
    <3>1. 0 \in 0..(m - 1) /\ 0 < m
      BY <1>4, <1>5
    <3>. QED BY <1>8, <2>1, <3>1
  <2>2. CASE n # 0 /\ n < m
    <3>1. n \in 0..(m - 1) /\ n - 1 \in 0..m /\ n - 1 < m
      BY <1>4, <2>2
    <3>2. g[n] = f[n] /\ g[n - 1] = f[n - 1]
      BY <2>2, <3>1
    <3>. QED BY <1>8, <2>2, <3>1, <3>2
  <2>3. CASE n = m
    <3>1. m - 1 \in 0..m /\ m - 1 < m /\ ~(m < m)
      BY <1>4, <1>5
    <3>2. g[m] = next(f[m - 1], m) /\ g[m - 1] = f[m - 1]
      BY <2>3, <3>1
    <3>. QED BY <1>5, <2>3, <3>2
  <2>. QED BY <1>4, <2>1, <2>2, <2>3
<1>10. Closed(g, r, m)
  <2>1. g = [n \in 0..m |-> IF n = 0 THEN r ELSE next(g[n - 1], n)]
    <3>1. g = [n \in 0..m |-> g[n]]
      OBVIOUS
    <3> HIDE DEF g
    <3>. QED BY <1>9, <3>1
  <2> HIDE DEF g
  <2>. QED BY <2>1 DEF Closed, next
<1>. QED BY <1>4, <1>10


\* The reply has no more than up to here to say of its calls.
EndLim(finish) == IF finish = "none" THEN 0 ELSE MaxCalls

CallsDone(s, r, r2, got, heard, finish) ==
  /\ Made(s, r2, got, heard, "open", No, EndLim(finish)) /\ Settled(r2.state, heard)
  /\ Named(r2.state) = Named(r.state)

LEMMA MakesCallsEnd ==
  ASSUME NEW s, NEW r, NEW got, NEW heard, NEW lim \in Nat, NEW finish,
         Made(s, r, got, heard, "open", No, lim), lim <= MaxCalls, Settled(r.state, heard),
         finish # "tool_calls" => lim = 0
  PROVE  CallsDone(s, r, CallsEnd(r, finish), got, heard, finish)
<1>1. CASE finish = "tool_calls"
  <2> DEFINE f == CHOOSE f : Endings(f, r, MaxCalls)
  <2>1. MaxCalls \in Nat /\ MaxCalls \in 0..MaxCalls
    BY Numbers
  <2>2. Endings(f, r, MaxCalls)
    BY <2>1, EndingsExist
  <2>3. CallsEnd(r, finish) = f[MaxCalls]
    BY <1>1 DEF CallsEnd, Endings
  <2> HIDE DEF f
  <2>4. Stopping(f, r)
    <3>1. f[0] = r
      BY <2>1, <2>2 DEF Endings
    <3>2. ASSUME NEW n \in 1..MaxCalls PROVE f[n] = Stopped(f[n - 1], n - 1)
      <4>1. n \in 0..MaxCalls /\ n # 0
        BY <2>1
      <4>. QED BY <2>2, <4>1 DEF Endings
    <3>. QED BY <3>1, <3>2 DEF Stopping
  <2>5. StoppedUpTo(s, r, f[MaxCalls], got, heard, No, MaxCalls)
    BY <2>4, MakesStopping DEF Settled
  <2>6. EndLim(finish) = MaxCalls
    BY <1>1 DEF EndLim
  <2>7. CallsDone(s, r, f[MaxCalls], got, heard, finish)
    <3>1. Made(s, f[MaxCalls], got, heard, "open", No, MaxCalls) /\ Ending(r.state, f[MaxCalls].state)
      BY <2>5 DEF StoppedUpTo
    <3>. QED BY <2>6, <3>1 DEF CallsDone, Ending, Settled, Pausing
  <2>. QED BY <2>3, <2>7
<1>2. CASE finish # "tool_calls"
  <2>1. CallsEnd(r, finish) = r
    BY <1>2 DEF CallsEnd
  <2>2. EndLim(finish) \in Nat /\ lim <= EndLim(finish)
    BY <1>2, Numbers DEF EndLim
  <2>3. Made(s, r, got, heard, "open", No, EndLim(finish))
    BY <2>2, MadeWeaker
  <2>. QED BY <2>1, <2>3 DEF CallsDone
<1>. QED BY <1>1, <1>2

\* What has been made when the body ends.
EndOf(begun) == IF begun THEN "closed" ELSE "none"

AtOf(begun) == IF begun THEN "open" ELSE "none"

AllStopped(st) ==
  /\ Even(st) /\ (st.thinking => st.thought)
  /\ \A i \in Calls : st.call[i].started => st.call[i].stopped

FinishDone(s, r, r2, got, heard) ==
  /\ Made(s, r2, got, heard, EndOf(r2.state.begun), Yes, MaxCalls) /\ AllStopped(r2.state)
  /\ Named(r2.state) = Named(r.state)

\* The fold of finish over the calls, from what is made before.
Rest(r, a) ==
  LET calls[n \in 0..MaxCalls] ==
        IF n = 0 THEN a ELSE Stopped(Sent(Started(calls[n - 1], n - 1), n - 1), n - 1)
  IN  calls[MaxCalls]

\* Between the chunks the end has no call to start and nothing of one to send.
LEMMA ClosedStops ==
  ASSUME NEW f, NEW r, Closed(f, r, MaxCalls)
  PROVE  Stopping(f, r)
<1>1. MaxCalls \in Nat
  BY Numbers
<1>2. f[0] = r
  BY <1>1 DEF Closed
<1>3. ASSUME NEW n \in 1..MaxCalls, Even(f[n - 1].state) PROVE f[n] = Stopped(f[n - 1], n - 1)
  <2>1. n \in 0..MaxCalls /\ n # 0 /\ n - 1 \in Calls
    BY <1>1 DEF Calls
  <2>2. PICK q : q = f[n - 1]
    OBVIOUS
  <2>3. PICK j \in Calls : j = n - 1
    BY <2>1
  <2>4. f[n] = Stopped(Sent(Started(q, j), j), j)
    BY <2>1, <2>2, <2>3, <1>1 DEF Closed
  <2>5. /\ q.state.call[j].started = q.state.call[j].named
        /\ q.state.call[j].started => q.state.call[j].unsent = <<>>
    BY <1>3, <2>2 DEF Even
  <2>6. Started(q, j) = q
    BY <2>5 DEF Started
  <2>7. Sent(q, j) = q
    BY <2>5 DEF Sent
  <2>. QED BY <2>2, <2>3, <2>4, <2>6, <2>7
<1>. QED BY <1>2, <1>3 DEF Stopping

LEMMA MakesRest ==
  ASSUME NEW s, NEW r, NEW a, NEW got, NEW heard,
         Made(s, a, got, heard, "open", Yes, MaxCalls), Over(a.state), Even(a.state)
  PROVE  StoppedUpTo(s, a, Rest(r, a), got, heard, Yes, MaxCalls)
<1> DEFINE f == CHOOSE f : Closed(f, a, MaxCalls)
<1>1. MaxCalls \in Nat
  BY Numbers
<1>2. Closed(f, a, MaxCalls)
  BY <1>1, ClosedExists
<1>3. Rest(r, a) = f[MaxCalls]
  BY DEF Rest, Closed
<1> HIDE DEF f
<1>4. Stopping(f, a) /\ MaxCalls <= MaxCalls /\ a.state.begun
  BY <1>1, <1>2, ClosedStops DEF Over
<1>. QED BY <1>1, <1>3, <1>4, MakesStopping

\* The text ends.
LEMMA MakesTextOver ==
  ASSUME NEW s, NEW r, NEW a, NEW got, NEW heard, NEW lim \in Nat,
         Made(s, a, got, heard, "open", No, lim), lim <= MaxCalls,
         a.state.text = r.state.text, a.state.thinking = r.state.thinking
  PROVE  LET b == IF r.state.text THEN Stop(a, TextIndex(r)) ELSE a IN
         Made(s, b, got, heard, "open", Yes, MaxCalls) /\ b.state = a.state
<1> DEFINE st == a.state
           ev == a.events
           e == Ev("stop", Tx(st), Nothing, <<>>)
<1>1. a = Res(st, ev) /\ st \in States /\ ev \in Seq(Event) /\ a.state = st
  BY DEF Made
<1>2. PICK t, del : Shows(s, st, ev, got, del, heard, "open", No, lim, t)
  BY DEF Made
<1>3. TextIndex(r) = Tx(st)
  BY DEF TextIndex, Tx
<1>4. MaxCalls \in Nat /\ \A i \in Calls : i < MaxCalls
  BY Numbers
<1>5. r.state.text = st.text
  OBVIOUS
<1> HIDE DEF st, ev
<1>6. CASE ~st.text
  <2>1. Made(s, a, got, heard, "open", Yes, MaxCalls)
    BY <1>1, <1>4, <1>6, MadeWeaker
  <2>. QED BY <1>5, <1>6, <2>1
<1>7. CASE st.text
  <2>1. /\ Path(s, ev, t) /\ Adapter(st, got, del, heard) /\ Readers(t, st, del, "open", No, lim)
        /\ \A i \in Calls : st.call[i].stopped => i < lim
    BY <1>2 DEF Shows
  <2>2. del \in Counts
    BY <2>1 DEF Adapter
  <2>3. Proper(t, e) /\ Readers(After(t, e), st, del, "open", Yes, MaxCalls)
    BY <1>1, <1>4, <1>7, <2>1, <2>2, StopsText
  <2>4. e \in Event
    BY <1>1, Indices, EventType
  <2>5. Stop(a, Tx(st)) = Res(st, Append(ev, e))
    BY <1>1, ResIs DEF Stop
  <2>6. Made(s, Res(st, Append(ev, e)), got, heard, "open", Yes, MaxCalls)
    BY <1>1, <1>4, <2>1, <2>3, <2>4, MadeMore
  <2>. QED BY <1>1, <1>3, <1>5, <1>7, <2>5, <2>6, ResIs
<1>. QED BY <1>6, <1>7

\* Nothing ends that has not begun.
LEMMA RestOfNone ==
  ASSUME NEW r, \A i \in Calls : ~r.state.call[i].started, Even(r.state)
  PROVE  Rest(r, r) = r
<1> DEFINE f == CHOOSE f : Closed(f, r, MaxCalls)
<1>1. MaxCalls \in Nat
  BY Numbers
<1>2. Closed(f, r, MaxCalls)
  BY <1>1, ClosedExists
<1>3. Rest(r, r) = f[MaxCalls]
  BY DEF Rest, Closed
<1> HIDE DEF f
<1>4. Stopping(f, r)
  BY <1>2, ClosedStops
<1> DEFINE T == {n \in 0..MaxCalls : f[n] # r}
<1>5. SUFFICES ASSUME T # {} PROVE FALSE
  BY <1>1, <1>3
<1>6. T \subseteq Nat
  OBVIOUS
<1> HIDE DEF T
<1>7. PICK n \in T : \A k \in T : n <= k
  BY <1>5, <1>6, LeastNatural
<1>8. n \in 0..MaxCalls /\ f[n] # r
  BY DEF T
<1>9. n # 0
  BY <1>4, <1>8 DEF Stopping
<1>10. n \in 1..MaxCalls /\ n - 1 \in 0..MaxCalls /\ n - 1 \in Calls /\ n - 1 \notin T
  BY <1>1, <1>7, <1>8, <1>9 DEF Calls
<1>11. f[n - 1] = r
  BY <1>10 DEF T
<1>13. f[n] = Stopped(r, n - 1)
  BY <1>4, <1>10, <1>11 DEF Stopping
<1>14. Stopped(r, n - 1) = r
  BY <1>10 DEF Stopped
<1>. QED BY <1>8, <1>13, <1>14

LEMMA MakesFinished ==
  ASSUME NEW s, NEW r, NEW got, NEW heard, NEW lim \in Nat,
         Made(s, r, got, heard, AtOf(r.state.begun), No, lim), lim <= MaxCalls, Even(r.state)
  PROVE  FinishDone(s, r, Finished(r), got, heard)
<1> DEFINE a == Thought(r)
           b == IF r.state.text THEN Stop(a, TextIndex(r)) ELSE a
           c == Rest(r, b)
<1>1. MaxCalls \in Nat
  BY Numbers
<1>2. Finished(r) = IF r.state.begun THEN Put(c, "end", 0, Nothing, <<>>) ELSE c
  BY DEF Finished, Rest
<1>3. CASE r.state.begun
  <2>1. Made(s, r, got, heard, "open", No, lim)
    BY <1>3 DEF AtOf
  <2>2. /\ Made(s, a, got, heard, "open", No, lim) /\ a.state.begun
        /\ a.state.text = r.state.text /\ a.state.call = r.state.call
        /\ a.state.thinking = r.state.thinking /\ (a.state.thinking => a.state.thought)
    BY <1>3, <2>1, MakesThought
  <2> HIDE DEF a
  <2>3. Made(s, b, got, heard, "open", Yes, MaxCalls) /\ b.state = a.state
    BY <2>2, MakesTextOver
  <2>4. Over(b.state) /\ Even(b.state)
    BY <2>2, <2>3 DEF Over, Even
  <2> HIDE DEF b
  <2>5. StoppedUpTo(s, b, c, got, heard, Yes, MaxCalls)
    BY <2>3, <2>4, MakesRest
  <2> HIDE DEF c
  <2> DEFINE st == c.state
             ev == c.events
             e == Ev("end", 0, Nothing, <<>>)
  <2>6. /\ Made(s, c, got, heard, "open", Yes, MaxCalls) /\ Ending(b.state, st)
        /\ \A i \in Calls : st.call[i].started => st.call[i].stopped
    BY <2>5, Numbers DEF StoppedUpTo
  <2>7. c = Res(st, ev) /\ st \in States /\ ev \in Seq(Event)
    BY <2>6 DEF Made
  <2>8. PICK t, del : Shows(s, st, ev, got, del, heard, "open", Yes, MaxCalls, t)
    BY <2>6 DEF Made
  <2> HIDE DEF st, ev
  <2>9. /\ Path(s, ev, t) /\ Adapter(st, got, del, heard) /\ Readers(t, st, del, "open", Yes, MaxCalls)
        /\ \A i \in Calls : st.call[i].stopped => i < MaxCalls
    BY <2>8 DEF Shows
  <2>10. AllStopped(st) /\ st.begun
    BY <2>2, <2>3, <2>6 DEF Ending, AllStopped
  <2>11. Proper(t, e) /\ Readers(After(t, e), st, del, "closed", Yes, MaxCalls)
    BY <1>1, <2>7, <2>9, <2>10, Ends DEF AllStopped
  <2>12. Made(s, Res(st, Append(ev, e)), got, heard, "closed", Yes, MaxCalls)
    BY <2>7, <2>9, <2>11, EventType, MadeMore
  <2>13. Finished(r) = Res(st, Append(ev, e))
    BY <1>2, <1>3, <2>7, ResIs
  <2>14. Named(st) = Named(r.state)
    BY <2>2, <2>3, <2>6 DEF Ending, Named
  <2>15. EndOf(st.begun) = "closed"
    BY <2>10 DEF EndOf
  <2>16. Finished(r).state = st
    BY <2>13, ResIs
  <2>. QED BY <2>10, <2>12, <2>13, <2>14, <2>15, <2>16 DEF FinishDone
<1>4. CASE ~r.state.begun
  <2>1. Made(s, r, got, heard, "none", No, lim)
    BY <1>4 DEF AtOf
  <2>2. PICK del : Adapter(r.state, got, del, heard)
    BY <2>1 DEF Made, Shows
  <2>3. r.state = Fresh
    BY <1>4, <2>2 DEF Adapter
  <2>4. /\ ~r.state.thinking /\ ~r.state.text
        /\ \A i \in Calls : ~r.state.call[i].started /\ ~r.state.call[i].named
    BY <2>3 DEF Fresh, NoCall
  <2>5. Made(s, r, got, heard, "none", Yes, MaxCalls)
    BY <1>1, <2>1, <2>4, MadeWeaker
  <2>6. a = r
    BY <2>4 DEF Thought
  <2>7. b = r
    BY <2>4, <2>6
  <2>8. c = r
    <3> HIDE DEF a, b
    <3>1. Rest(r, r) = r
      BY <2>4, RestOfNone
    <3>. QED BY <2>7, <3>1
  <2>9. Finished(r) = r
    <3> HIDE DEF a, b, c
    <3>. QED BY <1>2, <1>4, <2>8
  <2>10. AllStopped(r.state)
    BY <2>4 DEF AllStopped, Even
  <2>11. EndOf(r.state.begun) = "none"
    BY <1>4 DEF EndOf
  <2>. QED BY <2>5, <2>9, <2>10, <2>11 DEF FinishDone
<1>. QED BY <1>3, <1>4

-----------------------------------------------------------------------------
(* The invariant *)

\* After a reason to finish no more will come of any call.
LimOf(srv) == IF srv.finished THEN MaxCalls ELSE 0

\* Before the body ends: reading what is pending shows what the server sent.
Ready(n, st, ev, srv) ==
  /\ Made(n, Res(st, ev), srv.sent, srv.begun, AtOf(st.begun), No, LimOf(srv))
  /\ Even(st) /\ Pausing(st, srv.begun) /\ srv.named = Named(st)

\* After it: reading what is pending shows all of it, and that it has ended.
AllSaid(n, st, ev, srv) ==
  /\ Made(n, Res(st, ev), srv.sent, srv.begun, EndOf(st.begun), Yes, MaxCalls)
  /\ AllStopped(st) /\ srv.named = Named(st)

Server == [sent : Counts, named : SUBSET Calls, begun : 0..MaxCalls, finished : BOOLEAN]

IInv ==
  /\ server \in Server /\ pending \in Seq(Event)
  /\ line \in {"open", "closed", "done", "answered", "failed"}
  /\ cli \in CliState
  /\ line \in {"done", "answered", "failed"} => pending = <<>>
  /\ line = "open" => Ready(Now, state, pending, server)
  /\ line \in {"closed", "done"} => AllSaid(Now, state, pending, server)
  /\ line = "answered" => CliCallsAreWhole /\ ShownIsSaid

\* What a request begins with.
Start == Snap([i \in 0..MaxCalls + 1 |-> Blocks!Unbegun], "none", Unread, <<>>,
              [calls |-> <<>>, text |-> <<>>])

LEMMA StartReaders == Readers(Start, Fresh, Zero, "none", No, 0)
<1> DEFINE b == [i \in 0..MaxCalls + 1 |-> Blocks!Unbegun]
           d == [calls |-> <<>>, text |-> <<>>]
<1>1. From(Text, 1, 0) = <<>> /\ Zero[Text] = 0
  <2>1. From(Text, 0 + 1, 0) = <<>>
    BY FromEmpty, SourcesDiffer
  <2>. QED BY <2>1, SourcesDiffer DEF Zero
<1>2. /\ ~Fresh.text /\ ~Fresh.thinking /\ ~Fresh.thought
      /\ \A i \in Calls : ~Fresh.call[i].started
  BY DEF Fresh, NoCall
<1>3. /\ Start.block = b /\ Start.message = "none" /\ Start.cli = Unread /\ Start.shown = <<>>
      /\ Start.desk = d
  BY DEF Start, Snap
<1>4. BlocksAgree(b, Fresh, No)
  <2>1. Blocks!Unbegun \in Block
    BY DEF Blocks!Unbegun, Block, Pieces
  <2>2. b \in [Idx -> Block] /\ \A k \in Idx : b[k] = Blocks!Unbegun
    BY <2>1 DEF Idx
  <2> HIDE DEF b
  <2>. QED BY <1>2, <2>2 DEF BlocksAgree
<1>5. DeskAgrees(d, Fresh.call, Off(Fresh), Zero)
  BY <1>1, <1>2 DEF DeskAgrees, Pieces
<1>6. CliAgrees(Unread, Fresh.call, Zero, 0)
  <2>1. Unread \in CliState /\ Unread.events = <<>> /\ Unread.slot = Nothing
    BY DEF Unread, CliState, Pieces
  <2>2. TextOf(<<>>) = From(Text, 1, Zero[Text])
    BY <1>1, TextOfNone
  <2>3. CliSaid(<<>>, Nothing, Fresh.call, Zero, 0)
    BY <2>2 DEF CliSaid
  <2>. QED BY <1>2, <2>1, <2>3 DEF CliAgrees
<1> HIDE DEF b, d
<1>. QED BY <1>1, <1>3, <1>4, <1>5, <1>6 DEF Readers

LEMMA StartReady == Silent \in Server /\ Ready(Start, Fresh, <<>>, Silent)
<1>1. Zero \in Counts /\ MaxCalls \in Nat
  BY Numbers DEF Zero, Counts
<1>2. Silent.sent = Zero /\ Silent.begun = 0 /\ Silent.named = {} /\ Silent \in Server
  BY <1>1 DEF Silent, Zero, Server
<1>3. /\ Fresh \in States /\ ~Fresh.begun /\ ~Fresh.text /\ ~Fresh.thinking /\ ~Fresh.thought
      /\ \A i \in Calls : Fresh.call[i] = NoCall
  BY DEF Fresh, States, NoCall, CallState, Pieces
<1>4. Adapter(Fresh, Zero, Zero, 0)
  <2>1. Zero[Text] = 0 /\ \A i \in Calls : Zero[Call(i)] = 0
    BY SourcesDiffer DEF Zero
  <2>2. ASSUME NEW i \in Calls PROVE CallKnown(Fresh.call[i], i, Zero, Zero, 0)
    <3>1. From(Call(i), 0 + 1, 0) = <<>>
      BY FromEmpty, SourcesDiffer
    <3>. QED BY <1>3, <2>1, <3>1 DEF CallKnown, NoCall
  <2>. QED BY <1>1, <1>3, <2>1, <2>2 DEF Adapter
<1>5. \A i \in Calls : ~Fresh.call[i].stopped /\ ~Fresh.call[i].started /\ ~Fresh.call[i].named
  BY <1>3 DEF NoCall
<1>6. Made(Start, Res(Fresh, <<>>), Zero, 0, "none", No, 0)
  <2>1. <<>> \in Seq(Event) /\ Path(Start, <<>>, Start)
    BY PathEmpty
  <2>. QED BY <1>4, <1>5, <2>1, StartReaders, MadeIs
<1>7. Silent.finished = FALSE
  BY DEF Silent
<1>8. LimOf(Silent) = 0 /\ AtOf(Fresh.begun) = "none"
  BY <1>3, <1>7 DEF LimOf, AtOf
<1>9. Even(Fresh) /\ Pausing(Fresh, 0) /\ Named(Fresh) = {}
  <2>1. \A i \in Calls : Fresh.call[i].started = Fresh.call[i].named
    <3>1. NoCall.started = NoCall.named
      BY DEF NoCall
    <3>. QED BY <1>3, <3>1
  <2>2. Even(Fresh)
    BY <1>5, <2>1 DEF Even
  <2>3. Named(Fresh) = {}
    BY <1>5 DEF Named
  <2>. QED BY <1>3, <2>2, <2>3 DEF Pausing
<1>. QED BY <1>2, <1>6, <1>8, <1>9 DEF Ready

-----------------------------------------------------------------------------
(* A chunk *)

LEMMA PartsAre ==
  ASSUME NEW parts \in Parts
  PROVE  /\ parts \in [1..Len(parts) -> Part] /\ Len(parts) \in Nat /\ DOMAIN parts = 1..Len(parts)
         /\ \A m, n \in 1..Len(parts) : m < n => parts[m].index < parts[n].index
         /\ parts = <<>> <=> Len(parts) = 0
<1>1. PICK n \in 0..MaxCalls : parts \in [1..n -> Part]
  BY DEF Parts
<1>2. \A m, k \in DOMAIN parts : m < k => parts[m].index < parts[k].index
  BY DEF Parts
<1>3. n \in Nat /\ DOMAIN parts = 1..n
  BY <1>1
<1>4. parts \in Seq(Part)
  BY <1>1, <1>3
<1>5. Len(parts) = n
  BY <1>3, <1>4, LenProperties
<1>6. parts = <<>> <=> Len(parts) = 0
  BY <1>4, EmptySeq
<1>. QED BY <1>1, <1>2, <1>3, <1>5, <1>6

\* A chunk is the composition of the adapter's operators.
LEMMA ChunkIs ==
  ASSUME NEW reasons, NEW says, NEW parts, NEW finish, Len(parts) \in Nat,
         Chunk(reasons, says, parts, finish)
  PROVE  LET r0 == Begun(Res(state, <<>>))
             r1 == IF reasons THEN Reasons(r0, From(Thinking, server.sent[Thinking] + 1,
                                                    server.sent[Thinking] + 1)) ELSE r0
             r2 == IF says THEN Says(r1, From(Text, server.sent[Text] + 1, server.sent[Text] + 1))
                   ELSE r1
         IN  \E f : /\ Asked(f, r2, server.sent, parts, finish, Len(parts))
                    /\ state' = CallsEnd(f[Len(parts)], finish).state
                    /\ pending' = CallsEnd(f[Len(parts)], finish).events
<1> DEFINE r0 == Begun(Res(state, <<>>))
           r1 == IF reasons THEN Reasons(r0, From(Thinking, server.sent[Thinking] + 1,
                                                  server.sent[Thinking] + 1)) ELSE r0
           r2 == IF says THEN Says(r1, From(Text, server.sent[Text] + 1, server.sent[Text] + 1))
                 ELSE r1
           f == CHOOSE f : Asked(f, r2, server.sent, parts, finish, Len(parts))
<1>1. /\ state' = CallsEnd(f[Len(parts)], finish).state
      /\ pending' = CallsEnd(f[Len(parts)], finish).events
  BY DEF Chunk, Asked, Piece, More, Res
<1> HIDE DEF r2
<1>2. Asked(f, r2, server.sent, parts, finish, Len(parts))
  BY AskedExists
<1> HIDE DEF f
<1>. QED BY <1>1, <1>2 DEF r2

\* Reasoning and text of a chunk, before its parts.
Counted(got, s, there) == IF there THEN [got EXCEPT ![s] = @ + 1] ELSE got

\* The state and the events after them.
WithText(r, got, reasons, says) ==
  LET r1 == IF reasons THEN Reasons(r, From(Thinking, got[Thinking] + 1, got[Thinking] + 1)) ELSE r
  IN  IF says THEN Says(r1, From(Text, got[Text] + 1, got[Text] + 1)) ELSE r1

BothReady(s, r, got, heard, reasons, says) ==
  /\ got \in Counts /\ heard \in Nat /\ Made(s, r, got, heard, "open", No, 0)
  /\ Settled(r.state, heard)
  /\ reasons => heard = 0 /\ got[Text] = 0 /\ got[Thinking] < MaxPieces
  /\ says => got[Text] < MaxPieces

BothDone(s, r, r2, got, g2, heard) ==
  /\ Made(s, r2, g2, heard, "open", No, 0) /\ Settled(r2.state, heard)
  /\ Named(r2.state) = Named(r.state)
  /\ g2 \in Counts /\ \A i \in Calls : g2[Call(i)] = got[Call(i)]

LEMMA MakesBoth ==
  ASSUME NEW s, NEW r, NEW got, NEW heard, NEW reasons, NEW says,
         BothReady(s, r, got, heard, reasons, says)
  PROVE  BothDone(s, r, WithText(r, got, reasons, says), got,
                  Counted(Counted(got, Thinking, reasons), Text, says), heard)
<1> DEFINE r1 == IF reasons THEN Reasons(r, From(Thinking, got[Thinking] + 1, got[Thinking] + 1))
                 ELSE r
           r2 == IF says THEN Says(r1, From(Text, got[Text] + 1, got[Text] + 1)) ELSE r1
           g1 == Counted(got, Thinking, reasons)
           g2 == Counted(g1, Text, says)
<1>a. /\ got \in Counts /\ heard \in Nat /\ Made(s, r, got, heard, "open", No, 0)
      /\ Settled(r.state, heard)
      /\ reasons => heard = 0 /\ got[Text] = 0 /\ got[Thinking] < MaxPieces
      /\ says => got[Text] < MaxPieces
  BY DEF BothReady
<1>1. 0 \in Nat /\ MaxPieces \in Nat /\ got[Thinking] \in 0..MaxPieces /\ got[Text] \in 0..MaxPieces
  BY <1>a, SourcesDiffer, Numbers DEF Counts
<1>2. /\ Made(s, r1, g1, heard, "open", No, 0) /\ Settled(r1.state, heard)
      /\ Named(r1.state) = Named(r.state)
      /\ g1 \in Counts /\ g1[Text] = got[Text] /\ \A i \in Calls : g1[Call(i)] = got[Call(i)]
  <2>1. CASE reasons
    <3>1. Made(s, r, got, 0, "open", No, 0) /\ Settled(r.state, 0) /\ heard = 0
      BY <1>a, <2>1
    <3>2. g1 = [got EXCEPT ![Thinking] = @ + 1]
      BY <2>1 DEF Counted
    <3>3. g1 \in Counts /\ g1[Text] = got[Text] /\ \A i \in Calls : g1[Call(i)] = got[Call(i)]
      <4> HIDE DEF g1, g2, r1, r2
      <4>1. got[Thinking] + 1 \in 0..MaxPieces
        BY <1>1, <1>a, <2>1
      <4>2. g1 \in Counts
        BY <1>a, <3>2, <4>1 DEF Counts
      <4>3. \A x \in Sources : x # Thinking => g1[x] = got[x]
        BY <1>a, <3>2 DEF Counts
      <4>. QED BY <4>2, <4>3, SourcesDiffer
    <3>4. r1 = Reasons(r, From(Thinking, got[Thinking] + 1, got[Thinking] + 1))
      BY <2>1
    <3> HIDE DEF g1, r1
    <3>5. /\ Made(s, r1, g1, 0, "open", No, 0) /\ Settled(r1.state, 0)
          /\ Named(r1.state) = Named(r.state)
      BY <1>1, <1>a, <2>1, <3>1, <3>2, <3>4, MakesReasons
    <3>. QED BY <3>1, <3>3, <3>5
  <2>2. CASE ~reasons
    <3>1. r1 = r /\ g1 = got
      BY <2>2 DEF Counted
    <3> HIDE DEF r1, g1
    <3>. QED BY <1>a, <3>1
  <2>. QED BY <2>1, <2>2
<1> HIDE DEF r1, g1
<1>3. /\ Made(s, r2, g2, heard, "open", No, 0) /\ Settled(r2.state, heard)
      /\ Named(r2.state) = Named(r1.state)
      /\ g2 \in Counts /\ \A i \in Calls : g2[Call(i)] = g1[Call(i)]
  <2>1. CASE says
    <3>1. g2 = [g1 EXCEPT ![Text] = @ + 1] /\ g1[Text] < MaxPieces
      BY <1>2, <1>a, <2>1 DEF Counted
    <3>2. g2 \in Counts /\ \A i \in Calls : g2[Call(i)] = g1[Call(i)]
      BY <1>1, <1>2, <3>1, SourcesDiffer DEF Counts
    <3>3. r2 = Says(r1, From(Text, g1[Text] + 1, g1[Text] + 1))
      BY <1>2, <2>1
    <3> HIDE DEF r2, g2
    <3>4. /\ Made(s, r2, g2, heard, "open", No, 0) /\ Settled(r2.state, heard)
          /\ Named(r2.state) = Named(r1.state)
      BY <1>1, <1>2, <3>1, <3>3, MakesSays
    <3>. QED BY <3>2, <3>4
  <2>2. CASE ~says
    <3>1. r2 = r1 /\ g2 = g1
      BY <2>2 DEF Counted
    <3> HIDE DEF r2, g2
    <3>. QED BY <1>2, <3>1
  <2>. QED BY <2>1, <2>2
<1> HIDE DEF r2, g2
<1>4. \A i \in Calls : g2[Call(i)] = got[Call(i)]
  BY <1>2, <1>3
<1>5. Named(r2.state) = Named(r.state)
  BY <1>2, <1>3
<1>6. BothDone(s, r, r2, got, g2, heard)
  BY <1>3, <1>4, <1>5 DEF BothDone
<1>. QED BY <1>6 DEF r2, g2, r1, g1, WithText

\* The pieces of the calls do not depend on what else came.
LEMMA AskedSame ==
  ASSUME NEW f, NEW r, NEW got, NEW g, NEW parts, NEW finish,
         Len(parts) \in Nat, parts \in [1..Len(parts) -> Part],
         \A i \in Calls : g[Call(i)] = got[Call(i)],
         Asked(f, r, got, parts, finish, Len(parts))
  PROVE  Asked(f, r, g, parts, finish, Len(parts))
<1> DEFINE len == Len(parts)
           x(n) == IF n = 0 THEN r
                   ELSE Asks(f[n - 1], parts[n], More(got, parts[n].index, parts[n].args), finish)
           y(n) == IF n = 0 THEN r
                   ELSE Asks(f[n - 1], parts[n], More(g, parts[n].index, parts[n].args), finish)
<1>1. ASSUME NEW n \in 0..len PROVE x(n) = y(n)
  <2>1. CASE n = 0
    BY <2>1
  <2>2. CASE n # 0
    <3>1. n \in 1..len
      BY <2>2
    <3>2. parts[n].index \in Calls
      BY <3>1 DEF Part
    <3>3. More(got, parts[n].index, parts[n].args) = More(g, parts[n].index, parts[n].args)
      BY <3>2 DEF More
    <3>. QED BY <3>3
  <2>. QED BY <2>1, <2>2
<1>2. f = [n \in 0..len |-> x(n)]
  BY DEF Asked
<1> HIDE DEF x, y
<1>3. f = [n \in 0..len |-> y(n)]
  BY <1>1, <1>2
<1>. QED BY <1>3 DEF Asked, y

\* What the server says of a chunk, by the counts above.
LEMMA ChunkCounts ==
  ASSUME NEW got \in Counts, NEW reasons, NEW says, NEW parts, Len(parts) \in Nat,
         parts \in [1..Len(parts) -> Part]
  PROVE  GotBy(Counted(Counted(got, Thinking, reasons), Text, says), parts, Len(parts))
           = [s \in Sources |-> got[s] +
                IF \/ s = Thinking /\ reasons
                   \/ s = Text /\ says
                   \/ \E n \in 1..Len(parts) : s = Call(parts[n].index) /\ parts[n].args
                  THEN 1 ELSE 0]
<1> DEFINE g1 == Counted(got, Thinking, reasons)
           g2 == Counted(g1, Text, says)
           part(s) == \E n \in 1..Len(parts) : s = Call(parts[n].index) /\ parts[n].args
           all(s) == (s = Thinking /\ reasons) \/ (s = Text /\ says) \/ part(s)
<1>1. ~part(Thinking) /\ ~part(Text)
  BY SourcesDiffer DEF Part
<1>2. ASSUME NEW s \in Sources
      PROVE  g2[s] + (IF part(s) THEN 1 ELSE 0) = got[s] + (IF all(s) THEN 1 ELSE 0)
  <2>1. /\ got[s] \in Nat
        /\ g1[s] = got[s] + IF s = Thinking /\ reasons THEN 1 ELSE 0
    BY Numbers DEF Counted, Counts
  <2>2. DOMAIN g1 = Sources
    BY DEF Counted, Counts
  <2> HIDE DEF g1
  <2>3. g2[s] = g1[s] + IF s = Text /\ says THEN 1 ELSE 0
    BY <2>1, <2>2 DEF Counted
  <2> HIDE DEF g2, part
  <2>4. CASE s = Thinking
    BY <1>1, <2>1, <2>3, <2>4, SourcesDiffer
  <2>5. CASE s = Text
    BY <1>1, <2>1, <2>3, <2>5, SourcesDiffer
  <2>6. CASE s # Thinking /\ s # Text
    BY <2>1, <2>3, <2>6
  <2>. QED BY <2>4, <2>5, <2>6
<1> HIDE DEF g2
<1>3. GotBy(g2, parts, Len(parts)) = [s \in Sources |-> g2[s] + (IF part(s) THEN 1 ELSE 0)]
  BY DEF GotBy
<1> HIDE DEF part
<1>4. GotBy(g2, parts, Len(parts)) = [s \in Sources |-> got[s] + (IF all(s) THEN 1 ELSE 0)]
  <2> HIDE DEF all
  <2>. QED BY <1>2, <1>3
<1>. QED BY <1>4 DEF part, g2

LEMMA ChunkMakes ==
  ASSUME IInv, ReasonsFirst, NEW reasons, NEW says, NEW parts \in Parts,
         NEW finish, Chunk(reasons, says, parts, finish)
  PROVE  server' \in Server /\ pending' \in Seq(Event) /\ Ready(Now, state', pending', server')
<1> DEFINE got == server.sent
           heard == server.begun
           len == Len(parts)
           r == Res(state, <<>>)
           r0 == Begun(r)
           r2 == WithText(r0, got, reasons, says)
           g2 == Counted(Counted(got, Thinking, reasons), Text, says)
           names == Named(state)
<1>1. /\ line = "open" /\ pending = <<>> /\ Allowed(reasons, says, parts)
      /\ Ready(Now, state, <<>>, server) /\ server \in Server
  BY DEF Chunk, IInv
<1>2. /\ got \in Counts /\ heard \in Nat /\ heard \in 0..MaxCalls /\ server.named = names
      /\ Made(Now, r, got, heard, AtOf(state.begun), No, 0)
      /\ Even(state) /\ Pausing(state, heard)
  <2>1. LimOf(server) = 0
    BY <1>1 DEF Allowed, LimOf
  <2>. QED BY <1>1, <2>1 DEF Ready, Server
<1>3. /\ parts \in [1..len -> Part] /\ len \in Nat /\ DOMAIN parts = 1..len
      /\ \A m, n \in 1..len : m < n => parts[m].index < parts[n].index
      /\ parts = <<>> <=> len = 0
  BY PartsAre
<1>4. PICK f : /\ Asked(f, r2, got, parts, finish, len)
               /\ state' = CallsEnd(f[len], finish).state
               /\ pending' = CallsEnd(f[len], finish).events
  BY <1>3, ChunkIs DEF WithText
<1>5. /\ server'.sent = [s \in Sources |-> got[s] +
                IF \/ s = Thinking /\ reasons
                   \/ s = Text /\ says
                   \/ \E n \in 1..len : s = Call(parts[n].index) /\ parts[n].args
                  THEN 1 ELSE 0]
      /\ server'.named = NamedBy(server.named, parts, len)
      /\ server'.begun = HeardBy(heard, parts, len)
      /\ server'.finished = (finish # "none")
      /\ server' = [sent |-> server'.sent, named |-> server'.named, begun |-> server'.begun,
                    finished |-> server'.finished]
  BY <1>3 DEF Chunk, NamedBy, HeardBy
<1>6. /\ Made(Now, r0, got, heard, "open", No, 0) /\ Settled(r0.state, heard)
      /\ Named(r0.state) = names
  <2>1. r.state = state
    BY ResIs
  <2>2. Made(Now, r, got, heard, IF r.state.begun THEN "open" ELSE "none", No, 0)
    BY <1>2, <2>1 DEF AtOf
  <2>3. Pausing(r.state, heard) /\ Even(r.state)
    BY <1>2, <2>1
  <2> HIDE DEF r
  <2>. QED BY <2>1, <2>2, <2>3, MakesBegin
<1>7. /\ reasons => heard = 0 /\ got[Text] = 0 /\ got[Thinking] < MaxPieces
      /\ says => got[Text] < MaxPieces
  BY <1>1 DEF Allowed, Room
<1> HIDE DEF r0
<1>8. /\ Made(Now, r2, g2, heard, "open", No, 0) /\ Settled(r2.state, heard)
      /\ Named(r2.state) = names
      /\ g2 \in Counts /\ \A i \in Calls : g2[Call(i)] = got[Call(i)]
  <2> HIDE DEF got, heard
  <2>1. BothReady(Now, r0, got, heard, reasons, says)
    BY <1>2, <1>6, <1>7 DEF BothReady
  <2>2. BothDone(Now, r0, r2, got, g2, heard)
    BY <2>1, MakesBoth
  <2> HIDE DEF r2, g2
  <2>. QED BY <1>6, <2>2 DEF BothDone
<1>9. GotBy(g2, parts, len) = server'.sent
  BY <1>2, <1>3, <1>5, ChunkCounts
<1> HIDE DEF r2, g2
<1>10. Asked(f, r2, g2, parts, finish, len)
  BY <1>3, <1>4, <1>8, AskedSame
<1>11. Fit(g2, heard, parts)
  <2>1. ASSUME NEW n \in 1..len
        PROVE  (parts[n].args => g2[Call(parts[n].index)] < MaxPieces) /\ heard <= parts[n].index + 1
    <3>1. parts[n].index \in Calls /\ parts[n].index + 1 \in Nat
      BY <1>3, Numbers DEF Part
    <3>2. parts[n].args => got[Call(parts[n].index)] < MaxPieces
      BY <1>1, <1>3 DEF Allowed, Room
    <3>3. parts[n].index + 1 >= heard
      BY <1>1, <1>3 DEF Allowed
    <3>. QED BY <1>2, <1>8, <3>1, <3>2, <3>3
  <2> HIDE DEF heard
  <2>. QED BY <1>3, <2>1 DEF Fit
<1> DEFINE gp == GotBy(g2, parts, len)
           hp == HeardBy(heard, parts, len)
           lp == LimBy(parts, finish, len)
           r3 == f[len]
           r4 == CallsEnd(r3, finish)
<1>12. /\ Made(Now, r3, gp, hp, "open", No, lp) /\ Settled(r3.state, hp)
       /\ Named(r3.state) = NamedBy(names, parts, len)
  <2> HIDE DEF heard
  <2>1. AfterParts(Now, f[len], g2, heard, Named(r2.state), parts, finish, len)
    BY <1>2, <1>8, <1>10, <1>11, MakesParts
  <2>. QED BY <1>8, <2>1 DEF AfterParts
<1>13. len # 0 => parts[len].index \in Calls
  BY <1>3 DEF Part
<1>14. lp \in Nat /\ lp <= MaxCalls /\ (finish # "tool_calls" => lp = 0)
  BY <1>13, Numbers DEF LimBy
<1>15. hp \in 0..MaxCalls
  BY <1>2, <1>13, Numbers DEF HeardBy
<1>16. gp \in Counts
  <2>1. len \in 0..len
    BY <1>3
  <2> HIDE DEF heard
  <2>. QED BY <1>8, <1>11, <2>1, GotByType
<1> HIDE DEF gp, hp, lp, r3
<1>17. CallsDone(Now, r3, r4, gp, hp, finish)
  BY <1>12, <1>14, MakesCallsEnd
<1> HIDE DEF r4
<1>18. server'.sent = gp /\ server'.begun = hp /\ server'.named = Named(r3.state)
  BY <1>2, <1>5, <1>9, <1>12 DEF gp, hp
<1>19. /\ Made(Now, r4, gp, hp, "open", No, EndLim(finish)) /\ Settled(r4.state, hp)
       /\ Named(r4.state) = Named(r3.state)
  BY <1>17 DEF CallsDone
<1>20. state' = r4.state /\ pending' = r4.events
  BY <1>4 DEF r4, r3
<1>21. r4 = Res(state', pending') /\ pending' \in Seq(Event)
  BY <1>19, <1>20 DEF Made
<1>22. AtOf(state'.begun) = "open" /\ LimOf(server') = EndLim(finish)
  BY <1>5, <1>19, <1>20 DEF Settled, AtOf, LimOf, EndLim
<1>23. Ready(Now, state', pending', server')
  BY <1>18, <1>19, <1>20, <1>21, <1>22 DEF Ready, Settled
<1>24. server' \in Server
  <2>1. server'.named \subseteq Calls
    BY <1>18 DEF Named
  <2>2. server'.finished \in BOOLEAN
    BY <1>5
  <2>. QED BY <1>5, <1>15, <1>16, <1>18, <2>1, <2>2 DEF Server
<1>. QED BY <1>21, <1>23, <1>24

-----------------------------------------------------------------------------
(* The other steps *)

LEMMA CloseMakes ==
  ASSUME IInv, Close
  PROVE  pending' \in Seq(Event) /\ AllSaid(Now, state', pending', server)
<1> DEFINE r == Res(state, <<>>)
           r2 == Finished(r)
           got == server.sent
           heard == server.begun
           lim == LimOf(server)
<1>1. Ready(Now, state, <<>>, server) /\ state' = r2.state /\ pending' = r2.events
  BY DEF Close, IInv, Res
<1>2. r.state = state
  BY ResIs
<1>3. lim \in Nat /\ lim <= MaxCalls
  BY Numbers DEF LimOf
<1>4. /\ Made(Now, r, got, heard, AtOf(r.state.begun), No, lim) /\ Even(r.state)
      /\ server.named = Named(state)
  BY <1>1, <1>2 DEF Ready
<1> HIDE DEF r, got, heard, lim, r2
<1>5. FinishDone(Now, r, r2, got, heard)
  BY <1>3, <1>4, MakesFinished DEF r2
<1>6. /\ Made(Now, r2, got, heard, EndOf(r2.state.begun), Yes, MaxCalls) /\ AllStopped(r2.state)
      /\ Named(r2.state) = Named(r.state)
  BY <1>5 DEF FinishDone
<1>7. r2 = Res(state', pending') /\ pending' \in Seq(Event)
  BY <1>1, <1>6 DEF Made
<1>. QED BY <1>1, <1>2, <1>4, <1>6, <1>7 DEF AllSaid, got, heard

LEMMA MadeRead ==
  ASSUME NEW s, NEW st, NEW ev, NEW got, NEW heard, NEW m, NEW over, NEW lim,
         Made(s, Res(st, ev), got, heard, m, over, lim), ev # <<>>
  PROVE  /\ ev \in Seq(Event) /\ Head(ev) \in Event /\ Tail(ev) \in Seq(Event) /\ Proper(s, Head(ev))
         /\ Made(After(s, Head(ev)), Res(st, Tail(ev)), got, heard, m, over, lim)
<1>1. ev \in Seq(Event) /\ st \in States
  BY ResIs DEF Made
<1>2. PICK t, del : Shows(s, st, ev, got, del, heard, m, over, lim, t)
  BY ResIs DEF Made
<1>3. /\ Path(s, ev, t) /\ Adapter(st, got, del, heard) /\ Readers(t, st, del, m, over, lim)
      /\ \A i \in Calls : st.call[i].stopped => i < lim
  BY <1>2 DEF Shows
<1>4. /\ Head(ev) \in Event /\ Tail(ev) \in Seq(Event) /\ Proper(s, Head(ev))
      /\ Path(After(s, Head(ev)), Tail(ev), t)
  BY <1>1, <1>3, PathHead
<1>5. Made(After(s, Head(ev)), Res(st, Tail(ev)), got, heard, m, over, lim)
  BY <1>3, <1>4, MadeIs
<1>. QED BY <1>1, <1>4, <1>5

LEMMA DeliverReads ==
  ASSUME IInv, Deliver
  PROVE  /\ line \in {"open", "closed"} /\ pending' \in Seq(Event)
         /\ Head(pending) \in Event /\ Proper(Now, Head(pending))
         /\ Now' = After(Now, Head(pending))
         /\ line = "open" => Ready(Now', state, pending', server)
         /\ line = "closed" => AllSaid(Now', state, pending', server)
<1>1. pending # <<>> /\ pending' = Tail(pending) /\ line \in {"open", "closed"}
  BY DEF Deliver, IInv
<1>2. Now' = After(Now, Head(pending))
  BY DEF Deliver, Now, After, Snap
<1>3. CASE line = "open"
  <2>1. Ready(Now, state, pending, server)
    BY <1>3 DEF IInv
  <2>2. Made(Now, Res(state, pending), server.sent, server.begun, AtOf(state.begun), No,
             LimOf(server))
    BY <2>1 DEF Ready
  <2>3. /\ Head(pending) \in Event /\ Tail(pending) \in Seq(Event) /\ Proper(Now, Head(pending))
        /\ Made(After(Now, Head(pending)), Res(state, Tail(pending)), server.sent, server.begun,
                AtOf(state.begun), No, LimOf(server))
    BY <1>1, <2>2, MadeRead
  <2>4. Ready(Now', state, pending', server)
    BY <1>1, <1>2, <2>1, <2>3 DEF Ready
  <2>. QED BY <1>1, <1>2, <1>3, <2>3, <2>4
<1>4. CASE line = "closed"
  <2>1. AllSaid(Now, state, pending, server)
    BY <1>4 DEF IInv
  <2>2. Made(Now, Res(state, pending), server.sent, server.begun, EndOf(state.begun), Yes, MaxCalls)
    BY <2>1 DEF AllSaid
  <2>3. /\ Head(pending) \in Event /\ Tail(pending) \in Seq(Event) /\ Proper(Now, Head(pending))
        /\ Made(After(Now, Head(pending)), Res(state, Tail(pending)), server.sent, server.begun,
                EndOf(state.begun), Yes, MaxCalls)
    BY <1>1, <2>2, MadeRead
  <2>4. AllSaid(Now', state, pending', server)
    BY <1>1, <1>2, <2>1, <2>3 DEF AllSaid
  <2>. QED BY <1>1, <1>2, <1>4, <2>3, <2>4
<1>. QED BY <1>1, <1>3, <1>4

\* The state of consume_stream has its type, whatever is read.
LEMMA CliType ==
  ASSUME NEW c \in CliState, NEW e \in Event
  PROVE  CliReads(c, e) \in CliState
<1>1. /\ e.of \in Sources \cup {Nothing} /\ e.kind \in {"begin", "start", "delta", "stop", "end"}
      /\ e.pieces \in Pieces /\ <<>> \in Pieces
  BY DEF Event, Pieces
<1>2. /\ c.slot \in {Nothing} \cup {Call(i) : i \in Calls} /\ c.input \in Pieces
      /\ c.thinks \in BOOLEAN /\ c.thought \in Pieces /\ c.events \in Seq(Spoken)
  BY DEF CliState
<1>3. \A x \in Sources : \A p \in Pieces :
        /\ [of |-> x, pieces |-> p] \in Spoken
        /\ Append(c.events, [of |-> x, pieces |-> p]) \in Seq(Spoken)
  BY <1>2 DEF Spoken
<1>4. CASE e.kind = "start" /\ e.of = Thinking
  <2>1. Append(c.events, [of |-> Thinking, pieces |-> <<>>]) \in Seq(Spoken)
    BY <1>1, <1>3, SourcesDiffer
  <2>2. CliReads(c, e) = [c EXCEPT !.thinks = TRUE, !.thought = <<>>,
                                   !.events = Append(c.events, [of |-> Thinking, pieces |-> <<>>])]
    BY <1>4, SourcesDiffer DEF CliReads
  <2>. QED BY <1>1, <2>1, <2>2 DEF CliState
<1>5. CASE e.kind = "start" /\ e.of # Thinking
  <2>1. e.of[1] = "call" => \E i \in Calls : e.of = Call(i)
    BY <1>1, SourcesDiffer
  <2>. QED BY <1>1, <1>5, <2>1 DEF CliReads, CliState
<1>6. CASE e.kind = "delta"
  <2>1. \A p \in Pieces : p \o e.pieces \in Pieces
    BY <1>1 DEF Pieces
  <2>2. Append(c.events, [of |-> Text, pieces |-> e.pieces]) \in Seq(Spoken)
    BY <1>1, <1>3, SourcesDiffer
  <2>3. CASE e.of = Text
    BY <1>6, <2>2, <2>3, SourcesDiffer DEF CliReads, CliState
  <2>4. CASE e.of # Text
    BY <1>6, <2>1, <2>4 DEF CliReads, CliState
  <2>. QED BY <2>3, <2>4
<1>7. CASE e.kind = "stop"
  <2> DEFINE thought == IF c.thinks THEN <<[of |-> Thinking, pieces |-> c.thought]>> ELSE <<>>
             call == IF c.slot # Nothing THEN <<[of |-> c.slot, pieces |-> c.input]>> ELSE <<>>
  <2>1. thought \in Seq(Spoken)
    BY <1>2, <1>3, SourcesDiffer
  <2>2. call \in Seq(Spoken)
    <3>1. c.slot # Nothing => c.slot \in Sources
      BY <1>2, SourcesDiffer
    <3>. QED BY <1>2, <1>3, <3>1
  <2>3. CliReads(c, e) = [Unread EXCEPT !.events = c.events \o thought \o call]
    BY <1>7 DEF CliReads, Flushed
  <2> HIDE DEF thought, call
  <2>4. c.events \o thought \o call \in Seq(Spoken)
    BY <1>2, <2>1, <2>2
  <2>. QED BY <1>1, <2>3, <2>4 DEF Unread, CliState
<1>8. CASE e.kind \in {"begin", "end"}
  BY <1>8 DEF CliReads
<1>. QED BY <1>1, <1>4, <1>5, <1>6, <1>7, <1>8

-----------------------------------------------------------------------------
(* The answer that comes whole *)

AnswerText(says) == IF says THEN <<[of |-> Text, pieces |-> From(Text, 1, 1)]>> ELSE <<>>

AnswerCalls(n) == [i \in 1..n |-> [of |-> Call(i - 1), pieces |-> From(Call(i - 1), 1, 1)]]

TextLen(says) == IF says THEN 1 ELSE 0

\* What is not text adds nothing to the text.
LEMMA TextsStay ==
  ASSUME NEW events, NEW f, NEW k \in Nat, NEW len \in Nat, k <= len, Texts(events, f, len),
         \A n \in 1..len : n > k => events[n].of # Text
  PROVE  f[len] = f[k]
<1> DEFINE T == {n \in k..len : f[n] # f[k]}
<1>1. SUFFICES ASSUME T # {} PROVE FALSE
  BY DEF T
<1>2. T \subseteq Nat
  OBVIOUS
<1> HIDE DEF T
<1>3. PICK m \in T : \A n \in T : m <= n
  BY <1>1, <1>2, LeastNatural
<1>4. m \in k..len /\ f[m] # f[k]
  BY DEF T
<1>5. m - 1 \in k..len /\ m - 1 \notin T /\ m \in 0..len /\ m \in 1..len /\ m > k /\ m # 0
  BY <1>3, <1>4
<1>6. f[m - 1] = f[k]
  BY <1>5 DEF T
<1>7. f[m] = f[m - 1]
  BY <1>5 DEF Texts
<1>. QED BY <1>4, <1>6, <1>7

LEMMA AnswerIs ==
  ASSUME NEW says, NEW n \in 0..MaxCalls
  PROVE  LET ev == AnswerText(says) \o AnswerCalls(n)
             k == TextLen(says)
         IN  /\ ev \in Seq(Spoken) /\ Len(ev) = k + n
             /\ \A i \in Calls : i < n =>
                  ev[k + i + 1] = [of |-> Call(i), pieces |-> From(Call(i), 1, 1)]
             /\ says => ev[1] = [of |-> Text, pieces |-> From(Text, 1, 1)]
             /\ \A m \in 1..(k + n) : (says /\ m = 1) \/ \E i \in Calls : i < n /\ m = k + i + 1
             /\ TextOf(ev) = IF says THEN From(Text, 1, 1) ELSE <<>>
<1> DEFINE a == AnswerText(says)
           b == AnswerCalls(n)
           k == TextLen(says)
           ev == a \o b
<1>1. From(Text, 1, 1) \in Pieces /\ \A i \in Calls : From(Call(i), 1, 1) \in Pieces
  <2>1. ASSUME NEW s \in Sources PROVE From(s, 1, 1) \in Pieces
    <3>1. 0 \in Nat /\ 0 + 1 = 1
      OBVIOUS
    <3>. QED BY <3>1, NextPiece
  <2>. QED BY <2>1, SourcesDiffer
<1>2. a \in Seq(Spoken) /\ Len(a) = k
  <2>1. [of |-> Text, pieces |-> From(Text, 1, 1)] \in Spoken
    BY <1>1, SourcesDiffer DEF Spoken
  <2> HIDE DEF a, k
  <2>2. CASE says
    <3>1. a = <<[of |-> Text, pieces |-> From(Text, 1, 1)]>> /\ k = 1
      BY <2>2 DEF a, k, AnswerText, TextLen
    <3>. QED BY <2>1, <3>1
  <2>3. CASE ~says
    <3>1. a = <<>> /\ k = 0
      BY <2>3 DEF a, k, AnswerText, TextLen
    <3>. QED BY <3>1
  <2>. QED BY <2>2, <2>3
<1>3. says => k = 1 /\ a[1] = [of |-> Text, pieces |-> From(Text, 1, 1)]
  BY DEF AnswerText, TextLen
<1>4. n \in Nat /\ \A j \in 1..n : j - 1 \in Calls /\ j - 1 < n
  BY Numbers DEF Calls
<1>5. b \in Seq(Spoken) /\ Len(b) = n
  <2>1. ASSUME NEW j \in 1..n PROVE [of |-> Call(j - 1), pieces |-> From(Call(j - 1), 1, 1)] \in Spoken
    BY <1>1, <1>4, SourcesDiffer DEF Spoken
  <2>2. b \in [1..n -> Spoken]
    BY <2>1 DEF AnswerCalls
  <2> HIDE DEF b
  <2>. QED BY <1>4, <2>2
<1>6. \A i \in Calls : i < n =>
        i + 1 \in 1..n /\ b[i + 1] = [of |-> Call(i), pieces |-> From(Call(i), 1, 1)]
  <2>1. ASSUME NEW i \in Calls, i < n
        PROVE i + 1 \in 1..n /\ b[i + 1] = [of |-> Call(i), pieces |-> From(Call(i), 1, 1)]
    <3>1. PICK j \in 1..n : j = i + 1 /\ j - 1 = i
      BY <1>4, <2>1, Numbers
    <3>2. b[j] = [of |-> Call(j - 1), pieces |-> From(Call(j - 1), 1, 1)]
      BY DEF AnswerCalls
    <3> HIDE DEF b
    <3>. QED BY <3>1, <3>2
  <2>. QED BY <2>1
<1>7. k \in 0..1 /\ (k = 1 <=> says)
  BY DEF TextLen
<1> HIDE DEF a, b, k
<1>8. /\ ev \in Seq(Spoken) /\ Len(ev) = k + n
      /\ \A m \in 1..(k + n) : ev[m] = IF m <= k THEN a[m] ELSE b[m - k]
  BY <1>2, <1>5, ConcatProperties
<1> HIDE DEF ev
<1>9. ASSUME NEW i \in Calls, i < n
      PROVE  ev[k + i + 1] = [of |-> Call(i), pieces |-> From(Call(i), 1, 1)]
  <2>1. PICK m \in 1..(k + n) : m = k + i + 1 /\ ~(m <= k) /\ m - k = i + 1
    BY <1>4, <1>7, <1>9, Numbers
  <2>2. ev[m] = b[i + 1]
    BY <1>8, <2>1
  <2>. QED BY <1>6, <1>9, <2>1, <2>2
<1>10. says => ev[1] = [of |-> Text, pieces |-> From(Text, 1, 1)]
  BY <1>3, <1>4, <1>7, <1>8
<1>11. ASSUME NEW m \in 1..(k + n)
       PROVE  (says /\ m = 1) \/ \E i \in Calls : i < n /\ m = k + i + 1
  <2>1. CASE m <= k
    BY <1>7, <2>1
  <2>2. CASE ~(m <= k)
    <3>1. m - k \in 1..n /\ m = k + (m - k - 1) + 1
      BY <1>4, <1>7, <2>2
    <3>2. m - k - 1 \in Calls /\ m - k - 1 < n
      BY <1>4, <3>1
    <3>. QED BY <3>1, <3>2
  <2>. QED BY <2>1, <2>2
<1>12. TextOf(ev) = IF says THEN From(Text, 1, 1) ELSE <<>>
  <2>1. PICK f : Texts(ev, f, k + n) /\ TextOf(ev) = f[k + n]
    BY <1>4, <1>7, <1>8, TextIs
  <2>2. ASSUME NEW m \in 1..(k + n), m > k PROVE ev[m].of # Text
    <3>1. PICK i \in Calls : i < n /\ m = k + i + 1
      BY <1>7, <1>11, <2>2
    <3>2. ev[m] = [of |-> Call(i), pieces |-> From(Call(i), 1, 1)]
      BY <1>9, <3>1
    <3>. QED BY <3>2, SourcesDiffer
  <2>3. f[k + n] = f[k]
    <3>1. PICK len \in Nat : len = k + n /\ k <= len /\ k \in Nat
      BY <1>4, <1>7
    <3>2. Texts(ev, f, len) /\ \A m \in 1..len : m > k => ev[m].of # Text
      BY <2>1, <2>2, <3>1
    <3>3. f[len] = f[k]
      BY <3>1, <3>2, TextsStay
    <3>. QED BY <3>1, <3>3
  <2>4. 0 \in 0..(k + n) /\ k \in 0..(k + n)
    BY <1>4, <1>7
  <2>5. f[0] = <<>>
    BY <2>1, <2>4 DEF Texts
  <2>6. CASE says
    <3>1. k = 1 /\ 1 \in 0..(k + n) /\ 1 - 1 = 0
      BY <1>7, <2>4, <2>6
    <3>2. f[1] = IF ev[1].of = Text THEN f[1 - 1] \o ev[1].pieces ELSE f[1 - 1]
      BY <2>1, <3>1 DEF Texts
    <3>3. ev[1].of = Text /\ ev[1].pieces = From(Text, 1, 1)
      BY <1>10, <2>6
    <3>4. f[1] = <<>> \o From(Text, 1, 1)
      BY <2>5, <3>1, <3>2, <3>3
    <3>5. <<>> \o From(Text, 1, 1) = From(Text, 1, 1)
      BY <1>1, ConcatEmptySeq DEF Pieces
    <3>. QED BY <2>1, <2>3, <2>6, <3>1, <3>4, <3>5
  <2>7. CASE ~says
    BY <1>7, <2>1, <2>3, <2>5, <2>7
  <2>. QED BY <2>6, <2>7
<1>. QED BY <1>8, <1>9, <1>10, <1>11, <1>12 DEF ev, a, b, k

\* Until the message begins nothing has been printed.
LEMMA NothingShown ==
  ASSUME IInv, line \in {"open", "closed"}, pending = <<>>, message = "none"
  PROVE  shown = <<>>
<1>1. ASSUME NEW m, NEW over, NEW lim, NEW got, NEW heard, state.begun => m # "none",
             Made(Now, Res(state, <<>>), got, heard, m, over, lim)
      PROVE  shown = <<>>
  <2>1. PICK t, del : Shows(Now, state, <<>>, got, del, heard, m, over, lim, t)
    BY <1>1, ResIs DEF Made
  <2>2. /\ Path(Now, <<>>, t) /\ Adapter(state, got, del, heard)
        /\ Readers(t, state, del, m, over, lim)
    BY <2>1 DEF Shows
  <2>3. t = Now
    BY <2>2, PathOfNone
  <2>4. m = "none" /\ shown = From(Text, 1, del[Text])
    BY <2>2, <2>3 DEF Readers, Now, Snap
  <2>5. got = Zero
    BY <1>1, <2>2, <2>4 DEF Adapter
  <2>6. del[Text] = 0
    BY <2>2, <2>5, SourcesDiffer DEF Adapter, Zero
  <2>7. From(Text, 0 + 1, 0) = <<>>
    BY FromEmpty, SourcesDiffer
  <2>. QED BY <2>4, <2>6, <2>7
<1>2. CASE line = "open"
  <2>1. Made(Now, Res(state, <<>>), server.sent, server.begun, AtOf(state.begun), No, LimOf(server))
    BY <1>2 DEF IInv, Ready
  <2>2. state.begun => AtOf(state.begun) # "none"
    BY DEF AtOf
  <2>. QED BY <1>1, <2>1, <2>2
<1>3. CASE line = "closed"
  <2>1. Made(Now, Res(state, <<>>), server.sent, server.begun, EndOf(state.begun), Yes, MaxCalls)
    BY <1>3 DEF IInv, AllSaid
  <2>2. state.begun => EndOf(state.begun) # "none"
    BY DEF EndOf
  <2>. QED BY <1>1, <2>1, <2>2
<1>. QED BY <1>2, <1>3

LEMMA FallbackAnswers ==
  ASSUME IInv, NEW says \in BOOLEAN, NEW n \in 0..MaxCalls, Fallback(says, n)
  PROVE  cli' \in CliState /\ server' \in Server /\ CliCallsAreWhole' /\ ShownIsSaid'
<1> DEFINE ev == AnswerText(says) \o AnswerCalls(n)
           k == TextLen(says)
           said == IF says THEN From(Text, 1, 1) ELSE <<>>
<1>1. cli' = [Unread EXCEPT !.events = ev]
  BY DEF Fallback, AnswerText, AnswerCalls
<1>2. /\ ev \in Seq(Spoken) /\ Len(ev) = k + n
      /\ \A i \in Calls : i < n => ev[k + i + 1] = [of |-> Call(i), pieces |-> From(Call(i), 1, 1)]
      /\ says => ev[1] = [of |-> Text, pieces |-> From(Text, 1, 1)]
      /\ \A m \in 1..(k + n) : (says /\ m = 1) \/ \E i \in Calls : i < n /\ m = k + i + 1
      /\ TextOf(ev) = said
  BY AnswerIs
<1>3. k \in Nat /\ n \in Nat /\ \A i \in Calls : i \in Nat
  BY Numbers DEF TextLen
<1> HIDE DEF ev, k
<1>4. cli' \in CliState /\ cli'.events = ev
  <2>1. Unread \in CliState
    BY DEF Unread, CliState, Pieces
  <2> HIDE DEF said
  <2>2. ev \in Seq(Spoken)
    BY <1>2
  <2>. QED BY <1>1, <2>1, <2>2 DEF CliState
<1>5. DOMAIN ev = 1..(k + n)
  BY <1>2
<1>6. /\ server'.named = 0..n - 1 /\ server'.begun = n /\ server'.finished = TRUE
      /\ server'.sent = [s \in Sources |->
            IF (s = Text /\ says) \/ (\E i \in 1..n : s = Call(i - 1)) THEN 1 ELSE 0]
      /\ server' = [sent |-> server'.sent, named |-> server'.named, begun |-> server'.begun,
                    finished |-> server'.finished]
  BY DEF Fallback, Silent
<1>7. \A i \in Calls : i < n => i \in server'.named /\ server'.sent[Call(i)] = 1
  <2>1. ASSUME NEW i \in Calls, i < n PROVE i \in server'.named /\ server'.sent[Call(i)] = 1
    <3>1. PICK j \in 1..n : j = i + 1 /\ j - 1 = i
      BY <1>3, <2>1
    <3>2. i \in 0..n - 1
      BY <1>3, <2>1
    <3>. QED BY <1>6, <3>1, <3>2, SourcesDiffer
  <2>. QED BY <2>1
<1>8. server'.sent[Text] = IF says THEN 1 ELSE 0
  <2>1. \A i \in 1..n : i - 1 \in Calls
    BY <1>3, Numbers DEF Calls
  <2>2. \A i \in 1..n : Text # Call(i - 1)
    BY <2>1, SourcesDiffer
  <2>. QED BY <1>6, <2>2, SourcesDiffer
<1>9. server' \in Server
  <2>1. server'.sent \in Counts
    BY <1>6, Numbers DEF Counts
  <2>2. 0..n - 1 \subseteq Calls
    BY <1>3, Numbers DEF Calls
  <2>. QED BY <1>6, <2>1, <2>2 DEF Server
<1>10. \A m \in DOMAIN ev : ev[m].of[1] = "call" =>
         \E i \in Calls : i < n /\ m = k + i + 1 /\ ev[m] = [of |-> Call(i), pieces |-> From(Call(i), 1, 1)]
  <2>1. ASSUME NEW m \in 1..(k + n), ev[m].of[1] = "call"
        PROVE  \E i \in Calls : /\ i < n /\ m = k + i + 1
                                /\ ev[m] = [of |-> Call(i), pieces |-> From(Call(i), 1, 1)]
    <3>1. ~(says /\ m = 1)
      BY <1>2, <2>1, SourcesDiffer
    <3>2. PICK i \in Calls : i < n /\ m = k + i + 1
      BY <1>2, <3>1
    <3>3. ev[m] = [of |-> Call(i), pieces |-> From(Call(i), 1, 1)]
      BY <1>2, <3>2
    <3>. QED BY <3>2, <3>3
  <2>. QED BY <1>5, <2>1
<1>11. CliCalls' = {m \in DOMAIN ev : ev[m].of[1] = "call"}
  BY <1>4 DEF CliCalls
<1>12. CliCallsAreWhole'
  <2>1. ASSUME NEW m \in CliCalls'
        PROVE  \E i \in server'.named : ev[m] = [of |-> Call(i), pieces |-> From(Call(i), 1, server'.sent[Call(i)])]
    <3>1. PICK i \in Calls : i < n /\ ev[m] = [of |-> Call(i), pieces |-> From(Call(i), 1, 1)]
      BY <1>10, <1>11
    <3>. QED BY <1>7, <3>1
  <2>2. ASSUME NEW l \in CliCalls', NEW m \in CliCalls', ev[l].of = ev[m].of PROVE l = m
    <3>1. PICK i \in Calls : l = k + i + 1 /\ ev[l] = [of |-> Call(i), pieces |-> From(Call(i), 1, 1)]
      BY <1>10, <1>11
    <3>2. PICK j \in Calls : m = k + j + 1 /\ ev[m] = [of |-> Call(j), pieces |-> From(Call(j), 1, 1)]
      BY <1>10, <1>11
    <3>3. Call(i) = Call(j)
      BY <2>2, <3>1, <3>2
    <3>. QED BY <3>1, <3>2, <3>3, SourcesDiffer
  <2>3. ASSUME server'.named # {} PROVE CliCalls' # {}
    <3>1. n > 0
      BY <1>3, <1>6, <2>3
    <3>2. PICK i \in Calls : i = 0 /\ i < n
      BY <1>3, <3>1, Numbers DEF Calls
    <3>3. PICK m \in 1..(k + n) : m = k + i + 1
      BY <1>3, <3>2
    <3>4. ev[m] = [of |-> Call(i), pieces |-> From(Call(i), 1, 1)]
      BY <1>2, <3>2, <3>3
    <3>5. m \in CliCalls'
      BY <1>5, <1>11, <3>4, SourcesDiffer
    <3>. QED BY <3>5
  <2>4. \A s : Whole(s)' = From(s, 1, server'.sent[s])
    BY DEF Whole
  <2>. QED BY <1>4, <2>1, <2>2, <2>3 DEF CliCallsAreWhole, Whole
<1>13. ShownIsSaid'
  <2>1. shown = <<>>
    BY NothingShown DEF Fallback
  <2>2. From(Text, 0 + 1, 0) = <<>>
    BY FromEmpty, SourcesDiffer
  <2>3. From(Text, 1, 1) \in Pieces
    <3>1. 0 \in Nat /\ 0 + 1 = 1
      OBVIOUS
    <3>. QED BY <3>1, NextPiece, SourcesDiffer
  <2>4. <<>> \o From(Text, 1, 1) = From(Text, 1, 1)
    BY <2>3, ConcatEmptySeq DEF Pieces
  <2>5. shown' = said
    BY <2>1, <2>4 DEF Fallback
  <2>6. Whole(Text)' = said
    BY <1>8, <2>2 DEF Whole
  <2>7. CliText' = said
    BY <1>2, <1>4 DEF CliText
  <2> HIDE DEF said
  <2>. QED BY <2>5, <2>6, <2>7 DEF ShownIsSaid
<1>. QED BY <1>4, <1>9, <1>12, <1>13

-----------------------------------------------------------------------------
(* Every step keeps the invariant *)

LEMMA UnreadType == Unread \in CliState
BY DEF Unread, CliState, Pieces

LEMMA InitSays == Init => IInv
<1> SUFFICES ASSUME Init PROVE IInv
  OBVIOUS
<1>1. /\ server = Silent /\ state = Fresh /\ pending = <<>> /\ line = "open"
      /\ cli = Unread
  BY DEF Init
<1>2. Now = Start
  BY DEF Init, Now, Start, Snap
<1>3. Ready(Now, state, pending, server)
  BY <1>1, <1>2, StartReady
<1>. QED BY <1>1, <1>3, StartReady, UnreadType DEF IInv

LEMMA RequestBegins ==
  ASSUME server' = Silent, state' = Fresh, pending' = <<>>, line' = "open", Now' = Start,
         cli' = Unread
  PROVE  IInv'
<1>1. Ready(Now, state, pending, server)'
  <2>1. Ready(Now', state', pending', server')
    BY StartReady
  <2>. QED BY <2>1 DEF Ready
<1>. QED BY <1>1, StartReady, UnreadType DEF IInv

LEMMA NextSays == ASSUME ReasonsFirst, IInv, [Next]_vars PROVE IInv'
<1>1. CASE UNCHANGED vars
  BY <1>1 DEF vars, IInv, Ready, AllSaid, Now, CliCallsAreWhole, ShownIsSaid, CliCalls, Whole,
              CliText
<1>2. ASSUME NEW reasons \in BOOLEAN, NEW says \in BOOLEAN, NEW parts \in Parts,
             NEW finish \in {"none", "stop", "tool_calls"}, Chunk(reasons, says, parts, finish)
      PROVE  IInv'
  <2>1. server' \in Server /\ pending' \in Seq(Event) /\ Ready(Now, state', pending', server')
    BY <1>2, ChunkMakes
  <2>2. line' = "open" /\ cli' = cli /\ Now' = Now
    BY <1>2 DEF Chunk, Now
  <2>3. Ready(Now, state, pending, server)'
    BY <2>1, <2>2 DEF Ready
  <2>. QED BY <2>1, <2>2, <2>3 DEF IInv
<1>3. CASE Close
  <2>1. pending' \in Seq(Event) /\ AllSaid(Now, state', pending', server)
    BY <1>3, CloseMakes
  <2>2. line' = "closed" /\ cli' = cli /\ Now' = Now /\ server' = server
    BY <1>3 DEF Close, Now
  <2>3. AllSaid(Now, state, pending, server)'
    BY <2>1, <2>2 DEF AllSaid
  <2>. QED BY <2>1, <2>2, <2>3 DEF IInv
<1>4. CASE Break
  BY <1>4 DEF Break, IInv
<1>5. CASE Deliver
  <2>1. /\ line \in {"open", "closed"} /\ pending' \in Seq(Event) /\ Head(pending) \in Event
        /\ line = "open" => Ready(Now', state, pending', server)
        /\ line = "closed" => AllSaid(Now', state, pending', server)
    BY <1>5, DeliverReads
  <2>2. line' = line /\ state' = state /\ server' = server /\ cli' = CliReads(cli, Head(pending))
    BY <1>5 DEF Deliver
  <2>3. line = "open" => Ready(Now, state, pending, server)'
    BY <2>1, <2>2 DEF Ready
  <2>4. line = "closed" => AllSaid(Now, state, pending, server)'
    BY <2>1, <2>2 DEF AllSaid
  <2>5. cli' \in CliState
    BY <2>1, <2>2, CliType DEF IInv
  <2>. QED BY <2>1, <2>2, <2>3, <2>4, <2>5 DEF IInv
<1>6. CASE Stall
  <2>1. message = "none" /\ line = "open" /\ pending = <<>>
    BY <1>6 DEF Stall, MayStall
  <2>2. shown = <<>>
    BY <2>1, NothingShown
  <2>3. Now' = Start
    BY <1>6, <2>2 DEF Stall, Now, Start, Snap
  <2>4. /\ server' = Silent /\ state' = Fresh /\ pending' = <<>> /\ line' = "open"
        /\ cli' = Unread
    BY <1>6, <2>1 DEF Stall
  <2>. QED BY <2>3, <2>4, RequestBegins
<1>7. CASE Complete
  <2>1. AllSaid(Now, state, pending, server)
    BY <1>7 DEF Complete, IInv
  <2>2. /\ line' = "done" /\ pending = <<>> /\ cli' = cli /\ Now' = Now /\ server' = server
        /\ state' = state /\ pending' = pending
    BY <1>7 DEF Complete, Now
  <2>3. AllSaid(Now, state, pending, server)'
    BY <2>1, <2>2 DEF AllSaid
  <2>. QED BY <2>2, <2>3 DEF IInv
<1>8. CASE FallbackFails
  BY <1>8 DEF FallbackFails, IInv
<1>9. CASE NextRequest
  <2>1. Now' = Start
    BY <1>9 DEF NextRequest, Request, Now, Start, Snap
  <2>2. /\ server' = Silent /\ state' = Fresh /\ pending' = <<>> /\ line' = "open"
        /\ cli' = Unread
    BY <1>9 DEF NextRequest, Request
  <2>. QED BY <2>1, <2>2, RequestBegins
<1>10. ASSUME NEW says \in BOOLEAN, NEW n \in 0..MaxCalls, Fallback(says, n) PROVE IInv'
  <2>1. cli' \in CliState /\ server' \in Server /\ CliCallsAreWhole' /\ ShownIsSaid'
    BY <1>10, FallbackAnswers
  <2>2. line' = "answered" /\ pending' = <<>>
    BY <1>10 DEF Fallback
  <2>. QED BY <2>1, <2>2 DEF IInv
<1>. QED BY <1>1, <1>2, <1>3, <1>4, <1>5, <1>6, <1>7, <1>8, <1>9, <1>10 DEF Next

LEMMA ReplyInvariant == ASSUME ReasonsFirst PROVE Spec => []IInv
<1>1. IInv /\ [Next]_vars => IInv'
  BY NextSays
<1>. QED BY InitSays, <1>1, PTL DEF Spec

-----------------------------------------------------------------------------
(* What the invariant says at the end *)

\* All that was sent of what was named has been passed on.
EndsWith(call, del) ==
  /\ BlocksAgree(block, state, Yes) /\ shown = From(Text, 1, del[Text])
  /\ DeskAgrees(desk, call, Off(state), del) /\ CliAgrees(cli, call, del, MaxCalls)
  /\ del[Text] = server.sent[Text]
  /\ \A i \in Calls : /\ call[i].started <=> i \in server.named
                      /\ call[i].started => call[i].stopped /\ del[Call(i)] = server.sent[Call(i)]

LEMMA DoneShows ==
  ASSUME IInv, line = "done"
  PROVE  server.named \subseteq Calls /\ \E del : EndsWith(state.call, del)
<1>1. AllSaid(Now, state, <<>>, server)
  BY DEF IInv
<1>2. /\ Made(Now, Res(state, <<>>), server.sent, server.begun, EndOf(state.begun), Yes, MaxCalls)
      /\ AllStopped(state) /\ server.named = Named(state)
  BY <1>1 DEF AllSaid
<1>3. PICK t, del : Shows(Now, state, <<>>, server.sent, del, server.begun, EndOf(state.begun), Yes,
                          MaxCalls, t)
  BY <1>2, ResIs DEF Made
<1>4. /\ Path(Now, <<>>, t) /\ Adapter(state, server.sent, del, server.begun)
      /\ Readers(t, state, del, EndOf(state.begun), Yes, MaxCalls)
  BY <1>3 DEF Shows
<1>5. t = Now
  BY <1>4, PathOfNone
<1>6. /\ BlocksAgree(block, state, Yes) /\ shown = From(Text, 1, del[Text])
      /\ DeskAgrees(desk, state.call, Off(state), del) /\ CliAgrees(cli, state.call, del, MaxCalls)
  BY <1>4, <1>5 DEF Readers, Now, Snap
<1>7. del[Text] = server.sent[Text] /\ server.sent \in Counts /\ del \in Counts
  BY <1>4 DEF Adapter
<1>8. ASSUME NEW i \in Calls
      PROVE  /\ state.call[i].started <=> i \in server.named
             /\ state.call[i].started =>
                  state.call[i].stopped /\ del[Call(i)] = server.sent[Call(i)]
  <2>1. state.call[i].started <=> i \in server.named
    BY <1>2 DEF AllStopped, Even, Named
  <2>2. ASSUME state.call[i].started
        PROVE state.call[i].stopped /\ del[Call(i)] = server.sent[Call(i)]
    <3>1. state.call[i].stopped /\ state.call[i].unsent = <<>>
      BY <1>2, <2>2 DEF AllStopped, Even
    <3>2. /\ state.call[i].unsent = From(Call(i), del[Call(i)] + 1, server.sent[Call(i)])
          /\ del[Call(i)] <= server.sent[Call(i)]
      BY <1>4 DEF Adapter, CallKnown
    <3>3. del[Call(i)] \in Nat /\ server.sent[Call(i)] \in Nat /\ Call(i) \in Sources
      BY <1>7, SourcesDiffer, Numbers DEF Counts
    <3>4. Len(From(Call(i), del[Call(i)] + 1, server.sent[Call(i)]))
            = server.sent[Call(i)] - del[Call(i)]
      BY <3>2, <3>3, MorePieces
    <3>5. server.sent[Call(i)] - del[Call(i)] = 0
      BY <3>1, <3>2, <3>4
    <3>. QED BY <3>1, <3>3, <3>5
  <2>. QED BY <2>1, <2>2
<1>9. EndsWith(state.call, del)
  BY <1>6, <1>7, <1>8 DEF EndsWith
<1>. QED BY <1>2, <1>9 DEF Named

LEMMA DoneDesktop == ASSUME IInv PROVE DesktopGetsEveryCall
<1>1. SUFFICES ASSUME line = "done"
               PROVE  /\ desk.text = Whole(Text)
                      /\ {<<desk.calls[n].of, desk.calls[n].pieces>> : n \in DOMAIN desk.calls}
                           = {<<Call(i), Whole(Call(i))>> : i \in server.named}
                      /\ \A m, n \in DOMAIN desk.calls :
                           desk.calls[m].of = desk.calls[n].of => m = n
  BY DEF DesktopGetsEveryCall
<1>2. server.named \subseteq Calls
  BY <1>1, DoneShows
<1>3. PICK del : EndsWith(state.call, del)
  BY <1>1, DoneShows
<1>4. /\ desk \in [calls : Seq(DeskCall), text : Pieces]
      /\ desk.text = From(Text, 1, del[Text])
      /\ \A n \in 1..Len(desk.calls) : Kept(desk.calls[n], state.call, Off(state), del)
      /\ \A i \in Calls : state.call[i].started =>
           \E n \in 1..Len(desk.calls) : desk.calls[n].of = Call(i)
      /\ \A m, n \in 1..Len(desk.calls) : desk.calls[m].of = desk.calls[n].of => m = n
  BY <1>3 DEF EndsWith, DeskAgrees
<1>5. DOMAIN desk.calls = 1..Len(desk.calls)
  BY <1>4
<1>6. desk.text = Whole(Text)
  BY <1>3, <1>4 DEF EndsWith, Whole
<1>7. ASSUME NEW n \in DOMAIN desk.calls
      PROVE  \E i \in server.named : desk.calls[n].of = Call(i) /\ desk.calls[n].pieces = Whole(Call(i))
  <2>1. PICK i \in Calls : /\ state.call[i].started /\ desk.calls[n].of = Call(i)
                           /\ desk.calls[n].pieces = From(Call(i), 1, del[Call(i)])
    BY <1>4, <1>5 DEF Kept
  <2>2. i \in server.named /\ del[Call(i)] = server.sent[Call(i)]
    BY <1>3, <2>1 DEF EndsWith
  <2>. QED BY <2>1, <2>2 DEF Whole
<1>8. ASSUME NEW i \in server.named
      PROVE  \E n \in DOMAIN desk.calls :
               desk.calls[n].of = Call(i) /\ desk.calls[n].pieces = Whole(Call(i))
  <2>1. i \in Calls /\ state.call[i].started
    BY <1>2, <1>3 DEF EndsWith
  <2>2. PICK n \in DOMAIN desk.calls : desk.calls[n].of = Call(i)
    BY <1>4, <1>5, <2>1
  <2>3. PICK j \in server.named : desk.calls[n].of = Call(j) /\ desk.calls[n].pieces = Whole(Call(j))
    BY <1>7
  <2>4. i = j
    BY <1>2, <2>1, <2>2, <2>3, SourcesDiffer
  <2>. QED BY <2>2, <2>3, <2>4
<1>9. {<<desk.calls[n].of, desk.calls[n].pieces>> : n \in DOMAIN desk.calls}
        = {<<Call(i), Whole(Call(i))>> : i \in server.named}
  <2> DEFINE A == {<<desk.calls[n].of, desk.calls[n].pieces>> : n \in DOMAIN desk.calls}
             B == {<<Call(i), Whole(Call(i))>> : i \in server.named}
  <2>1. ASSUME NEW x \in A PROVE x \in B
    <3>1. PICK n \in DOMAIN desk.calls : x = <<desk.calls[n].of, desk.calls[n].pieces>>
      OBVIOUS
    <3>. QED BY <1>7, <3>1
  <2>2. ASSUME NEW x \in B PROVE x \in A
    <3>1. PICK i \in server.named : x = <<Call(i), Whole(Call(i))>>
      OBVIOUS
    <3>. QED BY <1>8, <3>1
  <2>. QED BY <2>1, <2>2
<1>. QED BY <1>4, <1>5, <1>6, <1>9

LEMMA DoneCli == ASSUME IInv, line = "done" PROVE CliCallsAreWhole /\ ShownIsSaid
<1>1. server.named \subseteq Calls
  BY DoneShows
<1>2. PICK del : EndsWith(state.call, del)
  BY DoneShows
<1>3. /\ cli \in CliState /\ CliSaid(cli.events, cli.slot, state.call, del, MaxCalls)
      /\ \/ cli.slot = Nothing
         \/ \E i \in Calls : state.call[i].started /\ ~state.call[i].stopped
      /\ (\E i \in Calls : state.call[i].started) => cli.slot # Nothing \/ HasCall(cli.events)
  BY <1>2 DEF EndsWith, CliAgrees
<1>4. cli.slot = Nothing
  BY <1>2, <1>3 DEF EndsWith
<1>5. /\ cli.events \in Seq(Spoken) /\ TextOf(cli.events) = From(Text, 1, del[Text])
      /\ \A n \in 1..Len(cli.events) : IsCall(cli.events[n]) =>
           Flown(cli.events[n], cli.slot, state.call, del, MaxCalls)
      /\ \A m, n \in 1..Len(cli.events) :
           IsCall(cli.events[m]) /\ cli.events[m].of = cli.events[n].of => m = n
  BY <1>3 DEF CliSaid
<1>6. DOMAIN cli.events = 1..Len(cli.events)
  BY <1>5
<1>7. \A n : n \in CliCalls <=> n \in 1..Len(cli.events) /\ IsCall(cli.events[n])
  BY <1>6 DEF CliCalls, IsCall
<1>8. ShownIsSaid
  BY <1>2, <1>5 DEF ShownIsSaid, EndsWith, CliText, Whole
<1>9. ASSUME NEW n \in CliCalls
      PROVE  \E i \in server.named : cli.events[n] = [of |-> Call(i), pieces |-> Whole(Call(i))]
  <2>1. PICK i \in Calls : /\ state.call[i].started /\ cli.events[n].of = Call(i)
                           /\ cli.events[n].pieces = From(Call(i), 1, del[Call(i)])
    BY <1>5, <1>7 DEF Flown
  <2>2. i \in server.named /\ del[Call(i)] = server.sent[Call(i)]
    BY <1>2, <2>1 DEF EndsWith
  <2>3. cli.events[n] \in Spoken
    BY <1>5, <1>7
  <2>4. cli.events[n] = [of |-> cli.events[n].of, pieces |-> cli.events[n].pieces]
    BY <2>3 DEF Spoken
  <2>. QED BY <2>1, <2>2, <2>4 DEF Whole
<1>10. \A m, n \in CliCalls : cli.events[m].of = cli.events[n].of => m = n
  BY <1>5, <1>7
<1>11. server.named # {} => CliCalls # {}
  <2>1. server.named # {} => \E i \in Calls : state.call[i].started
    BY <1>1, <1>2 DEF EndsWith
  <2>. QED BY <1>3, <1>4, <1>7, <2>1 DEF HasCall
<1>. QED BY <1>8, <1>9, <1>10, <1>11 DEF CliCallsAreWhole

\* TypeOK
LEMMA IInvType == ASSUME IInv PROVE TypeOK
<1>1. server.named \subseteq Calls /\ server.begun \in 0..MaxCalls /\ server.sent \in [Sources -> 0..MaxPieces]
  BY DEF IInv, Server, Counts
<1>2. ASSUME NEW n \in DOMAIN pending
      PROVE  pending[n].kind \in {"begin", "start", "delta", "stop", "end"}
  <2>1. pending[n] \in Event
    BY DEF IInv
  <2>. QED BY <2>1 DEF Event
<1>3. cli.slot \in {Nothing} \cup {Call(i) : i \in Calls}
  BY DEF IInv, CliState
<1>. QED BY <1>1, <1>2, <1>3 DEF TypeOK, IInv

-----------------------------------------------------------------------------
(* The events are a proper stream of blocks *)

\* What an event that is proper does to the blocks and the message is a step of BlockStream.
LEMMA ProperIsStep ==
  ASSUME NEW e \in Event, Proper(Now, e),
         block' = BlockReads(block, e), message' = MessageReads(message, e)
  PROVE  Blocks!Next
<1>1. Now.block = block /\ Now.message = message
  BY DEF Now, Snap
<1>2. CASE e.kind = "begin" /\ message = "none"
  <2>1. Blocks!BeginMessage
    BY <1>2 DEF Blocks!BeginMessage, BlockReads, MessageReads
  <2>. QED BY <2>1 DEF Blocks!Next
<1>3. CASE e.kind = "end" /\ message = "open" /\ \A k \in Idx : block[k].at # "open"
  <2>1. Blocks!EndMessage
    BY <1>3 DEF Blocks!EndMessage, BlockReads, MessageReads, Idx
  <2>. QED BY <2>1 DEF Blocks!Next
<1>4. CASE /\ e.kind = "start" /\ message = "open" /\ e.index \in Idx /\ e.of \in Sources
           /\ block[e.index] = Blocks!Unbegun
  <2>1. message' = message
    BY <1>4 DEF MessageReads
  <2>2. block[e.index].marks + 1 = 1
    BY <1>4 DEF Blocks!Unbegun
  <2>3. block' = [block EXCEPT ![e.index].at = "open", ![e.index].of = e.of,
                               ![e.index].marks = @ + 1]
    BY <1>4 DEF BlockReads
  <2>4. block' = [block EXCEPT ![e.index].at = "open", ![e.index].of = e.of, ![e.index].marks = 1]
    BY <1>4, <2>3 DEF Blocks!Unbegun
  <2>5. Blocks!BeginBlock(e.index)
    BY <1>4, <2>1, <2>4 DEF Blocks!BeginBlock
  <2>. QED BY <1>4, <2>5 DEF Blocks!Next, Idx
<1>5. CASE /\ e.kind = "delta" /\ message = "open" /\ e.index \in Idx
           /\ block[e.index].at = "open" /\ block[e.index].of \in Sources
           /\ \E a, b \in 1..MaxPieces : e.pieces = From(block[e.index].of, a, b)
  <2>1. message' = message
    BY <1>5 DEF MessageReads
  <2>2. block' = [block EXCEPT ![e.index].content = @ \o e.pieces]
    BY <1>5 DEF BlockReads
  <2>3. \A k \in DOMAIN e.pieces : e.pieces[k][1] = block[e.index].of
    <3>1. \A s, a, b : \A k \in DOMAIN From(s, a, b) : From(s, a, b)[k][1] = s
      BY DEF From
    <3>. QED BY <1>5, <3>1
  <2>4. e.pieces \in {From(s, a, b) : s \in Sources, a \in 1..MaxPieces, b \in 1..MaxPieces}
    BY <1>5
  <2>5. Blocks!Grow(e.index)
    <3>1. block' = Blocks!Grown(e.index, e.pieces)
      BY <2>2 DEF Blocks!Grown
    <3>. QED BY <1>5, <2>1, <2>3, <2>4, <3>1 DEF Blocks!Grow
  <2>. QED BY <1>5, <2>5 DEF Blocks!Next, Idx
<1>6. CASE /\ e.kind = "stop" /\ message = "open" /\ e.index \in Idx
           /\ block[e.index].at = "open" /\ block[e.index].marks = 1
  <2>1. message' = message
    BY <1>6 DEF MessageReads
  <2>2. block' = [block EXCEPT ![e.index].at = "closed", ![e.index].marks = @ + 1]
    BY <1>6 DEF BlockReads
  <2>3. block' = [block EXCEPT ![e.index].at = "closed", ![e.index].marks = 2]
    BY <1>6, <2>2
  <2>4. Blocks!EndBlock(e.index)
    BY <1>6, <2>1, <2>3 DEF Blocks!EndBlock
  <2>. QED BY <1>6, <2>4 DEF Blocks!Next, Idx
<1>. QED BY <1>1, <1>2, <1>3, <1>4, <1>5, <1>6 DEF Proper

LEMMA StepKeeps == ASSUME IInv, [Next]_vars PROVE [Blocks!Next]_<<block, message>>
<1>1. CASE Deliver
  <2>1. Head(pending) \in Event /\ Proper(Now, Head(pending))
    BY <1>1, DeliverReads
  <2>2. block' = BlockReads(block, Head(pending)) /\ message' = MessageReads(message, Head(pending))
    BY <1>1 DEF Deliver
  <2>. QED BY <2>1, <2>2, ProperIsStep
<1>2. CASE Stall
  BY <1>2 DEF Stall, Blocks!Next, Blocks!Again
<1>3. CASE NextRequest
  BY <1>3 DEF NextRequest, Request, Blocks!Next, Blocks!Again
<1>4. CASE UNCHANGED vars
  BY <1>4 DEF vars
<1>5. CASE \E reasons, says \in BOOLEAN, parts \in Parts, finish \in {"none", "stop", "tool_calls"} :
             Chunk(reasons, says, parts, finish)
  BY <1>5 DEF Chunk
<1>6. CASE Close \/ Break \/ Complete \/ FallbackFails
  BY <1>6 DEF Close, Break, Complete, FallbackFails
<1>7. CASE \E says \in BOOLEAN, n \in 0..MaxCalls : Fallback(says, n)
  BY <1>7 DEF Fallback
<1>. QED BY <1>1, <1>2, <1>3, <1>4, <1>5, <1>6, <1>7 DEF Next

\* Every chunk, and finish, makes events that are a proper stream of blocks: StreamState
\* (openai_compat.rs) implements BlockStream, for any number of calls and pieces, if the
\* server sends its reasoning first.  Stall, Close and Break may come at any point.
THEOREM BlocksAreProper == ASSUME ReasonsFirst PROVE Spec => KeepsProtocol
<1>1. Init => Blocks!Init
  BY DEF Init, Blocks!Init
<1>2. IInv /\ [Next]_vars => [Blocks!Next]_<<block, message>>
  BY StepKeeps
<1>. QED BY <1>1, <1>2, ReplyInvariant, PTL DEF Spec, KeepsProtocol, Blocks!Spec

\* The server, the adapter's events and the tool that consume_stream keeps pending keep
\* their types.
THEOREM TypeCorrect == ASSUME ReasonsFirst PROVE Spec => []TypeOK
<1>1. IInv => TypeOK
  BY IInvType
<1>. QED BY <1>1, ReplyInvariant, PTL

\* When a stream has completed, the desktop agent (stream_step) has all of the text and
\* every named call, once and with its own arguments, for any number of calls.
THEOREM DesktopHasEveryCall == ASSUME ReasonsFirst PROVE Spec => []DesktopGetsEveryCall
<1>1. IInv => DesktopGetsEveryCall
  BY DoneDesktop
<1>. QED BY <1>1, ReplyInvariant, PTL

\* consume_stream may lose calls, but never mixes them: those that it hands on are calls of
\* the model with all of their arguments, each once, and some if there were any.
THEOREM CliCallsStayWhole == ASSUME ReasonsFirst PROVE Spec => []CliCallsAreWhole
<1>1. IInv => CliCallsAreWhole
  <2> SUFFICES ASSUME IInv PROVE CliCallsAreWhole
    OBVIOUS
  <2>1. CASE line = "done"
    BY <2>1, DoneCli
  <2>2. CASE line # "done"
    BY <2>2 DEF IInv, CliCallsAreWhole
  <2>. QED BY <2>1, <2>2
<1>. QED BY <1>1, ReplyInvariant, PTL

\* The text that consume_stream has printed is the text of the reply that it records, also
\* when a stalled attempt was dropped or the answer came without streaming.
THEOREM ShownStaysSaid == ASSUME ReasonsFirst PROVE Spec => []ShownIsSaid
<1>1. IInv => ShownIsSaid
  <2> SUFFICES ASSUME IInv PROVE ShownIsSaid
    OBVIOUS
  <2>1. CASE line = "done"
    BY <2>1, DoneCli
  <2>2. CASE line # "done"
    BY <2>2 DEF IInv, ShownIsSaid
  <2>. QED BY <2>1, <2>2
<1>. QED BY <1>1, ReplyInvariant, PTL

-----------------------------------------------------------------------------
(* The gate *)

\* The gate is busy with hooks.
InHooks == gate.at \in {"next", "write", "poll"}

BeforeTool == gate.at \in {"idle", "prompt", "execute"} \/ (InHooks /\ gate.event = "pre")

AfterTool == InHooks /\ gate.event # "pre"

\* Until the tool is executed nothing has been done with it; afterwards something has.
ToolIsAhead ==
  /\ BeforeTool => tool.did = "nothing" /\ ~isError
  /\ AfterTool  => tool.did # "nothing" /\ (~isError => tool.did = "succeeded")

\* Another hook is started, or waited for, only when none so far has stopped the call.
NoneStopped ==
  gate.at \in {"write", "poll"} \/ (gate.at = "next" /\ gate.left > 0) => ~Stops(result)

\* A hook is left running only by a write error, which stops the call.
LeftRunning == gate.at = "next" /\ hook.alive => result.failed

\* What the prompt and the executor go by.
MayRun(b) ==
  /\ ~Stops(b.hooks) /\ ~b.rules.deny /\ b.hooks.override # "deny"

Sanctioned(b) ==
  /\ MayRun(b)
  /\ \/ b.said = "yes"
     \/ /\ ~b.rules.ask /\ b.hooks.override # "ask"
        /\ b.rules.allow \/ b.rules.mode = "enough"

\* What was authorised was put to the hooks' answers and the rules on the input that runs.
BasisIsSound ==
  /\ gate.at = "prompt"  => MayRun(basis) /\ basis.input = input
  /\ gate.at = "execute" => Sanctioned(basis) /\ basis.input = input
  /\ tool.did # "nothing" => Sanctioned(basis) /\ basis.input = tool.on

\* The types of GateTypeOK by name.
Gates == [at : Stages, event : Events, left : 0..MaxHooks, payload : 0..MaxPayload]

Bases == [rules : Rules, hooks : Outcome, input : Inputs, said : {"nobody", "yes"}]

Tools == [did : {"nothing", "rejected", "succeeded", "failed"}, on : Inputs]

Types ==
  /\ gate \in Gates /\ result \in Outcome /\ input \in Inputs /\ hook \in Hook
  /\ aborted \in BOOLEAN /\ basis \in Bases /\ tool \in Tools /\ isError \in BOOLEAN

GateRest == ToolIsAhead /\ NoneStopped /\ LeftRunning /\ BasisIsSound /\ ToolAwaitsHooks /\ ErrorsAreTold

GateInv == Types /\ GateRest

-----------------------------------------------------------------------------
LEMMA Values ==
  /\ \A at \in Stages, event \in Events, left \in 0..MaxHooks :
       [Idle EXCEPT !.at = at, !.event = event, !.left = left] \in Gates
  /\ \A at \in Stages, event \in Events : [Idle EXCEPT !.at = at, !.event = event] \in Gates
  /\ \A at \in Stages : [Idle EXCEPT !.at = at] \in Gates
  /\ Idle \in Gates /\ Passed \in Outcome /\ [Passed EXCEPT !.cancelled = TRUE] \in Outcome
  /\ NoHook \in Hook /\ NoBasis \in Bases
<1>1. 0 \in 0..MaxHooks /\ 0 \in 0..MaxPayload
  BY GateConstants
<1>2. NoVerdict \in Verdict /\ NoRules \in Rules /\ Passed \in Outcome
  BY DEF NoVerdict, Verdict, Overrides, NoRules, Rules, Passed, Outcome
<1>3. NoHook \in Hook
  BY <1>2, SMT DEF NoHook, Hook
<1>4. NoBasis \in Bases
  BY <1>2 DEF NoBasis, Bases, Inputs
<1>5. ASSUME NEW at \in Stages, NEW event \in Events, NEW left \in 0..MaxHooks
      PROVE  /\ [Idle EXCEPT !.at = at, !.event = event, !.left = left] \in Gates
             /\ [Idle EXCEPT !.at = at, !.event = event] \in Gates
             /\ [Idle EXCEPT !.at = at] \in Gates
             /\ Idle \in Gates
  BY <1>1 DEF Idle, Gates, Stages, Events
<1>6. [Passed EXCEPT !.cancelled = TRUE] \in Outcome
  BY DEF Passed, Outcome, Overrides
<1>7. "idle" \in Stages /\ "pre" \in Events
  BY DEF Stages, Events
<1> QED BY <1>1, <1>2, <1>3, <1>4, <1>5, <1>6, <1>7

LEMMA InitKeeps == GateInit => GateInv
<1> SUFFICES ASSUME GateInit PROVE GateInv OBVIOUS
<1>1. Types
  BY Values DEF GateInit, Types, Inputs, Tools
<1>2. GateRest
  BY DEF GateRest, ToolIsAhead, BeforeTool, AfterTool, InHooks, NoneStopped, LeftRunning, BasisIsSound,
         ToolAwaitsHooks, ErrorsAreTold, Stops, GateInit, Idle, Passed, NoHook, NoBasis
<1> QED BY <1>1, <1>2 DEF GateInv

\* The policy lets a tool pass only without a deny, and without asking only when
\* nothing calls for it.
LEMMA AuthorizeSays ==
  ASSUME NEW r \in Rules, NEW override \in Overrides
  PROVE  /\ Authorize(r, override) # "deny" => ~r.deny /\ override # "deny"
         /\ Authorize(r, override) = "allow" =>
              ~r.ask /\ override # "ask" /\ (r.allow \/ r.mode = "enough")
  BY DEF Authorize, ByMode, Rules, Overrides

-----------------------------------------------------------------------------
(* One lemma per action, or per group of actions that move alike *)

LEMMA BeginsTyped ==
  ASSUME NEW event \in Events, Begins(event)
  PROVE  /\ gate' \in Gates /\ gate'.at = "next" /\ gate'.event = event
         /\ result' \in Outcome /\ hook' = NoHook /\ hook' \in Hook
         /\ gate'.left > 0 => ~Stops(result')
<1>1. PICK n \in 0..MaxHooks, others \in BOOLEAN :
        IF (n > 0 \/ others) /\ aborted
         THEN /\ gate' = [Idle EXCEPT !.at = "next", !.event = event]
              /\ result' = [Passed EXCEPT !.cancelled = TRUE]
         ELSE /\ gate' = [Idle EXCEPT !.at = "next", !.event = event, !.left = n]
              /\ result' = Passed
  BY DEF Begins
<1>2. "next" \in Stages
  BY DEF Stages
<1>3. hook' = NoHook /\ hook' \in Hook
  BY Values DEF Begins
<1>4. CASE (n > 0 \/ others) /\ aborted
  <2>1. gate' = [Idle EXCEPT !.at = "next", !.event = event]
    BY <1>1, <1>4
  <2>2. result' = [Passed EXCEPT !.cancelled = TRUE]
    BY <1>1, <1>4
  <2>3. gate' \in Gates /\ result' \in Outcome
    BY <2>1, <2>2, <1>2, Values
  <2>4. gate'.at = "next" /\ gate'.event = event /\ gate'.left = 0
    BY <2>1 DEF Idle
  <2> QED BY <2>3, <2>4, <1>3
<1>5. CASE ~((n > 0 \/ others) /\ aborted)
  <2>1. gate' = [Idle EXCEPT !.at = "next", !.event = event, !.left = n]
    BY <1>1, <1>5
  <2>2. result' = Passed
    BY <1>1, <1>5
  <2>3. gate' \in Gates /\ result' \in Outcome
    BY <2>1, <2>2, <1>2, Values
  <2>4. gate'.at = "next" /\ gate'.event = event
    BY <2>1 DEF Idle
  <2>5. ~Stops(result')
    BY <2>2 DEF Passed, Stops
  <2> QED BY <2>3, <2>4, <2>5, <1>3
<1> QED BY <1>4, <1>5

LEMMA EndedGate ==
  ASSUME gate \in Gates
  PROVE  LET g == [gate EXCEPT !.at = "next", !.left = 0, !.payload = 0]
         IN  g \in Gates /\ g.at = "next" /\ g.event = gate.event /\ g.left = 0
<1>1. 0 \in 0..MaxHooks /\ 0 \in 0..MaxPayload
  BY GateConstants
<1> QED BY <1>1 DEF Gates, Stages

LEMMA ToolUseKeeps == GateInv /\ ToolUse => GateInv'
<1> SUFFICES ASSUME Types, GateRest, ToolUse PROVE GateInv'
  BY DEF GateInv
<1>1. /\ gate' \in Gates /\ gate'.at = "next" /\ gate'.event = "pre"
      /\ result' \in Outcome /\ hook' = NoHook /\ hook' \in Hook
      /\ gate'.left > 0 => ~Stops(result')
  BY BeginsTyped DEF ToolUse, Events
<1>2. UNCHANGED <<input, aborted, basis, tool, isError>> /\ gate.at = "idle"
  BY DEF ToolUse
<1>3. Types'
  BY <1>1, <1>2 DEF Types
<1>4. GateRest'
  BY <1>1, <1>2 DEF GateRest, ToolIsAhead, BeforeTool, AfterTool, InHooks, NoneStopped, LeftRunning,
     BasisIsSound, ToolAwaitsHooks, ErrorsAreTold, NoHook, Stops, MayRun, Sanctioned
<1> QED BY <1>3, <1>4 DEF GateInv

\* What a step that stays among the hooks of an event must not disturb.
LEMMA HooksMove ==
  ASSUME Types, GateRest, InHooks, gate' \in Gates, InHooks', gate'.event = gate.event,
         result' \in Outcome, hook' \in Hook, input' \in Inputs,
         gate.event # "pre" => input' = input,
         UNCHANGED <<aborted, basis, tool, isError>>,
         NoneStopped', LeftRunning'
  PROVE  GateInv'
<1>1. Types'
  BY DEF Types
<1>2. GateRest'
  BY DEF GateRest, ToolIsAhead, BeforeTool, AfterTool, InHooks, BasisIsSound, ToolAwaitsHooks, ErrorsAreTold,
     MayRun, Sanctioned, Stops
<1> QED BY <1>1, <1>2 DEF GateInv

LEMMA SpawnKeeps == GateInv /\ (Spawn \/ SpawnFails) => GateInv'
<1> SUFFICES ASSUME Types, GateRest, Spawn \/ SpawnFails PROVE GateInv'
  BY DEF GateInv
<1>1. InHooks /\ gate.left > 0 /\ ~Stops(result) /\ gate \in Gates /\ result \in Outcome
  BY DEF Spawn, SpawnFails, InHooks, GateRest, NoneStopped, Types
<1>2. CASE Spawn
  <2>1. PICK size \in 1..MaxPayload :
          gate' = [gate EXCEPT !.at = "write", !.left = @ - 1, !.payload = size]
    BY <1>2 DEF Spawn
  <2>2. gate' \in Gates /\ gate'.at = "write" /\ gate'.event = gate.event
    <3>1. gate.left - 1 \in 0..MaxHooks
      BY <1>1, GateConstants DEF Gates
    <3>2. size \in 0..MaxPayload
      BY GateConstants
    <3> QED BY <1>1, <2>1, <3>1, <3>2 DEF Gates, Stages
  <2>3. hook' = [NoHook EXCEPT !.alive = TRUE, !.closed = FALSE] /\ hook' \in Hook
    BY <1>2, Values DEF Spawn, Hook
  <2>4. UNCHANGED <<result, input, aborted, basis, tool, isError>>
    BY <1>2 DEF Spawn
  <2>5. InHooks' /\ NoneStopped' /\ LeftRunning'
    BY <1>1, <2>2, <2>4 DEF InHooks, NoneStopped, LeftRunning, Stops
  <2> QED BY <1>1, <2>2, <2>3, <2>4, <2>5, HooksMove DEF Types
<1>3. CASE SpawnFails
  <2>1. gate' = [gate EXCEPT !.at = "next", !.left = 0, !.payload = 0]
    BY <1>3 DEF SpawnFails, Ended
  <2>2. gate' \in Gates /\ gate'.at = "next" /\ gate'.event = gate.event /\ gate'.left = 0
    BY <1>1, <2>1, EndedGate
  <2>3. result' = [result EXCEPT !.failed = TRUE] /\ result' \in Outcome
    BY <1>1, <1>3 DEF SpawnFails, Ended, Outcome
  <2>4. hook' = NoHook /\ hook' \in Hook /\ UNCHANGED <<input, aborted, basis, tool, isError>>
    BY <1>3, Values DEF SpawnFails
  <2>5. InHooks' /\ NoneStopped' /\ LeftRunning'
    BY <2>2, <2>4 DEF InHooks, NoneStopped, LeftRunning, NoHook
  <2> QED BY <1>1, <2>2, <2>3, <2>4, <2>5, HooksMove DEF Types
<1> QED BY <1>2, <1>3

LEMMA WriteKeeps == GateInv /\ (WritePayload \/ PayloadWritten) => GateInv'
<1> SUFFICES ASSUME Types, GateRest, WritePayload \/ PayloadWritten PROVE GateInv'
  BY DEF GateInv
<1>1. InHooks /\ gate.at = "write" /\ ~Stops(result) /\ gate \in Gates /\ hook \in Hook
  BY DEF WritePayload, PayloadWritten, InHooks, GateRest, NoneStopped, Types
<1>2. UNCHANGED <<result, input, aborted, basis, tool, isError>>
  BY DEF WritePayload, PayloadWritten
<1>3. gate' \in Gates /\ gate'.at \in {"write", "poll"} /\ gate'.event = gate.event
  <2>1. CASE WritePayload
    BY <1>1, <2>1, GateConstants DEF WritePayload, Gates, Stages
  <2>2. CASE PayloadWritten
    BY <1>1, <2>2, GateConstants DEF PayloadWritten, Gates, Stages
  <2> QED BY <2>1, <2>2
<1>4. hook' \in Hook
  BY <1>1 DEF WritePayload, PayloadWritten, Hook
<1>5. InHooks' /\ NoneStopped' /\ LeftRunning'
  BY <1>1, <1>2, <1>3 DEF InHooks, NoneStopped, LeftRunning, Stops
<1> QED BY <1>1, <1>2, <1>3, <1>4, <1>5, HooksMove DEF Types

LEMMA EndedKeeps == GateInv /\ (WriteFails \/ Cancelled) => GateInv'
<1> SUFFICES ASSUME Types, GateRest, WriteFails \/ Cancelled PROVE GateInv'
  BY DEF GateInv
<1>1. InHooks /\ gate \in Gates /\ hook \in Hook /\ result \in Outcome
  BY DEF WriteFails, Cancelled, InHooks, Types
<1>2. UNCHANGED <<input, aborted, basis, tool, isError>>
  BY DEF WriteFails, Cancelled
<1>3. gate' = [gate EXCEPT !.at = "next", !.left = 0, !.payload = 0]
  BY DEF WriteFails, Cancelled, Ended
<1>4. gate' \in Gates /\ gate'.at = "next" /\ gate'.event = gate.event /\ gate'.left = 0
  BY <1>1, <1>3, EndedGate
<1>5. result' \in Outcome /\ hook' \in Hook /\ (hook'.alive => result'.failed)
  <2>1. CASE WriteFails
    BY <1>1, <2>1 DEF WriteFails, Ended, AfterWriteError, Outcome
  <2>2. CASE Cancelled
    BY <1>1, <2>2, Values DEF Cancelled, Ended, Outcome, NoHook
  <2> QED BY <2>1, <2>2
<1>6. InHooks' /\ NoneStopped' /\ LeftRunning'
  BY <1>4, <1>5 DEF InHooks, NoneStopped, LeftRunning
<1> QED BY <1>1, <1>2, <1>4, <1>5, <1>6, HooksMove DEF Types

LEMMA ExitedKeeps == GateInv /\ Exited => GateInv'
<1> SUFFICES ASSUME Types, GateRest, Exited PROVE GateInv'
  BY DEF GateInv
<1> DEFINE v == hook.verdict
           r == Merged(result, v)
<1>1. /\ InHooks /\ ~Stops(result) /\ gate \in Gates /\ hook \in Hook /\ result \in Outcome
      /\ input \in Inputs /\ v \in Verdict
  BY DEF Exited, InHooks, Types, GateRest, NoneStopped, Hook
<1>2. /\ result' = [r EXCEPT !.denied = v.exit = "deny", !.failed = v.exit = "failed"]
      /\ gate' = [gate EXCEPT !.at = "next", !.left = IF v.exit = "allow" THEN @ ELSE 0]
      /\ input' = IF v.updates /\ gate.event = "pre" THEN "updated" ELSE input
      /\ hook' = NoHook /\ UNCHANGED <<aborted, basis, tool, isError>>
  BY DEF Exited
<1>3. /\ result' \in Outcome /\ result'.cancelled = result.cancelled
      /\ result'.denied = (v.exit = "deny") /\ result'.failed = (v.exit = "failed")
  BY <1>1, <1>2 DEF Merged, Outcome, Verdict
<1>4. 0 \in 0..MaxHooks
  BY GateConstants
<1>5. /\ gate' \in Gates /\ gate'.at = "next" /\ gate'.event = gate.event
      /\ gate'.left > 0 => v.exit = "allow"
  <2>1. (IF v.exit = "allow" THEN gate.left ELSE 0) \in 0..MaxHooks
    BY <1>1, <1>4 DEF Gates
  <2>2. gate' = [gate EXCEPT !.at = "next", !.left = IF v.exit = "allow" THEN gate.left ELSE 0]
    BY <1>2
  <2>3. gate'.left = IF v.exit = "allow" THEN gate.left ELSE 0
    BY <1>1, <2>2 DEF Gates
  <2> HIDE DEF v
  <2>4. ASSUME v.exit # "allow" PROVE gate'.left = 0
    BY <2>3, <2>4
  <2>5. v.exit = "allow" \/ ~(gate'.left > 0)
    BY <2>4
  <2>6. gate' \in Gates /\ gate'.at = "next" /\ gate'.event = gate.event
    BY <1>1, <2>1, <2>2 DEF Gates, Stages
  <2> QED BY <2>5, <2>6
<1>6. input' \in Inputs /\ (gate.event # "pre" => input' = input)
  BY <1>1, <1>2 DEF Inputs
<1>7. hook' \in Hook /\ ~hook'.alive
  BY <1>2, Values DEF NoHook
<1>8. NoneStopped'
  BY <1>1, <1>3, <1>5 DEF NoneStopped, Stops
<1>9. InHooks' /\ LeftRunning'
  BY <1>5, <1>7 DEF InHooks, LeftRunning
<1> HIDE DEF v, r
<1> QED BY <1>1, <1>2, <1>3, <1>5, <1>6, <1>7, <1>8, <1>9, HooksMove

\* The gate after Go.
LEMMA GoTyped ==
  ASSUME NEW at \in Stages, Go(at)
  PROVE  gate' \in Gates /\ gate'.at = at /\ gate'.event = "pre" /\ gate'.left = 0
<1>1. gate' = [Idle EXCEPT !.at = at]
  BY DEF Go
<1> QED BY <1>1, Values DEF Idle

LEMMA DecisionKeeps == GateInv /\ (RefusedByHooks \/ Decide) => GateInv'
<1> SUFFICES ASSUME Types, GateRest, RefusedByHooks \/ Decide PROVE GateInv'
  BY DEF GateInv
<1>1. /\ gate.at = "next" /\ gate.event = "pre" /\ tool.did = "nothing" /\ ~isError
      /\ UNCHANGED <<result, input, hook, aborted, tool>>
  BY DEF RefusedByHooks, Decide, HooksAreDone, GateRest, ToolIsAhead, BeforeTool, InHooks
<1>2. ASSUME Refuse, UNCHANGED basis PROVE GateInv'
  <2>1. gate' \in Gates /\ gate'.at = "done" /\ isError'
    BY <1>2, GoTyped DEF Refuse, Stages
  <2>2. Types'
    BY <1>1, <1>2, <2>1 DEF Types, Refuse
  <2>3. GateRest'
    BY <1>1, <1>2, <2>1 DEF GateRest, ToolIsAhead, BeforeTool, AfterTool, InHooks, NoneStopped, LeftRunning,
       BasisIsSound, ToolAwaitsHooks, ErrorsAreTold
  <2> QED BY <2>2, <2>3 DEF GateInv
<1>3. CASE RefusedByHooks
  BY <1>2, <1>3 DEF RefusedByHooks
<1>4. CASE Decide
  <2>1. PICK rules \in Rules, prompter \in BOOLEAN :
          LET verdict == Authorize(rules, result.override)
              record  == basis' = [rules |-> rules, hooks |-> result, input |-> Judged,
                                   said |-> "nobody"]
          IN  \/ verdict = "allow" /\ Go("execute") /\ record /\ UNCHANGED isError
              \/ verdict = "ask" /\ prompter /\ Go("prompt") /\ record /\ UNCHANGED isError
              \/ verdict = "ask" /\ ~prompter /\ Refuse /\ UNCHANGED basis
              \/ verdict = "deny" /\ Refuse /\ UNCHANGED basis
    BY <1>4 DEF Decide
  <2> DEFINE b == [rules |-> rules, hooks |-> result, input |-> input, said |-> "nobody"]
             verdict == Authorize(rules, result.override)
  <2>2. ~Stops(result) /\ ~hook.alive /\ result \in Outcome /\ result.override \in Overrides
    BY <1>1, <1>4 DEF Decide, GateRest, LeftRunning, Stops, Types, Outcome
  <2>3. b \in Bases
    BY <2>2 DEF Bases, Types
  <2>4. /\ b.hooks = result /\ b.rules = rules /\ b.input = input
        /\ verdict # "deny" => ~rules.deny /\ result.override # "deny"
        /\ verdict = "allow" => /\ ~rules.ask /\ result.override # "ask"
                                /\ rules.allow \/ rules.mode = "enough"
    BY <2>2, AuthorizeSays
  <2>5. CASE verdict = "allow" /\ Go("execute") /\ basis' = b /\ UNCHANGED isError
    <3>1. gate' \in Gates /\ gate'.at = "execute"
      BY <2>5, GoTyped DEF Stages
    <3>2. Sanctioned(b)
      BY <2>2, <2>4, <2>5 DEF Sanctioned, MayRun
    <3> HIDE DEF b, verdict
    <3>3. Types'
      BY <1>1, <2>3, <2>5, <3>1 DEF Types
    <3>4. GateRest'
      BY <1>1, <2>2, <2>4, <2>5, <3>1, <3>2 DEF GateRest, ToolIsAhead, BeforeTool, AfterTool, InHooks,
         NoneStopped, LeftRunning, BasisIsSound, ToolAwaitsHooks, ErrorsAreTold
    <3> QED BY <3>3, <3>4 DEF GateInv
  <2>6. CASE verdict = "ask" /\ Go("prompt") /\ basis' = b /\ UNCHANGED isError
    <3>1. gate' \in Gates /\ gate'.at = "prompt"
      BY <2>6, GoTyped DEF Stages
    <3>2. MayRun(b)
      BY <2>2, <2>4, <2>6 DEF MayRun
    <3> HIDE DEF b, verdict
    <3>3. Types'
      BY <1>1, <2>3, <2>6, <3>1 DEF Types
    <3>4. GateRest'
      BY <1>1, <2>2, <2>4, <2>6, <3>1, <3>2 DEF GateRest, ToolIsAhead, BeforeTool, AfterTool, InHooks,
         NoneStopped, LeftRunning, BasisIsSound, ToolAwaitsHooks, ErrorsAreTold
    <3> QED BY <3>3, <3>4 DEF GateInv
  <2>7. CASE Refuse /\ UNCHANGED basis
    BY <1>2, <2>7
  <2> QED BY <2>1, <2>5, <2>6, <2>7 DEF Judged
<1> QED BY <1>3, <1>4

LEMMA AnswersKeep == ASSUME NEW yes \in BOOLEAN PROVE GateInv /\ Answers(yes) => GateInv'
<1> SUFFICES ASSUME Types, GateRest, Answers(yes) PROVE GateInv'
  BY DEF GateInv
<1>1. /\ gate.at = "prompt" /\ tool.did = "nothing" /\ ~isError /\ ~hook.alive
      /\ MayRun(basis) /\ basis.input = input /\ basis \in Bases
      /\ UNCHANGED <<result, input, hook, aborted, tool>>
  BY DEF Answers, GateRest, ToolIsAhead, BeforeTool, BasisIsSound, ToolAwaitsHooks, Types
<1>2. CASE yes
  <2>1. gate' \in Gates /\ gate'.at = "execute"
    BY <1>2, GoTyped DEF Answers, Stages
  <2>2. basis' = [basis EXCEPT !.said = "yes"] /\ UNCHANGED isError
    BY <1>2 DEF Answers
  <2>3. basis' \in Bases /\ Sanctioned(basis') /\ basis'.input = input
    BY <1>1, <2>2 DEF Bases, Sanctioned, MayRun
  <2>4. Types'
    BY <1>1, <2>1, <2>2, <2>3 DEF Types
  <2>5. GateRest'
    BY <1>1, <2>1, <2>2, <2>3 DEF GateRest, ToolIsAhead, BeforeTool, AfterTool, InHooks, NoneStopped,
       LeftRunning, BasisIsSound, ToolAwaitsHooks, ErrorsAreTold
  <2> QED BY <2>4, <2>5 DEF GateInv
<1>3. CASE ~yes
  <2>1. gate' \in Gates /\ gate'.at = "done" /\ isError' /\ isError' \in BOOLEAN
    BY <1>3, GoTyped DEF Answers, Refuse, Stages
  <2>2. basis' \in Bases
    BY <1>3, Values DEF Answers
  <2>3. Types'
    BY <1>1, <2>1, <2>2 DEF Types
  <2>4. GateRest'
    BY <1>1, <2>1 DEF GateRest, ToolIsAhead, BeforeTool, AfterTool, InHooks, NoneStopped, LeftRunning,
       BasisIsSound, ToolAwaitsHooks, ErrorsAreTold
  <2> QED BY <2>3, <2>4 DEF GateInv
<1> QED BY <1>2, <1>3

LEMMA ExecuteKeeps == GateInv /\ Execute => GateInv'
<1> SUFFICES ASSUME Types, GateRest, Execute PROVE GateInv'
  BY DEF GateInv
<1>1. PICK did \in {"rejected", "succeeded", "failed"} :
        /\ tool' = [did |-> did, on |-> input]
        /\ isError' = (did # "succeeded")
        /\ Begins(IF did = "succeeded" THEN "post" ELSE "failure")
  BY DEF Execute
<1>2. /\ Sanctioned(basis) /\ basis.input = input
      /\ UNCHANGED <<input, aborted, basis>>
  BY DEF Execute, GateRest, BasisIsSound
<1>3. /\ gate' \in Gates /\ gate'.at = "next" /\ gate'.event # "pre"
      /\ result' \in Outcome /\ hook' = NoHook /\ hook' \in Hook
      /\ gate'.left > 0 => ~Stops(result')
  <2>1. (IF did = "succeeded" THEN "post" ELSE "failure") \in Events \ {"pre"}
    BY DEF Events
  <2> QED BY <1>1, <2>1, BeginsTyped
<1>4. Types'
  <2>1. tool' \in Tools /\ isError' \in BOOLEAN
    BY <1>1 DEF Tools, Types
  <2> QED BY <1>2, <1>3, <2>1 DEF Types
<1>5. GateRest'
  BY <1>1, <1>2, <1>3 DEF GateRest, ToolIsAhead, BeforeTool, AfterTool, InHooks, NoneStopped, LeftRunning,
     BasisIsSound, ToolAwaitsHooks, ErrorsAreTold, NoHook
<1> QED BY <1>4, <1>5 DEF GateInv

LEMMA ConcludeKeeps == GateInv /\ Conclude => GateInv'
<1> SUFFICES ASSUME Types, GateRest, Conclude PROVE GateInv'
  BY DEF GateInv
<1>1. /\ tool.did # "nothing" /\ (~isError => tool.did = "succeeded")
      /\ Sanctioned(basis) /\ basis.input = tool.on
      /\ isError' = (isError \/ Stops(result))
      /\ UNCHANGED <<result, input, hook, aborted, basis, tool>>
  BY DEF Conclude, Objected, GateRest, ToolIsAhead, AfterTool, InHooks, BasisIsSound
<1>2. gate' \in Gates /\ gate'.at = "done"
  BY GoTyped DEF Conclude, Stages
<1>3. Types'
  BY <1>1, <1>2 DEF Types, Stops, Outcome
<1>4. GateRest'
  BY <1>1, <1>2 DEF GateRest, ToolIsAhead, BeforeTool, AfterTool, InHooks, NoneStopped, LeftRunning,
     BasisIsSound, ToolAwaitsHooks, ErrorsAreTold, Sanctioned, MayRun, Stops
<1> QED BY <1>3, <1>4 DEF GateInv

LEMMA NextCallKeeps == ASSUME NEW newTurn \in BOOLEAN PROVE GateInv /\ NextCall(newTurn) => GateInv'
<1> SUFFICES ASSUME Types, GateRest, NextCall(newTurn) PROVE GateInv'
  BY DEF GateInv
<1>1. Types'
  <2>1. input' \in Inputs /\ tool' \in Tools /\ aborted' \in BOOLEAN
    BY DEF NextCall, Inputs, Tools, Types
  <2> QED BY <2>1, Values DEF NextCall, Types
<1>2. GateRest'
  BY DEF NextCall, GateRest, ToolIsAhead, BeforeTool, AfterTool, InHooks, NoneStopped, LeftRunning,
     BasisIsSound, ToolAwaitsHooks, ErrorsAreTold, Idle
<1> QED BY <1>1, <1>2 DEF GateInv

\* A hook's process can only end, and the signal is none of the gate's state.
LEMMA OthersKeep ==
  GateInv /\ (Abort \/ HookReads \/ HookClosesStdin \/ HookFloods \/ HookExits) => GateInv'
<1> SUFFICES ASSUME Types, GateRest, Abort \/ HookReads \/ HookClosesStdin \/ HookFloods \/ HookExits
             PROVE  GateInv'
  BY DEF GateInv
<1>1. UNCHANGED <<gate, result, input, basis, tool, isError>> /\ aborted' \in BOOLEAN
  BY DEF Abort, HookReads, HookClosesStdin, HookFloods, HookExits, HookStep, Types
<1>2. hook' \in Hook /\ (hook'.alive => hook.alive)
  <2>1. CASE Abort
    BY <2>1 DEF Abort, Types
  <2>2. CASE HookReads
    BY <2>2 DEF HookReads, HookStep, Types, Hook
  <2>3. CASE HookClosesStdin \/ HookFloods
    BY <2>3 DEF HookClosesStdin, HookFloods, HookStep, Types, Hook
  <2>4. CASE HookExits
    BY <2>4, Values DEF HookExits, HookStep, Hook
  <2> QED BY <2>1, <2>2, <2>3, <2>4
<1>3. Types'
  BY <1>1, <1>2 DEF Types
<1>4. GateRest'
  BY <1>1, <1>2 DEF GateRest, ToolIsAhead, BeforeTool, AfterTool, InHooks, NoneStopped, LeftRunning,
     BasisIsSound, ToolAwaitsHooks, ErrorsAreTold
<1> QED BY <1>3, <1>4 DEF GateInv

LEMMA StutterKeeps == GateInv /\ UNCHANGED gateVars => GateInv'
  BY DEF GateInv, Types, gateVars, GateRest, ToolIsAhead, BeforeTool, AfterTool, InHooks, NoneStopped, LeftRunning,
     BasisIsSound, ToolAwaitsHooks, ErrorsAreTold

LEMMA NextKeeps == GateInv /\ [GateNext]_gateVars => GateInv'
  BY ToolUseKeeps, SpawnKeeps, WriteKeeps, EndedKeeps, ExitedKeeps, DecisionKeeps, AnswersKeep,
     ExecuteKeeps, ConcludeKeeps, NextCallKeeps, OthersKeep, StutterKeeps DEF GateNext, GateStep

\* The invariant holds from the start and every action keeps it.
LEMMA Invariance == GateSpec => []GateInv
  BY InitKeeps, NextKeeps, PTL DEF GateSpec

-----------------------------------------------------------------------------
\* Every variable keeps its type (run_turn, from one tool use to its result).
THEOREM GateTypeCorrect == GateSpec => []GateTypeOK
<1>1. GateInv => GateTypeOK
  BY DEF GateInv, Types, GateTypeOK, Gates, Bases, Tools
<1> QED BY <1>1, Invariance, PTL

\* A tool runs only on the input it was authorised for, after hooks that let it pass, and
\* with a yes of the user where one is called for, for any number of hooks, any payload
\* and whatever the hooks, the rules and the mode say (run_turn, authorize_with_context).
THEOREM OnlyAuthorisedRuns == GateSpec => []RunsAsAuthorised
<1>1. GateInv => RunsAsAuthorised
  BY DEF GateInv, GateRest, BasisIsSound, Sanctioned, MayRun, RunsAsAuthorised
<1> QED BY <1>1, Invariance, PTL

\* No hook that was to judge a tool still runs when the user is asked or the tool starts
\* (output_with_stdin: only a write error leaves a process behind, and refuses the tool).
THEOREM HooksAreOver == GateSpec => []ToolAwaitsHooks
<1>1. GateInv => ToolAwaitsHooks
  BY DEF GateInv, GateRest
<1> QED BY <1>1, Invariance, PTL

\* A result without the error flag is of a tool that succeeded and that no hook objected
\* to, before or after it (run_turn).
THEOREM ErrorsAreAlwaysTold == GateSpec => []ErrorsAreTold
<1>1. GateInv => ErrorsAreTold
  BY DEF GateInv, GateRest
<1> QED BY <1>1, Invariance, PTL
===============================================================================
