------------------------- MODULE OverflowRetryProofs -------------------------
(***************************************************************************)
(* Theorems of OverflowRetry, for any files, schedule, thresholds and      *)
(* sizes: there is one summary and it comes first, the round that          *)
(* preserves nothing sends the summary and the prompt, and the wording a   *)
(* retry loses was overtaken, is of one of many alike, or is small talk.   *)
(*                                                                         *)
(* The first half says what the rewritings of a session return: Folded     *)
(* for any groups that do not meet (FoldedMeans), hence Collapse and       *)
(* Cluster; Supersede; and the compaction after them (CompactedMeans).     *)
(* Where a message went is said by an injection (Follows): the messages    *)
(* alike after two stages are then no more than those alike before them.   *)
(* The greedy clusters are a recursive function, and LeastNatural stands   *)
(* in for induction: a first place where its equation or what it keeps     *)
(* fails cannot be.  The second half is the invariant of the turn.         *)
(***************************************************************************)
EXTENDS OverflowRetry, FiniteSetTheorems, FunctionTheorems, WellFoundedInduction, TLAPS

\* The least-number principle, for a set: what stands in for induction.
LEMMA LeastNatural ==
  ASSUME NEW T, T \subseteq Nat, T # {}
  PROVE  \E m \in T : \A k \in T : m <= k
<1>1. \E m \in T : \A k \in T : ~(<<k, m>> \in OpToRel(<, Nat))
  BY NatLessThanWellFounded, WFMin
<1>2. PICK m \in T : \A k \in T : ~(<<k, m>> \in OpToRel(<, Nat))
  BY <1>1
<1>3. ASSUME NEW k \in T PROVE m <= k
  <2>1. k \in Nat /\ m \in Nat
    OBVIOUS
  <2>2. ~(k < m)
    BY <1>2, <2>1 DEF OpToRel
  <2>. QED BY <2>1, <2>2
<1>. QED BY <1>3

\* Ranks number the positions in S from 1, in order and without a gap.
LEMMA RankMeans ==
  ASSUME NEW len \in Nat, NEW S, S \subseteq 1..len
  PROVE  /\ IsFiniteSet(S) /\ Cardinality(S) \in Nat
         /\ \A k \in S : Rank(S, k) \in 1..Cardinality(S)
         /\ \A j, k \in S : j < k => Rank(S, j) < Rank(S, k)
         /\ \A n \in 1..Cardinality(S) : \E k \in S : Rank(S, k) = n
<1>1. IsFiniteSet(S) /\ Cardinality(S) \in Nat
  <2>1. IsFiniteSet(1..len)
    BY FS_Interval
  <2>2. IsFiniteSet(S)
    BY <2>1, FS_Subset
  <2>. QED BY <2>2, FS_CardinalityType
<1>2. \A T \in SUBSET S : /\ IsFiniteSet(T) /\ Cardinality(T) \in Nat
                          /\ Cardinality(T) <= Cardinality(S)
  BY <1>1, FS_Subset, FS_CardinalityType
<1>3. ASSUME NEW k \in S PROVE Rank(S, k) \in 1..Cardinality(S)
  <2> DEFINE T == {i \in S : i <= k}
  <2>1. T \in SUBSET S /\ k \in T
    OBVIOUS
  <2>2. Cardinality(T) # 0
    BY <1>2, <2>1, FS_EmptySet
  <2>. QED BY <1>1, <1>2, <2>1, <2>2 DEF Rank
<1>4. ASSUME NEW j \in S, NEW k \in S, j < k PROVE Rank(S, j) < Rank(S, k)
  <2> DEFINE T == {i \in S : i <= j}
             U == {i \in S : i <= k}
  <2>1. T \in SUBSET U /\ U \in SUBSET S /\ k \in U /\ k \notin T
    <3>1. j \in Int /\ k \in Int /\ \A i \in S : i \in Int
      OBVIOUS
    <3>2. \A i \in S : i <= j => i <= k
      BY <1>4, <3>1
    <3>3. ~(k <= j) /\ k <= k
      BY <1>4, <3>1
    <3>. QED BY <3>2, <3>3
  <2>2. IsFiniteSet(U) /\ Cardinality(U) \in Nat /\ Cardinality(T) \in Nat
    BY <1>2, <2>1
  <2>3. Cardinality(T) <= Cardinality(U) /\ Cardinality(T) # Cardinality(U)
    BY <2>1, <2>2, FS_Subset
  <2>. QED BY <2>2, <2>3 DEF Rank
<1>5. ASSUME NEW n \in 1..Cardinality(S) PROVE \E k \in S : Rank(S, k) = n
  <2> DEFINE f == [k \in S |-> Rank(S, k)]
  <2>1. f \in Injection(S, 1..Cardinality(S))
    <3>1. f \in [S -> 1..Cardinality(S)]
      BY <1>3
    <3>2. \A j, k \in S : f[j] = f[k] => j = k
      <4>1. SUFFICES ASSUME NEW j \in S, NEW k \in S, Rank(S, j) = Rank(S, k), j # k PROVE FALSE
        OBVIOUS
      <4>2. Rank(S, j) \in Nat /\ Rank(S, k) \in Nat
        BY <1>1, <1>3
      <4>3. j < k \/ k < j
        BY <4>1
      <4>. QED BY <1>4, <4>1, <4>2, <4>3
    <3>. QED BY <3>1, <3>2 DEF Injection, IsInjective
  <2>2. IsFiniteSet(1..Cardinality(S)) /\ Cardinality(1..Cardinality(S)) = Cardinality(S)
    BY <1>1, FS_Interval
  <2>3. f \in Surjection(S, 1..Cardinality(S))
    BY <2>1, <2>2, FS_Injection
  <2>. QED BY <2>3 DEF Surjection
<1>. QED BY <1>1, <1>3, <1>4, <1>5

LEMMA SequenceOf ==
  ASSUME NEW S, NEW len \in Nat, NEW f, f = [n \in 1..len |-> f[n]], \A n \in 1..len : f[n] \in S
  PROVE  f \in Seq(S) /\ Len(f) = len
<1>1. f \in [1..len -> S]
  OBVIOUS
<1>. QED BY <1>1

\* list holds the messages at the positions in S, the first one first.
Lists(list, msgs, S) ==
  /\ S # {} => list # <<>>
  /\ \A n \in 1..Len(list) : \E k \in S : list[n] = msgs[k] /\ (k = 1 => n = 1)
  /\ \A k \in S : \E n \in 1..Len(list) : list[n] = msgs[k]

LEMMA AtMeans ==
  ASSUME NEW msgs, NEW len \in Nat, NEW S, S \subseteq 1..len
  PROVE  Lists(At(msgs, S), msgs, S)
<1>1. /\ IsFiniteSet(S) /\ Cardinality(S) \in Nat
      /\ \A k \in S : Rank(S, k) \in 1..Cardinality(S)
      /\ \A j, k \in S : j < k => Rank(S, j) < Rank(S, k)
      /\ \A n \in 1..Cardinality(S) : \E k \in S : Rank(S, k) = n
  BY RankMeans
<1>2. S # {} => Cardinality(S) > 0
  BY <1>1, FS_EmptySet
<1>3. ASSUME NEW n \in 1..Cardinality(S), NEW k \in S, Rank(S, k) = n
      PROVE  At(msgs, S)[n] = msgs[k]
  <2>1. PICK c \in S : c = (CHOOSE x \in S : Rank(S, x) = n) /\ Rank(S, c) = n
    BY <1>3
  <2>2. c = k
    <3>1. c \in Int /\ k \in Int
      OBVIOUS
    <3>2. n \in Int
      BY <1>1
    <3>3. ~(Rank(S, c) < Rank(S, k)) /\ ~(Rank(S, k) < Rank(S, c))
      BY <1>3, <2>1, <3>2
    <3>4. ~(c < k) /\ ~(k < c)
      BY <1>1, <3>3
    <3>. QED BY <3>1, <3>4
  <2>. QED BY <2>1, <2>2 DEF At
<1>4. 1 \in S => Rank(S, 1) = 1
  <2>1. 1 \in S => {i \in S : i <= 1} = {1}
    <3>1. ASSUME NEW i \in S, i <= 1 PROVE i = 1
      <4>1. i \in Int /\ 1 <= i
        OBVIOUS
      <4>. QED BY <3>1, <4>1
    <3>2. 1 <= 1
      OBVIOUS
    <3>. QED BY <3>1, <3>2
  <2>. QED BY <2>1, FS_Singleton DEF Rank
<1>5. \A n \in 1..Cardinality(S) : \E k \in S : At(msgs, S)[n] = msgs[k] /\ (k = 1 => n = 1)
  BY <1>1, <1>3, <1>4
<1>6. \A k \in S : \E n \in 1..Cardinality(S) : At(msgs, S)[n] = msgs[k]
  BY <1>1, <1>3
<1>7. At(msgs, S) \in Seq({msgs[k] : k \in S}) /\ Len(At(msgs, S)) = Cardinality(S)
  <2> DEFINE f == At(msgs, S)
  <2>1. f = [n \in 1..Cardinality(S) |-> f[n]]
    BY DEF At
  <2> HIDE DEF f
  <2>2. \A n \in 1..Cardinality(S) : f[n] \in {msgs[k] : k \in S}
    BY <1>5 DEF f
  <2>3. f \in Seq({msgs[k] : k \in S}) /\ Len(f) = Cardinality(S)
    BY <1>1, <2>1, <2>2, SequenceOf
  <2>. QED BY <2>3 DEF f
<1>8. S # {} => At(msgs, S) # <<>>
  BY <1>1, <1>2, <1>7
<1>9. \A n \in 1..Len(At(msgs, S)) : \E k \in S : At(msgs, S)[n] = msgs[k] /\ (k = 1 => n = 1)
  BY <1>5, <1>7
<1>10. \A k \in S : \E n \in 1..Len(At(msgs, S)) : At(msgs, S)[n] = msgs[k]
  BY <1>6, <1>7
<1>. QED BY <1>8, <1>9, <1>10 DEF Lists

LEMMA AtType ==
  ASSUME NEW E, NEW msgs, NEW len \in Nat, NEW S, S \subseteq 1..len, \A k \in S : msgs[k] \in E
  PROVE  At(msgs, S) \in Seq(E)
<1> DEFINE f == At(msgs, S)
<1>1. IsFiniteSet(1..len)
  BY FS_Interval
<1>2. Cardinality(S) \in Nat
  BY <1>1, FS_Subset, FS_CardinalityType
<1>3. f = [n \in 1..Cardinality(S) |-> f[n]]
  BY DEF At
<1>4. Lists(f, msgs, S)
  BY AtMeans
<1> HIDE DEF f
<1>5. Len(f) = Cardinality(S)
  BY <1>2, <1>3
<1>6. \A n \in 1..Cardinality(S) : f[n] \in E
  BY <1>4, <1>5 DEF Lists
<1>7. f \in Seq(E)
  BY <1>2, <1>3, <1>6, SequenceOf
<1>. QED BY <1>7 DEF f

\* The list takes each position in S once: f says which.
Picks(f, list, msgs, S, len) ==
  /\ f \in Injection(1..Len(list), 1..len)
  /\ \A n \in 1..Len(list) : f[n] \in S /\ list[n] = msgs[f[n]]
  /\ \A k \in S : \E n \in 1..Len(list) : f[n] = k

LEMMA AtPicks ==
  ASSUME NEW msgs, NEW len \in Nat, NEW S, S \subseteq 1..len
  PROVE  \E f : Picks(f, At(msgs, S), msgs, S, len)
<1> DEFINE size == Cardinality(S)
           f    == [n \in 1..size |-> CHOOSE k \in S : Rank(S, k) = n]
<1>1. /\ IsFiniteSet(S) /\ size \in Nat
      /\ \A k \in S : Rank(S, k) \in 1..size
      /\ \A j, k \in S : j < k => Rank(S, j) < Rank(S, k)
      /\ \A n \in 1..size : \E k \in S : Rank(S, k) = n
  BY RankMeans
<1>2. Len(At(msgs, S)) = size
  <2> DEFINE list == At(msgs, S)
  <2>1. list = [n \in 1..size |-> list[n]]
    BY DEF At
  <2> HIDE DEF list
  <2>2. Len(list) = size
    BY <1>1, <2>1
  <2>. QED BY <2>2 DEF list
<1>3. \A n \in 1..size : f[n] \in S /\ Rank(S, f[n]) = n /\ At(msgs, S)[n] = msgs[f[n]]
  BY <1>1 DEF At
<1>4. \A j, k \in S : Rank(S, j) = Rank(S, k) => j = k
  <2>1. SUFFICES ASSUME NEW j \in S, NEW k \in S, Rank(S, j) = Rank(S, k) PROVE j = k
    OBVIOUS
  <2>2. PICK r \in Nat : r = Rank(S, j) /\ r = Rank(S, k)
    BY <1>1, <2>1
  <2>3. ~(r < r)
    OBVIOUS
  <2>4. ~(j < k) /\ ~(k < j)
    BY <1>1, <2>2, <2>3
  <2>5. j \in Int /\ k \in Int
    OBVIOUS
  <2>. QED BY <2>4, <2>5
<1>5. \A k \in S : \E n \in 1..size : f[n] = k
  <2>1. SUFFICES ASSUME NEW k \in S PROVE f[Rank(S, k)] = k /\ Rank(S, k) \in 1..size
    OBVIOUS
  <2>2. Rank(S, k) \in 1..size
    BY <1>1
  <2>. QED BY <1>3, <1>4, <2>2
<1>6. f \in [1..size -> 1..len]
  BY <1>3
<1> HIDE DEF f
<1>7. f \in Injection(1..size, 1..len)
  <2>1. \A m, n \in 1..size : f[m] = f[n] => m = n
    BY <1>3
  <2>. QED BY <1>6, <2>1 DEF Injection, IsInjective
<1>8. Picks(f, At(msgs, S), msgs, S, len)
  BY <1>2, <1>3, <1>5, <1>7 DEF Picks
<1>. QED BY <1>8

LEMMA NoMoreThan ==
  ASSUME NEW m \in Nat, NEW k \in Nat, NEW f \in Injection(1..m, 1..k),
         NEW A, A \subseteq 1..m, NEW B, B \subseteq 1..k, \A n \in A : f[n] \in B
  PROVE  Cardinality(A) \in Nat /\ Cardinality(B) \in Nat /\ Cardinality(A) <= Cardinality(B)
<1>1. IsFiniteSet(A) /\ IsFiniteSet(B)
  <2>1. IsFiniteSet(1..m) /\ IsFiniteSet(1..k)
    BY FS_Interval
  <2>2. A \in SUBSET (1..m) /\ B \in SUBSET (1..k)
    OBVIOUS
  <2>. QED BY <2>1, <2>2, FS_Subset
<1> DEFINE h == [n \in A |-> f[n]]
<1>2. h \in Injection(A, B)
  <2>1. \A n \in A, l \in A : f[n] = f[l] => n = l
    BY DEF Injection, IsInjective
  <2>. QED BY <2>1 DEF Injection, IsInjective
<1>. QED BY <1>1, <1>2, FS_Injection, FS_CardinalityType

-----------------------------------------------------------------------------
(* Folding groups of messages *)

Kinds == {"user", "answer", "use", "result"} \cup Synthetic

Message ==
  [kind : Kinds, id : 0..MaxId, ops : SUBSET Ops, size : {Short, Long},
   quotes : SUBSET (0..MaxId), counts : SUBSET (0..MaxId)]

\* What folding needs of groups of positions.
AreGroups(msgs, groups) ==
  /\ \A g \in groups : g # {} /\ g \subseteq 1..Len(msgs)
  /\ \A g, h \in groups : g \cap h # {} => g = h
  /\ \A g \in groups : \A i \in g : msgs[i].kind # "summary"

\* What no stage of Trident may do to the messages it is given.
Rewrites(msgs, out) ==
  /\ out \in Seq(Message)
  /\ msgs # <<>> => out # <<>>
  /\ \A n \in 1..Len(out) :
       out[n].kind = "summary" =>
         \E k \in 1..Len(msgs) : msgs[k].kind = "summary" /\ (k = 1 => n = 1)

\* Where the messages of out come from: f says from which of msgs, but for notes.
Follows(msgs, out, f) ==
  /\ f \in Injection(1..Len(out), 1..Len(msgs))
  /\ \A n \in 1..Len(out) : out[n] = msgs[f[n]] \/ Role(out[n]) = "system"

Keeps(msgs, out, f, i) == \E n \in 1..Len(out) : f[n] = i /\ out[n] = msgs[i]

\* What each stage does: f says where the messages of out come from.
SupersedeFate(msgs, out, f) ==
  /\ Follows(msgs, out, f)
  /\ \A n \in 1..Len(out) : out[n] = msgs[f[n]]
  /\ \A i \in 1..Len(msgs) : ~Superseded(msgs, i) => Keeps(msgs, out, f, i)

IsCounted(msgs, out, kind, i) ==
  \E n \in 1..Len(out) : out[n].kind = kind /\ msgs[i].id \in out[n].counts

CollapseFate(msgs, out, f) ==
  /\ Follows(msgs, out, f)
  /\ \A i \in 1..Len(msgs) : msgs[i].kind \in Own =>
       Keeps(msgs, out, f, i) \/ (SmallTalk(msgs, i) /\ IsCounted(msgs, out, "collapsed", i))

ClusterFate(msgs, out, f) ==
  /\ Follows(msgs, out, f)
  /\ \A i \in 1..Len(msgs) : msgs[i].kind \in Own =>
       Keeps(msgs, out, f, i) \/ (OneOfMany(msgs, i) /\ IsCounted(msgs, out, "clustered", i))
  /\ \A i \in 1..Len(msgs) : msgs[i].kind = "collapsed" => Keeps(msgs, out, f, i)

LEMMA LeadMeans ==
  ASSUME NEW len \in Nat, NEW g, g \subseteq 1..len, g # {}
  PROVE  Lead(g) \in g /\ \A j \in g : Lead(g) <= j
<1>1. g \subseteq Nat
  OBVIOUS
<1>2. \E i \in g : \A j \in g : i <= j
  BY <1>1, LeastNatural
<1>. QED BY <1>2 DEF Lead

LEMMA NoteType ==
  ASSUME NEW msgs \in Seq(Message), NEW g, g \subseteq 1..Len(msgs), NEW kind \in Kinds
  PROVE  /\ Note(msgs, g, kind) \in Message
         /\ Note(msgs, g, kind).kind = kind
         /\ \A i \in g : msgs[i].kind \in Own => msgs[i].id \in Note(msgs, g, kind).counts
<1> DEFINE topics == IF kind = "collapsed" THEN {i \in g : Rank(g, i) <= Topics} ELSE {}
           quotes == Verbatim(msgs, topics)
           counts == Verbatim(msgs, g) \cup Quoted(msgs, topics) \cup Counted(msgs, topics)
<1>1. \A i \in g : msgs[i] \in Message
  OBVIOUS
<1>2. topics \subseteq g
  OBVIOUS
<1>3. Note(msgs, g, kind) = Msg(kind, 0, {}, NoteSize, quotes, counts)
  BY DEF Note
<1> HIDE DEF topics
<1>4. quotes \in SUBSET (0..MaxId) /\ counts \in SUBSET (0..MaxId)
  BY <1>1, <1>2 DEF Message, Verbatim, Quoted, Counted
<1>5. \A i \in g : msgs[i].kind \in Own => msgs[i].id \in counts
  BY DEF Verbatim
<1> HIDE DEF quotes, counts
<1>6. NoteSize \in {Short, Long} /\ 0 \in 0..MaxId
  BY OverflowConstants DEF Short, Long
<1>7. Note(msgs, g, kind) \in Message
  BY <1>3, <1>4, <1>6 DEF Msg, Message
<1>8. Note(msgs, g, kind).kind = kind /\ Note(msgs, g, kind).counts = counts
  BY <1>3 DEF Msg
<1>. QED BY <1>5, <1>7, <1>8

\* Folding keeps what is in no group, leaves a note of each group, writes no
\* summary and moves none forward.
LEMMA FoldedMeans ==
  ASSUME NEW msgs \in Seq(Message), NEW groups, AreGroups(msgs, groups),
         NEW kind \in {"collapsed", "clustered"}
  PROVE  LET out == Folded(msgs, groups, kind) IN
         /\ Rewrites(msgs, out)
         /\ \E f : /\ Follows(msgs, out, f)
                  /\ \A i \in 1..Len(msgs) :
                       \/ Keeps(msgs, out, f, i)
                       \/ \E g \in groups : i \in g /\ \E n \in 1..Len(out) : out[n] = Note(msgs, g, kind)
<1> DEFINE len    == Len(msgs)
           leads  == {Lead(g) : g \in groups}
           marked == [i \in 1..Len(msgs) |->
                        IF i \in leads THEN Note(msgs, CHOOSE g \in groups : i = Lead(g), kind)
                                       ELSE msgs[i]]
           kept   == ((1..Len(msgs)) \ UNION groups) \cup leads
           out    == Folded(msgs, groups, kind)
<1>1. len \in Nat /\ \A i \in 1..len : msgs[i] \in Message
  OBVIOUS
<1>2. \A g \in groups : Lead(g) \in g /\ Lead(g) \in 1..len /\ \A j \in g : Lead(g) <= j
  BY <1>1, LeadMeans DEF AreGroups
<1>3. kept \subseteq 1..len
  BY <1>2
<1>4. \A g \in groups : marked[Lead(g)] = Note(msgs, g, kind)
  <2>1. SUFFICES ASSUME NEW g \in groups PROVE marked[Lead(g)] = Note(msgs, g, kind)
    OBVIOUS
  <2>2. \A h \in groups : Lead(g) = Lead(h) => h = g
    BY <1>2 DEF AreGroups
  <2>3. (CHOOSE h \in groups : Lead(g) = Lead(h)) = g
    BY <2>2
  <2>4. Lead(g) \in 1..len /\ Lead(g) \in leads
    BY <1>2
  <2>. QED BY <2>3, <2>4
<1>5. \A k \in (1..len) \ leads : marked[k] = msgs[k]
  OBVIOUS
<1>6. out = At(marked, kept)
  BY DEF Folded
<1>7. kind \in Kinds /\ kind # "summary" /\ \A m : m.kind = kind => Role(m) = "system"
  BY DEF Kinds, Synthetic, Role
<1> HIDE DEF marked, out, kept
<1>8. \A k \in 1..len : marked[k] \in Message /\ (marked[k].kind = "summary" => msgs[k].kind = "summary")
  <2>1. SUFFICES ASSUME NEW k \in 1..len
                 PROVE  marked[k] \in Message /\ (marked[k].kind = "summary" => msgs[k].kind = "summary")
    OBVIOUS
  <2>2. CASE k \in leads
    <3>1. PICK g \in groups : k = Lead(g)
      BY <2>2
    <3>2. marked[k] = Note(msgs, g, kind) /\ g \subseteq 1..Len(msgs)
      BY <1>4, <3>1 DEF AreGroups
    <3>3. Note(msgs, g, kind) \in Message /\ Note(msgs, g, kind).kind = kind
      BY <1>7, <3>2, NoteType
    <3>. QED BY <1>7, <3>2, <3>3
  <2>3. CASE k \notin leads
    BY <1>1, <1>5, <2>3
  <2>. QED BY <2>2, <2>3
<1>9. out \in Seq(Message) /\ Lists(out, marked, kept)
  <2>1. \A k \in kept : marked[k] \in Message
    BY <1>3, <1>8
  <2>2. len \in Nat /\ kept \subseteq 1..len
    BY <1>1, <1>3
  <2> HIDE DEF len
  <2>. QED BY <1>6, <2>1, <2>2, AtMeans, AtType
<1>10. /\ kept # {} => out # <<>>
       /\ \A n \in 1..Len(out) : \E k \in kept : out[n] = marked[k] /\ (k = 1 => n = 1)
       /\ \A k \in kept : \E n \in 1..Len(out) : out[n] = marked[k]
  BY <1>9 DEF Lists
<1>11. msgs # <<>> => out # <<>>
  <2>1. ASSUME msgs # <<>> PROVE kept # {}
    <3>1. 1 \in 1..len
      BY <2>1
    <3>2. CASE \E g \in groups : 1 \in g
      BY <3>2 DEF kept
    <3>3. CASE 1 \notin UNION groups
      BY <3>1, <3>3 DEF kept
    <3>. QED BY <3>2, <3>3
  <2>. QED BY <1>10, <2>1
<1>12. \A n \in 1..Len(out) :
         out[n].kind = "summary" =>
           \E k \in 1..Len(msgs) : msgs[k].kind = "summary" /\ (k = 1 => n = 1)
  <2>1. ASSUME NEW n \in 1..Len(out), out[n].kind = "summary"
        PROVE  \E k \in 1..Len(msgs) : msgs[k].kind = "summary" /\ (k = 1 => n = 1)
    <3>1. PICK k \in kept : out[n] = marked[k] /\ (k = 1 => n = 1)
      BY <1>10
    <3>2. k \in 1..len /\ msgs[k].kind = "summary"
      BY <1>3, <1>8, <2>1, <3>1
    <3>. QED BY <3>1, <3>2
  <2>. QED BY <2>1
<1>13. PICK f \in Injection(1..Len(out), 1..len) :
         /\ \A n \in 1..Len(out) : f[n] \in kept /\ out[n] = marked[f[n]]
         /\ \A k \in kept : \E n \in 1..Len(out) : f[n] = k
  <2>1. len \in Nat /\ kept \subseteq 1..len
    BY <1>1, <1>3
  <2> HIDE DEF len
  <2>2. PICK f : Picks(f, At(marked, kept), marked, kept, len)
    BY <2>1, AtPicks
  <2>. QED BY <1>6, <2>2 DEF Picks
<1>14. Follows(msgs, out, f)
  <2>1. SUFFICES ASSUME NEW n \in 1..Len(out) PROVE out[n] = msgs[f[n]] \/ Role(out[n]) = "system"
    BY <1>13 DEF Follows
  <2>2. out[n] = marked[f[n]] /\ f[n] \in 1..len
    BY <1>3, <1>13
  <2>3. CASE f[n] \in leads
    <3>1. PICK g \in groups : f[n] = Lead(g)
      BY <2>3
    <3>2. out[n] = Note(msgs, g, kind) /\ g \subseteq 1..Len(msgs)
      BY <1>4, <2>2, <3>1 DEF AreGroups
    <3>3. Note(msgs, g, kind).kind = kind
      BY <1>7, <3>2, NoteType
    <3>. QED BY <1>7, <3>2, <3>3
  <2>. QED BY <1>5, <2>2, <2>3
<1>15. ASSUME NEW k \in 1..len
       PROVE  \/ Keeps(msgs, out, f, k)
              \/ \E g \in groups : k \in g /\ \E n \in 1..Len(out) : out[n] = Note(msgs, g, kind)
  <2>1. CASE \E g \in groups : k \in g
    <3>1. PICK g \in groups : k \in g
      BY <2>1
    <3>2. marked[Lead(g)] = Note(msgs, g, kind) /\ Lead(g) \in kept
      BY <1>4 DEF kept
    <3>. QED BY <1>10, <3>1, <3>2
  <2>2. CASE k \notin UNION groups
    <3>1. k \in kept /\ k \notin leads
      BY <1>2, <2>2 DEF kept
    <3>2. PICK n \in 1..Len(out) : f[n] = k
      BY <1>13, <3>1
    <3>. QED BY <1>5, <1>13, <3>1, <3>2 DEF Keeps
  <2>. QED BY <2>1, <2>2
<1>16. Rewrites(msgs, out)
  BY <1>9, <1>11, <1>12 DEF Rewrites
<1> HIDE DEF leads
<1>. QED BY <1>14, <1>15, <1>16 DEF out

-----------------------------------------------------------------------------
(* The stages of Trident *)

\* Superseding keeps the last message and all that are not superseded.
LEMMA SupersedeMeans ==
  ASSUME NEW msgs \in Seq(Message)
  PROVE  /\ Rewrites(msgs, Supersede(msgs))
         /\ \E f : SupersedeFate(msgs, Supersede(msgs), f)
<1> DEFINE kept == {i \in 1..Len(msgs) : ~Superseded(msgs, i)}
           out  == Supersede(msgs)
<1>1. out = At(msgs, kept)
  BY DEF Supersede
<1>2. Len(msgs) \in Nat /\ kept \subseteq 1..Len(msgs) /\ \A k \in kept : msgs[k] \in Message
  OBVIOUS
<1>3. msgs # <<>> => Len(msgs) \in kept
  BY DEF Superseded
<1> HIDE DEF kept, out
<1>4. out \in Seq(Message) /\ Lists(out, msgs, kept)
  BY <1>1, <1>2, AtMeans, AtType
<1>5. /\ kept # {} => out # <<>>
      /\ \A n \in 1..Len(out) : \E k \in kept : out[n] = msgs[k] /\ (k = 1 => n = 1)
      /\ \A k \in kept : \E n \in 1..Len(out) : out[n] = msgs[k]
  BY <1>4 DEF Lists
<1>6. Rewrites(msgs, out)
  <2>1. msgs # <<>> => out # <<>>
    BY <1>3, <1>5
  <2>2. ASSUME NEW n \in 1..Len(out), out[n].kind = "summary"
        PROVE  \E k \in 1..Len(msgs) : msgs[k].kind = "summary" /\ (k = 1 => n = 1)
    <3>1. PICK k \in kept : out[n] = msgs[k] /\ (k = 1 => n = 1)
      BY <1>5
    <3>2. k \in 1..Len(msgs) /\ msgs[k].kind = "summary"
      BY <1>2, <2>2, <3>1
    <3>. QED BY <3>1, <3>2
  <2>. QED BY <1>4, <2>1, <2>2 DEF Rewrites
<1>7. PICK f \in Injection(1..Len(out), 1..Len(msgs)) :
        /\ \A n \in 1..Len(out) : f[n] \in kept /\ out[n] = msgs[f[n]]
        /\ \A k \in kept : \E n \in 1..Len(out) : f[n] = k
  <2>1. PICK f : Picks(f, At(msgs, kept), msgs, kept, Len(msgs))
    BY <1>2, AtPicks
  <2>. QED BY <1>1, <2>1 DEF Picks
<1>8. Follows(msgs, out, f)
  BY <1>7 DEF Follows
<1>9. ASSUME NEW i \in 1..Len(msgs), ~Superseded(msgs, i)
      PROVE  Keeps(msgs, out, f, i)
  <2>1. i \in kept
    BY <1>9 DEF kept
  <2>. QED BY <1>7, <2>1 DEF Keeps
<1>10. SupersedeFate(msgs, out, f)
  BY <1>7, <1>8, <1>9 DEF SupersedeFate
<1>. QED BY <1>6, <1>10 DEF out

-----------------------------------------------------------------------------
LEMMA RunsAreGroups ==
  ASSUME NEW msgs \in Seq(Message)
  PROVE  AreGroups(msgs, ChattyRuns(msgs))
<1> DEFINE len == Len(msgs)
<1>1. len \in Nat
  OBVIOUS
<1>2. \A S \in ChattyRuns(msgs) :
        /\ \E a, b \in 1..len : S = a..b
        /\ Cardinality(S) >= CollapseThreshold
        /\ \A i \in S : Chatty(msgs[i])
        /\ \A i \in S : \A k \in {i - 1, i + 1} \cap (1..len) : Chatty(msgs[k]) => k \in S
  BY DEF ChattyRuns
<1>3. ASSUME NEW S \in ChattyRuns(msgs) PROVE S # {} /\ S \subseteq 1..len
  <2>1. S # {}
    BY <1>2, FS_EmptySet, OverflowConstants
  <2>2. PICK a \in 1..len, b \in 1..len : S = a..b
    BY <1>2
  <2>. QED BY <2>1, <2>2
\* Two runs that meet begin and end at the same place: neither can go on.
<1>4. ASSUME NEW S \in ChattyRuns(msgs), NEW T \in ChattyRuns(msgs), S \cap T # {}
      PROVE  S \subseteq T
  <2>1. PICK a \in 1..len, b \in 1..len : S = a..b
    BY <1>2
  <2>2. PICK c \in 1..len, d \in 1..len : T = c..d
    BY <1>2
  <2>3. PICK x : x \in S /\ x \in T
    BY <1>4
  <2>4. /\ x \in Int /\ a \in Int /\ b \in Int /\ c \in Int /\ d \in Int
        /\ a <= x /\ x <= b /\ c <= x /\ x <= d /\ 1 <= a /\ b <= len /\ 1 <= c /\ d <= len
    BY <1>1, <2>1, <2>2, <2>3
  <2>5. c <= a
    <3>1. SUFFICES ASSUME a < c PROVE FALSE
      BY <2>4
    <3>2. c - 1 \in S /\ c - 1 \in 1..len /\ c \in T /\ c - 1 \notin T
      BY <1>1, <2>1, <2>2, <2>4, <3>1
    <3>3. Chatty(msgs[c - 1])
      BY <1>2, <3>2
    <3>. QED BY <1>2, <3>2, <3>3
  <2>6. b <= d
    <3>1. SUFFICES ASSUME d < b PROVE FALSE
      BY <2>4
    <3>2. d + 1 \in S /\ d + 1 \in 1..len /\ d \in T /\ d + 1 \notin T
      BY <1>1, <2>1, <2>2, <2>4, <3>1
    <3>3. Chatty(msgs[d + 1])
      BY <1>2, <3>2
    <3>. QED BY <1>2, <3>2, <3>3
  <2>. QED BY <2>1, <2>2, <2>4, <2>5, <2>6
<1>5. \A S \in ChattyRuns(msgs) : \A i \in S : msgs[i].kind # "summary"
  BY <1>2 DEF Chatty
<1>6. \A S, T \in ChattyRuns(msgs) : S \cap T # {} => S = T
  BY <1>4
<1>. QED BY <1>3, <1>5, <1>6 DEF AreGroups

LEMMA CollapseMeans ==
  ASSUME NEW msgs \in Seq(Message)
  PROVE  /\ Rewrites(msgs, Collapse(msgs))
         /\ \E f : CollapseFate(msgs, Collapse(msgs), f)
<1> DEFINE out == Collapse(msgs)
<1>1. AreGroups(msgs, ChattyRuns(msgs))
  BY RunsAreGroups
<1>2. /\ Rewrites(msgs, out)
      /\ \E f : /\ Follows(msgs, out, f)
               /\ \A i \in 1..Len(msgs) :
                    \/ Keeps(msgs, out, f, i)
                    \/ \E g \in ChattyRuns(msgs) :
                         i \in g /\ \E n \in 1..Len(out) : out[n] = Note(msgs, g, "collapsed")
  BY <1>1, FoldedMeans DEF Collapse
<1>3. ASSUME NEW g \in ChattyRuns(msgs), NEW i \in g PROVE SmallTalk(msgs, i)
  <2>1. g \subseteq 1..Len(msgs) /\ \A k \in g : Chatty(msgs[k])
    BY <1>1 DEF AreGroups, ChattyRuns
  <2>2. Cardinality(g) >= CollapseThreshold
    BY DEF ChattyRuns
  <2> DEFINE chatty == {k \in 1..Len(msgs) : Chatty(msgs[k])}
  <2>3. g \in SUBSET chatty /\ IsFiniteSet(chatty)
    <3>1. IsFiniteSet(1..Len(msgs)) /\ chatty \in SUBSET (1..Len(msgs))
      BY FS_Interval
    <3>. QED BY <2>1, <3>1, FS_Subset
  <2>4. Cardinality(g) <= Cardinality(chatty) /\ Cardinality(g) \in Nat /\ Cardinality(chatty) \in Nat
    BY <2>3, FS_Subset, FS_CardinalityType
  <2>5. Cardinality(chatty) >= CollapseThreshold
    BY <2>2, <2>4, OverflowConstants
  <2>. QED BY <2>1, <2>5 DEF SmallTalk
<1>4. ASSUME NEW g \in ChattyRuns(msgs), NEW i \in g, msgs[i].kind \in Own
      PROVE  /\ Note(msgs, g, "collapsed").kind = "collapsed"
             /\ msgs[i].id \in Note(msgs, g, "collapsed").counts
  <2>1. g \subseteq 1..Len(msgs) /\ "collapsed" \in Kinds
    BY <1>1 DEF AreGroups, Kinds, Synthetic
  <2>. QED BY <1>4, <2>1, NoteType
<1> HIDE DEF out
<1>5. PICK f : /\ Follows(msgs, out, f)
               /\ \A i \in 1..Len(msgs) :
                    \/ Keeps(msgs, out, f, i)
                    \/ \E g \in ChattyRuns(msgs) :
                         i \in g /\ \E n \in 1..Len(out) : out[n] = Note(msgs, g, "collapsed")
  BY <1>2
<1>6. ASSUME NEW i \in 1..Len(msgs), msgs[i].kind \in Own, ~Keeps(msgs, out, f, i)
      PROVE  SmallTalk(msgs, i) /\ IsCounted(msgs, out, "collapsed", i)
  <2>1. PICK g \in ChattyRuns(msgs) : i \in g /\ \E n \in 1..Len(out) : out[n] = Note(msgs, g, "collapsed")
    BY <1>5, <1>6
  <2>. QED BY <1>3, <1>4, <1>6, <2>1 DEF IsCounted
<1>7. CollapseFate(msgs, out, f)
  BY <1>5, <1>6 DEF CollapseFate
<1>. QED BY <1>2, <1>7 DEF out

-----------------------------------------------------------------------------
\* What clustering needs of its groups, and what they are.
AreClusters(msgs, found) ==
  /\ AreGroups(msgs, found)
  /\ \A g \in found : \A i \in g : OneOfMany(msgs, i) /\ Role(msgs[i]) # "system"

LEMMA GatheredKeepsClusters ==
  ASSUME NEW msgs \in Seq(Message), NEW found, NEW i \in 1..Len(msgs), AreClusters(msgs, found)
  PROVE  AreClusters(msgs, Gathered(msgs, found, i))
<1> DEFINE free    == {j \in i..Len(msgs) : Role(msgs[j]) # "system"} \ UNION found
           members == {j \in free : j = i \/ Similar(msgs[i], msgs[j])}
<1>1. members \subseteq 1..Len(msgs) /\ \A j \in members : Role(msgs[j]) # "system"
  OBVIOUS
<1>2. \A j \in members : msgs[j].kind # "summary"
  <2>1. \A j \in members : Role(msgs[j]) # "system"
    OBVIOUS
  <2>. QED BY <2>1 DEF Role
<1>3. \A g \in found : g \cap members = {}
  OBVIOUS
<1>4. i \in free => members # {}
  OBVIOUS
<1>5. ASSUME Cardinality(members) >= ClusterMin, NEW j \in members PROVE OneOfMany(msgs, j)
  <2> DEFINE alike == {k \in 1..Len(msgs) : k = i \/ Similar(msgs[i], msgs[k])}
  <2>1. members \in SUBSET alike /\ IsFiniteSet(alike)
    <3>1. IsFiniteSet(1..Len(msgs)) /\ alike \in SUBSET (1..Len(msgs))
      BY FS_Interval
    <3>. QED BY <1>1, <3>1, FS_Subset
  <2>2. /\ Cardinality(members) <= Cardinality(alike)
        /\ Cardinality(members) \in Nat /\ Cardinality(alike) \in Nat
    BY <2>1, FS_Subset, FS_CardinalityType
  <2> HIDE DEF members
  <2>3. j \in alike /\ Cardinality(alike) >= ClusterMin
    BY <1>5, <2>1, <2>2, OverflowConstants
  <2>. QED BY <2>3 DEF OneOfMany
<1> HIDE DEF members, free
<1>6. i \in free => AreGroups(msgs, found \cup {members})
  <2>1. SUFFICES ASSUME i \in free PROVE AreGroups(msgs, found \cup {members})
    OBVIOUS
  <2>2. \A g \in found \cup {members} : g # {} /\ g \subseteq 1..Len(msgs)
    BY <1>1, <1>4, <2>1 DEF AreGroups, AreClusters
  <2>3. \A g, h \in found \cup {members} : g \cap h # {} => g = h
    BY <1>3 DEF AreGroups, AreClusters
  <2>4. \A g \in found \cup {members} : \A j \in g : msgs[j].kind # "summary"
    BY <1>2 DEF AreGroups, AreClusters
  <2>. QED BY <2>2, <2>3, <2>4 DEF AreGroups
<1>7. i \in free /\ Cardinality(members) >= ClusterMin => AreClusters(msgs, found \cup {members})
  BY <1>1, <1>5, <1>6 DEF AreClusters
<1>8. \/ Gathered(msgs, found, i) = found
      \/ /\ i \in free /\ Cardinality(members) >= ClusterMin
         /\ Gathered(msgs, found, i) = found \cup {members}
  BY DEF Gathered, members, free
<1>. QED BY <1>7, <1>8

\* The equation of the recursive function in Clusters has a solution.
LEMMA GatheringEnds ==
  ASSUME NEW msgs, NEW len \in Nat
  PROVE  \E f : f = [i \in 0..len |-> IF i = 0 THEN {} ELSE Gathered(msgs, f[i - 1], i)]
<1> DEFINE Is(f, n) == f = [i \in 0..n |-> IF i = 0 THEN {} ELSE Gathered(msgs, f[i - 1], i)]
           T == {n \in Nat : ~ \E f : Is(f, n)}
<1>1. SUFFICES T = {}
  OBVIOUS
<1>2. SUFFICES ASSUME T # {} PROVE FALSE
  OBVIOUS
<1>3. T \subseteq Nat
  OBVIOUS
<1> HIDE DEF T
<1>4. PICK m \in T : \A k \in T : m <= k
  BY <1>2, <1>3, LeastNatural
<1>5. m \in Nat /\ ~ \E f : Is(f, m)
  BY DEF T
<1>6. m # 0
  <2>1. Is([i \in 0..0 |-> {}], 0)
    OBVIOUS
  <2>. QED BY <1>5, <2>1
<1>7. m - 1 \in Nat /\ m - 1 \notin T
  BY <1>4, <1>5, <1>6
<1>8. PICK f : Is(f, m - 1)
  BY <1>7 DEF T
<1> DEFINE g == [i \in 0..m |-> IF i < m THEN f[i] ELSE Gathered(msgs, f[m - 1], m)]
<1>9. ASSUME NEW i \in 0..m
      PROVE  g[i] = IF i = 0 THEN {} ELSE Gathered(msgs, g[i - 1], i)
  <2>1. CASE i = 0
    BY <1>5, <1>6, <1>8, <2>1
  <2>2. CASE i # 0 /\ i < m
    <3>1. i \in 0..(m - 1) /\ i - 1 \in 0..m /\ i - 1 < m
      BY <1>5, <2>2
    <3>2. g[i] = f[i] /\ g[i - 1] = f[i - 1]
      BY <2>2, <3>1
    <3>3. f[i] = Gathered(msgs, f[i - 1], i)
      BY <1>8, <2>2, <3>1
    <3>. QED BY <2>2, <3>2, <3>3
  <2>3. CASE i = m
    <3>1. m - 1 \in 0..m /\ m - 1 < m /\ ~(m < m)
      BY <1>5, <1>6
    <3>2. g[m] = Gathered(msgs, f[m - 1], m) /\ g[m - 1] = f[m - 1]
      BY <2>3, <3>1
    <3>. QED BY <1>6, <2>3, <3>2
  <2>. QED BY <1>5, <2>1, <2>2, <2>3
<1>10. Is(g, m)
  BY <1>9
<1>. QED BY <1>5, <1>10

LEMMA ClustersAre ==
  ASSUME NEW msgs \in Seq(Message)
  PROVE  AreClusters(msgs, Clusters(msgs))
<1> DEFINE len == Len(msgs)
           found == CHOOSE f : f = [i \in 0..len |-> IF i = 0 THEN {} ELSE Gathered(msgs, f[i - 1], i)]
           T == {n \in 0..len : ~AreClusters(msgs, found[n])}
<1>1. len \in Nat
  OBVIOUS
<1>2. found = [i \in 0..len |-> IF i = 0 THEN {} ELSE Gathered(msgs, found[i - 1], i)]
  BY <1>1, GatheringEnds
<1>3. Clusters(msgs) = found[len]
  BY DEF Clusters
<1> HIDE DEF found
<1>4. T = {}
  <2>1. SUFFICES ASSUME T # {} PROVE FALSE
    OBVIOUS
  <2>2. T \subseteq Nat
    OBVIOUS
  <2> HIDE DEF T
  <2>3. PICK m \in T : \A k \in T : m <= k
    BY <2>1, <2>2, LeastNatural
  <2>4. m \in 0..len /\ ~AreClusters(msgs, found[m])
    BY DEF T
  <2>5. m # 0
    <3>1. AreClusters(msgs, {})
      BY DEF AreGroups, AreClusters
    <3>2. found[0] = {}
      BY <1>1, <1>2
    <3>. QED BY <2>4, <3>1, <3>2
  <2>6. m - 1 \in 0..len /\ m - 1 \notin T
    BY <1>1, <2>3, <2>4, <2>5
  <2>7. AreClusters(msgs, found[m - 1])
    BY <2>6 DEF T
  <2>8. found[m] = Gathered(msgs, found[m - 1], m)
    BY <1>2, <2>4, <2>5
  <2>9. m \in 1..Len(msgs)
    BY <1>1, <2>4, <2>5
  <2>. QED BY <2>4, <2>7, <2>8, <2>9, GatheredKeepsClusters
<1>5. len \notin T /\ len \in 0..len
  BY <1>1, <1>4
<1>. QED BY <1>3, <1>5 DEF T

LEMMA ClusterMeans ==
  ASSUME NEW msgs \in Seq(Message)
  PROVE  /\ Rewrites(msgs, Cluster(msgs))
         /\ \E f : ClusterFate(msgs, Cluster(msgs), f)
<1> DEFINE out == Cluster(msgs)
<1>1. AreClusters(msgs, Clusters(msgs))
  BY ClustersAre
<1>2. /\ Rewrites(msgs, out)
      /\ \E f : /\ Follows(msgs, out, f)
               /\ \A i \in 1..Len(msgs) :
                    \/ Keeps(msgs, out, f, i)
                    \/ \E g \in Clusters(msgs) :
                         i \in g /\ \E n \in 1..Len(out) : out[n] = Note(msgs, g, "clustered")
  BY <1>1, FoldedMeans DEF Cluster, AreClusters
<1>3. ASSUME NEW g \in Clusters(msgs), NEW i \in g, msgs[i].kind \in Own
      PROVE  /\ Note(msgs, g, "clustered").kind = "clustered"
             /\ msgs[i].id \in Note(msgs, g, "clustered").counts
  <2>1. g \subseteq 1..Len(msgs) /\ "clustered" \in Kinds
    BY <1>1 DEF AreClusters, AreGroups, Kinds, Synthetic
  <2>. QED BY <1>3, <2>1, NoteType
<1> HIDE DEF out
<1>4. PICK f : /\ Follows(msgs, out, f)
               /\ \A i \in 1..Len(msgs) :
                    \/ Keeps(msgs, out, f, i)
                    \/ \E g \in Clusters(msgs) :
                         i \in g /\ \E n \in 1..Len(out) : out[n] = Note(msgs, g, "clustered")
  BY <1>2
<1>5. ASSUME NEW i \in 1..Len(msgs), msgs[i].kind \in Own, ~Keeps(msgs, out, f, i)
      PROVE  OneOfMany(msgs, i) /\ IsCounted(msgs, out, "clustered", i)
  <2>1. PICK g \in Clusters(msgs) : i \in g /\ \E n \in 1..Len(out) : out[n] = Note(msgs, g, "clustered")
    BY <1>4, <1>5
  <2>. QED BY <1>1, <1>3, <1>5, <2>1 DEF AreClusters, IsCounted
<1>6. ASSUME NEW i \in 1..Len(msgs), msgs[i].kind = "collapsed" PROVE Keeps(msgs, out, f, i)
  <2>1. Role(msgs[i]) = "system"
    BY <1>6 DEF Role
  <2>. QED BY <1>1, <1>4, <2>1 DEF AreClusters
<1>7. ClusterFate(msgs, out, f)
  BY <1>4, <1>5, <1>6 DEF ClusterFate
<1>. QED BY <1>2, <1>7 DEF out

-----------------------------------------------------------------------------
LEMMA RewritesCompose ==
  ASSUME NEW a, NEW b, NEW c, Rewrites(a, b), Rewrites(b, c)
  PROVE  Rewrites(a, c)
<1>1. c \in Seq(Message) /\ (a # <<>> => c # <<>>)
  BY DEF Rewrites
<1>2. ASSUME NEW n \in 1..Len(c), c[n].kind = "summary"
      PROVE  \E k \in 1..Len(a) : a[k].kind = "summary" /\ (k = 1 => n = 1)
  <2>1. PICK k \in 1..Len(b) : b[k].kind = "summary" /\ (k = 1 => n = 1)
    BY <1>2 DEF Rewrites
  <2>2. PICK j \in 1..Len(a) : a[j].kind = "summary" /\ (j = 1 => k = 1)
    BY <2>1 DEF Rewrites
  <2>. QED BY <2>1, <2>2
<1>. QED BY <1>1, <1>2 DEF Rewrites

\* Messages alike after a stage were alike before it.
LEMMA ManyBefore ==
  ASSUME NEW a \in Seq(Message), NEW b \in Seq(Message), NEW f, Follows(a, b, f),
         NEW n \in 1..Len(b), Role(b[n]) # "system", OneOfMany(b, n)
  PROVE  OneOfMany(a, f[n])
<1>1. /\ f \in Injection(1..Len(b), 1..Len(a))
      /\ \A k \in 1..Len(b) : f[k] \in 1..Len(a) /\ (b[k] = a[f[k]] \/ Role(b[k]) = "system")
  BY DEF Follows, Injection
<1>2. PICK j \in 1..Len(b) :
        LET alike == {k \in 1..Len(b) : k = j \/ Similar(b[j], b[k])}
        IN  n \in alike /\ Cardinality(alike) >= ClusterMin
  BY DEF OneOfMany
<1> DEFINE after  == {k \in 1..Len(b) : k = j \/ Similar(b[j], b[k])}
           before == {k \in 1..Len(a) : k = f[j] \/ Similar(a[f[j]], a[k])}
<1>3. \A k \in after : Role(b[k]) = Role(b[j])
  BY DEF Similar
<1>4. \A k \in after : Role(b[k]) # "system"
  BY <1>2, <1>3
<1>5. j \in after
  OBVIOUS
<1>6. \A k \in after : b[k] = a[f[k]]
  BY <1>1, <1>4
<1>7. \A k \in after : f[k] \in before
  BY <1>1, <1>5, <1>6
<1>8. after \subseteq 1..Len(b) /\ before \subseteq 1..Len(a) /\ Len(a) \in Nat /\ Len(b) \in Nat
  OBVIOUS
<1>9. n \in after /\ Cardinality(after) >= ClusterMin
  BY <1>2
<1> HIDE DEF after, before
<1>10. /\ Cardinality(after) \in Nat /\ Cardinality(before) \in Nat
       /\ Cardinality(after) <= Cardinality(before)
  BY <1>1, <1>7, <1>8, NoMoreThan
<1>11. f[n] \in before /\ Cardinality(before) >= ClusterMin
  BY <1>7, <1>9, <1>10, OverflowConstants
<1>. QED BY <1>1, <1>11 DEF before, OneOfMany

LEMMA TalkBefore ==
  ASSUME NEW a \in Seq(Message), NEW b \in Seq(Message), NEW f, Follows(a, b, f),
         \A n \in 1..Len(b) : b[n] = a[f[n]],
         NEW n \in 1..Len(b), SmallTalk(b, n)
  PROVE  SmallTalk(a, f[n])
<1> DEFINE after  == {k \in 1..Len(b) : Chatty(b[k])}
           before == {k \in 1..Len(a) : Chatty(a[k])}
<1>1. /\ f \in Injection(1..Len(b), 1..Len(a))
      /\ \A k \in 1..Len(b) : f[k] \in 1..Len(a) /\ b[k] = a[f[k]]
  BY DEF Follows, Injection
<1>2. \A k \in after : f[k] \in before
  BY <1>1
<1>3. after \subseteq 1..Len(b) /\ before \subseteq 1..Len(a) /\ Len(a) \in Nat /\ Len(b) \in Nat
  OBVIOUS
<1>4. Cardinality(after) >= CollapseThreshold /\ Chatty(b[n])
  BY DEF SmallTalk
<1> HIDE DEF after, before
<1>5. /\ Cardinality(after) \in Nat /\ Cardinality(before) \in Nat
      /\ Cardinality(after) <= Cardinality(before)
  BY <1>1, <1>2, <1>3, NoMoreThan
<1>6. Cardinality(before) >= CollapseThreshold
  BY <1>4, <1>5, OverflowConstants
<1>. QED BY <1>1, <1>4, <1>6 DEF before, SmallTalk

\* What becomes of a message of the conversation in the three stages.
LEMMA TridentMeans ==
  ASSUME NEW msgs \in Seq(Message)
  PROVE  LET out == Trident(msgs) IN
         /\ Rewrites(msgs, out)
         /\ \A i \in 1..Len(msgs) : msgs[i].kind \in Own /\ ~Superseded(msgs, i) =>
              \/ \E n \in 1..Len(out) : out[n] = msgs[i]
              \/ /\ OneOfMany(msgs, i) \/ SmallTalk(msgs, i)
                 /\ \E n \in 1..Len(out) :
                      out[n].kind \in {"collapsed", "clustered"} /\ msgs[i].id \in out[n].counts
<1> DEFINE one == Supersede(msgs)
           two == Collapse(one)
           out == Cluster(two)
<1>1. PICK f : SupersedeFate(msgs, one, f)
  BY SupersedeMeans
<1>2. Rewrites(msgs, one) /\ one \in Seq(Message)
  BY SupersedeMeans DEF Rewrites
<1> HIDE DEF one
<1>3. PICK g : CollapseFate(one, two, g)
  BY <1>2, CollapseMeans
<1>4. Rewrites(one, two) /\ two \in Seq(Message)
  BY <1>2, CollapseMeans DEF Rewrites
<1> HIDE DEF two
<1>5. PICK h : ClusterFate(two, out, h)
  BY <1>4, ClusterMeans
<1>6. Rewrites(two, out) /\ out \in Seq(Message)
  BY <1>4, ClusterMeans DEF Rewrites
<1> HIDE DEF out
<1>7. Rewrites(msgs, out)
  BY <1>2, <1>4, <1>6, RewritesCompose
<1>8. ASSUME NEW i \in 1..Len(msgs), msgs[i].kind \in Own, ~Superseded(msgs, i)
      PROVE  \/ \E n \in 1..Len(out) : out[n] = msgs[i]
             \/ /\ OneOfMany(msgs, i) \/ SmallTalk(msgs, i)
                /\ \E n \in 1..Len(out) :
                     out[n].kind \in {"collapsed", "clustered"} /\ msgs[i].id \in out[n].counts
  <2>1. PICK n \in 1..Len(one) : f[n] = i /\ one[n] = msgs[i]
    BY <1>1, <1>8 DEF SupersedeFate, Keeps
  <2>2. CASE Keeps(one, two, g, n)
    <3>1. PICK k \in 1..Len(two) : g[k] = n /\ two[k] = one[n]
      BY <2>2 DEF Keeps
    <3>2. CASE Keeps(two, out, h, k)
      BY <2>1, <3>1, <3>2 DEF Keeps
    <3>3. CASE OneOfMany(two, k) /\ IsCounted(two, out, "clustered", k)
      <4>1. Role(two[k]) # "system"
        BY <1>8, <2>1, <3>1 DEF Role, Own
      <4>2. OneOfMany(one, n)
        BY <1>2, <1>3, <1>4, <3>1, <3>3, <4>1, ManyBefore DEF CollapseFate
      <4>3. OneOfMany(msgs, i)
        BY <1>1, <1>2, <2>1, <3>1, <4>1, <4>2, ManyBefore DEF SupersedeFate
      <4>. QED BY <2>1, <3>1, <3>3, <4>3 DEF IsCounted
    <3>. QED BY <1>5, <1>8, <2>1, <3>1, <3>2, <3>3 DEF ClusterFate
  <2>3. CASE SmallTalk(one, n) /\ IsCounted(one, two, "collapsed", n)
    <3>1. SmallTalk(msgs, i)
      BY <1>1, <1>2, <2>1, <2>3, TalkBefore DEF SupersedeFate
    <3>2. PICK k \in 1..Len(two) : two[k].kind = "collapsed" /\ one[n].id \in two[k].counts
      BY <2>3 DEF IsCounted
    <3>3. PICK m \in 1..Len(out) : out[m] = two[k]
      BY <1>5, <3>2 DEF ClusterFate, Keeps
    <3>. QED BY <2>1, <3>1, <3>2, <3>3
  <2>. QED BY <1>3, <1>8, <2>1, <2>2, <2>3 DEF CollapseFate
<1>. QED BY <1>7, <1>8 DEF out, two, one, Trident

-----------------------------------------------------------------------------
\* Where compaction cuts: at a boundary, the last one that preserves enough.
Boundary(msgs, k) == k = SummaryPrefix(msgs) \/ k = Len(msgs) \/ msgs[k + 1].kind # "result"

LEMMA PrefixType ==
  ASSUME NEW msgs \in Seq(Message)
  PROVE  /\ SummaryPrefix(msgs) \in 0..Len(msgs)
         /\ SummaryPrefix(msgs) \in {0, 1}
         /\ SummaryPrefix(msgs) = 1 <=> msgs # <<>> /\ msgs[1].kind = "summary"
<1>1. msgs # <<>> => Len(msgs) >= 1
  OBVIOUS
<1>. QED BY <1>1 DEF SummaryPrefix

LEMMA CutMeans ==
  ASSUME NEW msgs \in Seq(Message), NEW preserve \in Nat, ShouldCompact(msgs, preserve)
  PROVE  /\ KeepFrom(msgs, preserve) \in SummaryPrefix(msgs)..(Len(msgs) - preserve)
         /\ preserve = 0 => KeepFrom(msgs, preserve) = Len(msgs)
<1> DEFINE prefix == SummaryPrefix(msgs)
           raw    == Len(msgs) - preserve
           Cut(k) == Boundary(msgs, k) /\ \A l \in (k + 1)..raw : ~Boundary(msgs, l)
           T      == {d \in Nat : \E k \in prefix..raw : Boundary(msgs, k) /\ d = raw - k}
<1>1. prefix \in Nat /\ raw \in Nat /\ prefix <= raw /\ Len(msgs) \in Nat
  BY PrefixType DEF ShouldCompact
<1>2. KeepFrom(msgs, preserve) = CHOOSE k \in prefix..raw : Cut(k)
  BY DEF KeepFrom, Boundary
<1>3. \E k \in prefix..raw : Cut(k)
  <2>1. Boundary(msgs, prefix)
    BY DEF Boundary
  <2> HIDE DEF prefix, raw
  <2>2. raw - prefix \in T
    BY <1>1, <2>1
  <2>3. PICK m \in T : \A d \in T : m <= d
    BY <2>2, LeastNatural
  <2>4. PICK k \in prefix..raw : Boundary(msgs, k) /\ m = raw - k
    BY <2>3
  <2>5. ASSUME NEW l \in (k + 1)..raw, Boundary(msgs, l) PROVE FALSE
    <3>1. l \in prefix..raw /\ raw - l \in Nat /\ raw - l < raw - k
      BY <1>1, <2>4, <2>5
    <3>2. raw - l \in T
      BY <2>5, <3>1
    <3>. QED BY <1>1, <2>3, <2>4, <3>1, <3>2
  <2>. QED BY <2>4, <2>5
<1> DEFINE keep == CHOOSE k \in prefix..raw : Cut(k)
<1>4. keep \in prefix..raw /\ Cut(keep)
  BY <1>3
<1>5. preserve = 0 => Boundary(msgs, raw)
  BY <1>1 DEF Boundary
<1> HIDE DEF keep, prefix, raw
<1>6. ASSUME preserve = 0 PROVE keep = raw
  <2>1. SUFFICES ASSUME keep # raw PROVE FALSE
    OBVIOUS
  <2>2. raw \in (keep + 1)..raw
    BY <1>1, <1>4, <2>1
  <2>. QED BY <1>4, <1>5, <1>6, <2>2
<1>7. preserve = 0 => raw = Len(msgs)
  BY <1>1 DEF raw
<1>. QED BY <1>2, <1>4, <1>6, <1>7 DEF keep, prefix, raw

LEMMA ConcatMeans ==
  ASSUME NEW E, NEW s \in Seq(E), NEW t \in Seq(E)
  PROVE  /\ s \o t \in Seq(E) /\ Len(s \o t) = Len(s) + Len(t)
         /\ \A n \in 1..Len(s) : (s \o t)[n] = s[n]
         /\ \A n \in 1..Len(t) : (s \o t)[Len(s) + n] = t[n]
OBVIOUS

\* What is cut is quoted or counted in the summary, which merges the one before.
LEMMA CompactedMeans ==
  ASSUME NEW msgs \in Seq(Message), NEW preserve \in Nat
  PROVE  LET out == Compacted(msgs, preserve) IN
         /\ out \in Seq(Message)
         /\ \A n \in 1..Len(msgs) : msgs[n].kind # "summary" =>
              \/ \E k \in 1..Len(out) : out[k] = msgs[n]
              \/ \E k \in 1..Len(out) : /\ msgs[n].kind \in Own => msgs[n].id \in out[k].quotes
                                       /\ msgs[n].counts \subseteq out[k].counts
         /\ (\A n \in 1..Len(msgs) : msgs[n].kind = "summary" => n = 1) =>
              \A n \in 1..Len(out) : out[n].kind = "summary" =>
                n = 1 /\ (ShouldCompact(msgs, preserve) \/ msgs[1].kind = "summary")
         /\ preserve = 0 /\ msgs # <<>> => Len(out) = 1 /\ out[1].kind = "summary"
<1> DEFINE out  == Compacted(msgs, preserve)
           keep == KeepFrom(msgs, preserve)
           removed == (SummaryPrefix(msgs) + 1)..keep
           head == Summary(msgs, removed)
           rest == SubSeq(msgs, keep + 1, Len(msgs))
<1>1. CASE ~ShouldCompact(msgs, preserve)
  <2>1. out = msgs
    BY <1>1 DEF Compacted
  <2>2. preserve = 0 /\ msgs # <<>> => Len(msgs) = 1 /\ msgs[1].kind = "summary"
    <3>1. Len(msgs) \in Nat /\ (msgs # <<>> => Len(msgs) >= 1)
      OBVIOUS
    <3>2. PICK p \in {0, 1} : p = SummaryPrefix(msgs)
      BY PrefixType
    <3>3. p = 1 => msgs[1].kind = "summary"
      BY <3>2, PrefixType
    <3>4. ~(Len(msgs) - p > preserve)
      BY <1>1, <3>2 DEF ShouldCompact
    <3>5. preserve = 0 /\ msgs # <<>> => Len(msgs) = 1 /\ p = 1
      <4>1. SUFFICES ASSUME preserve = 0, msgs # <<>> PROVE Len(msgs) = 1 /\ p = 1
        OBVIOUS
      <4>2. PICK len \in Nat : len = Len(msgs) /\ len >= 1 /\ ~(len - p > 0)
        BY <3>1, <3>4, <4>1
      <4>3. len = 1 /\ p = 1
        BY <4>2
      <4>. QED BY <4>2, <4>3
    <3>. QED BY <3>3, <3>5
  <2>3. \A n \in 1..Len(msgs) : n = 1 /\ msgs[n].kind = "summary" => msgs[1].kind = "summary"
    OBVIOUS
  <2> HIDE DEF out
  <2>4. \A n \in 1..Len(msgs) : \E k \in 1..Len(out) : out[k] = msgs[n]
    BY <2>1
  <2>. QED BY <2>1, <2>2, <2>3, <2>4 DEF out
<1>2. CASE ShouldCompact(msgs, preserve)
  <2>1. out = <<head>> \o rest
    BY <1>2 DEF Compacted
  <2>2. /\ keep \in SummaryPrefix(msgs)..(Len(msgs) - preserve) /\ keep \in 0..Len(msgs) /\ keep \in Nat
        /\ preserve = 0 => keep = Len(msgs)
        /\ keep = 0 => SummaryPrefix(msgs) = 0
    <3>1. SummaryPrefix(msgs) \in {0, 1} /\ Len(msgs) \in Nat
      BY PrefixType
    <3>2. keep \in SummaryPrefix(msgs)..(Len(msgs) - preserve) /\ (preserve = 0 => keep = Len(msgs))
      BY <1>2, CutMeans
    <3>. QED BY <3>1, <3>2
  <2> HIDE DEF keep
  <2>4. /\ rest \in Seq(Message) /\ Len(rest) = Len(msgs) - keep
        /\ \A n \in 1..(Len(msgs) - keep) : rest[n] = msgs[keep + n]
    BY <2>2
  <2>5. /\ head \in Message /\ head.kind = "summary"
        /\ \A n \in removed : /\ msgs[n].kind \in Own => msgs[n].id \in head.quotes
                             /\ msgs[n].counts \subseteq head.counts
    <3> DEFINE quotes == Verbatim(msgs, removed)
               counts == Verbatim(msgs, removed) \cup Quoted(msgs, removed) \cup Counted(msgs, removed)
    <3>1. \A n \in removed : msgs[n] \in Message
      <4>1. removed \subseteq 1..Len(msgs)
        BY <2>2, PrefixType
      <4>. QED BY <4>1
    <3>2. quotes \in SUBSET (0..MaxId) /\ counts \in SUBSET (0..MaxId)
      BY <3>1 DEF Message, Verbatim, Quoted, Counted
    <3>3. \A n \in removed : /\ msgs[n].kind \in Own => msgs[n].id \in quotes
                             /\ msgs[n].counts \subseteq counts
      BY DEF Verbatim, Counted
    <3>4. head = Msg("summary", 0, {}, Long, quotes, counts)
      BY DEF Summary
    <3> HIDE DEF quotes, counts, removed, head
    <3>5. head \in Message /\ head.kind = "summary" /\ head.quotes = quotes /\ head.counts = counts
      BY <3>2, <3>4, OverflowConstants DEF Msg, Message, Kinds, Synthetic, Short, Long
    <3>. QED BY <3>3, <3>5
  <2> HIDE DEF head, rest, out
  <2>6. /\ out \in Seq(Message) /\ Len(out) = 1 + (Len(msgs) - keep) /\ out[1] = head
        /\ \A n \in 1..(Len(msgs) - keep) : out[n + 1] = msgs[keep + n]
    <3>1. <<head>> \in Seq(Message) /\ Len(<<head>>) = 1
      BY <2>5
    <3>2. /\ out \in Seq(Message) /\ Len(out) = Len(<<head>>) + Len(rest)
          /\ \A n \in 1..Len(<<head>>) : out[n] = <<head>>[n]
      BY <2>1, <2>4, <3>1, ConcatMeans
    <3>3. Len(out) = 1 + (Len(msgs) - keep) /\ out[1] = head
      BY <2>4, <3>1, <3>2
    <3>4. \A n \in 1..(Len(msgs) - keep) : out[n + 1] = rest[n]
      BY <2>1, <2>2, <2>4, <3>1
    <3>. QED BY <2>4, <3>2, <3>4, <3>3
  <2>7. ASSUME NEW n \in 1..Len(msgs), msgs[n].kind # "summary"
        PROVE  \/ \E k \in 1..Len(out) : out[k] = msgs[n]
               \/ \E k \in 1..Len(out) : /\ msgs[n].kind \in Own => msgs[n].id \in out[k].quotes
                                        /\ msgs[n].counts \subseteq out[k].counts
    <3>1. CASE n <= keep
      <4>1. PICK p \in {0, 1} : p = SummaryPrefix(msgs) /\ (p = 1 => msgs[1].kind = "summary")
        BY PrefixType
      <4>2. ~(p = 1 /\ n = 1)
        BY <2>7, <4>1
      <4>3. n \in (p + 1)..keep
        BY <2>2, <3>1, <4>1, <4>2
      <4>4. 1 \in 1..Len(out)
        BY <2>2, <2>6
      <4>. QED BY <2>5, <2>6, <4>1, <4>3, <4>4 DEF removed
    <3>2. CASE n > keep
      <4>1. /\ n - keep \in 1..(Len(msgs) - keep) /\ keep + (n - keep) = n
            /\ n - keep + 1 \in 1..Len(out)
        BY <2>2, <2>6, <3>2
      <4>2. out[n - keep + 1] = msgs[n]
        BY <2>6, <4>1
      <4>. QED BY <4>1, <4>2
    <3>. QED BY <2>2, <3>1, <3>2
  <2>8. ASSUME \A n \in 1..Len(msgs) : msgs[n].kind = "summary" => n = 1,
               NEW n \in 1..Len(out), out[n].kind = "summary"
        PROVE  n = 1
    <3>1. SUFFICES ASSUME n # 1 PROVE FALSE
      OBVIOUS
    <3>2. n - 1 \in 1..(Len(msgs) - keep) /\ (n - 1) + 1 = n /\ keep + (n - 1) \in 1..Len(msgs)
      BY <2>2, <2>6, <3>1
    <3>3. out[n] = msgs[keep + (n - 1)]
      BY <2>6, <3>2
    <3>4. keep + (n - 1) = 1
      BY <2>8, <3>2, <3>3
    <3>5. keep = 0 /\ n = 2
      BY <2>2, <3>2, <3>4
    <3>6. msgs # <<>> /\ msgs[1].kind = "summary"
      BY <2>8, <3>2, <3>3, <3>4
    <3>. QED BY <2>2, <3>5, <3>6, PrefixType
  <2>9. preserve = 0 => Len(out) = 1 /\ out[1].kind = "summary"
    BY <2>2, <2>5, <2>6
  <2>. QED BY <1>2, <2>6, <2>7, <2>8, <2>9 DEF out
<1>. QED BY <1>1, <1>2

-----------------------------------------------------------------------------
(* The turn and its retries *)

Types ==
  /\ pc \in {"idle", "send", "overflow", "failed"}
  /\ live \in Seq(Message) /\ turn \in Seq(Message)
  /\ round \in 0..Len(Schedule)
  /\ compacted \in BOOLEAN /\ fresh \in BOOLEAN /\ adapted \in BOOLEAN /\ learnt \in BOOLEAN
  /\ prompt.kind = "user" /\ nextId \in 1..(MaxId + 1)

\* While a turn runs there is something to send, and a retry has its round.
Working ==
  /\ pc \in {"send", "overflow"} => prompt \in Message /\ turn # <<>>
  /\ pc = "overflow" => round > 0

SummaryFirst(msgs) == \A i \in 1..Len(msgs) : msgs[i].kind = "summary" => i = 1 /\ compacted

IInv ==
  /\ Types /\ Working
  /\ SummaryFirst(live) /\ OneSummaryFirst
  /\ LastResortIsMinimal

LEMMA UserType ==
  ASSUME NEW id \in 1..MaxId, NEW size \in {Short, Long}
  PROVE  /\ User(id, size) \in Message /\ User(id, size).kind = "user"
         /\ Answer(id, size) \in Message /\ Answer(id, size).kind = "answer"
BY DEF User, Answer, Msg, Message, Kinds

LEMMA RoundType ==
  ASSUME NEW id \in 1..MaxId, NEW ops \in SUBSET Ops, NEW size \in {Short, Long},
         NEW out \in [ops -> OutputSizes]
  PROVE  LET order == SetToSeq(ops)
             new   == [i \in 1..Len(order) |-> Result(id, order[i], out[order[i]])] IN
         /\ Use(id, ops, size) \in Message /\ Use(id, ops, size).kind = "use"
         /\ new \in Seq(Message) /\ \A i \in 1..Len(new) : new[i].kind = "result"
<1> DEFINE order == SetToSeq(ops)
           new   == [i \in 1..Len(order) |-> Result(id, order[i], out[order[i]])]
<1>1. IsFiniteSet(ops)
  <2> DEFINE tools == {"read", "write", "edit"}
             pair  == tools \X Paths
  <2>1. IsFiniteSet(pair)
    <3>1. IsFiniteSet({"read"}) /\ tools = ({"read"} \cup {"write"}) \cup {"edit"}
      BY FS_Singleton
    <3>2. IsFiniteSet({"read"} \cup {"write"})
      BY <3>1, FS_AddElement
    <3>3. IsFiniteSet(tools)
      BY <3>1, <3>2, FS_AddElement
    <3>. QED BY <3>3, FS_Product, OverflowConstants
  <2>2. IsFiniteSet(pair \cup {<<"other", "none">>})
    BY <2>1, FS_AddElement
  <2>. QED BY <2>2, FS_Subset DEF Ops
<1>2. Cardinality(ops) \in Nat /\ order \in [1..Cardinality(ops) -> ops]
  <2>1. Cardinality(ops) \in Nat /\ ExistsBijection(1..Cardinality(ops), ops)
    BY <1>1, FS_CardinalityType
  <2>2. \E f \in [1..Cardinality(ops) -> ops] : IsInjective(f)
    BY <2>1 DEF ExistsBijection, Bijection, Injection
  <2>. QED BY <2>1, <2>2 DEF SetToSeq
<1> HIDE DEF order
<1>3. order \in Seq(ops) /\ Len(order) \in Nat /\ \A i \in 1..Len(order) : order[i] \in ops
  BY <1>2
<1>4. ASSUME NEW i \in 1..Len(order)
      PROVE  /\ Result(id, order[i], out[order[i]]) \in Message
             /\ Result(id, order[i], out[order[i]]).kind = "result"
  <2>1. order[i] \in Ops /\ out[order[i]] \in {Short, Long}
    BY <1>3, OverflowConstants DEF Short, Long
  <2>. QED BY <2>1 DEF Result, Msg, Message, Kinds
<1>5. /\ new \in Seq(Message) /\ \A i \in 1..Len(new) : new[i].kind = "result"
  <2>1. \A i \in 1..Len(order) : new[i] = Result(id, order[i], out[order[i]])
    OBVIOUS
  <2>2. new = [i \in 1..Len(order) |-> new[i]]
    OBVIOUS
  <2> HIDE DEF new
  <2>3. \A i \in 1..Len(order) : new[i] \in Message
    BY <1>4, <2>1
  <2>4. new \in Seq(Message) /\ Len(new) = Len(order)
    BY <1>3, <2>2, <2>3, SequenceOf
  <2>. QED BY <1>4, <2>1, <2>4
<1>6. Use(id, ops, size) \in Message /\ Use(id, ops, size).kind = "use"
  BY DEF Use, Msg, Message, Kinds
<1>. QED BY <1>5, <1>6 DEF order

-----------------------------------------------------------------------------
LEMMA InitIInv == Init => IInv
<1> SUFFICES ASSUME Init PROVE IInv
  OBVIOUS
<1>1. 0 \in 0..Len(Schedule) /\ 1 \in 1..(MaxId + 1)
  BY OverflowConstants
<1>2. prompt.kind = "user"
  BY DEF Init, User, Msg
<1>3. Types
  <2>1. compacted \in BOOLEAN /\ fresh \in BOOLEAN /\ adapted \in BOOLEAN /\ learnt \in BOOLEAN
    BY Zenon DEF Init
  <2>2. live \in Seq(Message) /\ turn \in Seq(Message)
    BY DEF Init
  <2>3. round \in 0..Len(Schedule) /\ nextId \in 1..(MaxId + 1)
    BY <1>1 DEF Init
  <2>. QED BY <1>2, <2>1, <2>2, <2>3 DEF Init, Types
<1>. QED BY <1>3 DEF Init, IInv, Working, SummaryFirst, OneSummaryFirst, LastResortIsMinimal

LEMMA AppendMeans ==
  ASSUME NEW E, NEW s \in Seq(E), NEW e \in E
  PROVE  /\ Append(s, e) \in Seq(E) /\ Len(Append(s, e)) = Len(s) + 1
         /\ Append(s, e) # <<>> /\ Append(s, e)[Len(s) + 1] = e
         /\ \A n \in 1..Len(s) : Append(s, e)[n] = s[n]
OBVIOUS

LEMMA BeginTurnStep == IInv /\ BeginTurn => IInv'
<1> SUFFICES ASSUME IInv, BeginTurn PROVE IInv'
  OBVIOUS
<1>1. /\ pc = "idle" /\ nextId \in 1..MaxId /\ nextId' = nextId + 1 /\ round' = 0 /\ learnt' = FALSE
      /\ turn' = Append(live, prompt') /\ compacted' = compacted /\ fresh' = TRUE /\ adapted' = FALSE
      /\ pc' \in {"send", "failed"} /\ live' = live
      /\ prompt' \in Message /\ prompt'.kind = "user"
  <2>1. nextId \in 1..MaxId
    BY OverflowConstants DEF BeginTurn, IInv, Types
  <2>2. prompt' \in Message /\ prompt'.kind = "user"
    BY <2>1, UserType DEF BeginTurn
  <2>. QED BY <2>1, <2>2 DEF BeginTurn, Attempt
<1>2. /\ turn' \in Seq(Message) /\ Len(turn') = Len(live) + 1 /\ turn' # <<>>
      /\ turn'[Len(live) + 1] = prompt' /\ \A n \in 1..Len(live) : turn'[n] = live[n]
  BY <1>1, AppendMeans DEF IInv, Types
<1>3. Types'
  <2>1. nextId' \in 1..(MaxId + 1) /\ round' \in 0..Len(Schedule)
    BY <1>1, OverflowConstants
  <2>2. compacted' \in BOOLEAN /\ fresh' \in BOOLEAN /\ adapted' \in BOOLEAN /\ learnt' \in BOOLEAN
    BY <1>1, Zenon DEF IInv, Types
  <2>. QED BY <1>1, <1>2, <2>1, <2>2 DEF IInv, Types
<1>4. SummaryFirst(live)' /\ OneSummaryFirst'
  BY <1>1, <1>2 DEF IInv, Types, SummaryFirst, OneSummaryFirst
<1>. QED BY <1>1, <1>2, <1>3, <1>4 DEF IInv, Working, LastResortIsMinimal

LEMMA ToolRoundStep == IInv /\ ToolRound => IInv'
<1> SUFFICES ASSUME IInv, ToolRound PROVE IInv'
  OBVIOUS
<1>1. /\ pc = "send" /\ nextId \in 1..MaxId /\ nextId' = nextId + 1 /\ fresh' = FALSE
      /\ UNCHANGED <<pc, live, round, compacted, prompt, adapted, learnt>>
  BY OverflowConstants DEF ToolRound, IInv, Types
<1>2. PICK use \in Message, new \in Seq(Message) :
        /\ turn' = Append(turn, use) \o new /\ use.kind = "use"
        /\ \A i \in 1..Len(new) : new[i].kind = "result"
  <2>1. PICK ops \in SUBSET Ops, size \in {Short, Long} : \E out \in [ops -> OutputSizes] :
               LET order == SetToSeq(ops) IN
               turn' = Append(turn, Use(nextId, ops, size)) \o
                    [i \in 1..Len(order) |-> Result(nextId, order[i], out[order[i]])]
    BY DEF ToolRound
  <2>2. PICK out \in [ops -> OutputSizes] :
               LET order == SetToSeq(ops) IN
               turn' = Append(turn, Use(nextId, ops, size)) \o
                    [i \in 1..Len(order) |-> Result(nextId, order[i], out[order[i]])]
    BY <2>1
  <2>. QED BY <1>1, <2>2, RoundType
<1>3. /\ Append(turn, use) \in Seq(Message) /\ Len(Append(turn, use)) = Len(turn) + 1
      /\ Append(turn, use)[Len(turn) + 1] = use
      /\ \A n \in 1..Len(turn) : Append(turn, use)[n] = turn[n]
  BY AppendMeans DEF IInv, Types
<1>4. /\ turn' \in Seq(Message) /\ Len(turn') = Len(turn) + 1 + Len(new)
      /\ \A n \in 1..(Len(turn) + 1) : turn'[n] = Append(turn, use)[n]
      /\ \A n \in 1..Len(new) : turn'[Len(turn) + 1 + n] = new[n]
  BY <1>2, <1>3, ConcatMeans
<1>5. Len(turn) \in Nat /\ Len(new) \in Nat
  BY DEF IInv, Types
<1>6. ASSUME NEW n \in 1..Len(turn'), turn'[n].kind = "summary"
      PROVE  n \in 1..Len(turn) /\ turn[n].kind = "summary"
  <2>1. CASE n > Len(turn) + 1
    <3>1. n - (Len(turn) + 1) \in 1..Len(new) /\ n = Len(turn) + 1 + (n - (Len(turn) + 1))
      BY <1>4, <1>5, <2>1
    <3>. QED BY <1>2, <1>4, <1>6, <3>1
  <2>2. CASE n = Len(turn) + 1
    BY <1>2, <1>3, <1>4, <1>5, <1>6, <2>2
  <2>3. CASE n <= Len(turn)
    <3>1. n \in 1..Len(turn) /\ n \in 1..(Len(turn) + 1)
      BY <1>4, <1>5, <2>3
    <3>2. turn'[n] = turn[n]
      BY <1>3, <1>4, <3>1
    <3>. QED BY <1>6, <3>1, <3>2
  <2>. QED BY <1>5, <2>1, <2>2, <2>3
<1>7. turn' # <<>>
  BY <1>4, <1>5
<1>8. Types'
  <2>1. nextId' \in 1..(MaxId + 1)
    BY <1>1, OverflowConstants
  <2>2. compacted' \in BOOLEAN /\ fresh' \in BOOLEAN /\ adapted' \in BOOLEAN /\ learnt' \in BOOLEAN
    BY <1>1, Zenon DEF IInv, Types
  <2>. QED BY <1>1, <1>4, <2>1, <2>2 DEF IInv, Types
<1>9. SummaryFirst(live)' /\ OneSummaryFirst'
  BY <1>1, <1>6 DEF IInv, SummaryFirst, OneSummaryFirst
<1>. QED BY <1>1, <1>7, <1>8, <1>9 DEF IInv, Working, LastResortIsMinimal

LEMMA TurnDoneStep == IInv /\ TurnDone => IInv'
<1> SUFFICES ASSUME IInv, TurnDone PROVE IInv'
  OBVIOUS
<1>1. /\ pc = "send" /\ nextId \in 1..MaxId /\ nextId' = nextId + 1 /\ fresh' = FALSE
      /\ pc' = "idle" /\ live' = turn'
      /\ UNCHANGED <<round, compacted, prompt, adapted, learnt>>
  BY OverflowConstants DEF TurnDone, IInv, Types
<1>2. PICK answer \in Message : turn' = Append(turn, answer) /\ answer.kind = "answer"
  BY <1>1, UserType DEF TurnDone
<1>3. /\ turn' \in Seq(Message) /\ Len(turn') = Len(turn) + 1
      /\ turn'[Len(turn) + 1] = answer /\ \A n \in 1..Len(turn) : turn'[n] = turn[n]
  BY <1>2, AppendMeans DEF IInv, Types
<1>4. Types'
  <2>1. nextId' \in 1..(MaxId + 1)
    BY <1>1, OverflowConstants
  <2>2. compacted' \in BOOLEAN /\ fresh' \in BOOLEAN /\ adapted' \in BOOLEAN /\ learnt' \in BOOLEAN
    BY <1>1, Zenon DEF IInv, Types
  <2>. QED BY <1>1, <1>3, <2>1, <2>2 DEF IInv, Types
<1>5. SummaryFirst(live)' /\ OneSummaryFirst'
  BY <1>1, <1>2, <1>3 DEF IInv, Types, SummaryFirst, OneSummaryFirst
<1>. QED BY <1>1, <1>4, <1>5 DEF IInv, Working, LastResortIsMinimal

LEMMA OverflowStep == IInv /\ Overflow => IInv'
<1> SUFFICES ASSUME IInv, Overflow PROVE IInv'
  OBVIOUS
<1>1. /\ pc = "send" /\ UNCHANGED <<live, turn, compacted, prompt, fresh, nextId>>
      /\ adapted' \in BOOLEAN /\ learnt' \in BOOLEAN
      /\ \/ round < Len(Schedule) /\ pc' = "overflow" /\ round' = round + 1
         \/ pc' = "failed" /\ round' = round
  BY DEF Overflow, IInv, Types
<1>2. Len(Schedule) \in Nat
  BY OverflowConstants
<1>3. Types' /\ Working'
  BY <1>1, <1>2 DEF IInv, Types, Working
<1>4. SummaryFirst(live)' /\ OneSummaryFirst'
  BY <1>1 DEF IInv, SummaryFirst, OneSummaryFirst
<1>. QED BY <1>1, <1>3, <1>4 DEF IInv, LastResortIsMinimal

LEMMA EndStep == IInv /\ (TurnFails \/ NothingLeft) => IInv'
<1> SUFFICES ASSUME IInv, TurnFails \/ NothingLeft PROVE IInv'
  OBVIOUS
<1>1. /\ pc' = "failed"
      /\ UNCHANGED <<live, turn, round, compacted, prompt, fresh, adapted, learnt, nextId>>
  BY DEF TurnFails, NothingLeft
<1>. QED BY <1>1 DEF IInv, Types, Working, SummaryFirst, OneSummaryFirst, LastResortIsMinimal

LEMMA RetryMeans ==
  ASSUME IInv, Retry
  PROVE  /\ pc = "overflow" /\ Schedule[round] \in Nat
         /\ live' \in Seq(Message)
         /\ \A n \in 1..Len(Trident(turn)) : Trident(turn)[n].kind # "summary" =>
              \/ \E k \in 1..Len(live') : live'[k] = Trident(turn)[n]
              \/ \E k \in 1..Len(live') :
                   /\ Trident(turn)[n].kind \in Own => Trident(turn)[n].id \in live'[k].quotes
                   /\ Trident(turn)[n].counts \subseteq live'[k].counts
         /\ \A n \in 1..Len(live') : live'[n].kind = "summary" => n = 1 /\ compacted'
         /\ Schedule[round] = 0 => Len(live') = 1 /\ live'[1].kind = "summary"
         /\ compacted' \in BOOLEAN
<1> DEFINE preserve == Schedule[round]
           msgs     == Trident(turn)
<1>1. /\ pc = "overflow" /\ live' = Compacted(msgs, preserve)
      /\ compacted' = (compacted \/ ShouldCompact(msgs, preserve))
  BY DEF Retry, Attempt
<1>2. preserve \in Nat
  <2>1. round \in 1..Len(Schedule)
    BY <1>1, OverflowConstants DEF IInv, Types, Working
  <2>. QED BY <2>1, OverflowConstants
<1>3. turn \in Seq(Message) /\ turn # <<>>
  BY <1>1 DEF IInv, Types, Working
<1>4. Rewrites(turn, msgs)
  BY <1>3, TridentMeans
<1>5. msgs \in Seq(Message) /\ msgs # <<>>
  BY <1>3, <1>4 DEF Rewrites
<1>6. \A n \in 1..Len(msgs) : msgs[n].kind = "summary" => n = 1 /\ compacted
  <2>1. SUFFICES ASSUME NEW n \in 1..Len(msgs), msgs[n].kind = "summary" PROVE n = 1 /\ compacted
    OBVIOUS
  <2>2. PICK k \in 1..Len(turn) : turn[k].kind = "summary" /\ (k = 1 => n = 1)
    BY <1>4, <2>1 DEF Rewrites
  <2>. QED BY <2>2 DEF IInv, OneSummaryFirst
<1> HIDE DEF msgs, preserve
<1>7. /\ live' \in Seq(Message)
      /\ \A n \in 1..Len(msgs) : msgs[n].kind # "summary" =>
           \/ \E k \in 1..Len(live') : live'[k] = msgs[n]
           \/ \E k \in 1..Len(live') : /\ msgs[n].kind \in Own => msgs[n].id \in live'[k].quotes
                                      /\ msgs[n].counts \subseteq live'[k].counts
      /\ \A n \in 1..Len(live') : live'[n].kind = "summary" =>
           n = 1 /\ (ShouldCompact(msgs, preserve) \/ msgs[1].kind = "summary")
      /\ preserve = 0 => Len(live') = 1 /\ live'[1].kind = "summary"
  BY <1>1, <1>2, <1>5, <1>6, CompactedMeans
<1>8. \A n \in 1..Len(live') : live'[n].kind = "summary" => n = 1 /\ compacted'
  <2>1. 1 \in 1..Len(msgs)
    BY <1>5
  <2>. QED BY <1>1, <1>6, <1>7, <2>1
<1>9. compacted' \in BOOLEAN
  BY <1>1 DEF IInv, Types, ShouldCompact
<1>. QED BY <1>1, <1>2, <1>7, <1>8, <1>9 DEF msgs, preserve

LEMMA RetryStep == IInv /\ Retry => IInv'
<1> SUFFICES ASSUME IInv, Retry PROVE IInv'
  OBVIOUS
<1>1. /\ turn' = Append(live', prompt') /\ prompt' = prompt
      /\ fresh' = TRUE /\ adapted' = FALSE /\ pc' \in {"send", "failed"}
      /\ UNCHANGED <<round, learnt, nextId>>
  BY DEF Retry, Attempt
<1>2. /\ pc = "overflow" /\ live' \in Seq(Message)
      /\ \A n \in 1..Len(live') : live'[n].kind = "summary" => n = 1 /\ compacted'
      /\ Schedule[round] = 0 => Len(live') = 1 /\ live'[1].kind = "summary"
      /\ compacted' \in BOOLEAN
  BY RetryMeans
<1>3. prompt' \in Message /\ prompt'.kind = "user"
  BY <1>1, <1>2 DEF IInv, Types, Working
<1>4. /\ turn' \in Seq(Message) /\ Len(turn') = Len(live') + 1 /\ turn' # <<>>
      /\ turn'[Len(live') + 1] = prompt' /\ \A n \in 1..Len(live') : turn'[n] = live'[n]
  BY <1>1, <1>2, <1>3, AppendMeans
<1>5. Types' /\ Working'
  BY <1>1, <1>2, <1>3, <1>4 DEF IInv, Types, Working
<1>6. SummaryFirst(live)' /\ OneSummaryFirst'
  <2>1. SummaryFirst(live)'
    BY <1>2 DEF SummaryFirst
  <2>2. ASSUME NEW n \in 1..Len(turn'), turn'[n].kind = "summary" PROVE n = 1 /\ compacted'
    <3>1. CASE n \in 1..Len(live')
      BY <1>2, <1>4, <2>2, <3>1
    <3>2. CASE n = Len(live') + 1
      BY <1>3, <1>4, <2>2, <3>2
    <3>3. Len(live') \in Nat
      BY <1>2
    <3>. QED BY <1>4, <3>1, <3>2, <3>3
  <2>. QED BY <2>1, <2>2 DEF OneSummaryFirst
<1>7. LastResortIsMinimal'
  <2>1. ASSUME Schedule[round] = 0
        PROVE  Len(turn') = 2 /\ turn'[1].kind = "summary" /\ turn'[2] = prompt'
    <3>1. Len(live') = 1 /\ live'[1].kind = "summary"
      BY <1>2, <2>1
    <3>2. Len(turn') = 2 /\ turn'[2] = prompt' /\ turn'[1] = live'[1]
      BY <1>4, <3>1
    <3>. QED BY <3>1, <3>2
  <2>. QED BY <1>1, <2>1 DEF LastResortIsMinimal
<1>. QED BY <1>5, <1>6, <1>7 DEF IInv

LEMMA Inductive == IInv /\ [Next]_vars => IInv'
<1>1. ASSUME IInv, UNCHANGED vars PROVE IInv'
  BY <1>1 DEF vars, IInv, Types, Working, SummaryFirst, OneSummaryFirst, LastResortIsMinimal
<1>. QED BY <1>1, BeginTurnStep, ToolRoundStep, TurnDoneStep, OverflowStep, EndStep, RetryStep DEF Next

LEMMA Invariance == Spec => []IInv
BY InitIInv, Inductive, PTL DEF Spec

(* The state of the turn and of its retries (LiveCli::run_turn) is well formed:  *)
(* Trident and compact_session return messages of the session's kinds.        *)
THEOREM TypeCorrect == Spec => []TypeOK
<1>1. IInv => TypeOK
  <2>1. SUFFICES ASSUME IInv PROVE TypeOK
    OBVIOUS
  <2>2. ASSUME NEW m \in ToSet(live) \cup ToSet(turn) PROVE IsMessage(m)
    <3>1. m \in Message
      BY <2>1, <2>2 DEF IInv, Types, ToSet
    <3>. QED BY <3>1 DEF Message, Kinds, IsMessage
  <2>. QED BY <2>1, <2>2 DEF IInv, Types, TypeOK
<1>. QED BY <1>1, Invariance, PTL

(* However often a session is compacted and whatever Trident does to it, there *)
(* is at most one summary, first, and only in a session that was compacted.    *)
THEOREM OneSummary == Spec => []OneSummaryFirst
<1>1. IInv => OneSummaryFirst
  BY DEF IInv
<1>. QED BY <1>1, Invariance, PTL

(* The round of run_turn that preserves nothing sends exactly the summary and  *)
(* the prompt, for every schedule and whatever the earlier rounds left.        *)
THEOREM LastResort == Spec => []LastResortIsMinimal
<1>1. IInv => LastResortIsMinimal
  BY DEF IInv
<1>. QED BY <1>1, Invariance, PTL

LEMMA SupersededMeans ==
  ASSUME NEW msgs \in Seq(Message), NEW i \in 1..Len(msgs), Superseded(msgs, i)
  PROVE  Overtaken(msgs, i)
<1>1. PICK path \in FileOpsAt(msgs, i, {"read", "write", "edit"}), j \in (i + 1)..Len(msgs) :
        path \in FileOpsAt(msgs, j, {"write", "edit"})
  BY DEF Superseded
<1>2. msgs[i].kind = "use" /\ \E op \in msgs[i].ops : path = op[2]
  BY DEF FileOpsAt
<1>3. msgs[j].kind = "use" /\ \E o \in msgs[j].ops : o[1] \in {"write", "edit"} /\ o[2] = path
  BY <1>1 DEF FileOpsAt
<1>4. PICK o \in msgs[j].ops : o[1] \in {"write", "edit"} /\ o[2] = path
  BY <1>3
<1>5. o \in Ops
  <2>1. j \in 1..Len(msgs)
    OBVIOUS
  <2>2. msgs[j] \in Message
    BY <2>1
  <2>. QED BY <2>2 DEF Message
<1>6. o \in {<<"write", path>>, <<"edit", path>>}
  BY <1>4, <1>5 DEF Ops
<1>. QED BY <1>2, <1>3, <1>4, <1>6 DEF Overtaken

(* The wording of a message leaves a retry of run_turn because stage1_supersede *)
(* found it overtaken, or as one of the many that stage3_cluster finds alike,   *)
(* or as small talk for stage2_collapse; in the last two cases it is counted.   *)
(* For any thresholds, any number of excerpts and any session.                  *)
THEOREM LossesHaveCauses == Spec => WordsLeaveForCause
<1> DEFINE Said(i)    == LET said == 1..Len(live') IN
                         turn[i].id \in Verbatim(live', said) \cup Quoted(live', said)
           Counts(i)  == turn[i].id \in Counted(live', 1..Len(live'))
           Excused(i) == \/ Overtaken(turn, i)
                         \/ (OneOfMany(turn, i) \/ SmallTalk(turn, i)) /\ Counts(i)
<1>1. ASSUME IInv, [Next]_vars, pc = "overflow", pc' = "send",
             NEW i \in 1..Len(turn), turn[i].kind \in Own, ~Said(i)
      PROVE  Excused(i)
  <2>1. Retry
    BY <1>1 DEF Next, vars, BeginTurn, ToolRound, TurnDone, Overflow, TurnFails, NothingLeft
  <2> DEFINE msgs == Trident(turn)
  <2>2. \A n \in 1..Len(msgs) : msgs[n].kind # "summary" =>
          \/ \E k \in 1..Len(live') : live'[k] = msgs[n]
          \/ \E k \in 1..Len(live') : /\ msgs[n].kind \in Own => msgs[n].id \in live'[k].quotes
                                     /\ msgs[n].counts \subseteq live'[k].counts
    BY <1>1, <2>1, RetryMeans
  <2>3. turn \in Seq(Message)
    BY <1>1 DEF IInv, Types
  <2>4. \A k \in 1..Len(live') :
          /\ live'[k].kind \in Own => live'[k].id \in Verbatim(live', 1..Len(live'))
          /\ live'[k].quotes \subseteq Quoted(live', 1..Len(live'))
          /\ live'[k].counts \subseteq Counted(live', 1..Len(live'))
    BY DEF Verbatim, Quoted, Counted
  <2>5. CASE Superseded(turn, i)
    BY <2>3, <2>5, SupersededMeans
  <2>6. CASE \E n \in 1..Len(msgs) : msgs[n] = turn[i]
    <3>1. PICK n \in 1..Len(msgs) : msgs[n] = turn[i]
      BY <2>6
    <3>2. msgs[n].kind # "summary"
      BY <1>1, <3>1 DEF Own
    <3> HIDE DEF msgs
    <3>. QED BY <1>1, <2>2, <2>4, <3>1, <3>2
  <2>7. CASE /\ OneOfMany(turn, i) \/ SmallTalk(turn, i)
             /\ \E n \in 1..Len(msgs) :
                  msgs[n].kind \in {"collapsed", "clustered"} /\ turn[i].id \in msgs[n].counts
    <3>1. PICK n \in 1..Len(msgs) :
            msgs[n].kind \in {"collapsed", "clustered"} /\ turn[i].id \in msgs[n].counts
      BY <2>7
    <3> HIDE DEF msgs
    <3>2. \E k \in 1..Len(live') : turn[i].id \in live'[k].counts
      BY <2>2, <3>1
    <3>3. Counts(i)
      BY <2>4, <3>2
    <3>. QED BY <2>7, <3>3
  <2>. QED BY <1>1, <2>3, <2>5, <2>6, <2>7, TridentMeans
<1>2. IInv /\ [Next]_vars =>
        [pc = "overflow" /\ pc' = "send" =>
           LET said == 1..Len(live') IN
           \A i \in 1..Len(turn) :
             turn[i].kind \in Own /\ turn[i].id \notin Verbatim(live', said) \cup Quoted(live', said)
               => \/ Overtaken(turn, i)
                  \/ (OneOfMany(turn, i) \/ SmallTalk(turn, i)) /\ turn[i].id \in Counted(live', said)]_vars
  BY <1>1
<1>. QED BY <1>2, Invariance, PTL DEF Spec, WordsLeaveForCause
=============================================================================
