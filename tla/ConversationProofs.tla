------------------------- MODULE ConversationProofs -------------------------
(***************************************************************************)
(* Theorems of Conversation: the types; that compaction, recovery, broken  *)
(* writes, kills and reloads never leave a tool result without its tool    *)
(* use; that every tool use sent to the provider is answered; how far the  *)
(* session grows; that the file follows the session; that nothing is lost. *)
(*                                                                         *)
(* What Trident makes of a session is said by an increasing map from the   *)
(* positions of the new one to those of the old (IsTrim): a run of         *)
(* messages none of which was lost stays a run (RunsStay).  The set of     *)
(* ids Trident touched only grows, so a step that leaves it alone needs to *)
(* look at the messages only.                                              *)
(***************************************************************************)
EXTENDS Conversation, FiniteSetTheorems, WellFoundedInduction, TLAPS

\* A result stands as far behind its assistant message as its index says.
InPlace(msgs, spared) ==
  \A i \in 1..Len(msgs) : msgs[i].role = "tool" /\ msgs[i].id \notin spared =>
    \E j \in 1..(i - 1) : Answers(msgs, i, j) /\ msgs[i].n = i - j /\ msgs[j].n <= MaxTools

ResultsInPlace ==
  InPlace(messages, Touched) /\ (Loadable(disk.recs) => InPlace(disk.recs, Touched))

\* The assistant message being answered stands in msgs with k results behind it.
OpenBatch(msgs, k) ==
  \E j \in 1..Len(msgs) :
    /\ msgs[j].role = "assistant" /\ msgs[j].id = batch /\ msgs[j].n = batchSize
    /\ j + k = Len(msgs)
    /\ \A l \in (j + 1)..Len(msgs) : msgs[l].role = "tool" /\ msgs[l].id = batch

\* It has at least as many tool uses as were reached.
BatchIsOpen ==
  pc \in {"tools", "record"} =>
    /\ nextTool \in 1..batchSize /\ batchSize <= MaxTools
    /\ OpenBatch(messages, nextTool - 1)
    /\ disk.exists /\ (Loadable(disk.recs) => OpenBatch(disk.recs, nextTool - 1))

\* An unterminated line is a line.
OpenLineExists == disk.open => Len(disk.recs) > 0

\* The inductive invariant behind NoOrphanResults.
IInv == TypeOK /\ ResultsInPlace /\ BatchIsOpen /\ OpenLineExists

\* The least-number principle, for a set: what stands in for induction.
LEMMA LeastNatural ==
  ASSUME NEW T, T \subseteq Nat, T # {}
  PROVE  \E m \in T : \A k \in T : m <= k
<1>1. \E m \in T : \A k \in T : ~(<<k, m>> \in OpToRel(<, Nat))
  BY NatLessThanWellFounded, WFMin
<1>2. PICK m \in T : \A k \in T : ~(<<k, m>> \in OpToRel(<, Nat))
  BY <1>1
<1>3. ASSUME NEW k \in T PROVE m <= k
  <2>1. k \in Nat /\ m \in Nat
    OBVIOUS
  <2>2. ~(k < m)
    BY <1>2, <2>1 DEF OpToRel
  <2>. QED BY <2>1, <2>2
<1>. QED BY <1>3

LEMMA MoreTouched ==
  ASSUME NEW msgs, NEW spared, NEW more, spared \subseteq more, InPlace(msgs, spared)
  PROVE  InPlace(msgs, more)
BY DEF InPlace

LEMMA InPlacePairs == ASSUME NEW msgs, NEW spared, InPlace(msgs, spared) PROVE Paired(msgs, spared)
BY DEF InPlace, Paired

-----------------------------------------------------------------------------
(* The boundary of a compaction *)

LEMMA BoundaryExists ==
  ASSUME NEW msgs \in Seq(Message), NEW preserve \in Nat, ShouldCompact(msgs, preserve)
  PROVE  /\ KeepFrom(msgs, preserve) \in SummaryPrefix(msgs)..(Len(msgs) - preserve)
         /\ IsBoundary(msgs, KeepFrom(msgs, preserve))
         /\ \A l \in (KeepFrom(msgs, preserve) + 1)..(Len(msgs) - preserve) : ~IsBoundary(msgs, l)
<1>1. PICK p, raw : p = SummaryPrefix(msgs) /\ raw = Len(msgs) - preserve
  OBVIOUS
<1>2. p \in {0, 1} /\ raw \in Int /\ p < raw
  BY <1>1 DEF SummaryPrefix, ShouldCompact
<1> DEFINE Back == {b \in 0..(raw - p) : IsBoundary(msgs, raw - b)}
<1>3. raw - p \in Back
  <2>1. raw - p \in 0..(raw - p) /\ raw - (raw - p) = p
    BY <1>2
  <2>. QED BY <1>1, <2>1 DEF IsBoundary
<1>4. PICK b \in Back : \A c \in Back : b <= c
  <2>1. Back \subseteq Nat
    <3>1. Back \subseteq 0..(raw - p)
      OBVIOUS
    <3>. HIDE DEF Back
    <3>. QED BY <3>1
  <2>2. Back # {}
    BY <1>3
  <2>. HIDE DEF Back
  <2>. QED BY <2>1, <2>2, LeastNatural
<1>5. raw - b \in p..raw /\ IsBoundary(msgs, raw - b)
  BY <1>2, <1>4
<1>6. ASSUME NEW l \in ((raw - b) + 1)..raw PROVE ~IsBoundary(msgs, l)
  <2>1. raw - l \in 0..(raw - p) /\ ~(b <= raw - l) /\ raw - (raw - l) = l
    BY <1>2, <1>4, <1>6
  <2>. QED BY <1>4, <2>1
<1>7. \E k \in p..raw : IsBoundary(msgs, k) /\ \A l \in (k + 1)..raw : ~IsBoundary(msgs, l)
  BY <1>5, <1>6
<1>8. KeepFrom(msgs, preserve) =
        CHOOSE k \in p..raw : IsBoundary(msgs, k) /\ \A l \in (k + 1)..raw : ~IsBoundary(msgs, l)
  BY <1>1 DEF KeepFrom
<1>. QED BY <1>1, <1>7, <1>8

LEMMA FunctionIsSequence ==
  ASSUME NEW S, NEW n \in Nat, NEW f \in [1..n -> S]
  PROVE  f \in Seq(S) /\ Len(f) = n
OBVIOUS

LEMMA CompactedShape ==
  ASSUME NEW msgs \in Seq(Message), NEW preserve \in Nat, ShouldCompact(msgs, preserve)
  PROVE  LET k == KeepFrom(msgs, preserve)
             c == Compacted(msgs, preserve)
         IN  /\ k \in Nat /\ k <= Len(msgs) - preserve
             /\ c \in Seq(Message)
             /\ Len(c) = Len(msgs) - k + 1
             /\ c[1] = Summary
             /\ \A i \in 2..Len(c) : c[i] = msgs[k + i - 1]
<1> DEFINE k == KeepFrom(msgs, preserve)
           c == Compacted(msgs, preserve)
           len == Len(msgs) - k + 1
<1>1. SummaryPrefix(msgs) \in {0, 1} /\ Len(msgs) \in Nat
  BY DEF SummaryPrefix
<1>2. k \in Nat /\ k <= Len(msgs) - preserve /\ k <= Len(msgs)
  <2>1. k \in SummaryPrefix(msgs)..(Len(msgs) - preserve)
    BY BoundaryExists
  <2>. HIDE DEF k
  <2>. QED BY <1>1, <2>1
<1>3. len \in Nat
  <2>. HIDE DEF k
  <2>. QED BY <1>1, <1>2
<1>4. Summary \in Message
  BY DEF Summary, Message
<1>5. \A i \in 1..len : i # 1 => k + i - 1 \in 1..Len(msgs)
  <2>. HIDE DEF k
  <2>. QED BY <1>1, <1>2
<1>6. c = [i \in 1..len |-> IF i = 1 THEN Summary ELSE msgs[k + i - 1]]
  BY DEF Compacted
<1>7. c \in [1..len -> Message]
  <2>. HIDE DEF k, c, len
  <2>. QED BY <1>4, <1>5, <1>6
<1>8. c \in Seq(Message) /\ Len(c) = len
  <2>. HIDE DEF c, len
  <2>. QED BY <1>3, <1>7, FunctionIsSequence
<1>9. c[1] = Summary
  <2>1. 1 \in 1..len
    <3>. HIDE DEF k
    <3>. QED BY <1>1, <1>2
  <2>. HIDE DEF k, c, len
  <2>. QED BY <1>6, <2>1
<1>10. \A i \in 2..len : c[i] = msgs[k + i - 1]
  <2>1. \A i \in 2..len : i \in 1..len /\ i # 1
    <3>. HIDE DEF len
    <3>. QED BY <1>3
  <2>. HIDE DEF k, c, len
  <2>. QED BY <1>6, <2>1
<1>. QED BY <1>2, <1>8, <1>9, <1>10

(* Compaction keeps every result behind its assistant message, and the      *)
(* distance between the two.                                                *)
LEMMA CompactionKeepsPlaces ==
  ASSUME NEW msgs \in Seq(Message), NEW spared, InPlace(msgs, spared),
         NEW preserve \in Nat, ShouldCompact(msgs, preserve)
  PROVE  InPlace(Compacted(msgs, preserve), spared)
<1>1. PICK k, c : k = KeepFrom(msgs, preserve) /\ c = Compacted(msgs, preserve)
  OBVIOUS
<1>2. /\ k \in Nat /\ k <= Len(msgs) /\ Len(msgs) \in Nat /\ Len(c) = Len(msgs) - k + 1
      /\ c[1].role = "system"
      /\ \A i \in 2..Len(c) : c[i] = msgs[k + i - 1]
  BY <1>1, CompactedShape DEF Summary
<1>3. SUFFICES ASSUME NEW i \in 1..Len(c), c[i].role = "tool", c[i].id \notin spared
               PROVE  \E j \in 1..(i - 1) : Answers(c, i, j) /\ c[i].n = i - j /\ c[j].n <= MaxTools
  BY <1>1 DEF InPlace
<1>4. i \in 2..Len(c) /\ c[i] = msgs[k + i - 1]
  BY <1>2, <1>3
<1>5. PICK p : p = k + i - 1 /\ p \in 1..Len(msgs) /\ k \in Nat /\ i \in Nat /\ i >= 2
  BY <1>2, <1>4
<1>6. PICK q \in 1..(p - 1) : Answers(msgs, p, q) /\ msgs[p].n = p - q /\ msgs[q].n <= MaxTools
  <2>1. msgs[p] = c[i]
    BY <1>4, <1>5
  <2>. QED BY <1>3, <1>5, <2>1 DEF InPlace
<1>7. k < q
  <2>1. SUFFICES ASSUME q <= k PROVE FALSE
    BY <1>2, <1>6
  <2>2. k + 1 \in (q + 1)..p
    BY <1>5, <2>1
  <2>3. msgs[k + 1].role = "tool"
    BY <1>6, <2>2 DEF Answers
  <2>4. k # Len(msgs)
    BY <1>2, <1>5, <2>2
  <2>5. k = SummaryPrefix(msgs)
    BY <1>1, <2>3, <2>4, BoundaryExists DEF IsBoundary
  <2>6. k = 1 /\ msgs[1] = Summary
    BY <1>6, <2>1, <2>5 DEF SummaryPrefix
  <2>7. q = 1
    BY <1>6, <2>1, <2>6
  <2>. QED BY <1>6, <2>6, <2>7 DEF Answers, Summary
<1>8. PICK j : j = q - k + 1 /\ j \in 2..(i - 1) /\ i - j = p - q /\ k + j - 1 = q
  BY <1>5, <1>7
<1>9. \A l \in j..i : c[l] = msgs[k + l - 1] /\ k + l - 1 \in q..p /\ (l # j => k + l - 1 \in (q + 1)..p)
  BY <1>2, <1>4, <1>5, <1>6, <1>7, <1>8
<1>10. k + j - 1 = q /\ j \in j..i
  BY <1>5, <1>8
<1>11. c[j] = msgs[q]
  BY <1>9, <1>10
<1>12. \A l \in (j + 1)..i : l \in j..i /\ l # j
  BY <1>4, <1>8
<1>13. Answers(c, i, j)
  <2>1. c[i] = msgs[p]
    BY <1>4, <1>5
  <2>2. \A l \in (j + 1)..i : c[l].role = "tool" /\ c[l].id = msgs[p].id
    BY <1>6, <1>9, <1>12 DEF Answers
  <2>. QED BY <1>6, <1>11, <2>1, <2>2 DEF Answers
<1>14. j \in 1..(i - 1)
  BY <1>4, <1>8
<1>. QED BY <1>4, <1>5, <1>6, <1>8, <1>11, <1>13, <1>14

LEMMA CompactStep ==
  ASSUME NEW msgs \in Seq(Message), NEW spared, InPlace(msgs, spared),
         NEW preserve \in Nat, ShouldCompact(msgs, preserve)
  PROVE  /\ Compacted(msgs, preserve) \in Seq(Message) /\ InPlace(Compacted(msgs, preserve), spared)
         /\ Removed(msgs, preserve) \subseteq Message
         /\ preserve # 0 =>
              /\ Len(Compacted(msgs, preserve)) > 1
              /\ Compacted(msgs, preserve)[Len(Compacted(msgs, preserve))] = msgs[Len(msgs)]
<1>1. PICK k, c, len : k = KeepFrom(msgs, preserve) /\ c = Compacted(msgs, preserve) /\ len = Len(msgs)
  OBVIOUS
<1>2. /\ k \in Nat /\ k <= len - preserve /\ len \in Nat
      /\ c \in Seq(Message) /\ Len(c) = len - k + 1
      /\ \A i \in 2..Len(c) : c[i] = msgs[k + i - 1]
  BY <1>1, CompactedShape
<1>3. Removed(msgs, preserve) \subseteq Message
  <2>1. SummaryPrefix(msgs) \in Nat
    BY DEF SummaryPrefix
  <2>2. \A i \in (SummaryPrefix(msgs) + 1)..k : i \in 1..len
    BY <1>2, <2>1
  <2>3. \A i \in (SummaryPrefix(msgs) + 1)..k : msgs[i] \in Message
    BY <1>1, <2>2
  <2>. QED BY <1>1, <2>3 DEF Removed
<1>4. ASSUME preserve # 0 PROVE Len(c) > 1 /\ c[Len(c)] = msgs[len]
  <2>1. Len(c) \in 2..Len(c) /\ k + Len(c) - 1 = len
    BY <1>2, <1>4
  <2>. QED BY <1>2, <2>1
<1>. QED BY <1>1, <1>2, <1>3, <1>4, CompactionKeepsPlaces

-----------------------------------------------------------------------------
(* What Trident leaves of a session *)

\* Ranks number the positions in S from 1, in order and without a gap.
LEMMA RankMeans ==
  ASSUME NEW len \in Nat, NEW S, S \subseteq 1..len
  PROVE  /\ IsFiniteSet(S) /\ Cardinality(S) \in Nat
         /\ \A k \in S : Rank(S, k) \in 1..Cardinality(S)
         /\ \A j, k \in S : j < k => Rank(S, j) < Rank(S, k)
         /\ \A n \in 1..Cardinality(S) : \E k \in S : Rank(S, k) = n
<1>1. IsFiniteSet(S) /\ Cardinality(S) \in Nat
  <2>1. IsFiniteSet(1..len)
    BY FS_Interval
  <2>2. IsFiniteSet(S)
    BY <2>1, FS_Subset
  <2>. QED BY <2>2, FS_CardinalityType
<1>2. \A T \in SUBSET S : /\ IsFiniteSet(T) /\ Cardinality(T) \in Nat
                          /\ Cardinality(T) <= Cardinality(S)
  BY <1>1, FS_Subset, FS_CardinalityType
<1>3. ASSUME NEW k \in S PROVE Rank(S, k) \in 1..Cardinality(S)
  <2> DEFINE T == {i \in S : i <= k}
  <2>1. T \in SUBSET S /\ k \in T
    OBVIOUS
  <2>2. Cardinality(T) # 0
    BY <1>2, <2>1, FS_EmptySet
  <2>. QED BY <1>1, <1>2, <2>1, <2>2 DEF Rank
<1>4. ASSUME NEW j \in S, NEW k \in S, j < k PROVE Rank(S, j) < Rank(S, k)
  <2> DEFINE T == {i \in S : i <= j}
             U == {i \in S : i <= k}
  <2>1. T \in SUBSET U /\ U \in SUBSET S /\ k \in U /\ k \notin T
    <3>1. j \in Int /\ k \in Int /\ \A i \in S : i \in Int
      OBVIOUS
    <3>2. \A i \in S : i <= j => i <= k
      BY <1>4, <3>1
    <3>3. ~(k <= j) /\ k <= k
      BY <1>4, <3>1
    <3>. QED BY <3>2, <3>3
  <2>2. IsFiniteSet(U) /\ Cardinality(U) \in Nat /\ Cardinality(T) \in Nat
    BY <1>2, <2>1
  <2>3. Cardinality(T) <= Cardinality(U) /\ Cardinality(T) # Cardinality(U)
    BY <2>1, <2>2, FS_Subset
  <2>. QED BY <2>2, <2>3 DEF Rank
<1>5. ASSUME NEW n \in 1..Cardinality(S) PROVE \E k \in S : Rank(S, k) = n
  <2> DEFINE f == [k \in S |-> Rank(S, k)]
  <2>1. f \in Injection(S, 1..Cardinality(S))
    <3>1. f \in [S -> 1..Cardinality(S)]
      BY <1>3
    <3>2. \A j, k \in S : f[j] = f[k] => j = k
      <4>1. SUFFICES ASSUME NEW j \in S, NEW k \in S, Rank(S, j) = Rank(S, k), j # k PROVE FALSE
        OBVIOUS
      <4>2. Rank(S, j) \in Nat /\ Rank(S, k) \in Nat
        BY <1>1, <1>3
      <4>3. j < k \/ k < j
        BY <4>1
      <4>. QED BY <1>4, <4>1, <4>2, <4>3
    <3>. QED BY <3>1, <3>2 DEF Injection, IsInjective
  <2>2. IsFiniteSet(1..Cardinality(S)) /\ Cardinality(1..Cardinality(S)) = Cardinality(S)
    BY <1>1, FS_Interval
  <2>3. f \in Surjection(S, 1..Cardinality(S))
    BY <2>1, <2>2, FS_Injection
  <2>. QED BY <2>3 DEF Surjection
<1>. QED BY <1>1, <1>3, <1>4, <1>5

\* f says where the messages of out stood in msgs; lost are those dropped or folded.
IsTrim(msgs, out, lost, f) ==
  /\ out \in Seq(Message) /\ f \in [1..Len(out) -> 1..Len(msgs)]
  /\ \A a, b \in 1..Len(out) : a < b => f[a] < f[b]
  /\ \A a \in 1..Len(out) : out[a] = msgs[f[a]] \/ (out[a] = Note /\ msgs[f[a]] \in lost)
  /\ \A i \in 1..Len(msgs) : msgs[i] \notin lost => \E a \in 1..Len(out) : f[a] = i

LEMMA TrimmedMeans ==
  ASSUME NEW msgs \in Seq(Message), NEW over \in SUBSET Overtakable(msgs),
         NEW fold \in Folds(msgs, over)
  PROVE  LET lost == {msgs[i] : i \in over \cup Folded(fold)}
         IN  lost \subseteq Message /\ \E f : IsTrim(msgs, Trimmed(msgs, over, fold), lost, f)
<1> DEFINE gone == over \cup Folded(fold)
           lost == {msgs[i] : i \in gone}
           stay == ((1..Len(msgs)) \ gone) \cup Leads(fold)
           At(n) == CHOOSE k \in stay : Rank(stay, k) = n
           out  == Trimmed(msgs, over, fold)
<1>1. Len(msgs) \in Nat
  OBVIOUS
<1>2. Folded(fold) \subseteq 1..Len(msgs)
  <2>1. \A f \in 1..MaxFolds : fold[f] \subseteq 1..Len(msgs)
    BY DEF Folds
  <2>. QED BY <2>1 DEF Folded
<1>3. Leads(fold) \subseteq Folded(fold)
  BY DEF Leads
<1>4. gone \subseteq 1..Len(msgs) /\ stay \subseteq 1..Len(msgs)
  BY <1>2, <1>3 DEF Overtakable
<1>5. lost \subseteq Message
  BY <1>4
<1> HIDE DEF gone
<1>6. out = [n \in 1..Cardinality(stay) |-> IF At(n) \in Leads(fold) THEN Note ELSE msgs[At(n)]]
  BY DEF Trimmed, gone
<1> HIDE DEF stay, out
<1>7. /\ Cardinality(stay) \in Nat
      /\ \A k \in stay : Rank(stay, k) \in 1..Cardinality(stay)
      /\ \A j, k \in stay : j < k => Rank(stay, j) < Rank(stay, k)
      /\ \A n \in 1..Cardinality(stay) : \E k \in stay : Rank(stay, k) = n
  BY <1>1, <1>4, RankMeans
<1>8. PICK size : size = Cardinality(stay) /\ size \in Nat
  BY <1>7
<1> DEFINE f == [n \in 1..size |-> At(n)]
<1>9. \A n \in 1..size : At(n) \in stay /\ Rank(stay, At(n)) = n
  BY <1>7, <1>8
<1>10. \A k \in stay : Rank(stay, k) \in 1..size /\ At(Rank(stay, k)) = k
  <2>1. ASSUME NEW j \in stay, NEW k \in stay, Rank(stay, j) = Rank(stay, k) PROVE j = k
    <3>1. PICK r \in Nat : r = Rank(stay, j) /\ r = Rank(stay, k)
      BY <1>7, <2>1
    <3>2. ~(r < r)
      OBVIOUS
    <3>3. ~(j < k) /\ ~(k < j)
      BY <1>7, <3>1, <3>2
    <3>4. j \in Int /\ k \in Int
      BY <1>4
    <3>. QED BY <3>3, <3>4
  <2>2. TAKE k \in stay
  <2>3. Rank(stay, k) \in 1..size
    BY <1>7, <1>8
  <2>. HIDE DEF At
  <2>. QED BY <1>9, <2>1, <2>3
<1> HIDE DEF At
<1>11. \A n \in 1..size : out[n] = IF f[n] \in Leads(fold) THEN Note ELSE msgs[f[n]]
  BY <1>6, <1>8
<1>12. f \in [1..size -> 1..Len(msgs)] /\ \A n \in 1..size : f[n] \in stay /\ Rank(stay, f[n]) = n
  BY <1>4, <1>9
<1>13. \A k \in stay : \E a \in 1..size : f[a] = k
  BY <1>10
<1>14. out = [n \in 1..size |-> out[n]]
  BY <1>6, <1>8
<1> HIDE DEF f
<1>15. out \in Seq(Message) /\ Len(out) = size
  <2>1. \A n \in 1..size : out[n] \in Message
    <3>1. TAKE n \in 1..size
    <3>2. f[n] \in 1..Len(msgs)
      BY <1>12
    <3>3. msgs[f[n]] \in Message
      BY <3>2
    <3>4. Note \in Message
      BY DEF Note, Message
    <3>. QED BY <1>11, <3>3, <3>4
  <2>2. out \in [1..size -> Message]
    BY <1>14, <2>1
  <2>. QED BY <1>8, <2>2, FunctionIsSequence
<1>16. ASSUME NEW a \in 1..size, NEW b \in 1..size, a < b PROVE f[a] < f[b]
  <2>1. f[a] \in stay /\ f[b] \in stay /\ Rank(stay, f[a]) = a /\ Rank(stay, f[b]) = b
    BY <1>12
  <2>2. PICK x, y : x = f[a] /\ y = f[b] /\ x \in Int /\ y \in Int
    <3>1. \A k \in stay : k \in Int
      BY <1>4
    <3>. QED BY <2>1, <3>1
  <2>3. ~(b < a) /\ a # b
    BY <1>8, <1>16
  <2>4. ~(y < x) /\ x # y
    BY <1>7, <2>1, <2>2, <2>3
  <2>. QED BY <2>2, <2>4
<1>17. \A a \in 1..size : out[a] = msgs[f[a]] \/ (out[a] = Note /\ msgs[f[a]] \in lost)
  BY <1>3, <1>11 DEF gone
<1>18. \A i \in 1..Len(msgs) : msgs[i] \notin lost => \E a \in 1..size : f[a] = i
  <2>1. TAKE i \in 1..Len(msgs)
  <2>2. msgs[i] \notin lost => i \in stay
    BY DEF stay
  <2>. QED BY <1>13, <2>2
<1> HIDE DEF lost
<1>19. IsTrim(msgs, out, lost, f)
  BY <1>12, <1>15, <1>16, <1>17, <1>18 DEF IsTrim
<1>. QED BY <1>5, <1>19 DEF lost, out, gone

\* Behind one another before, none of them lost: behind one another after.
LEMMA RunsStay ==
  ASSUME NEW msgs \in Seq(Message), NEW out, NEW lost, NEW f, IsTrim(msgs, out, lost, f),
         NEW a \in 1..Len(out), NEW d \in Nat, d < f[a],
         \A l \in (f[a] - d)..f[a] : msgs[l] \notin lost
  PROVE  \A e \in 0..d : a - e \in 1..Len(out) /\ f[a - e] = f[a] - e /\ out[a - e] = msgs[f[a] - e]
<1>1. PICK i, n : i = f[a] /\ n = Len(out) /\ i \in 1..Len(msgs) /\ n \in Nat /\ Len(msgs) \in Nat
  BY DEF IsTrim
<1> DEFINE Off == {e \in 0..d : ~(a - e \in 1..n /\ f[a - e] = i - e)}
<1>2. Off = {}
  <2>1. SUFFICES ASSUME Off # {} PROVE FALSE
    OBVIOUS
  <2>2. PICK e \in Off : \A g \in Off : e <= g
    <3>1. Off \subseteq Nat
      OBVIOUS
    <3>. HIDE DEF Off
    <3>. QED BY <2>1, <3>1, LeastNatural
  <2>3. e # 0
    <3>1. a - 0 = a /\ i - 0 = i
      BY <1>1
    <3>. QED BY <1>1, <3>1
  <2>4. e - 1 \in 0..d /\ e - 1 \notin Off
    BY <2>2, <2>3
  <2>5. PICK b : b = a - (e - 1) /\ b \in 1..n /\ f[b] = i - (e - 1)
    BY <2>4
  <2>6. i - e \in 1..Len(msgs) /\ i - e \in (i - d)..i
    BY <1>1, <2>2
  <2>7. PICK c \in 1..n : f[c] = i - e
    BY <1>1, <2>6 DEF IsTrim
  <2>8. c < b
    <3>1. ~(f[b] < f[c]) /\ f[b] # f[c]
      BY <1>1, <2>2, <2>5, <2>7
    <3>2. ~(b < c) /\ b # c
      BY <1>1, <2>5, <3>1 DEF IsTrim
    <3>. QED BY <1>1, <2>5, <3>2
  <2>9. c = b - 1
    <3>1. SUFFICES ASSUME c < b - 1 PROVE FALSE
      BY <1>1, <2>5, <2>8
    <3>2. b - 1 \in 1..n /\ b - 1 < b
      BY <1>1, <2>5, <3>1
    <3>3. PICK z : z = b - 1 /\ z \in 1..n /\ z < b /\ c < z
      BY <3>1, <3>2
    <3>4. f[c] < f[z] /\ f[z] < f[b] /\ f[z] \in 1..Len(msgs)
      BY <1>1, <2>5, <3>3 DEF IsTrim
    <3>5. i - e < f[z] /\ f[z] < i - (e - 1) /\ f[z] \in Int /\ i \in Int /\ e \in Int
      BY <1>1, <2>2, <2>5, <2>7, <3>4
    <3>. QED BY <3>5
  <2>10. b - 1 = a - e
    BY <1>1, <2>2, <2>5
  <2>. QED BY <2>2, <2>7, <2>9, <2>10
<1>3. ASSUME NEW e \in 0..d
      PROVE  a - e \in 1..n /\ f[a - e] = i - e /\ out[a - e] = msgs[i - e]
  <2>1. a - e \in 1..n /\ f[a - e] = i - e
    BY <1>2
  <2>2. msgs[i - e] \notin lost
    BY <1>1
  <2>. QED BY <1>1, <2>1, <2>2 DEF IsTrim
<1>. QED BY <1>1, <1>3

LEMMA TrimKeepsPlaces ==
  ASSUME NEW msgs \in Seq(Message), NEW out, NEW lost, NEW f, IsTrim(msgs, out, lost, f),
         NEW spared, InPlace(msgs, spared), \A m \in lost : m.id \in spared
  PROVE  InPlace(out, spared)
<1>1. SUFFICES ASSUME NEW a \in 1..Len(out), out[a].role = "tool", out[a].id \notin spared
               PROVE  \E b \in 1..(a - 1) :
                        Answers(out, a, b) /\ out[a].n = a - b /\ out[b].n <= MaxTools
  BY DEF InPlace
<1>2. PICK i : i = f[a] /\ i \in 1..Len(msgs) /\ out[a] = msgs[i]
  BY <1>1 DEF IsTrim, Note
<1>3. PICK j \in 1..(i - 1) : Answers(msgs, i, j) /\ msgs[i].n = i - j /\ msgs[j].n <= MaxTools
  BY <1>1, <1>2 DEF InPlace
<1>4. PICK d \in Nat : d = i - j /\ d < i /\ d # 0
  BY <1>2, <1>3
<1>5. \A l \in j..i : msgs[l].id = msgs[i].id
  <2>1. \A l \in j..i : l = j \/ l \in (j + 1)..i
    BY <1>2, <1>3
  <2>. QED BY <1>3, <2>1 DEF Answers
<1>6. \A l \in (i - d)..i : msgs[l] \notin lost
  <2>1. i - d = j
    BY <1>2, <1>3, <1>4
  <2>. QED BY <1>1, <1>2, <1>5, <2>1
<1>7. \A e \in 0..d : a - e \in 1..Len(out) /\ out[a - e] = msgs[i - e]
  <2>1. d < f[a] /\ \A l \in (f[a] - d)..f[a] : msgs[l] \notin lost
    BY <1>2, <1>4, <1>6
  <2>2. \A e \in 0..d : a - e \in 1..Len(out) /\ f[a - e] = f[a] - e /\ out[a - e] = msgs[f[a] - e]
    BY <2>1, RunsStay
  <2>. QED BY <1>2, <2>2
<1>8. PICK b : b = a - d /\ b \in 1..Len(out) /\ b \in 1..(a - 1) /\ a - b = i - j /\ a \in Nat /\ i \in Nat
  <2>1. a \in Nat /\ i \in Nat
    BY <1>2 DEF IsTrim
  <2>2. d \in 0..d
    BY <1>4
  <2>3. a - d \in 1..Len(out)
    BY <1>7, <2>2
  <2>. QED BY <1>3, <1>4, <2>1, <2>3
<1>9. \A l \in b..a : out[l] = msgs[j + (l - b)] /\ j + (l - b) \in j..i
                      /\ (l # b => j + (l - b) \in (j + 1)..i)
  <2>1. TAKE l \in b..a
  <2>2. a - l \in 0..d /\ a - (a - l) = l /\ i - (a - l) = j + (l - b) /\ j + (l - b) \in j..i
        /\ (l # b => j + (l - b) \in (j + 1)..i)
    BY <1>4, <1>8
  <2>. QED BY <1>7, <2>2
<1>10. out[b] = msgs[j]
  <2>1. b \in b..a /\ j + (b - b) = j
    BY <1>3, <1>8
  <2>. QED BY <1>9, <2>1
<1>11. \A l \in (b + 1)..a : l \in b..a /\ l # b
  BY <1>8
<1>12. Answers(out, a, b)
  <2>1. \A l \in (b + 1)..a : out[l].role = "tool" /\ out[l].id = msgs[i].id
    BY <1>3, <1>9, <1>11 DEF Answers
  <2>. QED BY <1>2, <1>3, <1>10, <2>1 DEF Answers
<1>. QED BY <1>2, <1>3, <1>8, <1>10, <1>12

-----------------------------------------------------------------------------
(* Appending one message *)

LEMMA AppendNonTool ==
  ASSUME NEW S, NEW msgs \in Seq(S), NEW m \in S, NEW spared, InPlace(msgs, spared),
         m.role # "tool"
  PROVE  InPlace(Append(msgs, m), spared)
<1>1. SUFFICES ASSUME NEW i \in 1..Len(Append(msgs, m)), Append(msgs, m)[i].role = "tool",
                      Append(msgs, m)[i].id \notin spared
               PROVE  \E j \in 1..(i - 1) :
                        /\ Answers(Append(msgs, m), i, j)
                        /\ Append(msgs, m)[i].n = i - j /\ Append(msgs, m)[j].n <= MaxTools
  BY DEF InPlace
<1>2. i \in 1..Len(msgs) /\ Append(msgs, m)[i] = msgs[i]
  BY <1>1
<1>3. PICK j \in 1..(i - 1) : Answers(msgs, i, j) /\ msgs[i].n = i - j /\ msgs[j].n <= MaxTools
  BY <1>1, <1>2 DEF InPlace
<1>4. \A l \in j..i : Append(msgs, m)[l] = msgs[l]
  BY <1>2, <1>3
<1>5. Answers(Append(msgs, m), i, j)
  BY <1>2, <1>3, <1>4 DEF Answers
<1>. QED BY <1>2, <1>3, <1>4, <1>5

LEMMA AppendResult ==
  ASSUME NEW S, NEW msgs \in Seq(S), NEW spared, InPlace(msgs, spared), OpenBatch(msgs, nextTool - 1),
         ToolResult(batch, nextTool) \in S, batchSize \in Nat,
         nextTool \in 1..batchSize, batchSize <= MaxTools
  PROVE  LET s == Append(msgs, ToolResult(batch, nextTool))
         IN  InPlace(s, spared) /\ OpenBatch(s, nextTool)
<1> DEFINE m == ToolResult(batch, nextTool)
           s == Append(msgs, m)
<1>1. /\ Len(s) = Len(msgs) + 1 /\ Len(msgs) \in Nat
      /\ \A i \in 1..Len(msgs) : s[i] = msgs[i]
      /\ s[Len(msgs) + 1] = m
  OBVIOUS
<1>2. m.role = "tool" /\ m.id = batch /\ m.n = nextTool
  BY DEF ToolResult
<1>. HIDE DEF s, m
<1>3. PICK j \in 1..Len(msgs) :
        /\ msgs[j].role = "assistant" /\ msgs[j].id = batch /\ msgs[j].n = batchSize
        /\ j + (nextTool - 1) = Len(msgs)
        /\ \A l \in (j + 1)..Len(msgs) : msgs[l].role = "tool" /\ msgs[l].id = batch
  BY DEF OpenBatch
<1>4. j + nextTool = Len(s) /\ s[j] = msgs[j]
  BY <1>1, <1>3
<1>5. \A l \in (j + 1)..Len(s) : s[l].role = "tool" /\ s[l].id = batch
  <2>1. TAKE l \in (j + 1)..Len(s)
  <2>2. CASE l = Len(msgs) + 1
    BY <1>1, <1>2, <2>2
  <2>3. CASE l # Len(msgs) + 1
    <3>1. l \in (j + 1)..Len(msgs)
      BY <1>1, <1>3, <2>3
    <3>2. l \in 1..Len(msgs)
      BY <1>1, <1>3, <3>1
    <3>. QED BY <1>1, <1>3, <3>1, <3>2
  <2>. QED BY <2>2, <2>3
<1>6. OpenBatch(s, nextTool)
  BY <1>1, <1>3, <1>5, <1>4 DEF OpenBatch
<1>7. Answers(s, Len(s), j)
  BY <1>1, <1>2, <1>3, <1>5 DEF Answers
<1>8. ASSUME NEW i \in 1..Len(s), s[i].role = "tool", s[i].id \notin spared
      PROVE  \E q \in 1..(i - 1) : Answers(s, i, q) /\ s[i].n = i - q /\ s[q].n <= MaxTools
  <2>1. CASE i = Len(s)
    <3>1. j \in 1..(i - 1) /\ s[i].n = i - j /\ s[j].n <= MaxTools
      BY <1>1, <1>2, <1>3, <1>4, <2>1
    <3>. QED BY <1>7, <2>1, <3>1
  <2>2. CASE i # Len(s)
    <3>1. i \in 1..Len(msgs) /\ msgs[i].role = "tool" /\ msgs[i].id \notin spared
      BY <1>1, <1>8, <2>2
    <3>2. PICK q \in 1..(i - 1) : Answers(msgs, i, q) /\ msgs[i].n = i - q /\ msgs[q].n <= MaxTools
      BY <3>1 DEF InPlace
    <3>3. \A l \in q..i : s[l] = msgs[l]
      BY <1>1, <3>1, <3>2
    <3>4. Answers(s, i, q)
      <4>1. q \in q..i /\ i \in q..i /\ \A l \in (q + 1)..i : l \in q..i
        BY <3>1, <3>2
      <4>2. s[q] = msgs[q] /\ s[i] = msgs[i] /\ \A l \in (q + 1)..i : s[l] = msgs[l]
        BY <3>3, <4>1
      <4>. QED BY <3>2, <4>2 DEF Answers
    <3>5. i \in 1..Len(msgs) /\ q \in 1..Len(msgs)
      BY <1>1, <3>1, <3>2
    <3>6. s[i] = msgs[i] /\ s[q] = msgs[q]
      BY <1>1, <3>5
    <3>. QED BY <3>2, <3>4, <3>6
  <2>. QED BY <2>1, <2>2
<1>9. InPlace(s, spared)
  BY <1>8 DEF InPlace
<1>. QED BY <1>6, <1>9 DEF s, m

Disk == [exists : BOOLEAN, recs : Seq(Record), open : BOOLEAN]

(* Whatever the write of m leaves, the file is a file, and still pairs every *)
(* result if it loads.                                                       *)
LEMMA FileAfterWrite ==
  ASSUME TypeOK, ResultsInPlace, NEW m \in Message,
         InPlace(Append(messages, m), Touched),
         Loadable(disk.recs) => InPlace(Append(disk.recs, m), Touched),
         NEW d \in {FileWith(m)} \cup FileAfterBrokenWrite(m)
  PROVE  d \in Disk /\ (Loadable(d.recs) => InPlace(d.recs, Touched))
<1>1. disk \in Disk /\ disk.recs \in Seq(Record) /\ messages \in Seq(Message)
  BY DEF TypeOK, Disk
<1>2. Message \subseteq Record /\ Torn \in Record /\ m \in Record
  BY DEF Record
<1>3. Append(messages, m) \in Seq(Record)
  BY <1>1, <1>2
<1> DEFINE spoilt == [disk.recs EXCEPT ![Len(disk.recs)] = Torn]
<1>4. spoilt \in Seq(Record) /\ (Loadable(spoilt) => InPlace(spoilt, Touched))
  <2>1. CASE Len(disk.recs) = 0
    <3>1. spoilt = disk.recs
      BY <1>1, <2>1
    <3>. QED BY <1>1, <3>1 DEF ResultsInPlace
  <2>2. CASE Len(disk.recs) # 0
    <3>1. /\ spoilt \in Seq(Record) /\ Len(spoilt) = Len(disk.recs)
          /\ spoilt[Len(disk.recs)] = Torn /\ Len(disk.recs) \in 1..Len(spoilt)
      BY <1>1, <1>2, <2>2
    <3>. QED BY <3>1 DEF Loadable
  <2>. QED BY <2>1, <2>2
<1> DEFINE longer(r) == Append(disk.recs, r)
<1>5. ASSUME NEW r \in {m, Torn}
      PROVE  longer(r) \in Seq(Record) /\ (Loadable(longer(r)) => InPlace(longer(r), Touched))
  <2>1. longer(r) \in Seq(Record) /\ Len(longer(r)) = Len(disk.recs) + 1
    BY <1>1, <1>2
  <2>2. CASE r = Torn
    <3>1. longer(r)[Len(disk.recs) + 1] = Torn /\ Len(disk.recs) + 1 \in 1..Len(longer(r))
      BY <1>1, <2>1, <2>2
    <3>. QED BY <2>1, <3>1 DEF Loadable
  <2>3. CASE r = m
    <3>1. \A i \in 1..Len(disk.recs) : longer(r)[i] = disk.recs[i]
      BY <1>1
    <3>2. Loadable(longer(r)) => Loadable(disk.recs)
      BY <1>1, <2>1, <3>1 DEF Loadable
    <3>. QED BY <2>1, <2>3, <3>2
  <2>. QED BY <2>2, <2>3
<1>. HIDE DEF spoilt, longer
<1>6. \/ d = disk
      \/ d = Snapshot(Append(messages, m))
      \/ \E o \in BOOLEAN : d = [disk EXCEPT !.recs = spoilt, !.open = o]
      \/ d = [disk EXCEPT !.recs = spoilt]
      \/ \E r \in {m, Torn}, o \in BOOLEAN : d = [disk EXCEPT !.recs = longer(r), !.open = o]
      \/ d = [disk EXCEPT !.recs = longer(m)]
  BY <1>1 DEF FileWith, FileAfterBrokenWrite, Appended, spoilt, longer, Disk
<1>7. ASSUME NEW q \in Seq(Record), NEW o \in BOOLEAN, Loadable(q) => InPlace(q, Touched),
             d = [disk EXCEPT !.recs = q, !.open = o] \/ d = [disk EXCEPT !.recs = q]
      PROVE  d \in Disk /\ d.recs = q
  BY <1>1, <1>7 DEF Disk
<1>8. CASE d = disk
  BY <1>1, <1>8 DEF ResultsInPlace
<1>9. CASE d = Snapshot(Append(messages, m))
  BY <1>3, <1>9 DEF Snapshot, Disk
<1>10. CASE \/ \E o \in BOOLEAN : d = [disk EXCEPT !.recs = spoilt, !.open = o]
            \/ d = [disk EXCEPT !.recs = spoilt]
  BY <1>4, <1>7, <1>10
<1>11. CASE \/ \E r \in {m, Torn}, o \in BOOLEAN :
                 d = [disk EXCEPT !.recs = longer(r), !.open = o]
            \/ d = [disk EXCEPT !.recs = longer(m)]
  BY <1>5, <1>7, <1>11
<1>. QED BY <1>6, <1>8, <1>9, <1>10, <1>11

LEMMA OpenLineKept ==
  ASSUME TypeOK, OpenLineExists, NEW m \in Message,
         NEW d \in {FileWith(m)} \cup FileAfterBrokenWrite(m)
  PROVE  d.open => Len(d.recs) > 0
<1>1. disk \in Disk /\ disk.recs \in Seq(Record) /\ messages \in Seq(Message)
  BY DEF TypeOK, Disk
<1>2. m \in Record /\ Torn \in Record
  BY DEF Record
<1> DEFINE spoilt == [disk.recs EXCEPT ![Len(disk.recs)] = Torn]
           longer(r) == Append(disk.recs, r)
<1>3. \A r \in {m, Torn} : Len(longer(r)) > 0
  BY <1>1, <1>2
<1>4. Len(spoilt) = Len(disk.recs)
  BY <1>1
<1>. HIDE DEF spoilt, longer
<1>5. \/ d = disk
      \/ d = Snapshot(Append(messages, m))
      \/ disk.open /\ \E o \in BOOLEAN : d = [disk EXCEPT !.recs = spoilt, !.open = o]
      \/ disk.open /\ d = [disk EXCEPT !.recs = spoilt]
      \/ \E r \in {m, Torn}, o \in BOOLEAN : d = [disk EXCEPT !.recs = longer(r), !.open = o]
      \/ d = [disk EXCEPT !.recs = longer(m)]
  BY <1>1 DEF FileWith, FileAfterBrokenWrite, Appended, spoilt, longer, Disk
<1>6. CASE d = Snapshot(Append(messages, m))
  BY <1>6 DEF Snapshot
<1>7. CASE disk.open /\ (\/ \E o \in BOOLEAN : d = [disk EXCEPT !.recs = spoilt, !.open = o]
                         \/ d = [disk EXCEPT !.recs = spoilt])
  BY <1>1, <1>4, <1>7 DEF OpenLineExists, Disk
<1>8. CASE \/ \E r \in {m, Torn}, o \in BOOLEAN :
                d = [disk EXCEPT !.recs = longer(r), !.open = o]
           \/ d = [disk EXCEPT !.recs = longer(m)]
  BY <1>1, <1>3, <1>8 DEF Disk
<1>. QED BY <1>5, <1>6, <1>7, <1>8 DEF OpenLineExists

(* A write that succeeds ends a loadable file with the message.              *)
LEMMA WrittenLast ==
  ASSUME TypeOK, OpenLineExists, NEW m \in Message
  PROVE  /\ FileWith(m).exists
         /\ Loadable(FileWith(m).recs) =>
              \/ FileWith(m).recs = Append(messages, m)
              \/ /\ FileWith(m).recs = Append(disk.recs, m)
                 /\ disk.exists /\ ~disk.open /\ Loadable(disk.recs)
<1>1. disk \in Disk /\ disk.recs \in Seq(Record) /\ messages \in Seq(Message)
  BY DEF TypeOK, Disk
<1>2. m \in Record /\ Torn \in Record
  BY DEF Record
<1>3. CASE ~disk.exists
  BY <1>3 DEF FileWith, Snapshot
<1>4. CASE disk.exists /\ disk.open
  <2> DEFINE q == [disk.recs EXCEPT ![Len(disk.recs)] = Torn]
  <2>1. FileWith(m) = [disk EXCEPT !.recs = q, !.open = FALSE]
    BY <1>4 DEF FileWith, Appended
  <2>2. Len(disk.recs) \in 1..Len(q) /\ q[Len(disk.recs)] = Torn
    BY <1>1, <1>2, <1>4 DEF OpenLineExists
  <2>. QED BY <1>1, <1>4, <2>1, <2>2 DEF Loadable, Disk
<1>5. CASE disk.exists /\ ~disk.open
  <2>1. FileWith(m) = [disk EXCEPT !.recs = Append(disk.recs, m)]
    BY <1>5 DEF FileWith, Appended
  <2>2. \A i \in 1..Len(disk.recs) : Append(disk.recs, m)[i] = disk.recs[i]
    BY <1>1, <1>2
  <2>3. Loadable(Append(disk.recs, m)) => Loadable(disk.recs)
    BY <1>1, <1>2, <2>2 DEF Loadable
  <2>. QED BY <1>1, <1>5, <2>1, <2>3 DEF Disk
<1>. QED BY <1>3, <1>4, <1>5

-----------------------------------------------------------------------------
(* What one push may leave, in memory and on disk *)

Outcome(d) ==
  /\ d \in Disk
  /\ Loadable(d.recs) => InPlace(d.recs, Touched)
  /\ d.open => Len(d.recs) > 0

LEMMA PushNonTool ==
  ASSUME IInv, NEW m \in Message, m.role # "tool"
  PROVE  /\ Append(messages, m) \in Seq(Message) /\ InPlace(Append(messages, m), Touched)
         /\ \A d \in {FileWith(m)} \cup FileAfterBrokenWrite(m) : Outcome(d)
<1>1. messages \in Seq(Message) /\ disk.recs \in Seq(Record) /\ m \in Record
  BY DEF IInv, TypeOK, Record
<1>2. Append(messages, m) \in Seq(Message) /\ InPlace(Append(messages, m), Touched)
  BY <1>1, AppendNonTool DEF IInv, ResultsInPlace
<1>3. Loadable(disk.recs) => InPlace(Append(disk.recs, m), Touched)
  BY <1>1, AppendNonTool DEF IInv, ResultsInPlace
<1>. QED BY <1>2, <1>3, FileAfterWrite, OpenLineKept DEF Outcome, IInv

LEMMA PushTool ==
  ASSUME IInv, pc \in {"tools", "record"}
  PROVE  LET m == ToolResult(batch, nextTool)
             s == Append(messages, m)
             f == FileWith(m)
         IN  /\ m \in Message
             /\ s \in Seq(Message) /\ InPlace(s, Touched) /\ OpenBatch(s, nextTool)
             /\ \A d \in {f} \cup FileAfterBrokenWrite(m) : Outcome(d)
             /\ f.exists /\ (Loadable(f.recs) => OpenBatch(f.recs, nextTool))
<1> DEFINE m == ToolResult(batch, nextTool)
<1>1. /\ messages \in Seq(Message) /\ disk.recs \in Seq(Record)
      /\ batch \in Nat /\ batchSize \in Nat /\ nextTool \in Nat
      /\ nextTool \in 1..batchSize /\ batchSize <= MaxTools
      /\ OpenBatch(messages, nextTool - 1) /\ (Loadable(disk.recs) => OpenBatch(disk.recs, nextTool - 1))
  BY DEF IInv, TypeOK, BatchIsOpen
<1>2. m \in Message /\ m \in Record
  BY <1>1 DEF ToolResult, Message, Record
<1>3. /\ Append(messages, m) \in Seq(Message)
      /\ InPlace(Append(messages, m), Touched) /\ OpenBatch(Append(messages, m), nextTool)
  BY <1>1, <1>2, AppendResult DEF IInv, ResultsInPlace
<1>4. Loadable(disk.recs) => InPlace(Append(disk.recs, m), Touched) /\ OpenBatch(Append(disk.recs, m), nextTool)
  BY <1>1, <1>2, AppendResult DEF IInv, ResultsInPlace
<1>. HIDE DEF m
<1>5. \A d \in {FileWith(m)} \cup FileAfterBrokenWrite(m) : Outcome(d)
  BY <1>2, <1>3, <1>4, FileAfterWrite, OpenLineKept DEF Outcome, IInv
<1>6. FileWith(m).exists /\ (Loadable(FileWith(m).recs) => OpenBatch(FileWith(m).recs, nextTool))
  <2>1. /\ FileWith(m).exists
        /\ Loadable(FileWith(m).recs) =>
              \/ FileWith(m).recs = Append(messages, m)
              \/ FileWith(m).recs = Append(disk.recs, m) /\ disk.exists /\ Loadable(disk.recs)
    BY <1>2, WrittenLast DEF IInv
  <2>. QED BY <1>3, <1>4, <2>1
<1>. QED BY <1>2, <1>3, <1>5, <1>6 DEF m

-----------------------------------------------------------------------------
(* The invariant is inductive *)

\* The part of the invariant that does not speak of the session or its file.
Rest ==
  /\ compactions \in Nat /\ usage \in Nat /\ iterations \in Nat
  /\ batch \in Nat /\ batchSize \in Nat /\ nextTool \in Nat
  /\ rotated \in Seq(Seq(Record)) /\ nextId \in Nat /\ resumes \in Nat
  /\ interrupted \subseteq Nat /\ executed \subseteq (Nat \X Nat)
  /\ summarised \subseteq Message /\ round \in Nat /\ trimmed \subseteq Message

\* The part that does, outside a batch of tool uses.
SessionAndFile ==
  /\ messages \in Seq(Message) /\ InPlace(messages, Touched)
  /\ Outcome(disk)

Places == {"idle", "stream", "tools", "record", "persist", "write",
           "cleanup", "failed", "down"}

LEMMA TouchedGrows == ASSUME trimmed \subseteq trimmed' PROVE Touched \subseteq Touched'
BY DEF Touched

LEMMA Parts ==
  IInv <=> Rest /\ SessionAndFile /\ BatchIsOpen /\ pc \in Places
BY DEF IInv, TypeOK, ResultsInPlace, OpenLineExists, Rest, SessionAndFile, Outcome, Disk, Places

\* Messages that were in place before the step may be touched by it.
LEMMA PartsAfterTrim ==
  ASSUME Rest', messages' \in Seq(Message), InPlace(messages', Touched'), Outcome(disk'),
         BatchIsOpen', pc' \in Places, trimmed \subseteq trimmed'
  PROVE  IInv'
<1>1. Loadable(disk'.recs) => InPlace(disk'.recs, Touched')
  BY TouchedGrows, MoreTouched DEF Outcome
<1>2. ResultsInPlace'
  BY <1>1 DEF ResultsInPlace, Loadable, InPlace, Answers
<1>3. OpenLineExists'
  BY DEF Outcome, OpenLineExists
<1>4. TypeOK'
  BY DEF TypeOK, Outcome, Disk, Rest, Places
<1>. QED BY <1>2, <1>3, <1>4 DEF IInv

LEMMA PartsAfter ==
  ASSUME Rest', messages' \in Seq(Message), InPlace(messages', Touched), Outcome(disk'),
         BatchIsOpen', pc' \in Places, trimmed \subseteq trimmed'
  PROVE  IInv'
BY TouchedGrows, MoreTouched, PartsAfterTrim

(* A step that leaves the session and ends no batch of tool uses: it is       *)
(* enough to look at the file.                                               *)
LEMMA FileStep ==
  ASSUME IInv, Rest', UNCHANGED <<messages, trimmed>>, Outcome(disk'),
         pc' \in Places \ {"tools", "record"}
  PROVE  IInv'
<1>1. messages' \in Seq(Message) /\ InPlace(messages', Touched)
  BY Parts DEF SessionAndFile
<1>2. BatchIsOpen'
  BY DEF BatchIsOpen
<1>. QED BY <1>1, <1>2, PartsAfter

LEMMA InitIInv == Init => IInv
<1>1. SUFFICES ASSUME Init PROVE IInv
  OBVIOUS
<1>2. InPlace(<<>>, Touched) /\ <<>> \in Seq(Message) /\ <<>> \in Seq(Record) /\ <<>> \in Seq(Seq(Record))
  BY DEF InPlace
<1>. QED BY <1>1, <1>2 DEF Init, IInv, TypeOK, ResultsInPlace, BatchIsOpen,
            OpenLineExists, NoFile

LEMMA TokensAreNatural ==
  ASSUME NEW msgs \in Seq(Message)
  PROVE  InputTokens(msgs) \in Nat
<1>1. Len(msgs) \in Nat
  OBVIOUS
<1>2. IsFiniteSet(1..Len(msgs))
  BY <1>1, FS_Interval
<1>3. IsFiniteSet({i \in 1..Len(msgs) : msgs[i].usage = 1})
  BY <1>2, FS_Subset
<1>. QED BY <1>3, FS_CardinalityType DEF InputTokens

LEMMA BeginTurnStep == IInv /\ BeginTurn => IInv'
<1>1. SUFFICES ASSUME IInv, BeginTurn PROVE IInv'
  OBVIOUS
<1>2. Rest /\ SessionAndFile
  BY <1>1, Parts
<1> DEFINE m == User(nextId)
<1>3. m \in Message /\ m.role # "tool"
  BY <1>2 DEF User, Message, Rest
<1>4. InputTokens(messages) \in Nat
  BY <1>2, TokensAreNatural DEF SessionAndFile
<1>5. Rest'
  BY <1>1, <1>2, <1>4 DEF Rest, BeginTurn, history
<1>6. /\ Append(messages, m) \in Seq(Message) /\ InPlace(Append(messages, m), Touched)
      /\ \A d \in {FileWith(m)} \cup FileAfterBrokenWrite(m) : Outcome(d)
  BY <1>1, <1>3, PushNonTool
<1>7. messages' \in {messages, Append(messages, m)}
      /\ disk' \in {FileWith(m)} \cup FileAfterBrokenWrite(m)
  BY <1>1 DEF BeginTurn
<1>8. messages' \in Seq(Message) /\ InPlace(messages', Touched) /\ Outcome(disk')
  BY <1>2, <1>6, <1>7 DEF SessionAndFile
<1>9. pc' \in {"stream", "failed"}
  BY <1>1 DEF BeginTurn
<1>10. BatchIsOpen' /\ pc' \in Places /\ trimmed \subseteq trimmed'
  BY <1>1, <1>9 DEF BatchIsOpen, Places, BeginTurn, history
<1>. QED BY <1>5, <1>8, <1>10, PartsAfter

\* A recovery, unfolded: what Trident and the compaction made of the session, and
\* the prompt that is sent again, or whose write fails.
Recovered(msgs, base, lost, removed, m, f) ==
  /\ pc = "stream" /\ m = User(nextId)
  /\ lost \subseteq Message /\ IsTrim(messages, msgs, lost, f)
  /\ \/ base = msgs /\ removed = {}
     \/ \E preserve \in Nat :
          /\ ShouldCompact(msgs, preserve)
          /\ base = Compacted(msgs, preserve) /\ removed = Removed(msgs, preserve)
  /\ compactions' \in {compactions, compactions + 1} /\ usage' = InputTokens(base)
  /\ summarised' = summarised \cup removed /\ trimmed' = trimmed \cup lost
  /\ \/ messages' = Append(base, m) /\ disk' = FileWith(m) /\ pc' = "stream"
     \/ messages' = base /\ disk' \in FileAfterBrokenWrite(m) /\ pc' = "failed"

LEMMA RecoverMeans ==
  ASSUME IInv, Recover
  PROVE  \E msgs, base, lost, removed, m, f : Recovered(msgs, base, lost, removed, m, f)
<1>0. PICK over \in SUBSET Overtakable(messages) : \E fold \in Folds(messages, over) :
       LET msgs     == Trimmed(messages, over, fold)
           preserve == Schedule[round + 1]
           base     == IF ShouldCompact(msgs, preserve) THEN Compacted(msgs, preserve) ELSE msgs
           removed  == IF ShouldCompact(msgs, preserve) THEN Removed(msgs, preserve) ELSE {}
       IN  /\ removed # {} \/ round = 0
           /\ compactions' = IF ShouldCompact(msgs, preserve) THEN compactions + 1 ELSE compactions
           /\ summarised' = summarised \cup removed
           /\ trimmed' = trimmed \cup {messages[i] : i \in over \cup Folded(fold)}
           /\ usage' = InputTokens(base)
           /\ \/ /\ messages' = Append(base, User(nextId))
                 /\ disk' = FileWith(User(nextId))
                 /\ pc' = "stream"
              \/ /\ messages' = base
                 /\ disk' \in FileAfterBrokenWrite(User(nextId))
                 /\ pc' = "failed"
  BY Zenon DEF Recover
<1>1. PICK fold \in Folds(messages, over) :
       LET msgs     == Trimmed(messages, over, fold)
           preserve == Schedule[round + 1]
           base     == IF ShouldCompact(msgs, preserve) THEN Compacted(msgs, preserve) ELSE msgs
           removed  == IF ShouldCompact(msgs, preserve) THEN Removed(msgs, preserve) ELSE {}
       IN  /\ removed # {} \/ round = 0
           /\ compactions' = IF ShouldCompact(msgs, preserve) THEN compactions + 1 ELSE compactions
           /\ summarised' = summarised \cup removed
           /\ trimmed' = trimmed \cup {messages[i] : i \in over \cup Folded(fold)}
           /\ usage' = InputTokens(base)
           /\ \/ /\ messages' = Append(base, User(nextId))
                 /\ disk' = FileWith(User(nextId))
                 /\ pc' = "stream"
              \/ /\ messages' = base
                 /\ disk' \in FileAfterBrokenWrite(User(nextId))
                 /\ pc' = "failed"
  BY <1>0, Zenon
<1>2. PICK msgs, preserve, lost : /\ msgs = Trimmed(messages, over, fold) /\ preserve = Schedule[round + 1]
                                  /\ lost = {messages[i] : i \in over \cup Folded(fold)}
  OBVIOUS
<1>3. PICK base, removed, m :
        /\ base = IF ShouldCompact(msgs, preserve) THEN Compacted(msgs, preserve) ELSE msgs
        /\ removed = IF ShouldCompact(msgs, preserve) THEN Removed(msgs, preserve) ELSE {}
        /\ m = User(nextId)
  OBVIOUS
<1>4. messages \in Seq(Message) /\ round \in Nat /\ pc = "stream" /\ round < Len(Schedule)
  BY DEF IInv, TypeOK, Recover
<1>5. PICK f : IsTrim(messages, msgs, lost, f) /\ lost \subseteq Message
  BY <1>2, <1>4, TrimmedMeans
<1>6. preserve \in Nat
  <2>1. round + 1 \in 1..Len(Schedule) /\ Schedule \in Seq(Nat)
    BY <1>4, ConversationConstants
  <2>. QED BY <1>2, <2>1
<1>7. /\ compactions' = IF ShouldCompact(msgs, preserve) THEN compactions + 1 ELSE compactions
      /\ summarised' = summarised \cup removed /\ trimmed' = trimmed \cup lost
      /\ usage' = InputTokens(base)
      /\ \/ messages' = Append(base, m) /\ disk' = FileWith(m) /\ pc' = "stream"
         \/ messages' = base /\ disk' \in FileAfterBrokenWrite(m) /\ pc' = "failed"
  BY <1>1, <1>2, <1>3, Zenon
<1>8. CASE ShouldCompact(msgs, preserve)
  <2>1. base = Compacted(msgs, preserve) /\ removed = Removed(msgs, preserve) /\ compactions' = compactions + 1
    BY <1>3, <1>7, <1>8
  <2>2. Recovered(msgs, base, lost, removed, m, f)
    BY <1>3, <1>4, <1>5, <1>6, <1>7, <1>8, <2>1 DEF Recovered
  <2>. QED BY <2>2
<1>9. CASE ~ShouldCompact(msgs, preserve)
  <2>1. base = msgs /\ removed = {} /\ compactions' = compactions
    BY <1>3, <1>7, <1>9
  <2>2. Recovered(msgs, base, lost, removed, m, f)
    BY <1>3, <1>4, <1>5, <1>7, <2>1 DEF Recovered
  <2>. QED BY <2>2
<1>. QED BY <1>8, <1>9

\* What the recovery starts again from.
LEMMA RecoveredBase ==
  ASSUME IInv, NEW msgs, NEW base, NEW lost, NEW removed, NEW m, NEW f,
         Recovered(msgs, base, lost, removed, m, f)
  PROVE  /\ msgs \in Seq(Message) /\ base \in Seq(Message) /\ removed \subseteq Message
         /\ InPlace(base, Touched')
         /\ Touched \subseteq Touched' /\ (\A x \in lost : x.id \in Touched')
         /\ m \in Message /\ m.role = "user"
<1>1. messages \in Seq(Message) /\ InPlace(messages, Touched) /\ nextId \in Nat
  BY DEF IInv, TypeOK, ResultsInPlace
<1>2. PICK T : T = Touched'
  OBVIOUS
<1>3. Touched \subseteq T /\ \A x \in lost : x.id \in T
  BY <1>2 DEF Recovered, Touched
<1>4. msgs \in Seq(Message) /\ InPlace(msgs, T)
  <2>1. IsTrim(messages, msgs, lost, f) /\ InPlace(messages, T)
    BY <1>1, <1>3, MoreTouched DEF Recovered
  <2>2. InPlace(msgs, T)
    BY <1>1, <1>3, <2>1, TrimKeepsPlaces
  <2>. QED BY <2>1, <2>2 DEF IsTrim
<1>5. base \in Seq(Message) /\ InPlace(base, T) /\ removed \subseteq Message
  <2>1. CASE base = msgs /\ removed = {}
    BY <1>4, <2>1
  <2>2. ASSUME NEW preserve \in Nat, ShouldCompact(msgs, preserve),
               base = Compacted(msgs, preserve), removed = Removed(msgs, preserve)
        PROVE  base \in Seq(Message) /\ InPlace(base, T) /\ removed \subseteq Message
    BY <1>4, <2>2, CompactStep
  <2>. QED BY <2>1, <2>2 DEF Recovered
<1>6. m \in Message /\ m.role = "user"
  BY <1>1 DEF Recovered, User, Message
<1>. QED BY <1>2, <1>3, <1>4, <1>5, <1>6

LEMMA RecoverStep == IInv /\ Recover => IInv'
<1>1. SUFFICES ASSUME IInv, Recover PROVE IInv'
  OBVIOUS
<1>2. Rest /\ SessionAndFile
  BY <1>1, Parts
<1>3. PICK msgs, base, lost, removed, m, f : Recovered(msgs, base, lost, removed, m, f)
  BY <1>1, RecoverMeans
<1>4. /\ base \in Seq(Message) /\ removed \subseteq Message /\ InPlace(base, Touched')
      /\ m \in Message /\ m.role = "user"
  BY <1>1, <1>3, RecoveredBase
<1>5. /\ lost \subseteq Message /\ compactions' \in {compactions, compactions + 1}
      /\ usage' = InputTokens(base)
      /\ summarised' = summarised \cup removed /\ trimmed' = trimmed \cup lost
      /\ \/ messages' = Append(base, m) /\ disk' = FileWith(m) /\ pc' = "stream"
         \/ messages' = base /\ disk' \in FileAfterBrokenWrite(m) /\ pc' = "failed"
  BY <1>3 DEF Recovered
<1>6. InputTokens(base) \in Nat
  BY <1>4, TokensAreNatural
<1>7. Rest'
  <2>1. summarised' \subseteq Message /\ trimmed' \subseteq Message
    BY <1>2, <1>4, <1>5 DEF Rest
  <2>2. compactions' \in Nat /\ usage' \in Nat
    BY <1>2, <1>5, <1>6 DEF Rest
  <2>3. /\ iterations' = 0 /\ round' = round + 1 /\ nextId' = nextId + 1
        /\ UNCHANGED <<batch, batchSize, nextTool, rotated, resumes, interrupted, executed>>
    BY <1>1 DEF Recover
  <2>. QED BY <1>2, <2>1, <2>2, <2>3 DEF Rest
<1>8. Outcome(disk')
  <2>1. \A d \in {FileWith(m)} \cup FileAfterBrokenWrite(m) : Outcome(d)
    BY <1>1, <1>4, PushNonTool
  <2>. QED BY <1>5, <2>1
<1>9. messages' \in Seq(Message) /\ InPlace(messages', Touched')
  <2>1. Append(base, m) \in Seq(Message) /\ InPlace(Append(base, m), Touched')
    BY <1>4, AppendNonTool
  <2>. QED BY <1>4, <1>5, <2>1
<1>10. BatchIsOpen' /\ pc' \in Places /\ trimmed \subseteq trimmed'
  BY <1>5 DEF BatchIsOpen, Places
<1>. QED BY <1>7, <1>8, <1>9, <1>10, PartsAfterTrim

LEMMA AssistantRepliesStep == IInv /\ AssistantReplies => IInv'
<1>1. SUFFICES ASSUME IInv, AssistantReplies PROVE IInv'
  OBVIOUS
<1>2. Rest /\ SessionAndFile /\ pc = "stream"
  BY <1>1, Parts DEF AssistantReplies
<1>3. PICK k \in 0..MaxTools, input \in Inputs :
        LET m == Assistant(nextId, k, input) IN
        /\ usage' = usage + input
        /\ \/ /\ disk' = FileWith(m)
              /\ AutoCompact(Append(messages, m), usage')
              /\ batch' = nextId /\ batchSize' = k /\ nextTool' = 1
              /\ pc' = IF k = 0 THEN "persist" ELSE "tools"
              /\ UNCHANGED interrupted
           \/ /\ disk' \in FileAfterBrokenWrite(m)
              /\ pc' = "failed"
              /\ interrupted' = interrupted \cup {nextId}
              /\ UNCHANGED <<session, batch, batchSize, nextTool, summarised>>
  BY <1>1 DEF AssistantReplies
<1> DEFINE m == Assistant(nextId, k, input)
           s == Append(messages, m)
<1>4. m \in Message /\ m.role = "assistant" /\ m.id = nextId /\ m.n = k /\ k \in Nat
  BY <1>2, ConversationConstants DEF Assistant, Message, Rest
<1>5. /\ s \in Seq(Message) /\ InPlace(s, Touched)
      /\ \A d \in {FileWith(m)} \cup FileAfterBrokenWrite(m) : Outcome(d)
  BY <1>1, <1>4, PushNonTool
<1>6. s[Len(s)] = m /\ Len(s) \in 1..Len(s)
  BY <1>2, <1>4 DEF SessionAndFile
<1>7. /\ FileWith(m).exists
      /\ Loadable(FileWith(m).recs) =>
            \/ FileWith(m).recs = s
            \/ FileWith(m).recs = Append(disk.recs, m) /\ disk.exists /\ Loadable(disk.recs)
  BY <1>1, <1>4, WrittenLast DEF IInv
<1>8. disk.recs \in Seq(Record) /\ m \in Record
  BY <1>2, <1>4 DEF SessionAndFile, Outcome, Disk, Record
<1>. HIDE DEF m, s
<1>9. nextId' = nextId + 1 /\ iterations' = iterations + 1 /\ input \in {0, 1}
      /\ UNCHANGED <<round, rotated, resumes, executed, trimmed>> /\ usage' = usage + input
  BY <1>1, <1>3, ConversationConstants DEF AssistantReplies
<1>10. CASE /\ disk' = FileWith(m)
            /\ AutoCompact(s, usage')
            /\ batch' = nextId /\ batchSize' = k /\ nextTool' = 1
            /\ pc' = IF k = 0 THEN "persist" ELSE "tools"
            /\ UNCHANGED interrupted
  <2>1. /\ messages' \in Seq(Message) /\ InPlace(messages', Touched)
        /\ compactions' \in Nat /\ summarised' \subseteq Message
        /\ Len(messages') \in 1..Len(messages') /\ messages'[Len(messages')] = m
    <3>1. CASE AutoCompacts(s, usage')
      <4>1. ShouldCompact(s, Preserve) /\ Preserve \in Nat /\ Preserve # 0
        BY <3>1, ConversationConstants DEF AutoCompacts
      <4>2. messages' = Compacted(s, Preserve) /\ compactions' = compactions + 1
            /\ summarised' = summarised \cup Removed(s, Preserve)
        BY <1>10, <3>1 DEF AutoCompact
      <4>3. /\ Compacted(s, Preserve) \in Seq(Message) /\ InPlace(Compacted(s, Preserve), Touched)
            /\ Removed(s, Preserve) \subseteq Message
            /\ Len(Compacted(s, Preserve)) > 1 /\ Compacted(s, Preserve)[Len(Compacted(s, Preserve))] = s[Len(s)]
        BY <1>5, <4>1, CompactStep
      <4>4. Len(Compacted(s, Preserve)) \in Nat
        BY <4>3
      <4>5. compactions' \in Nat /\ summarised' \subseteq Message
        BY <1>2, <4>2, <4>3 DEF Rest
      <4>. QED BY <1>6, <4>2, <4>3, <4>4, <4>5
    <3>2. CASE ~AutoCompacts(s, usage')
      BY <1>2, <1>5, <1>6, <1>10, <3>2 DEF AutoCompact, Rest
    <3>. QED BY <3>1, <3>2
  <2>2. Rest'
    BY <1>2, <1>4, <1>9, <1>10, <2>1 DEF Rest
  <2>3. Outcome(disk')
    BY <1>5, <1>10
  <2>4. ASSUME k # 0 PROVE BatchIsOpen'
    <3>1. nextTool' \in 1..batchSize' /\ batchSize' <= MaxTools /\ nextTool' - 1 = 0
      BY <1>4, <1>10, <2>4, ConversationConstants
    <3>2. OpenBatch(messages, nextTool - 1)'
      BY <1>4, <1>10, <2>1, <3>1 DEF OpenBatch
    <3>3. disk'.exists
      BY <1>7, <1>10
    <3>4. ASSUME Loadable(disk'.recs) PROVE OpenBatch(disk.recs, nextTool - 1)'
      <4>1. disk'.recs = s \/ disk'.recs = Append(disk.recs, m)
        BY <1>7, <1>10, <3>4
      <4>2. Len(disk'.recs) \in 1..Len(disk'.recs) /\ disk'.recs[Len(disk'.recs)] = m
        BY <1>6, <1>8, <4>1
      <4>. QED BY <1>4, <1>10, <3>1, <4>2 DEF OpenBatch
    <3>. QED BY <3>1, <3>2, <3>3, <3>4 DEF BatchIsOpen, Loadable
  <2>5. k = 0 => BatchIsOpen'
    BY <1>10 DEF BatchIsOpen
  <2>6. pc' \in Places
    BY <1>10 DEF Places
  <2>. QED BY <1>9, <2>1, <2>2, <2>3, <2>4, <2>5, <2>6, PartsAfter
<1>11. CASE /\ disk' \in FileAfterBrokenWrite(m)
            /\ pc' = "failed"
            /\ interrupted' = interrupted \cup {nextId}
            /\ UNCHANGED <<session, batch, batchSize, nextTool, summarised>>
  <2>1. Rest'
    BY <1>2, <1>9, <1>11 DEF Rest, session
  <2>2. Outcome(disk')
    BY <1>5, <1>11
  <2>3. pc' \in Places \ {"tools", "record"} /\ UNCHANGED <<messages, trimmed>>
    BY <1>9, <1>11 DEF Places, session
  <2>. QED BY <1>1, <2>1, <2>2, <2>3, FileStep
<1>. QED BY <1>3, <1>10, <1>11 DEF m, s

LEMMA PushResultStep == IInv /\ PushResult => IInv'
<1>1. SUFFICES ASSUME IInv, PushResult PROVE IInv'
  OBVIOUS
<1> DEFINE m == ToolResult(batch, nextTool)
           s == Append(messages, m)
           f == FileWith(m)
<1>2. /\ Rest /\ nextTool \in 1..batchSize /\ batchSize <= MaxTools
      /\ batchSize \in Nat /\ nextTool \in Nat /\ pc = "record"
  BY <1>1, Parts DEF PushResult, BatchIsOpen, Rest
<1>3. /\ s \in Seq(Message) /\ InPlace(s, Touched) /\ OpenBatch(s, nextTool) /\ Outcome(f)
      /\ f.exists /\ (Loadable(f.recs) => OpenBatch(f.recs, nextTool))
  BY <1>1, <1>2, PushTool
<1>4. messages' = s /\ disk' = f /\ UNCHANGED <<batch, batchSize>>
  BY <1>1 DEF PushResult
<1>5. Rest' /\ trimmed \subseteq trimmed'
  BY <1>1, <1>2 DEF PushResult, Rest, history
<1>. HIDE DEF m, s, f
<1>6. \/ pc' = "tools" /\ nextTool' \in 1..batchSize' /\ nextTool' - 1 = nextTool
      \/ pc' = "stream"
  BY <1>1, <1>2 DEF PushResult
<1>7. PICK n : n = nextTool
  OBVIOUS
<1>8. OpenBatch(messages, n)' /\ (Loadable(disk.recs) => OpenBatch(disk.recs, n))' /\ disk'.exists
  BY <1>3, <1>4, <1>7 DEF OpenBatch, Loadable
<1>9. BatchIsOpen' /\ pc' \in Places
  BY <1>2, <1>4, <1>6, <1>7, <1>8 DEF BatchIsOpen, Places
<1>. QED BY <1>3, <1>4, <1>5, <1>9, PartsAfter

LEMMA PushResultFailsStep == IInv /\ PushResultFails => IInv'
<1>1. SUFFICES ASSUME IInv, PushResultFails PROVE IInv'
  OBVIOUS
<1>2. Rest
  BY <1>1, Parts
<1>3. Outcome(disk')
  BY <1>1, PushTool DEF PushResultFails
<1>4. Rest' /\ UNCHANGED <<messages, trimmed>> /\ pc' \in Places \ {"tools", "record"}
  BY <1>1, <1>2 DEF PushResultFails, Rest, session, turn, Places
<1>. QED BY <1>1, <1>3, <1>4, FileStep

LEMMA RunToolStep == IInv /\ RunTool => IInv'
<1>1. SUFFICES ASSUME IInv, RunTool PROVE IInv'
  OBVIOUS
<1>2. Rest /\ SessionAndFile /\ BatchIsOpen
  BY <1>1, Parts
<1>3. pc = "tools" /\ pc' = "record" /\ UNCHANGED <<session, turn, files>>
  BY <1>1 DEF RunTool
<1>4. Rest' /\ trimmed \subseteq trimmed'
  BY <1>1, <1>2 DEF RunTool, Rest, session, turn, files
<1>5. BatchIsOpen'
  BY <1>2, <1>3 DEF BatchIsOpen, OpenBatch, Loadable, session, turn, files
<1>6. messages' = messages /\ disk' = disk /\ pc' \in Places
  BY <1>3 DEF session, files, Places
<1>7. messages' \in Seq(Message) /\ InPlace(messages', Touched) /\ Outcome(disk')
  BY <1>2, <1>6 DEF SessionAndFile
<1>. QED BY <1>4, <1>5, <1>6, <1>7, PartsAfter

\* The steps that only move on, or stop.
LEMMA ControlStep ==
  ASSUME IInv, ProbeFails \/ IterationLimit \/ StreamFails \/ SaveFails
  PROVE  IInv'
<1>1. /\ UNCHANGED <<session, turn, files, nextId, resumes, history>>
      /\ pc' = "failed"
  BY DEF ProbeFails, IterationLimit, StreamFails, SaveFails
<1>2. Rest' /\ UNCHANGED <<messages, disk, trimmed>> /\ pc' \in Places \ {"tools", "record"}
  BY <1>1, Parts DEF Rest, session, turn, files, history, Places
<1>3. Outcome(disk')
  BY <1>2, Parts DEF SessionAndFile
<1>. QED BY <1>2, <1>3, FileStep

LEMMA ManualCompactStep == IInv /\ ManualCompact => IInv'
<1>1. SUFFICES ASSUME IInv, ManualCompact PROVE IInv'
  OBVIOUS
<1>2. Rest /\ SessionAndFile
  BY <1>1, Parts
<1>3. /\ pc' = "persist"
      /\ UNCHANGED <<turn, files, nextId, resumes, interrupted, executed, trimmed>>
  BY <1>1 DEF ManualCompact
<1>4. BatchIsOpen' /\ pc' \in Places
  BY <1>3 DEF BatchIsOpen, Places
<1>5. disk' = disk /\ Outcome(disk')
  BY <1>2, <1>3 DEF SessionAndFile, files
<1>6. /\ messages' \in Seq(Message) /\ InPlace(messages', Touched)
      /\ compactions' \in Nat /\ summarised' \subseteq Message
  <2>1. CASE UNCHANGED <<session, summarised>>
    BY <1>2, <2>1 DEF SessionAndFile, Rest, session
  <2>2. CASE /\ ShouldCompact(messages, Preserve) /\ messages' = Compacted(messages, Preserve)
             /\ compactions' = compactions + 1
             /\ summarised' = summarised \cup Removed(messages, Preserve)
    <3>1. /\ Compacted(messages, Preserve) \in Seq(Message) /\ InPlace(Compacted(messages, Preserve), Touched)
          /\ Removed(messages, Preserve) \subseteq Message
      BY <1>2, <2>2, CompactStep, ConversationConstants DEF SessionAndFile
    <3>2. compactions \in Nat /\ summarised \subseteq Message
      BY <1>2 DEF Rest
    <3>. QED BY <2>2, <3>1, <3>2
  <2>. QED BY <1>1, <2>1, <2>2 DEF ManualCompact
<1>7. Rest'
  BY <1>2, <1>3, <1>6 DEF Rest, turn, files
<1>. QED BY <1>3, <1>4, <1>5, <1>6, <1>7, PartsAfter

LEMMA RotateStep == IInv /\ Rotate => IInv'
<1>1. SUFFICES ASSUME IInv, Rotate PROVE IInv'
  OBVIOUS
<1>2. Rest /\ disk.recs \in Seq(Record)
  BY <1>1, Parts DEF SessionAndFile, Outcome, Disk
<1>3. Rest' /\ UNCHANGED <<messages, trimmed>> /\ pc' \in Places \ {"tools", "record"}
  BY <1>1, <1>2 DEF Rotate, Rest, session, turn, history, Places
<1>4. Outcome(disk')
  BY <1>1 DEF Rotate, NoFile, Outcome, Disk, InPlace
<1>. QED BY <1>1, <1>3, <1>4, FileStep

LEMMA WriteSnapshotStep == IInv /\ WriteSnapshot => IInv'
<1>1. SUFFICES ASSUME IInv, WriteSnapshot PROVE IInv'
  OBVIOUS
<1>2. Rest /\ SessionAndFile
  BY <1>1, Parts
<1>3. Rest' /\ UNCHANGED <<messages, trimmed>> /\ pc' \in Places \ {"tools", "record"}
  BY <1>1, <1>2 DEF WriteSnapshot, Rest, session, turn, history, Places
<1>4. messages \in Seq(Record) /\ InPlace(messages, Touched)
  BY <1>2 DEF SessionAndFile, Record
<1>5. Outcome(disk')
  BY <1>1, <1>4 DEF WriteSnapshot, Snapshot, Outcome, Disk
<1>. QED BY <1>1, <1>3, <1>5, FileStep

LEMMA CleanupStep == IInv /\ Cleanup => IInv'
<1>1. SUFFICES ASSUME IInv, Cleanup PROVE IInv'
  OBVIOUS
<1>2. Rest /\ SessionAndFile
  BY <1>1, Parts
<1>3. rotated' \in Seq(Seq(Record))
  <2>1. rotated \in Seq(Seq(Record)) /\ KeepRotated \in Nat
    BY <1>2, ConversationConstants DEF Rest
  <2>2. CASE Len(rotated) > KeepRotated
    <3>1. Len(rotated) - KeepRotated + 1 \in 1..(Len(rotated) + 1)
      BY <2>1, <2>2
    <3>2. SubSeq(rotated, Len(rotated) - KeepRotated + 1, Len(rotated)) \in Seq(Seq(Record))
      BY <2>1, <2>2, <3>1
    <3>. QED BY <1>1, <2>2, <3>2 DEF Cleanup
  <2>3. CASE ~(Len(rotated) > KeepRotated)
    BY <1>1, <2>1, <2>3 DEF Cleanup
  <2>. QED BY <2>2, <2>3
<1>4. Rest' /\ UNCHANGED <<messages, disk, trimmed>> /\ pc' \in Places \ {"tools", "record"}
  BY <1>1, <1>2, <1>3 DEF Cleanup, Rest, session, turn, history, Places
<1>5. Outcome(disk')
  BY <1>2, <1>4 DEF SessionAndFile
<1>. QED BY <1>1, <1>4, <1>5, FileStep

\* What is left when the process is gone is its file.
LEMMA VanishStep ==
  ASSUME IInv, Vanish, Outcome(disk'), nextId' \in Nat, interrupted' \subseteq Nat
  PROVE  IInv'
<1>1. Rest'
  BY Parts DEF Vanish, Rest
<1>2. messages' = <<>> /\ pc' = "down" /\ trimmed \subseteq trimmed'
  BY DEF Vanish
<1>3. messages' \in Seq(Message) /\ InPlace(messages', Touched)
  BY <1>2 DEF InPlace
<1>4. BatchIsOpen' /\ pc' \in Places
  BY <1>2 DEF BatchIsOpen, Places
<1>. QED BY <1>1, <1>2, <1>3, <1>4, PartsAfter

LEMMA ExitOnErrorStep == IInv /\ ExitOnError => IInv'
<1>1. SUFFICES ASSUME IInv, ExitOnError PROVE IInv'
  OBVIOUS
<1>2. Outcome(disk') /\ nextId' \in Nat /\ interrupted' \subseteq Nat
  BY <1>1, Parts DEF ExitOnError, SessionAndFile, Rest
<1>. QED BY <1>1, <1>2, VanishStep DEF ExitOnError

LEMMA CrashStep == IInv /\ Crash => IInv'
<1>1. SUFFICES ASSUME IInv, Crash PROVE IInv'
  OBVIOUS
<1>2. Rest /\ SessionAndFile
  BY <1>1, Parts
<1>3. nextId \in Nat /\ batch \in Nat /\ interrupted \subseteq Nat /\ Outcome(disk)
  BY <1>2 DEF Rest, SessionAndFile
<1>4. CASE /\ interrupted' = interrupted \cup (IF pc \in {"tools", "record"} THEN {batch} ELSE {})
           /\ UNCHANGED <<disk, nextId>>
  BY <1>1, <1>3, <1>4, VanishStep DEF Crash
<1>5. ASSUME NEW m \in InFlight,
             disk' \in FileAfterBrokenWrite(m) \cup {FileWith(m)},
             nextId' = IF m.role = "tool" THEN nextId ELSE nextId + 1,
             interrupted' = interrupted \cup {m.id}
      PROVE  IInv'
  <2>1. m.id \in Nat /\ \A d \in {FileWith(m)} \cup FileAfterBrokenWrite(m) : Outcome(d)
    <3>1. CASE pc = "record"
      <4>1. m = ToolResult(batch, nextTool)
        BY <1>5, <3>1 DEF InFlight
      <4>. QED BY <1>1, <1>3, <3>1, <4>1, PushTool DEF ToolResult
    <3>2. CASE pc # "record"
      <4>1. m = User(nextId) \/ \E k \in 0..MaxTools : m = Assistant(nextId, k, 0)
        BY <1>5, <3>2 DEF InFlight
      <4>2. m \in Message /\ m.role # "tool" /\ m.id \in Nat
        BY <1>3, <4>1, ConversationConstants DEF User, Assistant, Message
      <4>. QED BY <1>1, <4>2, PushNonTool
    <3>. QED BY <3>1, <3>2
  <2>2. Outcome(disk')
    BY <1>5, <2>1
  <2>3. nextId' \in Nat /\ interrupted' \subseteq Nat
    <3>1. nextId \in Nat /\ interrupted \subseteq Nat /\ m.id \in Nat
      BY <1>3, <2>1
    <3>2. nextId' \in {nextId, nextId + 1} /\ interrupted' = interrupted \cup {m.id}
      BY <1>5
    <3>3. nextId' \in Nat
      BY <3>1, <3>2
    <3>4. {m.id} \subseteq Nat
      BY <3>1
    <3>. QED BY <3>1, <3>2, <3>3, <3>4
  <2>. QED BY <1>1, <2>2, <2>3, VanishStep DEF Crash
<1>. QED BY <1>1, <1>4, <1>5 DEF Crash

\* A file that loads holds messages only, and pairs its results.
LEMMA ResumeStep == IInv /\ Resume => IInv'
<1>1. SUFFICES ASSUME IInv, Resume PROVE IInv'
  OBVIOUS
<1>2. Rest /\ SessionAndFile /\ disk.recs \in Seq(Record) /\ Loadable(disk.recs)
  BY <1>1, Parts DEF Resume, SessionAndFile, Outcome, Disk
<1>3. disk.recs \in Seq(Message)
  <2>1. \A i \in 1..Len(disk.recs) : disk.recs[i] \in Message
    BY <1>2 DEF Loadable, Record
  <2>. QED BY <1>2, <2>1
<1>4. messages' = disk.recs /\ disk' = disk /\ pc' = "idle" /\ compactions' \in {0, 1}
  BY <1>1 DEF Resume, files
<1>5. messages' \in Seq(Message) /\ InPlace(messages', Touched) /\ Outcome(disk')
  BY <1>2, <1>3, <1>4 DEF SessionAndFile, Outcome
<1>6. Rest' /\ trimmed \subseteq trimmed'
  BY <1>1, <1>2, <1>4 DEF Resume, Rest, turn, files, history
<1>7. BatchIsOpen' /\ pc' \in Places
  BY <1>4 DEF BatchIsOpen, Places
<1>. QED BY <1>5, <1>6, <1>7, PartsAfter

LEMMA StutterStep == IInv /\ UNCHANGED vars => IInv'
<1>1. SUFFICES ASSUME IInv, UNCHANGED vars PROVE IInv'
  OBVIOUS
<1>2. UNCHANGED <<pc, messages, disk, batch, batchSize, nextTool>>
  BY <1>1 DEF vars, session, turn, files
<1>3. Rest' /\ trimmed \subseteq trimmed'
  BY <1>1, Parts DEF vars, session, turn, files, history, Rest
<1>4. messages' \in Seq(Message) /\ InPlace(messages', Touched) /\ Outcome(disk') /\ pc' \in Places
  BY <1>1, <1>2, Parts DEF SessionAndFile
<1>5. BatchIsOpen'
  BY <1>1, <1>2, Parts DEF BatchIsOpen, OpenBatch, Loadable
<1>. QED BY <1>3, <1>4, <1>5, PartsAfter

LEMMA NextStep == IInv /\ [Next]_vars => IInv'
BY BeginTurnStep, RecoverStep, AssistantRepliesStep, PushResultStep, PushResultFailsStep, RunToolStep,
   ControlStep, ManualCompactStep, RotateStep, WriteSnapshotStep, CleanupStep,
   ExitOnErrorStep, CrashStep, ResumeStep, StutterStep DEF Next

-----------------------------------------------------------------------------
LEMMA Inductive == Spec => []IInv
<1>1. IInv /\ [Next]_vars => IInv'
  BY NextStep
<1>. QED BY <1>1, InitIInv, PTL DEF Spec

(* The variables keep their types in every behaviour of the conversation,    *)
(* in particular every session file that loads is a sequence of messages.    *)
THEOREM TypeCorrect == Spec => []TypeOK
<1>1. IInv => TypeOK
  BY DEF IInv
<1>. QED BY <1>1, Inductive, PTL

(* For every preserve_recent, threshold, schedule, batch size and file       *)
(* limit: no compaction, recovery, broken append, rotation, kill or reload   *)
(* ever leaves a tool result without the assistant message that asked for    *)
(* it, but for the batches of which Trident dropped or folded a message.     *)
THEOREM NoOrphans == Spec => []NoOrphanResults
<1>1. IInv => NoOrphanResults
  BY InPlacePairs DEF IInv, ResultsInPlace, NoOrphanResults
<1>. QED BY <1>1, Inductive, PTL

-----------------------------------------------------------------------------
(* How far a compaction shortens *)

LEMMA CompactedIsShort ==
  ASSUME NEW msgs \in Seq(Message), NEW spared, InPlace(msgs, spared), ShouldCompact(msgs, Preserve),
         Whole(Compacted(msgs, Preserve), spared) \/ Whole(msgs, spared)
  PROVE  Len(msgs) - KeepFrom(msgs, Preserve) <= Preserve + MaxTools
<1>1. PICK len, k, raw : /\ len = Len(msgs) /\ k = KeepFrom(msgs, Preserve)
                         /\ raw = len - Preserve /\ len \in Nat
  OBVIOUS
<1>2. Preserve \in Nat \ {0} /\ MaxTools \in Nat /\ SummaryPrefix(msgs) \in {0, 1}
  BY ConversationConstants DEF SummaryPrefix
<1>3. \A i \in 1..Len(msgs) : msgs[i].n \in Nat
  <2>1. \A i \in 1..Len(msgs) : msgs[i] \in Message
    OBVIOUS
  <2> QED BY <2>1 DEF Message
<1>4. /\ k \in SummaryPrefix(msgs)..raw
      /\ \A l \in (k + 1)..raw : ~IsBoundary(msgs, l)
  BY <1>1, <1>2, BoundaryExists
<1>5. k \in Nat /\ raw \in Nat /\ k <= raw /\ raw + 1 <= len
  BY <1>1, <1>2, <1>4
<1>6. CASE k = raw
  BY <1>1, <1>2, <1>5, <1>6
<1>7. CASE k # raw
  <2>1. raw \in (k + 1)..raw /\ raw + 1 \in 1..len
    BY <1>5, <1>7
  <2>2. msgs[raw + 1].role = "tool"
    BY <1>4, <2>1 DEF IsBoundary
  <2>3. PICK r : r = raw + 1
    OBVIOUS
  <2>4. r \in 1..Len(msgs) /\ msgs[r].role = "tool" /\ msgs[r].id \notin spared
    <3>1. r \in 1..Len(msgs) /\ msgs[r].role = "tool"
      BY <1>1, <2>1, <2>2, <2>3
    <3>2. CASE Whole(msgs, spared)
      BY <3>1, <3>2 DEF Whole
    <3>3. CASE Whole(Compacted(msgs, Preserve), spared)
      <4>1. PICK c : c = Compacted(msgs, Preserve)
        OBVIOUS
      <4>2. Len(c) = len - k + 1 /\ \A i \in 2..Len(c) : c[i] = msgs[k + i - 1]
        BY <1>1, <1>2, <4>1, CompactedShape
      <4>3. PICK i : i = r - k + 1 /\ i \in 2..Len(c) /\ i \in 1..Len(c) /\ k + i - 1 = r
        BY <1>1, <1>5, <1>7, <2>3, <4>2
      <4>4. c[i] = msgs[r]
        BY <4>2, <4>3
      <4>. QED BY <3>1, <3>3, <4>1, <4>3, <4>4 DEF Whole
    <3>. QED BY <3>1, <3>2, <3>3
  <2>5. PICK j \in 1..(r - 1) : Answers(msgs, r, j) /\ msgs[r].n = r - j /\ msgs[j].n <= MaxTools
    BY <2>4 DEF InPlace
  <2>6. j \in 1..raw /\ j \in 1..len
    BY <1>1, <1>5, <2>3, <2>5
  <2>7. msgs[j].role = "assistant"
    BY <2>5 DEF Answers
  <2>8. r - j <= msgs[j].n /\ msgs[j].n <= MaxTools /\ msgs[j].n \in Nat
    BY <1>1, <1>3, <2>6, <2>5 DEF Answers
  <2>9. raw + 1 - j <= MaxTools
    BY <1>2, <1>5, <2>3, <2>6, <2>8
  <2>10. IsBoundary(msgs, j - 1)
    <3>1. (j - 1) + 1 = j
      BY <2>6
    <3> QED BY <2>7, <3>1 DEF IsBoundary
  <2>11. j - 1 <= k
    <3>1. j - 1 \notin (k + 1)..raw
      BY <1>4, <2>10
    <3> QED BY <1>5, <2>6, <3>1
  <2> QED BY <1>1, <1>2, <1>5, <2>6, <2>9, <2>11
<1> QED BY <1>6, <1>7

\* Without a compaction the session is as short already.
LEMMA ShortEnough ==
  ASSUME NEW msgs \in Seq(Message), NEW spared, InPlace(msgs, spared), NEW tokens, tokens >= Threshold,
         Whole(IF AutoCompacts(msgs, tokens) THEN Compacted(msgs, Preserve) ELSE msgs, spared)
  PROVE  IF AutoCompacts(msgs, tokens) THEN Len(Compacted(msgs, Preserve)) <= 1 + Preserve + MaxTools
         ELSE Len(msgs) <= 1 + Preserve + MaxTools
<1>1. Len(msgs) \in Nat /\ Preserve \in Nat \ {0} /\ MaxTools \in Nat
  BY ConversationConstants
<1>2. SummaryPrefix(msgs) \in {0, 1}
  BY DEF SummaryPrefix
<1>3. CASE ~ShouldCompact(msgs, Preserve)
  BY <1>1, <1>2, <1>3 DEF AutoCompacts, ShouldCompact
<1>4. CASE ShouldCompact(msgs, Preserve)
  <2>1. Len(msgs) - KeepFrom(msgs, Preserve) <= Preserve + MaxTools
    BY <1>4, CompactedIsShort
  <2>2. KeepFrom(msgs, Preserve) \in Nat /\ Len(Compacted(msgs, Preserve)) = Len(msgs) - KeepFrom(msgs, Preserve) + 1
    BY <1>1, <1>4, CompactedShape
  <2>3. CASE Removed(msgs, Preserve) # {}
    BY <1>1, <1>4, <2>1, <2>2, <2>3 DEF AutoCompacts
  <2>4. CASE Removed(msgs, Preserve) = {}
    <3>1. KeepFrom(msgs, Preserve) \in SummaryPrefix(msgs)..(Len(msgs) - Preserve)
      BY <1>1, <1>4, BoundaryExists
    <3>2. ~(SummaryPrefix(msgs) + 1 <= KeepFrom(msgs, Preserve))
      <4>1. ASSUME SummaryPrefix(msgs) + 1 <= KeepFrom(msgs, Preserve)
            PROVE  KeepFrom(msgs, Preserve) \in (SummaryPrefix(msgs) + 1)..KeepFrom(msgs, Preserve)
        BY <1>2, <2>2, <4>1
      <4> QED BY <2>4, <4>1 DEF Removed
    <3>3. KeepFrom(msgs, Preserve) <= 1
      BY <1>2, <2>2, <3>2
    <3> QED BY <1>1, <2>1, <2>2, <2>4, <3>3 DEF AutoCompacts
  <2> QED BY <2>3, <2>4
<1> QED BY <1>3, <1>4

\* The answer of the provider: it is pushed, or its write fails.
LEMMA Replied ==
  ASSUME IInv, AssistantReplies
  PROVE  \E m \in Message :
           /\ m.role = "assistant" /\ m.id = nextId /\ m.n \in 0..MaxTools /\ m.n \in Nat
           /\ m.usage \in Inputs /\ m = Assistant(m.id, m.n, m.usage)
           /\ pc = "stream" /\ UNCHANGED <<rotated, resumes, executed, trimmed>>
           /\ \/ /\ disk' = FileWith(m)
                 /\ AutoCompact(Append(messages, m), usage')
                 /\ batch' = nextId /\ batchSize' = m.n /\ nextTool' = 1
                 /\ pc' = IF m.n = 0 THEN "persist" ELSE "tools"
                 /\ UNCHANGED interrupted
              \/ /\ disk' \in FileAfterBrokenWrite(m)
                 /\ pc' = "failed"
                 /\ interrupted' = interrupted \cup {nextId}
                 /\ UNCHANGED <<messages, compactions, summarised>>
<1>1. PICK k \in 0..MaxTools, input \in Inputs :
        LET m == Assistant(nextId, k, input) IN
        \/ /\ disk' = FileWith(m)
           /\ AutoCompact(Append(messages, m), usage')
           /\ batch' = nextId /\ batchSize' = k /\ nextTool' = 1
           /\ pc' = IF k = 0 THEN "persist" ELSE "tools"
           /\ UNCHANGED interrupted
        \/ /\ disk' \in FileAfterBrokenWrite(m)
           /\ pc' = "failed"
           /\ interrupted' = interrupted \cup {nextId}
           /\ UNCHANGED <<session, batch, batchSize, nextTool, summarised>>
  BY Zenon DEF AssistantReplies
<1> DEFINE m == Assistant(nextId, k, input)
<1>2. /\ m \in Message /\ m.role = "assistant" /\ m.id = nextId /\ m.n = k /\ k \in Nat
      /\ m.usage \in Inputs /\ m = Assistant(m.id, m.n, m.usage)
  BY Parts, ConversationConstants DEF Assistant, Message, Rest
<1>3. pc = "stream" /\ UNCHANGED <<rotated, resumes, executed, trimmed>>
  BY DEF AssistantReplies
<1> HIDE DEF m
<1>4. \/ /\ disk' = FileWith(m)
         /\ AutoCompact(Append(messages, m), usage')
         /\ batch' = nextId /\ batchSize' = k /\ nextTool' = 1
         /\ pc' = IF k = 0 THEN "persist" ELSE "tools"
         /\ UNCHANGED interrupted
      \/ /\ disk' \in FileAfterBrokenWrite(m)
         /\ pc' = "failed"
         /\ interrupted' = interrupted \cup {nextId}
         /\ UNCHANGED <<messages, compactions, summarised>>
  BY <1>1, Zenon DEF m, session
<1> QED BY <1>2, <1>3, <1>4

LEMMA GrowthStep ==
  ASSUME IInv, Next, pc = "stream", pc' \in {"tools", "persist"}, usage' >= Threshold,
         Whole(messages', Touched')
  PROVE  Len(messages') <= 1 + Preserve + MaxTools
<1>1. AssistantReplies
  BY DEF Next, BeginTurn, ProbeFails, IterationLimit, StreamFails, Recover, RunTool, PushResult, PushResultFails,
         ManualCompact, Rotate, WriteSnapshot, SaveFails, Cleanup, ExitOnError, Crash, Vanish, Resume
<1>2. PICK m \in Message : /\ m.role = "assistant" /\ AutoCompact(Append(messages, m), usage')
                          /\ trimmed' = trimmed
  BY <1>1, Replied
<1>3. Append(messages, m) \in Seq(Message) /\ InPlace(Append(messages, m), Touched)
  BY <1>2, PushNonTool
<1>4. PICK s, tokens, T : s = Append(messages, m) /\ tokens = usage' /\ T = Touched
  OBVIOUS
<1>5. Touched' = T
  BY <1>2, <1>4 DEF Touched
<1>6. messages' = IF AutoCompacts(s, tokens) THEN Compacted(s, Preserve) ELSE s
  BY <1>2, <1>4 DEF AutoCompact
<1>7. Whole(IF AutoCompacts(s, tokens) THEN Compacted(s, Preserve) ELSE s, T)
  BY <1>5, <1>6
<1>8. s \in Seq(Message) /\ InPlace(s, T) /\ tokens >= Threshold
  BY <1>3, <1>4
<1> QED BY <1>6, <1>7, <1>8, ShortEnough

(* After every answer over the threshold the session is at most the          *)
(* preserved messages, their summary and the results of one answer long, if   *)
(* none of the results left has lost its assistant message to Trident.        *)
THEOREM Bounded == Spec => GrowthIsBounded
<1>1. IInv /\ [Next]_vars =>
        [(pc = "stream" /\ pc' \in {"tools", "persist"} /\ usage' >= Threshold
          /\ Whole(messages', Touched'))
           => Len(messages') <= 1 + Preserve + MaxTools]_vars
  BY GrowthStep
<1> QED BY <1>1, Inductive, PTL DEF Spec, GrowthIsBounded

-----------------------------------------------------------------------------
(* Every tool use is answered *)

\* Up to last, but for the spared ones.
AllAnswered(msgs, spared, last) ==
  \A j \in 1..last :
    msgs[j].role = "assistant" /\ msgs[j].id \notin spared => Answered(msgs, j)

\* The first k results of id stand at the end.
Given(msgs, id, k) == \A i \in 1..k : msgs[Len(msgs) - k + i] = ToolResult(id, i)

Answering == pc \in {"tools", "record"}

\* The batches whose results may be missing.
Spared == interrupted \cup Touched

SettledIn(msgs) ==
  /\ ~Answering => AllAnswered(msgs, Spared, Len(msgs))
  /\ Answering => /\ AllAnswered(msgs, Spared, Len(msgs) - nextTool)
                  /\ Given(msgs, batch, nextTool - 1)

\* The inductive invariant behind RequestsAreAnswered: only the last assistant
\* message may wait for results, and has those of the tools that ran.
Settled ==
  SettledIn(messages) /\ (Loadable(disk.recs) => SettledIn(disk.recs))

LEMMA AppendAnswered ==
  ASSUME NEW S, NEW msgs \in Seq(S), NEW m \in S, NEW spared,
         NEW last \in Int, last <= Len(msgs), AllAnswered(msgs, spared, last)
  PROVE  AllAnswered(Append(msgs, m), spared, last)
<1>1. PICK len \in Nat : len = Len(msgs)
  OBVIOUS
<1> DEFINE s == Append(msgs, m)
<1>2. Len(s) = len + 1 /\ \A i \in 1..len : s[i] = msgs[i]
  BY <1>1
<1> HIDE DEF s
<1>3. SUFFICES ASSUME NEW j \in 1..last, s[j].role = "assistant", s[j].id \notin spared,
                      NEW i \in 1..s[j].n
               PROVE  j + i <= Len(s) /\ s[j + i] = ToolResult(s[j].id, i)
  BY DEF AllAnswered, Answered, s
<1>4. s[j] = msgs[j]
  BY <1>1, <1>2
<1>5. j + i <= len /\ msgs[j + i] = ToolResult(msgs[j].id, i)
  BY <1>1, <1>3, <1>4 DEF AllAnswered, Answered
<1>6. j + i \in 1..len
  <2>1. CASE i \in Nat
    BY <1>1, <1>3, <1>5, <2>1
  <2> QED BY <1>3, <2>1
<1> QED BY <1>1, <1>2, <1>4, <1>5, <1>6

\* A message that asks for nothing, or is spared, may come last.
LEMMA AppendSettled ==
  ASSUME NEW S, NEW msgs \in Seq(S), NEW m \in S, NEW spared,
         AllAnswered(msgs, spared, Len(msgs)),
         m.role = "assistant" => m.id \in spared \/ m.n = 0
  PROVE  AllAnswered(Append(msgs, m), spared, Len(Append(msgs, m)))
<1>1. PICK len \in Nat : len = Len(msgs)
  OBVIOUS
<1> DEFINE s == Append(msgs, m)
<1>2. Len(s) = len + 1 /\ s[len + 1] = m
  BY <1>1
<1>3. AllAnswered(s, spared, len)
  BY <1>1, AppendAnswered
<1> HIDE DEF s
<1>4. SUFFICES ASSUME NEW j \in 1..Len(s), s[j].role = "assistant", s[j].id \notin spared
               PROVE  Answered(s, j)
  BY DEF AllAnswered, s
<1>5. CASE j \in 1..len
  BY <1>3, <1>4, <1>5 DEF AllAnswered
<1>6. CASE j = len + 1
  <2>1. s[j].n = 0
    BY <1>2, <1>4, <1>6
  <2> QED BY <2>1 DEF Answered
<1> QED BY <1>1, <1>2, <1>5, <1>6

LEMMA MoreSpared ==
  ASSUME NEW msgs, NEW spared, NEW more, spared \subseteq more, NEW last,
         AllAnswered(msgs, spared, last)
  PROVE  AllAnswered(msgs, more, last)
BY DEF AllAnswered

LEMMA CompactAnswered ==
  ASSUME NEW msgs \in Seq(Message), NEW preserve \in Nat, ShouldCompact(msgs, preserve),
         NEW spared, NEW d \in Nat, AllAnswered(msgs, spared, Len(msgs) - d)
  PROVE  AllAnswered(Compacted(msgs, preserve), spared, Len(Compacted(msgs, preserve)) - d)
<1>1. PICK c, k, len, n : /\ c = Compacted(msgs, preserve) /\ k = KeepFrom(msgs, preserve)
                          /\ len = Len(msgs) /\ len \in Nat /\ n = Len(c)
  <2>1. Len(msgs) \in Nat
    OBVIOUS
  <2> QED BY <2>1
<1>2. /\ k \in Nat /\ k <= len - preserve /\ n = len - k + 1
      /\ c[1].role = "system" /\ \A i \in 2..n : c[i] = msgs[k + i - 1]
  <2>1. /\ k \in Nat /\ k <= len - preserve /\ n = len - k + 1
        /\ c[1] = Summary /\ \A i \in 2..n : c[i] = msgs[k + i - 1]
    BY <1>1, CompactedShape
  <2>. QED BY <2>1 DEF Summary
<1>3. k \in Nat /\ len \in Nat /\ n \in Nat /\ n = len - k + 1 /\ k <= len
  BY <1>1, <1>2
<1>4. SUFFICES ASSUME NEW j \in 1..(n - d), c[j].role = "assistant", c[j].id \notin spared,
                      NEW i \in 1..c[j].n
               PROVE  j + i <= n /\ c[j + i] = ToolResult(c[j].id, i)
  BY <1>1 DEF AllAnswered, Answered
<1>5. j \in 2..n
  BY <1>2, <1>3, <1>4
<1>6. c[j] = msgs[k + j - 1] /\ k + j - 1 \in 1..(len - d)
  BY <1>2, <1>3, <1>4, <1>5
<1>7. k + j - 1 + i <= len /\ msgs[k + j - 1 + i] = ToolResult(c[j].id, i)
  <2>1. PICK a : a = k + j - 1
    OBVIOUS
  <2>2. Answered(msgs, a)
    BY <1>1, <1>4, <1>6, <2>1 DEF AllAnswered
  <2> QED BY <1>1, <1>4, <1>6, <2>1, <2>2 DEF Answered
<1>8. j \in Nat /\ i \in Nat /\ i >= 1
  <2>1. c[j].n \in Nat
    <3>1. PICK a : a = k + j - 1 /\ a \in 1..len
      BY <1>3, <1>6
    <3>2. msgs[a] \in Message
      BY <1>1, <3>1
    <3> QED BY <1>6, <3>1, <3>2 DEF Message
  <2> QED BY <1>4, <1>5, <2>1
<1>9. j + i <= n
  BY <1>3, <1>7, <1>8
<1>10. j + i \in 2..n /\ k + (j + i) - 1 = k + j - 1 + i
  BY <1>3, <1>5, <1>8, <1>9
<1>11. c[j + i] = msgs[k + (j + i) - 1]
  BY <1>2, <1>10
<1> QED BY <1>7, <1>9, <1>10, <1>11

LEMMA TrimAnswered ==
  ASSUME NEW msgs \in Seq(Message), NEW out, NEW lost, NEW f, IsTrim(msgs, out, lost, f),
         NEW spared, AllAnswered(msgs, spared, Len(msgs)), \A m \in lost : m.id \in spared
  PROVE  AllAnswered(out, spared, Len(out))
<1>1. SUFFICES ASSUME NEW a \in 1..Len(out), out[a].role = "assistant", out[a].id \notin spared
               PROVE  Answered(out, a)
  BY DEF AllAnswered
<1>2. PICK j : j = f[a] /\ j \in 1..Len(msgs) /\ out[a] = msgs[j]
  BY <1>1 DEF IsTrim, Note
<1>3. PICK id, k : id = msgs[j].id /\ k = msgs[j].n /\ id \notin spared /\ k \in Nat
  <2>1. msgs[j] \in Message
    BY <1>2
  <2>. QED BY <1>1, <1>2, <2>1 DEF Message
<1>4. \A i \in 1..k : j + i <= Len(msgs) /\ msgs[j + i] = ToolResult(id, i)
  BY <1>1, <1>2, <1>3 DEF AllAnswered, Answered
<1>5. a \in Nat /\ j \in Nat /\ Len(out) \in Nat /\ Len(msgs) \in Nat
  BY <1>2 DEF IsTrim
<1>6. CASE k = 0
  BY <1>2, <1>3, <1>6 DEF Answered
<1>7. CASE k # 0
  <2>1. j + k \in 1..Len(msgs) /\ k \in 1..k
    BY <1>3, <1>4, <1>5, <1>7
  <2>2. \A l \in j..(j + k) : msgs[l].id = id
    <3>1. TAKE l \in j..(j + k)
    <3>2. l = j \/ (l - j \in 1..k /\ j + (l - j) = l)
      BY <1>3, <1>5
    <3>3. CASE l = j
      BY <1>3, <3>3
    <3>4. CASE l - j \in 1..k /\ j + (l - j) = l
      <4>1. msgs[j + (l - j)] = ToolResult(id, l - j)
        BY <1>4, <3>4
      <4>2. ToolResult(id, l - j).id = id
        BY DEF ToolResult
      <4>. QED BY <3>4, <4>1, <4>2
    <3>. QED BY <3>2, <3>3, <3>4
  <2>3. \A l \in j..(j + k) : msgs[l] \notin lost
    BY <1>3, <2>2
  <2>4. msgs[j + k] \notin lost
    <3>1. j + k \in j..(j + k)
      BY <1>3, <1>5
    <3>. QED BY <2>3, <3>1
  <2>5. PICK z \in 1..Len(out) : f[z] = j + k
    BY <2>1, <2>4 DEF IsTrim
  <2>6. k < f[z] /\ f[z] - k = j
    BY <1>2, <1>3, <1>5, <2>5
  <2>7. \A e \in 0..k : z - e \in 1..Len(out) /\ f[z - e] = f[z] - e /\ out[z - e] = msgs[f[z] - e]
    <3>1. \A l \in (f[z] - k)..f[z] : msgs[l] \notin lost
      BY <2>3, <2>5, <2>6
    <3>2. k \in Nat /\ k < f[z]
      BY <1>3, <2>6
    <3>. QED BY <3>1, <3>2, RunsStay
  <2>8. z - k = a
    <3>1. PICK y : y = z - k /\ y \in 1..Len(out) /\ f[y] = j
      <4>1. k \in 0..k
        BY <1>3
      <4>. QED BY <2>6, <2>7, <4>1
    <3>2. ~(f[y] < f[a]) /\ ~(f[a] < f[y])
      BY <1>2, <1>5, <3>1
    <3>3. ~(y < a) /\ ~(a < y)
      BY <3>1, <3>2 DEF IsTrim
    <3>. QED BY <1>5, <3>1, <3>3
  <2>9. ASSUME NEW i \in 1..k PROVE a + i <= Len(out) /\ out[a + i] = ToolResult(id, i)
    <3>1. z \in Nat /\ i \in Nat /\ i >= 1 /\ i <= k
      BY <1>3, <1>5
    <3>4. PICK e \in Nat : e = k - i
      BY <1>3, <3>1
    <3>5. k \in Nat /\ j \in Nat /\ a \in Nat
      BY <1>3, <1>5
    <3>6. e \in 0..k /\ (j + k) - e = j + i
      BY <3>1, <3>4, <3>5
    <3>7. z - e = a + i
      BY <2>8, <3>1, <3>4, <3>5
    <3>3. e \in 0..k /\ z - e = a + i /\ (j + k) - e = j + i
      BY <3>6, <3>7
    <3>2. a + i \in 1..Len(out) /\ out[a + i] = msgs[j + i]
      <4>1. z - e \in 1..Len(out) /\ out[z - e] = msgs[f[z] - e]
        BY <2>7, <3>3
      <4>. QED BY <2>5, <3>3, <4>1
    <3>. QED BY <1>4, <1>5, <3>2
  <2>. QED BY <1>2, <1>3, <2>9 DEF Answered
<1>. QED BY <1>6, <1>7

\* A batch that ends: its results are all there, or it is spared.
LEMMA BatchSettled ==
  ASSUME NEW S, NEW msgs \in Seq(S), NEW spared, NEW k \in Nat,
         AllAnswered(msgs, spared, Len(msgs) - k - 1), OpenBatch(msgs, k),
         batch \in spared \/ (k = batchSize /\ Given(msgs, batch, k))
  PROVE  AllAnswered(msgs, spared, Len(msgs))
<1>1. PICK len \in Nat : len = Len(msgs)
  OBVIOUS
<1>2. PICK a \in 1..len :
        /\ msgs[a].role = "assistant" /\ msgs[a].id = batch /\ msgs[a].n = batchSize
        /\ a + k = len
        /\ \A l \in (a + 1)..len : msgs[l].role = "tool"
  BY <1>1 DEF OpenBatch
<1>3. SUFFICES ASSUME NEW j \in 1..len, msgs[j].role = "assistant", msgs[j].id \notin spared
               PROVE  Answered(msgs, j)
  BY <1>1 DEF AllAnswered
<1>4. CASE j < a
  <2>1. j \in 1..(len - k - 1)
    BY <1>1, <1>2, <1>4
  <2> QED BY <1>1, <1>3, <2>1 DEF AllAnswered
<1>5. CASE j = a
  <2>1. k = batchSize /\ Given(msgs, batch, k)
    BY <1>2, <1>3, <1>5
  <2>2. len - k = j
    BY <1>1, <1>2, <1>5
  <2>3. \A i \in 1..k : msgs[j + i] = ToolResult(batch, i) /\ j + i <= len
    <3>1. TAKE i \in 1..k
    <3>2. len - k + i = j + i /\ j + i <= len
      BY <1>1, <1>2, <1>5, <2>2
    <3>3. msgs[len - k + i] = ToolResult(batch, i)
      BY <1>1, <2>1, <3>1 DEF Given
    <3> QED BY <3>2, <3>3
  <2> QED BY <1>1, <1>2, <1>5, <2>1, <2>3 DEF Answered
<1>6. CASE j > a
  <2>1. j \in (a + 1)..len
    BY <1>1, <1>2, <1>6
  <2> QED BY <1>2, <1>3, <2>1
<1> QED BY <1>1, <1>2, <1>4, <1>5, <1>6

\* One more result of a batch.
LEMMA OneMoreGiven ==
  ASSUME NEW S, NEW msgs \in Seq(S), NEW id, NEW k \in Nat, k <= Len(msgs),
         ToolResult(id, k + 1) \in S, Given(msgs, id, k)
  PROVE  Given(Append(msgs, ToolResult(id, k + 1)), id, k + 1)
<1>1. PICK len \in Nat, m \in S : len = Len(msgs) /\ m = ToolResult(id, k + 1)
  OBVIOUS
<1> DEFINE s == Append(msgs, m)
<1>2. Len(s) = len + 1 /\ s[len + 1] = m /\ \A i \in 1..len : s[i] = msgs[i]
  BY <1>1
<1> HIDE DEF s
<1>3. ASSUME NEW i \in 1..(k + 1)
      PROVE  s[len + 1 - (k + 1) + i] = ToolResult(id, i)
  <2>1. CASE i = k + 1
    <3>1. len + 1 - (k + 1) + i = len + 1
      BY <1>1, <2>1
    <3> QED BY <1>1, <1>2, <2>1, <3>1
  <2>2. CASE i # k + 1
    <3>1. i \in 1..k /\ len - k + i \in 1..len /\ len + 1 - (k + 1) + i = len - k + i
      BY <1>1, <1>3, <2>2
    <3>2. msgs[len - k + i] = ToolResult(id, i)
      BY <1>1, <3>1 DEF Given
    <3> QED BY <1>2, <3>1, <3>2
  <2> QED BY <2>1, <2>2
<1>4. Given(s, id, k + 1)
  BY <1>1, <1>2, <1>3 DEF Given
<1> QED BY <1>1, <1>4 DEF s

\* The lines of a file that loads after a write, whether it succeeded or not.
LEMMA LinesAfterWrite ==
  ASSUME TypeOK, OpenLineExists, NEW m \in Message,
         NEW d \in {FileWith(m)} \cup FileAfterBrokenWrite(m), Loadable(d.recs)
  PROVE  \/ d.recs = Append(messages, m)
         \/ Loadable(disk.recs) /\ (d.recs = disk.recs \/ d.recs = Append(disk.recs, m))
<1>1. disk \in Disk /\ disk.recs \in Seq(Record) /\ messages \in Seq(Message)
  BY DEF TypeOK, Disk
<1>2. m \in Record /\ Torn \in Record
  BY DEF Record
<1> DEFINE spoilt == [disk.recs EXCEPT ![Len(disk.recs)] = Torn]
           longer(r) == Append(disk.recs, r)
<1>3. disk.open => ~Loadable(spoilt)
  <2>1. ASSUME disk.open PROVE Len(disk.recs) \in 1..Len(spoilt) /\ spoilt[Len(disk.recs)] = Torn
    BY <1>1, <1>2, <2>1 DEF OpenLineExists
  <2> QED BY <2>1 DEF Loadable
<1>4. ~Loadable(longer(Torn))
  <2>1. Len(longer(Torn)) = Len(disk.recs) + 1 /\ longer(Torn)[Len(disk.recs) + 1] = Torn
    BY <1>1, <1>2
  <2> QED BY <1>1, <2>1 DEF Loadable
<1>5. Loadable(longer(m)) => Loadable(disk.recs)
  <2>1. Len(longer(m)) = Len(disk.recs) + 1 /\ \A i \in 1..Len(disk.recs) : longer(m)[i] = disk.recs[i]
    BY <1>1, <1>2
  <2> QED BY <1>1, <2>1 DEF Loadable
<1> HIDE DEF spoilt, longer
<1>6. \/ d = disk
      \/ d = Snapshot(Append(messages, m))
      \/ disk.open /\ \E o \in BOOLEAN : d = [disk EXCEPT !.recs = spoilt, !.open = o]
      \/ disk.open /\ d = [disk EXCEPT !.recs = spoilt]
      \/ \E r \in {m, Torn}, o \in BOOLEAN : d = [disk EXCEPT !.recs = longer(r), !.open = o]
      \/ d = [disk EXCEPT !.recs = longer(m)]
  BY <1>1 DEF FileWith, FileAfterBrokenWrite, Appended, spoilt, longer, Disk
<1>7. CASE d = disk
  BY <1>7
<1>8. CASE d = Snapshot(Append(messages, m))
  BY <1>8 DEF Snapshot
<1>9. CASE disk.open /\ (\/ \E o \in BOOLEAN : d = [disk EXCEPT !.recs = spoilt, !.open = o]
                         \/ d = [disk EXCEPT !.recs = spoilt])
  <2>1. d.recs = spoilt
    BY <1>1, <1>9 DEF Disk
  <2> QED BY <1>3, <1>9, <2>1
<1>10. CASE \/ \E r \in {m, Torn}, o \in BOOLEAN : d = [disk EXCEPT !.recs = longer(r), !.open = o]
            \/ d = [disk EXCEPT !.recs = longer(m)]
  <2>1. d.recs = longer(m) \/ d.recs = longer(Torn)
    BY <1>1, <1>10 DEF Disk
  <2>2. longer(m) = Append(disk.recs, m)
    BY DEF longer
  <2> QED BY <1>4, <1>5, <2>1, <2>2
<1> QED BY <1>6, <1>7, <1>8, <1>9, <1>10

\* What a message that asks for nothing, or is spared, leaves: the session with
\* it, and whatever file its write left.
LEMMA PushSettled ==
  ASSUME IInv, Settled, NEW spared, Spared \subseteq spared, Answering => batch \in spared,
         NEW m \in Message, m.role = "assistant" => m.id \in spared \/ m.n = 0
  PROVE  /\ AllAnswered(messages, spared, Len(messages))
         /\ AllAnswered(Append(messages, m), spared, Len(Append(messages, m)))
         /\ Loadable(disk.recs) => AllAnswered(disk.recs, spared, Len(disk.recs))
         /\ \A d \in {FileWith(m)} \cup FileAfterBrokenWrite(m) :
              Loadable(d.recs) => AllAnswered(d.recs, spared, Len(d.recs))
<1>1. messages \in Seq(Message) /\ disk.recs \in Seq(Record) /\ m \in Record /\ nextTool \in Nat
  BY DEF IInv, TypeOK, Record
<1>2. AllAnswered(messages, spared, Len(messages))
  <2>1. CASE ~Answering
    BY <2>1, MoreSpared DEF Settled, SettledIn
  <2>2. CASE Answering
    <3>1. nextTool - 1 \in Nat /\ OpenBatch(messages, nextTool - 1)
      BY <1>1, <2>2 DEF IInv, BatchIsOpen, Answering
    <3>2. Len(messages) - (nextTool - 1) - 1 = Len(messages) - nextTool
      BY <1>1
    <3>3. AllAnswered(messages, spared, Len(messages) - (nextTool - 1) - 1)
      BY <2>2, <3>2, MoreSpared DEF Settled, SettledIn
    <3> QED BY <1>1, <2>2, <3>1, <3>3, BatchSettled
  <2> QED BY <2>1, <2>2
<1>3. ASSUME Loadable(disk.recs) PROVE AllAnswered(disk.recs, spared, Len(disk.recs))
  <2>1. CASE ~Answering
    BY <1>3, <2>1, MoreSpared DEF Settled, SettledIn
  <2>2. CASE Answering
    <3>1. nextTool - 1 \in Nat /\ OpenBatch(disk.recs, nextTool - 1)
      BY <1>1, <1>3, <2>2 DEF IInv, BatchIsOpen, Answering
    <3>2. Len(disk.recs) - (nextTool - 1) - 1 = Len(disk.recs) - nextTool
      BY <1>1
    <3>3. AllAnswered(disk.recs, spared, Len(disk.recs) - (nextTool - 1) - 1)
      BY <1>3, <2>2, <3>2, MoreSpared DEF Settled, SettledIn
    <3> QED BY <1>1, <2>2, <3>1, <3>3, BatchSettled
  <2> QED BY <2>1, <2>2
<1>4. AllAnswered(Append(messages, m), spared, Len(Append(messages, m)))
  BY <1>1, <1>2, AppendSettled
<1>5. Loadable(disk.recs) => AllAnswered(Append(disk.recs, m), spared, Len(Append(disk.recs, m)))
  BY <1>1, <1>3, AppendSettled
<1>6. ASSUME NEW d \in {FileWith(m)} \cup FileAfterBrokenWrite(m), Loadable(d.recs)
      PROVE  AllAnswered(d.recs, spared, Len(d.recs))
  <2>1. \/ d.recs = Append(messages, m)
        \/ Loadable(disk.recs) /\ (d.recs = disk.recs \/ d.recs = Append(disk.recs, m))
    BY <1>6, LinesAfterWrite DEF IInv
  <2> QED BY <1>3, <1>4, <1>5, <2>1
<1> QED BY <1>2, <1>3, <1>4, <1>6

LEMMA ReachedSettled ==
  ASSUME pc' \notin {"tools", "record"}, AllAnswered(messages', Spared', Len(messages')),
         Loadable(disk'.recs) => AllAnswered(disk'.recs, Spared', Len(disk'.recs))
  PROVE  Settled'
BY DEF Settled, SettledIn, Answering, Loadable

LEMMA ReachedAnswering ==
  ASSUME pc' \in {"tools", "record"},
         AllAnswered(messages', Spared', Len(messages') - nextTool'),
         Given(messages', batch', nextTool' - 1),
         Loadable(disk'.recs) => /\ AllAnswered(disk'.recs, Spared', Len(disk'.recs) - nextTool')
                                 /\ Given(disk'.recs, batch', nextTool' - 1)
  PROVE  Settled'
BY DEF Settled, SettledIn, Answering, Loadable

LEMMA SettledInit == Init => Settled
<1>1. Init => messages = <<>> /\ disk.recs = <<>> /\ pc = "idle"
  BY DEF Init, NoFile
<1>2. \A spared : AllAnswered(<<>>, spared, Len(<<>>))
  BY DEF AllAnswered
<1> QED BY <1>1, <1>2 DEF Settled, SettledIn, Answering

LEMMA RepliesSettled ==
  ASSUME IInv, Settled, AssistantReplies PROVE Settled'
<1>1. messages \in Seq(Message) /\ disk.recs \in Seq(Record)
  BY DEF IInv, TypeOK
<1>2. PICK m \in Message :
        /\ m.role = "assistant" /\ m.id = nextId /\ m.n \in Nat
        /\ pc = "stream" /\ trimmed' = trimmed
        /\ \/ /\ disk' = FileWith(m)
              /\ AutoCompact(Append(messages, m), usage')
              /\ batch' = nextId /\ batchSize' = m.n /\ nextTool' = 1
              /\ pc' = IF m.n = 0 THEN "persist" ELSE "tools"
              /\ UNCHANGED interrupted
           \/ /\ disk' \in FileAfterBrokenWrite(m)
              /\ pc' = "failed"
              /\ interrupted' = interrupted \cup {nextId}
              /\ UNCHANGED <<messages, compactions, summarised>>
  BY Replied
<1>3. CASE /\ disk' \in FileAfterBrokenWrite(m)
           /\ pc' = "failed"
           /\ interrupted' = interrupted \cup {nextId}
           /\ UNCHANGED <<messages, compactions, summarised>>
  <2>1. Spared \subseteq Spared' /\ ~Answering /\ m.id \in Spared'
    BY <1>2, <1>3 DEF Answering, Spared, Touched
  <2>2. /\ AllAnswered(messages, Spared', Len(messages))
        /\ \A d \in FileAfterBrokenWrite(m) : Loadable(d.recs) => AllAnswered(d.recs, Spared', Len(d.recs))
    BY <2>1, PushSettled
  <2>3. messages' = messages
    BY <1>3
  <2> QED BY <1>3, <2>2, <2>3, ReachedSettled
<1>4. CASE /\ disk' = FileWith(m)
           /\ AutoCompact(Append(messages, m), usage')
           /\ batch' = nextId /\ batchSize' = m.n /\ nextTool' = 1
           /\ pc' = IF m.n = 0 THEN "persist" ELSE "tools"
           /\ UNCHANGED interrupted
  <2>1. PICK s, tokens, open : /\ s = Append(messages, m) /\ tokens = usage'
                               /\ open = (IF m.n = 0 THEN 0 ELSE 1)
    OBVIOUS
  <2>2. s \in Seq(Message) /\ InPlace(s, Touched)
    BY <1>2, <2>1, PushNonTool
  <2>3. /\ AllAnswered(messages, Spared, Len(messages))
        /\ Loadable(disk.recs) => AllAnswered(disk.recs, Spared, Len(disk.recs))
    BY <1>2 DEF Settled, SettledIn, Answering
  <2>4. ASSUME NEW S, NEW q \in Seq(S), m \in S, AllAnswered(q, Spared, Len(q))
        PROVE  AllAnswered(Append(q, m), Spared, Len(Append(q, m)) - open)
    <3>1. CASE m.n = 0
      <4>1. Len(Append(q, m)) - open = Len(Append(q, m))
        BY <2>1, <2>4, <3>1
      <4> QED BY <2>4, <3>1, <4>1, AppendSettled
    <3>2. CASE m.n # 0
      <4>1. Len(Append(q, m)) - open = Len(q) /\ Len(q) \in Int /\ Len(q) <= Len(q)
        BY <2>1, <2>4, <3>2
      <4> QED BY <2>4, <4>1, AppendAnswered
    <3> QED BY <3>1, <3>2
  <2>5. AllAnswered(s, Spared, Len(s) - open)
    BY <1>1, <2>1, <2>3, <2>4
  <2>6. ASSUME Loadable(disk'.recs) PROVE AllAnswered(disk'.recs, Spared, Len(disk'.recs) - open)
    <3>1. m \in Record
      BY DEF Record
    <3>2. disk'.recs = s \/ (disk'.recs = Append(disk.recs, m) /\ Loadable(disk.recs))
      BY <1>4, <2>1, <2>6, WrittenLast DEF IInv
    <3>3. CASE disk'.recs = s
      BY <2>5, <3>3
    <3>4. CASE disk'.recs = Append(disk.recs, m) /\ Loadable(disk.recs)
      BY <1>1, <2>3, <2>4, <3>1, <3>4
    <3> QED BY <3>2, <3>3, <3>4
  <2>7. AllAnswered(messages', Spared, Len(messages') - open)
    <3>1. AutoCompact(s, tokens)
      BY <1>4, <2>1
    <3>2. CASE AutoCompacts(s, tokens)
      <4>1. messages' = Compacted(s, Preserve) /\ ShouldCompact(s, Preserve)
        BY <3>1, <3>2 DEF AutoCompact, AutoCompacts
      <4>2. open \in Nat /\ Preserve \in Nat
        BY <2>1, ConversationConstants
      <4> QED BY <2>2, <2>5, <4>1, <4>2, CompactAnswered
    <3>3. CASE ~AutoCompacts(s, tokens)
      BY <2>5, <3>1, <3>3 DEF AutoCompact
    <3> QED BY <3>2, <3>3
  <2>8. messages' \in Seq(Message) /\ disk'.recs \in Seq(Record)
    <3>1. IInv'
      BY AssistantRepliesStep
    <3> QED BY <3>1 DEF IInv, TypeOK
  <2>9. CASE m.n = 0
    <3>1. open = 0 /\ pc' = "persist" /\ Spared' = Spared
      BY <1>2, <1>4, <2>1, <2>9 DEF Spared, Touched
    <3>2. Len(messages') - open = Len(messages') /\ Len(disk'.recs) - open = Len(disk'.recs)
      BY <2>8, <3>1
    <3> QED BY <2>6, <2>7, <3>1, <3>2, ReachedSettled
  <2>10. CASE m.n # 0
    <3>1. open = 1 /\ pc' = "tools" /\ Spared' = Spared /\ nextTool' = 1
      BY <1>2, <1>4, <2>1, <2>10 DEF Spared, Touched
    <3>2. \A q : Given(q, batch', nextTool' - 1)
      BY <3>1 DEF Given
    <3> QED BY <2>6, <2>7, <3>1, <3>2, ReachedAnswering
  <2> QED BY <2>9, <2>10
<1> QED BY <1>2, <1>3, <1>4

LEMMA PushResultSettled ==
  ASSUME IInv, Settled, PushResult PROVE Settled'
<1>1. /\ messages \in Seq(Message) /\ disk.recs \in Seq(Record)
      /\ nextTool \in Nat /\ nextTool - 1 \in Nat /\ pc = "record" /\ nextTool \in 1..batchSize
      /\ batchSize \in Nat
  BY DEF IInv, TypeOK, BatchIsOpen, PushResult
<1>2. PICK m, n : m = ToolResult(batch, nextTool) /\ n = nextTool
  OBVIOUS
<1>3. m \in Message /\ m \in Record /\ m.role = "tool"
  BY <1>1, <1>2, PushTool DEF Record, ToolResult
<1>4. /\ messages' = Append(messages, m) /\ disk' = FileWith(m)
      /\ UNCHANGED <<batch, batchSize>> /\ Spared' = Spared
      /\ \/ n < batchSize /\ pc' = "tools" /\ nextTool' = n + 1
         \/ n = batchSize /\ pc' = "stream"
  BY <1>1, <1>2 DEF PushResult, history, Spared, Touched
<1>5. ASSUME NEW S, NEW q \in Seq(S), m \in S, OpenBatch(q, n - 1),
             AllAnswered(q, Spared, Len(q) - n), Given(q, batch, n - 1)
      PROVE  /\ AllAnswered(Append(q, m), Spared, Len(Append(q, m)) - (n + 1))
             /\ Given(Append(q, m), batch, n)
  <2>1. Len(Append(q, m)) - (n + 1) = Len(q) - n /\ Len(q) - n \in Int /\ Len(q) - n <= Len(q)
    BY <1>1, <1>2, <1>5
  <2>2. n - 1 \in Nat /\ n - 1 <= Len(q) /\ (n - 1) + 1 = n
    BY <1>1, <1>2, <1>5 DEF OpenBatch
  <2>3. Given(Append(q, ToolResult(batch, (n - 1) + 1)), batch, (n - 1) + 1)
    BY <1>2, <1>5, <2>2, OneMoreGiven
  <2> QED BY <1>2, <1>5, <2>1, <2>2, <2>3, AppendAnswered
<1>6. /\ AllAnswered(messages', Spared, Len(messages') - (n + 1)) /\ Given(messages', batch, n)
      /\ OpenBatch(messages', n)
  <2>1. OpenBatch(Append(messages, m), n)
    BY <1>1, <1>2, PushTool
  <2>2. OpenBatch(messages, n - 1) /\ AllAnswered(messages, Spared, Len(messages) - n)
        /\ Given(messages, batch, n - 1)
    BY <1>1, <1>2 DEF IInv, BatchIsOpen, Settled, SettledIn, Answering
  <2> QED BY <1>1, <1>3, <1>4, <1>5, <2>1, <2>2
<1>7. ASSUME Loadable(disk'.recs)
      PROVE  /\ AllAnswered(disk'.recs, Spared, Len(disk'.recs) - (n + 1)) /\ Given(disk'.recs, batch, n)
             /\ OpenBatch(disk'.recs, n)
  <2>1. OpenBatch(disk'.recs, n)
    BY <1>1, <1>2, <1>4, <1>7, PushTool
  <2>2. disk'.recs = messages' \/ (disk'.recs = Append(disk.recs, m) /\ Loadable(disk.recs))
    BY <1>3, <1>4, <1>7, WrittenLast DEF IInv
  <2>3. CASE disk'.recs = messages'
    BY <1>6, <2>1, <2>3
  <2>4. CASE disk'.recs = Append(disk.recs, m) /\ Loadable(disk.recs)
    <3>1. OpenBatch(disk.recs, n - 1) /\ AllAnswered(disk.recs, Spared, Len(disk.recs) - n)
          /\ Given(disk.recs, batch, n - 1)
      BY <1>1, <1>2, <2>4 DEF IInv, BatchIsOpen, Settled, SettledIn, Answering
    <3> QED BY <1>1, <1>3, <1>5, <2>1, <2>4, <3>1
  <2> QED BY <2>2, <2>3, <2>4
<1>8. CASE n < batchSize /\ pc' = "tools" /\ nextTool' = n + 1
  <2>1. nextTool' - 1 = n
    BY <1>1, <1>2, <1>8
  <2> QED BY <1>4, <1>6, <1>7, <1>8, <2>1, ReachedAnswering
<1>9. CASE n = batchSize /\ pc' = "stream"
  <2>1. messages' \in Seq(Message) /\ disk'.recs \in Seq(Record) /\ n \in Nat
    <3>1. IInv'
      BY PushResultStep
    <3> QED BY <1>1, <1>2, <3>1 DEF IInv, TypeOK
  <2>2. Len(messages') - n - 1 = Len(messages') - (n + 1) /\ Len(disk'.recs) - n - 1 = Len(disk'.recs) - (n + 1)
    BY <2>1
  <2>3. AllAnswered(messages', Spared, Len(messages'))
    BY <1>6, <1>9, <2>1, <2>2, BatchSettled
  <2>4. Loadable(disk'.recs) => AllAnswered(disk'.recs, Spared, Len(disk'.recs))
    BY <1>7, <1>9, <2>1, <2>2, BatchSettled
  <2> QED BY <1>4, <1>9, <2>3, <2>4, ReachedSettled
<1> QED BY <1>4, <1>8, <1>9

\* A failed write of a result, and a kill, spare the batch they interrupt.
LEMMA BrokenSettled ==
  ASSUME IInv, Settled, NEW m \in Message, m.role = "assistant" => m.id \in Spared',
         Spared \subseteq Spared', Answering => batch \in Spared',
         disk' \in {disk, FileWith(m)} \cup FileAfterBrokenWrite(m),
         messages' \in {messages, <<>>}, pc' \notin {"tools", "record"}
  PROVE  Settled'
<1>1. /\ AllAnswered(messages, Spared', Len(messages))
      /\ Loadable(disk.recs) => AllAnswered(disk.recs, Spared', Len(disk.recs))
      /\ \A d \in {FileWith(m)} \cup FileAfterBrokenWrite(m) :
           Loadable(d.recs) => AllAnswered(d.recs, Spared', Len(d.recs))
  BY PushSettled
<1>2. AllAnswered(<<>>, Spared', Len(<<>>))
  BY DEF AllAnswered
<1>3. AllAnswered(messages', Spared', Len(messages'))
  BY <1>1, <1>2
<1>4. Loadable(disk'.recs) => AllAnswered(disk'.recs, Spared', Len(disk'.recs))
  BY <1>1
<1> QED BY <1>3, <1>4, ReachedSettled

LEMMA CrashSettled ==
  ASSUME IInv, Settled, Crash PROVE Settled'
<1>1. /\ pc' = "down" /\ messages' = <<>> /\ trimmed' = trimmed
      /\ nextId \in Nat /\ batch \in Nat /\ nextTool \in Nat
  BY DEF Crash, Vanish, IInv, TypeOK
<1>2. CASE /\ interrupted' = interrupted \cup (IF pc \in {"tools", "record"} THEN {batch} ELSE {})
           /\ UNCHANGED <<disk, nextId>>
  <2>1. User(nextId) \in Message /\ User(nextId).role # "assistant"
    BY <1>1 DEF User, Message
  <2>2. Spared \subseteq Spared' /\ (Answering => batch \in Spared')
    BY <1>1, <1>2 DEF Answering, Spared, Touched
  <2> QED BY <1>1, <1>2, <2>1, <2>2, BrokenSettled
<1>3. ASSUME NEW m \in InFlight,
             disk' \in FileAfterBrokenWrite(m) \cup {FileWith(m)},
             interrupted' = interrupted \cup {m.id}
      PROVE  Settled'
  <2>1. m \in Message /\ (Answering => m.id = batch)
    <3>1. CASE pc = "record"
      <4>1. m = ToolResult(batch, nextTool)
        BY <1>3, <3>1 DEF InFlight
      <4> QED BY <1>1, <4>1 DEF ToolResult, Message
    <3>2. CASE pc # "record"
      <4>1. m = User(nextId) \/ \E k \in 0..MaxTools : m = Assistant(nextId, k, 0)
        BY <1>3, <3>2 DEF InFlight
      <4>2. pc # "tools"
        BY <1>3, <3>2 DEF InFlight
      <4> QED BY <1>1, <3>2, <4>1, <4>2, ConversationConstants DEF User, Assistant, Message, Answering
    <3> QED BY <3>1, <3>2
  <2>2. Spared \subseteq Spared' /\ m.id \in Spared'
    BY <1>1, <1>3 DEF Spared, Touched
  <2> QED BY <1>1, <1>3, <2>1, <2>2, BrokenSettled
<1> QED BY <1>2, <1>3 DEF Crash

\* Trident may cost a batch its results, and has touched it then.
LEMMA RecoverSettled ==
  ASSUME IInv, Settled, Recover PROVE Settled'
<1>1. messages \in Seq(Message)
  BY DEF IInv, TypeOK
<1>2. PICK msgs, base, lost, removed, m, f : Recovered(msgs, base, lost, removed, m, f)
  BY RecoverMeans
<1>3. PICK T : T = Spared'
  OBVIOUS
<1>4. /\ msgs \in Seq(Message) /\ base \in Seq(Message) /\ m \in Message /\ m.role = "user"
      /\ Touched \subseteq Touched' /\ \A x \in lost : x.id \in Touched'
  BY <1>2, RecoveredBase
<1>5. /\ pc = "stream" /\ IsTrim(messages, msgs, lost, f)
      /\ \/ messages' = Append(base, m) /\ disk' = FileWith(m) /\ pc' = "stream"
         \/ messages' = base /\ disk' \in FileAfterBrokenWrite(m) /\ pc' = "failed"
  BY <1>2 DEF Recovered
<1>6. Spared \subseteq T /\ (\A x \in lost : x.id \in T) /\ ~Answering
  BY <1>3, <1>4, <1>5 DEF Spared, Answering, Recover
<1>7. /\ AllAnswered(messages, T, Len(messages))
      /\ \A d \in {FileWith(m)} \cup FileAfterBrokenWrite(m) :
           Loadable(d.recs) => AllAnswered(d.recs, T, Len(d.recs))
  BY <1>4, <1>6, PushSettled
<1>8. AllAnswered(msgs, T, Len(msgs))
  BY <1>1, <1>5, <1>6, <1>7, TrimAnswered
<1>9. AllAnswered(base, T, Len(base))
  <2>1. CASE base = msgs
    BY <1>8, <2>1
  <2>2. ASSUME NEW preserve \in Nat, ShouldCompact(msgs, preserve), base = Compacted(msgs, preserve)
        PROVE  AllAnswered(base, T, Len(base))
    <3>1. Len(msgs) - 0 = Len(msgs) /\ Len(base) - 0 = Len(base)
      BY <1>4
    <3>2. AllAnswered(base, T, Len(base) - 0)
      BY <1>4, <1>8, <2>2, <3>1, CompactAnswered
    <3>. QED BY <3>1, <3>2
  <2>. QED BY <1>2, <2>1, <2>2 DEF Recovered
<1>10. AllAnswered(Append(base, m), T, Len(Append(base, m)))
  BY <1>4, <1>9, AppendSettled
<1>11. AllAnswered(messages', Spared', Len(messages'))
  BY <1>3, <1>5, <1>9, <1>10
<1>12. Loadable(disk'.recs) => AllAnswered(disk'.recs, Spared', Len(disk'.recs))
  BY <1>3, <1>5, <1>7
<1>. QED BY <1>5, <1>11, <1>12, ReachedSettled

LEMMA SettledStep == IInv /\ Settled /\ [Next]_vars => Settled'
<1> SUFFICES ASSUME IInv, Settled, [Next]_vars PROVE Settled'
  OBVIOUS
<1>1. messages \in Seq(Message) /\ Preserve \in Nat /\ nextId \in Nat
      /\ batch \in Nat /\ nextTool \in Nat
  BY ConversationConstants DEF IInv, TypeOK
<1>2. CASE BeginTurn
  <2>1. PICK m : m = User(nextId)
    OBVIOUS
  <2>2. m \in Message /\ m.role # "assistant"
    BY <1>1, <2>1 DEF User, Message
  <2>3. /\ ~Answering /\ Spared' = Spared
        /\ \/ messages' = Append(messages, m) /\ disk' = FileWith(m) /\ pc' = "stream"
           \/ messages' = messages /\ disk' \in FileAfterBrokenWrite(m) /\ pc' = "failed"
    BY <1>2, <2>1 DEF BeginTurn, Answering, history, Spared, Touched
  <2>4. /\ AllAnswered(messages, Spared, Len(messages))
        /\ AllAnswered(Append(messages, m), Spared, Len(Append(messages, m)))
        /\ \A d \in {FileWith(m)} \cup FileAfterBrokenWrite(m) :
             Loadable(d.recs) => AllAnswered(d.recs, Spared, Len(d.recs))
    BY <2>2, <2>3, PushSettled
  <2>5. AllAnswered(messages', Spared', Len(messages'))
    BY <2>3, <2>4
  <2>6. Loadable(disk'.recs) => AllAnswered(disk'.recs, Spared', Len(disk'.recs))
    BY <2>3, <2>4
  <2> QED BY <2>3, <2>5, <2>6, ReachedSettled
<1>3. CASE PushResultFails
  <2>1. PICK m : m = ToolResult(batch, nextTool)
    OBVIOUS
  <2>2. m \in Message /\ m.role # "assistant"
    BY <1>1, <2>1 DEF ToolResult, Message
  <2>3. /\ disk' \in FileAfterBrokenWrite(m) /\ messages' = messages
        /\ Spared' = Spared \cup {batch} /\ pc' = "failed"
    BY <1>3, <2>1 DEF PushResultFails, session, Spared, Touched
  <2> QED BY <2>2, <2>3, BrokenSettled
<1>4. CASE RunTool
  <2>1. Spared' = Spared
    BY <1>4 DEF RunTool, Spared, Touched
  <2>. QED BY <1>4, <2>1 DEF RunTool, session, turn, files, Settled, SettledIn, AllAnswered, Answered,
              Given, Answering, Loadable
<1>5. CASE /\ UNCHANGED <<messages, interrupted, trimmed>> /\ ~Answering /\ pc' \notin {"tools", "record"}
           /\ disk'.recs \in {disk.recs, <<>>, messages}
  <2>1. /\ AllAnswered(messages, Spared, Len(messages))
        /\ Loadable(disk.recs) => AllAnswered(disk.recs, Spared, Len(disk.recs))
    BY <1>5 DEF Settled, SettledIn
  <2>2. AllAnswered(<<>>, Spared, Len(<<>>))
    BY DEF AllAnswered
  <2>5. Spared' = Spared
    BY <1>5 DEF Spared, Touched
  <2>3. AllAnswered(messages', Spared', Len(messages'))
    BY <1>5, <2>1, <2>5
  <2>4. Loadable(disk'.recs) => AllAnswered(disk'.recs, Spared', Len(disk'.recs))
    BY <1>5, <2>1, <2>2, <2>5
  <2> QED BY <1>5, <2>3, <2>4, ReachedSettled
<1>6. ProbeFails \/ IterationLimit \/ StreamFails \/ SaveFails \/ Cleanup \/ Rotate \/ WriteSnapshot =>
        /\ UNCHANGED <<messages, interrupted, trimmed>> /\ ~Answering /\ pc' \notin {"tools", "record"}
        /\ disk'.recs \in {disk.recs, <<>>, messages}
  BY DEF ProbeFails, IterationLimit, StreamFails, SaveFails, Cleanup, Rotate, WriteSnapshot,
         session, files, history, Answering, NoFile, Snapshot
<1>7. CASE ManualCompact
  <2>1. ~Answering /\ pc' = "persist" /\ UNCHANGED disk /\ Spared' = Spared
    BY <1>7 DEF ManualCompact, Answering, files, Spared, Touched
  <2>2. \/ messages' = messages
        \/ messages' = Compacted(messages, Preserve) /\ ShouldCompact(messages, Preserve)
    <3>1. CASE UNCHANGED <<session, summarised>>
      BY <3>1 DEF session
    <3>2. CASE ShouldCompact(messages, Preserve) /\ messages' = Compacted(messages, Preserve)
      BY <3>2
    <3> QED BY <1>7, <3>1, <3>2 DEF ManualCompact
  <2>3. /\ AllAnswered(messages, Spared, Len(messages) - 0)
        /\ Loadable(disk.recs) => AllAnswered(disk.recs, Spared, Len(disk.recs))
    <3>1. Len(messages) - 0 = Len(messages)
      BY <1>1
    <3> QED BY <2>1, <3>1 DEF Settled, SettledIn
  <2>4. AllAnswered(messages', Spared, Len(messages') - 0)
    BY <1>1, <2>2, <2>3, CompactAnswered
  <2>5. Len(messages') - 0 = Len(messages')
    <3>1. IInv'
      BY <1>7, ManualCompactStep
    <3> QED BY <3>1 DEF IInv, TypeOK
  <2>6. AllAnswered(messages', Spared', Len(messages'))
    BY <2>1, <2>4, <2>5
  <2>7. Loadable(disk'.recs) => AllAnswered(disk'.recs, Spared', Len(disk'.recs))
    BY <2>1, <2>3
  <2> QED BY <2>1, <2>6, <2>7, ReachedSettled
<1>8. CASE ExitOnError \/ Resume
  <2>1. /\ ~Answering /\ pc' \in {"down", "idle"} /\ UNCHANGED disk /\ Spared' = Spared
        /\ messages' = <<>> \/ (messages' = disk.recs /\ Loadable(disk.recs))
    BY <1>8 DEF ExitOnError, Vanish, Resume, Answering, files, history, Spared, Touched
  <2>2. Loadable(disk.recs) => AllAnswered(disk.recs, Spared, Len(disk.recs))
    BY <2>1 DEF Settled, SettledIn
  <2>3. AllAnswered(<<>>, Spared, Len(<<>>))
    BY DEF AllAnswered
  <2>4. AllAnswered(messages', Spared', Len(messages'))
    BY <2>1, <2>2, <2>3
  <2>5. Loadable(disk'.recs) => AllAnswered(disk'.recs, Spared', Len(disk'.recs))
    BY <2>1, <2>2
  <2> QED BY <2>1, <2>4, <2>5, ReachedSettled
<1>9. CASE UNCHANGED vars
  <2>1. Spared' = Spared
    BY <1>9 DEF vars, history, Spared, Touched
  <2>. QED BY <1>9, <2>1 DEF vars, session, turn, files, Settled, SettledIn, AllAnswered, Answered,
              Given, Answering, Loadable
<1> QED BY <1>2, <1>3, <1>4, <1>5, <1>6, <1>7, <1>8, <1>9, RepliesSettled, RecoverSettled, PushResultSettled,
           CrashSettled DEF Next

(* Every request to the provider carries a result for every tool use in it, *)
(* in order, unless a failed write or a kill cut the turn short that ran     *)
(* the tools, or Trident dropped or folded a message of the batch: run_turn  *)
(* pushes one result per pending tool use, and neither compaction nor the    *)
(* file takes them apart.                                                    *)
THEOREM RequestsAnswered == Spec => []RequestsAreAnswered
<1>1. IInv /\ Settled => RequestsAreAnswered
  BY DEF Settled, SettledIn, AllAnswered, Answering, Spared, RequestsAreAnswered
<1>2. IInv /\ Settled /\ [Next]_vars => Settled'
  BY SettledStep
<1> QED BY <1>1, <1>2, SettledInit, Inductive, PTL DEF Spec

-----------------------------------------------------------------------------
(* Nothing is lost *)

Seen(msgs) == {msgs[i] : i \in 1..Len(msgs)}

\* The records of a file but for an unterminated last one.
ClosedOf(file) == {file.recs[i] : i \in 1..(Len(file.recs) - (IF file.open THEN 1 ELSE 0))}

\* What left the session by compaction or recovery.
LetGo == summarised \cup trimmed

Remembered == Seen(messages) \cup LetGo

\* Where a result is looked for when the process is gone.
Archive == IF disk.exists THEN ClosedOf(disk)
           ELSE UNION {Seen(rotated[f]) : f \in 1..Len(rotated)}

FileIsThere ==
  /\ pc \in {"stream", "tools", "record"} => disk.exists /\ ~disk.open
  /\ pc = "cleanup" => disk.exists
  /\ ~disk.exists => disk.recs = <<>>

\* The process knows every record of its file.
Known ==
  pc \notin {"failed", "down"} =>
    \A m \in ClosedOf(disk) : m.role \in {"system", "torn"} \/ m \in Remembered

\* The tool uses whose tool ran and whose turn got past the result.
Done == {e \in executed : e[1] \notin interrupted /\ ~(pc = "record" /\ e = <<batch, nextTool>>)}

Kept(m) ==
  /\ pc # "down" => m \in Remembered
  /\ m \in Archive \cup LetGo

\* An assistant message with that many tool uses, or more.
Called(id, least) ==
  \E k \in least..MaxTools, input \in Inputs \cup {0} : Kept(Assistant(id, k, input))

\* The inductive invariant behind EffectsAreRecorded and NothingSilentlyDropped:
\* calls and results are in memory while there is one, and outside of it at any time.
Recorded ==
  /\ \A e \in Done : Kept(ToolResult(e[1], e[2]))
  /\ \A e \in executed : Called(e[1], e[2])
  /\ Answering => Called(batch, batchSize)

Lossless == FileIsThere /\ Known /\ Recorded

-----------------------------------------------------------------------------
LEMMA SeenAppend ==
  ASSUME NEW S, NEW msgs \in Seq(S), NEW m \in S
  PROVE  Seen(Append(msgs, m)) = Seen(msgs) \cup {m}
<1>1. PICK len \in Nat : len = Len(msgs)
  OBVIOUS
<1> DEFINE s == Append(msgs, m)
<1>2. Len(s) = len + 1 /\ s[len + 1] = m /\ \A i \in 1..len : s[i] = msgs[i]
  BY <1>1
<1> HIDE DEF s
<1>3. \A i \in 1..(len + 1) : i \in 1..len \/ i = len + 1
  BY <1>1
<1>4. \A i \in 1..len : i \in 1..(len + 1)
  BY <1>1
<1>5. len + 1 \in 1..(len + 1)
  BY <1>1
<1>6. Seen(s) \subseteq Seen(msgs) \cup {m}
  BY <1>1, <1>2, <1>3 DEF Seen
<1>7. Seen(msgs) \cup {m} \subseteq Seen(s)
  BY <1>1, <1>2, <1>4, <1>5 DEF Seen
<1> QED BY <1>6, <1>7 DEF s

\* What a compaction takes out of the session it puts into the summary.
LEMMA SeenCompacted ==
  ASSUME NEW msgs \in Seq(Message), NEW preserve \in Nat, ShouldCompact(msgs, preserve),
         NEW m \in Seen(msgs), m.role # "system"
  PROVE  m \in Seen(Compacted(msgs, preserve)) \cup Removed(msgs, preserve)
<1>1. Len(msgs) \in Nat /\ SummaryPrefix(msgs) \in {0, 1}
  BY DEF SummaryPrefix
<1>2. PICK c, k, len, n, p : /\ c = Compacted(msgs, preserve) /\ k = KeepFrom(msgs, preserve)
                             /\ len = Len(msgs) /\ n = Len(c) /\ p = SummaryPrefix(msgs)
                             /\ len \in Nat /\ p \in {0, 1}
  BY <1>1
<1>3. /\ k \in Nat /\ k <= len - preserve /\ n = len - k + 1
      /\ \A i \in 2..n : c[i] = msgs[k + i - 1]
  BY <1>2, CompactedShape
<1>4. k \in Nat /\ len \in Nat /\ n \in Nat /\ n = len - k + 1 /\ k <= len
  BY <1>2, <1>3
<1>5. PICK i \in 1..len : m = msgs[i]
  BY <1>2 DEF Seen
<1>6. CASE i <= k
  <2>1. ~(i = 1 /\ p = 1)
    BY <1>2, <1>5 DEF SummaryPrefix, Summary
  <2>2. i \in (p + 1)..k
    BY <1>2, <1>4, <1>5, <1>6, <2>1
  <2> QED BY <1>2, <1>5, <2>2 DEF Removed
<1>7. CASE i > k
  <2>1. i - k + 1 \in 2..n /\ k + (i - k + 1) - 1 = i
    BY <1>4, <1>5, <1>7
  <2>2. c[i - k + 1] = m /\ i - k + 1 \in 1..n
    BY <1>3, <1>4, <1>5, <2>1
  <2> QED BY <1>2, <2>2 DEF Seen
<1> QED BY <1>4, <1>5, <1>6, <1>7

\* What Trident takes out of it, it lost.
LEMMA SeenTrimmed ==
  ASSUME NEW msgs, NEW out, NEW lost, NEW f, IsTrim(msgs, out, lost, f), NEW x \in Seen(msgs)
  PROVE  x \in Seen(out) \cup lost
<1>1. PICK i \in 1..Len(msgs) : x = msgs[i]
  BY DEF Seen
<1>2. CASE x \notin lost
  <2>1. PICK a \in 1..Len(out) : f[a] = i
    BY <1>1, <1>2 DEF IsTrim
  <2>2. out[a] = x
    BY <1>1, <1>2, <2>1 DEF IsTrim
  <2>. QED BY <2>2 DEF Seen
<1>. QED BY <1>2

\* A write adds its line, may spoil an unterminated one, and keeps the others.
LEMMA ClosedAfterWrite ==
  ASSUME TypeOK, OpenLineExists, NEW m \in Message,
         NEW d \in {FileWith(m)} \cup FileAfterBrokenWrite(m)
  PROVE  /\ disk.exists => /\ d.exists /\ ClosedOf(disk) \subseteq ClosedOf(d)
                           /\ ClosedOf(d) \subseteq ClosedOf(disk) \cup {m, Torn}
         /\ ~disk.exists => d = disk \/ d = Snapshot(Append(messages, m))
<1>1. disk \in Disk /\ disk.recs \in Seq(Record) /\ messages \in Seq(Message) /\ disk.open \in BOOLEAN
  BY DEF TypeOK, Disk
<1>2. m \in Record /\ Torn \in Record
  BY DEF Record
<1>3. CASE ~disk.exists
  BY <1>3 DEF FileWith, FileAfterBrokenWrite
<1>4. CASE disk.exists /\ disk.open
  <2> DEFINE spoilt == [disk.recs EXCEPT ![Len(disk.recs)] = Torn]
  <2>1. PICK len : len = Len(disk.recs) /\ len \in Nat /\ len > 0
    BY <1>1, <1>4 DEF OpenLineExists
  <2>2. Len(spoilt) = len /\ spoilt[len] = Torn /\ \A i \in 1..(len - 1) : spoilt[i] = disk.recs[i]
    BY <1>1, <1>2, <2>1
  <2>3. \/ d = disk
        \/ d = [disk EXCEPT !.recs = spoilt]
        \/ d = [disk EXCEPT !.recs = spoilt, !.open = FALSE]
    BY <1>4 DEF FileWith, FileAfterBrokenWrite, Appended
  <2> HIDE DEF spoilt
  <2>4. CASE d = disk
    BY <1>4, <2>4
  <2>5. CASE d # disk
    <3>1. d.exists /\ d.recs = spoilt
      BY <1>1, <1>4, <2>3, <2>5 DEF Disk
    <3>2. ClosedOf(disk) = {disk.recs[i] : i \in 1..(len - 1)}
      BY <1>4, <2>1 DEF ClosedOf
    <3>3. PICK n \in {len, len - 1} : ClosedOf(d) = {spoilt[i] : i \in 1..n}
      <4>1. CASE d.open
        BY <2>1, <2>2, <3>1, <4>1 DEF ClosedOf
      <4>2. CASE ~d.open
        <5>1. len - 0 = len
          BY <2>1
        <5> QED BY <2>1, <2>2, <3>1, <4>2, <5>1 DEF ClosedOf
      <4> QED BY <4>1, <4>2
    <3>4. \A i \in 1..n : i \in 1..(len - 1) \/ i = len
      BY <2>1, <3>3
    <3>5. \A i \in 1..(len - 1) : i \in 1..n
      BY <2>1, <3>3
    <3>6. ClosedOf(disk) \subseteq ClosedOf(d)
      BY <2>2, <3>2, <3>3, <3>5
    <3>7. ClosedOf(d) \subseteq ClosedOf(disk) \cup {m, Torn}
      BY <2>2, <3>2, <3>3, <3>4
    <3> QED BY <1>4, <3>1, <3>6, <3>7
  <2> QED BY <2>4, <2>5
<1>5. CASE disk.exists /\ ~disk.open
  <2>1. PICK r \in {m, Torn}, recs \in {Append(disk.recs, m), Append(disk.recs, Torn)} :
          /\ recs = Append(disk.recs, r)
          /\ d = disk \/ (d.exists /\ d.recs = recs /\ (d.open \/ r = m))
    <3>1. \/ d = disk
          \/ d = [disk EXCEPT !.recs = Append(disk.recs, m)]
          \/ \E r \in {m, Torn} : d = [disk EXCEPT !.recs = Append(disk.recs, r), !.open = TRUE]
      BY <1>5 DEF FileWith, FileAfterBrokenWrite, Appended
    <3> QED BY <1>1, <1>5, <3>1 DEF Disk
  <2>2. PICK len : len = Len(disk.recs) /\ len \in Nat
    BY <1>1
  <2>3. Len(recs) = len + 1 /\ recs[len + 1] = r /\ \A i \in 1..len : recs[i] = disk.recs[i]
    BY <1>1, <1>2, <2>1, <2>2
  <2>4. ClosedOf(disk) = {disk.recs[i] : i \in 1..len}
    <3>1. len - 0 = len
      BY <2>2
    <3> QED BY <1>5, <2>2, <3>1 DEF ClosedOf
  <2>5. CASE d = disk
    BY <1>5, <2>5
  <2>6. CASE d # disk
    <3>1. PICK n \in {len, len + 1} : ClosedOf(d) = {recs[i] : i \in 1..n} /\ (n = len + 1 => r = m)
      <4>1. CASE d.open
        <5>1. Len(d.recs) - (IF d.open THEN 1 ELSE 0) = len
          BY <2>1, <2>2, <2>3, <2>6, <4>1
        <5>2. ClosedOf(d) = {recs[i] : i \in 1..len}
          BY <2>1, <2>6, <5>1 DEF ClosedOf
        <5>3. len # len + 1
          BY <2>2
        <5> QED BY <5>2, <5>3
      <4>2. CASE ~d.open
        <5>1. Len(d.recs) - (IF d.open THEN 1 ELSE 0) = len + 1
          BY <2>1, <2>2, <2>3, <2>6, <4>2
        <5>2. ClosedOf(d) = {recs[i] : i \in 1..(len + 1)} /\ r = m
          BY <2>1, <2>6, <4>2, <5>1 DEF ClosedOf
        <5> QED BY <5>2
      <4> QED BY <4>1, <4>2
    <3>2. \A i \in 1..n : i \in 1..len \/ (i = len + 1 /\ n = len + 1)
      BY <2>2, <3>1
    <3>3. \A i \in 1..len : i \in 1..n
      BY <2>2, <3>1
    <3>4. ClosedOf(disk) \subseteq ClosedOf(d)
      BY <2>3, <2>4, <3>1, <3>3
    <3>5. ClosedOf(d) \subseteq ClosedOf(disk) \cup {m, Torn}
      BY <2>3, <2>4, <3>1, <3>2
    <3> QED BY <1>5, <2>1, <2>6, <3>4, <3>5
  <2> QED BY <2>5, <2>6
<1> QED BY <1>1, <1>3, <1>4, <1>5

\* A write that succeeds leaves a terminated file; if it was terminated before,
\* m is in it.
LEMMA Written ==
  ASSUME TypeOK, OpenLineExists, NEW m \in Message
  PROVE  /\ FileWith(m).exists /\ ~FileWith(m).open
         /\ disk.exists /\ ~disk.open => m \in ClosedOf(FileWith(m))
<1>1. disk \in Disk /\ disk.recs \in Seq(Record) /\ m \in Record
  BY DEF TypeOK, Disk, Record
<1>2. FileWith(m).exists /\ ~FileWith(m).open
  BY <1>1, WrittenLast DEF FileWith, Appended, Snapshot, Disk
<1>3. ASSUME disk.exists, ~disk.open PROVE m \in ClosedOf(FileWith(m))
  <2>1. PICK recs, len : recs = Append(disk.recs, m) /\ len = Len(disk.recs) /\ len \in Nat
    <3>1. Len(disk.recs) \in Nat
      BY <1>1
    <3> QED BY <3>1
  <2>2. FileWith(m).recs = recs
    BY <1>1, <1>3, <2>1 DEF FileWith, Appended, Disk
  <2>3. Len(recs) = len + 1 /\ recs[len + 1] = m
    BY <1>1, <2>1
  <2>4. len + 1 \in 1..(len + 1 - 0)
    BY <2>1
  <2> QED BY <1>2, <2>2, <2>3, <2>4 DEF ClosedOf
<1> QED BY <1>2, <1>3

LEMMA ClosedSnapshot ==
  ASSUME NEW S, NEW msgs \in Seq(S) PROVE ClosedOf(Snapshot(msgs)) = Seen(msgs)
<1>1. Len(msgs) - 0 = Len(msgs)
  OBVIOUS
<1>2. Snapshot(msgs).recs = msgs /\ ~Snapshot(msgs).open
  BY DEF Snapshot
<1> QED BY <1>1, <1>2 DEF ClosedOf, Seen

LEMMA ClosedSeen ==
  ASSUME NEW f \in Disk PROVE ClosedOf(f) \subseteq Seen(f.recs)
<1>1. Len(f.recs) \in Nat
  BY DEF Disk
<1>2. \A i \in 1..(Len(f.recs) - (IF f.open THEN 1 ELSE 0)) : i \in 1..Len(f.recs)
  BY <1>1
<1> QED BY <1>2 DEF ClosedOf, Seen

-----------------------------------------------------------------------------
\* The session after an answer, or after /compact, remembers what it held.
LEMMA CompactionRemembers ==
  ASSUME NEW s \in Seq(Message), trimmed' = trimmed,
         \/ messages' = s /\ summarised' = summarised
         \/ /\ ShouldCompact(s, Preserve) /\ messages' = Compacted(s, Preserve)
            /\ summarised' = summarised \cup Removed(s, Preserve),
         NEW x \in Seen(s) \cup LetGo, x.role # "system"
  PROVE  x \in Remembered'
<1>1. LetGo \subseteq LetGo'
  BY DEF LetGo
<1>2. CASE messages' = s
  BY <1>1, <1>2 DEF Remembered, Seen
<1>3. CASE /\ ShouldCompact(s, Preserve) /\ messages' = Compacted(s, Preserve)
           /\ summarised' = summarised \cup Removed(s, Preserve)
  <2>1. CASE x \in LetGo
    BY <1>1, <2>1 DEF Remembered
  <2>2. CASE x \in Seen(s)
    <3>1. x \in Seen(Compacted(s, Preserve)) \cup Removed(s, Preserve)
      BY <1>3, <2>2, SeenCompacted, ConversationConstants
    <3>. QED BY <1>3, <3>1 DEF Remembered, LetGo, Seen
  <2> QED BY <2>1, <2>2
<1> QED BY <1>2, <1>3

\* So does the session after a recovery.
LEMMA RecoverRemembers ==
  ASSUME IInv, NEW msgs, NEW base, NEW lost, NEW removed, NEW m, NEW f,
         Recovered(msgs, base, lost, removed, m, f),
         NEW x \in Remembered, x.role # "system"
  PROVE  x \in Remembered'
<1>1. msgs \in Seq(Message) /\ base \in Seq(Message) /\ m \in Message
  BY RecoveredBase
<1>2. /\ IsTrim(messages, msgs, lost, f)
      /\ LetGo' = LetGo \cup removed \cup lost
      /\ messages' = Append(base, m) \/ messages' = base
  BY DEF Recovered, LetGo
<1>3. x \in Seen(base) \cup LetGo'
  <2>1. x \in Seen(msgs) \cup LetGo'
    BY <1>2, SeenTrimmed DEF Remembered
  <2>2. CASE base = msgs
    BY <2>1, <2>2
  <2>3. ASSUME NEW preserve \in Nat, ShouldCompact(msgs, preserve),
               base = Compacted(msgs, preserve), removed = Removed(msgs, preserve)
        PROVE  x \in Seen(base) \cup LetGo'
    <3>1. x \in Seen(msgs) => x \in Seen(base) \cup removed
      BY <1>1, <2>3, SeenCompacted
    <3>. QED BY <1>2, <2>1, <3>1
  <2>. QED BY <2>2, <2>3 DEF Recovered
<1>4. Seen(base) \subseteq Seen(messages')
  <2>1. Seen(base) \subseteq Seen(Append(base, m))
    BY <1>1, SeenAppend
  <2>. QED BY <1>2, <2>1 DEF Seen
<1>. QED BY <1>3, <1>4 DEF Remembered, Seen

LEMMA RecoverLeaves == Recover => pc = "stream" /\ UNCHANGED <<rotated, interrupted, executed>>
BY DEF Recover

\* What any step but a load keeps in memory as long as there is one.
LEMMA MemoryStep ==
  ASSUME IInv, [Next]_vars, pc # "down", pc' # "down",
         NEW x \in Remembered, x.role # "system"
  PROVE  x \in Remembered'
<1>1. messages \in Seq(Message) /\ InPlace(messages, Touched) /\ nextId \in Nat
      /\ batch \in Nat /\ nextTool \in Nat
  BY DEF IInv, TypeOK, ResultsInPlace
<1>2. ASSUME NEW m \in Message, messages' = Append(messages, m), LetGo' = LetGo
      PROVE  x \in Remembered'
  BY <1>1, <1>2, SeenAppend DEF Remembered, Seen
<1>3. CASE messages' = messages /\ LetGo' = LetGo
  BY <1>3 DEF Remembered, Seen
<1>4. CASE BeginTurn
  <2>1. User(nextId) \in Message
    BY <1>1 DEF User, Message
  <2>2. messages' \in {Append(messages, User(nextId)), messages} /\ LetGo' = LetGo
    BY <1>4 DEF BeginTurn, history, LetGo
  <2> QED BY <1>2, <1>3, <2>1, <2>2
<1>5. CASE PushResult
  <2>1. ToolResult(batch, nextTool) \in Message
    BY <1>1 DEF ToolResult, Message
  <2>2. messages' = Append(messages, ToolResult(batch, nextTool)) /\ LetGo' = LetGo
    BY <1>5 DEF PushResult, history, LetGo
  <2> QED BY <1>2, <2>1, <2>2
<1>6. CASE AssistantReplies
  <2>1. PICK m \in Message :
          /\ m.role = "assistant" /\ trimmed' = trimmed
          /\ AutoCompact(Append(messages, m), usage') \/ UNCHANGED <<messages, summarised>>
    BY <1>6, Replied
  <2>2. PICK s, tokens : s = Append(messages, m) /\ tokens = usage'
    OBVIOUS
  <2>3. s \in Seq(Message) /\ InPlace(s, Touched)
    BY <2>1, <2>2, PushNonTool
  <2>4. x \in Seen(s) \cup LetGo
    BY <1>1, <2>1, <2>2, SeenAppend DEF Remembered
  <2>5. CASE AutoCompact(s, tokens)
    <3>1. \/ messages' = s /\ summarised' = summarised
          \/ /\ ShouldCompact(s, Preserve) /\ messages' = Compacted(s, Preserve)
             /\ summarised' = summarised \cup Removed(s, Preserve)
      <4>1. CASE AutoCompacts(s, tokens)
        BY <2>5, <4>1 DEF AutoCompact, AutoCompacts
      <4>2. CASE ~AutoCompacts(s, tokens)
        BY <2>5, <4>2 DEF AutoCompact
      <4> QED BY <4>1, <4>2
    <3> QED BY <2>1, <2>3, <2>4, <3>1, CompactionRemembers
  <2>6. CASE UNCHANGED <<messages, summarised>>
    BY <1>3, <2>1, <2>6 DEF LetGo
  <2> QED BY <2>1, <2>2, <2>5, <2>6
<1>7. CASE ManualCompact
  <2>1. \/ messages' = messages /\ summarised' = summarised
        \/ /\ ShouldCompact(messages, Preserve) /\ messages' = Compacted(messages, Preserve)
           /\ summarised' = summarised \cup Removed(messages, Preserve)
    <3>1. CASE UNCHANGED <<session, summarised>>
      BY <3>1 DEF session
    <3>2. CASE /\ ShouldCompact(messages, Preserve) /\ messages' = Compacted(messages, Preserve)
               /\ summarised' = summarised \cup Removed(messages, Preserve)
      BY <3>2
    <3> QED BY <1>7, <3>1, <3>2 DEF ManualCompact
  <2>2. trimmed' = trimmed
    BY <1>7 DEF ManualCompact
  <2> QED BY <1>1, <2>1, <2>2, CompactionRemembers DEF Remembered
<1>8. ProbeFails \/ IterationLimit \/ StreamFails \/ RunTool \/ PushResultFails
      \/ Rotate \/ WriteSnapshot \/ SaveFails \/ Cleanup \/ UNCHANGED vars
        => messages' = messages /\ LetGo' = LetGo
  BY DEF LetGo, ProbeFails, IterationLimit, StreamFails, RunTool, PushResultFails, Rotate, WriteSnapshot,
         SaveFails, Cleanup, vars, session, history
<1>9. ~(ExitOnError \/ Crash \/ Resume)
  BY DEF ExitOnError, Crash, Vanish, Resume
<1>10. CASE Recover
  BY <1>10, RecoverMeans, RecoverRemembers
<1> QED BY <1>3, <1>4, <1>5, <1>6, <1>7, <1>8, <1>9, <1>10 DEF Next

LEMMA FileIsThereStep ==
  ASSUME IInv, FileIsThere, [Next]_vars PROVE FileIsThere'
<1>1. TypeOK /\ OpenLineExists /\ nextId \in Nat /\ batch \in Nat /\ nextTool \in Nat
  BY DEF IInv, TypeOK
<1>2. ASSUME NEW m \in Message, disk' \in {FileWith(m)} \cup FileAfterBrokenWrite(m)
      PROVE  ~disk'.exists => disk'.recs = <<>>
  <2>1. CASE disk.exists
    BY <1>1, <1>2, <2>1, ClosedAfterWrite
  <2>2. CASE ~disk.exists
    <3>1. disk' = disk \/ disk' = Snapshot(Append(messages, m))
      BY <1>1, <1>2, <2>2, ClosedAfterWrite
    <3> QED BY <3>1 DEF Snapshot, FileIsThere
  <2> QED BY <2>1, <2>2
<1>3. ASSUME NEW m \in Message, \/ disk' = FileWith(m)
                                \/ /\ disk' \in FileAfterBrokenWrite(m)
                                   /\ pc' \in {"failed", "down"}
      PROVE  FileIsThere'
  BY <1>1, <1>2, <1>3, Written DEF FileIsThere
<1>4. CASE BeginTurn
  <2>1. User(nextId) \in Message
    BY <1>1 DEF User, Message
  <2> QED BY <1>3, <1>4, <2>1 DEF BeginTurn
<1>5. CASE AssistantReplies
  BY <1>3, <1>5, Replied
<1>6. CASE PushResult \/ PushResultFails
  <2>1. ToolResult(batch, nextTool) \in Message
    BY <1>1 DEF ToolResult, Message
  <2> QED BY <1>3, <1>6, <2>1 DEF PushResult, PushResultFails
<1>7. CASE Crash
  <2>1. pc' = "down"
    BY <1>7 DEF Crash, Vanish
  <2>2. CASE UNCHANGED disk
    BY <2>1, <2>2 DEF FileIsThere
  <2>3. ASSUME NEW m \in InFlight, disk' \in FileAfterBrokenWrite(m) \cup {FileWith(m)}
        PROVE  FileIsThere'
    <3>1. m \in Message
      BY <1>1, ConversationConstants DEF InFlight, User, Assistant, ToolResult, Message
    <3> QED BY <1>3, <2>1, <2>3, <3>1
  <2> QED BY <1>7, <2>2, <2>3 DEF Crash
<1>8. CASE RunTool
  BY <1>8 DEF RunTool, files, FileIsThere
<1>9. CASE ProbeFails \/ IterationLimit \/ StreamFails \/ ManualCompact \/ SaveFails \/ Cleanup
           \/ ExitOnError \/ Resume
  <2>1. disk' = disk /\ pc' \notin {"stream", "tools", "record", "cleanup"}
    BY <1>9 DEF ProbeFails, IterationLimit, StreamFails, ManualCompact, SaveFails, Cleanup, ExitOnError,
                Vanish, Resume, files
  <2> QED BY <2>1 DEF FileIsThere
<1>10. CASE Rotate \/ WriteSnapshot
  BY <1>10 DEF Rotate, WriteSnapshot, NoFile, Snapshot, FileIsThere
<1>11. CASE UNCHANGED vars
  BY <1>11 DEF vars, files, FileIsThere
<1>12. CASE Recover
  <2>1. PICK msgs, base, lost, removed, m, f : Recovered(msgs, base, lost, removed, m, f)
    BY <1>12, RecoverMeans
  <2>2. m \in Message
    BY <2>1, RecoveredBase
  <2>. QED BY <1>3, <2>1, <2>2 DEF Recovered
<1> QED BY <1>4, <1>5, <1>6, <1>7, <1>8, <1>9, <1>10, <1>11, <1>12 DEF Next

LEMMA KnownStep ==
  ASSUME IInv, FileIsThere, Known, [Next]_vars PROVE Known'
<1>1. /\ TypeOK /\ OpenLineExists /\ nextId \in Nat /\ batch \in Nat /\ nextTool \in Nat
      /\ messages \in Seq(Message) /\ disk \in Disk
  BY DEF IInv, TypeOK, Disk
<1> SUFFICES ASSUME pc' \notin {"failed", "down"}, NEW x \in ClosedOf(disk'),
                    x.role \notin {"system", "torn"}
             PROVE  x \in Remembered'
  BY DEF Known, ClosedOf
<1>2. ASSUME pc \notin {"failed", "down"}, x \in ClosedOf(disk) PROVE x \in Remembered'
  BY <1>2, MemoryStep DEF Known
\* A message that was pushed and written is in the file with what was there.
<1>3. ASSUME NEW m \in Message, disk' = FileWith(m), pc \notin {"failed", "down"}, m \in Remembered'
      PROVE  x \in Remembered'
  <2>1. CASE disk.exists
    <3>1. x \in ClosedOf(disk) \cup {m, Torn}
      BY <1>1, <1>3, <2>1, ClosedAfterWrite
    <3> QED BY <1>2, <1>3, <3>1 DEF Torn
  <2>2. CASE ~disk.exists
    <3>1. disk' = Snapshot(Append(messages, m)) /\ Append(messages, m) \in Seq(Message)
      BY <1>1, <1>3, <2>2 DEF FileWith
    <3>2. x \in Seen(messages) \cup {m}
      <4>1. ClosedOf(disk') = Seen(Append(messages, m))
        BY <3>1, ClosedSnapshot
      <4>2. Seen(Append(messages, m)) = Seen(messages) \cup {m}
        BY <1>1, <1>3, SeenAppend
      <4> QED BY <4>1, <4>2
    <3>3. x \in Remembered \/ x = m
      BY <3>2 DEF Remembered
    <3> QED BY <1>3, <3>3, MemoryStep
  <2> QED BY <2>1, <2>2
<1>4. CASE BeginTurn
  <2>1. User(nextId) \in Message
    BY <1>1 DEF User, Message
  <2>2. messages' = Append(messages, User(nextId)) /\ disk' = FileWith(User(nextId)) /\ pc = "idle"
    BY <1>4 DEF BeginTurn
  <2>3. User(nextId) \in Remembered'
    BY <1>1, <2>1, <2>2, SeenAppend DEF Remembered, Seen
  <2> QED BY <1>3, <2>1, <2>2, <2>3
<1>5. CASE PushResult
  <2>1. ToolResult(batch, nextTool) \in Message
    BY <1>1 DEF ToolResult, Message
  <2>2. messages' = Append(messages, ToolResult(batch, nextTool)) /\ disk' = FileWith(ToolResult(batch, nextTool))
        /\ pc = "record"
    BY <1>5 DEF PushResult
  <2>3. ToolResult(batch, nextTool) \in Remembered'
    BY <1>1, <2>1, <2>2, SeenAppend DEF Remembered, Seen
  <2> QED BY <1>3, <2>1, <2>2, <2>3
<1>6. CASE AssistantReplies
  <2>1. PICK m \in Message :
          /\ m.role = "assistant" /\ pc = "stream" /\ disk' = FileWith(m) /\ trimmed' = trimmed
          /\ AutoCompact(Append(messages, m), usage')
    BY <1>6, Replied
  <2>2. PICK s, tokens : s = Append(messages, m) /\ tokens = usage'
    OBVIOUS
  <2>3. s \in Seq(Message) /\ InPlace(s, Touched)
    BY <2>1, <2>2, PushNonTool
  <2>4. m \in Seen(s) \cup LetGo
    BY <1>1, <2>1, <2>2, SeenAppend
  <2>5. \/ messages' = s /\ summarised' = summarised
        \/ /\ ShouldCompact(s, Preserve) /\ messages' = Compacted(s, Preserve)
           /\ summarised' = summarised \cup Removed(s, Preserve)
    <3>1. AutoCompact(s, tokens)
      BY <2>1, <2>2
    <3>2. CASE AutoCompacts(s, tokens)
      BY <3>1, <3>2 DEF AutoCompact, AutoCompacts
    <3>3. CASE ~AutoCompacts(s, tokens)
      BY <3>1, <3>3 DEF AutoCompact
    <3> QED BY <3>2, <3>3
  <2>6. m \in Remembered'
    BY <2>1, <2>3, <2>4, <2>5, CompactionRemembers
  <2> QED BY <1>3, <2>1, <2>6
<1>7. CASE Rotate
  BY <1>7 DEF Rotate, NoFile, ClosedOf
<1>8. CASE WriteSnapshot
  <2>1. disk' = Snapshot(messages) /\ messages' = messages
    BY <1>8 DEF WriteSnapshot, session
  <2>2. x \in Seen(messages)
    BY <1>1, <2>1, ClosedSnapshot
  <2> QED BY <2>1, <2>2 DEF Remembered, Seen
<1>9. CASE Resume
  <2>1. disk' = disk /\ messages' = disk.recs
    BY <1>9 DEF Resume, files
  <2>2. x \in Seen(disk.recs)
    BY <1>1, <2>1, ClosedSeen
  <2> QED BY <2>1, <2>2 DEF Remembered, Seen
<1>10. CASE RunTool \/ ManualCompact \/ Cleanup \/ UNCHANGED vars
  <2>1. disk' = disk /\ pc \notin {"failed", "down"}
    BY <1>10 DEF RunTool, ManualCompact, Cleanup, vars, files
  <2> QED BY <1>2, <2>1
<1>11. ~(ProbeFails \/ IterationLimit \/ StreamFails \/ PushResultFails \/ SaveFails \/ ExitOnError \/ Crash)
  BY DEF ProbeFails, IterationLimit, StreamFails, PushResultFails, SaveFails, ExitOnError, Crash, Vanish
<1>12. CASE Recover
  <2>1. PICK msgs, base, lost, removed, m, f : Recovered(msgs, base, lost, removed, m, f)
    BY <1>12, RecoverMeans
  <2>2. m \in Message /\ base \in Seq(Message)
    BY <2>1, RecoveredBase
  <2>3. messages' = Append(base, m) /\ disk' = FileWith(m) /\ pc = "stream"
    BY <2>1 DEF Recovered
  <2>4. m \in Remembered'
    BY <2>2, <2>3, SeenAppend DEF Remembered, Seen
  <2>. QED BY <1>3, <2>2, <2>3, <2>4
<1> QED BY <1>4, <1>5, <1>6, <1>7, <1>8, <1>9, <1>10, <1>11, <1>12 DEF Next

\* What a step does to the file.
FileMoves ==
  \/ UNCHANGED <<disk, rotated>>
  \/ /\ pc # "down" /\ UNCHANGED rotated
     /\ \E m \in Message : disk' \in {FileWith(m)} \cup FileAfterBrokenWrite(m)
  \/ Rotate \/ WriteSnapshot \/ Cleanup

LEMMA FileMovesStep == ASSUME IInv, [Next]_vars PROVE FileMoves
<1>1. nextId \in Nat /\ batch \in Nat /\ nextTool \in Nat
  BY DEF IInv, TypeOK
<1>2. CASE BeginTurn
  <2>1. User(nextId) \in Message
    BY <1>1 DEF User, Message
  <2> QED BY <1>2, <2>1 DEF BeginTurn, FileMoves
<1>3. CASE AssistantReplies
  BY <1>3, Replied DEF FileMoves
<1>4. CASE PushResult \/ PushResultFails
  <2>1. ToolResult(batch, nextTool) \in Message
    BY <1>1 DEF ToolResult, Message
  <2> QED BY <1>4, <2>1 DEF PushResult, PushResultFails, FileMoves
<1>5. CASE Crash
  <2>1. pc # "down" /\ UNCHANGED rotated
    BY <1>5 DEF Crash, Vanish
  <2>2. CASE UNCHANGED disk
    BY <2>1, <2>2 DEF FileMoves
  <2>3. ASSUME NEW m \in InFlight, disk' \in FileAfterBrokenWrite(m) \cup {FileWith(m)}
        PROVE  FileMoves
    <3>1. m \in Message
      BY <1>1, ConversationConstants DEF InFlight, User, Assistant, ToolResult, Message
    <3> QED BY <2>1, <2>3, <3>1 DEF FileMoves
  <2> QED BY <1>5, <2>2, <2>3 DEF Crash
<1>6. ProbeFails \/ IterationLimit \/ StreamFails \/ RunTool \/ ManualCompact \/ SaveFails
      \/ ExitOnError \/ Resume \/ UNCHANGED vars
        => UNCHANGED <<disk, rotated>>
  BY DEF ProbeFails, IterationLimit, StreamFails, RunTool, ManualCompact, SaveFails, ExitOnError,
         Vanish, Resume, vars, files
<1>7. CASE Recover
  <2>1. PICK msgs, base, lost, removed, m, f : Recovered(msgs, base, lost, removed, m, f)
    BY <1>7, RecoverMeans
  <2>2. m \in Message
    BY <2>1, RecoveredBase
  <2>3. pc # "down" /\ UNCHANGED rotated
    BY <1>7, RecoverLeaves
  <2>. QED BY <2>1, <2>2, <2>3 DEF Recovered, FileMoves
<1> QED BY <1>2, <1>3, <1>4, <1>5, <1>6, <1>7 DEF Next, FileMoves

\* No step forgets a message that is kept.
LEMMA KeptStep ==
  ASSUME IInv, FileIsThere, [Next]_vars, NEW x \in Message, x.role # "system", Kept(x)
  PROVE  Kept(x)'
<1>1. /\ TypeOK /\ OpenLineExists /\ messages \in Seq(Message) /\ disk \in Disk
      /\ disk.recs \in Seq(Record) /\ rotated \in Seq(Seq(Record))
  BY DEF IInv, TypeOK, Disk
<1>2. LetGo \subseteq LetGo'
  <2>1. CASE AssistantReplies
    <3>1. PICK m \in Message : /\ trimmed' = trimmed
                               /\ AutoCompact(Append(messages, m), usage') \/ UNCHANGED summarised
      BY <2>1, Replied
    <3>2. summarised \subseteq summarised'
      BY <3>1 DEF AutoCompact
    <3>3. trimmed' = trimmed
      BY <3>1
    <3> QED BY <3>2, <3>3 DEF LetGo
  <2>2. CASE Recover
    <3>1. PICK msgs, base, lost, removed, m, f : Recovered(msgs, base, lost, removed, m, f)
      BY <2>2, RecoverMeans
    <3>. QED BY <3>1 DEF Recovered, LetGo
  <2>3. CASE ~AssistantReplies /\ ~Recover
    <3>1. /\ trimmed' = trimmed
          /\ summarised' = summarised \/ summarised' = summarised \cup Removed(messages, Preserve)
      BY <2>3 DEF Next, BeginTurn, ProbeFails, IterationLimit, StreamFails, RunTool, PushResult,
             PushResultFails, ManualCompact, Rotate, WriteSnapshot, SaveFails, Cleanup, ExitOnError, Crash,
             Vanish, Resume, vars, history
    <3>. QED BY <3>1 DEF LetGo
  <2> QED BY <2>1, <2>2, <2>3
<1>3. ASSUME pc' # "down" PROVE x \in Remembered'
  <2>1. CASE pc # "down"
    BY <1>3, <2>1, MemoryStep DEF Kept
  <2>2. CASE pc = "down"
    <3>1. CASE Resume
      <4>1. disk.exists /\ messages' = disk.recs /\ LetGo' = LetGo
        BY <3>1 DEF Resume, history, LetGo
      <4>2. x \in ClosedOf(disk) \cup LetGo
        BY <4>1 DEF Kept, Archive
      <4>3. x \in Seen(disk.recs) \cup LetGo
        BY <1>1, <4>2, ClosedSeen
      <4> QED BY <4>1, <4>3 DEF Remembered, Seen
    <3>2. CASE ~Resume
      BY <1>3, <2>2, <3>2, RecoverLeaves DEF Next, BeginTurn, ProbeFails, IterationLimit, StreamFails, AssistantReplies,
         RunTool, PushResult, PushResultFails, ManualCompact, Rotate, WriteSnapshot, SaveFails, Cleanup,
         ExitOnError, Crash, vars
    <3> QED BY <3>1, <3>2
  <2> QED BY <2>1, <2>2
<1>4. x \in Archive' \cup LetGo'
  <2>1. x \in Archive \cup LetGo /\ (pc # "down" => x \in Seen(messages) \cup LetGo)
    BY DEF Kept, Remembered
  <2>2. CASE UNCHANGED <<disk, rotated>>
    <3>1. Archive' = Archive
      BY <2>2 DEF Archive, ClosedOf, Seen
    <3> QED BY <1>2, <2>1, <3>1
  <2>3. CASE /\ pc # "down" /\ UNCHANGED rotated
             /\ \E m \in Message : disk' \in {FileWith(m)} \cup FileAfterBrokenWrite(m)
    <3>1. PICK m \in Message : disk' \in {FileWith(m)} \cup FileAfterBrokenWrite(m)
      BY <2>3
    <3>2. CASE disk.exists
      <4>1. disk'.exists /\ ClosedOf(disk) \subseteq ClosedOf(disk')
        BY <1>1, <3>1, <3>2, ClosedAfterWrite
      <4>2. Archive = ClosedOf(disk) /\ Archive' = ClosedOf(disk')
        BY <3>2, <4>1 DEF Archive, ClosedOf, Seen
      <4> QED BY <1>2, <2>1, <4>1, <4>2
    <3>3. CASE ~disk.exists
      <4>1. disk' = disk \/ disk' = Snapshot(Append(messages, m))
        BY <1>1, <3>1, <3>3, ClosedAfterWrite
      <4>2. CASE disk' = disk
        BY <2>2, <2>3, <4>2
      <4>3. CASE disk' = Snapshot(Append(messages, m))
        <5>1. disk'.exists /\ ClosedOf(disk') = Seen(messages) \cup {m}
          <6>1. Append(messages, m) \in Seq(Message)
            BY <1>1
          <6>2. ClosedOf(disk') = Seen(Append(messages, m))
            BY <4>3, <6>1, ClosedSnapshot
          <6> QED BY <1>1, <4>3, <6>2, SeenAppend DEF Snapshot
        <5>2. Archive' = ClosedOf(disk')
          BY <5>1 DEF Archive, ClosedOf, Seen
        <5> QED BY <1>2, <2>1, <2>3, <5>1, <5>2
      <4> QED BY <4>1, <4>2, <4>3
    <3> QED BY <3>2, <3>3
  <2>4. CASE Rotate
    <3>1. /\ disk.exists /\ rotated' = Append(rotated, disk.recs) /\ ~disk'.exists
      BY <2>4 DEF Rotate, FileIsBig, NoFile
    <3>2. PICK n : n = Len(rotated) + 1 /\ n \in 1..Len(rotated') /\ rotated'[n] = disk.recs
      BY <1>1, <3>1
    <3>3. Archive' = UNION {Seen(rotated'[f]) : f \in 1..Len(rotated')}
      BY <3>1 DEF Archive, Seen
    <3>4. Seen(disk.recs) \subseteq Archive'
      BY <3>2, <3>3
    <3>5. ClosedOf(disk) \subseteq Seen(disk.recs)
      BY <1>1, ClosedSeen
    <3>6. Archive = ClosedOf(disk)
      BY <3>1 DEF Archive
    <3> QED BY <1>2, <2>1, <3>4, <3>5, <3>6
  <2>5. CASE WriteSnapshot
    <3>1. disk' = Snapshot(messages) /\ pc # "down"
      BY <2>5 DEF WriteSnapshot
    <3>2. disk'.exists /\ ClosedOf(disk') = Seen(messages)
      BY <1>1, <3>1, ClosedSnapshot DEF Snapshot
    <3>3. Archive' = ClosedOf(disk')
      BY <3>2 DEF Archive, ClosedOf, Seen
    <3> QED BY <1>2, <2>1, <3>1, <3>2, <3>3
  <2>6. CASE Cleanup
    <3>1. disk' = disk /\ disk.exists
      BY <2>6 DEF Cleanup, FileIsThere
    <3>2. Archive' = Archive
      BY <3>1 DEF Archive, ClosedOf, Seen
    <3> QED BY <1>2, <2>1, <3>2
  <2> QED BY <2>2, <2>3, <2>4, <2>5, <2>6, FileMovesStep DEF FileMoves
<1> QED BY <1>3, <1>4 DEF Kept

LEMMA CalledStep ==
  ASSUME IInv, FileIsThere, [Next]_vars, NEW id \in Nat, NEW least \in Nat, Called(id, least)
  PROVE  Called(id, least)'
<1>1. PICK k \in least..MaxTools, input \in Inputs \cup {0} : Kept(Assistant(id, k, input))
  BY DEF Called
<1>2. PICK x : x = Assistant(id, k, input)
  OBVIOUS
<1>3. x \in Message /\ x.role # "system"
  BY <1>2, ConversationConstants DEF Assistant, Message
<1>4. Kept(x)'
  BY <1>1, <1>2, <1>3, KeptStep
<1>. QED BY <1>1, <1>2, <1>4 DEF Called

\* Only a result that is pushed completes a tool use.
LEMMA DoneStep ==
  ASSUME [Next]_vars, ~PushResult PROVE Done' \subseteq Done
<1>1. CASE pc # "record" /\ executed' = executed /\ interrupted \subseteq interrupted'
  BY <1>1 DEF Done
<1>2. CASE RunTool
  <2>1. /\ pc' = "record" /\ pc # "record" /\ UNCHANGED <<batch, nextTool, interrupted>>
        /\ executed' \subseteq executed \cup {<<batch, nextTool>>}
    BY <1>2 DEF RunTool, turn
  <2> QED BY <2>1 DEF Done
<1>3. CASE PushResultFails \/ (Crash /\ pc = "record")
  <2>1. pc = "record" /\ executed' = executed /\ interrupted' = interrupted \cup {batch}
    <3>1. CASE PushResultFails
      BY <3>1 DEF PushResultFails
    <3>2. CASE Crash /\ pc = "record"
      <4>1. \A m \in InFlight : m.id = batch
        BY <3>2 DEF InFlight, ToolResult
      <4> QED BY <3>2, <4>1 DEF Crash, Vanish
    <3> QED BY <1>3, <3>1, <3>2
  <2>2. ASSUME NEW e \in Done' PROVE e \in Done
    <3>1. e \in executed /\ e[1] \notin interrupted /\ e[1] # batch
      BY <2>1, <2>2 DEF Done
    <3>2. e # <<batch, nextTool>>
      BY <3>1
    <3> QED BY <3>1, <3>2 DEF Done
  <2> QED BY <2>2
<1>4. CASE UNCHANGED vars
  BY <1>4 DEF vars, turn, history, Done
<1>5. CASE /\ Next /\ ~PushResult /\ ~RunTool /\ ~PushResultFails /\ ~(Crash /\ pc = "record")
  BY <1>1, <1>5, RecoverLeaves DEF Next, BeginTurn, ProbeFails, IterationLimit, StreamFails, AssistantReplies,
     ManualCompact, Rotate, WriteSnapshot, SaveFails, Cleanup, ExitOnError, Crash, Vanish, Resume, history
<1> QED BY <1>2, <1>3, <1>4, <1>5

LEMMA ResultsStep ==
  ASSUME IInv, Lossless, [Next]_vars PROVE \A e \in Done' : Kept(ToolResult(e[1], e[2]))'
<1>1. /\ executed \subseteq Nat \X Nat /\ batch \in Nat /\ nextTool \in Nat
      /\ messages \in Seq(Message) /\ TypeOK /\ OpenLineExists
  BY DEF IInv, TypeOK
<1>2. ASSUME NEW e \in Done PROVE Kept(ToolResult(e[1], e[2]))'
  <2>1. PICK x : x = ToolResult(e[1], e[2])
    OBVIOUS
  <2>2. e[1] \in Nat /\ e[2] \in Nat
    BY <1>1 DEF Done
  <2>3. x \in Message /\ x.role # "system"
    BY <2>1, <2>2 DEF ToolResult, Message
  <2>4. Kept(x)
    BY <2>1 DEF Lossless, Recorded
  <2>5. Kept(x)'
    BY <2>3, <2>4, KeptStep DEF Lossless
  <2> QED BY <2>1, <2>5
<1>3. CASE ~PushResult
  BY <1>2, <1>3, DoneStep
<1>4. CASE PushResult
  <2>1. PICK m, a, b : m = ToolResult(a, b) /\ a = batch /\ b = nextTool
    OBVIOUS
  <2>2. m \in Message
    BY <1>1, <2>1 DEF ToolResult, Message
  <2>3. /\ pc = "record" /\ pc' # "down" /\ messages' = Append(messages, m) /\ disk' = FileWith(m)
        /\ UNCHANGED <<executed, interrupted>>
    BY <1>4, <2>1 DEF PushResult, history
  <2>4. Kept(m)'
    <3>1. m \in Remembered'
      BY <1>1, <2>2, <2>3, SeenAppend DEF Remembered, Seen
    <3>2. disk'.exists /\ m \in ClosedOf(disk')
      BY <1>1, <2>2, <2>3, Written DEF Lossless, FileIsThere
    <3>3. Archive' = ClosedOf(disk')
      BY <3>2 DEF Archive, ClosedOf, Seen
    <3> QED BY <3>1, <3>2, <3>3 DEF Kept
  <2>5. ASSUME NEW e \in Done' PROVE Kept(ToolResult(e[1], e[2]))'
    <3>1. e \in Done \/ e = <<a, b>>
      BY <2>1, <2>3 DEF Done
    <3>2. CASE e = <<a, b>>
      BY <2>1, <2>4, <3>2
    <3> QED BY <1>2, <3>1, <3>2
  <2> QED BY <2>5
<1> QED BY <1>3, <1>4

\* The answer that asks for tools is kept when the first of them runs.
LEMMA AskedStep ==
  ASSUME IInv, Lossless, [Next]_vars, Answering' PROVE Called(batch, batchSize)'
<1>1. /\ TypeOK /\ OpenLineExists /\ messages \in Seq(Message)
      /\ batch \in Nat /\ batchSize \in Nat
  BY DEF IInv, TypeOK
<1>2. CASE AssistantReplies
  <2>1. PICK m \in Message :
          /\ m.role = "assistant" /\ m.id = nextId /\ m.n \in 0..MaxTools /\ m.n \in Nat
          /\ m.usage \in Inputs /\ m = Assistant(m.id, m.n, m.usage)
          /\ pc = "stream" /\ disk' = FileWith(m) /\ trimmed' = trimmed
          /\ AutoCompact(Append(messages, m), usage')
          /\ batch' = nextId /\ batchSize' = m.n
    BY <1>2, Replied DEF Answering
  <2>2. PICK s, tokens : s = Append(messages, m) /\ tokens = usage'
    OBVIOUS
  <2>3. s \in Seq(Message) /\ m \in Seen(s)
    BY <1>1, <2>1, <2>2, SeenAppend
  <2>4. \/ messages' = s /\ summarised' = summarised
        \/ /\ ShouldCompact(s, Preserve) /\ messages' = Compacted(s, Preserve)
           /\ summarised' = summarised \cup Removed(s, Preserve)
    <3>1. AutoCompact(s, tokens)
      BY <2>1, <2>2
    <3>2. CASE AutoCompacts(s, tokens)
      BY <3>1, <3>2 DEF AutoCompact, AutoCompacts
    <3>3. CASE ~AutoCompacts(s, tokens)
      BY <3>1, <3>3 DEF AutoCompact
    <3> QED BY <3>2, <3>3
  <2>5. m \in Remembered'
    BY <2>1, <2>3, <2>4, CompactionRemembers
  <2>6. disk'.exists /\ m \in ClosedOf(disk')
    BY <1>1, <2>1, Written DEF Lossless, FileIsThere
  <2>7. Archive' = ClosedOf(disk')
    BY <2>6 DEF Archive, ClosedOf, Seen
  <2>8. Kept(m)'
    BY <2>5, <2>6, <2>7 DEF Kept
  <2>9. PICK id, k, input : /\ id = nextId /\ k = m.n /\ input = m.usage /\ m = Assistant(id, k, input)
                            /\ k \in Nat /\ k \in k..MaxTools /\ batch' = id /\ batchSize' = k
    BY <2>1, ConversationConstants
  <2>10. Called(id, k)'
    BY <2>1, <2>8, <2>9 DEF Called
  <2>. QED BY <2>9, <2>10 DEF Called
<1>3. CASE ~AssistantReplies
  <2>1. Answering /\ UNCHANGED <<batch, batchSize>>
    BY <1>3, RecoverMeans DEF Next, Answering, BeginTurn, ProbeFails, IterationLimit, StreamFails, Recovered,
       RunTool, PushResult, PushResultFails, ManualCompact, Rotate, WriteSnapshot, SaveFails, Cleanup,
       ExitOnError, Crash, Vanish, Resume, vars, turn
  <2>2. PICK a, b : a = batch /\ b = batchSize
    OBVIOUS
  <2>3. Called(a, b)
    BY <2>1, <2>2 DEF Lossless, Recorded
  <2>4. Called(a, b)'
    BY <1>1, <2>2, <2>3, CalledStep DEF Lossless
  <2>. QED BY <2>1, <2>2, <2>4 DEF Called
<1>. QED BY <1>2, <1>3

\* A tool that runs was asked for by the answer that is kept.
LEMMA CallsStep ==
  ASSUME IInv, Lossless, [Next]_vars PROVE \A e \in executed' : Called(e[1], e[2])'
<1>1. executed \subseteq Nat \X Nat
  BY DEF IInv, TypeOK
<1>2. ASSUME NEW e \in executed PROVE Called(e[1], e[2])'
  <2>1. PICK a \in Nat, b \in Nat : a = e[1] /\ b = e[2]
    BY <1>1
  <2>2. Called(a, b)
    BY <2>1 DEF Lossless, Recorded
  <2>3. Called(a, b)'
    BY <2>2, CalledStep DEF Lossless
  <2>. QED BY <2>1, <2>3
<1>3. CASE RunTool
  <2>1. PICK a, b, size : /\ a = batch /\ b = nextTool /\ size = batchSize
                          /\ a \in Nat /\ b \in Nat /\ size \in Nat /\ b <= size
    BY <1>3 DEF RunTool, IInv, TypeOK, BatchIsOpen
  <2>2. executed' = executed \cup {<<a, b>>} /\ pc = "tools"
    BY <1>3, <2>1 DEF RunTool
  <2>3. Called(a, size)
    BY <2>1, <2>2 DEF Lossless, Recorded, Answering
  <2>4. Called(a, b)
    <3>1. \A k \in size..MaxTools : k \in b..MaxTools
      BY <2>1
    <3>. QED BY <2>3, <3>1 DEF Called
  <2>5. Called(a, b)'
    BY <2>1, <2>4, CalledStep DEF Lossless
  <2>6. <<a, b>>[1] = a /\ <<a, b>>[2] = b
    OBVIOUS
  <2>7. ASSUME NEW e \in executed' PROVE Called(e[1], e[2])'
    <3>1. CASE e \in executed
      BY <1>2, <3>1
    <3>2. CASE e = <<a, b>>
      <4>1. e[1] = a /\ e[2] = b
        BY <2>6, <3>2
      <4>. QED BY <2>5, <4>1
    <3>. QED BY <2>2, <2>7, <3>1, <3>2
  <2>. QED BY <2>7
<1>4. CASE ~RunTool
  <2>1. executed' = executed
    <3>1. AssistantReplies => executed' = executed
      BY Replied
    <3>. QED BY <1>4, <3>1, RecoverLeaves DEF Next, BeginTurn, ProbeFails, IterationLimit, StreamFails,
       PushResult, PushResultFails, ManualCompact, Rotate, WriteSnapshot, SaveFails, Cleanup, ExitOnError,
       Crash, Vanish, Resume, vars, history
  <2>. QED BY <1>2, <2>1
<1>. QED BY <1>3, <1>4

LEMMA RecordedStep ==
  ASSUME IInv, Lossless, [Next]_vars PROVE Recorded'
<1>1. \A e \in Done' : Kept(ToolResult(e[1], e[2]))'
  BY ResultsStep
<1>2. \A e \in executed' : Called(e[1], e[2])'
  BY CallsStep
<1>3. Answering' => Called(batch, batchSize)'
  BY AskedStep
<1>. QED BY <1>1, <1>2, <1>3 DEF Recorded

LEMMA LosslessInit == Init => Lossless
<1> SUFFICES ASSUME Init PROVE Lossless
  OBVIOUS
<1>1. pc = "idle" /\ disk = NoFile /\ executed = {}
  BY DEF Init
<1>2. disk.recs = <<>> /\ ~disk.exists /\ ~disk.open
  BY <1>1 DEF NoFile
<1>3. ClosedOf(disk) = {}
  BY <1>2 DEF ClosedOf
<1> QED BY <1>1, <1>2, <1>3 DEF Lossless, FileIsThere, Known, Recorded, Done, Answering

LEMMA LosslessStep == IInv /\ Lossless /\ [Next]_vars => Lossless'
BY FileIsThereStep, KnownStep, RecordedStep DEF Lossless

LEMMA AlwaysLossless == Spec => [](IInv /\ Lossless)
BY Inductive, LosslessInit, LosslessStep, PTL DEF Spec

LEMMA ArchiveIsKept ==
  ASSUME TypeOK, NEW m \in Archive \cup LetGo PROVE SomewhereKept(m)
<1>1. CASE m \in LetGo
  BY <1>1 DEF SomewhereKept, LetGo
<1>2. CASE m \in Archive /\ disk.exists
  <2>1. m \in Seen(disk.recs)
    BY <1>2, ClosedSeen DEF Archive, TypeOK, Disk
  <2> QED BY <2>1 DEF Seen, SomewhereKept
<1>3. CASE m \in Archive /\ ~disk.exists
  BY <1>3 DEF Archive, Seen, SomewhereKept
<1> QED BY <1>1, <1>2, <1>3

(* A tool that ran was asked for by a message that is in the file, in a      *)
(* rotated file, in a summary or taken by Trident; and so is its result, if  *)
(* no failed write and no kill cut the turn short - even when the process is *)
(* down, in the middle of a save or between rename and write.                *)
THEOREM EffectsRecorded == Spec => []EffectsAreRecorded
<1>1. IInv /\ Lossless => EffectsAreRecorded
  <2> SUFFICES ASSUME IInv, Lossless, NEW e \in executed
               PROVE  /\ CallKept(e)
                      /\ \/ SomewhereKept(ToolResult(e[1], e[2]))
                         \/ e[1] \in interrupted
                         \/ pc = "record" /\ e = <<batch, nextTool>>
    BY DEF EffectsAreRecorded
  <2>1. CallKept(e)
    <3>1. PICK k \in e[2]..MaxTools, input \in Inputs \cup {0} : Kept(Assistant(e[1], k, input))
      BY DEF Lossless, Recorded, Called
    <3>2. SomewhereKept(Assistant(e[1], k, input))
      BY <3>1, ArchiveIsKept DEF IInv, Kept
    <3>. QED BY <3>1, <3>2 DEF CallKept
  <2>2. ASSUME e[1] \notin interrupted, ~(pc = "record" /\ e = <<batch, nextTool>>)
        PROVE  SomewhereKept(ToolResult(e[1], e[2]))
    <3>1. e \in Done
      BY <2>2 DEF Done
    <3>2. ToolResult(e[1], e[2]) \in Archive \cup LetGo
      BY <3>1 DEF Lossless, Recorded, Kept
    <3> QED BY <3>2, ArchiveIsKept DEF IInv
  <2> QED BY <2>1, <2>2
<1> QED BY <1>1, AlwaysLossless, PTL

\* A record of the file is somewhere after the step that takes it out of it.
LEMMA NothingDropped ==
  ASSUME IInv, Lossless, [Next]_vars, NEW m \in ClosedOf(disk), m.role \notin {"system", "torn"}
  PROVE  SomewhereKept(m)'
<1>1. /\ TypeOK /\ OpenLineExists /\ disk \in Disk /\ disk.recs \in Seq(Record)
      /\ rotated \in Seq(Seq(Record))
  BY DEF IInv, TypeOK, Disk
<1>2. m \in Seen(disk.recs)
  BY <1>1, ClosedSeen
<1>3. TypeOK'
  <2>1. IInv'
    BY NextStep
  <2> QED BY <2>1 DEF IInv
<1>4. m \in Seen(disk'.recs) => SomewhereKept(m)'
  BY DEF Seen, SomewhereKept
<1>5. CASE disk' = disk
  BY <1>2, <1>4, <1>5
<1>6. CASE \E w \in Message : disk' \in {FileWith(w)} \cup FileAfterBrokenWrite(w)
  <2>1. CASE disk.exists
    <3>1. m \in ClosedOf(disk') /\ disk' \in Disk
      BY <1>1, <1>3, <1>6, <2>1, ClosedAfterWrite DEF TypeOK, Disk
    <3> QED BY <1>4, <3>1, ClosedSeen
  <2>2. CASE ~disk.exists
    <3>1. disk.recs = <<>>
      BY <2>2 DEF Lossless, FileIsThere
    <3> QED BY <1>2, <3>1 DEF Seen
  <2> QED BY <2>1, <2>2
<1>7. CASE Rotate
  <2>1. rotated' = Append(rotated, disk.recs)
    BY <1>7 DEF Rotate
  <2>2. PICK n : n \in 1..Len(rotated') /\ rotated'[n] = disk.recs
    <3>1. Len(rotated) + 1 \in 1..Len(rotated') /\ rotated'[Len(rotated) + 1] = disk.recs
      BY <1>1, <2>1
    <3> QED BY <3>1
  <2> QED BY <1>2, <2>2 DEF Seen, SomewhereKept
<1>8. CASE WriteSnapshot
  <2>1. pc \notin {"failed", "down"} /\ messages' = messages /\ LetGo' = LetGo
    BY <1>8 DEF WriteSnapshot, session, history, LetGo
  <2>2. m \in Remembered
    BY <2>1 DEF Lossless, Known
  <2> QED BY <2>1, <2>2 DEF Remembered, LetGo, Seen, SomewhereKept
<1>9. CASE Cleanup
  BY <1>5, <1>9 DEF Cleanup
<1> QED BY <1>5, <1>6, <1>7, <1>8, <1>9, FileMovesStep DEF FileMoves

(* No rewrite of the file (snapshot, rotation, bootstrap) and no append drops *)
(* a terminated record that is not in the session, in the file, in a rotated *)
(* file or in a summary then, or was taken by Trident.                       *)
THEOREM NothingIsDropped == Spec => NothingSilentlyDropped
<1>1. IInv /\ Lossless /\ [Next]_vars =>
        [\A m \in {disk.recs[i] : i \in 1..(Len(disk.recs) - (IF disk.open THEN 1 ELSE 0))} :
           m.role \notin {"system", "torn"} => SomewhereKept(m)']_vars
  BY NothingDropped DEF ClosedOf
<1> QED BY <1>1, AlwaysLossless, PTL DEF Spec, NothingSilentlyDropped

-----------------------------------------------------------------------------
(* The file follows the session *)

\* A message of the conversation itself that is not in lost.
Theirs(m, lost) == m.role \notin {"system", "torn"} /\ m \notin lost

\* SameFrom, for any lost.
Follow(msgs, recs, i, k, lost) ==
  /\ recs[k] = msgs[i]
  /\ \A l \in (k + 1)..Len(recs) :
       Theirs(recs[l], lost) => \E j \in (i + 1)..Len(msgs) : msgs[j] = recs[l]
  /\ \A j \in (i + 1)..Len(msgs) :
       Theirs(msgs[j], lost) => \E l \in (k + 1)..Len(recs) : recs[l] = msgs[j]

Covers(msgs, recs, lost) ==
  \A i \in 1..Len(msgs) :
    Theirs(msgs[i], lost) => \E k \in 1..Len(recs) : Follow(msgs, recs, i, k, lost)

\* The inductive invariant behind DiskCoversMemory: a finished save holds all there is.
Covered ==
  pc \notin {"failed", "down"} /\ disk.exists /\ ~disk.open /\ Loadable(disk.recs)
    => Covers(messages, disk.recs, trimmed)

LEMMA AppendCovers ==
  ASSUME NEW S, NEW R, NEW msgs \in Seq(S), NEW recs \in Seq(R), NEW m \in S \cap R,
         NEW lost, Covers(msgs, recs, lost)
  PROVE  Covers(Append(msgs, m), Append(recs, m), lost)
<1>1. PICK len \in Nat, rlen \in Nat : len = Len(msgs) /\ rlen = Len(recs)
  OBVIOUS
<1> DEFINE s == Append(msgs, m)
           r == Append(recs, m)
<1>2. /\ Len(s) = len + 1 /\ s[len + 1] = m /\ \A i \in 1..len : s[i] = msgs[i]
      /\ Len(r) = rlen + 1 /\ r[rlen + 1] = m /\ \A i \in 1..rlen : r[i] = recs[i]
  BY <1>1
<1> HIDE DEF s, r
<1>3. SUFFICES ASSUME NEW i \in 1..(len + 1), Theirs(s[i], lost)
               PROVE  \E k \in 1..(rlen + 1) : Follow(s, r, i, k, lost)
  BY <1>2 DEF Covers, s, r
<1>4. CASE i = len + 1
  <2>1. rlen + 1 \in 1..(rlen + 1) /\ r[rlen + 1] = s[i]
    BY <1>2, <1>4
  <2>2. (i + 1)..Len(s) = {} /\ ((rlen + 1) + 1)..Len(r) = {}
    BY <1>2, <1>4
  <2>3. Follow(s, r, i, rlen + 1, lost)
    BY <2>1, <2>2 DEF Follow
  <2>. QED BY <2>1, <2>3
<1>5. CASE i # len + 1
  <2>1. i \in 1..len /\ s[i] = msgs[i]
    BY <1>2, <1>3, <1>5
  <2>2. PICK k \in 1..rlen : Follow(msgs, recs, i, k, lost)
    BY <1>1, <1>3, <2>1 DEF Covers
  <2>3. k \in 1..(rlen + 1) /\ r[k] = s[i]
    BY <1>2, <2>1, <2>2 DEF Follow
  <2>4. ASSUME NEW l \in (k + 1)..(rlen + 1), Theirs(r[l], lost)
        PROVE  \E j \in (i + 1)..(len + 1) : s[j] = r[l]
    <3>1. CASE l = rlen + 1
      <4>1. len + 1 \in (i + 1)..(len + 1) /\ s[len + 1] = r[l]
        BY <1>2, <2>1, <3>1
      <4>. QED BY <4>1
    <3>2. CASE l # rlen + 1
      <4>1. l \in (k + 1)..rlen /\ l \in 1..rlen
        BY <2>2, <2>4, <3>2
      <4>2. r[l] = recs[l]
        BY <1>2, <4>1
      <4>3. PICK j \in (i + 1)..len : msgs[j] = recs[l]
        BY <1>1, <2>2, <2>4, <4>1, <4>2 DEF Follow
      <4>4. j \in (i + 1)..(len + 1) /\ j \in 1..len
        BY <2>1, <4>3
      <4>5. s[j] = r[l]
        BY <1>2, <4>2, <4>3, <4>4
      <4>. QED BY <4>4, <4>5
    <3>. QED BY <3>1, <3>2
  <2>5. ASSUME NEW j \in (i + 1)..(len + 1), Theirs(s[j], lost)
        PROVE  \E l \in (k + 1)..(rlen + 1) : r[l] = s[j]
    <3>1. CASE j = len + 1
      <4>1. rlen + 1 \in (k + 1)..(rlen + 1) /\ r[rlen + 1] = s[j]
        BY <1>2, <2>2, <3>1
      <4>. QED BY <4>1
    <3>2. CASE j # len + 1
      <4>1. j \in (i + 1)..len /\ j \in 1..len
        BY <2>1, <2>5, <3>2
      <4>2. s[j] = msgs[j]
        BY <1>2, <4>1
      <4>3. PICK l \in (k + 1)..rlen : recs[l] = msgs[j]
        BY <1>1, <2>2, <2>5, <4>1, <4>2 DEF Follow
      <4>4. l \in (k + 1)..(rlen + 1) /\ l \in 1..rlen
        BY <2>2, <4>3
      <4>5. r[l] = s[j]
        BY <1>2, <4>2, <4>3, <4>4
      <4>. QED BY <4>4, <4>5
    <3>. QED BY <3>1, <3>2
  <2>6. Follow(s, r, i, k, lost)
    BY <1>2, <2>3, <2>4, <2>5 DEF Follow
  <2>. QED BY <2>3, <2>6
<1>. QED BY <1>4, <1>5

LEMMA SelfCovers == ASSUME NEW msgs, NEW lost PROVE Covers(msgs, msgs, lost)
<1>1. SUFFICES ASSUME NEW i \in 1..Len(msgs) PROVE \E k \in 1..Len(msgs) : Follow(msgs, msgs, i, k, lost)
  BY DEF Covers
<1>2. Follow(msgs, msgs, i, i, lost)
  BY DEF Follow
<1>. QED BY <1>2

LEMMA CompactCovers ==
  ASSUME NEW msgs \in Seq(Message), NEW preserve \in Nat, ShouldCompact(msgs, preserve),
         NEW recs, NEW lost, Covers(msgs, recs, lost)
  PROVE  Covers(Compacted(msgs, preserve), recs, lost)
<1>1. PICK c, k, len, n : /\ c = Compacted(msgs, preserve) /\ k = KeepFrom(msgs, preserve)
                          /\ len = Len(msgs) /\ len \in Nat /\ n = Len(c)
  <2>1. Len(msgs) \in Nat
    OBVIOUS
  <2>. QED BY <2>1
<1>2. /\ k \in Nat /\ k <= len - preserve /\ n = len - k + 1
      /\ c[1] = Summary /\ \A i \in 2..n : c[i] = msgs[k + i - 1]
  BY <1>1, CompactedShape
<1>3. n \in Nat /\ k <= len /\ c[1].role = "system"
  BY <1>1, <1>2 DEF Summary
<1>4. SUFFICES ASSUME NEW i \in 1..n, Theirs(c[i], lost)
               PROVE  \E p \in 1..Len(recs) : Follow(c, recs, i, p, lost)
  BY <1>1 DEF Covers
<1>5. i \in 2..n
  BY <1>3, <1>4 DEF Theirs
<1>6. PICK b : b = k + i - 1 /\ b \in 1..len /\ c[i] = msgs[b]
  BY <1>1, <1>2, <1>3, <1>5
<1>7. PICK p \in 1..Len(recs) : Follow(msgs, recs, b, p, lost)
  BY <1>1, <1>4, <1>6 DEF Covers
<1>11. i \in Nat /\ k \in Nat /\ len \in Nat /\ n = len - k + 1 /\ b = k + i - 1 /\ i >= 2
  BY <1>1, <1>2, <1>5, <1>6
<1>8. ASSUME NEW l \in (p + 1)..Len(recs), Theirs(recs[l], lost)
      PROVE  \E j \in (i + 1)..n : c[j] = recs[l]
  <2>1. PICK q \in (b + 1)..len : msgs[q] = recs[l]
    BY <1>1, <1>7, <1>8 DEF Follow
  <2>2. PICK j : j = q - k + 1 /\ j \in (i + 1)..n /\ j \in 2..n /\ k + j - 1 = q
    <3>1. q - k + 1 \in (i + 1)..n /\ q - k + 1 \in 2..n /\ k + (q - k + 1) - 1 = q
      BY <1>11
    <3>. QED BY <3>1
  <2>3. c[j] = recs[l]
    BY <1>2, <2>1, <2>2
  <2>. QED BY <2>2, <2>3
<1>9. ASSUME NEW j \in (i + 1)..n, Theirs(c[j], lost)
      PROVE  \E l \in (p + 1)..Len(recs) : recs[l] = c[j]
  <2>1. PICK q : q = k + j - 1 /\ q \in (b + 1)..len /\ j \in 2..n
    <3>1. k + j - 1 \in (b + 1)..len /\ j \in 2..n
      BY <1>11
    <3>. QED BY <3>1
  <2>2. c[j] = msgs[q]
    BY <1>2, <2>1
  <2>. QED BY <1>1, <1>7, <1>9, <2>1, <2>2 DEF Follow
<1>10. Follow(c, recs, i, p, lost)
  BY <1>1, <1>6, <1>7, <1>8, <1>9 DEF Follow
<1>. QED BY <1>10

LEMMA TrimCovers ==
  ASSUME NEW msgs \in Seq(Message), NEW out, NEW lost, NEW f, IsTrim(msgs, out, lost, f),
         NEW recs, NEW before, NEW after, Covers(msgs, recs, before),
         before \subseteq after, lost \subseteq after
  PROVE  Covers(out, recs, after)
<1>1. /\ Len(out) \in Nat /\ Len(msgs) \in Nat
      /\ \A a \in 1..Len(out) : f[a] \in 1..Len(msgs)
      /\ \A a, b \in 1..Len(out) : a < b => f[a] < f[b]
      /\ \A a \in 1..Len(out) : out[a] = msgs[f[a]] \/ (out[a] = Note /\ msgs[f[a]] \in lost)
      /\ \A i \in 1..Len(msgs) : msgs[i] \notin lost => \E a \in 1..Len(out) : f[a] = i
  BY DEF IsTrim
<1>2. \A m : Theirs(m, after) => Theirs(m, before) /\ m \notin lost /\ m # Note
  BY DEF Theirs, Note
<1>3. SUFFICES ASSUME NEW a \in 1..Len(out), Theirs(out[a], after)
               PROVE  \E p \in 1..Len(recs) : Follow(out, recs, a, p, after)
  BY DEF Covers
<1>4. PICK i \in 1..Len(msgs) : i = f[a] /\ out[a] = msgs[i]
  BY <1>1, <1>2, <1>3
<1>5. PICK p \in 1..Len(recs) : Follow(msgs, recs, i, p, before)
  BY <1>2, <1>3, <1>4 DEF Covers
<1>6. ASSUME NEW l \in (p + 1)..Len(recs), Theirs(recs[l], after)
      PROVE  \E b \in (a + 1)..Len(out) : out[b] = recs[l]
  <2>1. PICK j \in (i + 1)..Len(msgs) : msgs[j] = recs[l]
    BY <1>2, <1>5, <1>6 DEF Follow
  <2>2. j \in 1..Len(msgs) /\ i < j /\ msgs[j] \notin lost
    BY <1>1, <1>2, <1>4, <1>6, <2>1
  <2>3. PICK b \in 1..Len(out) : f[b] = j
    BY <1>1, <2>2
  <2>4. ~(f[b] < f[a]) /\ f[b] # f[a]
    BY <1>1, <1>4, <2>2, <2>3
  <2>5. ~(b < a) /\ b # a
    BY <1>1, <2>4
  <2>6. b \in (a + 1)..Len(out)
    BY <1>1, <2>5
  <2>7. out[b] = recs[l]
    BY <1>1, <2>1, <2>2, <2>3
  <2>. QED BY <2>6, <2>7
<1>7. ASSUME NEW b \in (a + 1)..Len(out), Theirs(out[b], after)
      PROVE  \E l \in (p + 1)..Len(recs) : recs[l] = out[b]
  <2>1. b \in 1..Len(out) /\ a < b
    BY <1>1, <1>7
  <2>2. out[b] = msgs[f[b]] /\ Theirs(out[b], before)
    BY <1>1, <1>2, <1>7, <2>1
  <2>3. f[b] \in (i + 1)..Len(msgs)
    <3>1. f[b] \in 1..Len(msgs) /\ f[a] < f[b]
      BY <1>1, <2>1
    <3>. QED BY <1>1, <1>4, <3>1
  <2>4. PICK y \in (i + 1)..Len(msgs) : y = f[b]
    BY <2>3
  <2>5. out[b] = msgs[y] /\ Theirs(msgs[y], before)
    BY <2>2, <2>4
  <2>6. \A j \in (i + 1)..Len(msgs) :
          Theirs(msgs[j], before) => \E l \in (p + 1)..Len(recs) : recs[l] = msgs[j]
    BY <1>5 DEF Follow
  <2>7. \E l \in (p + 1)..Len(recs) : recs[l] = msgs[y]
    BY <2>4, <2>5, <2>6
  <2>. QED BY <2>5, <2>7
<1>8. Follow(out, recs, a, p, after)
  BY <1>4, <1>5, <1>6, <1>7 DEF Follow
<1>. QED BY <1>8

\* A message that is pushed and written is the last of both.
LEMMA PushCovers ==
  ASSUME IInv, Covered, pc \notin {"failed", "down"}, NEW m \in Message,
         Loadable(FileWith(m).recs)
  PROVE  Covers(Append(messages, m), FileWith(m).recs, trimmed)
<1>1. /\ messages \in Seq(Message) /\ disk.recs \in Seq(Record) /\ m \in Record
  BY DEF IInv, TypeOK, Record
<1>2. CASE FileWith(m).recs = Append(messages, m)
  BY <1>2, SelfCovers
<1>3. CASE FileWith(m).recs = Append(disk.recs, m) /\ disk.exists /\ ~disk.open /\ Loadable(disk.recs)
  BY <1>1, <1>3, AppendCovers DEF Covered
<1> QED BY <1>2, <1>3, WrittenLast DEF IInv

LEMMA CoveredAfter ==
  ASSUME Covered, pc \notin {"failed", "down"}, UNCHANGED <<messages, disk, trimmed>> PROVE Covered'
BY DEF Covered, Covers, Follow, Theirs, Loadable

LEMMA ReachedCovered ==
  ASSUME Loadable(disk'.recs) => Covers(messages', disk'.recs, trimmed') PROVE Covered'
BY DEF Covered, Covers, Follow, Theirs, Loadable

LEMMA CoveredInit == Init => Covered
BY DEF Init, Covered, NoFile

\* The prompt that is sent again is written behind what the file holds.
LEMMA RecoverCovered ==
  ASSUME IInv, FileIsThere, Covered, Recover, pc' # "failed" PROVE Covered'
<1>1. messages \in Seq(Message) /\ disk.recs \in Seq(Record) /\ disk \in Disk
  BY DEF IInv, TypeOK, Disk
<1>2. PICK msgs, base, lost, removed, m, f : Recovered(msgs, base, lost, removed, m, f)
  BY RecoverMeans
<1>3. msgs \in Seq(Message) /\ base \in Seq(Message) /\ m \in Message /\ m \in Record
  BY <1>2, RecoveredBase DEF Record
<1>4. /\ pc = "stream" /\ IsTrim(messages, msgs, lost, f) /\ trimmed' = trimmed \cup lost
      /\ messages' = Append(base, m) /\ disk' = FileWith(m)
  BY <1>2 DEF Recovered
<1>5. disk.exists /\ ~disk.open
  BY <1>4 DEF FileIsThere
<1>6. disk'.recs = Append(disk.recs, m)
  BY <1>1, <1>4, <1>5 DEF FileWith, Appended, Disk
<1>7. PICK T : T = trimmed'
  OBVIOUS
<1>8. SUFFICES ASSUME Loadable(disk'.recs) PROVE Covers(Append(base, m), Append(disk.recs, m), T)
  BY <1>4, <1>6, <1>7, ReachedCovered
<1>9. Loadable(disk.recs)
  <2>1. PICK r, len : r = Append(disk.recs, m) /\ len = Len(disk.recs) /\ len \in Nat
    <3>1. Len(disk.recs) \in Nat
      BY <1>1
    <3>. QED BY <3>1
  <2>2. Len(r) = len + 1 /\ \A i \in 1..len : r[i] = disk.recs[i] /\ i \in 1..(len + 1)
    BY <1>1, <1>3, <2>1
  <2>3. \A i \in 1..Len(r) : r[i] # Torn
    BY <1>6, <1>8, <2>1 DEF Loadable
  <2>. QED BY <2>1, <2>2, <2>3 DEF Loadable
<1>10. Covers(messages, disk.recs, trimmed)
  BY <1>4, <1>5, <1>9 DEF Covered
<1>11. Covers(msgs, disk.recs, T)
  BY <1>1, <1>4, <1>7, <1>10, TrimCovers
<1>12. Covers(base, disk.recs, T)
  <2>1. CASE base = msgs
    BY <1>11, <2>1
  <2>2. ASSUME NEW preserve \in Nat, ShouldCompact(msgs, preserve), base = Compacted(msgs, preserve)
        PROVE  Covers(base, disk.recs, T)
    BY <1>3, <1>11, <2>2, CompactCovers
  <2>. QED BY <1>2, <2>1, <2>2 DEF Recovered
<1>. QED BY <1>1, <1>3, <1>12, AppendCovers

LEMMA CoveredStep == IInv /\ FileIsThere /\ Covered /\ [Next]_vars => Covered'
<1> SUFFICES ASSUME IInv, FileIsThere, Covered, [Next]_vars PROVE Covered'
  OBVIOUS
<1>1. messages \in Seq(Message) /\ disk.recs \in Seq(Record) /\ nextId \in Nat
      /\ batch \in Nat /\ nextTool \in Nat /\ Preserve \in Nat
  BY ConversationConstants DEF IInv, TypeOK
<1>2. CASE pc' \in {"failed", "down"}
  BY <1>2 DEF Covered
<1>3. CASE BeginTurn /\ pc' # "failed"
  <2> DEFINE m == User(nextId)
  <2>1. m \in Message
    BY <1>1 DEF User, Message
  <2>2. messages' = Append(messages, m) /\ disk' = FileWith(m) /\ pc = "idle" /\ trimmed' = trimmed
    BY <1>3 DEF BeginTurn, history
  <2> HIDE DEF m
  <2> QED BY <2>1, <2>2, PushCovers, ReachedCovered
<1>4. CASE AssistantReplies /\ pc' # "failed"
  <2>1. PICK m \in Message : /\ trimmed' = trimmed /\ pc = "stream" /\ disk' = FileWith(m)
                            /\ AutoCompact(Append(messages, m), usage')
    BY <1>4, Replied
  <2>2. PICK s, tokens : s = Append(messages, m) /\ tokens = usage'
    OBVIOUS
  <2>3. s \in Seq(Message)
    BY <1>1, <2>1, <2>2
  <2>4. Loadable(disk'.recs) => Covers(s, disk'.recs, trimmed)
    BY <2>1, <2>2, PushCovers
  <2>5. Loadable(disk'.recs) => Covers(messages', disk'.recs, trimmed)
    <3>1. AutoCompact(s, tokens)
      BY <2>1, <2>2
    <3>2. CASE AutoCompacts(s, tokens)
      BY <1>1, <2>3, <2>4, <3>1, <3>2, CompactCovers DEF AutoCompact, AutoCompacts
    <3>3. CASE ~AutoCompacts(s, tokens)
      BY <2>4, <3>1, <3>3 DEF AutoCompact
    <3> QED BY <3>2, <3>3
  <2> QED BY <2>1, <2>5, ReachedCovered
<1>5. CASE PushResult
  <2> DEFINE m == ToolResult(batch, nextTool)
  <2>1. m \in Message
    BY <1>1 DEF ToolResult, Message
  <2>2. messages' = Append(messages, m) /\ disk' = FileWith(m) /\ pc = "record" /\ trimmed' = trimmed
    BY <1>5 DEF PushResult, history
  <2> HIDE DEF m
  <2> QED BY <2>1, <2>2, PushCovers, ReachedCovered
<1>6. CASE RunTool \/ Cleanup
  <2>1. pc \in {"tools", "cleanup"} /\ UNCHANGED <<messages, disk, trimmed>>
    BY <1>6 DEF RunTool, Cleanup, session, files, history
  <2> QED BY <2>1, CoveredAfter
<1>7. CASE ManualCompact
  <2>1. pc = "idle" /\ disk' = disk /\ trimmed' = trimmed
    BY <1>7 DEF ManualCompact, files
  <2>2. \/ messages' = messages
        \/ messages' = Compacted(messages, Preserve) /\ ShouldCompact(messages, Preserve)
    <3>1. CASE UNCHANGED <<session, summarised>>
      BY <3>1 DEF session
    <3>2. CASE ShouldCompact(messages, Preserve) /\ messages' = Compacted(messages, Preserve)
      BY <3>2
    <3> QED BY <1>7, <3>1, <3>2 DEF ManualCompact
  <2>3. CASE messages' = messages
    BY <2>1, <2>3, CoveredAfter
  <2>4. CASE messages' = Compacted(messages, Preserve) /\ ShouldCompact(messages, Preserve)
    <3>1. disk.exists /\ ~disk.open /\ Loadable(disk.recs) => Covers(messages', disk'.recs, trimmed)
      BY <1>1, <2>1, <2>4, CompactCovers DEF Covered
    <3> QED BY <2>1, <3>1 DEF Covered, Covers, Follow, Theirs, Loadable
  <2> QED BY <2>2, <2>3, <2>4
<1>8. CASE Rotate
  BY <1>8 DEF Rotate, NoFile, Covered
<1>9. CASE WriteSnapshot
  <2>1. messages' = messages /\ disk'.recs = messages
    BY <1>9 DEF WriteSnapshot, Snapshot, session
  <2> QED BY <1>1, <2>1, SelfCovers, ReachedCovered
<1>10. CASE Resume
  <2>1. messages' = disk.recs /\ disk' = disk
    BY <1>10 DEF Resume, files
  <2> QED BY <1>1, <2>1, SelfCovers, ReachedCovered
<1>11. CASE UNCHANGED vars
  <2>1. UNCHANGED <<pc, messages, disk, trimmed>>
    BY <1>11 DEF vars, session, files, history
  <2> QED BY <1>2, <2>1, CoveredAfter
<1>12. ProbeFails \/ IterationLimit \/ StreamFails \/ SaveFails \/ PushResultFails \/ ExitOnError \/ Crash
         => pc' \in {"failed", "down"}
  BY DEF ProbeFails, IterationLimit, StreamFails, SaveFails, PushResultFails, ExitOnError, Crash, Vanish
<1>13. CASE Recover /\ pc' # "failed"
  BY <1>13, RecoverCovered
<1> QED BY <1>2, <1>3, <1>4, <1>5, <1>6, <1>7, <1>8, <1>9, <1>10, <1>11, <1>12, <1>13 DEF Next

(* A kill loses no message that was pushed, and reorders none: the file,     *)
(* which neither compaction nor recovery rewrites, holds every message of    *)
(* the session, with the same messages behind it, but for summaries, notes   *)
(* and what Trident took.                                                    *)
THEOREM DiskCovers == Spec => []DiskCoversMemory
<1>1. IInv /\ Covered => DiskCoversMemory
  <2>1. \A m : Own(m) <=> Theirs(m, trimmed)
    BY DEF Own, Theirs
  <2>2. \A i, k : Follow(messages, disk.recs, i, k, trimmed) => SameFrom(messages, disk.recs, i, k)
    BY <2>1 DEF Follow, SameFrom
  <2>. QED BY <2>1, <2>2 DEF Covered, Covers, DiskCoversMemory
<1>2. IInv /\ Lossless /\ Covered /\ [Next]_vars => Covered'
  BY CoveredStep DEF Lossless
<1> QED BY <1>1, <1>2, CoveredInit, AlwaysLossless, PTL DEF Spec
=============================================================================
