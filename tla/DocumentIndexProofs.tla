--------------------------- MODULE DocumentIndexProofs ---------------------------
(***************************************************************************)
(* Wherever ingestions end, however many run and whatever becomes of the   *)
(* files meanwhile: a row stands for all the chunks of its text, and no    *)
(* question finds two texts of a file, but for the files at which two      *)
(* ingestions were at work.                                                *)
(***************************************************************************)
EXTENDS DocumentIndex, TLAPS

OnFile  == {"read", "clear", "cleared", "embed", "insert", "vector", "record"}
Walks   == OnFile \cup {"next"}
Sweeps  == {"sweep", "forget", "forgotten"}
Working == (OnFile \ {"read"}) \cup {"forget", "forgotten"}

Rows == [hash : Texts, mtime : Times] \cup {None}

Records ==
  [at : {"idle"} \cup Walks \cup Sweeps, seen : SUBSET Files, todo : SUBSET Files,
   path : Files \cup {0}, meta : Times \cup {0}, ver : Texts \cup {0}, ord : Nat]

Ranges ==
  /\ file \in [Files -> Written \cup {None}] /\ row \in [Files -> Rows]
  /\ chunk \subseteq Chunk /\ ingest \in [Ingests -> Records]
  /\ mixed \subseteq Files /\ restored \subseteq Files

\* The walk goes over files it has seen, the sweep over others; at a file an ingestion has
\* its metadata, its text and a place in it.
Places(i) ==
  LET x == ingest[i] IN
  /\ x.at \in Walks => x.todo \subseteq x.seen
  /\ x.at \in OnFile => x.path \in x.seen /\ x.meta \in Times
  /\ x.at \in Sweeps => x.todo \cap x.seen = {}
  /\ x.at \in {"forget", "forgotten"} => x.path \in Files \ x.seen
  /\ x.at \in OnFile \ {"read"} => x.ver \in Texts
  /\ x.at \in {"clear", "cleared"} => x.ord = 1
  /\ x.at \in {"embed", "insert", "vector"} => x.ord \in 1..Pieces[x.ver]

\* Where two ingestions meet is noted.
Marked == \A f \in Files : Overlaps(f) => f \in mixed

\* The row of a file is not the truth, and not by somebody's putting the file back.
IsStale(f) == row[f] # None => row[f] # file[f]

Known(f) == f \notin mixed /\ f \notin restored

\* A row about to be deleted does not pass for an up-to-date one.
RowIsStale(i) ==
  LET x == ingest[i] IN
  /\ x.at # "idle" => \A g \in Files \ x.seen : Known(g) => IsStale(g)
  /\ x.at = "read" /\ Known(x.path) /\ ~IsStale(x.path) => x.meta = file[x.path].mtime
  /\ x.at \in {"clear", "cleared"} /\ Known(x.path) => IsStale(x.path)

\* The first n chunks of a text, with their vectors.
Stored(i, f, v, n) ==
  {[path |-> f, ord |-> k, ver |-> v, by |-> i, vec |-> TRUE] : k \in 1..n}

\* What has been stored of the text that was read, if no other ingestion interfered.
Progress(i) ==
  LET x == ingest[i] IN
  x.path \notin mixed =>
    /\ x.at \in {"cleared", "forgotten"} => ChunksOf(x.path) = {}
    /\ x.at \in {"embed", "insert", "vector", "record"} => row[x.path] = None
    /\ x.at \in {"embed", "insert"} => ChunksOf(x.path) = Stored(i, x.path, x.ver, x.ord - 1)
    /\ x.at = "vector" =>
         ChunksOf(x.path) = Stored(i, x.path, x.ver, x.ord - 1)
           \cup {[path |-> x.path, ord |-> x.ord, ver |-> x.ver, by |-> i, vec |-> FALSE]}
    /\ x.at = "record" => ChunksOf(x.path) = Stored(i, x.path, x.ver, Pieces[x.ver])

\* The two invariants for one file.
RowIsTrue(f) ==
  row[f] # None =>
    \/ Found(f) = All(row[f].hash) /\ \A c \in ChunksOf(f) : c.vec
    \/ ChunksOf(f) = {} /\ (row[f] # file[f] \/ f \in restored)

OneText(f) == \A c, d \in ChunksOf(f) : c.ver = d.ver

Sound(f) == f \notin mixed => RowIsTrue(f) /\ OneText(f)

Running == \A i \in Ingests : RowIsStale(i) /\ Progress(i)

IInv == Ranges /\ (\A i \in Ingests : Places(i)) /\ Marked /\ Running /\ \A f \in Files : Sound(f)

-----------------------------------------------------------------------------
LEMMA InitIInv == Init => IInv
<1> SUFFICES ASSUME Init PROVE IInv OBVIOUS
<1>1. Ranges
  <2>1. Idle \in Records
    BY DEF Idle, Records
  <2> QED BY <2>1 DEF Init, Ranges, Rows
<1>2. \A i \in Ingests : Places(i) /\ RowIsStale(i) /\ Progress(i)
  BY DEF Init, Places, RowIsStale, Progress, Idle, OnFile, Walks, Sweeps
<1>3. Marked
  BY DEF Init, Marked, Overlaps, At, Idle
<1>4. \A f \in Files : Sound(f)
  BY DEF Init, Sound, RowIsTrue, OneText, ChunksOf
<1> QED BY <1>1, <1>2, <1>3, <1>4 DEF IInv, Running

\* At work is being at one of the steps that write the tables.
LEMMA WorkMeans ==
  ASSUME IInv, NEW i \in Ingests
  PROVE  /\ ingest[i] \in Records /\ Places(i)
         /\ \A f \in Files : AtWork(i, f) <=> ingest[i].path = f /\ ingest[i].at \in Working
         /\ ingest[i].at \in Working => ingest[i].path \in Files
  BY DEF IInv, Ranges, AtWork, Working, OnFile, Places, Records

\* What Mark does to the history.
LEMMA MarkMeans ==
  ASSUME NEW fresh, Mark(fresh), mixed \subseteq Files
  PROVE  /\ mixed' \subseteq Files /\ Marked'
         /\ \A f \in Files : f \notin mixed' => (f \notin mixed \/ f \in fresh) /\ ~Overlaps(f)'
  BY DEF Mark, Marked

\* A file changes: if it becomes what its row says, this is noted.
LEMMA EditKeeps == IInv /\ Edit => IInv'
<1> SUFFICES ASSUME IInv, Edit PROVE IInv'
  OBVIOUS
<1>1. PICK f \in Files, v \in Written \cup {None} :
        /\ v # file[f] /\ file' = [file EXCEPT ![f] = v]
        /\ restored' = IF v = row[f] THEN restored \cup {f} ELSE restored
  BY DEF Edit
<1>2. UNCHANGED <<row, chunk, ingest>> /\ Mark({})
  BY DEF Edit
<1>3. mixed' \subseteq Files /\ Marked' /\ \A g \in Files : g \notin mixed' => g \notin mixed
  BY <1>2, MarkMeans DEF IInv, Ranges
<1>4. Ranges'
  BY <1>1, <1>2, <1>3 DEF IInv, Ranges
<1>5. \A g \in Files : g \in restored => g \in restored'
  BY <1>1
<1>6. \A g \in Files : Known(g)' => Known(g) /\ (file'[g] = file[g] \/ row'[g] # file'[g])
  BY <1>1, <1>2, <1>3, <1>5 DEF Known, IInv, Ranges
<1>7. ASSUME NEW i \in Ingests PROVE (Places(i) /\ RowIsStale(i) /\ Progress(i))'
  <2>1. ingest[i] \in Records /\ Places(i) /\ RowIsStale(i) /\ Progress(i)
    BY DEF IInv, Running, Ranges
  <2>2. Places(i)'
    BY <1>2, <2>1 DEF Places
  <2>3. ingest[i].at \in OnFile => ingest[i].path \in Files
    BY <2>1 DEF Places, Records
  <2>4. \A g \in Files : Known(g)' => Known(g) /\ (IsStale(g) => IsStale(g)')
                                    /\ (~IsStale(g)' => ~IsStale(g) /\ file'[g] = file[g])
    BY <1>2, <1>6 DEF IsStale
  <2>5. RowIsStale(i)'
    BY <1>2, <2>1, <2>3, <2>4 DEF RowIsStale, OnFile, Records
  <2>6. Progress(i)'
    <3>1. ingest[i].path \in Files => (ingest[i].path \notin mixed' => ingest[i].path \notin mixed)
      BY <1>3
    <3>2. ingest[i].at \in Working => ingest[i].path \in Files
      BY WorkMeans
    <3> QED BY <1>2, <2>1, <3>1, <3>2 DEF Progress, ChunksOf, Stored, Working, OnFile
  <2> QED BY <2>2, <2>5, <2>6
<1>8. ASSUME NEW g \in Files PROVE Sound(g)'
  <2> SUFFICES ASSUME g \notin mixed' PROVE (RowIsTrue(g) /\ OneText(g))'
    BY DEF Sound
  <2>1. RowIsTrue(g) /\ OneText(g)
    BY <1>3 DEF IInv, Sound
  <2>2. OneText(g)'
    BY <1>2, <2>1 DEF OneText, ChunksOf
  <2>3. Found(g)' = Found(g) /\ ChunksOf(g)' = ChunksOf(g) /\ row'[g] = row[g]
        /\ All(row[g].hash)' = All(row[g].hash)
    BY <1>2 DEF Found, ChunksOf, All
  <2>4. row[g] # file[g] \/ g \in restored => row[g] # file'[g] \/ g \in restored'
    BY <1>1, <1>5 DEF IInv, Ranges
  <2>5. RowIsTrue(g)'
    BY <2>1, <2>3, <2>4 DEF RowIsTrue
  <2> QED BY <2>2, <2>5
<1> QED BY <1>3, <1>4, <1>7, <1>8 DEF IInv, Running

\* A step of an ingestion leaves what it is not at work at as it is, and what others rely
\* on too: where it is at work beside them, the file is mixed.
LEMMA OthersKeep ==
  ASSUME IInv, NEW i \in Ingests, NEW x \in Records, NEW fresh,
         ingest' = [ingest EXCEPT ![i] = x], file' = file, Mark(fresh),
         \A g \in Files : ~AtWork(i, g) =>
           /\ row'[g] = row[g] /\ ChunksOf(g)' = ChunksOf(g)
           /\ g \in restored' <=> g \in restored,
         \A g \in fresh : g \in Files => AtWork(i, g) /\ row'[g] = None /\ x.at # "idle"
  PROVE  /\ mixed' \subseteq Files /\ Marked'
         /\ \A j \in Ingests \ {i} : (Places(j) /\ RowIsStale(j) /\ Progress(j))'
         /\ \A g \in Files : ~AtWork(i, g) => Sound(g)'
<1>1. /\ mixed' \subseteq Files /\ Marked'
      /\ \A f \in Files : f \notin mixed' => (f \notin mixed \/ f \in fresh) /\ ~Overlaps(f)'
  BY MarkMeans DEF IInv, Ranges
<1>2. ingest'[i] = x /\ \A j \in Ingests \ {i} : ingest'[j] = ingest[j]
  BY DEF IInv, Ranges
<1>3. ASSUME NEW j \in Ingests \ {i} PROVE (Places(j) /\ RowIsStale(j) /\ Progress(j))'
  <2> DEFINE y == ingest[j]
  <2>1. y \in Records /\ Places(j) /\ RowIsStale(j) /\ Progress(j) /\ ingest'[j] = y
    BY <1>2 DEF IInv, Ranges, Running
  <2>2. Places(j)'
    BY <2>1 DEF Places
  <2>3. ASSUME NEW g \in Files, y.at # "idle", g \notin mixed'
        PROVE  \/ row'[g] = None /\ ~AtWork(j, g)
               \/ /\ ~AtWork(i, g) /\ g \notin mixed /\ row'[g] = row[g]
                  /\ ChunksOf(g)' = ChunksOf(g) /\ (g \in restored' <=> g \in restored)
    <3>1. CASE ~AtWork(i, g)
      BY <1>1, <2>3, <3>1
    <3>2. CASE AtWork(i, g)
      <4>1. Overlaps(g)
        BY <2>3, <3>2 DEF Overlaps, At
      <4>2. g \in fresh
        BY <1>1, <2>3, <4>1 DEF IInv, Marked
      <4>3. row'[g] = None /\ x.at # "idle"
        BY <4>2
      <4>4. AtWork(j, g) => Overlaps(g)'
        BY <1>2, <2>1, <4>3 DEF Overlaps, AtWork, At
      <4> QED BY <1>1, <2>3, <4>3, <4>4
    <3> QED BY <3>1, <3>2
  <2>4. \A g \in Files : y.at # "idle" /\ Known(g)' =>
          IsStale(g)' \/ (Known(g) /\ row'[g] = row[g] /\ (IsStale(g)' <=> IsStale(g)))
    BY <2>3 DEF Known, IsStale
  <2>5. y.at \in OnFile => y.path \in Files
    BY <2>1 DEF Places, Records
  <2>6. RowIsStale(j)'
    BY <2>1, <2>4, <2>5 DEF RowIsStale, OnFile
  <2>7. Progress(j)'
    <3>1. y.at \in Working => y.path \in Files /\ AtWork(j, y.path) /\ y.at # "idle"
      BY WorkMeans DEF Working, OnFile
    <3>2. y.at \in Working /\ y.path \notin mixed' =>
            y.path \notin mixed /\ row'[y.path] = row[y.path] /\ ChunksOf(y.path)' = ChunksOf(y.path)
      BY <2>3, <3>1
    <3> QED BY <2>1, <3>2 DEF Progress, Working, OnFile, Stored, ChunksOf
  <2> QED BY <2>2, <2>6, <2>7
<1>4. ASSUME NEW g \in Files, ~AtWork(i, g) PROVE Sound(g)'
  <2> SUFFICES ASSUME g \notin mixed' PROVE (RowIsTrue(g) /\ OneText(g))'
    BY DEF Sound
  <2>1. g \notin mixed /\ row'[g] = row[g] /\ ChunksOf(g)' = ChunksOf(g)
        /\ (g \in restored' <=> g \in restored)
    BY <1>1, <1>4
  <2>2. RowIsTrue(g) /\ OneText(g)
    BY <2>1 DEF IInv, Sound
  <2>3. Found(g)' = Found(g) /\ All(row[g].hash)' = All(row[g].hash)
    BY <2>1 DEF Found, All
  <2> QED BY <2>1, <2>2, <2>3 DEF RowIsTrue, OneText
<1> QED BY <1>1, <1>3, <1>4

\* A step of an ingestion that writes no table.
LEMMA MoveKeeps ==
  ASSUME IInv, NEW i \in Ingests, NEW x \in Records,
         ingest' = [ingest EXCEPT ![i] = x], Moves,
         (Places(i) /\ RowIsStale(i) /\ Progress(i))'
  PROVE  IInv'
<1>1. UNCHANGED <<file, row, chunk, restored>> /\ Mark({})
  BY DEF Moves
<1>2. \A g \in Files : ChunksOf(g)' = ChunksOf(g)
  BY <1>1 DEF ChunksOf
<1>3. /\ mixed' \subseteq Files /\ Marked'
      /\ \A j \in Ingests \ {i} : (Places(j) /\ RowIsStale(j) /\ Progress(j))'
  BY <1>1, <1>2, OthersKeep
<1>4. Ranges'
  BY <1>1, <1>3 DEF IInv, Ranges
<1>5. ASSUME NEW g \in Files PROVE Sound(g)'
  <2> SUFFICES ASSUME g \notin mixed' PROVE (RowIsTrue(g) /\ OneText(g))'
    BY DEF Sound
  <2>1. g \notin mixed
    BY <1>1, MarkMeans DEF IInv, Ranges
  <2>2. RowIsTrue(g) /\ OneText(g)
    BY <2>1 DEF IInv, Sound
  <2>3. Found(g)' = Found(g) /\ All(row[g].hash)' = All(row[g].hash)
    BY <1>1, <1>2 DEF Found, All
  <2> QED BY <1>1, <1>2, <2>2, <2>3 DEF RowIsTrue, OneText
<1> QED BY <1>3, <1>4, <1>5 DEF IInv, Running

\* What a step that writes no table leaves of a file that is not mixed after it.
LEMMA MoveLeaves ==
  ASSUME IInv, Moves, NEW g \in Files
  PROVE  /\ file' = file /\ row' = row /\ chunk' = chunk /\ restored' = restored
         /\ g \notin mixed' => g \notin mixed
         /\ Known(g)' => Known(g) /\ (IsStale(g)' <=> IsStale(g))
  BY MarkMeans DEF IInv, Ranges, Moves, Known, IsStale


-----------------------------------------------------------------------------
(* The steps of the walk and of the sweep *)

LEMMA Proceeding ==
  ASSUME IInv, NEW i \in Ingests, NEW at, NEW todo, Proceed(i, at, todo),
         at \in {"next", "sweep"}, todo \in SUBSET Files
  PROVE  \E x \in Records :
           /\ ingest' = [ingest EXCEPT ![i] = x] /\ ingest'[i] = x
           /\ x.at = at /\ x.seen = ingest[i].seen /\ x.todo = todo
<1> DEFINE x == [Idle EXCEPT !.at = at, !.seen = ingest[i].seen, !.todo = todo]
<1>1. ingest[i] \in Records /\ at \in {"idle"} \cup Walks \cup Sweeps
  BY DEF IInv, Ranges, Walks, Sweeps
<1>2. x \in Records /\ x.at = at /\ x.seen = ingest[i].seen /\ x.todo = todo
  BY <1>1 DEF Idle, Records
<1>3. ingest' = [ingest EXCEPT ![i] = x]
  BY DEF Proceed
<1> HIDE DEF x
<1>4. ingest'[i] = x
  BY <1>3 DEF IInv, Ranges
<1> QED BY <1>2, <1>3, <1>4

\* Going on to the next file when no table is written.
LEMMA ProceedKeeps ==
  ASSUME IInv, NEW i \in Ingests, NEW at, NEW todo, Proceed(i, at, todo), Moves,
         todo \in SUBSET Files, ingest[i].at # "idle",
         \/ at = "next" /\ todo \subseteq ingest[i].seen
         \/ at = "sweep" /\ todo \cap ingest[i].seen = {}
  PROVE  IInv'
<1>1. PICK x \in Records :
        /\ ingest' = [ingest EXCEPT ![i] = x] /\ ingest'[i] = x
        /\ x.at = at /\ x.seen = ingest[i].seen /\ x.todo = todo
  BY Proceeding
<1>2. Places(i)' /\ Progress(i)'
  BY <1>1 DEF Places, Progress, OnFile, Walks, Sweeps
<1>3. RowIsStale(i)'
  <2>1. RowIsStale(i)
    BY DEF IInv, Running
  <2> QED BY <1>1, <2>1, MoveLeaves DEF RowIsStale
<1> QED BY <1>1, <1>2, <1>3, MoveKeeps

LEMMA BeginKeeps == ASSUME IInv, NEW i \in Ingests, Begin(i) PROVE IInv'
<1> DEFINE there == {f \in Files : file[f] # None}
           x == [Idle EXCEPT !.at = "next", !.seen = there, !.todo = there]
<1>1. x \in Records /\ x.at = "next" /\ x.seen = there /\ x.todo = there
  BY DEF Idle, Records, Walks
<1>2. ingest' = [ingest EXCEPT ![i] = x] /\ Moves
  BY DEF Begin
<1> HIDE DEF x
<1>3. ingest'[i] = x
  BY <1>2 DEF IInv, Ranges
<1>4. Places(i)' /\ Progress(i)'
  BY <1>1, <1>3 DEF Places, Progress, OnFile, Walks, Sweeps
<1>5. RowIsStale(i)'
  BY <1>1, <1>2, <1>3 DEF RowIsStale, IsStale, Moves
<1> QED BY <1>1, <1>2, <1>4, <1>5, MoveKeeps

LEMMA StatKeeps == ASSUME IInv, NEW i \in Ingests, Stat(i) PROVE IInv'
<1>1. PICK f \in ingest[i].todo :
        IF file[f] = None THEN Proceed(i, "next", ingest[i].todo \ {f})
        ELSE ingest' = [ingest EXCEPT ![i].todo = @ \ {f}, ![i].path = f,
                                      ![i].meta = file[f].mtime, ![i].at = "read"]
  BY DEF Stat
<1>2. ingest[i] \in Records /\ ingest[i].at = "next" /\ Places(i) /\ RowIsStale(i) /\ Moves
  BY DEF IInv, Ranges, Running, Stat, At
<1>3. f \in Files /\ f \in ingest[i].seen /\ ingest[i].todo \subseteq ingest[i].seen
      /\ ingest[i].todo \ {f} \in SUBSET Files
  BY <1>2 DEF Records, Places, Walks
<1>4. CASE file[f] = None
  BY <1>1, <1>2, <1>3, <1>4, ProceedKeeps
<1>5. CASE file[f] # None
  <2> DEFINE x == [ingest[i] EXCEPT !.todo = @ \ {f}, !.path = f, !.meta = file[f].mtime, !.at = "read"]
  <2>1. file[f] \in Written /\ file[f].mtime \in Times
    BY <1>3, <1>5 DEF IInv, Ranges, Times
  <2>2. x \in Records /\ x.seen = ingest[i].seen /\ x.todo \subseteq ingest[i].todo /\ x.path = f
        /\ x.meta = file[f].mtime /\ x.at = "read"
    BY <1>2, <1>3, <2>1 DEF Records, Walks, OnFile
  <2>3. ingest' = [ingest EXCEPT ![i] = x]
    BY <1>1, <1>5 DEF IInv, Ranges
  <2> HIDE DEF x
  <2>4. ingest'[i] = x
    BY <2>3 DEF IInv, Ranges
  <2>5. Places(i)'
    BY <1>3, <2>1, <2>2, <2>4 DEF Places, OnFile, Walks, Sweeps
  <2>6. Progress(i)'
    BY <2>2, <2>4 DEF Progress
  <2>7. RowIsStale(i)'
    BY <1>2, <1>3, <2>2, <2>4, MoveLeaves DEF RowIsStale
  <2> QED BY <1>2, <2>2, <2>3, <2>5, <2>6, <2>7, MoveKeeps
<1> QED BY <1>4, <1>5

LEMMA ReadKeeps == ASSUME IInv, NEW i \in Ingests, Read(i) PROVE IInv'
<1> DEFINE f == ingest[i].path
           skip == \/ file[f] = None \/ file[f].hash \in Unreadable
                   \/ Unchanged(f, file[f].hash, ingest[i].meta)
<1>1. ingest[i] \in Records /\ ingest[i].at = "read" /\ Places(i) /\ RowIsStale(i) /\ Moves
  BY DEF IInv, Ranges, Running, Read, At
<1>2. f \in Files /\ f \in ingest[i].seen /\ ingest[i].meta \in Times
      /\ ingest[i].todo \subseteq ingest[i].seen /\ ingest[i].todo \in SUBSET Files
  BY <1>1 DEF Records, Places, Walks, OnFile
<1>3. CASE skip
  <2>1. Proceed(i, "next", ingest[i].todo)
    BY <1>3 DEF Read
  <2> QED BY <1>1, <1>2, <2>1, ProceedKeeps
<1>4. CASE ~skip
  <2> DEFINE x == [ingest[i] EXCEPT !.ver = file[f].hash, !.ord = 1, !.at = "clear"]
  <2>1. file[f] \in [hash : Texts, mtime : Nat \ {0}]
    BY <1>2, <1>4, IndexConstants DEF IInv, Ranges
  <2>2. x \in Records /\ x.seen = ingest[i].seen /\ x.todo = ingest[i].todo /\ x.path = f
        /\ x.meta = ingest[i].meta /\ x.ver = file[f].hash /\ x.ord = 1 /\ x.at = "clear"
    BY <1>1, <2>1 DEF Records, Walks, OnFile
  <2>3. ingest' = [ingest EXCEPT ![i] = x]
    BY <1>4 DEF Read, IInv, Ranges
  <2>4. Known(f) => IsStale(f)
    <3> SUFFICES ASSUME Known(f), ~IsStale(f) PROVE Unchanged(f, file[f].hash, ingest[i].meta)
      BY <1>4
    <3>1. row[f] = file[f] /\ ingest[i].meta = file[f].mtime
      BY <1>1 DEF RowIsStale, IsStale
    <3>2. file[f] = [hash |-> file[f].hash, mtime |-> file[f].mtime]
      BY <2>1
    <3> QED BY <3>1, <3>2 DEF Unchanged
  <2> HIDE DEF x
  <2>5. ingest'[i] = x
    BY <2>3 DEF IInv, Ranges
  <2>6. Places(i)'
    BY <1>2, <2>1, <2>2, <2>5 DEF Places, OnFile, Walks, Sweeps
  <2>7. Progress(i)'
    BY <2>2, <2>5 DEF Progress
  <2>8. RowIsStale(i)'
    BY <1>1, <1>2, <2>2, <2>4, <2>5, MoveLeaves DEF RowIsStale
  <2> QED BY <1>1, <2>2, <2>3, <2>6, <2>7, <2>8, MoveKeeps
<1> QED BY <1>3, <1>4

LEMMA EmbedKeeps == ASSUME IInv, NEW i \in Ingests, Embed(i) PROVE IInv'
<1> DEFINE x == [ingest[i] EXCEPT !.at = "insert"]
<1>1. ingest[i] \in Records /\ ingest[i].at = "embed" /\ Places(i) /\ RowIsStale(i) /\ Progress(i) /\ Moves
  BY DEF IInv, Ranges, Running, Embed, At
<1>2. x \in Records /\ x.seen = ingest[i].seen /\ x.todo = ingest[i].todo /\ x.path = ingest[i].path
      /\ x.meta = ingest[i].meta /\ x.ver = ingest[i].ver /\ x.ord = ingest[i].ord /\ x.at = "insert"
  BY <1>1 DEF Records, Walks, OnFile
<1>3. ingest' = [ingest EXCEPT ![i] = x]
  BY DEF Embed, Goto, IInv, Ranges
<1> HIDE DEF x
<1>4. ingest'[i] = x
  BY <1>3 DEF IInv, Ranges
<1>5. Places(i)'
  BY <1>1, <1>2, <1>4 DEF Places, Walks, OnFile, Sweeps
<1>6. RowIsStale(i)'
  BY <1>1, <1>2, <1>4, MoveLeaves DEF RowIsStale
<1>7. ingest[i].path \in Files
  BY <1>1, WorkMeans DEF Working, OnFile
<1>8. Progress(i)'
  BY <1>1, <1>2, <1>4, <1>7, MoveLeaves DEF Progress, ChunksOf, Stored
<1> QED BY <1>1, <1>2, <1>3, <1>5, <1>6, <1>8, MoveKeeps

LEMMA ListedKeeps == ASSUME IInv, NEW i \in Ingests, Listed(i) PROVE IInv'
<1> DEFINE todo == {f \in Files : row[f] # None} \ ingest[i].seen
<1>1. Proceed(i, "sweep", todo) /\ Moves /\ ingest[i].at # "idle"
  BY DEF Listed, At
<1>2. todo \in SUBSET Files /\ todo \cap ingest[i].seen = {}
  OBVIOUS
<1> HIDE DEF todo
<1> QED BY <1>1, <1>2, ProceedKeeps

LEMMA SweepKeeps == ASSUME IInv, NEW i \in Ingests, Sweep(i) PROVE IInv'
<1>1. PICK f \in ingest[i].todo :
        ingest' = [ingest EXCEPT ![i].todo = @ \ {f}, ![i].path = f, ![i].at = "forget"]
  BY DEF Sweep
<1> DEFINE x == [ingest[i] EXCEPT !.todo = @ \ {f}, !.path = f, !.at = "forget"]
<1>2. ingest[i] \in Records /\ ingest[i].at = "sweep" /\ Places(i) /\ RowIsStale(i) /\ Moves
      /\ f \in Files \ ingest[i].seen
  BY DEF IInv, Ranges, Running, Sweep, At, Records, Places, Sweeps
<1>3. x \in Records /\ x.seen = ingest[i].seen /\ x.todo \subseteq ingest[i].todo /\ x.path = f
      /\ x.at = "forget"
  BY <1>2 DEF Records, Sweeps
<1>4. ingest' = [ingest EXCEPT ![i] = x]
  BY <1>1 DEF IInv, Ranges
<1> HIDE DEF x
<1>5. ingest'[i] = x
  BY <1>4 DEF IInv, Ranges
<1>6. Places(i)'
  BY <1>2, <1>3, <1>5 DEF Places, Walks, OnFile, Sweeps
<1>7. Progress(i)'
  BY <1>3, <1>5 DEF Progress
<1>8. RowIsStale(i)'
  BY <1>2, <1>3, <1>5, MoveLeaves DEF RowIsStale
<1> QED BY <1>2, <1>3, <1>4, <1>6, <1>7, <1>8, MoveKeeps

\* The end of an ingestion, by itself or in the middle.
LEMMA EndMeans ==
  ASSUME IInv, NEW i \in Ingests, End(i)
  PROVE  /\ Idle \in Records /\ ingest' = [ingest EXCEPT ![i] = Idle] /\ ingest'[i] = Idle
         /\ Idle.at = "idle" /\ (Places(i) /\ RowIsStale(i) /\ Progress(i))'
<1>1. Idle \in Records /\ ingest' = [ingest EXCEPT ![i] = Idle]
  BY DEF Idle, Records, End
<1>2. ingest'[i] = Idle
  BY <1>1 DEF IInv, Ranges
<1> QED BY <1>1, <1>2 DEF Idle, Places, RowIsStale, Progress, OnFile, Walks, Sweeps

LEMMA EndKeeps == ASSUME IInv, NEW i \in Ingests, Finish(i) \/ Fail(i) PROVE IInv'
BY EndMeans, MoveKeeps DEF Finish, Fail


-----------------------------------------------------------------------------
(* The steps that write the tables *)

\* What is left to show of such a step is what it makes of the file it is at.
LEMMA WriteKeeps ==
  ASSUME IInv, NEW i \in Ingests, NEW x \in Records, NEW f \in Files, NEW fresh \in SUBSET {f},
         AtWork(i, f), ingest' = [ingest EXCEPT ![i] = x], file' = file, Mark(fresh),
         f \in fresh => row'[f] = None /\ x.at # "idle",
         x.at # "idle" => x.seen = ingest[i].seen, x.at \notin {"read", "clear"},
         x.at = "cleared" => x.path = f,
         row' \in [Files -> Rows], chunk' \subseteq Chunk, restored' \subseteq Files,
         \A g \in Files \ {f} : /\ row'[g] = row[g] /\ ChunksOf(g)' = ChunksOf(g)
                                /\ g \in restored' <=> g \in restored,
         Places(i)', Progress(i)', Sound(f)',
         (x.at = "cleared" \/ f \notin x.seen) /\ x.at # "idle" /\ Known(f)' => IsStale(f)'
  PROVE  IInv'
<1>1. ~(\E g \in Files \ {f} : AtWork(i, g))
  BY DEF AtWork
<1>2. /\ mixed' \subseteq Files /\ Marked'
      /\ \A j \in Ingests \ {i} : (Places(j) /\ RowIsStale(j) /\ Progress(j))'
      /\ \A g \in Files : ~AtWork(i, g) => Sound(g)'
  <2>1. \A g \in Files : ~AtWork(i, g) =>
          /\ row'[g] = row[g] /\ ChunksOf(g)' = ChunksOf(g)
          /\ g \in restored' <=> g \in restored
    OBVIOUS
  <2>2. \A g \in fresh : g \in Files => AtWork(i, g) /\ row'[g] = None /\ x.at # "idle"
    OBVIOUS
  <2> QED BY <2>1, <2>2, OthersKeep
<1>3. \A g \in Files : Sound(g)'
  BY <1>1, <1>2
<1>4. Ranges'
  BY <1>2 DEF IInv, Ranges
<1>5. RowIsStale(i)'
  <2>1. ingest'[i] = x /\ RowIsStale(i) /\ ingest[i].at # "idle"
    BY DEF IInv, Ranges, Running, AtWork
  <2>2. ASSUME NEW g \in Files \ {f}, Known(g)' PROVE Known(g) /\ (IsStale(g) => IsStale(g)')
    <3>1. g \notin mixed
      BY <2>2, MarkMeans DEF IInv, Ranges, Known
    <3> QED BY <2>2, <3>1 DEF Known, IsStale
  <2>3. x.at # "idle" => \A g \in Files \ x.seen : Known(g)' => IsStale(g)'
    BY <2>1, <2>2 DEF RowIsStale
  <2> QED BY <2>1, <2>3 DEF RowIsStale
<1> QED BY <1>2, <1>3, <1>4, <1>5 DEF IInv, Running

\* Where an ingestion stands when it goes to another step.
LEMMA GoingOn ==
  ASSUME IInv, NEW i \in Ingests, NEW at, Goto(i, at), at \in Walks \cup Sweeps
  PROVE  \E x \in Records :
           /\ ingest' = [ingest EXCEPT ![i] = x] /\ ingest'[i] = x
           /\ x.seen = ingest[i].seen /\ x.todo = ingest[i].todo /\ x.path = ingest[i].path
           /\ x.meta = ingest[i].meta /\ x.ver = ingest[i].ver /\ x.ord = ingest[i].ord /\ x.at = at
<1> DEFINE x == [ingest[i] EXCEPT !.at = at]
<1>1. ingest[i] \in Records
  BY DEF IInv, Ranges
<1>2. x \in Records /\ x.seen = ingest[i].seen /\ x.todo = ingest[i].todo /\ x.path = ingest[i].path
      /\ x.meta = ingest[i].meta /\ x.ver = ingest[i].ver /\ x.ord = ingest[i].ord /\ x.at = at
  BY <1>1 DEF Records
<1>3. ingest' = [ingest EXCEPT ![i] = x]
  BY DEF Goto, IInv, Ranges
<1> HIDE DEF x
<1>4. ingest'[i] = x
  BY <1>3 DEF IInv, Ranges
<1> QED BY <1>2, <1>3, <1>4

\* The file an ingestion is at work at.
LEMMA Standing ==
  ASSUME IInv, NEW i \in Ingests, ingest[i].at \in Working
  PROVE  /\ ingest[i] \in Records /\ ingest[i].path \in Files /\ AtWork(i, ingest[i].path)
         /\ Places(i) /\ RowIsStale(i) /\ Progress(i)
BY WorkMeans DEF IInv, Ranges, Running

LEMMA ClearKeeps ==
  ASSUME IInv, NEW i \in Ingests, Clear(i) \/ Forget(i) PROVE IInv'
<1>0. PICK f \in Files : f = ingest[i].path
  BY Standing DEF Clear, Forget, At, Working, OnFile
<1> DEFINE next == IF ingest[i].at = "clear" THEN "cleared" ELSE "forgotten"
<1>1. /\ ingest[i].at \in {"clear", "forget"} /\ Goto(i, next)
      /\ chunk' = chunk \ ChunksOf(f) /\ UNCHANGED <<file, row, restored>> /\ Mark({})
  BY <1>0 DEF Clear, Forget, DeleteChunks, At
<1>2. ingest[i] \in Records /\ Places(i) /\ RowIsStale(i) /\ Progress(i) /\ AtWork(i, f)
  BY <1>0, <1>1, Standing DEF Working, OnFile
<1>3. PICK x \in Records :
        /\ ingest' = [ingest EXCEPT ![i] = x] /\ ingest'[i] = x
        /\ x.seen = ingest[i].seen /\ x.todo = ingest[i].todo /\ x.path = f
        /\ x.meta = ingest[i].meta /\ x.ver = ingest[i].ver /\ x.ord = ingest[i].ord /\ x.at = next
  BY <1>0, <1>1, GoingOn DEF OnFile, Walks, Sweeps
<1>4. ChunksOf(f)' = {} /\ \A g \in Files \ {f} : ChunksOf(g)' = ChunksOf(g)
  <2>1. \A g \in Files : ChunksOf(g)' = {c \in chunk' : c.path = g}
    BY DEF ChunksOf
  <2> QED BY <1>1, <1>2, <2>1 DEF ChunksOf
<1>5. Places(i)'
  BY <1>0, <1>1, <1>2, <1>3 DEF Places, OnFile, Walks, Sweeps
<1>6. Progress(i)'
  BY <1>1, <1>3, <1>4 DEF Progress
<1>7. Known(f)' => IsStale(f)'
  <2>1. Known(f)' => Known(f) /\ (IsStale(f) => IsStale(f)')
    BY <1>1, MarkMeans DEF IInv, Ranges, Known, IsStale
  <2>2. Known(f) => IsStale(f)
    BY <1>0, <1>1, <1>2 DEF RowIsStale, Places, Sweeps
  <2> QED BY <2>1, <2>2
<1>8. Sound(f)'
  BY <1>1, <1>4, <1>7 DEF Sound, RowIsTrue, OneText, Known, IsStale
<1>9. chunk' \subseteq Chunk /\ row' \in [Files -> Rows] /\ restored' \subseteq Files
  BY <1>1 DEF IInv, Ranges
<1>10. x.at \in {"cleared", "forgotten"}
  BY <1>3
<1> HIDE DEF next
<1> QED BY <1>1, <1>2, <1>3, <1>4, <1>5, <1>6, <1>7, <1>8, <1>9, <1>10, WriteKeeps

LEMMA ClearedKeeps ==
  ASSUME IInv, NEW i \in Ingests, Cleared(i) \/ Forgotten(i) PROVE IInv'
<1>0. PICK f \in Files : f = ingest[i].path
  BY Standing DEF Cleared, Forgotten, At, Working, OnFile
<1>1. PICK fresh \in SUBSET {f} :
        /\ Mark(fresh) /\ (f \in fresh => ChunksOf(f) = {})
        /\ row' = [row EXCEPT ![f] = None] /\ restored' = restored \ {f} /\ UNCHANGED <<file, chunk>>
        /\ ingest[i].at \in {"cleared", "forgotten"}
  <2>1. Mark(IF ChunksOf(f) = {} THEN {f} ELSE {})
    BY <1>0 DEF Cleared, Forgotten, DeleteRow
  <2>2. CASE ChunksOf(f) = {}
    BY <1>0, <2>1, <2>2 DEF Cleared, Forgotten, DeleteRow, At
  <2>3. CASE ChunksOf(f) # {}
    BY <1>0, <2>1, <2>3 DEF Cleared, Forgotten, DeleteRow, At
  <2> QED BY <2>2, <2>3
<1>2. ingest[i] \in Records /\ Places(i) /\ RowIsStale(i) /\ Progress(i) /\ AtWork(i, f)
  BY <1>0, <1>1, Standing DEF Working, OnFile
<1>3. \A g \in Files : ChunksOf(g)' = ChunksOf(g)
  BY <1>1 DEF ChunksOf
<1>4. /\ row' \in [Files -> Rows] /\ chunk' \subseteq Chunk /\ restored' \subseteq Files
      /\ row'[f] = None /\ \A g \in Files \ {f} : row'[g] = row[g]
  BY <1>1 DEF IInv, Ranges, Rows
<1>5. f \notin mixed' => ChunksOf(f) = {}
  <2>1. f \notin mixed' => f \notin mixed \/ f \in fresh
    BY <1>1, MarkMeans DEF IInv, Ranges
  <2> QED BY <1>0, <1>1, <1>2, <2>1 DEF Progress
<1>6. Sound(f)' /\ IsStale(f)'
  BY <1>3, <1>4, <1>5 DEF Sound, RowIsTrue, OneText, IsStale
<1>7. ASSUME NEW x \in Records, ingest' = [ingest EXCEPT ![i] = x],
             x.at \in {"next", "embed", "sweep"}, x.seen = ingest[i].seen, Places(i)', Progress(i)'
      PROVE  IInv'
  BY <1>1, <1>2, <1>3, <1>4, <1>6, <1>7, WriteKeeps
<1>8. CASE Cleared(i) /\ Pieces[ingest[i].ver] # 0
  <2>1. PICK x \in Records :
          /\ ingest' = [ingest EXCEPT ![i] = x] /\ ingest'[i] = x
          /\ x.seen = ingest[i].seen /\ x.todo = ingest[i].todo /\ x.path = f
          /\ x.meta = ingest[i].meta /\ x.ver = ingest[i].ver /\ x.ord = ingest[i].ord /\ x.at = "embed"
    BY <1>0, <1>8, GoingOn DEF Cleared, OnFile, Walks
  <2>2. ingest[i].at = "cleared" /\ x.ver \in Texts /\ x.ord = 1
    BY <1>2, <1>8, <2>1 DEF Cleared, At, Places, OnFile
  <2>3. Pieces[x.ver] \in Nat \ {0}
    BY <1>8, <2>1, <2>2, IndexConstants
  <2>4. x.ord \in 1..Pieces[x.ver] /\ Stored(i, f, x.ver, x.ord - 1) = {}
    BY <2>2, <2>3 DEF Stored
  <2>5. Places(i)'
    BY <1>0, <1>2, <2>1, <2>2, <2>4 DEF Places, OnFile, Walks, Sweeps
  <2>6. Progress(i)'
    <3>1. f \notin mixed' => ChunksOf(f)' = Stored(i, f, x.ver, x.ord - 1)
      BY <1>3, <1>5, <2>4
    <3> QED BY <1>4, <2>1, <3>1 DEF Progress, Stored, ChunksOf
  <2> QED BY <1>7, <2>1, <2>5, <2>6
<1>9. CASE (Cleared(i) /\ Pieces[ingest[i].ver] = 0) \/ Forgotten(i)
  <2>1. PICK at \in {"next", "sweep"} :
          /\ Proceed(i, at, ingest[i].todo)
          /\ \/ at = "next" /\ ingest[i].at = "cleared"
             \/ at = "sweep" /\ ingest[i].at = "forgotten"
    BY <1>9 DEF Cleared, Forgotten, At
  <2>2. ingest[i].todo \in SUBSET Files
    BY <1>2 DEF Records
  <2>3. PICK x \in Records :
          /\ ingest' = [ingest EXCEPT ![i] = x] /\ ingest'[i] = x
          /\ x.at = at /\ x.seen = ingest[i].seen /\ x.todo = ingest[i].todo
    BY <2>1, <2>2, Proceeding
  <2>4. Places(i)' /\ Progress(i)'
    BY <1>2, <2>1, <2>3 DEF Places, Progress, OnFile, Walks, Sweeps
  <2> QED BY <1>7, <2>3, <2>4
<1> QED BY <1>8, <1>9 DEF Cleared


LEMMA InsertChunkKeeps ==
  ASSUME IInv, NEW i \in Ingests, InsertChunk(i) PROVE IInv'
<1>0. PICK f \in Files : f = ingest[i].path
  BY Standing DEF InsertChunk, At, Working, OnFile
<1>1. ingest[i].at = "insert" /\ UNCHANGED <<file, row, restored>> /\ Mark({})
  BY DEF InsertChunk, At
<1>2. ingest[i] \in Records /\ Places(i) /\ RowIsStale(i) /\ Progress(i) /\ AtWork(i, f)
  BY <1>0, <1>1, Standing DEF Working, OnFile
<1>3. CASE Clashes(i)
  <2>1. End(i) /\ Moves
    BY <1>1, <1>3 DEF InsertChunk, Moves
  <2> QED BY <2>1, EndMeans, MoveKeeps
<1>4. CASE ~Clashes(i)
  <2> DEFINE c0 == [path |-> f, ord |-> ingest[i].ord, ver |-> ingest[i].ver, by |-> i, vec |-> FALSE]
  <2>1. Goto(i, "vector") /\ chunk' = chunk \cup {c0}
    BY <1>0, <1>4 DEF InsertChunk
  <2>2. PICK x \in Records :
          /\ ingest' = [ingest EXCEPT ![i] = x] /\ ingest'[i] = x
          /\ x.seen = ingest[i].seen /\ x.todo = ingest[i].todo /\ x.path = f
          /\ x.meta = ingest[i].meta /\ x.ver = ingest[i].ver /\ x.ord = ingest[i].ord /\ x.at = "vector"
    BY <1>0, <2>1, GoingOn DEF OnFile, Walks
  <2>3. x.ver \in Texts /\ x.ord \in 1..Pieces[x.ver] /\ f \in x.seen
    BY <1>0, <1>1, <1>2, <2>2 DEF Places, OnFile
  <2>4. f \notin mixed' =>
          f \notin mixed /\ row[f] = None /\ ChunksOf(f) = Stored(i, f, x.ver, x.ord - 1)
    BY <1>0, <1>1, <1>2, <2>2, MarkMeans DEF Progress, IInv, Ranges
  <2>5. c0 \in Chunk
    <3>1. x.ord \in Nat
      BY DEF Records
    <3> QED BY <2>2, <2>3, <3>1 DEF Chunk
  <2>6. /\ ChunksOf(f)' = ChunksOf(f) \cup {c0}
        /\ \A g \in Files \ {f} : ChunksOf(g)' = ChunksOf(g)
    <3>1. c0.path = f
      OBVIOUS
    <3> HIDE DEF c0
    <3> QED BY <2>1, <3>1 DEF ChunksOf
  <2>7. Places(i)'
    BY <1>0, <1>1, <1>2, <2>2, <2>3 DEF Places, OnFile, Walks, Sweeps
  <2>8. Progress(i)'
    <3>1. f \notin mixed' => ChunksOf(f)' = Stored(i, f, x.ver, x.ord - 1) \cup
            {[path |-> f, ord |-> x.ord, ver |-> x.ver, by |-> i, vec |-> FALSE]}
      BY <2>2, <2>4, <2>6
    <3> HIDE DEF c0
    <3> QED BY <1>1, <2>2, <2>4, <3>1 DEF Progress, Stored, ChunksOf
  <2>9. Sound(f)'
    <3>1. f \notin mixed' => ChunksOf(f)' = Stored(i, f, x.ver, x.ord - 1) \cup {c0}
      BY <2>4, <2>6
    <3>2. f \notin mixed' => OneText(f)'
      BY <2>2, <3>1 DEF OneText, Stored
    <3> QED BY <1>1, <2>4, <3>2 DEF Sound, RowIsTrue
  <2>10. /\ row' \in [Files -> Rows] /\ chunk' \subseteq Chunk /\ restored' \subseteq Files
         /\ row' = row /\ file' = file /\ restored' = restored
    BY <1>1, <2>1, <2>5 DEF IInv, Ranges
  <2> HIDE DEF c0
  <2> QED BY <1>1, <1>2, <2>2, <2>3, <2>6, <2>7, <2>8, <2>9, <2>10, WriteKeeps
<1> QED BY <1>3, <1>4

LEMMA RecordKeeps ==
  ASSUME IInv, NEW i \in Ingests, Record(i) PROVE IInv'
<1>0. PICK f \in Files : f = ingest[i].path
  BY Standing DEF Record, At, Working, OnFile
<1> DEFINE r == [hash |-> ingest[i].ver, mtime |-> ingest[i].meta]
<1>1. /\ ingest[i].at = "record" /\ Proceed(i, "next", ingest[i].todo) /\ row' = [row EXCEPT ![f] = r]
      /\ UNCHANGED <<file, chunk, restored>> /\ Mark({})
  BY <1>0 DEF Record, At
<1>2. ingest[i] \in Records /\ Places(i) /\ RowIsStale(i) /\ Progress(i) /\ AtWork(i, f)
  BY <1>0, <1>1, Standing DEF Working, OnFile
<1>3. ingest[i].todo \in SUBSET Files
  BY <1>2 DEF Records
<1>4. PICK x \in Records :
        /\ ingest' = [ingest EXCEPT ![i] = x] /\ ingest'[i] = x
        /\ x.at = "next" /\ x.seen = ingest[i].seen /\ x.todo = ingest[i].todo
  BY <1>1, <1>3, Proceeding
<1>5. r \in Rows /\ r.hash = ingest[i].ver /\ f \in x.seen
  BY <1>0, <1>1, <1>2, <1>4 DEF Places, OnFile, Rows
<1>6. f \notin mixed' =>
        f \notin mixed /\ ChunksOf(f) = Stored(i, f, r.hash, Pieces[r.hash])
  BY <1>0, <1>1, <1>2, MarkMeans DEF Progress, IInv, Ranges
<1>7. /\ row' \in [Files -> Rows] /\ chunk' \subseteq Chunk /\ restored' \subseteq Files
      /\ row'[f] = r /\ \A g \in Files \ {f} : row'[g] = row[g]
  BY <1>1, <1>5 DEF IInv, Ranges
<1>8. Places(i)' /\ Progress(i)'
  BY <1>1, <1>2, <1>4 DEF Places, Progress, OnFile, Walks, Sweeps
<1> HIDE DEF r
<1>9. \A g \in Files : ChunksOf(g)' = ChunksOf(g)
  BY <1>1 DEF ChunksOf
<1>10. Sound(f)'
  <2> SUFFICES ASSUME f \notin mixed' PROVE (RowIsTrue(f) /\ OneText(f))'
    BY DEF Sound
  <2>1. ChunksOf(f)' = Stored(i, f, r.hash, Pieces[r.hash])
    BY <1>6, <1>9
  <2>2. All(row[f].hash)' = {<<n, r.hash>> : n \in 1..Pieces[r.hash]}
    BY <1>7 DEF All
  <2>3. \A c \in ChunksOf(f)' : c.vec /\ c.ver = r.hash
    BY <2>1 DEF Stored
  <2>4. Found(f)' = {<<c.ord, c.ver>> : c \in Stored(i, f, r.hash, Pieces[r.hash])}
    BY <2>1, <2>3 DEF Found
  <2>5. Found(f)' = {<<n, r.hash>> : n \in 1..Pieces[r.hash]}
    <3> DEFINE n == Pieces[r.hash]
               c(k) == [path |-> f, ord |-> k, ver |-> r.hash, by |-> i, vec |-> TRUE]
    <3>1. \A k \in 1..n : c(k) \in Stored(i, f, r.hash, n) /\ c(k).ord = k /\ c(k).ver = r.hash
      BY DEF Stored
    <3>2. \A d \in Stored(i, f, r.hash, n) : \E k \in 1..n : d = c(k)
      BY DEF Stored
    <3> HIDE DEF c, n
    <3>3. \A d \in Stored(i, f, r.hash, n) : d.ord \in 1..n /\ d.ver = r.hash
      BY <3>1, <3>2
    <3>4. {<<d.ord, d.ver>> : d \in Stored(i, f, r.hash, n)} = {<<k, r.hash>> : k \in 1..n}
      BY <3>1, <3>3
    <3> QED BY <2>4, <3>4 DEF n
  <2> QED BY <2>2, <2>3, <2>5 DEF RowIsTrue, OneText
<1> QED BY <1>1, <1>2, <1>4, <1>5, <1>7, <1>8, <1>9, <1>10, WriteKeeps

LEMMA InsertVectorKeeps ==
  ASSUME IInv, NEW i \in Ingests, InsertVector(i) PROVE IInv'
<1>0. PICK f \in Files : f = ingest[i].path
  BY Standing DEF InsertVector, At, Working, OnFile
<1>1. ingest[i].at = "vector" /\ UNCHANGED <<file, row, restored>> /\ Mark({})
  BY DEF InsertVector, At
<1>2. ingest[i] \in Records /\ Places(i) /\ RowIsStale(i) /\ Progress(i) /\ AtWork(i, f)
  BY <1>0, <1>1, Standing DEF Working, OnFile
<1>3. CASE chunk' = chunk /\ End(i)
  <2>1. End(i) /\ Moves
    BY <1>1, <1>3 DEF Moves
  <2> QED BY <2>1, EndMeans, MoveKeeps
<1>4. CASE \E c \in Mine(i) :
             /\ chunk' = (chunk \ {c}) \cup {[c EXCEPT !.vec = TRUE]}
             /\ ingest' = [ingest EXCEPT ![i].ord = @ + 1,
                                         ![i].at = AfterVector(ingest[i].ord, Pieces[ingest[i].ver])]
  <2>1. PICK c \in Mine(i) :
             /\ chunk' = (chunk \ {c}) \cup {[c EXCEPT !.vec = TRUE]}
             /\ ingest' = [ingest EXCEPT ![i].ord = @ + 1,
                                         ![i].at = AfterVector(ingest[i].ord, Pieces[ingest[i].ver])]
    BY <1>4
  <2> DEFINE v == ingest[i].ver
             n == ingest[i].ord
             at == AfterVector(n, Pieces[v])
             x == [ingest[i] EXCEPT !.ord = n + 1, !.at = at]
             c1 == [c EXCEPT !.vec = TRUE]
  <2>2. v \in Texts /\ n \in 1..Pieces[v] /\ f \in ingest[i].seen
    BY <1>0, <1>1, <1>2 DEF Places, OnFile
  <2>3. Pieces[v] \in Nat /\ n \in Nat \ {0}
    <3>1. PICK w \in Texts : w = v
      BY <2>2
    <3>2. Pieces[w] \in Nat /\ n \in 1..Pieces[w]
      BY <2>2, <3>1, IndexConstants
    <3> HIDE DEF n, v
    <3> QED BY <3>1, <3>2
  <2>4. /\ n = Pieces[v] => at = "record"
        /\ n # Pieces[v] => at \in {"insert", "embed"} /\ n + 1 \in 1..Pieces[v]
    <3>1. n # Pieces[v] => n + 1 \in 1..Pieces[v]
      BY <2>2, <2>3
    <3> QED BY <3>1 DEF AfterVector
  <2>5. at \in {"record", "insert", "embed"}
    BY <2>4
  <2>6. /\ x \in Records /\ x.seen = ingest[i].seen /\ x.todo = ingest[i].todo /\ x.path = f
        /\ x.meta = ingest[i].meta /\ x.ver = v /\ x.ord = n + 1 /\ x.at = at
    <3>1. at \in {"idle"} \cup Walks \cup Sweeps /\ n + 1 \in Nat
      BY <2>3, <2>5 DEF Walks, OnFile
    <3> HIDE DEF at
    <3> QED BY <1>0, <1>2, <3>1 DEF Records
  <2>7. ingest' = [ingest EXCEPT ![i] = x]
    BY <2>1 DEF IInv, Ranges
  <2>8. c \in Chunk /\ c.path = f /\ c.ord = n
    BY <1>0 DEF Mine, IInv, Ranges
  <2>9. c1 \in Chunk /\ c1.path = f /\ c1.ord = n /\ c1.ver = c.ver /\ c1.by = c.by /\ c1.vec = TRUE
    BY <2>8 DEF Chunk
  <2> HIDE DEF c1
  <2>10. chunk' = (chunk \ {c}) \cup {c1}
    BY <2>1 DEF c1
  <2>11. /\ ChunksOf(f)' = (ChunksOf(f) \ {c}) \cup {c1}
         /\ \A g \in Files \ {f} : ChunksOf(g)' = ChunksOf(g)
    BY <2>8, <2>9, <2>10 DEF ChunksOf
  <2>12. chunk' \subseteq Chunk
    BY <2>9, <2>10 DEF IInv, Ranges
  <2>13. f \notin mixed' => row[f] = None /\ ChunksOf(f)' = Stored(i, f, v, n)
    <3> SUFFICES ASSUME f \notin mixed' PROVE row[f] = None /\ ChunksOf(f)' = Stored(i, f, v, n)
      OBVIOUS
    <3> DEFINE d0 == [path |-> f, ord |-> n, ver |-> v, by |-> i, vec |-> FALSE]
               d1 == [path |-> f, ord |-> n, ver |-> v, by |-> i, vec |-> TRUE]
    <3>1. f \notin mixed /\ row[f] = None /\ ChunksOf(f) = Stored(i, f, v, n - 1) \cup {d0}
      BY <1>0, <1>1, <1>2, MarkMeans DEF Progress, IInv, Ranges
    <3>2. d0 \notin Stored(i, f, v, n - 1)
      BY DEF Stored
    <3>3. c = d0
      <4>1. c \in ChunksOf(f)
        BY <2>8 DEF Mine, ChunksOf
      <4>2. c \notin Stored(i, f, v, n - 1)
        BY <2>3, <2>8 DEF Stored
      <4> QED BY <3>1, <4>1, <4>2
    <3>4. c1 = d1
      <4>1. c1 = [path |-> c1.path, ord |-> c1.ord, ver |-> c1.ver, by |-> c1.by, vec |-> c1.vec]
        BY <2>9 DEF Chunk
      <4>2. c.ver = v /\ c.by = i
        BY <3>3
      <4> HIDE DEF n, v
      <4> QED BY <2>9, <4>1, <4>2
    <3>5. Stored(i, f, v, n) = Stored(i, f, v, n - 1) \cup {d1}
      <4>1. 1..n = (1..(n - 1)) \cup {n}
        BY <2>3
      <4> HIDE DEF n, v
      <4> QED BY <4>1 DEF Stored
    <3> HIDE DEF d0, d1
    <3> QED BY <2>11, <3>1, <3>2, <3>3, <3>4, <3>5
  <2> HIDE DEF at, x
  <2>14. ingest'[i] = x
    BY <2>7 DEF IInv, Ranges
  <2>15. PICK m \in Nat, w \in Texts : m = n /\ w = v
    BY <2>2, <2>3
  <2>16. Places(i)'
    <3>1. w \in Texts /\ x.ver = w /\ x.ord = m + 1 /\ f \in x.seen /\ x.path = f
          /\ x.meta \in Times /\ x.todo \subseteq x.seen
      BY <1>1, <1>2, <2>2, <2>6, <2>15 DEF Places, OnFile, Walks
    <3>2. x.at \in {"insert", "embed"} => x.ord \in 1..Pieces[x.ver]
      BY <2>4, <2>6, <2>15
    <3> HIDE DEF n, v
    <3> QED BY <2>5, <2>6, <2>14, <3>1, <3>2 DEF Places, OnFile, Walks, Sweeps
  <2>17. Progress(i)'
    <3> SUFFICES ASSUME f \notin mixed' PROVE Progress(i)'
      BY <2>6, <2>14 DEF Progress
    <3>1. x.path = f /\ x.ver = w /\ x.ord = m + 1 /\ x.ord - 1 = m
          /\ ChunksOf(f)' = Stored(i, f, w, m) /\ row'[f] = None
      BY <1>1, <2>6, <2>13, <2>15
    <3>2. x.at = at /\ (m = Pieces[w] => at = "record") /\ (m # Pieces[w] => at \in {"insert", "embed"})
      BY <2>4, <2>6, <2>15
    <3> HIDE DEF n, v
    <3>3. CASE m = Pieces[w]
      BY <2>14, <3>1, <3>2, <3>3 DEF Progress, ChunksOf, Stored
    <3>4. CASE m # Pieces[w]
      BY <2>14, <3>1, <3>2, <3>4 DEF Progress, ChunksOf, Stored
    <3> QED BY <3>3, <3>4
  <2>18. Sound(f)'
    BY <1>1, <2>13 DEF Sound, RowIsTrue, OneText, Stored
  <2>19. /\ row' \in [Files -> Rows] /\ restored' \subseteq Files
         /\ row' = row /\ file' = file /\ restored' = restored
    BY <1>1 DEF IInv, Ranges
  <2>20. x.at \notin {"read", "clear", "cleared", "idle"} /\ f \in x.seen
    BY <2>2, <2>5, <2>6
  <2> QED BY <1>1, <1>2, <2>6, <2>7, <2>11, <2>12, <2>16, <2>17, <2>18, <2>19, <2>20, WriteKeeps
<1> QED BY <1>3, <1>4 DEF InsertVector

-----------------------------------------------------------------------------
\* The invariant of any number of ingestions.
LEMMA Invariance == Spec => []IInv
<1>1. Init => IInv
  BY InitIInv
<1>2. IInv /\ [Next]_vars => IInv'
  <2> SUFFICES ASSUME IInv, [Next]_vars PROVE IInv'
    OBVIOUS
  <2>1. CASE Edit
    BY <2>1, EditKeeps
  <2>2. ASSUME NEW i \in Ingests, Step(i) \/ Fail(i) PROVE IInv'
    BY <2>2, BeginKeeps, StatKeeps, ReadKeeps, ClearKeeps, ClearedKeeps, EmbedKeeps,
       InsertChunkKeeps, InsertVectorKeeps, RecordKeeps, ListedKeeps, SweepKeeps, EndKeeps DEF Step
  <2>3. CASE UNCHANGED vars
    BY <2>3 DEF vars, IInv, Ranges, Places, Marked, Overlaps, AtWork, At, Running, RowIsStale, Known,
                IsStale, Progress, Stored, Sound, RowIsTrue, OneText, Found, All, ChunksOf
  <2> QED BY <2>1, <2>2, <2>3 DEF Next
<1> QED BY <1>1, <1>2, PTL DEF Spec

\* Files, tables and walks keep their types: each statement of db.rs and each step of
\* run_ingest writes rows and chunks of known files and texts only.
THEOREM TypeCorrect == Spec => []TypeOK
<1>1. IInv => TypeOK
  BY DEF IInv, Ranges, TypeOK, Records, Rows
<1> QED BY <1>1, Invariance, PTL

\* A row vouches for the chunks of its text (file_is_unchanged of db.rs), wherever an
\* ingestion ended, whatever became of the file, and whatever ingestions ran beside it
\* at other files.
THEOREM RowsAreTrue == Spec => []RowsTellTheTruth
<1>1. IInv => RowsTellTheTruth
  BY DEF IInv, Sound, RowIsTrue, RowsTellTheTruth
<1> QED BY <1>1, Invariance, PTL

\* A search never sees two texts of one file (load_all_indexed of db.rs), unless two
\* ingestions were at work at it at once.
THEOREM TextsAreNotMixed == Spec => []OneVersionIsFound
<1>1. IInv => OneVersionIsFound
  <2> SUFFICES ASSUME IInv, NEW c \in chunk, NEW d \in chunk, c.path = d.path, c.path \notin mixed
               PROVE  c.ver = d.ver
    BY DEF OneVersionIsFound
  <2>1. c.path \in Files /\ c \in ChunksOf(c.path) /\ d \in ChunksOf(c.path)
    BY DEF IInv, Ranges, Chunk, ChunksOf
  <2> QED BY <2>1 DEF IInv, Sound, OneText
<1> QED BY <1>1, Invariance, PTL

===============================================================================
