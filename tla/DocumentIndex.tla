----------------------------- MODULE DocumentIndex -----------------------------
(***************************************************************************)
(* The index of documents of claw-rag-service (ingest.rs, db.rs,           *)
(* search.rs): an ingestion walks the files, leaves alone those whose row  *)
(* is up to date, and replaces the chunks of the others; then it forgets   *)
(* the files that are gone.  Every statement is a transaction of its own,  *)
(* so an ingestion that ends early leaves what it has done.  Files change  *)
(* while an ingestion runs, and a second one may run on the same database  *)
(* (desktop/src/commands.rs does not end that of a cancelled turn).        *)
(*                                                                         *)
(* The text of a file is abstracted to a number, which stands for its      *)
(* hash; its size goes with its time of modification.                      *)
(***************************************************************************)
EXTENDS Naturals

CONSTANTS
  Files,       \* files, in the order of their keys
  Pieces,      \* chunk_text: how many chunks a text gives
  Unreadable,  \* texts that are not UTF-8, or that may not be read
  Written,     \* what a file may be: a text and a time of modification
  Ingests,     \* ingestions that may run at once
  BatchSize    \* EMBED_BATCH: chunks sent to the embedding model at once

Texts == DOMAIN Pieces

ASSUME IndexConstants ==
  /\ Files \subseteq Nat \ {0} /\ BatchSize \in Nat \ {0}
  /\ Texts \subseteq Nat \ {0} /\ Written \subseteq [hash : Texts, mtime : Nat \ {0}]
  /\ \A v \in Texts : Pieces[v] \in Nat

VARIABLES
  file,    \* the text of each file and its time of modification
  row,     \* table files: the text and the time recorded for a file
  chunk,   \* tables chunks and embeddings
  ingest   \* the ingestions

\* History, which no guard reads.
VARIABLES
  mixed,    \* files at which an ingestion was at work beside another one
  restored  \* files put back, text, size and time, as their row says

vars == <<file, row, chunk, ingest, mixed, restored>>

\* No file, and no row.
None == [hash |-> 0, mtime |-> 0]

\* Times of modification.
Times == {w.mtime : w \in Written}

\* A row of chunks: its path and ordinal are unique, by stands for its id, and vec tells
\* whether it has a row in embeddings.
Chunk == [path : Files, ord : Nat, ver : Texts, by : Ingests, vec : BOOLEAN]

Idle == [at |-> "idle", seen |-> {}, todo |-> {}, path |-> 0, meta |-> 0, ver |-> 0, ord |-> 0]

Init ==
  /\ file = [f \in Files |-> None] /\ row = [f \in Files |-> None] /\ chunk = {}
  /\ ingest = [i \in Ingests |-> Idle]
  /\ mixed = {} /\ restored = {}

\* Only chunks with a vector, as a search sees them.
ChunksOf_FaultySearchable(f) == {c \in chunk : c.path = f /\ c.vec}

ChunksOf(f) == {c \in chunk : c.path = f}

At(i, at) == ingest[i].at = at

Goto(i, at) == ingest' = [ingest EXCEPT ![i].at = at]

\* On to the next file of the walk or of the sweep, or to the end.
Proceed(i, at, todo) ==
  ingest' = [ingest EXCEPT ![i] = [Idle EXCEPT !.at = at, !.seen = ingest[i].seen, !.todo = todo]]

End(i) == ingest' = [ingest EXCEPT ![i] = Idle]

\* From the decision to delete what is stored of a file to its new row.
AtWork(i, f) ==
  /\ ingest[i].path = f
  /\ ingest[i].at \in {"clear", "cleared", "embed", "insert", "vector", "record", "forget", "forgotten"}

Overlaps(f) == \E i, j \in Ingests : i # j /\ AtWork(i, f) /\ ~At(j, "idle")

\* What was mixed is so no more when nothing is left of it.
Mark(fresh) == mixed' = (mixed \ fresh) \cup {f \in Files : Overlaps(f)'}

-----------------------------------------------------------------------------
(* The files *)

\* A file is written, given another time, moved away or put back.
Edit ==
  /\ \E f \in Files, v \in Written \cup {None} :
       /\ v # file[f]
       /\ file' = [file EXCEPT ![f] = v]
       /\ restored' = IF v = row[f] THEN restored \cup {f} ELSE restored
  /\ UNCHANGED <<row, chunk, ingest>> /\ Mark({})

-----------------------------------------------------------------------------
(* run_ingest *)

\* A step of an ingestion that writes no table.
Moves == Mark({}) /\ UNCHANGED <<file, row, chunk, restored>>

\* The walk over the workspaces.
Begin(i) ==
  /\ At(i, "idle")
  /\ LET there == {f \in Files : file[f] # None} IN
       ingest' = [ingest EXCEPT ![i] = [Idle EXCEPT !.at = "next", !.seen = there, !.todo = there]]
  /\ Moves

\* The metadata of the next file; a file that is gone is passed over.
Stat(i) ==
  /\ At(i, "next")
  /\ \E f \in ingest[i].todo :
       /\ \A g \in ingest[i].todo : f <= g
       /\ IF file[f] = None THEN Proceed(i, "next", ingest[i].todo \ {f})
          ELSE ingest' = [ingest EXCEPT ![i].todo = @ \ {f}, ![i].path = f,
                                        ![i].meta = file[f].mtime, ![i].at = "read"]
  /\ Moves

\* The time of modification is not compared.
Unchanged_FaultyPathOnly(f, hash, mtime) == row[f] # None

\* file_is_unchanged
Unchanged(f, hash, mtime) == row[f] = [hash |-> hash, mtime |-> mtime]

\* read_to_string of the file as it is now, perhaps younger than its metadata; one that is
\* gone, or whose text cannot be read, is passed over too, and stays one the walk has seen.
Read(i) ==
  /\ At(i, "read")
  /\ LET f == ingest[i].path IN
       IF \/ file[f] = None \/ file[f].hash \in Unreadable
          \/ Unchanged(f, file[f].hash, ingest[i].meta)
       THEN Proceed(i, "next", ingest[i].todo)
       ELSE ingest' = [ingest EXCEPT ![i].ver = file[f].hash, ![i].ord = 1, ![i].at = "clear"]
  /\ Moves

\* delete_file_and_chunks: the chunks, with their embeddings, and then the row.
DeleteChunks(i, next) ==
  /\ chunk' = chunk \ ChunksOf(ingest[i].path) /\ Goto(i, next)
  /\ Mark({}) /\ UNCHANGED <<file, row, restored>>

DeleteRow(i) ==
  /\ row' = [row EXCEPT ![ingest[i].path] = None] /\ restored' = restored \ {ingest[i].path}
  /\ Mark(IF ChunksOf(ingest[i].path) = {} THEN {ingest[i].path} ELSE {})
  /\ UNCHANGED <<file, chunk>>

Clear(i)   == At(i, "clear") /\ DeleteChunks(i, "cleared")
\* A text without chunks gets no row.
Cleared(i) ==
  /\ At(i, "cleared")
  /\ IF Pieces[ingest[i].ver] = 0 THEN Proceed(i, "next", ingest[i].todo) ELSE Goto(i, "embed")
  /\ DeleteRow(i)

\* embed_batch: the vectors of the next chunks, which the model may fail to give.
Embed(i) == At(i, "embed") /\ Goto(i, "insert") /\ Moves

Clashes(i) == \E c \in chunk : c.path = ingest[i].path /\ c.ord = ingest[i].ord

\* insert_chunk; path and ordinal are unique, and an error ends the ingestion.
InsertChunk(i) ==
  /\ At(i, "insert")
  /\ IF Clashes(i) THEN chunk' = chunk /\ End(i)
     ELSE /\ chunk' = chunk \cup {[path |-> ingest[i].path, ord |-> ingest[i].ord,
                                    ver |-> ingest[i].ver, by |-> i, vec |-> FALSE]}
          /\ Goto(i, "vector")
  /\ Mark({}) /\ UNCHANGED <<file, row, restored>>

\* The row is written before the last batch is.
AfterVector_FaultyEarlyRow(ord, all) ==
  IF ord % BatchSize = 0 \/ ord = all THEN "record" ELSE "insert"

\* The rest of the batch, the next batch, or the row of the file.
AfterVector(ord, all) ==
  IF ord = all THEN "record" ELSE IF ord % BatchSize = 0 THEN "embed" ELSE "insert"

Mine(i) == {c \in chunk : c.path = ingest[i].path /\ c.ord = ingest[i].ord /\ c.by = i}

\* insert_embedding, which refers to a chunk that must still be there.
InsertVector(i) ==
  /\ At(i, "vector")
  /\ \/ /\ Mine(i) = {} /\ chunk' = chunk /\ End(i)
     \/ /\ \E c \in Mine(i) : chunk' = (chunk \ {c}) \cup {[c EXCEPT !.vec = TRUE]}
        /\ ingest' = [ingest EXCEPT ![i].ord = @ + 1,
                                    ![i].at = AfterVector(ingest[i].ord, Pieces[ingest[i].ver])]
  /\ Mark({}) /\ UNCHANGED <<file, row, restored>>

\* upsert_file_meta
Record(i) ==
  /\ At(i, "record")
  /\ row' = [row EXCEPT ![ingest[i].path] = [hash |-> ingest[i].ver, mtime |-> ingest[i].meta]]
  /\ Proceed(i, "next", ingest[i].todo)
  /\ Mark({}) /\ UNCHANGED <<file, chunk, restored>>

\* The walk is over: the files with a row that it has not seen.
Listed(i) ==
  /\ At(i, "next") /\ ingest[i].todo = {}
  /\ Proceed(i, "sweep", {f \in Files : row[f] # None} \ ingest[i].seen)
  /\ Moves

Sweep(i) ==
  /\ At(i, "sweep")
  /\ \E f \in ingest[i].todo :
       ingest' = [ingest EXCEPT ![i].todo = @ \ {f}, ![i].path = f, ![i].at = "forget"]
  /\ Moves

Forget(i)    == At(i, "forget") /\ DeleteChunks(i, "forgotten")
Forgotten(i) == At(i, "forgotten") /\ Proceed(i, "sweep", ingest[i].todo) /\ DeleteRow(i)

Finish(i) == At(i, "sweep") /\ ingest[i].todo = {} /\ End(i) /\ Moves

\* A crash, or an error of the embedding model, of the database or of the walk.
Fail(i) == ~At(i, "idle") /\ ~(At(i, "sweep") /\ ingest[i].todo = {}) /\ End(i) /\ Moves

Step(i) ==
  \/ Begin(i) \/ Stat(i) \/ Read(i) \/ Clear(i) \/ Cleared(i)
  \/ Embed(i) \/ InsertChunk(i) \/ InsertVector(i) \/ Record(i)
  \/ Listed(i) \/ Sweep(i) \/ Forget(i) \/ Forgotten(i) \/ Finish(i)

Next == Edit \/ \E i \in Ingests : Step(i) \/ Fail(i)

Spec == Init /\ [][Next]_vars

\* Ingestions are started again and again (with every message that has attachments) and
\* go on until they end.
FairSpec == Spec /\ \A i \in Ingests : WF_vars(Step(i))

-----------------------------------------------------------------------------
(* Properties *)

\* load_all_indexed, as query_index sees it: the chunks with a vector.
Found(f) == {<<c.ord, c.ver>> : c \in {d \in ChunksOf(f) : d.vec}}

All(v) == {<<n, v>> : n \in 1..Pieces[v]}

TypeOK ==
  /\ file \in [Files -> Written \cup {None}] /\ row \in [Files -> [hash : Texts, mtime : Times] \cup {None}]
  /\ \A c \in chunk : c \in Chunk
  /\ \A i \in Ingests : ingest[i].todo \subseteq Files
  /\ mixed \subseteq Files /\ restored \subseteq Files

\* What file_is_unchanged trusts: a row stands for all the chunks of its text and for no
\* other, although no transaction ties the tables, an ingestion may end at any statement
\* and files are edited back and forth while it runs.  The chunks may be gone before the
\* row is, but then the file is not what the row says, unless somebody made it so again.
\* Only files at which two ingestions were at work are left out, until they are deleted.
RowsTellTheTruth ==
  \A f \in Files \ mixed : row[f] # None =>
    \/ Found(f) = All(row[f].hash) /\ \A c \in ChunksOf(f) : c.vec
    \/ ChunksOf(f) = {} /\ (row[f] # file[f] \/ f \in restored)

\* A question never finds a mixture of two texts of a file, not even while the file is
\* being indexed again, or after, unless two ingestions were at work at it.
OneVersionIsFound ==
  \A c, d \in chunk : c.path = d.path /\ c.path \notin mixed => c.ver = d.ver

\* If edits and failures end, each file that can be read is found as it is, in full, and
\* whatever earlier ingestions left of it is not; a file that was put back as its row says
\* may be found not at all.  Only a file at which two ingestions were at work, or are time
\* and again, is left out.
CatchesUp ==
  <>[][~Edit /\ \A i \in Ingests : ~Fail(i)]_vars
    => \A f \in Files :
         \/ []<>(f \in mixed)
         \/ <>[](file[f] # None /\ file[f].hash \notin Unreadable =>
                   \/ Found(f) = All(file[f].hash)
                   \/ f \in restored /\ ChunksOf(f) = {})
===============================================================================
