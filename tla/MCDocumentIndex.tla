---------------------------- MODULE MCDocumentIndex ----------------------------
EXTENDS DocumentIndex

\* A text of two chunks, one of one chunk, a blank one and one that cannot be read.
MCPieces == <<2, 1, 0, 1>>

\* The first with an earlier and a later time, the second at the later one.
MCWritten == {[hash |-> 1, mtime |-> 1], [hash |-> 1, mtime |-> 2], [hash |-> 2, mtime |-> 2],
              [hash |-> 3, mtime |-> 1], [hash |-> 4, mtime |-> 1]}
===============================================================================
