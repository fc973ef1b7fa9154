----------------------------- MODULE BlockStream ------------------------------
(***************************************************************************)
(* What a stream of events (api/src/types.rs, StreamEvent) promises those  *)
(* who read it: a message begins once and ends once; inside it, content    *)
(* blocks begin, grow and end, each under an index of its own and each     *)
(* with content of one kind; when the message ends, no block is open.      *)
(***************************************************************************)
EXTENDS Sequences

CONSTANTS
  Indices,   \* indices of blocks
  Sources,   \* what a block holds: reasoning, text, or the arguments of a call
  Content,   \* what one event may add: sequences of pieces <<source, number>>
  Nothing    \* what a block that has not begun holds

VARIABLES
  block,    \* where each block is, what it holds, its content so far, and how
            \* often it was begun or ended
  message   \* where the message is

Unbegun == [at |-> "none", of |-> Nothing, content |-> <<>>, marks |-> 0]

Init == block = [i \in Indices |-> Unbegun] /\ message = "none"

BeginMessage == message = "none" /\ message' = "open" /\ UNCHANGED block

BeginBlock(i) ==
  /\ message = "open" /\ block[i] = Unbegun
  /\ \E s \in Sources :
       block' = [block EXCEPT ![i].at = "open", ![i].of = s, ![i].marks = 1]
  /\ UNCHANGED message

Grown(i, more) == [block EXCEPT ![i].content = @ \o more]

\* Content comes to an open block, and is of what the block holds.
Grow(i) ==
  /\ message = "open" /\ block[i].at = "open"
  /\ \E more \in Content :
       /\ \A k \in DOMAIN more : more[k][1] = block[i].of
       /\ block' = Grown(i, more)
  /\ UNCHANGED message

EndBlock(i) ==
  /\ message = "open" /\ block[i].at = "open"
  /\ block' = [block EXCEPT ![i].at = "closed", ![i].marks = 2]
  /\ UNCHANGED message

EndMessage ==
  /\ message = "open" /\ \A i \in Indices : block[i].at # "open"
  /\ message' = "closed" /\ UNCHANGED block

\* The next request, after an end or a broken connection.
Again == block' = [i \in Indices |-> Unbegun] /\ message' = "none"

Next ==
  \/ BeginMessage \/ EndMessage \/ Again
  \/ \E i \in Indices : BeginBlock(i) \/ Grow(i) \/ EndBlock(i)

Spec == Init /\ [][Next]_<<block, message>>
===============================================================================
