---------------------------- MODULE McpManagerProofs ----------------------------
(***************************************************************************)
(* No process is left behind or asked before its handshake, a call runs at *)
(* most once and a routed name leads to its tool: for any servers, tools   *)
(* and names, pages of lists and pipes, and whatever the servers do.       *)
(***************************************************************************)
EXTENDS McpManager, SequenceTheorems, TLAPS

\* A process is held for one server, and one that lives is held.
HeldOnce == \A r, s \in Servers : held[r] = held[s] /\ held[r] # None => r = s

Owned ==
  client.at # "aborted" => \A p \in Processes : process[p].live => \E s \in Servers : held[s] = p

\* The flag initialized is about the process that is held.
Greeted == \A s \in initialized : held[s] # None /\ process[held[s]].greeted

\* What the client knows of the server it is at.
AtServer ==
  /\ client.at \in {"init", "send", "wait"} => mine # None
  /\ client.at \in {"send", "wait"} => server \in initialized

Busy == client.at \in {"ready", "init", "send", "wait"}

Employed ==
  /\ Busy <=> client.op # "none"
  /\ client.op = "call" => Len(client.todo) = 1

\* An answer to the latest request is one that has been handled.
OwnIsHandled ==
  \A p \in Processes : \A i \in DOMAIN process[p].out :
    process[p].out[i].own => process[p].asked = "nothing"

\* The one process that may have a call to run is that of the call under way.
OneCall ==
  /\ \A p \in Processes : process[p].asked = "call" =>
       client.at = "wait" /\ client.op = "call" /\ p = mine /\ ran = 0
  /\ client.op = "call" /\ client.at = "wait" => process[mine].asked \in {"call", "nothing"}

CallRan ==
  /\ ran \in {0, 1}
  /\ client.op = "call" /\ client.at \in {"ready", "init", "send"} => ran = 0
  /\ client.op = "call" /\ client.at = "wait" =>
       \A i \in DOMAIN process[mine].out : process[mine].out[i].own => ran = 1

\* What has been offered is of servers that discovery is done with, and routed unless two
\* of one name are.
Routed ==
  ~Conflict => \A t \in offered : Qualified[t] \in DOMAIN index /\ index[Qualified[t]] = t

Surveyed ==
  /\ client.at = "off" => offered = {}
  /\ client.op = "discover" =>
       /\ \A t \in offered, i \in DOMAIN client.todo : client.todo[i] # t[1]
       /\ \A i, j \in DOMAIN client.todo : client.todo[i] = client.todo[j] => i = j
  /\ client.at \notin {"off", "aborted", "offer"} /\ client.op # "discover" => ~Conflict

\* The part about servers and processes, while there is a manager.
Tables ==
  /\ held \in [Servers -> Processes \cup {None}] /\ initialized \subseteq Servers
  /\ process \in [Processes -> Process]
  /\ HeldOnce /\ Greeted /\ HandshakeFirst /\ OwnIsHandled

\* The part about names, and about the call.
Books ==
  /\ DOMAIN index \subseteq ToolNames /\ offered \subseteq Servers \X Tools
  /\ \A q \in DOMAIN index : index[q] \in Servers \X Tools

AllHeld == \A p \in Processes : process[p].live => \E s \in Servers : held[s] = p

IProcs == TypeOK /\ HeldOnce /\ Owned /\ Greeted /\ AtServer /\ Employed /\ HandshakeFirst
ICalls == OwnIsHandled /\ OneCall /\ CallRan
INames == Routed /\ Surveyed

IInv == IProcs /\ ICalls /\ INames

-----------------------------------------------------------------------------
(* Where the client is, and how an operation ends *)

LEMMA TailShifts ==
  ASSUME NEW S, NEW s \in Seq(S), s # <<>>
  PROVE  /\ Head(s) = s[1] /\ 1 \in DOMAIN s /\ Tail(s) \in Seq(S)
         /\ \A i \in DOMAIN Tail(s) : /\ i \in Nat /\ i + 1 # 1
                                      /\ i + 1 \in DOMAIN s /\ Tail(s)[i] = s[i + 1]
<1>1. Tail(s) \in Seq(S) /\ Len(Tail(s)) = Len(s) - 1
      /\ \A i \in 1..Len(Tail(s)) : Tail(s)[i] = s[i + 1]
  BY HeadTailProperties
<1>2. DOMAIN s = 1..Len(s) /\ DOMAIN Tail(s) = 1..Len(Tail(s)) /\ Len(s) \in Nat
  BY <1>1, LenProperties
<1>3. Len(s) # 0
  BY EmptySeq
<1> QED BY <1>1, <1>2, <1>3

LEMMA Sites ==
  ASSUME TypeOK, Busy
  PROVE  /\ client \in Client /\ client.todo \in Seq(Servers) /\ client.todo # <<>>
         /\ server \in Servers /\ mine \in Processes \cup {None}
<1>1. client \in Client /\ client.todo \in Seq(Servers) /\ client.todo # <<>>
  BY DEF TypeOK, Busy, Client
<1>2. server \in Servers
  BY <1>1, HeadTailProperties DEF server
<1> QED BY <1>1, <1>2 DEF TypeOK, mine

\* What the end of an operation on one server leaves of the client.
Ended ==
  /\ client' \in Client /\ client'.at \in {"ready", "offer", "idle"}
  /\ client'.at = "ready" => /\ client'.op = client.op /\ client.op \notin {"none", "call"}
                             /\ client'.todo # <<>> /\ client'.todo = Tail(client.todo)
  /\ client'.at # "ready" => client'.op = "none"
  /\ client'.at = "offer" => client.op = "discover"
  /\ client'.at = "idle"  => client.op # "discover"

LEMMA DoneEnds == ASSUME TypeOK, Employed, Busy, Done PROVE Ended
<1>1. client \in Client /\ client.todo \in Seq(Servers) /\ client.todo # <<>>
  BY Sites
<1>2. CASE Len(client.todo) > 1
  <2>1. PICK n \in Nat : n = Len(client.todo)
    BY <1>1, LenProperties
  <2>2. n > 1
    BY <1>2, <2>1
  <2>3. n # 1 /\ n - 1 # 0
    BY <2>2
  <2>4. Tail(client.todo) \in Seq(Servers) /\ Len(Tail(client.todo)) = Len(client.todo) - 1
    BY <1>1, HeadTailProperties
  <2>5. Tail(client.todo) # <<>>
    <3>1. Len(Tail(client.todo)) # 0
      BY <2>1, <2>4, <2>3
    <3> QED BY <2>4, <3>1, EmptySeq
  <2>6. client.op \notin {"none", "call"}
    BY <2>1, <2>3 DEF Employed
  <2>7. 0 \in 0..1 /\ 0 \in 0..MaxPages
    BY McpConstants
  <2> QED BY <1>1, <1>2, <2>4, <2>5, <2>6, <2>7 DEF Done, Client, Ended
<1>3. CASE ~(Len(client.todo) > 1)
  <2>1. <<>> \in Seq(Servers) /\ 0 \in 0..1 /\ 0 \in 0..MaxPages
    BY McpConstants
  <2> QED BY <1>3, <2>1 DEF Done, Resting, Client, Ended, Ops
<1> QED BY <1>2, <1>3

\* A client that ends, or that starts again on the same server.
Again ==
  /\ client' \in Client /\ client'.at = "ready" /\ client'.op = client.op
  /\ client'.todo = client.todo

LEMMA RetryIsAgain ==
  ASSUME TypeOK, NEW t \in 0..1, NEW a \in 0..1,
         client' = [client EXCEPT !.at = "ready", !.attempts = a, !.tries = t, !.pages = 0]
  PROVE  Again
<1>1. 0 \in 0..MaxPages /\ client \in Client
  BY McpConstants DEF TypeOK
<1> QED BY <1>1 DEF Again, Client

-----------------------------------------------------------------------------
(* What an operation does to the tables *)

LEMMA UnusedProcess == Unused \in Process /\ ~Unused.live /\ Unused.asked = "nothing" /\ Unused.out = <<>>
<1>1. <<>> \in Seq(Line)
  OBVIOUS
<1> QED BY <1>1 DEF Unused, Process, Asked

\* A reset kills the process of the server and forgets it.
LEMMA ResetKeeps ==
  ASSUME TypeOK, Busy, Tables, AllHeld, NEW reset \in BOOLEAN, Reset(reset)
  PROVE  /\ Tables' /\ AllHeld'
         /\ \A p \in Processes : process'[p].asked = "call" =>
              process[p].asked = "call" /\ (reset => p # mine)
<1>1. server \in Servers /\ mine \in Processes \cup {None} /\ mine = held[server]
  BY Sites DEF mine
<1>2. CASE ~reset
  <2>1. UNCHANGED <<held, initialized, process>>
    BY <1>2 DEF Reset, ResetProcess
  <2> QED BY <1>2, <2>1 DEF Tables, AllHeld, HeldOnce, Greeted, HandshakeFirst, OwnIsHandled
<1>3. CASE reset
  <2>1. /\ held' = [held EXCEPT ![server] = None]
        /\ initialized' = initialized \ {server}
    BY <1>3 DEF Reset
  <2>2. process' \in [Processes -> Process]
    BY <1>1, <1>3, UnusedProcess DEF Reset, ResetProcess, Tables
  <2>3. \A p \in Processes : process'[p] = IF p = mine THEN Unused ELSE process[p]
    BY <1>1, <1>3, McpConstants DEF Reset, ResetProcess, Tables
  <2>4. /\ held' \in [Servers -> Processes \cup {None}] /\ initialized' \subseteq Servers
        /\ held'[server] = None /\ \A s \in Servers \ {server} : held'[s] = held[s]
    BY <1>1, <2>1 DEF Tables
  <2>5. HeldOnce'
    BY <2>4 DEF HeldOnce, Tables
  <2>6. Greeted'
    <3> SUFFICES ASSUME NEW s \in initialized'
                 PROVE  held'[s] # None /\ process'[held'[s]].greeted
      BY DEF Greeted
    <3>1. s \in initialized /\ s # server /\ s \in Servers /\ held'[s] = held[s] /\ held[s] # None
      BY <2>1, <2>4 DEF Greeted, Tables
    <3>2. held[s] \in Processes /\ held[s] # mine
      BY <1>1, <3>1 DEF HeldOnce, Tables
    <3> QED BY <2>3, <3>1, <3>2 DEF Greeted, Tables
  <2>7. HandshakeFirst' /\ OwnIsHandled'
    BY <2>3, UnusedProcess DEF HandshakeFirst, OwnIsHandled, Tables
  <2>8. AllHeld'
    BY <1>1, <2>3, <2>4, UnusedProcess DEF AllHeld
  <2>9. \A p \in Processes : process'[p].asked = "call" => process[p].asked = "call" /\ p # mine
    BY <2>3, UnusedProcess
  <2> QED BY <2>2, <2>4, <2>5, <2>6, <2>7, <2>8, <2>9 DEF Tables
<1> QED BY <1>2, <1>3

\* Reading a line, which may be the handshake.
LEMMA ReadKeeps ==
  ASSUME TypeOK, Busy, Tables, AllHeld, mine # None, process[mine].out # <<>>,
         process' = Read \/ process' = [Read EXCEPT ![mine].greeted = TRUE], held' = held,
         \/ initialized' = initialized
         \/ process'[mine].greeted /\ initialized' = initialized \cup {server}
  PROVE  /\ Tables' /\ AllHeld'
         /\ \A p \in Processes : process'[p].asked = process[p].asked
         /\ \A i \in DOMAIN process'[mine].out : i + 1 \in DOMAIN process[mine].out
                                              /\ process'[mine].out[i] = process[mine].out[i + 1]
<1>1. mine \in Processes
  BY Sites
<1> DEFINE q == process[mine].out
<1>2. q \in Seq(Line) /\ q # <<>>
  BY <1>1 DEF Tables, Process
<1>3. /\ Tail(q) \in Seq(Line)
      /\ \A i \in DOMAIN Tail(q) : i + 1 \in DOMAIN q /\ Tail(q)[i] = q[i + 1]
  BY <1>2, TailShifts
<1>4. Read = [process EXCEPT ![mine].out = Tail(q)]
  BY DEF Read
<1> HIDE DEF q
<1> DEFINE read    == [process[mine] EXCEPT !.out = Tail(q)]
           greeted == [read EXCEPT !.greeted = TRUE]
<1>5. /\ read \in Process /\ read.live = process[mine].live /\ read.asked = process[mine].asked
      /\ read.greeted = process[mine].greeted /\ read.out = Tail(q)
      /\ greeted \in Process /\ greeted.live = read.live /\ greeted.asked = read.asked
      /\ greeted.greeted = TRUE /\ greeted.out = Tail(q)
  BY <1>1, <1>3 DEF Tables, Process
<1>6. \E new \in {read, greeted} : process' = [process EXCEPT ![mine] = new]
  BY <1>1, <1>4 DEF Tables
<1> HIDE DEF read, greeted
<1>7. /\ process' \in [Processes -> Process]
      /\ \A p \in Processes \ {mine} : process'[p] = process[p]
      /\ process'[mine].out = Tail(q)
      /\ \A p \in Processes : /\ process'[p].live = process[p].live
                              /\ process'[p].asked = process[p].asked
                              /\ process[p].greeted => process'[p].greeted
  <2>1. PICK new \in {read, greeted} : process' = [process EXCEPT ![mine] = new]
    BY <1>6
  <2>2. /\ new \in Process /\ new.live = process[mine].live /\ new.asked = process[mine].asked
        /\ process[mine].greeted => new.greeted
        /\ new.out = Tail(q)
    BY <1>5
  <2> QED BY <1>1, <2>1, <2>2 DEF Tables
<1>8. HeldOnce' /\ HandshakeFirst' /\ AllHeld'
  BY <1>7 DEF HeldOnce, HandshakeFirst, AllHeld, Tables
<1>9. Greeted' /\ initialized' \subseteq Servers
  <2>1. \A s \in initialized : held[s] # None /\ held[s] \in Processes /\ process[held[s]].greeted
    BY DEF Greeted, Tables
  <2>2. held[server] = mine /\ server \in Servers
    BY Sites DEF mine
  <2> QED BY <1>1, <1>7, <2>1, <2>2 DEF Greeted, Tables
<1>10. OwnIsHandled'
  <2> SUFFICES ASSUME NEW p \in Processes, NEW i \in DOMAIN process'[p].out, process'[p].out[i].own
               PROVE  process'[p].asked = "nothing"
    BY DEF OwnIsHandled
  <2>1. CASE p = mine
    <3>1. i + 1 \in DOMAIN process[mine].out /\ process[mine].out[i + 1].own
      BY <1>3, <1>7, <2>1 DEF q
    <3> QED BY <1>7, <2>1, <3>1 DEF OwnIsHandled, Tables
  <2>2. CASE p # mine
    BY <1>7, <2>2 DEF OwnIsHandled, Tables
  <2> QED BY <2>1, <2>2
<1> QED BY <1>3, <1>7, <1>8, <1>9, <1>10 DEF Tables, q

\* Writing a request; a server is asked for tools only if it has been greeted.
LEMMA WriteKeeps ==
  ASSUME Tables, AllHeld, mine \in Processes, NEW request \in Asked, request # "nothing",
         request # "initialize" => process[mine].greeted,
         process' = Written(mine, request), UNCHANGED <<held, initialized>>
  PROVE  /\ Tables' /\ AllHeld'
         /\ \A p \in Processes \ {mine} : process'[p] = process[p]
         /\ process'[mine].asked \in {request, "nothing"}
         /\ \A i \in DOMAIN process'[mine].out : ~process'[mine].out[i].own
<1> DEFINE q == process[mine].out
           old == IF process[mine].live THEN [i \in DOMAIN q |-> [q[i] EXCEPT !.own = FALSE]] ELSE <<>>
           asked == IF process[mine].live THEN request ELSE "nothing"
<1>1. q \in Seq(Line) /\ process[mine] \in Process
  BY DEF Tables, Process
<1>2. old \in Seq(Line) /\ \A i \in DOMAIN old : ~old[i].own
  <2>1. DOMAIN q = 1..Len(q) /\ Len(q) \in Nat /\ \A i \in DOMAIN q : q[i] \in Line
    BY <1>1, LenProperties, ElementOfSeq
  <2>2. \A i \in DOMAIN q : [q[i] EXCEPT !.own = FALSE] \in Line /\ ~[q[i] EXCEPT !.own = FALSE].own
    BY <2>1 DEF Line
  <2>3. <<>> \in Seq(Line) /\ DOMAIN <<>> = {}
    OBVIOUS
  <2> DEFINE f == [i \in DOMAIN q |-> [q[i] EXCEPT !.own = FALSE]]
  <2>4. f \in [1..Len(q) -> Line]
    BY <2>1, <2>2
  <2>5. f \in Seq(Line)
    BY <2>1, <2>4, IsASeq
  <2>6. \A i \in DOMAIN f : ~f[i].own
    BY <2>2
  <2> HIDE DEF f
  <2>7. old = f \/ old = <<>>
    BY DEF f
  <2> QED BY <2>3, <2>5, <2>6, <2>7
<1>3. asked \in {request, "nothing"} /\ asked \in Asked
  BY DEF Asked
<1>4. process' = [process EXCEPT ![mine].asked = asked, ![mine].out = old]
  BY DEF Written
<1> HIDE DEF q, old, asked
<1>5. /\ process' \in [Processes -> Process]
      /\ \A p \in Processes \ {mine} : process'[p] = process[p]
      /\ process'[mine].live = process[mine].live /\ process'[mine].asked = asked
      /\ process'[mine].greeted = process[mine].greeted /\ process'[mine].out = old
  <2> DEFINE new == [process[mine] EXCEPT !.asked = asked, !.out = old]
  <2>1. process' = [process EXCEPT ![mine] = new]
    BY <1>4 DEF Tables
  <2>2. /\ new \in Process /\ new.live = process[mine].live /\ new.asked = asked
        /\ new.greeted = process[mine].greeted /\ new.out = old
    BY <1>1, <1>2, <1>3 DEF Process
  <2> HIDE DEF new
  <2> QED BY <2>1, <2>2 DEF Tables
<1>6. \A p \in Processes : /\ process'[p].live = process[p].live
                          /\ process'[p].greeted = process[p].greeted
  BY <1>5
<1>7. HeldOnce' /\ AllHeld'
  BY <1>6 DEF HeldOnce, AllHeld, Tables
<1>8. HandshakeFirst'
  BY <1>3, <1>5 DEF HandshakeFirst, Tables
<1>9. Greeted'
  <2>1. \A s \in initialized : held[s] # None /\ held[s] \in Processes /\ process[held[s]].greeted
    BY DEF Greeted, Tables
  <2> QED BY <1>6, <2>1 DEF Greeted
<1>10. OwnIsHandled'
  BY <1>2, <1>5 DEF OwnIsHandled, Tables
<1> QED BY <1>2, <1>3, <1>5, <1>7, <1>8, <1>9, <1>10 DEF Tables

-----------------------------------------------------------------------------
(* How the invariant survives the end of an operation *)

LEMMA Parts ==
  ASSUME IInv
  PROVE  Tables /\ Books /\ TypeOK /\ (Busy => AllHeld) /\ ran \in {0, 1}
BY DEF IInv, IProcs, ICalls, TypeOK, Tables, Books, Owned, AllHeld, Busy, CallRan

\* The client starts on a server that it has not called, and nobody has a call to run.
LEMMA RestKeeps ==
  ASSUME IInv, Busy, Tables', AllHeld', Books', Ended \/ Again,
         Again => client.op # "call" \/ ran = 0,
         \A p \in Processes : process'[p].asked # "call",
         ran' = ran, told' \in {"nothing", "ok", "failed"}
  PROVE  IProcs' /\ ICalls'
<1>1. /\ client' \in Client /\ client'.at \in {"ready", "offer", "idle"}
      /\ client'.at = "ready" => client'.todo # <<>> /\ client'.op = client.op
      /\ client'.at # "ready" => client'.op = "none"
      /\ client'.op = "call" => Again
  BY Sites, Parts DEF Ended, Again
<1>2. TypeOK'
  BY <1>1, Parts DEF Tables, Books, TypeOK
<1>3. Employed'
  <2>1. client.op # "none" /\ (client.op = "call" => Len(client.todo) = 1)
    BY DEF IInv, IProcs, Employed
  <2> QED BY <1>1, <2>1 DEF Employed, Busy, Again
<1>4. Owned' /\ AtServer' /\ OneCall'
  BY <1>1 DEF AllHeld, Owned, AtServer, OneCall
<1>5. CallRan'
  BY <1>1, Parts DEF CallRan
<1> QED BY <1>2, <1>3, <1>4, <1>5 DEF IProcs, ICalls, Tables

LEMMA UnroutedIsIndex ==
  ASSUME Books
  PROVE  /\ DOMAIN Unrouted = {n \in DOMAIN index : index[n][1] # server}
         /\ \A q \in DOMAIN Unrouted : Unrouted[q] = index[q]
BY DEF Unrouted

\* An operation that fails leaves the routes of the other servers.
LEMMA FailedKeepsNames ==
  ASSUME IInv, Busy, Failed PROVE INames' /\ Books' /\ Ended /\ told' \in {"nothing", "ok", "failed"}
<1>1. Books /\ TypeOK /\ Ended
  BY Parts, DoneEnds DEF IInv, IProcs, Failed
<1>2. offered' = offered /\ index' = (IF client.op = "discover" THEN Unrouted ELSE index)
  BY DEF Failed
<1>3. Conflict' <=> Conflict
  BY <1>2 DEF Conflict
<1>4. client.op = "discover" => \A t \in offered : t[1] # server
  BY Sites, <1>1, HeadTailProperties, LenProperties DEF IInv, INames, Surveyed, server
<1>5. Routed'
  BY <1>1, <1>2, <1>3, <1>4, UnroutedIsIndex DEF IInv, INames, Routed, Books
<1>6. Books'
  BY <1>1, <1>2, UnroutedIsIndex DEF Books
<1>7. Surveyed'
  <2>1. client'.at = "ready" /\ client.op = "discover" =>
          /\ \A t \in offered, i \in DOMAIN client'.todo : client'.todo[i] # t[1]
          /\ \A i, j \in DOMAIN client'.todo : client'.todo[i] = client'.todo[j] => i = j
    <3> SUFFICES ASSUME client'.at = "ready", client.op = "discover" PROVE
          /\ \A t \in offered, i \in DOMAIN client'.todo : client'.todo[i] # t[1]
          /\ \A i, j \in DOMAIN client'.todo : client'.todo[i] = client'.todo[j] => i = j
      OBVIOUS
    <3>1. \A i \in DOMAIN client'.todo : i \in Nat /\ i + 1 \in DOMAIN client.todo
                                       /\ client'.todo[i] = client.todo[i + 1]
      BY <1>1, Sites, TailShifts DEF Ended
    <3>2. \A i, j \in DOMAIN client.todo : client.todo[i] = client.todo[j] => i = j
      BY DEF IInv, INames, Surveyed
    <3>3. \A t \in offered, i \in DOMAIN client.todo : client.todo[i] # t[1]
      BY DEF IInv, INames, Surveyed
    <3>4. ASSUME NEW i \in DOMAIN client'.todo, NEW j \in DOMAIN client'.todo,
                 client'.todo[i] = client'.todo[j]
          PROVE  i = j
      <4>1. i + 1 = j + 1 /\ i \in Nat /\ j \in Nat
        BY <3>1, <3>2, <3>4
      <4> QED BY <4>1
    <3> QED BY <3>1, <3>3, <3>4
  <2>2. client'.at = "idle" => ~Conflict
    BY <1>1 DEF IInv, IProcs, Employed, INames, Surveyed, Ended, Busy
  <2>3. client.op # "discover" => ~Conflict
    BY DEF IInv, IProcs, Employed, INames, Surveyed, Busy
  <2> QED BY <1>1, <1>2, <1>3, <2>1, <2>2, <2>3 DEF Surveyed, Ended
<1>8. told' \in {"nothing", "ok", "failed"}
  BY <1>1 DEF Failed, TypeOK
<1> QED BY <1>1, <1>5, <1>6, <1>7, <1>8 DEF INames

LEMMA AgainKeepsNames ==
  ASSUME IInv, Busy, Again, UNCHANGED <<index, offered>> PROVE INames' /\ Books'
<1>1. Conflict' <=> Conflict
  BY DEF Conflict
<1>2. Books' /\ Routed'
  BY <1>1, Parts DEF Books, Routed, IInv, INames
<1> QED BY <1>1, <1>2 DEF IInv, INames, Surveyed, Again, Busy

LEMMA FailedKeeps ==
  ASSUME IInv, Busy, Failed, Tables', AllHeld', \A p \in Processes : process'[p].asked # "call"
  PROVE  IInv'
<1>1. INames' /\ Books' /\ Ended /\ told' \in {"nothing", "ok", "failed"} /\ ran' = ran
  BY FailedKeepsNames DEF Failed
<1>2. Again => client.op # "call"
  BY <1>1 DEF Again, Ended
<1>3. IProcs' /\ ICalls'
  BY <1>1, <1>2, RestKeeps
<1> QED BY <1>1, <1>3 DEF IInv

\* Every error of a request kills the process, and with it the call it may have had to run.
LEMMA ErrorKeeps ==
  ASSUME IInv, Busy, NEW e \in Errors, OperationError(e) PROVE IInv'
<1>1. Tables /\ Books /\ TypeOK /\ AllHeld
  BY Parts
<1>2. Reset(TRUE)
  BY DEF OperationError, Errors, ShouldReset
<1>3. Tables' /\ AllHeld' /\ \A p \in Processes : process'[p].asked # "call"
  BY <1>1, <1>2, ResetKeeps DEF IInv, ICalls, OneCall
<1>4. CASE OuterRetry(e)
  <2>1. Again /\ client.op # "call" /\ UNCHANGED <<index, offered, ran, told>>
    BY <1>1, <1>4, RetryIsAgain DEF OperationError, OuterRetry
  <2>2. INames' /\ Books'
    BY <2>1, AgainKeepsNames
  <2>3. IProcs' /\ ICalls'
    BY <1>1, <1>3, <2>1, <2>2, RestKeeps DEF TypeOK
  <2> QED BY <2>2, <2>3 DEF IInv
<1>5. CASE ~OuterRetry(e)
  BY <1>3, <1>5, FailedKeeps DEF OperationError
<1> QED BY <1>4, <1>5

LEMMA InitializeFailsKeeps ==
  ASSUME IInv, NEW e \in Errors, InitializeFails(e) PROVE IInv'
<1>1. Busy /\ client.at = "init"
  BY DEF InitializeFails, Busy
<1>2. CASE ~(Retryable(e) /\ client.tries = 0)
  BY <1>1, <1>2, ErrorKeeps DEF InitializeFails
<1>3. CASE Retryable(e) /\ client.tries = 0
  <2>1. Reset(TRUE) /\ UNCHANGED <<index, offered, ran, told>>
        /\ client' = [client EXCEPT !.at = "ready", !.tries = 1]
    BY <1>3 DEF InitializeFails
  <2>2. Tables /\ TypeOK /\ AllHeld
    BY <1>1, Parts
  <2>3. Tables' /\ AllHeld' /\ \A p \in Processes : process'[p].asked # "call"
    BY <1>1, <2>1, <2>2, ResetKeeps DEF IInv, ICalls, OneCall
  <2>4. Again
    <3> DEFINE new == [client EXCEPT !.at = "ready", !.tries = 1]
    <3>1. client \in Client /\ 1 \in 0..1
      BY <1>1, Sites, <2>2
    <3>2. new \in Client /\ new.at = "ready" /\ new.op = client.op /\ new.todo = client.todo
      BY <3>1 DEF Client
    <3> HIDE DEF new
    <3>3. client' = new
      BY <2>1 DEF new
    <3> QED BY <3>2, <3>3 DEF Again
  <2>5. INames' /\ Books'
    BY <1>1, <2>1, <2>4, AgainKeepsNames
  <2>6. client.op # "call" \/ ran = 0
    BY <1>1 DEF IInv, ICalls, CallRan
  <2>7. IProcs' /\ ICalls'
    BY <1>1, <2>1, <2>2, <2>3, <2>4, <2>5, <2>6, RestKeeps DEF TypeOK
  <2> QED BY <2>5, <2>7 DEF IInv
<1> QED BY <1>2, <1>3

LEMMA RequestFailsKeeps ==
  ASSUME IInv, NEW e \in Errors, RequestFails(e) PROVE IInv'
BY ErrorKeeps DEF RequestFails, Busy

\* An answer is read only after its request was handled.
LEMMA AnswerSays ==
  ASSUME IInv, Waiting, NEW body, Answered(body)
  PROVE  /\ Busy /\ mine \in Processes /\ mine # None /\ process[mine].out # <<>>
         /\ process[mine].asked = "nothing"
         /\ client.op = "call" /\ client.at = "wait" => ran = 1
<1>1. Busy /\ mine # None
  BY DEF Waiting, Busy, IInv, IProcs, AtServer
<1>2. mine \in Processes /\ process[mine].out \in Seq(Line) /\ process[mine].out # <<>>
  BY <1>1, Sites, Parts DEF Answered, Tables, Process
<1>3. 1 \in DOMAIN process[mine].out /\ process[mine].out[1].own
  BY <1>2, TailShifts DEF Answered, IsAnswer
<1> QED BY <1>1, <1>2, <1>3 DEF IInv, ICalls, OwnIsHandled, CallRan

\* After an answer was read nobody has a call to run.
LEMMA ReadLeavesNoCall ==
  ASSUME IInv, Waiting, NEW body, Answered(body), process' = Read, UNCHANGED <<held, initialized>>
  PROVE  Tables' /\ AllHeld' /\ \A p \in Processes : process'[p].asked # "call"
<1>1. \A p \in Processes : process[p].asked # "call"
  BY AnswerSays DEF IInv, ICalls, OneCall
<1> QED BY <1>1, AnswerSays, ReadKeeps, Parts

LEMMA RefusedKeeps == ASSUME IInv, Refused PROVE IInv'
<1>1. Waiting /\ Answered("error") /\ process' = Read /\ UNCHANGED <<held, initialized>> /\ Failed /\ Busy
  BY DEF Refused, Waiting, Busy
<1> QED BY <1>1, ReadLeavesNoCall, FailedKeeps

LEMMA EmptyKeeps == ASSUME IInv, Empty PROVE IInv'
<1>1. Waiting /\ Answered("empty") /\ Failed /\ Busy
  BY DEF Empty, Waiting, Busy
<1>2. CASE client.op = "call" /\ client.at = "wait"
  BY <1>1, <1>2, ReadLeavesNoCall, FailedKeeps DEF Empty
<1>3. CASE ~(client.op = "call" /\ client.at = "wait")
  <2>1. Reset(TRUE)
    BY <1>3 DEF Empty
  <2>2. Tables' /\ AllHeld' /\ \A p \in Processes : process'[p].asked # "call"
    BY <1>1, <2>1, ResetKeeps, Parts DEF IInv, ICalls, OneCall
  <2> QED BY <1>1, <2>2, FailedKeeps
<1> QED BY <1>2, <1>3

LEMMA SpawnFailsKeeps == ASSUME IInv, SpawnFails PROVE IInv'
<1>1. Reset(TRUE) /\ Failed /\ Busy
  BY DEF SpawnFails, Reset, ResetProcess, Busy
<1>2. Tables' /\ AllHeld' /\ \A p \in Processes : process'[p].asked # "call"
  BY <1>1, ResetKeeps, Parts DEF IInv, ICalls, OneCall
<1> QED BY <1>1, <1>2, FailedKeeps

\* The last page: the tools of the server take over their names.
LEMMA DiscoveredKeepsNames ==
  ASSUME IInv, Discovered PROVE INames' /\ Books' /\ Ended
<1>1. PICK found \in SUBSET ToolsOf[server] :
        /\ \E route \in [{Qualified[t] : t \in {server} \X found} -> {server} \X found] :
             /\ \A q \in {Qualified[t] : t \in {server} \X found} :
                  route[q] \in {t \in {server} \X found : Qualified[t] = q}
             /\ index' = [q \in DOMAIN Unrouted \cup {Qualified[t] : t \in {server} \X found} |->
                            IF q \in {Qualified[t] : t \in {server} \X found} THEN route[q]
                            ELSE index[q]]
        /\ offered' = offered \cup ({server} \X found)
  BY Zenon DEF Discovered
<1> DEFINE new == {server} \X found
           names == {Qualified[t] : t \in new}
<1>2. PICK route \in [names -> new] :
        /\ \A q \in names : route[q] \in {t \in new : Qualified[t] = q}
        /\ index' = [q \in DOMAIN Unrouted \cup names |-> IF q \in names THEN route[q] ELSE index[q]]
        /\ offered' = offered \cup new
  BY <1>1, Zenon
<1>3. Busy /\ client.op = "discover"
  BY DEF Discovered, Busy
<1>4. Books /\ TypeOK /\ Ended /\ server \in Servers
  BY <1>3, Parts, Sites, DoneEnds DEF IInv, IProcs, Discovered
<1>5. new \subseteq Servers \X Tools /\ \A t \in new : t[1] = server
  <2>1. found \subseteq Tools
    BY <1>4, McpConstants
  <2> QED BY <1>4, <2>1
<1>6. names \subseteq ToolNames
  BY <1>5 DEF ToolNames
<1>7. \A t \in offered : t[1] # server
  BY <1>3, <1>4, Sites, TailShifts DEF IInv, INames, Surveyed, server
<1> HIDE DEF new, names
<1>8. DOMAIN Unrouted = {n \in DOMAIN index : index[n][1] # server}
  BY <1>4, UnroutedIsIndex
<1>9. Books'
  <2>1. /\ DOMAIN index \subseteq ToolNames /\ offered \subseteq Servers \X Tools
        /\ \A q \in DOMAIN index : index[q] \in Servers \X Tools
    BY <1>4 DEF Books
  <2>2. DOMAIN index' = DOMAIN Unrouted \cup names /\ DOMAIN Unrouted \subseteq DOMAIN index
    BY <1>2, <1>8
  <2>3. \A q \in names : index'[q] \in new
    BY <1>2
  <2>4. \A q \in DOMAIN Unrouted \ names : index'[q] = index[q]
    BY <1>2
  <2>5. offered' = offered \cup new
    BY <1>2
  <2> QED BY <1>5, <1>6, <2>1, <2>2, <2>3, <2>4, <2>5 DEF Books
<1>10. Conflict => Conflict'
  BY <1>2 DEF Conflict
<1>11. Routed'
  <2> SUFFICES ASSUME ~Conflict', NEW t \in offered'
               PROVE  Qualified[t] \in DOMAIN index' /\ index'[Qualified[t]] = t
    BY DEF Routed
  <2>1. \A u, v \in offered' : Qualified[u] = Qualified[v] => u = v
    BY DEF Conflict
  <2>2. CASE t \in new
    <3>1. Qualified[t] \in names
      BY <2>2 DEF names
    <3>2. route[Qualified[t]] = t
      BY <1>2, <2>1, <2>2, <3>1
    <3> QED BY <1>2, <3>1, <3>2
  <2>3. CASE t \in offered
    <3>1. Qualified[t] \in DOMAIN index /\ index[Qualified[t]] = t
      BY <1>10, <2>3 DEF IInv, INames, Routed
    <3>2. Qualified[t] \in DOMAIN Unrouted
      BY <1>7, <1>8, <2>3, <3>1
    <3>3. Qualified[t] \notin names
      BY <1>2, <1>5, <1>7, <2>1, <2>3 DEF names
    <3> QED BY <1>2, <3>1, <3>2, <3>3
  <2> QED BY <1>2, <2>2, <2>3
<1>12. Surveyed'
  <2> SUFFICES ASSUME client'.at = "ready"
               PROVE  /\ \A t \in offered', i \in DOMAIN client'.todo : client'.todo[i] # t[1]
                      /\ \A i, j \in DOMAIN client'.todo : client'.todo[i] = client'.todo[j] => i = j
    BY <1>3, <1>4 DEF Surveyed, Ended
  <2>1. \A i \in DOMAIN client'.todo : i \in Nat /\ i + 1 # 1 /\ i + 1 \in DOMAIN client.todo
                                      /\ client'.todo[i] = client.todo[i + 1]
    BY <1>3, <1>4, Sites, TailShifts DEF Ended
  <2>2. \A i, j \in DOMAIN client.todo : client.todo[i] = client.todo[j] => i = j
    BY <1>3 DEF IInv, INames, Surveyed
  <2>3. \A t \in offered, i \in DOMAIN client.todo : client.todo[i] # t[1]
    BY <1>3 DEF IInv, INames, Surveyed
  <2>4. 1 \in DOMAIN client.todo /\ client.todo[1] = server
    BY <1>3, <1>4, Sites, TailShifts DEF server
  <2>5. ASSUME NEW i \in DOMAIN client'.todo PROVE client'.todo[i] # server
    <3>1. i + 1 # 1 /\ i + 1 \in DOMAIN client.todo /\ client'.todo[i] = client.todo[i + 1]
      BY <2>1
    <3> QED BY <2>2, <2>4, <3>1
  <2>6. ASSUME NEW i \in DOMAIN client'.todo, NEW j \in DOMAIN client'.todo,
               client'.todo[i] = client'.todo[j]
        PROVE  i = j
    <3>1. i + 1 = j + 1 /\ i \in Nat /\ j \in Nat
      BY <2>1, <2>2, <2>6
    <3> QED BY <3>1
  <2> QED BY <1>2, <1>5, <2>1, <2>3, <2>5, <2>6
<1> QED BY <1>4, <1>9, <1>11, <1>12 DEF INames

LEMMA DiscoveredKeeps == ASSUME IInv, Discovered PROVE IInv'
<1>1. /\ Waiting /\ Answered("result") /\ process' = Read /\ Busy
      /\ UNCHANGED <<held, initialized, ran, told>>
  BY DEF Discovered, Waiting, Busy
<1>2. INames' /\ Books' /\ Ended
  BY DiscoveredKeepsNames
<1>3. Again => client.op # "call"
  BY <1>2 DEF Again, Ended
<1>4. told' \in {"nothing", "ok", "failed"}
  BY <1>1, Parts DEF TypeOK
<1>5. IProcs' /\ ICalls'
  BY <1>1, <1>2, <1>3, <1>4, ReadLeavesNoCall, RestKeeps
<1> QED BY <1>2, <1>5 DEF IInv

LEMMA SucceedsKeeps == ASSUME IInv, Succeeds PROVE IInv'
<1>1. /\ Waiting /\ Answered("result") /\ process' = Read /\ Busy /\ Done
      /\ client.op # "discover" /\ UNCHANGED <<held, initialized, ran, index, offered>>
  BY DEF Succeeds, Waiting, Busy
<1>2. Books' /\ Ended
  BY <1>1, Parts, DoneEnds DEF IInv, IProcs, Books
<1>3. INames'
  <2>1. (Conflict' <=> Conflict) /\ ~Conflict
    BY <1>1 DEF Conflict, IInv, INames, Surveyed, Waiting
  <2> QED BY <1>1, <1>2, <2>1 DEF IInv, INames, Routed, Surveyed, Ended
<1>4. Again => client.op # "call"
  BY <1>2 DEF Again, Ended
<1>5. told' \in {"nothing", "ok", "failed"}
  BY Parts DEF TypeOK, Succeeds
<1>6. IProcs' /\ ICalls'
  BY <1>1, <1>2, <1>4, <1>5, ReadLeavesNoCall, RestKeeps
<1> QED BY <1>3, <1>6 DEF IInv

-----------------------------------------------------------------------------
(* How the invariant survives a step towards the answer *)

Onward ==
  /\ client' \in Client /\ client'.at \in {"init", "send", "wait"}
  /\ client'.op = client.op /\ client'.todo = client.todo

LEMMA OnwardKeeps ==
  ASSUME IInv, Busy, Onward, Tables', AllHeld', held'[server] # None,
         client'.at # "init" => server \in initialized',
         OneCall', CallRan', UNCHANGED <<index, offered, told>>
  PROVE  IInv'
<1>1. TypeOK /\ Books /\ client.todo # <<>>
  BY Parts, Sites
<1>2. Books' /\ ran' \in Nat
  BY <1>1 DEF Books, CallRan
<1>3. TypeOK'
  BY <1>1, <1>2 DEF TypeOK, Books, Tables, Onward
<1>4. server' = server /\ mine' = held'[server]
  BY DEF server, mine, Onward
<1>5. Employed' /\ Owned' /\ AtServer'
  BY <1>4 DEF IInv, IProcs, Employed, Busy, Onward, Owned, AllHeld, AtServer
<1>6. INames'
  <2>1. Conflict' <=> Conflict
    BY DEF Conflict
  <2> QED BY <2>1 DEF IInv, INames, Routed, Surveyed, Onward, Busy
<1> QED BY <1>3, <1>5, <1>6 DEF IInv, IProcs, ICalls, Tables

LEMMA OnwardAt ==
  ASSUME TypeOK, NEW at \in {"init", "send", "wait"}, client' = [client EXCEPT !.at = at]
  PROVE  Onward /\ client'.at = at
BY DEF TypeOK, Client, Onward

\* A process that no server holds takes the place of the one that exited.
LEMMA SpawnKeeps == ASSUME IInv, Spawn PROVE IInv'
<1>1. client.at = "ready" /\ ~Running /\ Busy /\ Tables /\ TypeOK /\ AllHeld
  BY Parts DEF Spawn, Busy
<1>2. PICK p \in Processes :
        /\ Free(p) /\ held' = [held EXCEPT ![server] = p]
        /\ process' = [n \in Processes |->
                         IF n = p THEN [Unused EXCEPT !.live = TRUE, !.asked = "initialize"]
                         ELSE IF n = mine THEN Unused ELSE process[n]]
  BY DEF Spawn
<1>3. server \in Servers /\ mine = held[server] /\ mine \in Processes \cup {None}
  BY <1>1, Sites DEF mine
<1> DEFINE new == [Unused EXCEPT !.live = TRUE, !.asked = "initialize"]
<1>4. new \in Process /\ new.asked = "initialize" /\ new.out = <<>>
  BY UnusedProcess DEF Process, Asked
<1>5. /\ process' \in [Processes -> Process]
      /\ process'[p].asked = "initialize" /\ process'[p].out = <<>>
      /\ \A n \in Processes \ {p} : process'[n] = IF n = mine THEN Unused ELSE process[n]
  BY <1>1, <1>2, <1>4, UnusedProcess DEF Tables
<1> HIDE DEF new
<1>6. /\ held' \in [Servers -> Processes \cup {None}] /\ held'[server] = p
      /\ \A s \in Servers \ {server} : held'[s] = held[s] /\ held[s] # p
      /\ initialized' = initialized \ {server}
  BY <1>1, <1>2, <1>3 DEF Tables, Free, Spawn
<1>7. HeldOnce'
  BY <1>1, <1>6, McpConstants DEF HeldOnce, Tables
<1>8. Greeted'
  <2> SUFFICES ASSUME NEW s \in initialized'
               PROVE  held'[s] # None /\ process'[held'[s]].greeted
    BY DEF Greeted
  <2>1. /\ s \in initialized /\ s # server /\ s \in Servers /\ held'[s] = held[s]
        /\ held[s] # None /\ held[s] # p
    BY <1>1, <1>6 DEF Greeted, Tables
  <2>2. held[s] \in Processes /\ held[s] # mine
    BY <1>1, <1>3, <2>1 DEF HeldOnce, Tables
  <2> QED BY <1>1, <1>5, <2>1, <2>2 DEF Greeted, Tables
<1>9. \A n \in Processes : process'[n].asked = "call" => process[n].asked = "call"
  BY <1>5, UnusedProcess
<1>10. HandshakeFirst' /\ OwnIsHandled'
  <2>1. DOMAIN <<>> = {}
    OBVIOUS
  <2> QED BY <1>1, <1>5, <2>1, UnusedProcess DEF HandshakeFirst, OwnIsHandled, Tables
<1>11. AllHeld'
  BY <1>1, <1>3, <1>5, <1>6, UnusedProcess DEF AllHeld
<1>12. Tables'
  BY <1>1, <1>5, <1>6, <1>7, <1>8, <1>10 DEF Tables
<1>13. Onward /\ client'.at = "init"
  BY <1>1, OnwardAt DEF Spawn
<1>14. OneCall' /\ CallRan'
  BY <1>1, <1>9, <1>13 DEF IInv, ICalls, OneCall, CallRan, Onward, Spawn
<1>15. p # None
  BY McpConstants
<1> QED BY <1>1, <1>6, <1>11, <1>12, <1>13, <1>14, <1>15, OnwardKeeps DEF Spawn

LEMMA GreetAgainKeeps == ASSUME IInv, GreetAgain PROVE IInv'
<1>1. /\ client.at = "ready" /\ Busy /\ Tables /\ TypeOK /\ AllHeld
      /\ process' = Written(mine, "initialize") /\ UNCHANGED <<held, initialized>>
  BY Parts DEF GreetAgain, Busy
<1>2. mine \in Processes /\ mine = held[server] /\ mine # None
  BY McpConstants DEF GreetAgain, Running, mine
<1>3. "initialize" \in Asked
  BY DEF Asked
<1>4. /\ Tables' /\ AllHeld'
      /\ \A p \in Processes \ {mine} : process'[p] = process[p]
      /\ process'[mine].asked \in {"initialize", "nothing"}
  BY <1>1, <1>2, <1>3, WriteKeeps
<1>5. Onward /\ client'.at = "init"
  BY <1>1, OnwardAt DEF GreetAgain
<1>6. OneCall' /\ CallRan'
  BY <1>1, <1>4, <1>5 DEF IInv, ICalls, OneCall, CallRan, Onward, GreetAgain
<1> QED BY <1>1, <1>2, <1>4, <1>5, <1>6, OnwardKeeps DEF GreetAgain

LEMMA AlreadyReadyKeeps == ASSUME IInv, AlreadyReady PROVE IInv'
<1>1. /\ client.at = "ready" /\ Busy /\ Tables /\ TypeOK /\ AllHeld /\ server \in initialized
      /\ UNCHANGED <<held, initialized, process, index, offered, ran, told>>
  BY Parts DEF AlreadyReady, Busy
<1>2. held[server] # None
  BY McpConstants DEF AlreadyReady, Running, mine
<1>3. Onward /\ client'.at = "send"
  BY <1>1, OnwardAt DEF AlreadyReady
<1>4. Tables' /\ AllHeld'
  BY <1>1 DEF Tables, AllHeld, HeldOnce, Greeted, HandshakeFirst, OwnIsHandled
<1>5. OneCall' /\ CallRan'
  BY <1>1, <1>3 DEF IInv, ICalls, OneCall, CallRan, Onward
<1> QED BY <1>1, <1>2, <1>3, <1>4, <1>5, OnwardKeeps

\* Only a server that has been greeted is asked.
LEMMA SendKeeps == ASSUME IInv, Send PROVE IInv'
<1>1. /\ client.at = "send" /\ Busy /\ Tables /\ TypeOK /\ AllHeld
      /\ UNCHANGED <<held, initialized, index, offered, ran, told>>
  BY Parts DEF Send, Busy
<1>2. mine # None /\ mine \in Processes /\ mine = held[server] /\ server \in initialized
  BY <1>1, Sites DEF IInv, IProcs, AtServer, mine
<1>3. process[mine].greeted
  BY <1>1, <1>2 DEF Tables, Greeted
<1>4. client.op \in {"discover", "list", "read", "call"}
  BY <1>1 DEF IInv, IProcs, Employed, Busy, TypeOK, Client, Ops
<1>5. PICK request \in {"list", "read", "call"} :
        /\ process' = Written(mine, request)
        /\ request = "call" <=> client.op = "call"
  BY <1>4 DEF Send
<1>6. request \in Asked /\ request # "nothing"
  BY DEF Asked
<1>7. /\ Tables' /\ AllHeld'
      /\ \A p \in Processes \ {mine} : process'[p] = process[p]
      /\ process'[mine].asked \in {request, "nothing"}
      /\ \A i \in DOMAIN process'[mine].out : ~process'[mine].out[i].own
  BY <1>1, <1>2, <1>3, <1>5, <1>6, WriteKeeps
<1>8. Onward /\ client'.at = "wait"
  BY <1>1, OnwardAt DEF Send
<1>9. mine' = mine
  BY <1>1, <1>8 DEF mine, server, Onward
<1>10. OneCall' /\ CallRan'
  BY <1>1, <1>5, <1>7, <1>8, <1>9 DEF IInv, ICalls, OneCall, CallRan, Onward
<1> QED BY <1>1, <1>2, <1>7, <1>8, <1>10, OnwardKeeps

LEMMA InitializedKeeps == ASSUME IInv, Initialized PROVE IInv'
<1>1. /\ client.at = "init" /\ Waiting /\ Answered("result") /\ Busy /\ Tables /\ TypeOK /\ AllHeld
      /\ initialized' = initialized \cup {server}
      /\ UNCHANGED <<held, index, offered, ran, told>>
  BY Parts DEF Initialized, Greets, Waiting, Busy
<1>2. process' = [Read EXCEPT ![mine].greeted = TRUE]
  BY <1>1 DEF Initialized
<1>3. mine \in Processes /\ mine # None /\ mine = held[server] /\ process[mine].out # <<>>
  BY <1>1, AnswerSays DEF mine
<1>4. process'[mine].greeted
  BY <1>1, <1>2, <1>3 DEF Tables, Read, Process
<1>5. Tables' /\ AllHeld' /\ \A p \in Processes : process'[p].asked = process[p].asked
  BY <1>1, <1>2, <1>3, <1>4, ReadKeeps
<1>6. Onward /\ client'.at = "send"
  BY <1>1, OnwardAt DEF Initialized
<1>7. OneCall' /\ CallRan'
  BY <1>1, <1>5, <1>6 DEF IInv, ICalls, OneCall, CallRan, Onward
<1> QED BY <1>1, <1>3, <1>5, <1>6, <1>7, OnwardKeeps

LEMMA NextPageKeeps == ASSUME IInv, NextPage PROVE IInv'
<1>1. /\ client.at = "wait" /\ client.op # "call" /\ Waiting /\ Answered("result") /\ process' = Read
      /\ Busy /\ TypeOK /\ UNCHANGED <<held, initialized, index, offered, ran, told>>
  BY Parts DEF NextPage, Waiting, Busy
<1>2. Tables' /\ AllHeld' /\ \A p \in Processes : process'[p].asked # "call"
  BY <1>1, ReadLeavesNoCall
<1>3. Onward /\ client'.at = "send"
  <2> DEFINE new == [client EXCEPT !.at = "send", !.pages = @ + 1]
  <2>1. client \in Client /\ client.pages + 1 \in 0..MaxPages
    <3>1. client.pages \in Nat /\ client.pages < MaxPages /\ MaxPages \in Nat
      BY <1>1, McpConstants DEF NextPage, TypeOK, Client
    <3> QED BY <1>1, <3>1 DEF TypeOK
  <2>2. new \in Client /\ new.at = "send" /\ new.op = client.op /\ new.todo = client.todo
    BY <2>1 DEF Client
  <2>3. client' = new
    BY DEF NextPage
  <2> HIDE DEF new
  <2> QED BY <2>2, <2>3 DEF Onward
<1>4. OneCall' /\ CallRan'
  BY <1>1, <1>2, <1>3 DEF IInv, ICalls, OneCall, CallRan, Onward
<1>5. held'[server] # None /\ server \in initialized'
  BY <1>1 DEF IInv, IProcs, AtServer, mine
<1> QED BY <1>1, <1>2, <1>3, <1>4, <1>5, OnwardKeeps

-----------------------------------------------------------------------------
(* How the invariant survives the begin of an operation and the end of a runtime *)

LEMMA RestingAt ==
  ASSUME NEW at \in {"off", "idle", "aborted"}, client' = [Resting EXCEPT !.at = at]
  PROVE  client' \in Client /\ client'.at = at /\ client'.op = "none"
<1>1. 0 \in 0..1 /\ 0 \in 0..MaxPages /\ <<>> \in Seq(Servers)
  BY McpConstants
<1> QED BY <1>1 DEF Resting, Client, Ops

LEMMA ReadyFor ==
  ASSUME NEW op \in Ops, NEW todo \in Seq(Servers),
         client' = [Resting EXCEPT !.at = "ready", !.op = op, !.todo = todo]
  PROVE  client' \in Client /\ client'.at = "ready" /\ client'.op = op /\ client'.todo = todo
<1> DEFINE new == [at |-> "ready", op |-> op, todo |-> todo, tries |-> 0, attempts |-> 0, pages |-> 0]
<1>1. 0 \in 0..1 /\ 0 \in 0..MaxPages
  BY McpConstants
<1>2. new \in Client /\ new.at = "ready" /\ new.op = op /\ new.todo = todo
  BY <1>1 DEF Client
<1>3. client' = new
  BY DEF Resting
<1> HIDE DEF new
<1> QED BY <1>2, <1>3

\* At rest no server has a call to run, and names lead to their tools.
LEMMA AtRest ==
  ASSUME IInv, ~Busy
  PROVE  /\ client.op = "none" /\ Tables /\ Books /\ TypeOK /\ ran \in {0, 1}
         /\ \A p \in Processes : process[p].asked # "call"
         /\ client.at = "off" => offered = {}
         /\ client.at = "idle" => ~Conflict
BY Parts DEF IInv, IProcs, ICalls, INames, Employed, OneCall, Surveyed, Busy

LEMMA BeginKeeps ==
  ASSUME IInv, NEW op \in Ops \ {"none"}, NEW todo \in Seq(Servers), todo # <<>>,
         client' = [Resting EXCEPT !.at = "ready", !.op = op, !.todo = todo],
         IF op = "discover" THEN client.at = "off" /\ todo = Order ELSE client.at = "idle",
         op = "call" => Len(todo) = 1 /\ ran' = 0, ran' \in {0, ran},
         told' \in {"nothing", "ok", "failed"},
         UNCHANGED <<held, initialized, process, index, offered>>
  PROVE  IInv'
<1>1. client' \in Client /\ client'.at = "ready" /\ client'.op = op /\ client'.todo = todo
  BY ReadyFor
<1>2. ~Busy /\ client.at \notin {"aborted", "offer"}
  BY DEF Busy
<1>3. Tables' /\ Books' /\ AllHeld'
  BY <1>2, AtRest DEF Tables, Books, HeldOnce, Greeted, HandshakeFirst, OwnIsHandled, AllHeld,
                      IInv, IProcs, Owned
<1>4. ran' \in {0, 1} /\ ran' \in Nat
  BY <1>2, AtRest
<1>5. TypeOK'
  BY <1>1, <1>3, <1>4 DEF TypeOK, Tables, Books
<1>6. AtServer' /\ Owned' /\ Employed'
  BY <1>1, <1>3 DEF AtServer, Owned, AllHeld, Employed, Busy
<1>7. OneCall' /\ CallRan'
  BY <1>1, <1>2, <1>4, AtRest DEF OneCall, CallRan
<1>8. Routed' /\ (Conflict' <=> Conflict)
  BY DEF IInv, INames, Routed, Conflict
<1>9. Surveyed'
  BY <1>1, <1>2, <1>8, AtRest, McpConstants DEF Surveyed
<1> QED BY <1>3, <1>5, <1>6, <1>7, <1>8, <1>9 DEF IInv, IProcs, ICalls, INames, Tables

LEMMA StartKeeps == ASSUME IInv, Start PROVE IInv'
<1>1. "discover" \in Ops \ {"none"} /\ Order \in Seq(Servers) /\ Order # <<>>
  BY McpConstants DEF Ops
<1>2. told' \in {"nothing", "ok", "failed"} /\ ran' \in {0, ran}
  BY Parts DEF TypeOK, Start
<1> QED BY <1>1, <1>2, BeginKeeps DEF Start

LEMMA CallKeeps == ASSUME IInv, NEW q, Call(q) PROVE IInv'
<1>1. index[q][1] \in Servers
  BY Parts DEF Books, Call
<1>2. <<index[q][1]>> \in Seq(Servers) /\ Len(<<index[q][1]>>) = 1 /\ <<index[q][1]>> # <<>>
  BY <1>1
<1>3. "call" \in Ops \ {"none"}
  BY DEF Ops
<1> QED BY <1>2, <1>3, BeginKeeps DEF Call

LEMMA ListOrReadKeeps == ASSUME IInv, ListOrRead PROVE IInv'
<1>1. PICK op \in {"list", "read"}, todo \in Seq(Servers) : todo # <<>> /\ Ask(op, todo)
  <2>1. \A s \in Servers : <<s>> \in Seq(Servers) /\ <<s>> # <<>>
    OBVIOUS
  <2> QED BY <2>1, McpConstants, Zenon DEF ListOrRead
<1>2. op \in Ops \ {"none"} /\ op \notin {"discover", "call"}
  BY DEF Ops
<1>3. told' \in {"nothing", "ok", "failed"} /\ ran' \in {0, ran}
  BY <1>1, Parts DEF TypeOK, Ask
<1> QED BY <1>1, <1>2, <1>3, BeginKeeps DEF Ask

\* A runtime that could not be built leaves its processes to themselves.
LEMMA OfferKeeps == ASSUME IInv, Offer PROVE IInv'
<1>1. /\ client.at = "offer" /\ ~Busy
      /\ UNCHANGED <<held, initialized, process, index, offered, ran, told>>
  BY DEF Offer, Busy
<1>2. PICK at \in {"aborted", "idle"} :
        /\ client' = [Resting EXCEPT !.at = at]
        /\ at = "idle" => ~Conflict
  BY DEF Offer
<1>3. client' \in Client /\ client'.at = at /\ client'.op = "none"
  BY <1>2, RestingAt
<1>4. TypeOK'
  BY <1>1, <1>3, AtRest DEF TypeOK
<1>5. HeldOnce' /\ Greeted' /\ HandshakeFirst' /\ OwnIsHandled'
  BY <1>1, AtRest DEF Tables, HeldOnce, Greeted, HandshakeFirst, OwnIsHandled
<1>6. Owned' /\ AtServer' /\ Employed'
  BY <1>1, <1>3 DEF IInv, IProcs, Owned, AtServer, Employed, Busy
<1>7. OneCall' /\ CallRan'
  BY <1>1, <1>3, AtRest DEF OneCall, CallRan
<1>8. (Conflict' <=> Conflict) /\ Routed'
  BY <1>1 DEF Conflict, Routed, IInv, INames
<1>9. Surveyed'
  BY <1>1, <1>2, <1>3, <1>8 DEF Surveyed
<1> QED BY <1>4, <1>5, <1>6, <1>7, <1>8, <1>9 DEF IInv, IProcs, ICalls, INames

LEMMA ShutdownKeeps == ASSUME IInv, Shutdown PROVE IInv'
<1>1. /\ client.at = "idle" /\ ~Busy
      /\ held' = [s \in Servers |-> None] /\ initialized' = {}
      /\ process' = [p \in Processes |-> IF \E s \in Servers : held[s] = p THEN Unused ELSE process[p]]
      /\ index' = [q \in {} |-> None] /\ offered' = {} /\ UNCHANGED <<ran, told>>
  BY DEF Shutdown, Busy
<1>2. client' \in Client /\ client'.at = "off" /\ client'.op = "none"
  BY RestingAt DEF Shutdown
<1>3. /\ process' \in [Processes -> Process]
      /\ \A p \in Processes : process'[p] = Unused \/ process'[p] = process[p]
      /\ \A p \in Processes : process'[p] = Unused \/ \A s \in Servers : held[s] # p
  BY <1>1, AtRest, UnusedProcess DEF Tables
<1>4. \A p \in Processes : ~process'[p].live /\ process'[p].asked # "call"
  BY <1>1, <1>3, AtRest, UnusedProcess DEF IInv, IProcs, Owned
<1>5. DOMAIN index' = {}
  BY <1>1
<1>6. TypeOK'
  BY <1>1, <1>2, <1>3, <1>5, AtRest DEF TypeOK
<1>7. HeldOnce' /\ Greeted' /\ Owned'
  BY <1>1, <1>4 DEF HeldOnce, Greeted, Owned
<1>8. HandshakeFirst' /\ OwnIsHandled'
  <2>1. DOMAIN <<>> = {}
    OBVIOUS
  <2> QED BY <1>1, <1>3, <2>1, AtRest, UnusedProcess DEF Tables, HandshakeFirst, OwnIsHandled
<1>9. AtServer' /\ Employed' /\ OneCall' /\ CallRan'
  BY <1>1, <1>2, <1>4, AtRest DEF AtServer, Employed, Busy, OneCall, CallRan
<1>10. Routed' /\ Surveyed'
  BY <1>1, <1>2 DEF Routed, Surveyed
<1> QED BY <1>6, <1>7, <1>8, <1>9, <1>10 DEF IInv, IProcs, ICalls, INames

-----------------------------------------------------------------------------
(* How the invariant survives what the servers do *)

LEMMA ServerKeeps ==
  ASSUME IInv, process' \in [Processes -> Process],
         \A p \in Processes : /\ process'[p].live => process[p].live
                              /\ process'[p].greeted = process[p].greeted
                              /\ process'[p].asked \in {process[p].asked, "nothing"},
         OwnIsHandled', OneCall', CallRan',
         UNCHANGED <<held, initialized, client, index, offered, told>>
  PROVE  IInv'
<1>1. TypeOK /\ Tables
  BY Parts
<1>2. TypeOK'
  BY <1>1 DEF TypeOK, CallRan
<1>3. HeldOnce' /\ Owned'
  BY DEF IInv, IProcs, HeldOnce, Owned
<1>4. Greeted'
  <2>1. \A s \in initialized : held[s] \in Processes
    BY <1>1 DEF Tables, Greeted
  <2> QED BY <1>1, <2>1 DEF Greeted, Tables
<1>5. HandshakeFirst'
  BY <1>1 DEF Tables, HandshakeFirst
<1>6. AtServer' /\ Employed'
  BY DEF IInv, IProcs, AtServer, Employed, Busy, mine, server
<1>7. INames'
  BY DEF IInv, INames, Routed, Surveyed, Conflict
<1> QED BY <1>2, <1>3, <1>4, <1>5, <1>6, <1>7 DEF IInv, IProcs, ICalls

\* A line that a process adds to its pipe.
LEMMA OneMoreLine ==
  ASSUME NEW out \in Seq(Line), NEW line \in Line
  PROVE  /\ Append(out, line) \in Seq(Line)
         /\ \A i \in DOMAIN Append(out, line) :
              \/ i \in DOMAIN out /\ Append(out, line)[i] = out[i]
              \/ Append(out, line)[i] = line
<1>1. /\ Append(out, line) \in Seq(Line) /\ Len(Append(out, line)) = Len(out) + 1
      /\ \A i \in 1..Len(out) : Append(out, line)[i] = out[i]
      /\ Append(out, line)[Len(out) + 1] = line
  BY AppendProperties
<1>2. Len(out) \in Nat /\ DOMAIN out = 1..Len(out)
      /\ DOMAIN Append(out, line) = 1..(Len(out) + 1)
  BY <1>1, LenProperties
<1> QED BY <1>1, <1>2

LEMMA ExitKeeps == ASSUME IInv, NEW p \in Processes, Exit(p) PROVE IInv'
<1> DEFINE new == [process[p] EXCEPT !.live = FALSE, !.asked = "nothing"]
<1>1. TypeOK /\ process \in [Processes -> Process]
  BY Parts DEF Tables
<1>2. process' = [process EXCEPT ![p] = new]
  BY <1>1 DEF Exit
<1>3. /\ new \in Process /\ ~new.live /\ new.asked = "nothing" /\ new.out = process[p].out
      /\ new.greeted = process[p].greeted
  BY <1>1 DEF Process, Asked
<1> HIDE DEF new
<1>4. /\ process' \in [Processes -> Process] /\ process'[p] = new
      /\ \A q \in Processes \ {p} : process'[q] = process[q]
  BY <1>1, <1>2, <1>3
<1>5. UNCHANGED <<held, initialized, client, index, offered, ran, told>> /\ mine' = mine
  BY DEF Exit, mine, server
<1>6. OwnIsHandled'
  BY <1>3, <1>4 DEF OwnIsHandled, IInv, ICalls
<1>7. OneCall' /\ CallRan'
  <2>1. client.op = "call" /\ client.at = "wait" => mine \in Processes
    BY <1>1, Sites DEF IInv, IProcs, AtServer, Busy
  <2> QED BY <1>3, <1>4, <1>5, <2>1 DEF IInv, ICalls, OneCall, CallRan
<1> QED BY <1>3, <1>4, <1>5, <1>6, <1>7, ServerKeeps

LEMMA ChatterKeeps == ASSUME IInv, NEW p \in Processes, Chatter(p) PROVE IInv'
<1>1. TypeOK /\ process \in [Processes -> Process]
  BY Parts DEF Tables
<1>2. PICK body \in {"result", "notice"} :
        process' = [process EXCEPT ![p].out = Append(@, [own |-> FALSE, body |-> body])]
  BY DEF Chatter
<1> DEFINE line == [own |-> FALSE, body |-> body]
           new  == [process[p] EXCEPT !.out = Append(@, line)]
<1>3. line \in Line /\ ~line.own
  BY DEF Line
<1>4. process' = [process EXCEPT ![p] = new]
  BY <1>1, <1>2
<1> HIDE DEF line
<1>5. /\ Append(process[p].out, line) \in Seq(Line)
      /\ \A i \in DOMAIN Append(process[p].out, line) :
            \/ i \in DOMAIN process[p].out /\ Append(process[p].out, line)[i] = process[p].out[i]
            \/ Append(process[p].out, line)[i] = line
  BY <1>1, <1>3, OneMoreLine DEF Process
<1>6. /\ new \in Process /\ new.live = process[p].live /\ new.asked = process[p].asked
      /\ new.out = Append(process[p].out, line) /\ new.greeted = process[p].greeted
  BY <1>1, <1>5 DEF Process
<1> HIDE DEF new
<1>7. /\ process' \in [Processes -> Process] /\ process'[p] = new
      /\ \A q \in Processes \ {p} : process'[q] = process[q]
  BY <1>1, <1>4, <1>6
<1>8. UNCHANGED <<held, initialized, client, index, offered, ran, told>> /\ mine' = mine
  BY DEF Chatter, mine, server
<1>9. \A i \in DOMAIN process'[p].out : process'[p].out[i].own =>
        i \in DOMAIN process[p].out /\ process[p].out[i].own
  BY <1>3, <1>5, <1>6, <1>7
<1>10. OwnIsHandled'
  BY <1>6, <1>7, <1>9 DEF OwnIsHandled, IInv, ICalls
<1>11. OneCall' /\ CallRan'
  <2>1. client.op = "call" /\ client.at = "wait" => mine \in Processes
    BY <1>1, Sites DEF IInv, IProcs, AtServer, Busy
  <2> QED BY <1>6, <1>7, <1>8, <1>9, <2>1 DEF IInv, ICalls, OneCall, CallRan
<1> QED BY <1>6, <1>7, <1>8, <1>10, <1>11, ServerKeeps

\* The call under way runs when its request is handled, and before that nothing answers it.
LEMMA HandleKeeps == ASSUME IInv, NEW p \in Processes, Handle(p) PROVE IInv'
<1>1. TypeOK /\ process \in [Processes -> Process] /\ process[p].asked # "nothing"
  BY Parts DEF Tables, Handle
<1>2. \E out \in {process[p].out} \cup
                 {Append(process[p].out, [own |-> TRUE, body |-> body]) : body \in {"result", "error", "empty"}} :
        process' = [process EXCEPT ![p] = [process[p] EXCEPT !.asked = "nothing", !.out = out]]
  <2>1. CASE process' = [process EXCEPT ![p].asked = "nothing"]
    <3>1. [process[p] EXCEPT !.asked = "nothing", !.out = process[p].out] = [process[p] EXCEPT !.asked = "nothing"]
      BY <1>1 DEF Process
    <3>2. process' = [process EXCEPT ![p] = [process[p] EXCEPT !.asked = "nothing"]]
      BY <1>1, <2>1
    <3> QED BY <3>1, <3>2
  <2>2. ASSUME NEW body \in {"result", "error", "empty"},
               process' = [process EXCEPT ![p].asked = "nothing",
                                          ![p].out = Append(@, [own |-> TRUE, body |-> body])]
        PROVE  process' = [process EXCEPT ![p] = [process[p] EXCEPT !.asked = "nothing",
                             !.out = Append(process[p].out, [own |-> TRUE, body |-> body])]]
    BY <1>1, <2>2 DEF Process
  <2> QED BY <2>1, <2>2 DEF Handle
<1>3. PICK out \in {process[p].out} \cup
                 {Append(process[p].out, [own |-> TRUE, body |-> body]) : body \in {"result", "error", "empty"}} :
        process' = [process EXCEPT ![p] = [process[p] EXCEPT !.asked = "nothing", !.out = out]]
  BY <1>2
<1>4. out \in Seq(Line)
  <2>1. \A body \in {"result", "error", "empty"} : [own |-> TRUE, body |-> body] \in Line
    BY DEF Line
  <2>2. process[p].out \in Seq(Line)
    BY <1>1 DEF Process
  <2>3. \A line \in Line : Append(process[p].out, line) \in Seq(Line)
    BY <2>2, OneMoreLine
  <2> QED BY <1>3, <2>1, <2>2, <2>3
<1> DEFINE new == [process[p] EXCEPT !.asked = "nothing", !.out = out]
<1>5. /\ new \in Process /\ new.live = process[p].live /\ new.asked = "nothing"
      /\ new.out = out /\ new.greeted = process[p].greeted
  BY <1>1, <1>4 DEF Process, Asked
<1> HIDE DEF new
<1>6. /\ process' \in [Processes -> Process] /\ process'[p] = new
      /\ \A q \in Processes \ {p} : process'[q] = process[q]
  BY <1>1, <1>3, <1>5 DEF new
<1>7. UNCHANGED <<held, initialized, client, index, offered, told>> /\ mine' = mine
  BY DEF Handle, mine, server
<1>8. OwnIsHandled'
  BY <1>5, <1>6 DEF OwnIsHandled, IInv, ICalls
<1>9. client.op = "call" /\ client.at = "wait" => mine \in Processes
  BY <1>1, Sites DEF IInv, IProcs, AtServer, Busy
<1>10. CASE process[p].asked = "call"
  <2>1. client.at = "wait" /\ client.op = "call" /\ p = mine /\ ran = 0 /\ ran' = 1
    BY <1>10 DEF IInv, ICalls, OneCall, Handle
  <2>2. OneCall' /\ CallRan'
    BY <1>5, <1>6, <1>7, <2>1 DEF IInv, ICalls, OneCall, CallRan
  <2> QED BY <1>5, <1>6, <1>7, <1>8, <2>2, ServerKeeps
<1>11. CASE process[p].asked # "call"
  <2>1. ran' = ran
    BY <1>11 DEF Handle
  <2>2. client.op = "call" /\ client.at = "wait" => p # mine
    BY <1>1, <1>11 DEF IInv, ICalls, OneCall
  <2>3. OneCall' /\ CallRan'
    BY <1>5, <1>6, <1>7, <1>9, <2>1, <2>2 DEF IInv, ICalls, OneCall, CallRan
  <2> QED BY <1>5, <1>6, <1>7, <1>8, <2>3, ServerKeeps
<1> QED BY <1>10, <1>11

-----------------------------------------------------------------------------
(* The inductive invariant *)

LEMMA InitHolds == Init => IInv
<1> SUFFICES ASSUME Init PROVE IInv
  OBVIOUS
<1>1. 0 \in 0..1 /\ 0 \in 0..MaxPages /\ <<>> \in Seq(Servers) /\ DOMAIN <<>> = {}
  BY McpConstants
<1>2. client \in Client /\ client.at = "off" /\ client.op = "none"
  BY <1>1 DEF Init, Resting, Client, Ops
<1>3. /\ process \in [Processes -> Process] /\ DOMAIN index = {}
      /\ \A p \in Processes : process[p] = Unused
  BY UnusedProcess DEF Init
<1>4. TypeOK
  BY <1>2, <1>3 DEF Init, TypeOK
<1>5. HeldOnce /\ Owned /\ Greeted /\ HandshakeFirst /\ OwnIsHandled
  BY <1>1, <1>3, UnusedProcess DEF Init, HeldOnce, Owned, Greeted, HandshakeFirst, OwnIsHandled
<1>6. AtServer /\ Employed /\ OneCall /\ CallRan
  BY <1>2, <1>3, UnusedProcess DEF Init, AtServer, Employed, Busy, OneCall, CallRan
<1>7. Routed /\ Surveyed
  BY <1>2 DEF Init, Routed, Surveyed
<1> QED BY <1>4, <1>5, <1>6, <1>7 DEF IInv, IProcs, ICalls, INames

LEMMA NextKeeps == IInv /\ [Next]_vars => IInv'
<1> SUFFICES ASSUME IInv, [Next]_vars PROVE IInv'
  OBVIOUS
<1>1. CASE Start \/ ListOrRead \/ Shutdown
  BY <1>1, StartKeeps, ListOrReadKeeps, ShutdownKeeps
<1>2. CASE SpawnFails \/ Spawn \/ GreetAgain \/ AlreadyReady \/ Send
  BY <1>2, SpawnFailsKeeps, SpawnKeeps, GreetAgainKeeps, AlreadyReadyKeeps, SendKeeps
<1>3. CASE Initialized \/ Refused \/ Empty \/ NextPage
  BY <1>3, InitializedKeeps, RefusedKeeps, EmptyKeeps, NextPageKeeps
<1>4. CASE Discovered \/ Succeeds \/ Offer
  BY <1>4, DiscoveredKeeps, SucceedsKeeps, OfferKeeps
<1>5. ASSUME NEW e \in Errors, InitializeFails(e) \/ RequestFails(e) PROVE IInv'
  BY <1>5, InitializeFailsKeeps, RequestFailsKeeps
<1>6. ASSUME NEW q \in ToolNames, Call(q) PROVE IInv'
  BY <1>6, CallKeeps
<1>7. ASSUME NEW p \in Processes, Handle(p) \/ Chatter(p) \/ Exit(p) PROVE IInv'
  BY <1>7, HandleKeeps, ChatterKeeps, ExitKeeps
<1>8. CASE UNCHANGED vars
  BY <1>8 DEF vars, IInv, IProcs, ICalls, INames, TypeOK, HeldOnce, Owned, Greeted, AtServer, Employed,
              Busy, HandshakeFirst, OwnIsHandled, OneCall, CallRan, Routed, Surveyed, Conflict, mine, server
<1> QED BY <1>1, <1>2, <1>3, <1>4, <1>5, <1>6, <1>7, <1>8 DEF Next, ClientStep

LEMMA Invariance == Spec => []IInv
BY InitHolds, NextKeeps, PTL DEF Spec

-----------------------------------------------------------------------------
(* What the manager guarantees *)

(* Every step of the manager and of the servers leaves its state well formed,  *)
(* and a client with a server to work on has one (McpServerManager).           *)
THEOREM TypeCorrect == Spec => []TypeOK
<1>1. IInv => TypeOK
  BY DEF IInv, IProcs
<1> QED BY <1>1, Invariance, PTL

(* Timeouts, retries and replaced processes leave no process behind, and no    *)
(* two servers share one (reset_server, ensure_server_ready).                  *)
THEOREM NoProcessIsLost == Spec => []OneProcess
<1>1. IInv => OneProcess
  <2> SUFFICES ASSUME IInv, client.at # "aborted", NEW p \in Processes, process[p].live
               PROVE  \E s \in Servers : held[s] = p /\ \A r \in Servers : held[r] = p => r = s
    BY DEF OneProcess
  <2>1. PICK s \in Servers : held[s] = p
    BY DEF IInv, IProcs, Owned
  <2>2. p # None
    BY McpConstants
  <2> QED BY <2>1, <2>2 DEF IInv, IProcs, HeldOnce
<1> QED BY <1>1, Invariance, PTL

(* No process is asked for tools, resources or a call before it has answered   *)
(* initialize (ensure_server_ready): the flag is always about the process held. *)
THEOREM GreetedBeforeAsked == Spec => []HandshakeFirst
<1>1. IInv => HandshakeFirst
  BY DEF IInv, IProcs
<1> QED BY <1>1, Invariance, PTL

(* Once tools are offered, each name leads to the tool it was discovered as,   *)
(* however names are normalised (mcp_tool_name, with_runtime_tools).           *)
THEOREM NamesReachTheirTools == Spec => []OfferedToolsReachTheirServer
<1>1. IInv => OfferedToolsReachTheirServer
  BY DEF IInv, INames, Surveyed, Routed, OfferedToolsReachTheirServer
<1> QED BY <1>1, Invariance, PTL

-----------------------------------------------------------------------------
(* The manager implements a tool that runs at most once for a call *)

LEMMA Stutters ==
  ASSUME client'.op = "call" <=> client.op = "call", UNCHANGED <<ran, told>>
  PROVE  UNCHANGED Once!vars
BY DEF Once!vars

LEMMA FailedTells == ASSUME IInv, Busy, Failed PROVE Once!Tell \/ UNCHANGED Once!vars
<1>1. Ended
  BY Parts, DoneEnds DEF IInv, IProcs, Failed
<1>2. CASE client.op = "call"
  BY <1>1, <1>2 DEF Failed, Ended, Once!Tell
<1>3. CASE client.op # "call"
  BY <1>1, <1>3, Stutters DEF Failed, Ended
<1> QED BY <1>2, <1>3

LEMMA ErrorTells ==
  ASSUME IInv, Busy, NEW e, OperationError(e) PROVE Once!Tell \/ UNCHANGED Once!vars
<1>1. CASE OuterRetry(e)
  <2>1. TypeOK
    BY Parts
  <2>2. Again /\ UNCHANGED <<ran, told>>
    BY <1>1, <2>1, RetryIsAgain DEF OperationError
  <2> QED BY <2>2, Stutters DEF Again
<1>2. CASE ~OuterRetry(e)
  BY <1>2, FailedTells DEF OperationError
<1> QED BY <1>1, <1>2

LEMMA StepRefines == IInv /\ [Next]_vars => [Once!Next]_(Once!vars)
<1> SUFFICES ASSUME IInv, [Next]_vars
             PROVE  Once!Ask \/ Once!Run \/ Once!Tell \/ UNCHANGED Once!vars
  BY DEF Once!Next
<1>1. ASSUME NEW q \in ToolNames, Call(q) PROVE Once!Ask
  <2>1. client.op # "call"
    BY <1>1, AtRest DEF Call, Busy
  <2> QED BY <1>1, <2>1 DEF Call, Resting, Once!Ask
<1>2. ASSUME NEW p \in Processes, Handle(p) PROVE Once!Run \/ UNCHANGED Once!vars
  <2>1. CASE process[p].asked = "call"
    BY <1>2, <2>1 DEF Handle, IInv, ICalls, OneCall, Once!Run
  <2>2. CASE process[p].asked # "call"
    BY <1>2, <2>2, Stutters DEF Handle
  <2> QED BY <2>1, <2>2
<1>3. ASSUME NEW p \in Processes, Chatter(p) \/ Exit(p) PROVE UNCHANGED Once!vars
  BY <1>3, Stutters DEF Chatter, Exit
<1>4. CASE Start \/ ListOrRead
  <2>1. client.op # "call"
    BY <1>4, AtRest DEF Start, ListOrRead, Ask, Busy
  <2>2. client'.op # "call" /\ UNCHANGED <<ran, told>>
    BY <1>4 DEF Start, ListOrRead, Ask, Resting
  <2> QED BY <2>1, <2>2, Stutters
<1>5. CASE Offer \/ Shutdown
  <2>1. client.op # "call"
    BY <1>5, AtRest DEF Offer, Shutdown, Busy
  <2>2. client'.op # "call" /\ UNCHANGED <<ran, told>>
    BY <1>5 DEF Offer, Shutdown, Resting
  <2> QED BY <2>1, <2>2, Stutters
<1>6. CASE Spawn \/ GreetAgain \/ AlreadyReady \/ Send \/ Initialized \/ NextPage
  <2>1. client \in Client
    BY Parts DEF TypeOK
  <2>2. client'.op = client.op /\ UNCHANGED <<ran, told>>
    BY <1>6, <2>1 DEF Spawn, GreetAgain, AlreadyReady, Send, Initialized, NextPage, Client
  <2> QED BY <2>2, Stutters
<1>7. CASE SpawnFails \/ Refused \/ Empty
  BY <1>7, FailedTells DEF SpawnFails, Refused, Empty, Waiting, Busy
<1>8. CASE Discovered
  <2>1. Busy /\ client.op = "discover" /\ Ended /\ UNCHANGED <<ran, told>>
    BY <1>8, DiscoveredKeepsNames DEF Discovered, Busy
  <2> QED BY <2>1, Stutters DEF Ended
<1>9. CASE Succeeds
  <2>1. Busy /\ Ended /\ ran' = ran
    BY <1>9, Parts, DoneEnds DEF Succeeds, Busy, IInv, IProcs
  <2>2. CASE client.op = "call"
    <3>1. ran = 1 /\ told' = "ok"
      BY <1>9, <2>2, AnswerSays DEF Succeeds, Waiting
    <3> QED BY <2>1, <2>2, <3>1 DEF Ended, Once!Tell
  <2>3. CASE client.op # "call"
    BY <1>9, <2>1, <2>3, Stutters DEF Ended, Succeeds
  <2> QED BY <2>2, <2>3
<1>10. ASSUME NEW e \in Errors, RequestFails(e) PROVE Once!Tell \/ UNCHANGED Once!vars
  BY <1>10, ErrorTells DEF RequestFails, Busy
<1>11. ASSUME NEW e \in Errors, InitializeFails(e) PROVE Once!Tell \/ UNCHANGED Once!vars
  <2>1. CASE Retryable(e) /\ client.tries = 0
    <3>1. client \in Client
      BY Parts DEF TypeOK
    <3>2. client'.op = client.op /\ UNCHANGED <<ran, told>>
      BY <1>11, <2>1, <3>1 DEF InitializeFails, Client
    <3> QED BY <3>2, Stutters
  <2>2. CASE ~(Retryable(e) /\ client.tries = 0)
    BY <1>11, <2>2, ErrorTells DEF InitializeFails, Busy
  <2> QED BY <2>1, <2>2
<1>12. CASE UNCHANGED vars
  BY <1>12, Stutters DEF vars
<1> QED BY <1>1, <1>2, <1>3, <1>4, <1>5, <1>6, <1>7, <1>8, <1>9, <1>10, <1>11, <1>12 DEF Next, ClientStep

(* A call of a tool runs it at most once, whatever is lost, late or repeated,  *)
(* and success is told only of a call that ran (call_tool, which does not      *)
(* retry, and McpStdioProcess::request, which compares ids).                   *)
THEOREM CallsRefineOnce == Spec => CallsRunAtMostOnce
<1>1. Init => Once!Init
  BY DEF Init, Resting, Once!Init
<1> QED BY <1>1, StepRefines, Invariance, PTL DEF Spec, Once!Spec, CallsRunAtMostOnce
===============================================================================
