-------------------------- MODULE PluginManagerProofs --------------------------
(***************************************************************************)
(* A sync of the bundled plugins sees all damage but that of an unfinished *)
(* removal (invariant IInv), and what a command told the user of a plugin  *)
(* stays true until the next one on it (invariant Promised), whatever the  *)
(* plugins, their versions and the step at which commands stop.            *)
(***************************************************************************)
EXTENDS PluginManager, SequenceTheorems, TLAPS

Ats == {"call", "remove", "removing", "copy", "copying", "fill registry", "fill settings",
        "syncing", "pruning", "dropping"}

Commands ==
  [op : Ops, plugin : Plugins \cup {Nobody}, todo : Seq(Phases), at : Ats, left : SUBSET Bundled,
   target : Plugins \cup {Nobody}, copy : [Plugins -> Nat], dirty : BOOLEAN,
   settings : [Plugins -> {"unset", "on", "off"}]]

Ranges ==
  /\ source \in [Plugins -> Nat \ {0}]
  /\ dir \in [Plugins -> [files : Files, ver : Nat]]
  /\ registry \in [Plugins -> Nat]
  /\ enabled \in [Plugins -> {"unset", "on", "off"}]
  /\ cmd \in Commands
  /\ halfPruned \subseteq Bundled

Whole(p) == dir[p] = [files |-> "whole", ver |-> source[p]]

Replacing == cmd.at \in {"remove", "removing", "copy", "copying"}

\* No record is of a version that was never at the source.
OfThePast == \A p \in Plugins : registry[p] <= source[p] /\ cmd.copy[p] <= source[p]

\* A record of the present version, on disk or in memory, stands for a whole copy.
RecordsAreEarned ==
  \A b \in Bundled \ halfPruned :
    (registry[b] = source[b] \/ cmd.copy[b] = source[b]) => Whole(b)

\* What the sync has still to look at is in memory as it is on disk.
LeftAsRead ==
  /\ \A b \in cmd.left : cmd.copy[b] = registry[b]
  /\ cmd.at \in {"call", "fill registry", "fill settings", "dropping", "pruning"} => cmd.left = {}

\* A bundled plugin is replaced only while neither record is of the present version.
ReplacedForCause ==
  /\ Replacing => cmd.target \in Plugins \ cmd.left
  /\ Replacing /\ cmd.target \in Bundled \ halfPruned =>
       registry[cmd.target] # source[cmd.target] /\ cmd.copy[cmd.target] # source[cmd.target]
  /\ cmd.at = "pruning" => cmd.target \in halfPruned
  /\ cmd.at = "dropping" => cmd.plugin \in External

\* Only plugins of the user are replaced, recorded and dropped by name.
OwnPlugins ==
  cmd.plugin \notin External => \A i \in DOMAIN cmd.todo : cmd.todo[i] \in {"sync", "discover", "set"}

\* A command is inside a call only while one is left.
InACall == cmd.at # "call" => cmd.todo # <<>>

IInv == Ranges /\ OfThePast /\ RecordsAreEarned /\ LeftAsRead /\ ReplacedForCause /\ OwnPlugins
        /\ InACall

-----------------------------------------------------------------------------

LEMMA CallsAreTyped ==
  ASSUME NEW op \in Ops \ {"none"}
  PROVE  /\ Calls(op) \in Seq(Phases)
         /\ op \in {"start", "enable", "disable"} =>
              \A i \in DOMAIN Calls(op) : Calls(op)[i] \in {"sync", "discover", "set"}
<1>1. CASE op = "start"
  <2>1. Calls(op) = <<"sync", "discover">>
    BY <1>1 DEF Calls
  <2> QED
    BY <2>1 DEF Phases
<1>2. CASE op = "install"
  <2>1. Calls(op) = <<"replace", "record", "set", "sync", "discover", "sync", "discover">>
    BY <1>2 DEF Calls
  <2>2. Calls(op) \in Seq(Phases)
    BY <2>1 DEF Phases
  <2>3. op \notin {"start", "enable", "disable"}
    BY <1>2
  <2> QED
    BY <2>2, <2>3
<1>3. CASE op = "update"
  <2>1. Calls(op) = <<"replace", "record", "sync", "discover", "sync", "discover">>
    BY <1>3 DEF Calls
  <2>2. Calls(op) \in Seq(Phases)
    BY <2>1 DEF Phases
  <2>3. op \notin {"start", "enable", "disable"}
    BY <1>3
  <2> QED
    BY <2>2, <2>3
<1>4. CASE op = "uninstall"
  <2>1. Calls(op) = <<"drop", "set", "sync", "discover">>
    BY <1>4 DEF Calls
  <2>2. Calls(op) \in Seq(Phases)
    BY <2>1 DEF Phases
  <2>3. op \notin {"start", "enable", "disable"}
    BY <1>4
  <2> QED
    BY <2>2, <2>3
<1>5. CASE op \in {"enable", "disable"}
  <2>1. Calls(op) = <<"sync", "discover", "sync", "discover", "set", "sync", "discover">>
    BY <1>5 DEF Calls
  <2> QED
    BY <2>1 DEF Phases
<1> QED
  BY <1>1, <1>2, <1>3, <1>4, <1>5 DEF Ops

LEMMA IdleIsTyped ==
  /\ Idle \in Commands
  /\ Idle.at = "call" /\ Idle.left = {} /\ Idle.todo = <<>> /\ Idle.plugin = Nobody
  /\ Idle.copy = [p \in Plugins |-> 0]
BY DEF Idle, Commands, Ops, Ats, Phases, Plugins

\* What every call leaves behind when it returns.
LEMMA Returning ==
  ASSUME Ranges, OwnPlugins, cmd.todo # <<>>, Return
  PROVE  /\ cmd' \in Commands /\ OwnPlugins'
         /\ cmd'.at = "call" /\ cmd'.left = {} /\ cmd'.copy = [p \in Plugins |-> 0]
<1> USE IdleIsTyped
<1>1. CASE Len(cmd.todo) = 1
  <2>1. cmd' = Idle
    BY <1>1 DEF Return
  <2> QED
    BY <2>1 DEF OwnPlugins
<1>2. CASE Len(cmd.todo) # 1
  <2>1. cmd' = [Idle EXCEPT !.op = cmd.op, !.plugin = cmd.plugin, !.todo = Tail(cmd.todo)]
    BY <1>2 DEF Return
  <2>2. cmd.todo \in Seq(Phases) /\ cmd.op \in Ops /\ cmd.plugin \in Plugins \cup {Nobody}
    BY DEF Ranges, Commands
  <2>3. Tail(cmd.todo) \in Seq(Phases)
    BY <2>2
  <2>4. cmd' \in Commands /\ cmd'.at = "call" /\ cmd'.left = {} /\ cmd'.copy = [p \in Plugins |-> 0]
    BY <2>1, <2>2, <2>3 DEF Commands
  <2>5. cmd'.plugin = cmd.plugin /\ cmd'.todo = Tail(cmd.todo)
    BY <2>1 DEF Commands
  <2>6. \A i \in DOMAIN Tail(cmd.todo) : i + 1 \in DOMAIN cmd.todo /\ Tail(cmd.todo)[i] = cmd.todo[i + 1]
    BY <2>2
  <2> QED
    BY <2>4, <2>5, <2>6 DEF OwnPlugins
<1> QED
  BY <1>1, <1>2

\* Commands that only read, move on or end.
LEMMA Resting ==
  ASSUME IInv, UNCHANGED <<source, dir, registry, halfPruned>>,
         enabled' \in [Plugins -> {"unset", "on", "off"}],
         cmd' \in Commands, OwnPlugins', cmd'.at = "call", cmd'.left = {},
         cmd'.copy = [p \in Plugins |-> 0]
  PROVE  IInv'
<1> USE DEF IInv
<1>1. Ranges'
  BY DEF Ranges
<1>2. \A p \in Plugins : source[p] \in Nat \ {0} /\ registry[p] \in Nat /\ cmd'.copy[p] = 0
  BY DEF Ranges
<1>3. OfThePast'
  BY <1>2 DEF OfThePast
<1>4. \A b \in Bundled : b \in Plugins
  BY DEF Plugins
<1>5. RecordsAreEarned'
  BY <1>2, <1>4 DEF RecordsAreEarned, Whole
<1>6. LeftAsRead' /\ ReplacedForCause' /\ InACall'
  BY DEF LeftAsRead, ReplacedForCause, Replacing, InACall
<1> QED
  BY <1>1, <1>3, <1>5, <1>6

\* A registry file that was cut, with what will fill it.
LEMMA Cutting ==
  ASSUME IInv, NEW copy \in [Plugins -> Nat], CutRegistry(copy), cmd.left = {}, cmd.todo # <<>>,
         \A p \in Plugins : copy[p] <= source[p],
         \A b \in Bundled \ halfPruned : copy[b] = source[b] => Whole(b)',
         UNCHANGED <<source, enabled, halfPruned>>,
         dir' \in [Plugins -> [files : Files, ver : Nat]]
  PROVE  IInv'
<1> USE DEF IInv
<1>1. cmd' = [cmd EXCEPT !.copy = copy, !.at = "fill registry"]
  BY DEF CutRegistry
<1>2. cmd \in Commands
  BY DEF Ranges
<1>3. /\ cmd' \in Commands /\ cmd'.at = "fill registry" /\ cmd'.left = {} /\ cmd'.copy = copy
      /\ cmd'.todo = cmd.todo /\ cmd'.plugin = cmd.plugin
  BY <1>1, <1>2 DEF Commands, Ats
<1>4. registry' = [p \in Plugins |-> 0]
  BY DEF CutRegistry
<1>5. Ranges'
  BY <1>3, <1>4 DEF Ranges
<1>6. \A p \in Plugins : source'[p] \in Nat \ {0} /\ registry'[p] = 0 /\ copy[p] <= source'[p]
  BY <1>4 DEF Ranges
<1>7. OfThePast'
  <2>1. ASSUME NEW p \in Plugins PROVE registry'[p] <= source'[p] /\ cmd'.copy[p] <= source'[p]
    <3>1. registry'[p] <= source'[p]
      BY <1>6
    <3>2. cmd'.copy[p] = copy[p]
      BY <1>3
    <3> QED
      BY <1>6, <3>1, <3>2
  <2> QED
    BY <2>1 DEF OfThePast
<1>8. RecordsAreEarned'
  BY <1>3, <1>6 DEF RecordsAreEarned, Plugins
<1>9. LeftAsRead' /\ ReplacedForCause'
  BY <1>3 DEF LeftAsRead, ReplacedForCause, Replacing
<1>10. InACall' /\ OwnPlugins'
  BY <1>3 DEF InACall, OwnPlugins
<1> QED
  BY <1>5, <1>7, <1>8, <1>9, <1>10

\* Inside a call only dir changes: at the target, which no record of its version stands for.
LEMMA Working ==
  ASSUME IInv, Replacing, NEW d \in [files : Files, ver : Nat], NEW at \in Ats,
         dir' = [dir EXCEPT ![cmd.target] = d], Goto(at), at \in {"removing", "copy", "copying"},
         UNCHANGED <<source, registry, enabled, halfPruned>>
  PROVE  IInv'
<1> USE DEF IInv
<1>1. cmd' = [cmd EXCEPT !.at = at]
  BY DEF Goto
<1>2. cmd \in Commands
  BY DEF Ranges
<1>3. /\ cmd' \in Commands /\ cmd'.at = at
      /\ cmd'.left = cmd.left /\ cmd'.copy = cmd.copy /\ cmd'.target = cmd.target
      /\ cmd'.todo = cmd.todo /\ cmd'.plugin = cmd.plugin
  BY <1>1, <1>2 DEF Commands
<1>4. dir' \in [Plugins -> [files : Files, ver : Nat]]
  BY DEF Ranges
<1>5. Ranges'
  BY <1>3, <1>4 DEF Ranges
<1>6. \A b \in Bundled : b # cmd.target => dir'[b] = dir[b]
  BY DEF Ranges, Plugins
<1>7. RecordsAreEarned'
  BY <1>3, <1>6 DEF RecordsAreEarned, ReplacedForCause, Whole
<1>8. OfThePast' /\ LeftAsRead' /\ ReplacedForCause' /\ OwnPlugins' /\ InACall'
  BY <1>3 DEF OfThePast, LeftAsRead, ReplacedForCause, Replacing, OwnPlugins, InACall
<1> QED
  BY <1>5, <1>7, <1>8

\* A copy of the files, or none, or a part of them.
LEMMA PartsAreTyped ==
  ASSUME Ranges, NEW v \in Nat, NEW d \in PartOf(v)
  PROVE  d \in [files : Files, ver : Nat] /\ Absent \in [files : Files, ver : Nat]
BY DEF PartOf, Files, Absent

LEMMA PublishKeeps == ASSUME IInv, Publish PROVE IInv'
<1> USE DEF IInv
<1>1. cmd = Idle /\ cmd' = Idle /\ UNCHANGED <<dir, registry, enabled, halfPruned>>
  BY DEF Publish
<1>2. PICK p \in Plugins, v \in 1..MaxVersion : v > source[p] /\ source' = [source EXCEPT ![p] = v]
  BY DEF Publish
<1>3. v \in Nat \ {0}
  BY PluginConstants
<1>4. Ranges'
  BY <1>1, <1>2, <1>3 DEF Ranges
<1>5. \A q \in Plugins : /\ source[q] \in Nat \ {0} /\ registry[q] \in Nat
                         /\ source'[q] = source[q] \/ (q = p /\ source'[q] > source[q])
                         /\ cmd.copy[q] = 0 /\ registry[q] <= source[q]
  BY <1>1, <1>2, <1>3, IdleIsTyped DEF Ranges, OfThePast
<1>6. \A q \in Plugins : source'[q] \in Nat \ {0}
  BY <1>4 DEF Ranges
<1>7. OfThePast'
  BY <1>1, <1>5, <1>6 DEF OfThePast
<1>8. \A q \in Plugins : registry[q] = source'[q] => source'[q] = source[q]
  BY <1>5, <1>6
<1>9. RecordsAreEarned'
  BY <1>1, <1>5, <1>6, <1>8 DEF RecordsAreEarned, Whole, Plugins
<1>10. LeftAsRead' /\ ReplacedForCause' /\ OwnPlugins' /\ InACall'
  BY <1>1, IdleIsTyped DEF LeftAsRead, ReplacedForCause, Replacing, OwnPlugins, InACall
<1> QED
  BY <1>4, <1>7, <1>9, <1>10

\* The user begins a command, or it ends before its time, or the root comes and goes.
LEMMA QuietKeeps == ASSUME IInv, Reach \/ Start \/ Manage \/ Stop PROVE IInv'
<1> USE DEF IInv
<1>1. enabled' \in [Plugins -> {"unset", "on", "off"}] /\ UNCHANGED <<source, dir, registry, halfPruned>>
  BY DEF Reach, Start, Manage, Stop, Begin, Ranges
<1>2. CASE cmd' = Idle
  <2>1. OwnPlugins'
    BY <1>2, IdleIsTyped DEF OwnPlugins
  <2> QED
    BY <1>1, <1>2, <2>1, IdleIsTyped, Resting
<1>3. ASSUME NEW op \in Ops \ {"none"}, NEW p \in Plugins \cup {Nobody}, Begin(op, p),
             p \in External \/ op \in {"start", "enable", "disable"}
      PROVE  IInv'
  <2>1. cmd' = [Idle EXCEPT !.op = op, !.plugin = p, !.todo = Calls(op)]
    BY <1>3 DEF Begin
  <2>2. /\ cmd' \in Commands /\ cmd'.at = "call" /\ cmd'.left = {}
        /\ cmd'.copy = [q \in Plugins |-> 0] /\ cmd'.plugin = p /\ cmd'.todo = Calls(op)
    BY <2>1, IdleIsTyped, CallsAreTyped DEF Commands
  <2>3. OwnPlugins'
    BY <1>3, <2>2, CallsAreTyped DEF OwnPlugins
  <2> QED
    BY <1>1, <2>2, <2>3, Resting
<1>4. CASE Reach
  BY <1>2, <1>4 DEF Reach
<1>5. CASE Stop
  BY <1>2, <1>5 DEF Stop
<1>6. CASE Start
  BY <1>3, <1>6 DEF Start, Ops
<1>7. CASE Manage
  <2>1. CASE \E p \in External : Begin("install", p) \/ Begin("update", p) \/ Begin("uninstall", p)
    BY <1>3, <2>1 DEF Ops, Plugins
  <2>2. CASE \E p \in Plugins : Begin("enable", p) \/ Begin("disable", p)
    BY <1>3, <2>2 DEF Ops
  <2> QED
    BY <1>7, <2>1, <2>2 DEF Manage
<1> QED
  BY <1>4, <1>5, <1>6, <1>7

LEMMA WorkKeeps == ASSUME IInv, Removing \/ Removed \/ Copying PROVE IInv'
<1> USE DEF IInv
<1>1. cmd.target \in Plugins /\ Replacing
  BY DEF Removing, Removed, Copying, ReplacedForCause, Replacing
<1>2. dir[cmd.target].ver \in Nat /\ source[cmd.target] \in Nat
  BY <1>1 DEF Ranges
<1>3. CASE Removing
  <2>1. PICK d \in PartOf(dir[cmd.target].ver) : dir' = [dir EXCEPT ![cmd.target] = d]
    BY <1>3 DEF Removing, Lose
  <2> QED
    BY <1>1, <1>2, <1>3, <2>1, PartsAreTyped, Working DEF Removing, Ats
<1>4. CASE Removed
  BY <1>1, <1>2, <1>4, PartsAreTyped, Working DEF Removed, Ats, Absent, Files
<1>5. CASE Copying
  <2>1. PICK d \in PartOf(source[cmd.target]) : dir' = [dir EXCEPT ![cmd.target] = d]
    BY <1>5 DEF Copying
  <2> QED
    BY <1>1, <1>2, <1>5, <2>1, PartsAreTyped, Working DEF Copying, Ats
<1> QED
  BY <1>3, <1>4, <1>5

LEMMA FillKeeps == ASSUME IInv, Fill PROVE IInv'
<1> USE DEF IInv
<1>1. cmd.todo # <<>> /\ Return
  BY DEF Fill, InACall
<1>2. /\ cmd' \in Commands /\ OwnPlugins'
      /\ cmd'.at = "call" /\ cmd'.left = {} /\ cmd'.copy = [p \in Plugins |-> 0]
  BY <1>1, Returning
<1>3. registry' = cmd.copy /\ cmd.copy \in [Plugins -> Nat] /\ UNCHANGED <<source, dir, enabled>>
  BY DEF Fill, Ranges, Commands
<1>4. halfPruned' = {b \in halfPruned : registry'[b] # 0} /\ halfPruned \subseteq Bundled
  BY DEF Fill, Ranges
<1>5. Ranges'
  BY <1>2, <1>3, <1>4 DEF Ranges
<1>6. \A p \in Plugins : source[p] \in Nat \ {0} /\ cmd'.copy[p] = 0 /\ registry'[p] <= source[p]
  BY <1>2, <1>3 DEF Ranges, OfThePast
<1>7. OfThePast'
  BY <1>3, <1>6 DEF OfThePast
<1>8. \A b \in Bundled \ halfPruned' : registry'[b] # source[b] \/ b \notin halfPruned
  BY <1>3, <1>4, <1>6 DEF Plugins
<1>9. RecordsAreEarned'
  BY <1>3, <1>6, <1>8 DEF RecordsAreEarned, Whole, Plugins
<1>10. LeftAsRead' /\ ReplacedForCause' /\ InACall'
  BY <1>2 DEF LeftAsRead, ReplacedForCause, Replacing, InACall
<1> QED
  BY <1>2, <1>5, <1>7, <1>9, <1>10

\* Steps inside a call that leave the disk alone and the command typed.
LEMMA Reading ==
  ASSUME IInv, UNCHANGED <<source, dir, registry, halfPruned>>,
         enabled' \in [Plugins -> {"unset", "on", "off"}],
         cmd' \in Commands, cmd'.todo = cmd.todo, cmd.todo # <<>>, cmd'.plugin = cmd.plugin,
         \A p \in Plugins : cmd'.copy[p] \in {0, cmd.copy[p], registry[p]}
  PROVE  Ranges' /\ OfThePast' /\ RecordsAreEarned' /\ OwnPlugins' /\ InACall'
<1> USE DEF IInv
<1>1. Ranges'
  BY DEF Ranges
<1>2. \A p \in Plugins : /\ source[p] \in Nat \ {0} /\ registry[p] <= source[p]
                         /\ cmd.copy[p] <= source[p]
  BY DEF Ranges, OfThePast
<1>3. OfThePast'
  BY <1>2 DEF OfThePast
<1>4. RecordsAreEarned'
  BY <1>2 DEF RecordsAreEarned, Whole, Plugins
<1>5. OwnPlugins' /\ InACall'
  BY DEF OwnPlugins, InACall
<1> QED
  BY <1>1, <1>3, <1>4, <1>5

LEMMA SyncKeeps == ASSUME IInv, Sync PROVE IInv'
<1> USE DEF IInv
<1> DEFINE left == IF reachable THEN Bundled ELSE {}
<1>1. cmd' = [cmd EXCEPT !.copy = registry, !.left = left, !.at = "syncing"]
  BY DEF Sync
<1>2. cmd \in Commands /\ registry \in [Plugins -> Nat] /\ left \subseteq Bundled
  BY DEF Ranges
<1>3. /\ cmd' \in Commands /\ cmd'.at = "syncing" /\ cmd'.left = left /\ cmd'.copy = registry
      /\ cmd'.todo = cmd.todo /\ cmd'.plugin = cmd.plugin
  <2> HIDE DEF left
  <2> QED
    BY <1>1, <1>2 DEF Commands, Ats
<1>4. Ranges' /\ OfThePast' /\ RecordsAreEarned' /\ OwnPlugins' /\ InACall'
  BY <1>3, Reading DEF Sync, Call, Ranges
<1>5. LeftAsRead' /\ ReplacedForCause'
  BY <1>3 DEF Sync, LeftAsRead, ReplacedForCause, Replacing
<1> QED
  BY <1>4, <1>5

LEMMA SyncOneKeeps == ASSUME IInv, SyncOne PROVE IInv'
<1> USE DEF IInv
<1>1. cmd \in Commands /\ cmd.at = "syncing" /\ cmd.todo # <<>>
  BY DEF SyncOne, Ranges, InACall
<1>2. PICK b \in cmd.left : IF NeedsSync(cmd.copy[b], b) THEN cmd' = Replace(b)
                                                      ELSE cmd' = [cmd EXCEPT !.left = @ \ {b}]
  BY DEF SyncOne
<1>3. b \in Bundled /\ b \in Plugins /\ cmd.copy[b] = registry[b]
  BY <1>1 DEF Commands, Plugins, LeftAsRead
<1>4. UNCHANGED <<source, dir, registry, enabled, halfPruned>>
  BY DEF SyncOne
<1>5. CASE NeedsSync(cmd.copy[b], b)
  <2>1. PICK at \in {"copy", "remove"} :
          cmd' = [cmd EXCEPT !.target = b, !.left = @ \ {b}, !.at = at]
    <3>1. cmd' = Replace(b)
      BY <1>2, <1>5
    <3> QED
      BY <3>1 DEF Replace
  <2>2. /\ cmd' \in Commands /\ cmd'.at \in {"copy", "remove"} /\ cmd'.target = b
        /\ cmd'.left = cmd.left \ {b} /\ cmd'.copy = cmd.copy
        /\ cmd'.todo = cmd.todo /\ cmd'.plugin = cmd.plugin
    BY <1>1, <1>3, <2>1 DEF Commands, Ats
  <2>3. Ranges' /\ OfThePast' /\ RecordsAreEarned' /\ OwnPlugins' /\ InACall'
    BY <1>1, <1>4, <2>2, Reading DEF Ranges
  <2>4. b \notin halfPruned => registry[b] # source[b]
    <3>1. Whole(b) => Loads(dir[b])
      BY DEF Whole, Loads
    <3> QED
      BY <1>3, <1>5, <3>1 DEF NeedsSync, RecordsAreEarned
  <2>5. LeftAsRead'
    BY <1>1, <1>4, <2>2 DEF LeftAsRead
  <2>6. ReplacedForCause'
    BY <1>3, <1>4, <2>2, <2>4 DEF ReplacedForCause, Replacing
  <2> QED
    BY <2>3, <2>5, <2>6
<1>6. CASE ~NeedsSync(cmd.copy[b], b)
  <2>1. cmd' = [cmd EXCEPT !.left = @ \ {b}]
    BY <1>2, <1>6
  <2>2. /\ cmd' \in Commands /\ cmd'.at = cmd.at /\ cmd'.target = cmd.target
        /\ cmd'.left = cmd.left \ {b} /\ cmd'.copy = cmd.copy
        /\ cmd'.todo = cmd.todo /\ cmd'.plugin = cmd.plugin
    BY <1>1, <2>1 DEF Commands
  <2>3. Ranges' /\ OfThePast' /\ RecordsAreEarned' /\ OwnPlugins' /\ InACall'
    BY <1>1, <1>4, <2>2, Reading DEF Ranges
  <2>4. LeftAsRead' /\ ReplacedForCause'
    BY <1>1, <1>4, <2>2 DEF LeftAsRead, ReplacedForCause, Replacing
  <2> QED
    BY <2>3, <2>4
<1> QED
  BY <1>5, <1>6

LEMMA ReplaceCallKeeps == ASSUME IInv, ReplaceCall PROVE IInv'
<1> USE DEF IInv
<1>1. cmd \in Commands /\ Call("replace") /\ UNCHANGED <<source, dir, registry, enabled, halfPruned>>
  BY DEF ReplaceCall, Ranges
<1>2. cmd.plugin \in External
  <2>1. cmd.todo # <<>> /\ cmd.todo \in Seq(Phases) /\ cmd.todo[1] = "replace"
    BY <1>1 DEF Call, Commands
  <2> QED
    BY <2>1 DEF OwnPlugins
<1>3. cmd.plugin \in Plugins /\ cmd.plugin \notin Bundled
  BY <1>2, PluginConstants DEF Plugins
<1>4. PICK at \in {"copy", "remove"} :
        cmd' = [cmd EXCEPT !.target = cmd.plugin, !.left = @ \ {cmd.plugin}, !.at = at]
  BY DEF ReplaceCall, Replace
<1>5. /\ cmd' \in Commands /\ cmd'.at \in {"copy", "remove"} /\ cmd'.target = cmd.plugin
      /\ cmd'.left = cmd.left \ {cmd.plugin} /\ cmd'.copy = cmd.copy
      /\ cmd'.todo = cmd.todo /\ cmd'.plugin = cmd.plugin
  BY <1>1, <1>3, <1>4 DEF Commands, Ats
<1>6. Ranges' /\ OfThePast' /\ RecordsAreEarned' /\ OwnPlugins' /\ InACall'
  BY <1>1, <1>5, Reading DEF Ranges, Call
<1>7. LeftAsRead' /\ ReplacedForCause'
  BY <1>1, <1>3, <1>5 DEF LeftAsRead, ReplacedForCause, Replacing
<1> QED
  BY <1>6, <1>7

LEMMA PruneKeeps == ASSUME IInv, Prune PROVE IInv'
<1> USE DEF IInv
<1>1. cmd \in Commands /\ cmd.at = "syncing" /\ cmd.left = {} /\ cmd.todo # <<>>
  BY DEF Prune, Ranges, InACall
<1>2. PICK p \in Plugins :
        /\ Stale(p) /\ halfPruned' = halfPruned \cup {p}
        /\ \/ cmd' = [cmd EXCEPT !.copy[p] = 0, !.dirty = TRUE] /\ UNCHANGED dir
           \/ Lose(p) /\ cmd' = [cmd EXCEPT !.target = p, !.at = "pruning"]
  BY DEF Prune
<1>3. p \in Bundled /\ UNCHANGED <<source, registry, enabled>>
  BY <1>2 DEF Stale, Prune
<1>4. /\ cmd' \in Commands /\ cmd'.left = {} /\ cmd'.todo = cmd.todo /\ cmd'.plugin = cmd.plugin
      /\ cmd'.at = "syncing" \/ (cmd'.at = "pruning" /\ cmd'.target = p)
      /\ \A q \in Plugins : cmd'.copy[q] \in {0, cmd.copy[q]}
  <2>1. CASE cmd' = [cmd EXCEPT !.copy[p] = 0, !.dirty = TRUE]
    BY <1>1, <2>1 DEF Commands
  <2>2. CASE cmd' = [cmd EXCEPT !.target = p, !.at = "pruning"]
    BY <1>1, <2>2 DEF Commands, Ats
  <2> QED
    BY <1>2, <2>1, <2>2
<1>5. dir' \in [Plugins -> [files : Files, ver : Nat]] /\ \A b \in Bundled \ {p} : dir'[b] = dir[b]
  <2>1. CASE Lose(p)
    <3>1. dir[p].ver \in Nat
      BY DEF Ranges
    <3>2. PICK d \in PartOf(dir[p].ver) : dir' = [dir EXCEPT ![p] = d]
      BY <2>1 DEF Lose
    <3> QED
      BY <3>1, <3>2, PartsAreTyped DEF Ranges, Plugins
  <2> QED
    BY <1>2, <2>1 DEF Ranges
<1>6. Ranges'
  BY <1>2, <1>3, <1>4, <1>5 DEF Ranges
<1>7. \A q \in Plugins : /\ source[q] \in Nat \ {0} /\ registry[q] <= source[q]
                         /\ cmd'.copy[q] <= source[q]
  BY <1>4 DEF Ranges, OfThePast
<1>8. OfThePast'
  BY <1>3, <1>7 DEF OfThePast
<1>9. RecordsAreEarned'
  BY <1>2, <1>3, <1>4, <1>5, <1>7 DEF RecordsAreEarned, Whole, Plugins
<1>10. LeftAsRead' /\ ReplacedForCause'
  BY <1>2, <1>4 DEF LeftAsRead, ReplacedForCause, Replacing
<1>11. OwnPlugins' /\ InACall'
  BY <1>1, <1>4 DEF OwnPlugins, InACall
<1> QED
  BY <1>6, <1>8, <1>9, <1>10, <1>11

LEMMA PrunedKeeps == ASSUME IInv, Pruned PROVE IInv'
<1> USE DEF IInv
<1>1. cmd \in Commands /\ cmd.todo # <<>> /\ cmd.target \in halfPruned /\ halfPruned \subseteq Bundled
  BY DEF Pruned, Ranges, InACall, ReplacedForCause
<1>2. /\ dir' = [dir EXCEPT ![cmd.target] = Absent]
      /\ cmd' = [cmd EXCEPT !.copy[cmd.target] = 0, !.dirty = TRUE, !.at = "syncing"]
      /\ UNCHANGED <<source, registry, enabled, halfPruned>>
  BY DEF Pruned
<1>3. /\ cmd' \in Commands /\ cmd'.at = "syncing" /\ cmd'.left = cmd.left
      /\ cmd'.todo = cmd.todo /\ cmd'.plugin = cmd.plugin
      /\ \A q \in Plugins : cmd'.copy[q] = IF q = cmd.target THEN 0 ELSE cmd.copy[q]
  BY <1>1, <1>2 DEF Commands, Ats
<1>4. dir' \in [Plugins -> [files : Files, ver : Nat]] /\ \A b \in Bundled \ halfPruned : dir'[b] = dir[b]
  BY <1>1, <1>2, PartsAreTyped DEF Ranges, Plugins, Absent, Files
<1>5. Ranges'
  BY <1>2, <1>3, <1>4 DEF Ranges
<1>6. \A q \in Plugins : /\ source[q] \in Nat \ {0} /\ registry[q] <= source[q]
                         /\ cmd'.copy[q] <= source[q]
  BY <1>3 DEF Ranges, OfThePast
<1>7. OfThePast'
  BY <1>2, <1>6 DEF OfThePast
<1>8. RecordsAreEarned'
  BY <1>1, <1>2, <1>3, <1>4, <1>6 DEF RecordsAreEarned, Whole, Plugins
<1>9. cmd.left = {}
  BY DEF Pruned, LeftAsRead
<1>10. LeftAsRead' /\ ReplacedForCause'
  BY <1>3, <1>9 DEF LeftAsRead, ReplacedForCause, Replacing
<1>11. OwnPlugins' /\ InACall'
  BY <1>1, <1>3 DEF OwnPlugins, InACall
<1> QED
  BY <1>5, <1>7, <1>8, <1>10, <1>11

LEMMA SyncedKeeps == ASSUME IInv, Synced PROVE IInv'
<1> USE DEF IInv
<1>1. cmd.todo # <<>> /\ cmd.left = {} /\ UNCHANGED <<source, dir, enabled, halfPruned>>
  BY DEF Synced, InACall
<1>2. CASE cmd.dirty
  <2>1. CutRegistry(cmd.copy) /\ cmd.copy \in [Plugins -> Nat]
    BY <1>2 DEF Synced, Ranges, Commands
  <2>2. \A b \in Bundled \ halfPruned : cmd.copy[b] = source[b] => Whole(b)'
    BY <1>1 DEF RecordsAreEarned, Whole
  <2>3. \A p \in Plugins : cmd.copy[p] <= source[p]
    BY DEF OfThePast
  <2>4. dir' \in [Plugins -> [files : Files, ver : Nat]]
    BY <1>1 DEF Ranges
  <2> QED
    BY <1>1, <2>1, <2>2, <2>3, <2>4, Cutting
<1>3. CASE ~cmd.dirty
  <2>1. Return /\ UNCHANGED registry
    BY <1>3 DEF Synced
  <2> QED
    BY <1>1, <2>1, Returning, Resting DEF Ranges
<1> QED
  BY <1>2, <1>3

LEMMA FillSettingsKeeps == ASSUME IInv, FillSettings PROVE IInv'
<1> USE DEF IInv
<1>1. cmd.todo # <<>> /\ Return /\ UNCHANGED <<source, dir, registry, halfPruned>>
  BY DEF FillSettings, InACall
<1>2. enabled' \in [Plugins -> {"unset", "on", "off"}]
  BY DEF FillSettings, Ranges, Commands
<1> QED
  BY <1>1, <1>2, Returning, Resting

LEMMA SetKeeps == ASSUME IInv, Set PROVE IInv'
<1> USE DEF IInv
<1> DEFINE settings == [enabled EXCEPT ![cmd.plugin] = Wanted]
<1>1. cmd' = [cmd EXCEPT !.settings = settings, !.at = "fill settings"]
  BY DEF Set
<1>2. cmd \in Commands /\ cmd.todo # <<>> /\ cmd.at = "call"
  BY DEF Set, Ranges, Call
<1>3. settings \in [Plugins -> {"unset", "on", "off"}]
  BY DEF Ranges, Wanted
<1>4. /\ cmd' \in Commands /\ cmd'.at = "fill settings" /\ cmd'.left = cmd.left
      /\ cmd'.copy = cmd.copy /\ cmd'.todo = cmd.todo /\ cmd'.plugin = cmd.plugin
  <2> HIDE DEF settings
  <2> QED
    BY <1>1, <1>2, <1>3 DEF Commands, Ats
<1>5. UNCHANGED <<source, dir, registry, halfPruned>> /\ enabled' \in [Plugins -> {"unset", "on", "off"}]
  BY DEF Set
<1>6. Ranges' /\ OfThePast' /\ RecordsAreEarned' /\ OwnPlugins' /\ InACall'
  BY <1>2, <1>4, <1>5, Reading
<1>7. LeftAsRead' /\ ReplacedForCause'
  BY <1>2, <1>4, <1>5 DEF LeftAsRead, ReplacedForCause, Replacing
<1> QED
  BY <1>6, <1>7

LEMMA CopiedKeeps == ASSUME IInv, Copied PROVE IInv'
<1> USE DEF IInv
<1> DEFINE new == [files |-> "whole", ver |-> source[cmd.target]]
<1>1. cmd \in Commands /\ cmd.todo # <<>> /\ cmd.target \in Plugins /\ cmd.at = "copying"
  BY DEF Copied, Ranges, InACall, ReplacedForCause, Replacing
<1>2. /\ dir' = [dir EXCEPT ![cmd.target] = new] /\ halfPruned' = halfPruned \ {cmd.target}
      /\ UNCHANGED <<source, registry, enabled>>
  BY DEF Copied
<1> PICK t \in Plugins : t = cmd.target
  BY <1>1
<1>3. new \in [files : Files, ver : Nat]
  BY <1>1 DEF Ranges, Files
<1>4. /\ dir' \in [Plugins -> [files : Files, ver : Nat]] /\ Whole(t)'
      /\ \A b \in Bundled : b # cmd.target => (Whole(b) => Whole(b)')
  <2> HIDE DEF new
  <2>1. dir' \in [Plugins -> [files : Files, ver : Nat]] /\ dir'[cmd.target] = new
    BY <1>1, <1>2, <1>3 DEF Ranges
  <2>2. \A b \in Bundled : b # cmd.target => dir'[b] = dir[b]
    BY <1>1, <1>2 DEF Ranges, Plugins
  <2>3. source' = source
    BY <1>2
  <2>4. Whole(t)'
    BY <2>1, <2>3 DEF Whole, new
  <2>5. \A b \in Bundled : b # cmd.target => (Whole(b) => Whole(b)')
    BY <2>2, <2>3 DEF Whole
  <2> QED
    BY <2>1, <2>4, <2>5
<1>5. \A q \in Plugins : /\ source[q] \in Nat \ {0} /\ registry[q] <= source[q]
                         /\ cmd.copy[q] <= source[q]
  BY DEF Ranges, OfThePast
<1>6. /\ cmd' \in Commands /\ OwnPlugins' /\ InACall'
      /\ \A q \in Plugins : cmd'.copy[q] \in {0, cmd.copy[q]} \/ (q = cmd.target /\ cmd'.copy[q] = source[q])
      /\ cmd'.at \in {"call", "syncing"} /\ (cmd'.at = "call" => cmd'.left = {})
      /\ \A b \in cmd'.left : b \in cmd.left /\ (b # cmd.target => cmd'.copy[b] = cmd.copy[b])
  <2>1. CASE Head(cmd.todo) = "sync"
    <3>1. cmd' = [cmd EXCEPT !.copy[cmd.target] = source[cmd.target], !.dirty = TRUE, !.at = "syncing"]
      BY <2>1 DEF Copied
    <3>2. source[cmd.target] \in Nat
      BY <1>1, <1>5
    <3>3. /\ cmd' \in Commands /\ cmd'.at = "syncing" /\ cmd'.left = cmd.left
          /\ cmd'.todo = cmd.todo /\ cmd'.plugin = cmd.plugin
          /\ \A q \in Plugins : cmd'.copy[q] = IF q = cmd.target THEN source[q] ELSE cmd.copy[q]
      BY <1>1, <3>1, <3>2 DEF Commands, Ats
    <3>4. cmd.left \subseteq Plugins
      BY <1>1 DEF Commands, Plugins
    <3>5. OwnPlugins' /\ InACall'
      BY <1>1, <3>3 DEF OwnPlugins, InACall
    <3>6. ASSUME NEW b \in cmd'.left PROVE b \in cmd.left /\ (b # cmd.target => cmd'.copy[b] = cmd.copy[b])
      <4>1. b \in cmd.left /\ b \in Plugins
        BY <3>3, <3>4
      <4> QED
        BY <3>3, <4>1
    <3>7. \A q \in Plugins : cmd'.copy[q] = cmd.copy[q] \/ (q = cmd.target /\ cmd'.copy[q] = source[q])
      BY <3>3
    <3> QED
      BY <3>3, <3>5, <3>6, <3>7, Zenon
  <2>2. CASE Head(cmd.todo) # "sync"
    <3>1. Return
      BY <2>2 DEF Copied
    <3> QED
      BY <1>1, <3>1, Returning DEF InACall
  <2> QED
    BY <2>1, <2>2
<1>7. Ranges'
  BY <1>2, <1>4, <1>6 DEF Ranges
<1>8. OfThePast'
  BY <1>2, <1>5, <1>6 DEF OfThePast
<1>9. RecordsAreEarned'
  <2>1. ASSUME NEW b \in Bundled \ halfPruned', registry[b] = source[b] \/ cmd'.copy[b] = source[b]
        PROVE  Whole(b)'
    <3>1. b \in Plugins
      BY DEF Plugins
    <3>2. CASE b = cmd.target
      <4> HIDE DEF new
      <4> QED
        BY <1>4, <3>2
    <3>3. CASE b # cmd.target
      <4>1. registry[b] = source[b] \/ cmd.copy[b] = source[b]
        BY <1>5, <1>6, <2>1, <3>1, <3>3
      <4>2. b \notin halfPruned
        BY <1>2, <3>3
      <4>3. Whole(b)
        BY <4>1, <4>2 DEF RecordsAreEarned
      <4> QED
        BY <1>4, <3>3, <4>3
    <3> QED
      BY <3>2, <3>3
  <2> QED
    BY <1>2, <2>1 DEF RecordsAreEarned
<1>10. cmd.target \notin cmd.left
  BY <1>1 DEF ReplacedForCause, Replacing
<1>11. LeftAsRead'
  <2>1. \A b \in cmd'.left : cmd'.copy[b] = registry'[b]
    BY <1>2, <1>6, <1>10 DEF LeftAsRead
  <2> QED
    BY <1>6, <2>1 DEF LeftAsRead
<1>12. ReplacedForCause'
  BY <1>6 DEF ReplacedForCause, Replacing
<1> QED
  BY <1>6, <1>7, <1>8, <1>9, <1>11, <1>12

\* The calls of a command on one plugin are on a plugin of the user.
LEMMA ByName ==
  ASSUME IInv, Call("record") \/ Call("drop")
  PROVE  cmd.plugin \in External /\ cmd.plugin \in Plugins \ Bundled /\ cmd.todo # <<>> /\ cmd.left = {}
<1>1. cmd.todo # <<>> /\ cmd.todo \in Seq(Phases) /\ cmd.todo[1] \in {"record", "drop"}
  BY DEF IInv, Ranges, Commands, Call
<1>2. cmd.plugin \in External
  BY <1>1 DEF IInv, OwnPlugins
<1>3. cmd.left = {}
  BY DEF IInv, LeftAsRead, Call
<1> QED
  BY <1>1, <1>2, <1>3, PluginConstants DEF Plugins

\* discover, record and uninstall write a registry that keeps records or drops them,
\* and adds one only for a plugin of the user.
LEMMA WriteKeeps == ASSUME IInv, Discover \/ Record \/ Drop \/ Dropped PROVE IInv'
<1> USE DEF IInv
<1>1. UNCHANGED <<source, enabled, halfPruned>>
  BY DEF Discover, Record, Drop, Dropped
<1>2. \A p \in Plugins : source[p] \in Nat \ {0} /\ registry[p] \in Nat /\ registry[p] <= source[p]
  BY DEF Ranges, OfThePast
<1>3. ASSUME NEW copy \in [Plugins -> Nat], CutRegistry(copy), cmd.left = {}, cmd.todo # <<>>,
             \A p \in Plugins : copy[p] \in {0, registry[p]} \/ (p \in External /\ copy[p] = source[p]),
             dir' \in [Plugins -> [files : Files, ver : Nat]], \A b \in Bundled : dir'[b] = dir[b]
      PROVE  IInv'
  <2>1. \A p \in Plugins : copy[p] <= source[p]
    BY <1>2, <1>3
  <2>2. \A b \in Bundled : b \in Plugins /\ b \notin External
    BY PluginConstants DEF Plugins
  <2>3. \A b \in Bundled \ halfPruned : copy[b] = source[b] => Whole(b)'
    BY <1>1, <1>2, <1>3, <2>2 DEF RecordsAreEarned, Whole
  <2> QED
    BY <1>1, <1>3, <2>1, <2>3, Cutting
<1>4. CASE Discover
  <2>1. cmd.todo # <<>> /\ cmd.left = {} /\ UNCHANGED dir
    BY <1>4 DEF Discover, Call, LeftAsRead
  <2>2. CASE Return /\ UNCHANGED registry
    BY <1>1, <2>1, <2>2, Returning, Resting DEF Ranges
  <2>3. CASE CutRegistry([p \in Plugins |-> IF Forgotten(p) THEN 0 ELSE registry[p]])
    <3> DEFINE copy == [p \in Plugins |-> IF Forgotten(p) THEN 0 ELSE registry[p]]
    <3>1. copy \in [Plugins -> Nat] /\ \A p \in Plugins : copy[p] \in {0, registry[p]}
      BY <1>2
    <3>2. CutRegistry(copy)
      BY <2>3
    <3>3. dir' \in [Plugins -> [files : Files, ver : Nat]] /\ \A b \in Bundled : dir'[b] = dir[b]
      BY <2>1 DEF Ranges
    <3> HIDE DEF copy
    <3> QED
      BY <1>3, <2>1, <3>1, <3>2, <3>3
  <2> QED
    BY <1>4, <2>2, <2>3 DEF Discover
<1>5. CASE Record
  <2> DEFINE copy == [registry EXCEPT ![cmd.plugin] = source[cmd.plugin]]
  <2>1. cmd.plugin \in External /\ cmd.plugin \in Plugins /\ cmd.todo # <<>> /\ cmd.left = {}
    BY <1>5, ByName DEF Record
  <2>2. copy \in [Plugins -> Nat]
    BY <1>2, <2>1 DEF Ranges
  <2>3. \A p \in Plugins : copy[p] = registry[p] \/ (p \in External /\ copy[p] = source[p])
    BY <2>1 DEF Ranges
  <2>4. CutRegistry(copy)
    BY <1>5 DEF Record
  <2>5. dir' \in [Plugins -> [files : Files, ver : Nat]] /\ \A b \in Bundled : dir'[b] = dir[b]
    BY <1>5 DEF Record, Ranges
  <2> HIDE DEF copy
  <2> QED
    BY <1>3, <2>1, <2>2, <2>3, <2>4, <2>5
<1>6. CASE Drop \/ Dropped
  <2> DEFINE copy == [registry EXCEPT ![cmd.plugin] = 0]
  <2>1. cmd.plugin \in Plugins \ Bundled /\ cmd.todo # <<>> /\ cmd.left = {}
    <3>1. CASE Drop
      BY <3>1, ByName DEF Drop
    <3>2. CASE Dropped
      BY <3>2, PluginConstants DEF Dropped, ReplacedForCause, LeftAsRead, InACall, Plugins
    <3> QED
      BY <1>6, <3>1, <3>2
  <2>2. copy \in [Plugins -> Nat] /\ \A p \in Plugins : copy[p] \in {0, registry[p]}
    BY <1>2, <2>1 DEF Ranges
  <2>3. dir' \in [Plugins -> [files : Files, ver : Nat]] /\ \A b \in Bundled : dir'[b] = dir[b]
    <3>1. dir[cmd.plugin].ver \in Nat
      BY <2>1 DEF Ranges
    <3>2. CASE \E d \in [files : Files, ver : Nat] : dir' = [dir EXCEPT ![cmd.plugin] = d]
      BY <2>1, <3>2 DEF Ranges, Plugins
    <3>3. CASE UNCHANGED dir
      BY <3>3 DEF Ranges
    <3>4. CASE Lose(cmd.plugin)
      <4>1. PICK d \in PartOf(dir[cmd.plugin].ver) : dir' = [dir EXCEPT ![cmd.plugin] = d]
        BY <3>4 DEF Lose
      <4> QED
        BY <3>1, <3>2, <4>1, PartsAreTyped
    <3>5. CASE Dropped
      BY <3>2, <3>5 DEF Dropped, Absent, Files
    <3> QED
      BY <1>6, <3>3, <3>4, <3>5 DEF Drop
  <2>4. CASE CutRegistry(copy)
    <3> HIDE DEF copy
    <3> QED
      BY <1>3, <2>1, <2>2, <2>3, <2>4
  <2>5. CASE Drop /\ Goto("dropping") /\ UNCHANGED registry
    <3>1. cmd \in Commands
      BY DEF Ranges
    <3>2. /\ cmd' \in Commands /\ cmd'.at = "dropping" /\ cmd'.left = {} /\ cmd'.copy = cmd.copy
          /\ cmd'.todo = cmd.todo /\ cmd'.plugin = cmd.plugin
      BY <2>1, <2>5, <3>1 DEF Goto, Commands, Ats
    <3>3. Ranges'
      BY <1>1, <2>3, <2>5, <3>2 DEF Ranges
    <3>4. OfThePast' /\ LeftAsRead' /\ InACall' /\ OwnPlugins'
      BY <1>1, <2>1, <2>5, <3>2 DEF OfThePast, LeftAsRead, InACall, OwnPlugins
    <3>5. RecordsAreEarned'
      BY <1>1, <2>3, <2>5, <3>2 DEF RecordsAreEarned, Whole
    <3>6. ReplacedForCause'
      BY <2>5, <3>2, ByName DEF Drop, ReplacedForCause, Replacing
    <3> QED
      BY <3>3, <3>4, <3>5, <3>6
  <2> QED
    BY <1>6, <2>4, <2>5 DEF Drop, Dropped
<1> QED
  BY <1>4, <1>5, <1>6

LEMMA Inductive == ASSUME IInv, [Next]_vars PROVE IInv'
<1>1. CASE UNCHANGED vars
  BY <1>1 DEF vars, IInv, Ranges, OfThePast, RecordsAreEarned, Whole, LeftAsRead,
              ReplacedForCause, Replacing, OwnPlugins, InACall
<1>2. CASE Step
  BY <1>2, WorkKeeps, CopiedKeeps, FillKeeps, SyncKeeps, SyncOneKeeps, PruneKeeps, PrunedKeeps,
     SyncedKeeps, WriteKeeps, ReplaceCallKeeps, SetKeeps, FillSettingsKeeps DEF Step
<1> QED
  BY <1>1, <1>2, PublishKeeps, QuietKeeps DEF Next

LEMMA Initially == Init => IInv
<1> SUFFICES ASSUME Init PROVE IInv
  OBVIOUS
<1>1. Ranges
  BY IdleIsTyped DEF Init, Ranges, Absent, Files
<1>2. \A p \in Plugins : source[p] = 1 /\ registry[p] = 0 /\ cmd.copy[p] = 0
  BY IdleIsTyped DEF Init
<1>3. OfThePast /\ RecordsAreEarned
  BY <1>2 DEF OfThePast, RecordsAreEarned, Plugins
<1>4. LeftAsRead /\ ReplacedForCause /\ OwnPlugins /\ InACall
  BY IdleIsTyped DEF Init, LeftAsRead, ReplacedForCause, Replacing, OwnPlugins, InACall
<1> QED
  BY <1>1, <1>3, <1>4 DEF IInv

\* Wherever commands stop, a bundled plugin that the next sync leaves alone is whole and
\* of the version at its source, but for those whose removal outlived its record.
THEOREM SyncSeesAllDamage == Spec => []SyncSeesDamage
<1>1. IInv => SyncSeesDamage
  BY DEF IInv, RecordsAreEarned, SyncSeesDamage, NeedsSync, Whole
<1> QED
  BY Initially, Inductive, <1>1, PTL DEF Spec

-----------------------------------------------------------------------------
(* What the user was told *)

Setters == {"install", "uninstall", "enable", "disable"}
Movers  == {"install", "update", "uninstall"}

\* Which commands have the call.
Has(op, call) ==
  CASE call \in {"replace", "record"} -> op \in {"install", "update"}
    [] call = "drop"                  -> op = "uninstall"
    [] call = "set"                   -> op \in Setters
    [] OTHER                          -> TRUE

\* Which call of a command comes right before the call.
Before(op, call) ==
  IF call = "record" THEN {"replace"}
  ELSE IF call = "set" /\ op = "install" THEN {"record"}
  ELSE IF call = "set" /\ op = "uninstall" THEN {"drop"}
  ELSE IF call \in {"set", "sync", "discover"} THEN Phases \ {"replace"}
  ELSE {}

\* The calls left are calls of the command, in its order, on a plugin it may be about.
Ordered(op, todo) ==
  /\ \A i \in DOMAIN todo : Has(op, todo[i])
  /\ \A i \in DOMAIN todo : i # 1 => todo[i - 1] \in Before(op, todo[i])

InOrder ==
  /\ Ordered(cmd.op, cmd.todo)
  /\ cmd.op \in Movers => cmd.plugin \in External
  /\ cmd.op \in Setters => cmd.plugin \in Plugins

Due == IF cmd.todo = <<>> THEN "none" ELSE Head(cmd.todo)

\* Which call the steps inside a call belong to; a sync leaves the user's records alone.
Inside ==
  /\ cmd.at \in {"syncing", "pruning"} => Due = "sync"
  /\ Replacing => Due \in {"sync", "replace"}
  /\ Replacing /\ Due = "sync" => cmd.target \in Bundled
  /\ Replacing /\ Due = "replace" => cmd.target = cmd.plugin
  /\ Due = "sync" /\ (Replacing \/ cmd.at \in {"syncing", "pruning"}) =>
       \A p \in External : cmd.copy[p] = registry[p]
  /\ cmd.at = "dropping" => Due = "drop"
  /\ cmd.at = "fill settings" => Due = "set"
  /\ cmd.at = "fill registry" => Due \in {"sync", "discover", "record", "drop"}

\* The record and the entry of a plugin, while a file is written in the command's memory.
RecordOf(p) == IF cmd.at = "fill registry" THEN cmd.copy[p] ELSE registry[p]
EntryOf(p)  == IF cmd.at = "fill settings" THEN cmd.settings[p] ELSE enabled[p]

\* What install and uninstall have done when they come to tell it.
Installed ==
  /\ Due = "record" => Whole(cmd.plugin)
  /\ Due = "record" /\ cmd.at = "fill registry" => cmd.copy[cmd.plugin] = source[cmd.plugin]
  /\ Due = "drop" /\ cmd.at = "fill registry" => dir[cmd.plugin] = Absent /\ cmd.copy[cmd.plugin] = 0
  /\ Due = "set" /\ cmd.op = "install" => Whole(cmd.plugin) /\ registry[cmd.plugin] = source[cmd.plugin]
  /\ Due = "set" /\ cmd.op = "uninstall" => dir[cmd.plugin] = Absent /\ registry[cmd.plugin] = 0

\* Nothing has been promised again of a plugin that is being changed.
Unpromised ==
  /\ Due \in {"replace", "record", "drop"} => promise[cmd.plugin].there = "open"
  /\ Due = "set" /\ cmd.op \in {"install", "uninstall"} => promise[cmd.plugin].there = "open"
  /\ cmd.op \in Setters => promise[cmd.plugin].on \in {"open", Wanted}
  /\ cmd.at = "fill settings" => cmd.settings[cmd.plugin] = Wanted

PromiseType == [there : {"open", "yes", "no"}, on : {"open", "unset", "on", "off"}]

\* A promise kept, if the record and the entry of the plugin are these.
KeepsWord(p, record, entry) ==
  /\ promise[p].on # "open" => entry = promise[p].on
  /\ promise[p].there # "open" => p \in External
  /\ promise[p].there = "yes" => dir[p].files = "whole" /\ record = dir[p].ver
  /\ promise[p].there = "no"  => dir[p] = Absent /\ record = 0

Kept ==
  /\ promise \in [Plugins -> PromiseType]
  /\ \A p \in Plugins : KeepsWord(p, RecordOf(p), EntryOf(p))

Promised == InOrder /\ Inside /\ Installed /\ Unpromised /\ Kept

-----------------------------------------------------------------------------
(* The calls of a command and their order *)

LEMMA CallsAreInOrder ==
  ASSUME NEW op \in Ops \ {"none"}
  PROVE  /\ Calls(op) # <<>> /\ Head(Calls(op)) \in {"sync", "replace", "drop"}
         /\ Has(op, Head(Calls(op))) /\ Ordered(op, Calls(op))
<1>1. CASE op = "start"
  <2>1. Calls(op) = <<"sync", "discover">>
    BY <1>1 DEF Calls
  <2> QED
    BY <1>1, <2>1 DEF Ordered, Has, Before, Phases, Setters
<1>2. CASE op = "install"
  <2>1. Calls(op) = <<"replace", "record", "set", "sync", "discover", "sync", "discover">>
    BY <1>2 DEF Calls
  <2> QED
    BY <1>2, <2>1 DEF Ordered, Has, Before, Phases, Setters
<1>3. CASE op = "update"
  <2>1. Calls(op) = <<"replace", "record", "sync", "discover", "sync", "discover">>
    BY <1>3 DEF Calls
  <2> QED
    BY <1>3, <2>1 DEF Ordered, Has, Before, Phases, Setters
<1>4. CASE op = "uninstall"
  <2>1. Calls(op) = <<"drop", "set", "sync", "discover">>
    BY <1>4 DEF Calls
  <2> QED
    BY <1>4, <2>1 DEF Ordered, Has, Before, Phases, Setters
<1>5. CASE op \in {"enable", "disable"}
  <2>1. Calls(op) = <<"sync", "discover", "sync", "discover", "set", "sync", "discover">>
    BY <1>5 DEF Calls
  <2> QED
    BY <1>5, <2>1 DEF Ordered, Has, Before, Phases, Setters
<1> QED
  BY <1>1, <1>2, <1>3, <1>4, <1>5 DEF Ops

LEMMA SecondOf ==
  ASSUME NEW S, NEW s \in Seq(S), s # <<>>, Len(s) # 1
  PROVE  /\ 2 \in DOMAIN s /\ Tail(s) # <<>> /\ Head(Tail(s)) = s[2]
         /\ \A i \in DOMAIN Tail(s) :
              i \in Nat \ {0} /\ i + 1 \in DOMAIN s /\ Tail(s)[i] = s[i + 1]
<1> PICK rest : rest = Tail(s)
  OBVIOUS
<1>1. Len(s) \in Nat /\ DOMAIN s = 1..Len(s) /\ Len(s) # 0
  BY LenProperties, EmptySeq
<1>2. rest \in Seq(S) /\ Len(rest) = Len(s) - 1 /\ \A i \in 1..Len(rest) : rest[i] = s[i + 1]
  BY HeadTailProperties
<1>3. Len(rest) \in Nat \ {0} /\ DOMAIN rest = 1..Len(rest) /\ rest # <<>>
  <2>1. Len(rest) \in Nat \ {0} /\ DOMAIN rest = 1..Len(rest)
    BY <1>1, <1>2, LenProperties
  <2> QED
    BY <1>2, <2>1, EmptySeq
<1>4. Head(rest) = s[2] /\ 2 \in DOMAIN s
  <2>1. Head(rest) = rest[1]
    BY <1>2, <1>3
  <2> QED
    BY <1>1, <1>2, <1>3, <2>1
<1> QED
  BY <1>1, <1>2, <1>3, <1>4

\* A call that returns leaves the command at the next one, or over.
LEMMA ReturningInOrder ==
  ASSUME Ranges, InOrder, cmd.todo # <<>>, Return
  PROVE  /\ InOrder' /\ cmd'.at = "call"
         /\ \/ cmd' = Idle /\ Due' = "none"
            \/ /\ cmd'.op = cmd.op /\ cmd'.plugin = cmd.plugin
               /\ Due \in Before(cmd.op, Due') /\ Has(cmd.op, Due')
<1> USE IdleIsTyped
<1>1. cmd.todo \in Seq(Phases) /\ cmd.op \in Ops /\ Due = cmd.todo[1]
  BY DEF Ranges, Commands, Due
<1>2. CASE Len(cmd.todo) = 1
  <2>1. cmd' = Idle /\ Idle.op = "none"
    BY <1>2 DEF Return, Idle
  <2>2. cmd'.todo = <<>> /\ cmd'.op = "none" /\ cmd'.at = "call" /\ DOMAIN cmd'.todo = {}
    BY <2>1
  <2>3. InOrder'
    BY <2>2 DEF InOrder, Ordered, Movers, Setters
  <2>4. Due' = "none"
    BY <2>2 DEF Due
  <2> QED
    BY <2>1, <2>2, <2>3, <2>4
<1>3. CASE Len(cmd.todo) # 1
  <2>1. cmd' = [Idle EXCEPT !.op = cmd.op, !.plugin = cmd.plugin, !.todo = Tail(cmd.todo)]
    BY <1>3 DEF Return
  <2>2. PICK rest : rest = Tail(cmd.todo)
    OBVIOUS
  <2>3. cmd'.op = cmd.op /\ cmd'.plugin = cmd.plugin /\ cmd'.todo = rest /\ cmd'.at = "call"
    BY <2>1, <2>2 DEF Idle
  <2>4. /\ 2 \in DOMAIN cmd.todo /\ rest # <<>> /\ Head(rest) = cmd.todo[2]
        /\ \A i \in DOMAIN rest : i \in Nat \ {0} /\ i + 1 \in DOMAIN cmd.todo /\ rest[i] = cmd.todo[i + 1]
    <3>1. PICK todo \in Seq(Phases) : todo = cmd.todo
      BY <1>1
    <3>2. todo # <<>> /\ Len(todo) # 1 /\ rest = Tail(todo)
      BY <1>3, <2>2, <3>1
    <3>3. /\ 2 \in DOMAIN todo /\ rest # <<>> /\ Head(rest) = todo[2]
          /\ \A i \in DOMAIN rest : i \in Nat \ {0} /\ i + 1 \in DOMAIN todo /\ rest[i] = todo[i + 1]
      BY <3>2, SecondOf
    <3> QED
      BY <3>1, <3>3
  <2>5. Due' = cmd.todo[2] /\ Has(cmd.op, cmd.todo[2]) /\ cmd.todo[1] \in Before(cmd.op, cmd.todo[2])
    <3>1. Due' = cmd.todo[2]
      BY <2>3, <2>4 DEF Due
    <3>2. 2 # 1 /\ 2 - 1 = 1
      OBVIOUS
    <3> QED
      BY <2>4, <3>1, <3>2 DEF InOrder, Ordered
  <2>6. ASSUME NEW i \in DOMAIN rest
        PROVE  Has(cmd.op, rest[i]) /\ (i # 1 => rest[i - 1] \in Before(cmd.op, rest[i]))
    <3>1. Has(cmd.op, rest[i])
      BY <2>4 DEF InOrder, Ordered
    <3>2. ASSUME i # 1 PROVE rest[i - 1] \in Before(cmd.op, rest[i])
      <4>1. PICK k \in DOMAIN cmd.todo : k = i + 1
        BY <2>4
      <4>2. k # 1 /\ k - 1 = i /\ rest[i] = cmd.todo[k]
        BY <2>4, <4>1
      <4>3. i - 1 \in DOMAIN rest /\ rest[i - 1] = cmd.todo[i]
        <5>1. i - 1 \in DOMAIN rest
          BY <1>1, <2>2, <3>2
        <5>2. rest[i - 1] = cmd.todo[(i - 1) + 1] /\ (i - 1) + 1 = i
          BY <2>4, <5>1
        <5> QED
          BY <5>1, <5>2
      <4> QED
        BY <4>1, <4>2, <4>3 DEF InOrder, Ordered
    <3> QED
      BY <3>1, <3>2
  <2>7. InOrder'
    BY <2>3, <2>6 DEF InOrder, Ordered
  <2> QED
    BY <1>1, <2>3, <2>5, <2>7
<1> QED
  BY <1>2, <1>3

-----------------------------------------------------------------------------
(* What keeps the promises, in general *)

\* The call that is due is one the command has.
LEMMA DueIsHad ==
  ASSUME Ranges, InOrder, cmd.todo # <<>>
  PROVE  Due = Head(cmd.todo) /\ Has(cmd.op, Due) /\ Due \in Phases
<1>1. PICK todo \in Seq(Phases) : todo = cmd.todo
  BY DEF Ranges, Commands
<1>2. todo # <<>>
  BY <1>1
<1>3. 1 \in DOMAIN todo /\ Head(todo) = todo[1] /\ todo[1] \in Phases
  BY <1>2
<1>4. Due = todo[1]
  BY <1>1, <1>2, <1>3 DEF Due
<1> QED
  BY <1>1, <1>3, <1>4 DEF InOrder, Ordered

\* A call returns: what it has done is what the next one builds on.
LEMMA Resumes ==
  ASSUME Ranges, Promised, cmd.todo # <<>>, Return, source' = source,
         promise' \in [Plugins -> PromiseType],
         \A p \in Plugins : KeepsWord(p, registry[p], enabled[p])',
         Due = "replace" \/ (Due = "record" /\ cmd.op = "install") =>
           /\ dir'[cmd.plugin] = [files |-> "whole", ver |-> source[cmd.plugin]]
           /\ promise'[cmd.plugin].there = "open",
         Due = "record" /\ cmd.op = "install" => registry'[cmd.plugin] = source[cmd.plugin],
         Due = "drop" => /\ dir'[cmd.plugin] = Absent /\ registry'[cmd.plugin] = 0
                         /\ promise'[cmd.plugin].there = "open",
         cmd.op \in Setters => promise'[cmd.plugin].on \in {"open", Wanted}
  PROVE  Promised'
<1>1. /\ InOrder' /\ cmd'.at = "call"
      /\ \/ cmd' = Idle /\ Due' = "none"
         \/ /\ cmd'.op = cmd.op /\ cmd'.plugin = cmd.plugin
            /\ Due \in Before(cmd.op, Due') /\ Has(cmd.op, Due')
  BY ReturningInOrder DEF Promised
<1>2. Inside'
  BY <1>1 DEF Inside, Replacing
<1>3. Kept'
  <2>1. \A p \in Plugins : RecordOf(p)' = registry'[p] /\ EntryOf(p)' = enabled'[p]
    BY <1>1 DEF RecordOf, EntryOf
  <2> QED
    BY <2>1 DEF Kept, KeepsWord
<1>4. CASE cmd' = Idle /\ Due' = "none"
  <2>1. Idle.op = "none"
    BY DEF Idle
  <2> QED
    BY <1>1, <1>2, <1>3, <1>4, <2>1 DEF Promised, Installed, Unpromised, Setters
<1>5. CASE /\ cmd'.op = cmd.op /\ cmd'.plugin = cmd.plugin
           /\ Due \in Before(cmd.op, Due') /\ Has(cmd.op, Due')
  <2>1. Due' \notin {"replace", "drop"} /\ (Due' = "record" => Due = "replace")
    BY <1>5 DEF Before
  <2>2. /\ Due' = "set" /\ cmd.op = "install" => Due = "record"
        /\ Due' = "set" /\ cmd.op = "uninstall" => Due = "drop"
    <3>1. ASSUME Due' = "set", cmd.op = "install" PROVE Due = "record"
      BY <1>5, <3>1 DEF Before
    <3>2. ASSUME Due' = "set", cmd.op = "uninstall" PROVE Due = "drop"
      BY <1>5, <3>2 DEF Before
    <3> QED
      BY <3>1, <3>2
  <2>3. Installed'
    BY <1>1, <1>5, <2>1, <2>2 DEF Installed, Whole
  <2>4. Wanted' = Wanted
    BY <1>5 DEF Wanted
  <2>5. Unpromised'
    BY <1>1, <1>5, <2>1, <2>2, <2>4 DEF Unpromised
  <2> QED
    BY <1>1, <1>2, <1>3, <2>3, <2>5 DEF Promised
<1> QED
  BY <1>1, <1>4, <1>5

Writing == {"fill registry", "fill settings"}

\* A sync does not touch what the user installed.
LEMMA SyncGoesOn ==
  ASSUME Promised, Due = "sync", cmd.at \notin Writing,
         cmd'.op = cmd.op, cmd'.plugin = cmd.plugin, cmd'.todo = cmd.todo,
         cmd'.at \in {"syncing", "pruning", "remove", "removing", "copy", "copying"},
         cmd'.at \in {"syncing", "pruning"} \/ cmd'.target \in Bundled,
         \A p \in External : dir'[p] = dir[p] /\ cmd'.copy[p] = registry[p],
         UNCHANGED <<registry, enabled, promise>>
  PROVE  Promised'
<1>1. Due' = Due
  BY DEF Due
<1>2. InOrder'
  BY DEF Promised, InOrder
<1>3. Inside'
  BY <1>1 DEF Inside, Replacing
<1>4. Installed'
  BY <1>1 DEF Installed
<1>5. Unpromised'
  BY <1>1 DEF Promised, Unpromised, Wanted
<1>6. \A p \in Plugins : /\ RecordOf(p) = registry[p] /\ RecordOf(p)' = registry[p]
                         /\ EntryOf(p) = enabled[p] /\ EntryOf(p)' = enabled[p]
  BY DEF RecordOf, EntryOf, Writing
<1>7. Kept'
  <2>1. promise' \in [Plugins -> PromiseType]
    BY DEF Promised, Kept
  <2>2. ASSUME NEW p \in Plugins PROVE KeepsWord(p, RecordOf(p), EntryOf(p))'
    <3>1. KeepsWord(p, registry[p], enabled[p])
      BY <1>6 DEF Promised, Kept
    <3> QED
      BY <1>6, <3>1 DEF KeepsWord
  <2> QED
    BY <2>1, <2>2 DEF Kept
<1> QED
  BY <1>2, <1>3, <1>4, <1>5, <1>7 DEF Promised

\* The command works on the directory of its own plugin.
LEMMA OwnWork ==
  ASSUME Promised, Due \in {"replace", "drop"}, cmd.at \notin Writing,
         cmd'.op = cmd.op, cmd'.plugin = cmd.plugin, cmd'.todo = cmd.todo,
         \/ Due = "replace" /\ cmd'.at \in {"remove", "removing", "copy", "copying"}
                            /\ cmd'.target = cmd.plugin
         \/ Due = "drop" /\ cmd'.at = "dropping",
         \A p \in Plugins \ {cmd.plugin} : dir'[p] = dir[p],
         UNCHANGED <<registry, enabled, promise>>
  PROVE  Promised'
<1>1. Due' = Due
  BY DEF Due
<1>2. InOrder'
  BY DEF Promised, InOrder
<1>3. Inside'
  BY <1>1 DEF Inside, Replacing
<1>4. Installed'
  BY <1>1 DEF Installed
<1>5. Unpromised'
  BY <1>1 DEF Promised, Unpromised, Wanted
<1>6. \A p \in Plugins : /\ RecordOf(p) = registry[p] /\ RecordOf(p)' = registry[p]
                         /\ EntryOf(p) = enabled[p] /\ EntryOf(p)' = enabled[p]
  BY DEF RecordOf, EntryOf, Writing
<1>7. Kept'
  <2>1. promise' \in [Plugins -> PromiseType]
    BY DEF Promised, Kept
  <2>2. promise[cmd.plugin].there = "open"
    BY DEF Promised, Unpromised
  <2>3. ASSUME NEW p \in Plugins PROVE KeepsWord(p, RecordOf(p), EntryOf(p))'
    <3>1. KeepsWord(p, registry[p], enabled[p])
      BY <1>6 DEF Promised, Kept
    <3> QED
      BY <1>6, <2>2, <3>1 DEF KeepsWord
  <2> QED
    BY <2>1, <2>3 DEF Kept
<1> QED
  BY <1>2, <1>3, <1>4, <1>5, <1>7 DEF Promised

\* The registry is cut, and what will fill it keeps the records of what was promised.
LEMMA Cuts ==
  ASSUME Ranges, Promised, NEW copy, CutRegistry(copy), cmd.at \notin Writing,
         Due \in {"sync", "discover", "record", "drop"},
         UNCHANGED <<source, enabled, promise>>,
         \A p \in Plugins : /\ promise[p].there # "open" => dir'[p] = dir[p]
                            /\ promise[p].there = "yes" => copy[p] = registry[p]
                            /\ promise[p].there = "no"  => copy[p] = 0,
         Due = "record" => dir' = dir /\ copy[cmd.plugin] = source[cmd.plugin],
         Due = "drop" => dir'[cmd.plugin] = Absent /\ copy[cmd.plugin] = 0
  PROVE  Promised'
<1>1. /\ cmd'.op = cmd.op /\ cmd'.plugin = cmd.plugin /\ cmd'.todo = cmd.todo
      /\ cmd'.at = "fill registry" /\ cmd'.copy = copy
  BY DEF CutRegistry, Ranges, Commands
<1>2. Due' = Due
  BY <1>1 DEF Due
<1>3. InOrder'
  BY <1>1 DEF Promised, InOrder
<1>4. Inside'
  BY <1>1, <1>2 DEF Inside, Replacing
<1>5. Installed'
  BY <1>1, <1>2 DEF Promised, Installed, Whole
<1>6. Unpromised'
  BY <1>1, <1>2 DEF Promised, Unpromised, Wanted
<1>7. \A p \in Plugins : /\ RecordOf(p) = registry[p] /\ RecordOf(p)' = copy[p]
                         /\ EntryOf(p) = enabled[p] /\ EntryOf(p)' = enabled[p]
  BY <1>1 DEF RecordOf, EntryOf, Writing
<1>8. Kept'
  <2>1. promise' \in [Plugins -> PromiseType]
    BY DEF Promised, Kept
  <2>2. ASSUME NEW p \in Plugins PROVE KeepsWord(p, RecordOf(p), EntryOf(p))'
    <3>1. KeepsWord(p, registry[p], enabled[p])
      BY <1>7 DEF Promised, Kept
    <3> QED
      BY <1>7, <3>1 DEF KeepsWord
  <2> QED
    BY <2>1, <2>2 DEF Kept
<1> QED
  BY <1>3, <1>4, <1>5, <1>6, <1>8 DEF Promised

-----------------------------------------------------------------------------
(* The steps of a command *)

\* A plugin that is replaced, recorded or dropped by name is the user's own.
LEMMA OwnIsExternal ==
  ASSUME Ranges, Promised, Due \in {"replace", "record", "drop"}
  PROVE  cmd.plugin \in External /\ cmd.todo # <<>> /\ promise[cmd.plugin].there = "open"
<1>1. cmd.todo # <<>>
  BY DEF Due
<1>2. Has(cmd.op, Due)
  BY <1>1, DueIsHad DEF Promised
<1>3. cmd.op \in Movers
  BY <1>2 DEF Has, Movers
<1> QED
  BY <1>1, <1>3 DEF Promised, InOrder, Unpromised

\* Outside of the two writes the records and the entries on disk are as promised.
LEMMA AsPromised ==
  ASSUME Promised, cmd.at \notin Writing, NEW p \in Plugins
  PROVE  KeepsWord(p, registry[p], enabled[p])
<1>1. RecordOf(p) = registry[p] /\ EntryOf(p) = enabled[p]
  BY DEF RecordOf, EntryOf, Writing
<1> QED
  BY <1>1 DEF Promised, Kept

LEMMA QuietPromised ==
  ASSUME IInv, Promised, Publish \/ Reach \/ Stop
  PROVE  Promised'
<1> USE IdleIsTyped
<1>1. cmd' = Idle /\ UNCHANGED <<dir, registry, enabled>>
  BY DEF Publish, Reach, Stop
<1>2. Idle.op = "none" /\ Due' = "none" /\ cmd'.at = "call" /\ DOMAIN cmd'.todo = {}
  BY <1>1 DEF Idle, Due
<1>3. InOrder' /\ Inside' /\ Installed' /\ Unpromised'
  BY <1>1, <1>2 DEF InOrder, Ordered, Inside, Replacing, Installed, Unpromised, Movers, Setters
<1>4. /\ promise' \in [Plugins -> PromiseType]
      /\ \A p \in Plugins : KeepsWord(p, registry[p], enabled[p])'
  <2>1. CASE Publish \/ Reach
    <3>1. cmd = Idle /\ promise' = promise
      BY <2>1 DEF Publish, Reach
    <3>2. cmd.at \notin Writing
      BY <3>1 DEF Writing
    <3>3. ASSUME NEW p \in Plugins PROVE KeepsWord(p, registry[p], enabled[p])'
      BY <1>1, <3>1, <3>2, AsPromised DEF KeepsWord
    <3> QED
      BY <3>1, <3>3 DEF Promised, Kept
  <2>2. CASE Stop
    <3>1. promise' = [p \in Plugins |->
                        [there |-> IF cmd.at = "fill registry" THEN "open" ELSE promise[p].there,
                         on    |-> IF cmd.at = "fill settings" THEN "open" ELSE promise[p].on]]
      BY <2>2 DEF Stop
    <3>2. promise \in [Plugins -> PromiseType] /\ \A p \in Plugins : KeepsWord(p, RecordOf(p), EntryOf(p))
      BY DEF Promised, Kept
    <3>3. promise' \in [Plugins -> PromiseType]
      BY <3>1, <3>2 DEF PromiseType
    <3>4. ASSUME NEW p \in Plugins PROVE KeepsWord(p, registry[p], enabled[p])'
      <4>1. CASE cmd.at = "fill registry"
        <5>1. promise'[p].there = "open" /\ promise'[p].on = promise[p].on /\ EntryOf(p) = enabled[p]
          BY <3>1, <4>1 DEF EntryOf
        <5> QED
          BY <1>1, <3>2, <5>1 DEF KeepsWord
      <4>2. CASE cmd.at = "fill settings"
        <5>1. promise'[p].there = promise[p].there /\ promise'[p].on = "open" /\ RecordOf(p) = registry[p]
          BY <3>1, <4>2 DEF RecordOf
        <5> QED
          BY <1>1, <3>2, <5>1 DEF KeepsWord
      <4>3. CASE cmd.at \notin Writing
        <5>1. promise'[p].there = promise[p].there /\ promise'[p].on = promise[p].on
          BY <3>1, <4>3 DEF Writing
        <5>2. KeepsWord(p, registry[p], enabled[p])
          BY <4>3, AsPromised
        <5> QED
          BY <1>1, <5>1, <5>2 DEF KeepsWord
      <4> QED
        BY <4>1, <4>2, <4>3 DEF Writing
    <3> QED
      BY <3>3, <3>4
  <2> QED
    BY <2>1, <2>2
<1>5. Kept'
  <2>1. \A p \in Plugins : RecordOf(p)' = registry'[p] /\ EntryOf(p)' = enabled'[p]
    BY <1>2 DEF RecordOf, EntryOf
  <2> QED
    BY <1>4, <2>1 DEF Kept, KeepsWord
<1> QED
  BY <1>3, <1>5 DEF Promised

\* A command on a plugin begins with nothing promised that it will change.
LEMMA Beginning ==
  ASSUME IInv, Promised, NEW op \in Ops \ {"none"}, NEW p \in Plugins \cup {Nobody},
         Begin(op, p), op # "start" => p \in Plugins, op \in Movers => p \in External
  PROVE  Promised'
<1>1. /\ cmd = Idle /\ cmd' = [Idle EXCEPT !.op = op, !.plugin = p, !.todo = Calls(op)]
      /\ UNCHANGED <<dir, registry, enabled>>
      /\ promise' = IF op = "start" THEN promise
                    ELSE [promise EXCEPT ![p] =
                           [there |-> IF op \in {"enable", "disable"} THEN @.there ELSE "open",
                            on    |-> IF op = "update" THEN @.on ELSE "open"]]
  BY DEF Begin
<1>2. Calls(op) \in Seq(Phases)
  BY CallsAreTyped
<1>3. cmd'.op = op /\ cmd'.plugin = p /\ cmd'.todo = Calls(op) /\ cmd'.at = "call"
  BY <1>1 DEF Idle
<1>4. /\ Calls(op) # <<>> /\ Head(Calls(op)) \in {"sync", "replace", "drop"}
      /\ Has(op, Head(Calls(op))) /\ Ordered(op, Calls(op))
  BY CallsAreInOrder
<1>5. op \in Setters => p \in Plugins
  BY DEF Setters
<1>6. InOrder'
  BY <1>3, <1>4, <1>5 DEF InOrder
<1>7. Due' = Head(Calls(op))
  BY <1>3, <1>4 DEF Due
<1>8. Inside' /\ Installed'
  BY <1>3, <1>4, <1>7 DEF Inside, Replacing, Installed
<1>9. promise \in [Plugins -> PromiseType] /\ \A q \in Plugins : KeepsWord(q, registry[q], enabled[q])
  <2>1. cmd.at \notin Writing
    BY <1>1, IdleIsTyped DEF Writing
  <2> QED
    BY <2>1, AsPromised DEF Promised, Kept
<1>10. /\ promise' \in [Plugins -> PromiseType]
       /\ \A q \in Plugins : /\ promise'[q].there \in {"open", promise[q].there}
                             /\ promise'[q].on \in {"open", promise[q].on}
       /\ op \in {"install", "update", "uninstall"} => promise'[p].there = "open"
       /\ op \in Setters => promise'[p].on = "open"
  <2>1. CASE op = "start"
    BY <1>1, <1>9, <2>1 DEF Setters
  <2>2. CASE op # "start"
    <3>1. p \in Plugins
      BY <2>2
    <3>2. PICK new : new = [there |-> IF op \in {"enable", "disable"} THEN promise[p].there ELSE "open",
                            on    |-> IF op = "update" THEN promise[p].on ELSE "open"]
      OBVIOUS
    <3>3. promise' = [promise EXCEPT ![p] = new]
      BY <1>1, <1>9, <2>2, <3>1, <3>2
    <3>4. promise[p] \in PromiseType
      BY <1>9, <3>1
    <3>5. /\ new \in PromiseType /\ new.there \in {"open", promise[p].there}
          /\ new.on \in {"open", promise[p].on}
          /\ op \in {"install", "update", "uninstall"} => new.there = "open"
          /\ op \in Setters => new.on = "open"
      BY <3>2, <3>4 DEF PromiseType, Setters
    <3> QED
      BY <1>9, <3>1, <3>3, <3>5
  <2> QED
    BY <2>1, <2>2
<1>11. Kept'
  <2>1. ASSUME NEW q \in Plugins PROVE KeepsWord(q, RecordOf(q), EntryOf(q))'
    <3>1. RecordOf(q)' = registry[q] /\ EntryOf(q)' = enabled[q]
      BY <1>1, <1>3 DEF RecordOf, EntryOf
    <3> QED
      BY <1>1, <1>9, <1>10, <3>1 DEF KeepsWord
  <2> QED
    BY <1>10, <2>1 DEF Kept
<1>12. Unpromised'
  <2>1. Head(Calls(op)) \notin {"record", "set"}
    BY <1>4
  <2>2. Head(Calls(op)) \in {"replace", "drop"} => op \in {"install", "update", "uninstall"}
    BY <1>4 DEF Has
  <2> QED
    BY <1>3, <1>7, <1>10, <2>1, <2>2 DEF Unpromised
<1> QED
  BY <1>6, <1>8, <1>11, <1>12 DEF Promised

LEMMA BeginPromised ==
  ASSUME IInv, Promised, Start \/ Manage
  PROVE  Promised'
<1>1. CASE Start
  BY <1>1, Beginning DEF Start, Ops, Movers
<1>2. CASE Manage
  <2>1. CASE \E p \in External, op \in {"install", "update", "uninstall"} : Begin(op, p)
    BY <2>1, Beginning DEF Ops, Movers, Plugins
  <2>2. CASE \E p \in Plugins, op \in {"enable", "disable"} : Begin(op, p)
    BY <2>2, Beginning DEF Ops, Movers
  <2> QED
    BY <1>2, <2>1, <2>2 DEF Manage
<1> QED
  BY <1>1, <1>2

\* What the steps of a call do to the command, field by field.
LEMMA ReplaceMoves ==
  ASSUME Ranges, NEW p, cmd' = Replace(p)
  PROVE  /\ cmd'.op = cmd.op /\ cmd'.plugin = cmd.plugin /\ cmd'.todo = cmd.todo
         /\ cmd'.at \in {"copy", "remove"} /\ cmd'.target = p /\ cmd'.copy = cmd.copy
BY DEF Replace, Ranges, Commands

LEMMA WorkPromised ==
  ASSUME IInv, Promised, Removing \/ Removed \/ Copying
  PROVE  Promised'
<1> Ranges /\ InACall
  BY DEF IInv
<1>1. /\ Replacing /\ \A q \in Plugins \ {cmd.target} : dir'[q] = dir[q]
      /\ cmd'.op = cmd.op /\ cmd'.plugin = cmd.plugin /\ cmd'.todo = cmd.todo
      /\ cmd'.target = cmd.target /\ cmd'.copy = cmd.copy
      /\ cmd'.at \in {"removing", "copy", "copying"}
      /\ UNCHANGED <<registry, enabled, promise>>
  BY DEF Removing, Removed, Copying, Lose, Goto, Replacing, Ranges, Commands
<1>2. cmd.at \notin Writing
  BY <1>1 DEF Replacing, Writing
<1>3. CASE Due = "sync"
  <2>1. cmd.target \in Bundled /\ \A p \in External : cmd.copy[p] = registry[p]
    BY <1>1, <1>3 DEF Promised, Inside
  <2>2. \A p \in External : dir'[p] = dir[p] /\ cmd'.copy[p] = registry[p]
    BY <1>1, <2>1, PluginConstants DEF Plugins
  <2> QED
    BY <1>1, <1>2, <1>3, <2>1, <2>2, SyncGoesOn
<1>4. CASE Due = "replace"
  <2>1. cmd.target = cmd.plugin
    BY <1>1, <1>4 DEF Promised, Inside
  <2> QED
    BY <1>1, <1>2, <1>4, <2>1, OwnWork
<1> QED
  BY <1>1, <1>3, <1>4 DEF Promised, Inside

LEMMA SyncPromised ==
  ASSUME IInv, Promised, Sync
  PROVE  Promised'
<1> Ranges
  BY DEF IInv
<1>1. /\ Due = "sync" /\ cmd.at \notin Writing /\ UNCHANGED <<dir, registry, enabled, promise>>
      /\ cmd'.op = cmd.op /\ cmd'.plugin = cmd.plugin /\ cmd'.todo = cmd.todo
      /\ cmd'.at = "syncing" /\ cmd'.copy = registry
  BY DEF Sync, Call, Due, Writing, Ranges, Commands
<1> QED
  BY <1>1, SyncGoesOn

LEMMA SyncOnePromised ==
  ASSUME IInv, Promised, SyncOne
  PROVE  Promised'
<1> Ranges
  BY DEF IInv
<1>1. /\ Due = "sync" /\ cmd.at = "syncing" /\ cmd.at \notin Writing
      /\ UNCHANGED <<dir, registry, enabled, promise>>
      /\ \A p \in External : cmd.copy[p] = registry[p]
  BY DEF SyncOne, Promised, Inside, Writing
<1>2. PICK b \in cmd.left : cmd' = Replace(b) \/ cmd' = [cmd EXCEPT !.left = @ \ {b}]
  BY DEF SyncOne
<1>3. b \in Bundled
  BY DEF Ranges, Commands
<1>4. /\ cmd'.op = cmd.op /\ cmd'.plugin = cmd.plugin /\ cmd'.todo = cmd.todo
      /\ cmd'.copy = cmd.copy
      /\ cmd'.at = "syncing" \/ (cmd'.at \in {"copy", "remove"} /\ cmd'.target = b)
  <2>1. CASE cmd' = Replace(b)
    BY <2>1, ReplaceMoves
  <2>2. CASE cmd' = [cmd EXCEPT !.left = @ \ {b}]
    BY <1>1, <2>2 DEF Ranges, Commands
  <2> QED
    BY <1>2, <2>1, <2>2
<1> QED
  BY <1>1, <1>3, <1>4, SyncGoesOn

LEMMA PrunePromised ==
  ASSUME IInv, Promised, Prune \/ Pruned
  PROVE  Promised'
<1> Ranges /\ ReplacedForCause
  BY DEF IInv
<1>1. /\ Due = "sync" /\ cmd.at \in {"syncing", "pruning"} /\ cmd.at \notin Writing
      /\ UNCHANGED <<registry, enabled, promise>>
      /\ \A p \in External : cmd.copy[p] = registry[p]
  BY DEF Prune, Pruned, Promised, Inside, Writing
<1>2. PICK b \in Bundled :
        /\ \A q \in Plugins \ {b} : dir'[q] = dir[q] /\ cmd'.copy[q] = cmd.copy[q]
        /\ cmd'.op = cmd.op /\ cmd'.plugin = cmd.plugin /\ cmd'.todo = cmd.todo
        /\ cmd'.at \in {"syncing", "pruning"}
  <2>1. CASE Prune
    <3>1. PICK p \in Plugins :
            /\ Stale(p)
            /\ IF dir[p] = Absent
                 THEN cmd' = [cmd EXCEPT !.copy[p] = 0, !.dirty = TRUE] /\ UNCHANGED dir
                 ELSE Lose(p) /\ cmd' = [cmd EXCEPT !.target = p, !.at = "pruning"]
      BY <2>1 DEF Prune
    <3>2. p \in Bundled /\ cmd.at = "syncing"
      BY <2>1, <3>1 DEF Prune, Stale
    <3>3. /\ \A q \in Plugins \ {p} : dir'[q] = dir[q] /\ cmd'.copy[q] = cmd.copy[q]
          /\ cmd'.op = cmd.op /\ cmd'.plugin = cmd.plugin /\ cmd'.todo = cmd.todo
          /\ cmd'.at \in {"syncing", "pruning"}
      <4>1. CASE dir[p] = Absent
        <5>1. cmd' = [cmd EXCEPT !.copy[p] = 0, !.dirty = TRUE] /\ dir' = dir
          BY <3>1, <4>1
        <5> QED
          BY <3>2, <5>1 DEF Ranges, Commands
      <4>2. CASE dir[p] # Absent
        <5>1. Lose(p) /\ cmd' = [cmd EXCEPT !.target = p, !.at = "pruning"]
          BY <3>1, <4>2
        <5> QED
          BY <5>1 DEF Lose, Ranges, Commands
      <4> QED
        BY <4>1, <4>2
    <3> QED
      BY <3>2, <3>3
  <2>2. CASE Pruned
    <3>1. cmd.target \in Bundled
      BY <2>2 DEF Pruned, ReplacedForCause, Ranges
    <3> QED
      BY <2>2, <3>1 DEF Pruned, Ranges, Commands
  <2> QED
    BY <2>1, <2>2
<1>3. \A p \in External : dir'[p] = dir[p] /\ cmd'.copy[p] = registry[p]
  BY <1>1, <1>2, PluginConstants DEF Plugins
<1> QED
  BY <1>1, <1>2, <1>3, SyncGoesOn

LEMMA CopiedPromised ==
  ASSUME IInv, Promised, Copied
  PROVE  Promised'
<1> Ranges /\ InACall
  BY DEF IInv
<1>1. /\ Replacing /\ cmd.at \notin Writing /\ cmd.todo # <<>> /\ Due = Head(cmd.todo)
      /\ UNCHANGED <<source, registry, enabled, promise>>
      /\ \A q \in Plugins \ {cmd.target} : dir'[q] = dir[q]
  BY DEF Copied, Replacing, Writing, InACall, Due, Ranges
<1>2. CASE Due = "sync"
  <2>1. cmd.target \in Bundled /\ \A p \in External : cmd.copy[p] = registry[p]
    BY <1>1, <1>2 DEF Promised, Inside
  <2>2. /\ \A q \in Plugins \ {cmd.target} : cmd'.copy[q] = cmd.copy[q]
        /\ cmd'.op = cmd.op /\ cmd'.plugin = cmd.plugin /\ cmd'.todo = cmd.todo
        /\ cmd'.at = "syncing"
    <3>1. cmd' = [cmd EXCEPT !.copy[cmd.target] = source[cmd.target], !.dirty = TRUE,
                             !.at = "syncing"]
      BY <1>1, <1>2 DEF Copied
    <3> QED
      BY <3>1 DEF Ranges, Commands
  <2>3. \A p \in External : dir'[p] = dir[p] /\ cmd'.copy[p] = registry[p]
    BY <1>1, <2>1, <2>2, PluginConstants DEF Plugins
  <2> QED
    BY <1>1, <1>2, <2>2, <2>3, SyncGoesOn
<1>3. CASE Due = "replace"
  <2>1. cmd.target = cmd.plugin
    BY <1>1, <1>3 DEF Promised, Inside
  <2>2. cmd.plugin \in External /\ promise[cmd.plugin].there = "open"
    BY <1>3, OwnIsExternal
  <2>3. dir'[cmd.plugin] = [files |-> "whole", ver |-> source[cmd.plugin]] /\ Return
    BY <1>1, <1>3, <2>1, <2>2 DEF Copied, Ranges, Plugins
  <2>4. ASSUME NEW p \in Plugins PROVE KeepsWord(p, registry[p], enabled[p])'
    <3>1. KeepsWord(p, registry[p], enabled[p])
      BY <1>1, AsPromised
    <3> QED
      BY <1>1, <2>1, <2>2, <3>1 DEF KeepsWord
  <2>5. promise' \in [Plugins -> PromiseType]
    BY <1>1 DEF Promised, Kept
  <2>6. cmd.op \in Setters => promise'[cmd.plugin].on \in {"open", Wanted}
    BY <1>1 DEF Promised, Unpromised
  <2> QED
    BY <1>1, <1>3, <2>2, <2>3, <2>4, <2>5, <2>6, Resumes
<1> QED
  BY <1>1, <1>2, <1>3 DEF Promised, Inside

\* A call that ends without a change returns with the promises as they were.
LEMMA JustReturns ==
  ASSUME Ranges, Promised, cmd.todo # <<>>, Return, cmd.at \notin Writing,
         Due \in {"sync", "discover"}, UNCHANGED <<source, dir, registry, enabled, promise>>
  PROVE  Promised'
<1>1. ASSUME NEW p \in Plugins PROVE KeepsWord(p, registry[p], enabled[p])'
  <2>1. KeepsWord(p, registry[p], enabled[p])
    BY AsPromised
  <2> QED
    BY <2>1 DEF KeepsWord
<1>2. promise' \in [Plugins -> PromiseType]
  BY DEF Promised, Kept
<1>3. cmd.op \in Setters => promise'[cmd.plugin].on \in {"open", Wanted}
  BY DEF Promised, Unpromised
<1> QED
  BY <1>1, <1>2, <1>3, Resumes

LEMMA SyncedPromised ==
  ASSUME IInv, Promised, Synced
  PROVE  Promised'
<1> Ranges /\ InACall
  BY DEF IInv
<1>1. /\ Due = "sync" /\ cmd.at \notin Writing /\ cmd.todo # <<>>
      /\ UNCHANGED <<source, dir, enabled, promise>>
      /\ \A p \in External : cmd.copy[p] = registry[p]
  BY DEF Synced, Promised, Inside, Writing, InACall
<1>2. CASE cmd.dirty
  <2>1. CutRegistry(cmd.copy)
    BY <1>2 DEF Synced
  <2>2. ASSUME NEW p \in Plugins
        PROVE  /\ promise[p].there # "open" => dir'[p] = dir[p]
               /\ promise[p].there = "yes" => cmd.copy[p] = registry[p]
               /\ promise[p].there = "no"  => cmd.copy[p] = 0
    <3>1. KeepsWord(p, registry[p], enabled[p])
      BY <1>1, AsPromised
    <3> QED
      BY <1>1, <3>1 DEF KeepsWord
  <2> QED
    BY <1>1, <2>1, <2>2, Cuts
<1>3. CASE ~cmd.dirty
  BY <1>1, <1>3, JustReturns DEF Synced
<1> QED
  BY <1>2, <1>3

LEMMA DiscoverPromised ==
  ASSUME IInv, Promised, Discover
  PROVE  Promised'
<1> Ranges
  BY DEF IInv
<1>1. /\ Due = "discover" /\ cmd.at \notin Writing /\ cmd.todo # <<>>
      /\ UNCHANGED <<source, dir, enabled, promise>>
  BY DEF Discover, Call, Due, Writing
<1>2. CASE \E p \in Plugins : registry[p] # 0 /\ Forgotten(p)
  <2>1. PICK copy : copy = [p \in Plugins |-> IF Forgotten(p) THEN 0 ELSE registry[p]]
    OBVIOUS
  <2>2. CutRegistry(copy)
    BY <1>2, <2>1 DEF Discover
  <2>3. ASSUME NEW p \in Plugins
        PROVE  /\ promise[p].there # "open" => dir'[p] = dir[p]
               /\ promise[p].there = "yes" => copy[p] = registry[p]
               /\ promise[p].there = "no"  => copy[p] = 0
    <3>1. KeepsWord(p, registry[p], enabled[p])
      BY <1>1, AsPromised
    <3> QED
      BY <1>1, <2>1, <3>1 DEF KeepsWord, Forgotten, Listed
  <2> QED
    BY <1>1, <2>2, <2>3, Cuts
<1>3. CASE ~\E p \in Plugins : registry[p] # 0 /\ Forgotten(p)
  BY <1>1, <1>3, JustReturns DEF Discover
<1> QED
  BY <1>2, <1>3

LEMMA ByNamePromised ==
  ASSUME IInv, Promised, ReplaceCall \/ Record \/ Drop \/ Dropped
  PROVE  Promised'
<1> Ranges
  BY DEF IInv
<1>1. CASE ReplaceCall
  <2>1. /\ Due = "replace" /\ cmd.at \notin Writing /\ cmd' = Replace(cmd.plugin)
        /\ UNCHANGED <<dir, registry, enabled, promise>>
    BY <1>1 DEF ReplaceCall, Call, Due, Writing
  <2>2. /\ cmd'.op = cmd.op /\ cmd'.plugin = cmd.plugin /\ cmd'.todo = cmd.todo
        /\ cmd'.at \in {"copy", "remove"} /\ cmd'.target = cmd.plugin
    BY <2>1, ReplaceMoves
  <2> QED
    BY <2>1, <2>2, OwnWork
<1>2. CASE Record
  <2>1. /\ Due = "record" /\ cmd.at \notin Writing
        /\ UNCHANGED <<source, dir, enabled, promise>>
    BY <1>2 DEF Record, Call, Due, Writing
  <2>2. cmd.plugin \in Plugins /\ promise[cmd.plugin].there = "open"
    BY <2>1, OwnIsExternal DEF Plugins
  <2>3. PICK copy : copy = [registry EXCEPT ![cmd.plugin] = source[cmd.plugin]]
    OBVIOUS
  <2>4. CutRegistry(copy)
    BY <1>2, <2>3 DEF Record
  <2>5. ASSUME NEW p \in Plugins
        PROVE  /\ promise[p].there # "open" => dir'[p] = dir[p]
               /\ promise[p].there = "yes" => copy[p] = registry[p]
               /\ promise[p].there = "no"  => copy[p] = 0
    <3>1. KeepsWord(p, registry[p], enabled[p])
      BY <2>1, AsPromised
    <3> QED
      BY <2>1, <2>2, <2>3, <3>1 DEF KeepsWord, Ranges
  <2>6. copy[cmd.plugin] = source[cmd.plugin]
    BY <2>2, <2>3 DEF Ranges
  <2> QED
    BY <2>1, <2>4, <2>5, <2>6, Cuts
<1>3. CASE Drop \/ Dropped
  <2>1. /\ Due = "drop" /\ cmd.at \notin Writing /\ UNCHANGED <<source, enabled, promise>>
    BY <1>3 DEF Drop, Dropped, Call, Due, Writing, Promised, Inside
  <2>2. cmd.plugin \in Plugins /\ promise[cmd.plugin].there = "open"
    BY <2>1, OwnIsExternal DEF Plugins
  <2>3. CASE Drop /\ dir[cmd.plugin] # Absent
    <3>1. Lose(cmd.plugin) /\ Goto("dropping") /\ UNCHANGED registry
      BY <2>3 DEF Drop
    <3>2. /\ cmd'.op = cmd.op /\ cmd'.plugin = cmd.plugin /\ cmd'.todo = cmd.todo
          /\ cmd'.at = "dropping" /\ \A p \in Plugins \ {cmd.plugin} : dir'[p] = dir[p]
      BY <3>1 DEF Goto, Lose, Ranges, Commands
    <3> QED
      BY <2>1, <3>1, <3>2, OwnWork
  <2>4. CASE Dropped \/ (Drop /\ dir[cmd.plugin] = Absent)
    <3>1. PICK copy : copy = [registry EXCEPT ![cmd.plugin] = 0]
      OBVIOUS
    <3>2. CutRegistry(copy)
      BY <2>4, <3>1 DEF Drop, Dropped
    <3>3. dir'[cmd.plugin] = Absent /\ \A p \in Plugins \ {cmd.plugin} : dir'[p] = dir[p]
      BY <2>2, <2>4 DEF Drop, Dropped, Ranges
    <3>4. ASSUME NEW p \in Plugins
          PROVE  /\ promise[p].there # "open" => dir'[p] = dir[p]
                 /\ promise[p].there = "yes" => copy[p] = registry[p]
                 /\ promise[p].there = "no"  => copy[p] = 0
      <4>1. KeepsWord(p, registry[p], enabled[p])
        BY <2>1, AsPromised
      <4> QED
        BY <2>2, <3>1, <3>3, <4>1 DEF KeepsWord, Ranges
    <3>5. copy[cmd.plugin] = 0
      BY <2>2, <3>1 DEF Ranges
    <3> QED
      BY <2>1, <3>2, <3>3, <3>4, <3>5, Cuts
  <2> QED
    BY <1>3, <2>3, <2>4
<1> QED
  BY <1>1, <1>2, <1>3

LEMMA FillPromised ==
  ASSUME IInv, Promised, Fill
  PROVE  Promised'
<1> Ranges /\ InACall
  BY DEF IInv
<1>1. /\ cmd.at = "fill registry" /\ cmd.todo # <<>> /\ Due = Head(cmd.todo) /\ Return
      /\ Due \in {"sync", "discover", "record", "drop"}
      /\ registry' = cmd.copy /\ UNCHANGED <<source, dir, enabled>>
      /\ promise \in [Plugins -> PromiseType]
  BY DEF Fill, InACall, Due, Promised, Inside, Kept
<1>2. \A p \in Plugins : KeepsWord(p, cmd.copy[p], enabled[p])
  BY <1>1 DEF Promised, Kept, RecordOf, EntryOf
<1>3. CASE cmd.op = "update" /\ Due = "record"
  <2>1. promise' = [promise EXCEPT ![cmd.plugin].there = "yes"]
    BY <1>1, <1>3 DEF Fill
  <2>2. cmd.plugin \in External /\ cmd.plugin \in Plugins
    BY <1>3, OwnIsExternal DEF Plugins
  <2>3. /\ dir[cmd.plugin].files = "whole" /\ cmd.copy[cmd.plugin] = dir[cmd.plugin].ver
    <3>1. Whole(cmd.plugin) /\ cmd.copy[cmd.plugin] = source[cmd.plugin]
      BY <1>1, <1>3 DEF Promised, Installed
    <3> QED
      BY <3>1 DEF Whole
  <2>4. /\ promise' \in [Plugins -> PromiseType]
        /\ \A p \in Plugins : promise'[p].on = promise[p].on
        /\ \A p \in Plugins \ {cmd.plugin} : promise'[p].there = promise[p].there
        /\ promise'[cmd.plugin].there = "yes"
    BY <1>1, <2>1, <2>2 DEF PromiseType
  <2>5. ASSUME NEW p \in Plugins PROVE KeepsWord(p, registry[p], enabled[p])'
    <3>1. KeepsWord(p, cmd.copy[p], enabled[p])
      BY <1>2
    <3>2. CASE p = cmd.plugin
      BY <1>1, <2>2, <2>3, <2>4, <3>1, <3>2 DEF KeepsWord
    <3>3. CASE p # cmd.plugin
      BY <1>1, <2>4, <3>1, <3>3 DEF KeepsWord
    <3> QED
      BY <3>2, <3>3
  <2>6. cmd.op \notin Setters /\ cmd.op # "install"
    BY <1>3 DEF Setters
  <2> QED
    BY <1>1, <1>3, <2>4, <2>5, <2>6, Resumes
<1>4. CASE ~(cmd.op = "update" /\ Due = "record")
  <2>1. promise' = promise
    BY <1>1, <1>4 DEF Fill
  <2>2. ASSUME NEW p \in Plugins PROVE KeepsWord(p, registry[p], enabled[p])'
    BY <1>1, <1>2, <2>1 DEF KeepsWord
  <2>3. Due = "record" /\ cmd.op = "install" =>
          /\ dir'[cmd.plugin] = [files |-> "whole", ver |-> source[cmd.plugin]]
          /\ promise'[cmd.plugin].there = "open" /\ registry'[cmd.plugin] = source[cmd.plugin]
    BY <1>1, <2>1 DEF Promised, Installed, Unpromised, Whole
  <2>4. Due = "drop" => /\ dir'[cmd.plugin] = Absent /\ registry'[cmd.plugin] = 0
                        /\ promise'[cmd.plugin].there = "open"
    BY <1>1, <2>1 DEF Promised, Installed, Unpromised
  <2>5. cmd.op \in Setters => promise'[cmd.plugin].on \in {"open", Wanted}
    BY <2>1 DEF Promised, Unpromised
  <2> QED
    BY <1>1, <2>1, <2>2, <2>3, <2>4, <2>5, Resumes
<1> QED
  BY <1>3, <1>4

\* A command that is due to write the settings is one that sets.
LEMMA SetterIsDue ==
  ASSUME Ranges, Promised, Due = "set"
  PROVE  cmd.op \in Setters /\ cmd.plugin \in Plugins /\ cmd.todo # <<>>
<1>1. cmd.todo # <<>>
  BY DEF Due
<1>2. Has(cmd.op, "set")
  BY <1>1, DueIsHad DEF Promised
<1> QED
  BY <1>1, <1>2 DEF Has, Promised, InOrder

LEMMA SetPromised ==
  ASSUME IInv, Promised, Set
  PROVE  Promised'
<1> Ranges
  BY DEF IInv
<1>1. /\ Due = "set" /\ cmd.at \notin Writing
      /\ cmd' = [cmd EXCEPT !.settings = [enabled EXCEPT ![cmd.plugin] = Wanted],
                            !.at = "fill settings"]
      /\ UNCHANGED <<source, dir, registry, promise>>
  BY DEF Set, Call, Due, Writing
<1>2. cmd.op \in Setters /\ cmd.plugin \in Plugins
  BY <1>1, SetterIsDue
<1>3. /\ cmd'.op = cmd.op /\ cmd'.plugin = cmd.plugin /\ cmd'.todo = cmd.todo
      /\ cmd'.at = "fill settings" /\ cmd'.settings = [enabled EXCEPT ![cmd.plugin] = Wanted]
  BY <1>1 DEF Ranges, Commands
<1>4. Due' = "set" /\ Wanted' = Wanted
  BY <1>1, <1>3 DEF Due, Wanted
<1>5. InOrder'
  BY <1>3 DEF Promised, InOrder
<1>6. Inside' /\ Installed'
  BY <1>1, <1>3, <1>4 DEF Promised, Inside, Replacing, Installed, Whole
<1>7. cmd'.settings[cmd.plugin] = Wanted
      /\ \A p \in Plugins \ {cmd.plugin} : cmd'.settings[p] = enabled[p]
  BY <1>2, <1>3 DEF Ranges
<1>8. Unpromised'
  BY <1>1, <1>3, <1>4, <1>7 DEF Promised, Unpromised
<1>9. Kept'
  <2>1. promise' \in [Plugins -> PromiseType]
    BY <1>1 DEF Promised, Kept
  <2>2. promise[cmd.plugin].on \in {"open", Wanted}
    BY <1>2 DEF Promised, Unpromised
  <2>3. ASSUME NEW p \in Plugins PROVE KeepsWord(p, RecordOf(p), EntryOf(p))'
    <3>1. KeepsWord(p, registry[p], enabled[p])
      BY <1>1, AsPromised
    <3>2. RecordOf(p)' = registry[p] /\ EntryOf(p)' = cmd'.settings[p]
      BY <1>1, <1>3 DEF RecordOf, EntryOf
    <3> QED
      BY <1>1, <1>7, <2>2, <3>1, <3>2 DEF KeepsWord
  <2> QED
    BY <2>1, <2>3 DEF Kept
<1> QED
  BY <1>5, <1>6, <1>8, <1>9 DEF Promised

LEMMA FillSettingsPromised ==
  ASSUME IInv, Promised, FillSettings
  PROVE  Promised'
<1> Ranges
  BY DEF IInv
<1>1. /\ Due = "set" /\ cmd.at = "fill settings" /\ Return
      /\ enabled' = cmd.settings /\ UNCHANGED <<source, dir, registry>>
      /\ promise \in [Plugins -> PromiseType]
  BY DEF FillSettings, Promised, Inside, Kept
<1>2. cmd.op \in Setters /\ cmd.plugin \in Plugins /\ cmd.todo # <<>>
  BY <1>1, SetterIsDue
<1>3. PICK new : new = [there |-> CASE cmd.op = "install"   -> "yes"
                                    [] cmd.op = "uninstall" -> "no"
                                    [] OTHER                -> promise[cmd.plugin].there,
                        on    |-> Wanted]
  OBVIOUS
<1>4. promise' = [promise EXCEPT ![cmd.plugin] = new]
  BY <1>1, <1>2, <1>3 DEF FillSettings
<1>5. /\ new.on = Wanted
      /\ new.there = IF cmd.op = "install" THEN "yes"
                     ELSE IF cmd.op = "uninstall" THEN "no" ELSE promise[cmd.plugin].there
  BY <1>3
<1>6. Wanted \in {"unset", "on", "off"}
  BY DEF Wanted
<1>7. promise[cmd.plugin] \in PromiseType /\ new \in PromiseType
  BY <1>1, <1>2, <1>3, <1>6 DEF PromiseType
<1>8. /\ promise' \in [Plugins -> PromiseType] /\ promise'[cmd.plugin] = new
      /\ \A p \in Plugins \ {cmd.plugin} : promise'[p] = promise[p]
  BY <1>1, <1>2, <1>4, <1>7
<1>9. \A p \in Plugins : KeepsWord(p, registry[p], cmd.settings[p])
  BY <1>1 DEF Promised, Kept, RecordOf, EntryOf
<1>10. ASSUME NEW p \in Plugins, p = cmd.plugin PROVE KeepsWord(p, registry[p], enabled[p])'
  <2>1. cmd.settings[p] = Wanted
    BY <1>1, <1>10 DEF Promised, Unpromised
  <2>2. KeepsWord(p, registry[p], cmd.settings[p])
    BY <1>9
  <2>3. promise'[p] = new /\ enabled'[p] = Wanted /\ dir'[p] = dir[p] /\ registry'[p] = registry[p]
    BY <1>1, <1>8, <1>10, <2>1
  <2>4. CASE cmd.op = "install"
    <3>1. dir[p] = [files |-> "whole", ver |-> source[p]] /\ registry[p] = source[p] /\ p \in External
      BY <1>1, <1>10, <2>4 DEF Promised, Installed, Whole, InOrder, Movers
    <3>2. new.there = "yes"
      BY <1>5, <2>4
    <3> QED
      BY <1>5, <2>3, <3>1, <3>2 DEF KeepsWord
  <2>5. CASE cmd.op = "uninstall"
    <3>1. dir[p] = Absent /\ registry[p] = 0 /\ p \in External
      BY <1>1, <1>10, <2>5 DEF Promised, Installed, InOrder, Movers
    <3>2. new.there = "no"
      BY <1>5, <2>5
    <3> QED
      BY <1>5, <2>3, <3>1, <3>2 DEF KeepsWord
  <2>6. CASE cmd.op \notin {"install", "uninstall"}
    <3>1. new.there = promise[p].there
      BY <1>5, <1>10, <2>6
    <3> QED
      BY <1>5, <2>2, <2>3, <3>1 DEF KeepsWord
  <2> QED
    BY <2>4, <2>5, <2>6
<1>11. ASSUME NEW p \in Plugins PROVE KeepsWord(p, registry[p], enabled[p])'
  <2>1. CASE p = cmd.plugin
    BY <1>10, <2>1
  <2>2. CASE p # cmd.plugin
    <3>1. KeepsWord(p, registry[p], cmd.settings[p])
      BY <1>9
    <3> QED
      BY <1>1, <1>8, <2>2, <3>1 DEF KeepsWord
  <2> QED
    BY <2>1, <2>2
<1>12. cmd.op \in Setters => promise'[cmd.plugin].on \in {"open", Wanted}
  BY <1>5, <1>8
<1> QED
  BY <1>1, <1>2, <1>8, <1>11, <1>12, Resumes

-----------------------------------------------------------------------------

LEMMA PromisedInductive == ASSUME IInv, Promised, [Next]_vars PROVE Promised'
<1>1. CASE UNCHANGED vars
  <2>1. UNCHANGED <<source, dir, registry, enabled, cmd, promise>>
    BY <1>1 DEF vars
  <2>2. Due' = Due /\ Wanted' = Wanted
    BY <2>1 DEF Due, Wanted
  <2>3. InOrder' /\ Inside' /\ Installed' /\ Unpromised'
    <3>1. InOrder' /\ Inside'
      BY <2>1, <2>2 DEF Promised, InOrder, Inside, Replacing
    <3>2. Installed'
      BY <2>1, <2>2 DEF Promised, Installed, Whole
    <3>3. Unpromised'
      BY <2>1, <2>2 DEF Promised, Unpromised
    <3> QED
      BY <3>1, <3>2, <3>3
  <2>4. Kept'
    BY <2>1 DEF Promised, Kept, KeepsWord, RecordOf, EntryOf
  <2> QED
    BY <2>3, <2>4 DEF Promised
<1> QED
  BY <1>1, QuietPromised, BeginPromised, WorkPromised, CopiedPromised, FillPromised, SyncPromised,
     SyncOnePromised, PrunePromised, SyncedPromised, DiscoverPromised, ByNamePromised, SetPromised,
     FillSettingsPromised DEF Next, Step

LEMMA PromisedInitially == Init => Promised
<1> SUFFICES ASSUME Init PROVE Promised
  OBVIOUS
<1>1. /\ cmd.op = "none" /\ cmd.at = "call" /\ cmd.todo = <<>> /\ DOMAIN cmd.todo = {}
      /\ promise = [p \in Plugins |-> [there |-> "open", on |-> "open"]]
  BY DEF Init, Idle
<1>2. Due = "none"
  BY <1>1 DEF Due
<1>3. InOrder /\ Inside /\ Installed /\ Unpromised
  BY <1>1, <1>2 DEF InOrder, Ordered, Inside, Replacing, Installed, Unpromised, Movers, Setters
<1>4. Kept
  BY <1>1 DEF Kept, KeepsWord, PromiseType
<1> QED
  BY <1>3, <1>4 DEF Promised

\* What install, update, uninstall, enable and disable told the user of a plugin stays
\* true until the next command on it, for any plugins and versions and wherever the
\* commands between are stopped: a sync (sync_bundled_plugins) writes the records of
\* the user's plugins back as it read them, and a discovery drops only records of
\* directories without a manifest.
THEOREM PromisesAreKept == Spec => []PromisesKept
<1>1. ASSUME IInv, Promised PROVE PromisesKept
  <2>1. ASSUME cmd = Idle, NEW p \in Plugins PROVE KeepsWord(p, registry[p], enabled[p])
    BY <1>1, <2>1, IdleIsTyped, AsPromised DEF Writing
  <2> QED
    BY <2>1 DEF PromisesKept, KeepsWord
<1>2. IInv /\ Promised /\ [Next]_vars => IInv' /\ Promised'
  BY Inductive, PromisedInductive
<1> QED
  BY <1>1, <1>2, Initially, PromisedInitially, PTL DEF Spec

-----------------------------------------------------------------------------
(* The type invariant *)

\* No directory holds a version that was never at its source.
Versions == \A p \in Plugins : source[p] <= MaxVersion /\ dir[p].ver <= source[p]

\* A command that has no call left is over.
OverIsIdle == cmd.todo = <<>> => cmd = Idle

RootAnswers == reachable \in BOOLEAN

LEMMA VersionsInductive == ASSUME IInv, Versions, [Next]_vars PROVE Versions'
<1> Ranges
  BY DEF IInv
<1>1. ASSUME UNCHANGED source, NEW q, NEW d \in [files : Files, ver : Nat],
             dir' = [dir EXCEPT ![q] = d] \/ dir' = dir, q \in Plugins => d.ver <= source[q]
      PROVE  Versions'
  BY <1>1 DEF Versions, Ranges
<1>2. ASSUME NEW q, NEW v \in Nat, NEW d \in PartOf(v), q \in Plugins => v <= source[q]
      PROVE  d \in [files : Files, ver : Nat] /\ (q \in Plugins => d.ver <= source[q])
  BY <1>2 DEF PartOf, Files, Ranges
<1>3. ASSUME NEW q, Lose(q), UNCHANGED source PROVE Versions'
  <2>1. CASE q \in Plugins
    <3>1. PICK d \in PartOf(dir[q].ver) : dir' = [dir EXCEPT ![q] = d]
      BY <1>3 DEF Lose
    <3>2. dir[q].ver \in Nat /\ dir[q].ver <= source[q]
      BY <2>1 DEF Ranges, Versions
    <3> QED
      BY <1>1, <1>2, <1>3, <3>1, <3>2
  <2>2. CASE q \notin Plugins
    <3>1. dir' = dir
      BY <1>3, <2>2 DEF Lose, Ranges
    <3> QED
      BY <1>3, <3>1 DEF Versions
  <2> QED
    BY <2>1, <2>2
<1>4. ASSUME NEW q, dir' = [dir EXCEPT ![q] = Absent], UNCHANGED source PROVE Versions'
  <2>1. PICK d : d = Absent
    OBVIOUS
  <2>2. d \in [files : Files, ver : Nat] /\ d.ver = 0
    BY <2>1 DEF Absent, Files
  <2>3. q \in Plugins => d.ver <= source[q]
    BY <2>2 DEF Ranges
  <2>4. dir' = [dir EXCEPT ![q] = d]
    BY <1>4, <2>1
  <2> QED
    BY <1>1, <1>4, <2>2, <2>3, <2>4
<1>5. CASE Publish
  <2>1. PICK p \in Plugins, v \in 1..MaxVersion : v > source[p] /\ source' = [source EXCEPT ![p] = v]
    BY <1>5 DEF Publish
  <2>2. dir' = dir
    BY <1>5 DEF Publish
  <2> QED
    BY <2>1, <2>2, PluginConstants DEF Versions, Ranges
<1>6. CASE Removing \/ Prune \/ Drop
  <2>1. UNCHANGED source /\ ((\E q : Lose(q)) \/ UNCHANGED dir)
    BY <1>6 DEF Removing, Prune, Drop
  <2> QED
    BY <1>3, <2>1 DEF Versions
<1>7. CASE Removed \/ Pruned \/ Dropped
  BY <1>4, <1>7 DEF Removed, Pruned, Dropped
<1>8. CASE Copying
  <2>1. PICK d \in PartOf(source[cmd.target]) : dir' = [dir EXCEPT ![cmd.target] = d]
    BY <1>8 DEF Copying
  <2>2. UNCHANGED source /\ cmd.target \in Plugins
    BY <1>8 DEF Copying, IInv, ReplacedForCause, Replacing
  <2>3. source[cmd.target] \in Nat /\ source[cmd.target] <= source[cmd.target]
    BY <2>2 DEF Ranges
  <2> QED
    BY <1>1, <1>2, <2>1, <2>2, <2>3
<1>9. CASE Copied
  <2>1. PICK d : d = [files |-> "whole", ver |-> source[cmd.target]]
    OBVIOUS
  <2>2. UNCHANGED source /\ cmd.target \in Plugins /\ dir' = [dir EXCEPT ![cmd.target] = d]
    BY <1>9, <2>1 DEF Copied, IInv, ReplacedForCause, Replacing
  <2>3. d \in [files : Files, ver : Nat] /\ d.ver <= source[cmd.target]
    BY <2>1, <2>2 DEF Ranges, Files
  <2> QED
    BY <1>1, <2>2, <2>3
<1>10. CASE \/ Reach \/ Start \/ Manage \/ Stop \/ Fill \/ Sync \/ SyncOne \/ Synced \/ Discover
            \/ ReplaceCall \/ Record \/ Set \/ FillSettings \/ UNCHANGED vars
  <2>1. UNCHANGED <<source, dir>>
    BY <1>10 DEF Reach, Start, Manage, Begin, Stop, Fill, Sync, SyncOne, Synced, Discover,
                 ReplaceCall, Record, Set, FillSettings, vars
  <2> QED
    BY <2>1 DEF Versions
<1> QED
  BY <1>5, <1>6, <1>7, <1>8, <1>9, <1>10 DEF Next, Step

LEMMA RootAnswersInductive == ASSUME RootAnswers, [Next]_vars PROVE RootAnswers'
<1>1. reachable' = reachable \/ reachable' = ~reachable
  BY DEF Next, Publish, Reach, Start, Manage, Begin, Stop, Step, Removing, Removed, Copying, Copied,
         Fill, Sync, SyncOne, Prune, Pruned, Synced, Discover, ReplaceCall, Record, Drop, Dropped,
         Set, FillSettings, vars
<1> QED
  BY <1>1, Zenon DEF RootAnswers

LEMMA OverIsIdleInductive == ASSUME IInv, OverIsIdle, [Next]_vars PROVE OverIsIdle'
<1> Ranges /\ InACall
  BY DEF IInv
<1>1. ASSUME cmd.todo # <<>>, Return PROVE OverIsIdle'
  <2>1. PICK todo \in Seq(Phases) : todo = cmd.todo
    BY DEF Ranges, Commands
  <2>2. CASE Len(todo) = 1
    BY <1>1, <2>1, <2>2 DEF Return, OverIsIdle
  <2>3. CASE Len(todo) # 1
    <3>1. todo # <<>> /\ cmd'.todo = Tail(todo)
      BY <1>1, <2>1, <2>3 DEF Return, Idle
    <3>2. Tail(todo) # <<>>
      BY <2>3, <3>1, SecondOf
    <3> QED
      BY <3>1, <3>2 DEF OverIsIdle
  <2> QED
    BY <2>2, <2>3
<1>2. ASSUME cmd.todo # <<>>, cmd'.todo = cmd.todo PROVE OverIsIdle'
  BY <1>2 DEF OverIsIdle
<1>3. CASE Publish \/ Reach \/ Stop
  BY <1>3 DEF Publish, Reach, Stop, OverIsIdle
<1>4. CASE Start \/ Manage
  <2>1. PICK op \in Ops \ {"none"}, p \in Plugins \cup {Nobody} : Begin(op, p)
    BY <1>4, PluginConstants DEF Start, Manage, Ops, Plugins
  <2>2. cmd'.todo = Calls(op) /\ Calls(op) # <<>>
    BY <2>1, CallsAreInOrder DEF Begin, Idle
  <2> QED
    BY <2>2 DEF OverIsIdle
<1>5. CASE \/ Removing \/ Removed \/ Copying \/ Sync \/ SyncOne \/ Prune \/ Pruned \/ ReplaceCall
           \/ Record \/ Drop \/ Dropped \/ Set
  <2>1. cmd.todo # <<>>
    BY <1>5 DEF Removing, Removed, Copying, Sync, SyncOne, Prune, Pruned, ReplaceCall, Record, Drop,
                Dropped, Set, Call, InACall
  <2>2. CASE Removing \/ Removed \/ Copying
    BY <1>2, <2>1, <2>2 DEF Removing, Removed, Copying, Goto, Ranges, Commands
  <2>3. CASE Sync \/ SyncOne \/ ReplaceCall
    BY <1>2, <2>1, <2>3 DEF Sync, SyncOne, ReplaceCall, Replace, Ranges, Commands
  <2>4. CASE Prune
    <3>1. PICK p \in Plugins : \/ cmd' = [cmd EXCEPT !.copy[p] = 0, !.dirty = TRUE]
                               \/ cmd' = [cmd EXCEPT !.target = p, !.at = "pruning"]
      BY <2>4 DEF Prune
    <3>2. cmd'.todo = cmd.todo
      BY <3>1 DEF Ranges, Commands
    <3> QED
      BY <1>2, <2>1, <3>2
  <2>5. CASE Pruned \/ Set
    BY <1>2, <2>1, <2>5 DEF Pruned, Set, Ranges, Commands
  <2>6. CASE Record \/ Drop \/ Dropped
    BY <1>2, <2>1, <2>6 DEF Record, Drop, Dropped, CutRegistry, Goto, Ranges, Commands
  <2> QED
    BY <1>5, <2>2, <2>3, <2>4, <2>5, <2>6
<1>6. CASE Copied \/ Synced \/ Discover \/ Fill \/ FillSettings
  <2>1. cmd.todo # <<>>
    BY <1>6 DEF Copied, Synced, Discover, Fill, FillSettings, Call, InACall
  <2>2. Return \/ cmd'.todo = cmd.todo
    <3>1. CASE Copied
      <4>1. Return \/ cmd' = [cmd EXCEPT !.copy[cmd.target] = source[cmd.target], !.dirty = TRUE,
                                         !.at = "syncing"]
        BY <3>1 DEF Copied
      <4> QED
        BY <4>1 DEF Ranges, Commands
    <3>2. CASE Synced \/ Discover
      <4>1. Return \/ \E copy : CutRegistry(copy)
        BY <3>2 DEF Synced, Discover
      <4> QED
        BY <4>1 DEF CutRegistry, Ranges, Commands
    <3>3. CASE Fill \/ FillSettings
      BY <3>3 DEF Fill, FillSettings
    <3> QED
      BY <1>6, <3>1, <3>2, <3>3
  <2> QED
    BY <1>1, <1>2, <2>1, <2>2
<1>7. CASE UNCHANGED vars
  BY <1>7 DEF vars, OverIsIdle
<1> QED
  BY <1>3, <1>4, <1>5, <1>6, <1>7 DEF Next, Step

\* Directories, files and the command stay in their ranges, and a command ends with its
\* last call: none is left over that does nothing.
THEOREM TypeCorrect == Spec => []TypeOK
<1>1. ASSUME IInv, Versions, OverIsIdle, RootAnswers PROVE TypeOK
  <2>1. /\ Ranges /\ OfThePast /\ MaxVersion \in Nat
    BY <1>1, PluginConstants DEF IInv
  <2>2. source \in [Plugins -> 1..MaxVersion]
    BY <1>1, <2>1 DEF Ranges, Versions
  <2>3. registry \in [Plugins -> 0..MaxVersion] /\ cmd.copy \in [Plugins -> 0..MaxVersion]
    <3>1. \A p \in Plugins : registry[p] \in 0..MaxVersion /\ cmd.copy[p] \in 0..MaxVersion
      BY <2>1, <2>2 DEF Ranges, Commands, OfThePast
    <3> QED
      BY <2>1, <3>1 DEF Ranges, Commands
  <2>4. dir \in [Plugins -> [files : Files, ver : 0..MaxVersion]]
    <3>1. ASSUME NEW p \in Plugins PROVE dir[p] \in [files : Files, ver : 0..MaxVersion]
      <4>1. dir[p] \in [files : Files, ver : Nat] /\ dir[p].ver \in 0..MaxVersion
        BY <1>1, <2>1, <2>2 DEF Ranges, Versions
      <4> QED
        BY <4>1
    <3> QED
      BY <2>1, <3>1 DEF Ranges
  <2>5. cmd.todo = <<>> <=> cmd = Idle
    BY <1>1, IdleIsTyped DEF OverIsIdle
  <2> QED
    BY <1>1, <2>1, <2>2, <2>3, <2>4, <2>5 DEF RootAnswers, TypeOK, Ranges, Commands
<1>2. Init => Versions /\ OverIsIdle /\ RootAnswers
  <2> SUFFICES ASSUME Init PROVE Versions /\ OverIsIdle /\ RootAnswers
    OBVIOUS
  <2>1. \A p \in Plugins : source[p] = 1 /\ dir[p].ver = 0
    BY DEF Init, Absent
  <2>2. cmd = Idle /\ reachable = TRUE
    BY DEF Init
  <2> QED
    BY <2>1, <2>2, PluginConstants DEF Versions, OverIsIdle, RootAnswers
<1>3. IInv /\ Versions /\ OverIsIdle /\ RootAnswers /\ [Next]_vars
        => IInv' /\ Versions' /\ OverIsIdle' /\ RootAnswers'
  BY Inductive, VersionsInductive, OverIsIdleInductive, RootAnswersInductive
<1> QED
  BY <1>1, <1>2, <1>3, Initially, PTL DEF Spec
===============================================================================
