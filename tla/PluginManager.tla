----------------------------- MODULE PluginManager -----------------------------
(***************************************************************************)
(* The plugin manager (plugins/src/lib.rs) as the CLI runs it: one command *)
(* at a time over three things on disk that no transaction ties together,  *)
(* the directories of plugins, the registry of what was installed, and the *)
(* enabledPlugins of the settings.  A command may end at any step, by a    *)
(* crash or by an I/O error that it passes on.                             *)
(*                                                                         *)
(* fs::write cuts a file and then fills it; an empty registry or settings  *)
(* file is read as one without entries, so a cut file needs no value of    *)
(* its own.  Sources change between commands only, never to an older       *)
(* version.                                                                *)
(***************************************************************************)
EXTENDS Naturals, Sequences

CONSTANTS
  Bundled,     \* plugins of the bundled root
  External,    \* plugins installed by the user
  Nobody,      \* no plugin
  MaxVersion   \* bound: versions of a plugin

ASSUME PluginConstants ==
  Bundled \cap External = {} /\ Nobody \notin Bundled \cup External /\ MaxVersion \in Nat \ {0}

Plugins == Bundled \cup External

VARIABLES
  source,     \* version at the source of each plugin, 0 for none
  reachable,  \* the bundled root can be listed
  dir,        \* installed/<id>: which files are there, and of which version
  registry,   \* installed.json: the version recorded for each plugin, 0 for no record
  enabled,    \* enabledPlugins of settings.json
  cmd,        \* the command that runs
  promise,    \* history: what the last commands on a plugin told the user
  halfPruned  \* history: bundled plugins that were removed, or in part, with the record left

vars == <<source, reachable, dir, registry, enabled, cmd, promise, halfPruned>>

\* unlisted: no manifest yet; bad: the manifest names files that are missing;
\* short: it loads, but files that it does not name are missing.
Files  == {"none", "unlisted", "bad", "short", "whole"}
Absent == [files |-> "none", ver |-> 0]
Loads(d)  == d.files \in {"short", "whole"}
Listed(d) == d.files \in {"bad", "short", "whole"}

Phases == {"sync", "discover", "replace", "record", "drop", "set"}

Ops == {"none", "start", "install", "update", "uninstall", "enable", "disable"}

\* The calls of a command, in order; after a change the CLI lists the plugins.
Calls(op) ==
  CASE op = "start"     -> <<"sync", "discover">>
    [] op = "install"   -> <<"replace", "record", "set", "sync", "discover", "sync", "discover">>
    [] op = "update"    -> <<"replace", "record", "sync", "discover", "sync", "discover">>
    [] op = "uninstall" -> <<"drop", "set", "sync", "discover">>
    [] OTHER            -> <<"sync", "discover", "sync", "discover", "set", "sync", "discover">>

\* at: next call, or inside one; left: bundled plugins still to look at;
\* copy, settings: what was read of the two files, with the changes so far.
Idle == [op |-> "none", plugin |-> Nobody, todo |-> <<>>, at |-> "call", left |-> {},
         target |-> Nobody, copy |-> [p \in Plugins |-> 0], dirty |-> FALSE,
         settings |-> [p \in Plugins |-> "unset"]]

Init ==
  /\ source \in [Plugins -> {1}] /\ reachable = TRUE
  /\ dir = [p \in Plugins |-> Absent] /\ registry = [p \in Plugins |-> 0]
  /\ enabled = [p \in Plugins |-> "unset"]
  /\ cmd = Idle
  /\ promise = [p \in Plugins |-> [there |-> "open", on |-> "open"]] /\ halfPruned = {}

Call(phase) == cmd.todo # <<>> /\ cmd.at = "call" /\ Head(cmd.todo) = phase

Goto(at) == cmd' = [cmd EXCEPT !.at = at]

\* The call is over: the next one, or the command has succeeded.
Return == cmd' = IF Len(cmd.todo) = 1 THEN Idle
                 ELSE [Idle EXCEPT !.op = cmd.op, !.plugin = cmd.plugin, !.todo = Tail(cmd.todo)]

-----------------------------------------------------------------------------
(* The user and the sources *)

Publish ==
  /\ cmd = Idle
  /\ \E p \in Plugins, v \in 1..MaxVersion :
       v > source[p] /\ source' = [source EXCEPT ![p] = v]
  /\ UNCHANGED <<reachable, dir, registry, enabled, cmd, promise, halfPruned>>

\* discover_plugin_dirs finds no bundled root, or may not read it: no bundled plugins.
Reach ==
  /\ cmd = Idle /\ reachable' = ~reachable
  /\ UNCHANGED <<source, dir, registry, enabled, cmd, promise, halfPruned>>

\* What the user was told of the plugin counts no more once a command on it begins.
Begin(op, p) ==
  /\ cmd = Idle
  /\ cmd' = [Idle EXCEPT !.op = op, !.plugin = p, !.todo = Calls(op)]
  /\ promise' = IF op = "start" THEN promise
                ELSE [promise EXCEPT ![p] =
                       [there |-> IF op \in {"enable", "disable"} THEN @.there ELSE "open",
                        on    |-> IF op = "update" THEN @.on ELSE "open"]]
  /\ UNCHANGED <<source, reachable, dir, registry, enabled, halfPruned>>

Start == Begin("start", Nobody)
\* A record is there for what update and uninstall name, and it is not of a bundled plugin.
Manage ==
  \/ \E p \in External : \/ Begin("install", p)
                         \/ registry[p] # 0 /\ (Begin("update", p) \/ Begin("uninstall", p))
  \/ \E p \in Plugins  : Begin("enable", p) \/ Begin("disable", p)

\* A crash, or an error of a file operation.  A file that was cut stays empty.
Stop ==
  /\ cmd # Idle
  /\ cmd' = Idle
  /\ promise' = [p \in Plugins |->
                   [there |-> IF cmd.at = "fill registry" THEN "open" ELSE promise[p].there,
                    on    |-> IF cmd.at = "fill settings" THEN "open" ELSE promise[p].on]]
  /\ UNCHANGED <<source, reachable, dir, registry, enabled, halfPruned>>

-----------------------------------------------------------------------------
(* Directories and the registry file *)

\* remove_dir_all or copy_dir_all is under way: any part of the files.
PartOf(ver) == {[files |-> f, ver |-> IF f = "unlisted" THEN 0 ELSE ver]
                  : f \in {"unlisted", "bad", "short"}}

Lose(p) == \E d \in PartOf(dir[p].ver) : dir' = [dir EXCEPT ![p] = d]

\* remove_dir_all of what is there, and copy_dir_all.
Replace(p) == [cmd EXCEPT !.target = p, !.left = @ \ {p},
                          !.at = IF dir[p] = Absent THEN "copy" ELSE "remove"]

Removing ==
  /\ cmd.at = "remove" /\ Lose(cmd.target) /\ Goto("removing")
  /\ UNCHANGED <<source, reachable, registry, enabled, promise, halfPruned>>

Removed ==
  /\ cmd.at = "removing" /\ dir' = [dir EXCEPT ![cmd.target] = Absent] /\ Goto("copy")
  /\ UNCHANGED <<source, reachable, registry, enabled, promise, halfPruned>>

Copying ==
  /\ cmd.at = "copy"
  /\ \E d \in PartOf(source[cmd.target]) : dir' = [dir EXCEPT ![cmd.target] = d]
  /\ Goto("copying")
  /\ UNCHANGED <<source, reachable, registry, enabled, promise, halfPruned>>

\* fs::write: the file is cut, and then filled.
CutRegistry(copy) ==
  /\ registry' = [p \in Plugins |-> 0]
  /\ cmd' = [cmd EXCEPT !.copy = copy, !.at = "fill registry"]

Fill ==
  /\ cmd.at = "fill registry"
  /\ registry' = cmd.copy /\ Return
  /\ promise' = IF cmd.op = "update" /\ Head(cmd.todo) = "record"
                  THEN [promise EXCEPT ![cmd.plugin].there = "yes"] ELSE promise
  /\ halfPruned' = {b \in halfPruned : registry'[b] # 0}
  /\ UNCHANGED <<source, reachable, dir, enabled>>

-----------------------------------------------------------------------------
(* sync_bundled_plugins *)

Sync ==
  /\ Call("sync")
  /\ cmd' = [cmd EXCEPT !.copy = registry, !.left = IF reachable THEN Bundled ELSE {},
                        !.at = "syncing"]
  /\ UNCHANGED <<source, reachable, dir, registry, enabled, promise, halfPruned>>

\* A sync that asks only whether the installed copy loads.
NeedsSync_FaultyTrustsCopy(record, b) == record = 0 \/ ~Loads(dir[b])

NeedsSync(record, b) == record # source[b] \/ ~Loads(dir[b])

SyncOne ==
  /\ cmd.at = "syncing"
  /\ \E b \in cmd.left :
       IF NeedsSync(cmd.copy[b], b)
         THEN cmd' = Replace(b) ELSE cmd' = [cmd EXCEPT !.left = @ \ {b}]
  /\ UNCHANGED <<source, reachable, dir, registry, enabled, promise, halfPruned>>

\* Every record of the registry that is not of a plugin in the bundled root.
Stale_FaultyAnyKind(p) == ~reachable /\ cmd.copy[p] # 0

Stale(p) == p \in Bundled /\ ~reachable /\ cmd.copy[p] # 0

Prune ==
  /\ cmd.at = "syncing" /\ cmd.left = {}
  /\ \E p \in Plugins :
       /\ Stale(p) /\ halfPruned' = halfPruned \cup {p}
       /\ IF dir[p] = Absent
            THEN cmd' = [cmd EXCEPT !.copy[p] = 0, !.dirty = TRUE] /\ UNCHANGED dir
            ELSE Lose(p) /\ cmd' = [cmd EXCEPT !.target = p, !.at = "pruning"]
  /\ UNCHANGED <<source, reachable, registry, enabled, promise>>

Pruned ==
  /\ cmd.at = "pruning"
  /\ dir' = [dir EXCEPT ![cmd.target] = Absent]
  /\ cmd' = [cmd EXCEPT !.copy[cmd.target] = 0, !.dirty = TRUE, !.at = "syncing"]
  /\ UNCHANGED <<source, reachable, registry, enabled, promise, halfPruned>>

Synced ==
  /\ cmd.at = "syncing" /\ cmd.left = {} /\ \A p \in Plugins : ~Stale(p)
  /\ IF cmd.dirty THEN CutRegistry(cmd.copy) ELSE Return /\ UNCHANGED registry
  /\ UNCHANGED <<source, reachable, dir, enabled, promise, halfPruned>>

\* The loop of the sync goes on with the new record; install and update go on to theirs.
Copied ==
  /\ cmd.at = "copying"
  /\ dir' = [dir EXCEPT ![cmd.target] = [files |-> "whole", ver |-> source[cmd.target]]]
  /\ IF Head(cmd.todo) = "sync"
       THEN cmd' = [cmd EXCEPT !.copy[cmd.target] = source[cmd.target], !.dirty = TRUE,
                               !.at = "syncing"]
       ELSE Return
  /\ halfPruned' = halfPruned \ {cmd.target}
  /\ UNCHANGED <<source, reachable, registry, enabled, promise>>

-----------------------------------------------------------------------------
(* Discovery, and the calls that change a plugin *)

\* A bundled copy without a record is taken for an external plugin of another id.
Known(p) == Loads(dir[p]) /\ (p \in Bundled => registry[p] # 0)

\* Records of directories without a manifest are dropped.
Forgotten(p) == ~Listed(dir[p])

\* enable and disable go on if every plugin loads, theirs among them.
Discover ==
  /\ Call("discover")
  /\ IF \E p \in Plugins : registry[p] # 0 /\ Forgotten(p)
       THEN CutRegistry([p \in Plugins |-> IF Forgotten(p) THEN 0 ELSE registry[p]])
       ELSE /\ cmd.op \in {"enable", "disable"} /\ Len(cmd.todo) > 3 =>
                 Known(cmd.plugin) /\ \A p \in Plugins : dir[p].files # "bad"
            /\ Return /\ UNCHANGED registry
  /\ UNCHANGED <<source, reachable, dir, enabled, promise, halfPruned>>

\* install and update: the staged plugin takes the place of the installed one.
ReplaceCall ==
  /\ Call("replace") /\ cmd' = Replace(cmd.plugin)
  /\ UNCHANGED <<source, reachable, dir, registry, enabled, promise, halfPruned>>

Record ==
  /\ Call("record")
  /\ CutRegistry([registry EXCEPT ![cmd.plugin] = source[cmd.plugin]])
  /\ UNCHANGED <<source, reachable, dir, enabled, promise, halfPruned>>

\* uninstall: the directory goes before the record.
Drop ==
  /\ Call("drop")
  /\ IF dir[cmd.plugin] = Absent
       THEN CutRegistry([registry EXCEPT ![cmd.plugin] = 0]) /\ UNCHANGED dir
       ELSE Lose(cmd.plugin) /\ Goto("dropping") /\ UNCHANGED registry
  /\ UNCHANGED <<source, reachable, enabled, promise, halfPruned>>

Dropped ==
  /\ cmd.at = "dropping"
  /\ dir' = [dir EXCEPT ![cmd.plugin] = Absent]
  /\ CutRegistry([registry EXCEPT ![cmd.plugin] = 0])
  /\ UNCHANGED <<source, reachable, enabled, promise, halfPruned>>

Wanted == CASE cmd.op \in {"install", "enable"} -> "on"
            [] cmd.op = "disable"               -> "off"
            [] OTHER                            -> "unset"

\* write_enabled_state: all of the settings are written again, with one entry changed.
Set ==
  /\ Call("set")
  /\ cmd' = [cmd EXCEPT !.settings = [enabled EXCEPT ![cmd.plugin] = Wanted],
                        !.at = "fill settings"]
  /\ enabled' = [p \in Plugins |-> "unset"]
  /\ UNCHANGED <<source, reachable, dir, registry, promise, halfPruned>>

FillSettings ==
  /\ cmd.at = "fill settings"
  /\ enabled' = cmd.settings /\ Return
  /\ promise' = [promise EXCEPT ![cmd.plugin] =
                   [there |-> CASE cmd.op = "install"   -> "yes"
                                [] cmd.op = "uninstall" -> "no"
                                [] OTHER                -> @.there,
                    on    |-> Wanted]]
  /\ UNCHANGED <<source, reachable, dir, registry, halfPruned>>

Step ==
  \/ Removing \/ Removed \/ Copying \/ Copied \/ Fill
  \/ Sync \/ SyncOne \/ Prune \/ Pruned \/ Synced
  \/ Discover \/ ReplaceCall \/ Record \/ Drop \/ Dropped \/ Set \/ FillSettings

Next == Publish \/ Reach \/ Start \/ Manage \/ Stop \/ Step

Spec == Init /\ [][Next]_vars

-----------------------------------------------------------------------------
(* Properties *)

\* Directories, files and the command in their ranges; a command in a call has one to be in.
TypeOK ==
  /\ source \in [Plugins -> 1..MaxVersion] /\ reachable \in BOOLEAN
  /\ dir \in [Plugins -> [files : Files, ver : 0..MaxVersion]]
  /\ registry \in [Plugins -> 0..MaxVersion]
  /\ enabled \in [Plugins -> {"unset", "on", "off"}]
  /\ cmd.op \in Ops /\ (cmd.todo = <<>> <=> cmd = Idle)
  /\ cmd.left \subseteq Bundled /\ cmd.copy \in [Plugins -> 0..MaxVersion]
  /\ halfPruned \subseteq Bundled

\* Wherever commands were cut short, a bundled plugin that the next sync would leave
\* alone is installed whole and of the version at its source (sync_bundled_plugins
\* keeps no mark of a copy that it began).  The one damage it does not see follows from
\* a removal (the bundled root was unreachable) that stopped before its record went.
SyncSeesDamage ==
  cmd = Idle =>
    \A b \in Bundled \ halfPruned :
      ~NeedsSync(registry[b], b) => dir[b] = [files |-> "whole", ver |-> source[b]]

\* What a command told the user of a plugin stays true until the next command on the
\* same plugin: no sync, no discovery and no command on another plugin, finished or
\* not, takes it back, unless it was stopped between cutting a file and filling it.
PromisesKept ==
  cmd = Idle =>
    \A p \in Plugins :
      /\ promise[p].on # "open" => enabled[p] = promise[p].on
      /\ promise[p].there = "yes" => dir[p].files = "whole" /\ registry[p] = dir[p].ver
      /\ promise[p].there = "no"  => dir[p] = Absent /\ registry[p] = 0
===============================================================================
