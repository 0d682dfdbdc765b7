-------------------------- MODULE PluginLifecycle --------------------------
(* One plugin, from the tarball to the running channel: PluginManager (back/ *)
(* src/tools), the routes of PluginApi and the callbacks index.ts hands it.  *)
(* What is installed lives in four places: the index and the code in the     *)
(* store, and installedIds, registeredChannels and the channels of the       *)
(* running instance in memory; an instance that is replaced is not followed. *)
(* Requests interleave at every await and the core may die between any two;  *)
(* updateIndex is one step, which IndexLock shows it to be.  The store is    *)
(* that of Kubernetes: a read that fails and a write that is refused answer  *)
(* undefined, and nobody looks.                                              *)
EXTENDS Integers

CONSTANTS
    Clients,     \* requests to PluginApi that may be in progress at once
    MaxVersion,  \* bound: the versions of the plugin are 1..MaxVersion
    Images,      \* the versions an image may carry, 0 for none
    Big,         \* the versions whose back.js may not fit in a ConfigMap
    Faults,      \* what may go wrong, a subset of PluginFaults
    MayUpgrade   \* whether requests may carry the upgrade flag

Versions == 1..MaxVersion
NoVersion == 0
Boot == "boot"
Slots == Clients \cup {Boot}
\* "bundle": the image's install fails; "refuse": an install's requirements do;
\* "class": back.js exports no class, or does not load, or makes no channel.
PluginFaults == {"crash", "bundle", "refuse", "read", "write", "class"}

ASSUME ClientsAssumption == Boot \notin Clients
ASSUME VersionsAssumption ==
    MaxVersion \in Nat /\ Images \subseteq Versions \cup {NoVersion} /\ Big \subseteq Versions
ASSUME PluginFaultsAssumption == Faults \subseteq PluginFaults
ASSUME PluginFlagsAssumption == MayUpgrade \in BOOLEAN

VARIABLES
    big,        \* the versions whose back.js does not fit in a ConfigMap
    waits,      \* whether the channel requires a provider that is not up yet
    index,      \* the plugin's entry in kwirth-plugins-index: [version, from]
    back,       \* the version in kwirth-plugin-<id>-back
    front,      \* the version whose front was written to kwirth-plugin-<id>-front
    phase,      \* "down", "bundling" or "up"
    cached,     \* cachedIndex: the version init() read
    installed,  \* installedIds.includes(id)
    registered, \* registeredChannels.get(id)
    running,    \* activeRI.channels.get(id)
    hot,        \* instances made, whose providers are being awaited
    op,         \* what each request is doing, and the image's own install
    seen,       \* the index entry each request has read
    amiss       \* history, that no step reads: what did not go as the core
                \* takes it to have gone, and has not been mended since

package == <<big, waits>>
stored == <<index, back, front>>
memory == <<phase, cached, installed, registered, running, hot>>
vars == <<package, stored, memory, op, seen, amiss>>

(* "back", "front": the last write of it was refused.  "load": what was      *)
(* loaded last was not there to load.  "memory": the index does not hold     *)
(* what installedIds was made from.  "image": the image's install failed     *)
(* after its id was taken out of installedIds.  "index": a plugin that is in *)
(* the index was taken for one that is not.                                  *)
Mishaps == {"back", "front", "load", "memory", "image", "index"}

NoEntry == [version |-> NoVersion, from |-> "none"]
Idle == [pc |-> "idle", version |-> NoVersion, upgrade |-> FALSE]
Install(v, u) == [pc |-> "reading", version |-> v, upgrade |-> u]
Removal == [pc |-> "looking", version |-> NoVersion, upgrade |-> FALSE]

Init ==
    /\ big \in SUBSET Big /\ waits \in BOOLEAN
    /\ index = NoEntry /\ back = NoVersion /\ front = NoVersion
    /\ phase = "down" /\ cached = NoVersion
    /\ installed = FALSE /\ registered = NoVersion /\ running = NoVersion
    /\ hot = {}
    /\ op = [s \in Slots |-> Idle]
    /\ seen = [s \in Slots |-> NoEntry]
    /\ amiss = {}

Fails(fault, what) == fault \in Faults /\ amiss' = amiss \cup what
Mends(what) == amiss' = amiss \ what

Goes(s, pc) == op' = [op EXCEPT ![s].pc = pc]
Ends(s) == op' = [op EXCEPT ![s] = Idle]

-----------------------------------------------------------------------------
(* install                                                                   *)

(* POST /install or /upload: the tarball is there.                           *)
Post(c) ==
    /\ phase = "up" /\ op[c] = Idle
    /\ \E v \in Versions, u \in BOOLEAN :
         /\ u => MayUpgrade
         /\ op' = [op EXCEPT ![c] = Install(v, u)]
    /\ UNCHANGED <<stored, memory, seen, amiss>>

(* The index is read, and answers what it holds by then, or nothing.         *)
ReadIndex(s) ==
    /\ op[s].pc \in {"reading", "looking"}
    /\ \/ seen' = [seen EXCEPT ![s] = index]
       \/ "read" \in Faults /\ seen' = [seen EXCEPT ![s] = NoEntry]
    /\ Goes(s, IF op[s].pc = "reading" THEN "checking" ELSE "removing")
    /\ UNCHANGED <<stored, memory, amiss>>

(* Bugs: the flag is permission enough; a newer version is.                  *)
InstallableOverAny(s) == installed => op[s].upgrade
InstallableIfNewer(s) ==
    installed => seen[s].version # NoVersion /\ op[s].version > seen[s].version

(* assertInstallable: one that is not installed may be; one that is, only    *)
(* when asked to and only forwards.                                          *)
Installable(s) ==
    installed => /\ op[s].upgrade
                 /\ seen[s].version # NoVersion
                 /\ op[s].version > seen[s].version

(* The guard, and the requirements, which only the image is not asked for.   *)
Check(s) ==
    /\ op[s].pc = "checking"
    /\ Installable(s)
    /\ Goes(s, "code")
    /\ UNCHANGED <<stored, memory, seen, amiss>>

Reject(s) ==
    /\ op[s].pc = "checking"
    /\ \/ ~ Installable(s) /\ UNCHANGED amiss
       \/ s # Boot /\ "refuse" \in Faults /\ UNCHANGED amiss
       \/ /\ s = Boot
          /\ Fails("bundle", IF cached = NoVersion THEN {} ELSE {"image", "index"})
    /\ Ends(s)
    /\ UNCHANGED <<stored, memory, seen>>

(* A write takes effect or is refused, and the install goes on.              *)
WriteBack(s) ==
    /\ op[s].pc = "code"
    /\ \/ back' = op[s].version /\ Mends({"back"})
       \/ back' = back /\ Fails("write", {"back"})
    /\ Goes(s, "ui")
    /\ UNCHANGED <<index, front, memory, seen>>

WriteFront(s) ==
    /\ op[s].pc = "ui"
    /\ \/ front' = op[s].version /\ Mends({"front"})
       \/ front' = front /\ Fails("write", {"front"})
    /\ Goes(s, "indexing")
    /\ UNCHANGED <<index, back, memory, seen>>

(* From then on memory says what the index says.                             *)
Doubts == {"memory", "image", "index"}

UpdateIndex(s) ==
    /\ op[s].pc = "indexing"
    /\ \/ /\ index' = [version |-> op[s].version,
                       from |-> IF s = Boot THEN "image" ELSE "market"]
          /\ Mends(Doubts)
       \/ index' = index /\ Fails("write", {"memory"})
    /\ Goes(s, "loading")
    /\ UNCHANGED <<back, front, memory, seen>>

(* onPluginInstalled, which nobody awaits: it makes an instance of the class *)
(* that is registered, awaits the providers the channel requires, and puts   *)
(* the channel among the running.                                            *)
MakesInstance ==
    IF waits THEN hot' = hot \cup {registered'} /\ UNCHANGED running
             ELSE running' = registered' /\ UNCHANGED hot

(* installedIds, loadBackPlugin, which leaves the class there was when there *)
(* is no other, and the callback, which the image's install does not have.   *)
Load(s) ==
    /\ op[s].pc = "loading"
    /\ installed' = TRUE
    /\ \/ /\ registered' = op[s].version /\ Mends({"load"})
          /\ IF s = Boot THEN UNCHANGED <<running, hot>> ELSE MakesInstance
       \/ /\ registered' \in {registered, op[s].version} /\ Fails("class", {"load"})
          /\ \/ UNCHANGED <<running, hot>>
             \/ s # Boot /\ registered' # NoVersion /\ MakesInstance
    /\ Ends(s)
    /\ UNCHANGED <<stored, phase, cached, seen>>

HotReady(v) ==
    /\ v \in hot
    /\ hot' = hot \ {v}
    /\ running' = v
    /\ UNCHANGED <<stored, phase, cached, installed, registered, op, seen, amiss>>

-----------------------------------------------------------------------------
(* uninstall                                                                 *)

(* DELETE /:id                                                               *)
Delete(c) ==
    /\ phase = "up" /\ op[c] = Idle
    /\ op' = [op EXCEPT ![c] = Removal]
    /\ UNCHANGED <<stored, memory, seen, amiss>>

(* Bug: the constructor stays registered.                                    *)
RemoveKeepingClass(c) ==
    /\ op[c].pc = "removing"
    /\ IF seen[c].from = "image"
         THEN Ends(c) /\ UNCHANGED memory
         ELSE /\ Goes(c, "unindexing")
              /\ running' = NoVersion
              /\ installed' = FALSE
              /\ UNCHANGED <<phase, cached, registered, hot>>
    /\ UNCHANGED <<stored, seen, amiss>>

(* Bug: the code is erased and the entry is still in the index.              *)
RemoveErasingFirst(c) ==
    /\ op[c].pc = "removing"
    /\ IF seen[c].from = "image"
         THEN Ends(c) /\ UNCHANGED memory
         ELSE /\ Goes(c, "erasing")
              /\ registered' = NoVersion
              /\ running' = NoVersion
              /\ installed' = FALSE
              /\ UNCHANGED <<phase, cached, hot>>
    /\ UNCHANGED <<stored, seen, amiss>>

(* What came in the image is not uninstalled; otherwise it is taken out of   *)
(* memory, and what runs is told, cleaned up and dropped.                    *)
Remove(c) ==
    /\ op[c].pc = "removing"
    /\ IF seen[c].from = "image"
         THEN Ends(c) /\ UNCHANGED memory
         ELSE /\ Goes(c, "unindexing")
              /\ registered' = NoVersion
              /\ running' = NoVersion
              /\ installed' = FALSE
              /\ UNCHANGED <<phase, cached, hot>>
    /\ UNCHANGED <<stored, seen, amiss>>

Unindex(c) ==
    /\ op[c].pc = "unindexing"
    /\ \/ index' = NoEntry /\ Mends(Doubts)
       \/ index' = index /\ Fails("write", {"memory", "index"})
    /\ Goes(c, "erasing")
    /\ UNCHANGED <<back, front, memory, seen>>

EraseBack(c) ==
    /\ op[c].pc = "erasing"
    /\ \/ back' = NoVersion /\ Mends({"back"})
       \/ back' = back /\ Fails("write", {"back"})
    /\ Goes(c, "erasingUi")
    /\ UNCHANGED <<index, front, memory, seen>>

(* Bug: the route does not answer, and the request stays where it is.        *)
EraseFrontUnanswered(c) ==
    /\ op[c].pc = "erasingUi"
    /\ \/ front' = NoVersion /\ Mends({"front"})
       \/ front' = front /\ Fails("write", {"front"})
    /\ running' = NoVersion
    /\ Goes(c, "erased")
    /\ UNCHANGED <<index, back, phase, cached, installed, registered, hot, seen>>

(* The last write, and the callback of PluginApi, which drops whatever is    *)
(* running by then without cleaning it up.                                   *)
EraseFront(c) ==
    /\ op[c].pc = "erasingUi"
    /\ \/ front' = NoVersion /\ Mends({"front"})
       \/ front' = front /\ Fails("write", {"front"})
    /\ running' = NoVersion
    /\ Ends(c)
    /\ UNCHANGED <<index, back, phase, cached, installed, registered, hot, seen>>

-----------------------------------------------------------------------------
(* Startup                                                                   *)

(* init() reads the index, and takes a read that failed for an empty one;    *)
(* installBundled goes on when the image carries the plugin and that index   *)
(* does not, or carries it newer: then the id is taken out of installedIds   *)
(* and installed over.                                                       *)
Newer(carried) == carried > cached'

Start ==
    /\ phase = "down"
    /\ phase' = "bundling"
    /\ \/ cached' = index.version /\ UNCHANGED amiss
       \/ /\ cached' = NoVersion
          /\ Fails("read", IF index = NoEntry THEN {} ELSE {"memory", "index"})
    /\ \E carried \in Images :
         /\ installed' = (cached' # NoVersion /\ ~ Newer(carried))
         /\ op' = IF Newer(carried) THEN [op EXCEPT ![Boot] = Install(carried, FALSE)] ELSE op
    /\ UNCHANGED <<stored, registered, running, hot, seen>>

(* Bug: every plugin is fetched again from where its cached entry says.      *)
LoadableFromSource == IF cached = NoVersion THEN {registered} ELSE {cached, registered}

(* loadAll goes by what init() read: a back.js that was not stored is        *)
(* fetched from where that version came from, if it can be; any other is     *)
(* whatever the store has by now.  Then the channels are started.            *)
Loadable ==
    IF cached = NoVersion THEN {registered}
    ELSE IF cached \in big THEN {cached, registered}
    ELSE IF back # NoVersion /\ back \notin big THEN {back}
    ELSE {registered}

LoadAll ==
    /\ phase = "bundling" /\ op[Boot] = Idle
    /\ phase' = "up"
    /\ \/ registered' \in Loadable /\ running' = registered' /\ UNCHANGED amiss
       \/ registered' = registered /\ running' = registered' /\ Fails("read", {"load"})
       \/ /\ registered' \in Loadable \cup {registered} /\ running' \in {NoVersion, registered'}
          /\ Fails("class", {"load"})
    /\ UNCHANGED <<stored, cached, installed, hot, op, seen>>

(* The core dies and its memory with it.                                     *)
Crash ==
    /\ "crash" \in Faults
    /\ phase' = "down" /\ cached' = NoVersion
    /\ installed' = FALSE /\ registered' = NoVersion /\ running' = NoVersion
    /\ hot' = {}
    /\ op' = [s \in Slots |-> Idle]
    /\ seen' = [s \in Slots |-> NoEntry]
    /\ Mends({"memory", "image", "load"})
    /\ UNCHANGED stored

(* The update of another plugin's entry, whose read failed, leaves that one  *)
(* alone in the index.                                                       *)
Overwrite ==
    /\ phase # "down" /\ index # NoEntry
    /\ index' = NoEntry
    /\ Fails("read", {"memory"})
    /\ UNCHANGED <<back, front, memory, op, seen>>

Installing(s) ==
    ReadIndex(s) \/ Check(s) \/ Reject(s) \/ WriteBack(s) \/ WriteFront(s)
    \/ UpdateIndex(s) \/ Load(s)
Removing(c) == Delete(c) \/ Remove(c) \/ Unindex(c) \/ EraseBack(c) \/ EraseFront(c)

(* What the package is like does not change.                                 *)
Next ==
    /\ UNCHANGED package
    /\ \/ \E s \in Slots : Installing(s)
       \/ \E c \in Clients : Post(c) \/ Removing(c)
       \/ \E v \in Versions : HotReady(v)
       \/ Start \/ LoadAll \/ Crash \/ Overwrite

Spec == Init /\ [][Next]_vars

-----------------------------------------------------------------------------

Steps == {"idle", "reading", "checking", "code", "ui", "indexing", "loading",
          "looking", "removing", "unindexing", "erasing", "erasingUi"}
Entries == [version : Versions \cup {NoVersion}, from : {"none", "image", "market"}]

(* The types of what is stored, what is in memory and what is being done.    *)
TypeOK ==
    /\ big \subseteq Big /\ waits \in BOOLEAN
    /\ index \in Entries
    /\ back \in Versions \cup {NoVersion} /\ front \in Versions \cup {NoVersion}
    /\ phase \in {"down", "bundling", "up"}
    /\ cached \in Versions \cup {NoVersion}
    /\ installed \in BOOLEAN
    /\ registered \in Versions \cup {NoVersion} /\ running \in Versions \cup {NoVersion}
    /\ hot \subseteq Versions
    /\ op \in [Slots -> [pc : Steps, version : Versions \cup {NoVersion}, upgrade : BOOLEAN]]
    /\ seen \in [Slots -> Entries]
    /\ amiss \subseteq Mishaps

(* The API is served once the plugins are loaded, and the image installs     *)
(* only before that.                                                         *)
InTurn ==
    /\ phase # "up" => \A c \in Clients : op[c] = Idle
    /\ phase # "bundling" => op[Boot] = Idle

(* What the index names can be loaded, and is not older than the index says: *)
(* an install writes the code before its entry and an uninstall drops the    *)
(* entry before the code, so that a core that dies in between never starts   *)
(* with an entry without code.  Only what was refused may be older, and what *)
(* was written by a core that knew nothing of the entry.                     *)
CodeIsNotOlder ==
    index.version # NoVersion /\ "index" \notin amiss =>
        /\ back >= index.version \/ "back" \in amiss
        /\ front >= index.version \/ "front" \in amiss

Quiet == phase = "up" /\ \A s \in Slots : op[s] = Idle

(* PluginManager.ts:64, "uninstalling has to STOP what is running": when     *)
(* nothing is being done, installedIds says what the index says unless one   *)
(* of them was never told, nothing is registered of a plugin that is not     *)
(* installed, and what is installed is registered if its code fits in the    *)
(* store, was stored and could be loaded.  If the channel waits for no       *)
(* provider nothing runs that is not registered, and it is what is           *)
(* registered that runs if it could be made.                                 *)
Consistent ==
    Quiet =>
        /\ amiss \cap {"memory", "image"} = {} => (installed <=> index.version # NoVersion)
        /\ registered # NoVersion => installed \/ "image" \in amiss
        /\ big = {} /\ installed /\ amiss \cap {"load", "back", "index"} = {}
             => registered # NoVersion
        /\ ~ waits => \/ running = registered
                      \/ running # NoVersion => registered # NoVersion /\ "load" \in amiss

(* ExtensionInstallGuard.ts:15, "and only forwards", of a plugin that was    *)
(* not taken for one that is not there.                                      *)
OnlyForwards ==
    [][index.version # NoVersion /\ index'.version # NoVersion /\ "index" \notin amiss
         => index'.version > index.version]_index

(* ExtensionInstallGuard.ts:12, "an accidental install must not replace      *)
(* anything on its own account", but what it does not know to be there.      *)
NothingReplacedByAccident ==
    [][\A c \in Clients :
         UpdateIndex(c) /\ index.version # NoVersion /\ "index" \notin amiss => op[c].upgrade]_vars

(* What loadAll goes by was fetched, and was replaced since.                 *)
FetchedStale == cached \in big /\ cached < index.version

(* PluginManager.ts:489, "going back is not something a restart decides on   *)
(* its own": what is started is not older than what is installed, unless     *)
(* what init() read is fetched and the image has installed over it since, or *)
(* the code of what is installed was not stored.                             *)
RestartKeepsVersion ==
    [][phase = "bundling" /\ phase' = "up" /\ ~ FetchedStale /\ amiss \cap {"back", "index"} = {}
         => registered' = NoVersion \/ registered' >= index.version]_vars
=============================================================================
