------------------------------- MODULE Wiring -------------------------------
(* The providers of a core, which are created because somebody requires them *)
(* (back/src/index.ts, providers/Consumer.ts): the startup does it for its   *)
(* channels, then a plugin installed while the core runs for its own, and a  *)
(* sender or a webhook, when its first configuration is added, for itself.   *)
(* A provider may consume others, and is told once when they are there       *)
(* (onProvidersReady).  The ids of a list of requirements are taken in any   *)
(* order, and what several lists ask for once.                               *)
EXTENDS Naturals, FiniteSets

CONSTANTS
    Providers,     \* ids
    Installs,      \* plugins that are installed while the core runs
    Extensions,    \* instances of senders and webhooks
    Startup,       \* the third kind of task
    Public,        \* providers with a router of their own
    Configurable,  \* providers with a configure(), whose configuration is read first
    None,          \* no provider
    MaxRequired    \* bound on a list of requirements

Tasks == {Startup} \cup Installs \cup Extensions

ASSUME TasksAssumption ==
    Startup \notin Installs \cup Extensions /\ Installs \cap Extensions = {}
ASSUME ProvidersAssumption ==
    Public \subseteq Providers /\ Configurable \subseteq Providers /\ None \notin Providers

VARIABLES
    class,         \* of each provider: not registered, one that works, one whose constructor throws
    requirements,  \* the providers each one consumes
    running,       \* clusterInfo.providers: each with who created it
    told,          \* how often each was told
    phase,         \* how far each task is
    needs,         \* what its channels, or the extension, require
    todo,          \* the ids it has yet to look at
    making,        \* the provider whose creation it awaits
    untold         \* the providers it has yet to tell

installed == <<class, requirements>>
vars == <<installed, running, told, phase, needs, todo, making, untold>>

Instances == Providers \X Tasks
Lists == {S \in SUBSET Providers : Cardinality(S) <= MaxRequired}
Present == {i[1] : i \in running}
Sound == {p \in Providers : class[p] = "sound"}

Init ==
    /\ class \in [Providers -> {"absent", "sound", "broken"}]
    /\ requirements \in [Providers -> Lists]
    /\ running = {} /\ told = [i \in Instances |-> 0]
    /\ phase = [t \in Tasks |-> "idle"]
    /\ needs = [t \in Tasks |-> {}] /\ todo = needs
    /\ making = [t \in Tasks |-> None]
    /\ untold = [t \in Tasks |-> {}]

-----------------------------------------------------------------------------

(* A plugin is installed once the routes are there, which is whatever became *)
(* of the startup; an extension is wired at its end and from then on.        *)
MayBegin(t) ==
    CASE t = Startup -> TRUE
      [] t \in Installs -> phase[Startup] \in {"done", "aborted"}
      [] t \in Extensions -> phase[Startup] = "done"

Begin(t) ==
    /\ phase[t] = "idle" /\ MayBegin(t)
    /\ phase' = [phase EXCEPT ![t] = "creating"]
    /\ \E S \in Lists :
         needs' = [needs EXCEPT ![t] = S] /\ todo' = [todo EXCEPT ![t] = S]
    /\ UNCHANGED <<installed, running, told, making, untold>>

Looks(t, p) == phase[t] = "creating" /\ making[t] = None /\ p \in todo[t]

(* It is there, or it is not registered, which is logged.                    *)
Pass(t, p) ==
    /\ Looks(t, p)
    /\ p \in Present \/ class[p] = "absent"
    /\ todo' = [todo EXCEPT ![t] = @ \ {p}]
    /\ UNCHANGED <<installed, running, told, phase, needs, making, untold>>

(* Bug: what it consumes is left to whoever else requires it.                *)
PushAlone(t, p) ==
    /\ running' = running \cup {<<p, t>>}
    /\ todo' = [todo EXCEPT ![t] = @ \ {p}]

(* It is created: what it consumes is looked at as well, but not by the      *)
(* wiring of an extension.                                                   *)
Push(t, p) ==
    /\ running' = running \cup {<<p, t>>}
    /\ todo' = [todo EXCEPT ![t] = (@ \ {p}) \cup (IF t \in Extensions THEN {} ELSE requirements[p])]

(* startRequiredProvider puts a provider in the list when it has started;    *)
(* hotCreateProvider does not await that, but it does the configuration.     *)
Awaited(t, p) == t \notin Installs \/ p \in Configurable

Create(t, p) ==
    /\ Looks(t, p)
    /\ p \notin Present /\ p \in Sound
    /\ IF Awaited(t, p)
         THEN making' = [making EXCEPT ![t] = p] /\ UNCHANGED <<running, todo>>
         ELSE Push(t, p) /\ UNCHANGED making
    /\ UNCHANGED <<installed, told, phase, needs, untold>>

(* Bug: what was not created is pushed as well.                              *)
CreatedAnyway(t) ==
    /\ phase[t] = "creating"
    /\ running' = running \cup {<<making[t], t>>}
    /\ making' = [making EXCEPT ![t] = None]
    /\ UNCHANGED <<installed, told, phase, needs, todo, untold>>

Created(t) ==
    /\ making[t] # None
    /\ Push(t, making[t])
    /\ making' = [making EXCEPT ![t] = None]
    /\ UNCHANGED <<installed, told, phase, needs, untold>>

(* The startup also creates what has a router, and passes over what throws.  *)
CreatePublic(p) ==
    /\ phase[Startup] = "creating" /\ making[Startup] = None
    /\ p \in Public \cap Sound /\ p \notin Present
    /\ Push(Startup, p)
    /\ UNCHANGED <<installed, told, phase, needs, making, untold>>

(* A constructor throws.  The wiring of an extension logs it; nothing else   *)
(* of what the startup or an install had left to do is done.                 *)
Throws(t, p) ==
    /\ Looks(t, p)
    /\ p \notin Present /\ class[p] = "broken"
    /\ IF t \in Extensions
         THEN todo' = [todo EXCEPT ![t] = @ \ {p}] /\ UNCHANGED phase
         ELSE todo' = [todo EXCEPT ![t] = {}] /\ phase' = [phase EXCEPT ![t] = "aborted"]
    /\ UNCHANGED <<installed, running, told, needs, making, untold>>

(* Bug: an install tells everybody, as the startup does.                     *)
WireEverybody(t) ==
    /\ phase[t] = "creating" /\ making[t] = None /\ todo[t] = {}
    /\ t = Startup => Public \cap Sound \subseteq Present
    /\ phase' = [phase EXCEPT ![t] = "wiring"]
    /\ untold' = [untold EXCEPT ![t] = IF t \in Extensions THEN {} ELSE running]
    /\ UNCHANGED <<installed, running, told, needs, todo, making>>

(* wireProviderConsumers, of those it created.  An extension only wires      *)
(* itself.                                                                   *)
Wire(t) ==
    /\ phase[t] = "creating" /\ making[t] = None /\ todo[t] = {}
    /\ t = Startup => Public \cap Sound \subseteq Present
    /\ phase' = [phase EXCEPT ![t] = "wiring"]
    /\ untold' = [untold EXCEPT ![t] =
                    IF t \in Extensions THEN {} ELSE {i \in running : i[2] = t}]
    /\ UNCHANGED <<installed, running, told, needs, todo, making>>

Tell(t, i) ==
    /\ i \in untold[t]
    /\ told' = [told EXCEPT ![i] = @ + 1]
    /\ untold' = [untold EXCEPT ![t] = @ \ {i}]
    /\ UNCHANGED <<installed, running, phase, needs, todo, making>>

(* The channel is started, or the extension is told.                         *)
Finish(t) ==
    /\ phase[t] = "wiring" /\ untold[t] = {}
    /\ phase' = [phase EXCEPT ![t] = "done"]
    /\ UNCHANGED <<installed, running, told, needs, todo, making, untold>>

Next ==
    \/ \E t \in Tasks : Begin(t) \/ Created(t) \/ Wire(t) \/ Finish(t)
    \/ \E t \in Tasks, p \in Providers : Pass(t, p) \/ Create(t, p) \/ Throws(t, p)
    \/ \E p \in Providers : CreatePublic(p)
    \/ \E t \in Tasks : \E i \in Instances : Tell(t, i)

Spec == Init /\ [][Next]_vars

-----------------------------------------------------------------------------

(* The types of the lists of providers and of the tasks over them.           *)
TypeOK ==
    /\ class \in [Providers -> {"absent", "sound", "broken"}]
    /\ requirements \in [Providers -> SUBSET Providers]
    /\ running \subseteq Instances /\ told \in [Instances -> Nat]
    /\ phase \in [Tasks -> {"idle", "creating", "wiring", "done", "aborted"}]
    /\ needs \in [Tasks -> SUBSET Providers] /\ todo \in [Tasks -> SUBSET Providers]
    /\ making \in [Tasks -> Providers \cup {None}] /\ untold \in [Tasks -> SUBSET Instances]

(* Consumer.ts:100, "a provider that consumes another can subscribe knowing  *)
(* its producer exists": whoever creates what and whatever crosses, when a   *)
(* provider or an extension is told, or the channel of an install started,   *)
(* all it requires that can be created is there, cycles included.            *)
ProducersAreThere ==
    /\ \A i \in running : told[i] > 0 => requirements[i[1]] \cap Sound \subseteq Present
    /\ \A t \in Installs \cup Extensions :
         phase[t] = "done" => needs[t] \cap Sound \subseteq Present

(* index.ts:1743, of a provider an install creates: it "would never          *)
(* subscribe until a restart".  What the startup or an install created is    *)
(* told exactly once by its end, and of a provider whose configuration is    *)
(* not read no second instance is told, so none is served twice, whatever    *)
(* installs and extensions cross.                                            *)
ToldOnce ==
    /\ \A i \in running :
         /\ told[i] <= 1
         /\ phase[i[2]] = "done" /\ i[2] \notin Extensions => told[i] = 1
    /\ \A i, j \in running :
         told[i] > 0 /\ told[j] > 0 /\ i[1] = j[1] => i = j \/ i[1] \in Configurable
=============================================================================
