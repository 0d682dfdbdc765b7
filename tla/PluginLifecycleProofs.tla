----------------------- MODULE PluginLifecycleProofs -----------------------
(* What holds of a plugin when its requests come one at a time, whatever the *)
(* versions, the images, the crashes and the faults of the store: the index  *)
(* only moves forwards and never names code the store does not have, but for *)
(* what went amiss.  The guard of install looks at installedIds and at an    *)
(* index read an await before; the invariant says when the two still tell    *)
(* the truth.                                                                *)
EXTENDS PluginLifecycle, TLAPS

OneAtATime == \A c, d \in Clients : c = d

Known == "index" \notin amiss
IsListed == index.version # NoVersion
Before == {"reading", "checking", "code", "ui", "indexing"}

(* installedIds knows what the index lists, but for the request that is just *)
(* about to say so, and the image's own install over it.                     *)
Listed ==
    phase # "down" /\ IsListed /\ ~ installed /\ Known
      => (\E s \in Slots : op[s].pc \in {"loading", "unindexing"}) \/ op[Boot].pc \in Before

(* An install brings a version of the plugin.                                *)
BringVersions ==
    \A s \in Slots : op[s].pc \in {"reading", "checking", "code", "ui", "indexing", "loading"}
                      => op[s].version \in Versions

(* What is true of a request at each of its steps.                           *)
InStep(s) ==
    /\ op[s].pc = "idle" => op[s] = Idle
    /\ op[s].pc \in {"reading", "checking", "code", "ui", "indexing", "loading"}
         => op[s].version \in Versions
    /\ s = Boot /\ op[s].pc \in {"reading", "checking"}
         => ~ installed /\ (Known => op[s].version > index.version)
    /\ s = Boot /\ op[s].pc \in Before /\ IsListed /\ cached = NoVersion
         => ~ Known /\ "memory" \in amiss
    /\ op[s].pc = "checking" /\ IsListed => seen[s].version \in {NoVersion, index.version}
    /\ op[s].pc \in {"code", "ui", "indexing"} /\ Known => op[s].version > index.version
    /\ op[s].pc \in {"ui", "indexing"} => back = op[s].version \/ "back" \in amiss
    /\ op[s].pc = "indexing" => front = op[s].version \/ "front" \in amiss
    /\ op[s].pc = "loading" => IsListed \/ "memory" \in amiss
    /\ op[s].pc = "loading" /\ Known => op[s].version >= index.version
    /\ op[s].pc \in {"erasing", "erasingUi"} /\ IsListed => ~ Known /\ "memory" \in amiss
    /\ s = Boot => op[s].pc \notin {"looking", "removing", "unindexing", "erasing", "erasingUi"}

IInv == TypeOK /\ InTurn /\ CodeIsNotOlder /\ Listed /\ \A s \in Slots : InStep(s)

-----------------------------------------------------------------------------
(* The initial states, the types, and who is busy.                           *)

(* The invariant holds of the initial states.                                *)
LEMMA PluginInit == Init => IInv
<1> SUFFICES ASSUME Init PROVE IInv
  OBVIOUS
<1> USE VersionsAssumption DEF Init, NoEntry, NoVersion, IsListed
<1>1. TypeOK
  BY DEF TypeOK, Entries, Steps, Idle
<1>2. InTurn
  BY DEF InTurn, Slots
<1>3. CodeIsNotOlder /\ Listed
  BY DEF CodeIsNotOlder, Listed
<1>4. \A s \in Slots : InStep(s)
  BY DEF InStep, Idle
<1> QED  BY <1>1, <1>2, <1>3, <1>4 DEF IInv

(* Requests come one at a time, and not while the image installs.            *)
LEMMA Alone ==
    ASSUME OneAtATime, InTurn, NEW s \in Slots, NEW t \in Slots, op[s] # Idle, op[t] # Idle
    PROVE  s = t
BY ClientsAssumption DEF OneAtATime, InTurn, Slots

(* Nothing is to be shown of a request that is not being served.             *)
LEMMA IdleInStep ==
    ASSUME NEW s \in Slots, op'[s] = Idle
    PROVE  InStep(s)'
BY DEF InStep, Idle, Before

(* The types are preserved by every step.                                    *)
LEMMA TypeStep ==
    ASSUME TypeOK, BringVersions, Next
    PROVE  TypeOK'
<1> USE VersionsAssumption DEF TypeOK, NoVersion, Fails, Mends, Mishaps
<1>0. big' = big /\ waits' = waits
  BY DEF Next, package
<1>1. ASSUME NEW s \in Slots, ReadIndex(s) PROVE TypeOK'
  BY <1>0, <1>1 DEF ReadIndex, Goes, Steps, Entries, NoEntry, stored, memory
<1>2. ASSUME NEW s \in Slots, Check(s) PROVE TypeOK'
  BY <1>0, <1>2 DEF Check, Goes, Steps, stored, memory
<1>3. ASSUME NEW s \in Slots, Reject(s) PROVE TypeOK'
  BY <1>0, <1>3 DEF Reject, Ends, Idle, Steps, stored, memory
<1>4. ASSUME NEW s \in Slots, WriteBack(s) PROVE TypeOK'
  BY <1>0, <1>4 DEF WriteBack, Goes, Steps, memory
<1>5. ASSUME NEW s \in Slots, WriteFront(s) PROVE TypeOK'
  BY <1>0, <1>5 DEF WriteFront, Goes, Steps, memory
<1>6. ASSUME NEW s \in Slots, UpdateIndex(s) PROVE TypeOK'
  BY <1>0, <1>6 DEF UpdateIndex, Doubts, Goes, Steps, Entries, memory
<1>7. ASSUME NEW s \in Slots, Load(s) PROVE TypeOK'
  BY <1>0, <1>7 DEF BringVersions, Load, MakesInstance, Ends, Idle, Steps, stored
<1>8. ASSUME NEW c \in Clients, Post(c) PROVE TypeOK'
  BY <1>0, <1>8 DEF Post, Install, Steps, Slots, stored, memory
<1>9. ASSUME NEW c \in Clients, Delete(c) PROVE TypeOK'
  BY <1>0, <1>9 DEF Delete, Removal, Steps, Slots, stored, memory
<1>10. ASSUME NEW c \in Clients, Remove(c) PROVE TypeOK'
  <2>1. op' \in [Slots -> [pc : Steps, version : Versions \cup {NoVersion}, upgrade : BOOLEAN]]
    <3>1. CASE Ends(c)
      BY <3>1 DEF Ends, Idle, Steps
    <3>2. CASE Goes(c, "unindexing")
      BY <3>2 DEF Goes, Steps
    <3> QED  BY <1>10, <3>1, <3>2 DEF Remove
  <2>2. CASE seen[c].from = "image"
    BY <1>0, <1>10, <2>1, <2>2 DEF Remove, stored, memory
  <2>3. CASE seen[c].from # "image"
    BY <1>0, <1>10, <2>1, <2>3 DEF Remove, stored
  <2> QED  BY <2>2, <2>3
<1>11. ASSUME NEW c \in Clients, Unindex(c) PROVE TypeOK'
  BY <1>0, <1>11 DEF Unindex, Doubts, Goes, Steps, Entries, NoEntry, Slots, memory
<1>12. ASSUME NEW c \in Clients, EraseBack(c) PROVE TypeOK'
  BY <1>0, <1>12 DEF EraseBack, Goes, Steps, Slots, memory
<1>13. ASSUME NEW c \in Clients, EraseFront(c) PROVE TypeOK'
  BY <1>0, <1>13 DEF EraseFront, Ends, Idle, Steps, Slots
<1>14. ASSUME NEW v \in Versions, HotReady(v) PROVE TypeOK'
  BY <1>0, <1>14 DEF HotReady, stored
<1>15. ASSUME Start PROVE TypeOK'
  <2>1. cached' \in Versions \cup {NoVersion} /\ amiss' \subseteq Mishaps
    BY <1>15 DEF Start, Entries, NoEntry
  <2>2. PICK carried \in Images :
          /\ installed' = (cached' # NoVersion /\ ~ Newer(carried))
          /\ op' = IF Newer(carried) THEN [op EXCEPT ![Boot] = Install(carried, FALSE)] ELSE op
    BY <1>15 DEF Start
  <2>3. op' \in [Slots -> [pc : Steps, version : Versions \cup {NoVersion}, upgrade : BOOLEAN]]
    BY <2>2 DEF Install, Steps, Slots
  <2> QED  BY <1>0, <1>15, <2>1, <2>2, <2>3 DEF Start, stored
<1>16. ASSUME LoadAll PROVE TypeOK'
  BY <1>0, <1>16 DEF LoadAll, Loadable, stored
<1>17. ASSUME Crash PROVE TypeOK'
  BY <1>0, <1>17 DEF Crash, Idle, NoEntry, Entries, Steps, stored
<1>18. ASSUME Overwrite PROVE TypeOK'
  BY <1>0, <1>18 DEF Overwrite, NoEntry, Entries, memory
<1> QED
  BY <1>1, <1>2, <1>3, <1>4, <1>5, <1>6, <1>7, <1>8, <1>9, <1>10, <1>11, <1>12, <1>13, <1>14,
     <1>15, <1>16, <1>17, <1>18
     DEF Next, Installing, Removing

(* What an install brings, it keeps.                                         *)
LEMMA VersionsStep ==
    ASSUME TypeOK, BringVersions, Next
    PROVE  BringVersions'
<1>1. op \in [Slots -> [pc : Steps, version : Versions \cup {NoVersion}, upgrade : BOOLEAN]]
  BY DEF TypeOK
<1>2. ASSUME NEW s \in Slots, Installing(s) PROVE BringVersions'
  BY <1>1, <1>2
     DEF BringVersions, Installing, ReadIndex, Check, Reject, WriteBack, WriteFront,
         UpdateIndex, Load, Goes, Ends, Idle
<1>3. ASSUME NEW c \in Clients, Post(c) PROVE BringVersions'
  BY <1>1, <1>3 DEF BringVersions, Post, Install, Slots
<1>4. ASSUME NEW c \in Clients, Removing(c) PROVE BringVersions'
  <2>1. c \in Slots
    BY DEF Slots
  <2>2. \/ op' = [op EXCEPT ![c] = Removal] \/ op' = [op EXCEPT ![c] = Idle]
        \/ \E pc \in {"unindexing", "erasing", "erasingUi"} : op' = [op EXCEPT ![c].pc = pc]
    BY <1>4 DEF Removing, Delete, Remove, Unindex, EraseBack, EraseFront, Goes, Ends
  <2> QED  BY <1>1, <2>1, <2>2 DEF BringVersions, Removal, Idle
<1>5. ASSUME Start PROVE BringVersions'
  <2>1. cached' \in Nat
    BY <1>5, VersionsAssumption DEF Start, TypeOK, Entries, Versions, NoVersion
  <2>2. PICK carried \in Images :
          op' = IF Newer(carried) THEN [op EXCEPT ![Boot] = Install(carried, FALSE)] ELSE op
    BY <1>5 DEF Start
  <2>3. Newer(carried) => carried \in Versions
    BY <2>1, VersionsAssumption DEF Newer, Versions, NoVersion
  <2> QED  BY <1>1, <2>2, <2>3 DEF BringVersions, Install, Slots
<1>6. ASSUME Crash PROVE BringVersions'
  BY <1>6 DEF BringVersions, Crash, Idle
<1>7. ASSUME UNCHANGED op PROVE BringVersions'
  BY <1>7 DEF BringVersions
<1> QED  BY <1>2, <1>3, <1>4, <1>5, <1>6, <1>7 DEF Next, HotReady, LoadAll, Overwrite

-----------------------------------------------------------------------------
(* The invariant.                                                            *)

Rest == InTurn /\ CodeIsNotOlder /\ Listed

(* A step of a request leaves the others as they are, and they are idle.     *)
LEMMA OthersIdle ==
    ASSUME OneAtATime, IInv, NEW s \in Slots, op[s] # Idle,
           \A t \in Slots \ {s} : op'[t] = op[t]
    PROVE  /\ \A t \in Slots \ {s} : op[t] = Idle
           /\ \A t \in Slots \ {s} : InStep(t)'
BY Alone, IdleInStep DEF IInv

(* The invariant is preserved by every step of the request of one client, or *)
(* of the image's own install.                                               *)
LEMMA SlotStep ==
    ASSUME OneAtATime, IInv, NEW s \in Slots, Installing(s)
    PROVE  Rest' /\ \A t \in Slots : InStep(t)'
<1> USE VersionsAssumption
    DEF NoVersion, Versions, Known, IsListed, Before, Fails, Mends, Doubts
<1>1. op \in [Slots -> [pc : Steps, version : Versions \cup {NoVersion}, upgrade : BOOLEAN]]
  BY DEF IInv, TypeOK
<1>2. op[s] # Idle
  BY DEF Installing, ReadIndex, Check, Reject, WriteBack, WriteFront, UpdateIndex, Load, Idle
<1>3. \A t \in Slots \ {s} : op'[t] = op[t]
  BY <1>1 DEF Installing, ReadIndex, Check, Reject, WriteBack, WriteFront, UpdateIndex, Load,
     Goes, Ends
<1>4. (\A t \in Slots \ {s} : op[t] = Idle) /\ (\A t \in Slots \ {s} : InStep(t)')
  BY <1>2, <1>3, OthersIdle
<1>5. SUFFICES Rest' /\ InStep(s)'
  BY <1>4
<1>6. TypeOK /\ InTurn /\ CodeIsNotOlder /\ Listed /\ InStep(s)
  BY DEF IInv
<1>7. (s \in Clients => phase = "up") /\ (s = Boot => phase = "bundling")
  BY <1>2, <1>6 DEF InTurn
<1>8. phase' = phase
  BY DEF Installing, ReadIndex, Check, Reject, WriteBack, WriteFront, UpdateIndex, Load, memory
<1>9. InTurn'
  BY <1>3, <1>4, <1>7, <1>8, ClientsAssumption DEF InTurn, Slots
<1>10. CASE ReadIndex(s)
  <2>1. CodeIsNotOlder'
    BY <1>1, <1>6, <1>10 DEF CodeIsNotOlder, InStep, TypeOK, Entries, ReadIndex, Goes, stored,
         memory
  <2>2. Listed'
    BY <1>1, <1>3, <1>4, <1>6, <1>10 DEF Listed, InStep, InTurn, TypeOK, Idle, ReadIndex, Goes,
         stored, memory, Slots
  <2>3. InStep(s)'
    BY <1>1, <1>3, <1>4, <1>6, <1>10 DEF Listed, InStep, InTurn, TypeOK, Entries, NoEntry, Idle,
         ReadIndex, Goes, stored, memory, Slots
  <2> QED  BY <1>9, <2>1, <2>2, <2>3 DEF Rest
<1>11. CASE Check(s)
  <2>1. CodeIsNotOlder'
    BY <1>1, <1>6, <1>11 DEF CodeIsNotOlder, InStep, TypeOK, Entries, Check, Installable, Goes,
         stored, memory
  <2>2. Listed'
    BY <1>1, <1>3, <1>4, <1>6, <1>11 DEF Listed, InStep, InTurn, TypeOK, Idle, Check,
         Installable, Goes, stored, memory, Slots
  <2>3. InStep(s)'
    BY <1>1, <1>3, <1>4, <1>6, <1>11 DEF Listed, InStep, InTurn, TypeOK, Entries, NoEntry, Idle,
         Check, Installable, Goes, stored, memory, Slots
  <2> QED  BY <1>9, <2>1, <2>2, <2>3 DEF Rest
<1>12. CASE Reject(s)
  <2>1. CodeIsNotOlder'
    BY <1>1, <1>6, <1>12 DEF CodeIsNotOlder, InStep, TypeOK, Entries, Reject, Installable, Ends,
         stored, memory
  <2>2. Listed'
    BY <1>1, <1>3, <1>4, <1>6, <1>12 DEF Listed, InStep, InTurn, TypeOK, Idle, Reject,
         Installable, Ends, stored, memory, Slots
  <2>3. InStep(s)'
    BY <1>1, <1>3, <1>4, <1>6, <1>12 DEF Listed, InStep, InTurn, TypeOK, Entries, NoEntry, Idle,
         Reject, Installable, Ends, stored, memory, Slots
  <2> QED  BY <1>9, <2>1, <2>2, <2>3 DEF Rest
<1>13. CASE WriteBack(s)
  <2>1. CodeIsNotOlder'
    BY <1>1, <1>6, <1>13 DEF CodeIsNotOlder, InStep, TypeOK, Entries, WriteBack, Goes, memory
  <2>2. Listed'
    BY <1>1, <1>3, <1>4, <1>6, <1>13 DEF Listed, InStep, InTurn, TypeOK, Idle, WriteBack, Goes,
         memory, Slots
  <2>3. InStep(s)'
    BY <1>1, <1>3, <1>4, <1>6, <1>13 DEF Listed, InStep, InTurn, TypeOK, Entries, NoEntry, Idle,
         WriteBack, Goes, memory, Slots
  <2> QED  BY <1>9, <2>1, <2>2, <2>3 DEF Rest
<1>14. CASE WriteFront(s)
  <2>1. CodeIsNotOlder'
    BY <1>1, <1>6, <1>14 DEF CodeIsNotOlder, InStep, TypeOK, Entries, WriteFront, Goes, memory
  <2>2. Listed'
    BY <1>1, <1>3, <1>4, <1>6, <1>14 DEF Listed, InStep, InTurn, TypeOK, Idle, WriteFront, Goes,
         memory, Slots
  <2>3. InStep(s)'
    BY <1>1, <1>3, <1>4, <1>6, <1>14 DEF Listed, InStep, InTurn, TypeOK, Entries, NoEntry, Idle,
         WriteFront, Goes, memory, Slots
  <2> QED  BY <1>9, <2>1, <2>2, <2>3 DEF Rest
<1>15. CASE UpdateIndex(s)
  <2>1. CodeIsNotOlder'
    <3>1. UNCHANGED <<back, front>> /\ op[s].pc = "indexing" /\ op[s].version \in Nat
      BY <1>6, <1>15 DEF UpdateIndex, InStep
    <3>2. CASE index'.version = op[s].version /\ Mends(Doubts)
      BY <1>6, <3>1, <3>2 DEF CodeIsNotOlder, InStep
    <3>3. CASE index' = index /\ Fails("write", {"memory"})
      BY <1>6, <3>1, <3>3 DEF CodeIsNotOlder
    <3> QED  BY <1>15, <3>2, <3>3 DEF UpdateIndex
  <2>2. Listed'
    BY <1>1, <1>3, <1>4, <1>6, <1>15 DEF Listed, InStep, InTurn, TypeOK, Idle, UpdateIndex,
         Goes, memory, Slots
  <2>3. InStep(s)'
    BY <1>1, <1>3, <1>4, <1>6, <1>15 DEF Listed, InStep, InTurn, TypeOK, Entries, NoEntry, Idle,
         UpdateIndex, Goes, memory, Slots
  <2> QED  BY <1>9, <2>1, <2>2, <2>3 DEF Rest
<1>16. CASE Load(s)
  <2>1. CodeIsNotOlder'
    BY <1>1, <1>6, <1>16 DEF CodeIsNotOlder, InStep, TypeOK, Entries, Load, Ends, stored
  <2>2. Listed'
    BY <1>1, <1>3, <1>4, <1>6, <1>16 DEF Listed, InStep, InTurn, TypeOK, Idle, Load, Ends,
         stored, Slots
  <2>3. InStep(s)'
    BY <1>1, <1>3, <1>4, <1>6, <1>16 DEF Listed, InStep, InTurn, TypeOK, Entries, NoEntry, Idle,
         Load, Ends, stored, Slots
  <2> QED  BY <1>9, <2>1, <2>2, <2>3 DEF Rest
<1> QED  BY <1>10, <1>11, <1>12, <1>13, <1>14, <1>15, <1>16 DEF Installing

(* It is preserved when a client asks for something.                         *)
LEMMA AskStep ==
    ASSUME OneAtATime, IInv, NEW c \in Clients, Post(c) \/ Delete(c)
    PROVE  Rest' /\ \A t \in Slots : InStep(t)'
<1> USE DEF Known, IsListed, Before
<1>1. op \in [Slots -> [pc : Steps, version : Versions \cup {NoVersion}, upgrade : BOOLEAN]]
  BY DEF IInv, TypeOK
<1>2. /\ InTurn /\ CodeIsNotOlder /\ Listed
      /\ UNCHANGED <<index, back, front, phase, installed, seen, amiss>>
      /\ phase = "up" /\ op[c] = Idle /\ c \in Slots /\ c # Boot
  BY ClientsAssumption DEF IInv, Post, Delete, stored, memory, Slots
<1>3. op[Boot] = Idle
  BY <1>2 DEF InTurn
<1>4. \A t \in Slots \ {c} : op[t] = Idle /\ op'[t] = Idle
  BY <1>1, <1>2, <1>3 DEF OneAtATime, Slots, Post, Delete
<1>5. /\ op'[c].pc \in {"reading", "looking"}
      /\ op'[c].pc = "reading" => op'[c].version \in Versions
  BY <1>1, <1>2 DEF Post, Delete, Install, Removal
<1>6. InTurn'
  BY <1>2, <1>4 DEF InTurn, Slots
<1>7. CodeIsNotOlder'
  BY <1>2 DEF CodeIsNotOlder
<1>8. Listed'
  BY <1>2, <1>3, <1>4 DEF Listed, Idle, Slots
<1>9. InStep(c)'
  BY <1>2, <1>5 DEF InStep
<1> QED  BY <1>4, <1>6, <1>7, <1>8, <1>9, IdleInStep DEF Rest

(* It is preserved by the steps of an uninstall.                             *)
LEMMA RemovalStep ==
    ASSUME OneAtATime, IInv, NEW c \in Clients,
           Remove(c) \/ Unindex(c) \/ EraseBack(c) \/ EraseFront(c)
    PROVE  Rest' /\ \A t \in Slots : InStep(t)'
<1> USE DEF Known, IsListed, Before
<1>1. op \in [Slots -> [pc : Steps, version : Versions \cup {NoVersion}, upgrade : BOOLEAN]]
  BY DEF IInv, TypeOK
<1>2. c \in Slots /\ c # Boot /\ op[c] # Idle
  BY ClientsAssumption DEF Slots, Remove, Unindex, EraseBack, EraseFront, Idle
<1>3. \A t \in Slots \ {c} : op'[t] = op[t]
  BY <1>1, <1>2 DEF Remove, Unindex, EraseBack, EraseFront, Goes, Ends
<1>4. (\A t \in Slots \ {c} : op[t] = Idle) /\ (\A t \in Slots \ {c} : InStep(t)')
  BY <1>2, <1>3, OthersIdle
<1>5. phase' = phase /\ phase = "up"
  BY <1>2 DEF Remove, Unindex, EraseBack, EraseFront, memory, IInv, InTurn
<1>6. InTurn'
  BY <1>2, <1>3, <1>4, <1>5 DEF InTurn, Slots
<1>7. TypeOK /\ CodeIsNotOlder /\ Listed /\ InStep(c)
  BY <1>2 DEF IInv
<1>8. CASE Remove(c)
  <2>1. UNCHANGED <<index, back, front, seen, amiss>>
    BY <1>8 DEF Remove, stored
  <2>2. CodeIsNotOlder'
    BY <1>7, <2>1 DEF CodeIsNotOlder
  <2>3. CASE seen[c].from = "image"
    <3>1. op'[c] = Idle /\ installed' = installed /\ op[c].pc = "removing"
      BY <1>1, <1>2, <1>8, <2>3 DEF Remove, Ends, memory
    <3>2. Listed'
      BY <1>3, <1>4, <1>5, <1>7, <2>1, <3>1 DEF Listed, Idle, Slots
    <3> QED  BY <1>4, <1>6, <2>2, <3>1, <3>2, IdleInStep DEF Rest
  <2>4. CASE seen[c].from # "image"
    <3>1. op'[c].pc = "unindexing"
      BY <1>1, <1>2, <1>8, <2>4 DEF Remove, Goes
    <3> QED  BY <1>2, <1>4, <1>6, <2>2, <3>1 DEF Rest, Listed, InStep
  <2> QED  BY <2>3, <2>4
<1>9. CASE Unindex(c) \/ EraseBack(c) \/ EraseFront(c)
  <2>1. IsListed' => ~ Known' /\ "memory" \in amiss'
    BY <1>7, <1>9
       DEF Unindex, EraseBack, EraseFront, InStep, NoEntry, Fails, Mends, Doubts
  <2>2. CodeIsNotOlder' /\ Listed'
    BY <2>1 DEF CodeIsNotOlder, Listed
  <2>3. op'[c] = Idle \/ op'[c].pc \in {"erasing", "erasingUi"}
    BY <1>1, <1>2, <1>9 DEF Unindex, EraseBack, EraseFront, Goes, Ends
  <2>4. InStep(c)'
    BY <1>2, <2>1, <2>3, IdleInStep DEF InStep
  <2> QED  BY <1>4, <1>6, <2>2, <2>4 DEF Rest
<1> QED  BY <1>8, <1>9

(* It is preserved by the steps of the core itself, and when the update of   *)
(* another plugin drops this one from the index.                             *)
LEMMA CoreStep ==
    ASSUME OneAtATime, IInv,
           Start \/ LoadAll \/ Crash \/ Overwrite \/ \E v \in Versions : HotReady(v)
    PROVE  Rest' /\ \A t \in Slots : InStep(t)'
<1> USE VersionsAssumption, ClientsAssumption
    DEF NoVersion, Known, IsListed, Before, Fails, Mends
<1>1. op \in [Slots -> [pc : Steps, version : Versions \cup {NoVersion}, upgrade : BOOLEAN]]
  BY DEF IInv, TypeOK
<1>2. TypeOK /\ InTurn /\ CodeIsNotOlder /\ Listed /\ \A t \in Slots : InStep(t)
  BY DEF IInv
<1>3. CodeIsNotOlder'
  <2>1. /\ index' = index \/ index'.version = NoVersion
        /\ UNCHANGED <<back, front>>
        /\ \A m \in {"index", "back", "front"} : m \in amiss => m \in amiss'
    <3>1. CASE Start
      BY <3>1 DEF Start, stored
    <3>2. CASE LoadAll
      BY <3>2 DEF LoadAll, stored
    <3>3. CASE Crash
      BY <3>3 DEF Crash, stored
    <3>4. CASE Overwrite \/ \E v \in Versions : HotReady(v)
      BY <3>4 DEF Overwrite, HotReady, NoEntry, stored
    <3> QED  BY <3>1, <3>2, <3>3, <3>4
  <2> QED  BY <1>2, <2>1 DEF CodeIsNotOlder
<1>4. CASE Start
  <2>1. \A t \in Slots : op[t] = Idle
    BY <1>2, <1>4 DEF InTurn, Start, Slots
  <2>2. PICK carried \in Images :
          /\ installed' = (cached' # NoVersion /\ ~ Newer(carried))
          /\ op' = IF Newer(carried) THEN [op EXCEPT ![Boot] = Install(carried, FALSE)] ELSE op
    BY <1>4 DEF Start
  <2>3. /\ index' = index /\ phase' = "bundling"
        /\ cached' = index.version \/ cached' = NoVersion
        /\ cached' = NoVersion /\ IsListed => ~ Known' /\ "memory" \in amiss'
    BY <1>4 DEF Start, NoEntry, stored
  <2>4. \A c \in Clients : op'[c] = Idle
    BY <1>1, <2>1, <2>2 DEF Slots
  <2>5. InTurn'
    BY <2>3, <2>4 DEF InTurn
  <2>6. CASE Newer(carried)
    <3>1. op'[Boot] = Install(carried, FALSE) /\ ~ installed'
      BY <1>1, <2>2, <2>6 DEF Slots
    <3>2. carried \in Versions /\ (Known' => carried > index.version)
      BY <1>2, <2>3, <2>6 DEF Newer, TypeOK, Entries, Versions
    <3>3. Listed' /\ InStep(Boot)'
      BY <2>3, <3>1, <3>2 DEF Listed, InStep, Install
    <3> QED  BY <1>3, <2>4, <2>5, <3>3, IdleInStep DEF Rest, Slots
  <2>7. CASE ~ Newer(carried)
    <3>1. op' = op /\ (IsListed /\ Known' => installed')
      BY <2>2, <2>3, <2>7
    <3>2. Listed'
      BY <2>3, <3>1 DEF Listed
    <3> QED  BY <1>3, <2>1, <2>5, <3>1, <3>2, IdleInStep DEF Rest
  <2> QED  BY <2>6, <2>7
<1>5. CASE LoadAll
  <2>1. \A t \in Slots : op[t] = Idle
    BY <1>2, <1>5 DEF InTurn, LoadAll, Slots
  <2>2. /\ op' = op /\ phase = "bundling" /\ phase' = "up"
        /\ index' = index /\ installed' = installed /\ (Known' <=> Known)
    BY <1>5 DEF LoadAll, stored
  <2>3. InTurn' /\ Listed'
    BY <1>2, <2>1, <2>2 DEF InTurn, Listed, Slots, Idle
  <2> QED  BY <1>3, <2>1, <2>2, <2>3, IdleInStep DEF Rest
<1>6. CASE Crash
  <2>1. phase' = "down" /\ \A t \in Slots : op'[t] = Idle
    BY <1>6 DEF Crash
  <2>2. InTurn' /\ Listed'
    BY <2>1 DEF InTurn, Listed, Slots
  <2> QED  BY <1>3, <2>1, <2>2, IdleInStep DEF Rest
<1>7. CASE \E v \in Versions : HotReady(v)
  <2>1. UNCHANGED <<op, seen, phase, cached, installed, index, back, front, amiss>>
    BY <1>7 DEF HotReady, stored
  <2>2. InTurn' /\ Listed'
    BY <1>2, <2>1 DEF InTurn, Listed
  <2>3. ASSUME NEW t \in Slots PROVE InStep(t)'
    BY <1>2, <2>1 DEF InStep
  <2> QED  BY <1>3, <2>2, <2>3 DEF Rest
<1>8. CASE Overwrite
  <2>1. /\ UNCHANGED <<op, seen, phase, cached, installed, back, front>>
        /\ index'.version = NoVersion /\ amiss' = amiss \cup {"memory"}
    BY <1>8 DEF Overwrite, NoEntry, memory
  <2>2. InTurn' /\ Listed'
    BY <1>2, <2>1 DEF InTurn, Listed
  <2>3. ASSUME NEW t \in Slots PROVE InStep(t)'
    <3>1. InStep(t) /\ op[t].version \in Nat
      BY <1>1, <1>2 DEF Versions
    <3>2. op[t].version \in Versions => op[t].version > 0
      BY DEF Versions
    <3> QED  BY <2>1, <3>1, <3>2 DEF InStep
  <2> QED  BY <1>3, <2>2, <2>3 DEF Rest
<1> QED  BY <1>4, <1>5, <1>6, <1>7, <1>8

(* The invariant is inductive.                                               *)
LEMMA PluginInvariant ==
    ASSUME OneAtATime
    PROVE  Spec => []IInv
<1>1. ASSUME IInv, Next PROVE IInv'
  <2>1. TypeOK'
    BY <1>1, TypeStep DEF IInv, InStep, BringVersions
  <2>2. Rest' /\ \A t \in Slots : InStep(t)'
    BY <1>1, SlotStep, AskStep, RemovalStep, CoreStep DEF Next, Removing
  <2> QED  BY <2>1, <2>2 DEF IInv, Rest
<1>2. ASSUME IInv, UNCHANGED vars PROVE IInv'
  BY <1>2 DEF IInv, TypeOK, InTurn, CodeIsNotOlder, Listed, InStep, Known, IsListed, vars, package,
              stored, memory
<1> QED  BY PluginInit, <1>1, <1>2, PTL DEF Spec

-----------------------------------------------------------------------------
(* What is in memory, part by part as Consistent has it.                     *)

IndexIsKnown == amiss \cap {"memory", "image"} = {} => (installed <=> IsListed)
OnlyInstalled == registered # NoVersion => installed \/ "image" \in amiss
EveryInstalled ==
    big = {} /\ installed /\ amiss \cap {"load", "back", "index"} = {} => registered # NoVersion
OnlyRegistered ==
    \/ running = registered
    \/ running # NoVersion => registered # NoVersion /\ "load" \in amiss

(* A request takes the plugin out of memory before it takes it out of the    *)
(* index, and puts it in the index before it puts it in memory.              *)
InMemory ==
    phase = "up" =>
      /\ (\A c \in Clients : op[c].pc \notin {"loading", "unindexing"}) => IndexIsKnown
      /\ (\A c \in Clients : op[c].pc # "loading") => OnlyInstalled
      /\ (\A c \in Clients : op[c].pc \notin {"ui", "indexing", "loading"}) => EveryInstalled
      /\ \A c \in Clients : op[c].pc \in {"unindexing", "erasing", "erasingUi"}
           => ~ installed /\ registered = NoVersion /\ (~ waits => running = NoVersion)

(* A core that starts has what the image installs registered, and what it    *)
(* has read in the store, to be loaded.                                      *)
Starting ==
    phase = "bundling" =>
      /\ cached # NoVersion /\ amiss \cap {"back", "index"} = {} => back # NoVersion
      /\ op[Boot] # Idle => registered = NoVersion
      /\ op[Boot] = Idle =>
           /\ IndexIsKnown
           /\ OnlyInstalled
           /\ cached # NoVersion => installed \/ "image" \in amiss
           /\ cached = NoVersion => EveryInstalled
           /\ registered # NoVersion /\ Known => registered >= index.version

Runs ==
    /\ ~ waits => hot = {} /\ OnlyRegistered
    /\ phase # "up" => running = NoVersion /\ hot = {}

Down == phase = "down" => registered = NoVersion /\ amiss \cap {"memory", "image", "load"} = {}

Agree == Runs /\ Down /\ InMemory /\ Starting

(* An install that got past the guard, over something, was asked to.         *)
Asked ==
    \A c \in Clients :
      op[c].pc \in {"code", "ui", "indexing"} /\ IsListed /\ Known => op[c].upgrade

(* The initial states have nothing anywhere.                                 *)
LEMMA AgreeInit == Init => Agree /\ Asked
BY ClientsAssumption
   DEF Init, Agree, Asked, Runs, Down, InMemory, Starting, IndexIsKnown, OnlyInstalled,
       EveryInstalled, OnlyRegistered, Idle, NoEntry, IsListed, NoVersion, Slots

(* A step of an install.                                                     *)
LEMMA AgreeInstalling ==
    ASSUME OneAtATime, UNCHANGED package, IInv, Agree, Asked, NEW s \in Slots, Installing(s)
    PROVE  Agree' /\ Asked'
<1> USE ClientsAssumption
    DEF NoVersion, Known, IsListed, Before, IndexIsKnown, OnlyInstalled, EveryInstalled,
        OnlyRegistered, Idle, Fails, Mends, Doubts
<1>1. /\ op \in [Slots -> [pc : Steps, version : Versions \cup {NoVersion}, upgrade : BOOLEAN]]
      /\ TypeOK /\ InTurn /\ InStep(s) /\ Boot \in Slots /\ Clients \subseteq Slots /\ s \in Slots
      /\ Slots = Clients \cup {Boot}
      /\ big' = big /\ waits' = waits
  BY DEF IInv, TypeOK, Slots, package
<1>2. op[s].pc \in {"reading", "looking", "checking", "code", "ui", "indexing", "loading"}
  BY DEF Installing, ReadIndex, Check, Reject, WriteBack, WriteFront, UpdateIndex, Load
<1>3. \A t \in Slots \ {s} : op[t] = Idle /\ op'[t] = Idle
  <2>1. \A t \in Slots \ {s} : op[t] = Idle
    BY <1>1, <1>2, Alone
  <2>2. \A t \in Slots \ {s} : op'[t] = op[t]
    BY <1>1 DEF Installing, ReadIndex, Check, Reject, WriteBack, WriteFront, UpdateIndex, Load,
                Goes, Ends
  <2> QED  BY <2>1, <2>2
<1>4. phase' = phase /\ phase = (IF s = Boot THEN "bundling" ELSE "up")
  BY <1>1, <1>2 DEF InTurn, Installing, ReadIndex, Check, Reject, WriteBack, WriteFront,
                    UpdateIndex, Load, memory
<1>5. Runs /\ InMemory /\ Starting
  BY DEF Agree
<1>6. SUFFICES Runs' /\ InMemory' /\ Starting' /\ Asked'
  BY <1>4 DEF Agree, Down
<1>7. CASE ReadIndex(s)
  <2>1. /\ UNCHANGED <<index, back, memory, amiss>> /\ op[s].pc \in {"reading", "looking"}
        /\ op'[s].pc \in {"checking", "removing"}
    BY <1>1, <1>7 DEF ReadIndex, Goes, stored
  <2>2. Runs'
    BY <1>1, <1>5, <2>1 DEF Runs, memory
  <2>3. InMemory'
    BY <1>1, <1>3, <1>4, <1>5, <2>1 DEF InMemory, memory
  <2>4. Starting'
    BY <1>1, <1>3, <1>4, <1>5, <2>1, VersionsAssumption DEF Starting, InStep, Versions, memory
  <2>5. Asked'
    BY <1>1, <1>3, <2>1 DEF Asked
  <2> QED  BY <2>2, <2>3, <2>4, <2>5
<1>8. CASE Check(s)
  <2>1. /\ UNCHANGED <<index, back, memory, amiss>> /\ op[s].pc = "checking"
        /\ op'[s] = [op[s] EXCEPT !.pc = "code"]
    BY <1>1, <1>8 DEF Check, Goes, stored
  <2>2. Runs'
    BY <1>1, <1>5, <2>1 DEF Runs, memory
  <2>3. InMemory'
    BY <1>1, <1>3, <1>4, <1>5, <2>1 DEF InMemory, memory
  <2>4. Starting'
    BY <1>1, <1>3, <1>4, <1>5, <2>1, VersionsAssumption DEF Starting, InStep, Versions, memory
  <2>5. s # Boot /\ IsListed /\ Known => op[s].upgrade
    <3>1. installed => op[s].upgrade
      BY <1>8 DEF Check, Installable
    <3>2. s # Boot /\ IsListed /\ Known => installed
      BY <1>1, <1>3, <1>4, <2>1 DEF Listed, IInv
    <3> QED  BY <3>1, <3>2
  <2>6. Asked'
    BY <1>1, <1>3, <2>1, <2>5 DEF Asked
  <2> QED  BY <2>2, <2>3, <2>4, <2>6
<1>9. CASE WriteBack(s)
  <2>1. /\ UNCHANGED <<index, memory>> /\ op[s].pc = "code"
        /\ op'[s] = [op[s] EXCEPT !.pc = "ui"]
        /\ \/ back' = op[s].version /\ amiss' = amiss \ {"back"}
           \/ back' = back /\ amiss' = amiss \cup {"back"}
    BY <1>1, <1>9 DEF WriteBack, Goes
  <2>2. Runs'
    BY <1>1, <1>5, <2>1 DEF Runs, memory
  <2>3. InMemory'
    BY <1>1, <1>3, <1>4, <1>5, <2>1 DEF InMemory, memory
  <2>4. Starting'
    BY <1>1, <1>3, <1>4, <1>5, <2>1, VersionsAssumption DEF Starting, InStep, Versions, memory
  <2>5. Asked'
    BY <1>1, <1>3, <2>1 DEF Asked
  <2> QED  BY <2>2, <2>3, <2>4, <2>5
<1>10. CASE WriteFront(s)
  <2>1. /\ UNCHANGED <<index, back, memory>> /\ op[s].pc = "ui"
        /\ op'[s] = [op[s] EXCEPT !.pc = "indexing"]
        /\ amiss' \in {amiss \ {"front"}, amiss \cup {"front"}}
    BY <1>1, <1>10 DEF WriteFront, Goes
  <2>2. Runs'
    BY <1>1, <1>5, <2>1 DEF Runs, memory
  <2>3. InMemory'
    BY <1>1, <1>3, <1>4, <1>5, <2>1 DEF InMemory, memory
  <2>4. Starting'
    BY <1>1, <1>3, <1>4, <1>5, <2>1, VersionsAssumption DEF Starting, InStep, Versions, memory
  <2>5. Asked'
    BY <1>1, <1>3, <2>1 DEF Asked
  <2> QED  BY <2>2, <2>3, <2>4, <2>5
<1>11. CASE Reject(s)
  <2>1. /\ UNCHANGED <<index, back, memory>> /\ op[s].pc = "checking" /\ op'[s] = Idle
        /\ s # Boot => amiss' = amiss
        /\ s = Boot => amiss' = amiss \cup (IF cached = NoVersion THEN {} ELSE {"image", "index"})
    BY <1>1, <1>11 DEF Reject, Installable, InStep, Ends, stored
  <2>2. Runs'
    BY <1>1, <1>5, <2>1 DEF Runs, memory
  <2>3. InMemory'
    BY <1>1, <1>3, <1>4, <1>5, <2>1 DEF InMemory, memory
  <2>4. Starting'
    BY <1>1, <1>3, <1>4, <1>5, <2>1 DEF Starting, InStep, memory
  <2>5. Asked'
    BY <1>1, <1>3, <2>1 DEF Asked
  <2> QED  BY <2>2, <2>3, <2>4, <2>5
<1>12. CASE UpdateIndex(s)
  <2>1. /\ UNCHANGED <<back, memory>> /\ op[s].pc = "indexing"
        /\ op'[s] = [op[s] EXCEPT !.pc = "loading"]
        /\ \/ amiss' = amiss \ {"memory", "image", "index"}
           \/ index' = index /\ amiss' = amiss \cup {"memory"}
    BY <1>1, <1>12 DEF UpdateIndex, Goes
  <2>2. Runs'
    BY <1>1, <1>5, <2>1 DEF Runs, memory
  <2>3. InMemory'
    BY <1>1, <1>3, <1>4, <1>5, <2>1 DEF InMemory, memory
  <2>4. Starting'
    BY <1>1, <1>3, <1>4, <1>5, <2>1, VersionsAssumption DEF Starting, InStep, Versions, memory
  <2>5. Asked'
    BY <1>1, <1>3, <2>1 DEF Asked
  <2> QED  BY <2>2, <2>3, <2>4, <2>5
<1>13. CASE Load(s)
  <2>1. /\ UNCHANGED <<index, back, phase, cached>> /\ op[s].pc = "loading" /\ op'[s] = Idle
        /\ installed'
        /\ \/ registered' = op[s].version /\ amiss' = amiss \ {"load"}
           \/ registered' \in {registered, op[s].version} /\ amiss' = amiss \cup {"load"}
    BY <1>1, <1>13 DEF Load, Ends, stored
  <2>2. op[s].version \in Versions /\ op[s].version # NoVersion
    BY <1>1, <2>1, VersionsAssumption DEF InStep, Versions
  <2>3. Runs'
    <3>1. CASE s = Boot
      <4>1. UNCHANGED <<running, hot>>
        BY <1>13, <3>1 DEF Load
      <4> QED  BY <1>4, <1>5, <2>1, <3>1, <4>1 DEF Runs
    <3>2. CASE s # Boot
      <4>1. ~ waits => hot' = hot /\ running' \in {running, registered'}
        BY <1>13 DEF Load, MakesInstance
      <4>2. ~ waits /\ running' # registered' => "load" \in amiss'
        BY <1>13, <3>2 DEF Load, MakesInstance
      <4>3. ~ waits /\ running # NoVersion => registered # NoVersion
        BY <1>5 DEF Runs
      <4>4. registered # NoVersion => registered' # NoVersion
        BY <2>1, <2>2
      <4> QED  BY <1>1, <1>4, <1>5, <2>1, <3>2, <4>1, <4>2, <4>3, <4>4 DEF Runs
    <3> QED  BY <3>1, <3>2
  <2>4. InMemory'
    BY <1>1, <1>3, <1>4, <1>5, <2>1, <2>2 DEF InMemory, InStep
  <2>5. Starting'
    BY <1>1, <1>3, <1>4, <1>5, <2>1, <2>2 DEF Starting, InStep
  <2>6. Asked'
    BY <1>1, <1>3, <2>1 DEF Asked
  <2> QED  BY <2>3, <2>4, <2>5, <2>6
<1> QED  BY <1>7, <1>8, <1>9, <1>10, <1>11, <1>12, <1>13 DEF Installing

(* A request comes, or a step of an uninstall.                               *)
LEMMA AgreeRemoving ==
    ASSUME OneAtATime, UNCHANGED package, IInv, Agree, NEW c \in Clients, Post(c) \/ Removing(c)
    PROVE  Agree' /\ Asked'
<1> USE ClientsAssumption
    DEF NoVersion, Known, IsListed, Before, IndexIsKnown, OnlyInstalled, EveryInstalled,
        OnlyRegistered, Idle, Fails, Mends, Doubts
<1>1. /\ op \in [Slots -> [pc : Steps, version : Versions \cup {NoVersion}, upgrade : BOOLEAN]]
      /\ InTurn /\ InStep(c) /\ c # Boot /\ Boot \in Slots /\ c \in Slots
      /\ Slots = Clients \cup {Boot} /\ Clients = {c}
      /\ big' = big /\ waits' = waits
  BY DEF IInv, TypeOK, Slots, OneAtATime, package
<1>2. phase = "up"
  BY <1>1 DEF Removing, Post, Delete, Remove, Unindex, EraseBack, EraseFront, InTurn
<1>3. phase' = "up"
  BY <1>2 DEF Removing, Post, Delete, Remove, Unindex, EraseBack, EraseFront, memory
<1>4. Runs /\ InMemory
  BY DEF Agree
<1>5. op'[c].pc \in {"idle", "reading", "looking", "unindexing", "erasing", "erasingUi"}
  BY <1>1 DEF Removing, Post, Delete, Remove, Unindex, EraseBack, EraseFront, Goes, Ends,
              Install, Removal
<1>6. Asked'
  BY <1>1, <1>5 DEF Asked
<1>7. SUFFICES Runs' /\ InMemory'
  BY <1>3, <1>6 DEF Agree, Down, Starting
<1>8. CASE Post(c) \/ Delete(c)
  <2>1. /\ op'[c].pc \in {"reading", "looking"} /\ UNCHANGED <<index, memory, amiss>>
        /\ op[c].pc = "idle"
    BY <1>1, <1>8 DEF Post, Delete, Install, Removal, stored
  <2> QED  BY <1>1, <1>4, <2>1 DEF Runs, InMemory, memory
<1>9. CASE Remove(c)
  <2>1. CASE seen[c].from = "image"
    <3>1. UNCHANGED <<index, memory, amiss>> /\ op'[c] = Idle /\ op[c].pc = "removing"
      BY <1>1, <1>9, <2>1 DEF Remove, Ends, stored
    <3> QED  BY <1>1, <1>4, <3>1 DEF Runs, InMemory, memory
  <2>2. CASE seen[c].from # "image"
    <3>1. /\ op'[c].pc = "unindexing" /\ ~ installed' /\ hot' = hot
          /\ registered' = NoVersion /\ running' = NoVersion
      BY <1>1, <1>9, <2>2 DEF Remove, Goes
    <3> QED  BY <1>1, <1>3, <1>4, <3>1 DEF Runs, InMemory
  <2> QED  BY <2>1, <2>2
<1>10. CASE Unindex(c)
  <2>1. /\ UNCHANGED memory /\ op[c].pc = "unindexing" /\ op'[c].pc = "erasing"
        /\ \/ index'.version = NoVersion /\ amiss' = amiss \ {"memory", "image", "index"}
           \/ amiss' = amiss \cup {"memory", "index"}
    BY <1>1, <1>10 DEF Unindex, Goes, NoEntry
  <2> QED  BY <1>1, <1>2, <1>4, <2>1 DEF Runs, InMemory, memory
<1>11. CASE EraseBack(c)
  <2>1. /\ UNCHANGED <<index, memory>> /\ op[c].pc = "erasing" /\ op'[c].pc = "erasingUi"
        /\ amiss' \in {amiss \ {"back"}, amiss \cup {"back"}}
    BY <1>1, <1>11 DEF EraseBack, Goes
  <2> QED  BY <1>1, <1>2, <1>4, <2>1 DEF Runs, InMemory, memory
<1>12. CASE EraseFront(c)
  <2>1. /\ UNCHANGED <<index, phase, installed, registered, hot>> /\ running' = NoVersion
        /\ op[c].pc = "erasingUi" /\ op'[c] = Idle
        /\ amiss' \in {amiss \ {"front"}, amiss \cup {"front"}}
    BY <1>1, <1>12 DEF EraseFront, Ends
  <2> QED  BY <1>1, <1>2, <1>4, <2>1 DEF Runs, InMemory
<1> QED  BY <1>8, <1>9, <1>10, <1>11, <1>12 DEF Removing

(* A step of the core, which starts, loads or dies, or of another plugin.    *)
LEMMA AgreeCore ==
    ASSUME UNCHANGED package, IInv, Agree, Asked,
           Start \/ LoadAll \/ Crash \/ Overwrite \/ \E v \in Versions : HotReady(v)
    PROVE  Agree' /\ Asked'
<1> USE ClientsAssumption, VersionsAssumption
    DEF NoVersion, Known, IsListed, Before, IndexIsKnown, OnlyInstalled, EveryInstalled,
        OnlyRegistered, Idle, Fails, Mends
<1>1. /\ op \in [Slots -> [pc : Steps, version : Versions \cup {NoVersion}, upgrade : BOOLEAN]]
      /\ index \in Entries /\ back \in Versions \cup {NoVersion}
      /\ InTurn /\ CodeIsNotOlder /\ Slots = Clients \cup {Boot}
      /\ big' = big /\ waits' = waits
  BY DEF IInv, TypeOK, Slots, package
<1>2. Runs /\ Down /\ InMemory /\ Starting
  BY DEF Agree
<1>3. CASE Start
  <2>1. \A t \in Slots : op[t] = Idle
    BY <1>1, <1>3 DEF Start, InTurn
  <2>2. PICK carried \in Images :
          /\ installed' = (cached' # NoVersion /\ ~ Newer(carried))
          /\ op' = IF Newer(carried) THEN [op EXCEPT ![Boot] = Install(carried, FALSE)] ELSE op
    BY <1>3 DEF Start
  <2>3. /\ UNCHANGED <<index, back, hot, registered, running>>
        /\ phase = "down" /\ phase' = "bundling"
        /\ \/ cached' = index.version /\ amiss' = amiss
           \/ cached' = NoVersion /\ ~ IsListed /\ amiss' = amiss
           \/ cached' = NoVersion /\ amiss' = amiss \cup {"memory", "index"}
    BY <1>3 DEF Start, NoEntry, stored
  <2>4. /\ Newer(carried) => op'[Boot].pc = "reading"
        /\ ~ Newer(carried) => op'[Boot] = Idle
        /\ \A c \in Clients : op'[c] = Idle
    BY <1>1, <2>1, <2>2 DEF Install
  <2>5. Runs'
    BY <1>1, <1>2, <2>3 DEF Runs
  <2>6. Starting'
    <3>1. cached' # NoVersion /\ amiss' \cap {"back", "index"} = {} => back' # NoVersion
      BY <1>1, <2>3 DEF CodeIsNotOlder, Entries, Versions
    <3>2. registered' = NoVersion /\ amiss \cap {"memory", "image"} = {}
      BY <1>2, <2>3 DEF Down
    <3>3. CASE Newer(carried)
      BY <2>4, <3>1, <3>2, <3>3 DEF Starting
    <3>4. CASE ~ Newer(carried)
      <4>1. installed' <=> cached' # NoVersion
        BY <2>2, <3>4
      <4>2. IndexIsKnown'
        BY <2>3, <4>1
      <4> QED  BY <2>4, <3>1, <3>2, <3>4, <4>1, <4>2 DEF Starting
    <3> QED  BY <3>3, <3>4
  <2>7. Asked'
    BY <2>4 DEF Asked
  <2> QED  BY <2>3, <2>5, <2>6, <2>7 DEF Agree, Down, InMemory
<1>4. CASE LoadAll
  <2>1. \A t \in Slots : op[t] = Idle /\ op'[t] = Idle
    BY <1>1, <1>4 DEF LoadAll, InTurn
  <2>2. /\ UNCHANGED <<index, hot, installed>> /\ phase = "bundling" /\ phase' = "up"
        /\ registered' \in Loadable \cup {registered}
        /\ \/ amiss' = amiss /\ registered' \in Loadable /\ running' = registered'
           \/ /\ amiss' = amiss \cup {"load"}
              /\ running' = registered' \/ running' = NoVersion
    BY <1>4 DEF LoadAll, stored
  <2>3. Runs'
    BY <1>1, <1>2, <2>2 DEF Runs
  <2>4. InMemory'
    <3>1. IndexIsKnown' /\ OnlyInstalled'
      BY <1>1, <1>2, <2>1, <2>2 DEF Starting, Loadable
    <3>2. EveryInstalled'
      <4>1. CASE cached = NoVersion
        BY <1>1, <1>2, <2>1, <2>2, <4>1 DEF Starting, Loadable
      <4>2. CASE cached # NoVersion
        BY <1>1, <1>2, <2>1, <2>2, <4>2 DEF Starting, Loadable
      <4> QED  BY <4>1, <4>2
    <3> QED  BY <1>1, <2>1, <3>1, <3>2 DEF InMemory
  <2>5. Asked'
    BY <1>1, <2>1 DEF Asked
  <2> QED  BY <2>2, <2>3, <2>4, <2>5 DEF Agree, Down, Starting
<1>5. CASE Crash
  BY <1>1, <1>5 DEF Crash, Agree, Runs, Down, InMemory, Starting, Asked
<1>6. CASE \E v \in Versions : HotReady(v)
  <2>1. /\ UNCHANGED <<index, back, op, phase, cached, installed, registered, amiss>>
        /\ waits /\ phase = "up"
    BY <1>2, <1>6 DEF HotReady, Runs, stored
  <2> QED  BY <1>1, <1>2, <2>1 DEF Agree, Runs, Down, InMemory, Starting, Asked
<1>7. CASE Overwrite
  <2>1. /\ UNCHANGED <<back, op, phase, cached, installed, registered, running, hot>>
        /\ index'.version = NoVersion /\ amiss' = amiss \cup {"memory"} /\ phase # "down"
    BY <1>7 DEF Overwrite, NoEntry, memory
  <2>2. Runs' /\ Down' /\ Asked'
    BY <1>1, <1>2, <2>1 DEF Runs, Down, Asked
  <2>3. InMemory'
    BY <1>1, <1>2, <2>1 DEF InMemory
  <2>4. Starting'
    <3>1. registered \in Nat /\ (registered # NoVersion => registered > 0)
      BY DEF IInv, TypeOK, Versions
    <3> QED  BY <1>1, <1>2, <2>1, <3>1 DEF Starting
  <2> QED  BY <2>2, <2>3, <2>4 DEF Agree
<1> QED  BY <1>3, <1>4, <1>5, <1>6, <1>7

(* The two hold in every state.                                              *)
LEMMA AgreeInvariant ==
    ASSUME OneAtATime
    PROVE  Spec => [](IInv /\ Agree /\ Asked)
<1>1. ASSUME IInv, Agree, Asked, Next PROVE Agree' /\ Asked'
  BY <1>1, AgreeInstalling, AgreeRemoving, AgreeCore DEF Next
<1>2. ASSUME Agree, Asked, UNCHANGED vars PROVE Agree' /\ Asked'
  BY <1>2 DEF Agree, Asked, Runs, Down, InMemory, Starting, IndexIsKnown, OnlyInstalled,
              EveryInstalled, OnlyRegistered, Known, IsListed, vars, package, stored, memory
<1> QED  BY AgreeInit, PluginInvariant, <1>1, <1>2, PTL DEF Spec

-----------------------------------------------------------------------------
(* What follows from it.                                                     *)

(* Of requests that come one at a time the index never names a version whose *)
(* code, or a later one's, is not in the store, wherever the core dies and   *)
(* whatever the store refuses, but for a write that was refused itself and   *)
(* for an entry that was taken for missing.                                  *)
THEOREM IndexNeverAheadOfCode ==
    ASSUME OneAtATime
    PROVE  Spec => []CodeIsNotOlder
BY PluginInvariant, PTL DEF IInv

(* Nor is what is installed ever replaced by something that is not newer, of *)
(* an entry that was not taken for missing.                                  *)
THEOREM InstallsOnlyMoveForwards ==
    ASSUME OneAtATime
    PROVE  Spec => OnlyForwards
<1>1. ASSUME IInv, [Next]_vars
      PROVE  [index.version # NoVersion /\ index'.version # NoVersion /\ "index" \notin amiss
                => index'.version > index.version]_index
  <2>1. ASSUME NEW s \in Slots, UpdateIndex(s), "index" \notin amiss, index' # index
        PROVE  index'.version > index.version
    BY <1>1, <2>1 DEF IInv, InStep, Known, UpdateIndex
  <2>2. ASSUME NEW c \in Clients, Unindex(c), index' # index PROVE index'.version = NoVersion
    BY <2>2 DEF Unindex, NoEntry
  <2>3. ASSUME Overwrite PROVE index'.version = NoVersion
    BY <2>3 DEF Overwrite, NoEntry
  <2>4. SUFFICES ASSUME Next, index' # index, ~ Overwrite,
                        ~ \E s \in Slots : UpdateIndex(s), ~ \E c \in Clients : Unindex(c)
                 PROVE  FALSE
    BY <1>1, <2>1, <2>2, <2>3 DEF vars, stored
  <2> QED
    BY <2>4 DEF Next, Installing, Removing, ReadIndex, Check, Reject, WriteBack, WriteFront, Load,
                Post, Delete, Remove, EraseBack, EraseFront, HotReady, Start, LoadAll, Crash, stored
<1> QED  BY PluginInvariant, <1>1, PTL DEF Spec, OnlyForwards

(* What is stored, remembered and served keeps its type.                     *)
THEOREM PluginTyped == Spec => []TypeOK
<1>1. Init => TypeOK /\ BringVersions
  BY PluginInit DEF IInv, InStep, BringVersions
<1>2. TypeOK /\ BringVersions /\ [Next]_vars => TypeOK' /\ BringVersions'
  <2>1. TypeOK /\ BringVersions /\ UNCHANGED vars => TypeOK' /\ BringVersions'
    BY DEF TypeOK, BringVersions, vars, package, stored, memory
  <2> QED  BY <2>1, TypeStep, VersionsStep
<1> QED  BY <1>1, <1>2, PTL DEF Spec

(* When nothing is being done, the memory and the index agree on what is     *)
(* installed and registered, and a channel that waits for nothing is what    *)
(* runs, whatever was installed, uninstalled or interrupted before, but for  *)
(* what the store, the image or the class failed to do.                      *)
THEOREM WhatRunsIsInstalled ==
    ASSUME OneAtATime
    PROVE  Spec => []Consistent
<1>1. Agree => Consistent
  BY DEF Agree, Runs, InMemory, IndexIsKnown, OnlyInstalled, EveryInstalled, OnlyRegistered,
         IsListed, Consistent, Quiet, Idle, Slots
<1> QED  BY AgreeInvariant, <1>1, PTL

(* And an install replaces something only when it was asked to, or when it   *)
(* was taken for missing.                                                    *)
THEOREM ReplacedOnlyWhenAsked ==
    ASSUME OneAtATime
    PROVE  Spec => NothingReplacedByAccident
<1>1. ASSUME Asked
      PROVE  \A c \in Clients :
               UpdateIndex(c) /\ index.version # NoVersion /\ "index" \notin amiss => op[c].upgrade
  BY <1>1 DEF Asked, IsListed, Known, UpdateIndex
<1> QED  BY AgreeInvariant, <1>1, PTL DEF NothingReplacedByAccident

(* A restart starts what the index names, or what an interrupted upgrade put *)
(* in its place, or nothing; never something older, of code that was stored. *)
THEOREM RestartsNeverGoBack ==
    ASSUME OneAtATime
    PROVE  Spec => RestartKeepsVersion
<1> DEFINE Loads == /\ phase = "bundling" /\ phase' = "up" /\ ~ FetchedStale
                    /\ amiss \cap {"back", "index"} = {}
<1>1. ASSUME IInv, Agree, Loads, Next
      PROVE  registered' = NoVersion \/ registered' >= index.version
  <2> USE VersionsAssumption DEF NoVersion
  <2>1. LoadAll
    BY <1>1, ClientsAssumption
       DEF Next, Installing, Removing, ReadIndex, Check, Reject, WriteBack, WriteFront, UpdateIndex,
           Load, Post, Delete, Remove, Unindex, EraseBack, EraseFront, HotReady, Start, Crash,
           Overwrite, memory
  <2>2. /\ index.version \in Nat /\ cached \in Nat /\ back \in Nat
        /\ index.version # NoVersion => back >= index.version
        /\ registered # NoVersion => registered >= index.version
    BY <1>1, <2>1
       DEF IInv, TypeOK, Entries, CodeIsNotOlder, Versions, Agree, Starting, Known, LoadAll
  <2>3. registered' \in Loadable \cup {registered}
    BY <2>1 DEF LoadAll
  <2> QED  BY <1>1, <2>2, <2>3 DEF Loadable, FetchedStale
<1>2. ASSUME IInv, Agree, [Next]_vars
      PROVE  [Loads => registered' = NoVersion \/ registered' >= index.version]_vars
  BY <1>1, <1>2
<1> QED  BY AgreeInvariant, <1>2, PTL DEF Spec, RestartKeepsVersion
=============================================================================
