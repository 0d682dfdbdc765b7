---------------------------- MODULE WiringProofs ----------------------------
(* What the wiring guarantees for any providers, requirements, installs and  *)
(* extensions, whatever is not registered or throws: a producer is there     *)
(* when its consumer is told, and nobody is told twice.  The invariant has   *)
(* three parts: who runs beside whom, what was told, and why what a task has *)
(* yet to look at is all that may be missing.                                *)
EXTENDS Wiring, TLAPS

Others == Tasks \ Extensions

(* The startup is alone; what a task awaits is still in its list; and only a *)
(* configuration leaves room for a second instance.                          *)
Orderly ==
    /\ phase[Startup] \notin {"done", "aborted"}
         => \A t \in Tasks : t # Startup => phase[t] = "idle"
    /\ \A i \in running : phase[i[2]] # "idle"
    /\ \A t \in Tasks : making[t] # None =>
         /\ phase[t] = "creating" /\ making[t] \in Sound /\ making[t] \in todo[t]
         /\ t \in Installs => making[t] \in Configurable
    /\ making[Startup] # None => making[Startup] \notin Present

Single ==
    \A i, j \in running :
      i[1] = j[1] /\ i[2] \in Others /\ j[2] \in Others => i = j \/ i[1] \in Configurable

Wired ==
    /\ \A t \in Tasks : \A i \in untold[t] :
         i \in running /\ i[2] = t /\ t \in Others /\ told[i] = 0 /\ phase[t] = "wiring"
    /\ \A i \in Instances : told[i] # 0 =>
         told[i] = 1 /\ i \in running /\ phase[i[2]] \in {"wiring", "done"} /\ i[2] \in Others
    /\ \A i \in running : i[2] \in Others /\ phase[i[2]] \in {"wiring", "done"}
         => told[i] = 1 \/ i \in untold[i[2]]

(* What of S the task t would find missing is in its list.                   *)
Covered(t, S) ==
    /\ phase[t] = "creating" => \A q \in S : q \in Sound => q \in Present \/ q \in todo[t]
    /\ phase[t] \in {"wiring", "done"} => \A q \in S : q \in Sound => q \in Present

Provided ==
    /\ \A t \in Tasks : Covered(t, needs[t])
    /\ \A i \in running : i[2] \in Others => Covered(i[2], requirements[i[1]])

IInv == TypeOK /\ Orderly /\ Single /\ Wired /\ Provided

-----------------------------------------------------------------------------

(* The invariant holds of the initial states.                                *)
LEMMA WiringInit == Init => IInv
<1> SUFFICES ASSUME Init PROVE IInv
  OBVIOUS
<1>1. TypeOK
  BY DEF Init, TypeOK, Lists, Instances
<1>2. Orderly
  BY <1>1 DEF Init, Orderly, Tasks
<1>3. Single /\ Wired
  BY <1>1 DEF Init, Single, Wired, Instances
<1>4. Provided
  BY <1>1 DEF Init, Provided, Covered
<1> QED  BY <1>1, <1>2, <1>3, <1>4 DEF IInv

(* A task that begins has created nothing, and all it needs is in its list.  *)
LEMMA BeginKeeps ==
    ASSUME IInv, NEW t \in Tasks, Begin(t)
    PROVE  IInv'
<1> USE DEF IInv
<1>1. PICK S \in Lists : needs' = [needs EXCEPT ![t] = S] /\ todo' = [todo EXCEPT ![t] = S]
  BY DEF Begin
<1>2. TypeOK'
  BY <1>1 DEF Begin, TypeOK, installed, Lists
<1>3. phase' = [phase EXCEPT ![t] = "creating"] /\ phase[t] = "idle" /\ MayBegin(t)
  BY DEF Begin
<1>4. UNCHANGED <<class, requirements, running, told, making, untold>>
  BY DEF Begin, installed
<1>5. Present' = Present /\ Sound' = Sound
  BY <1>4 DEF Present, Sound
<1>6. \A i \in running : i[2] # t
  BY <1>3 DEF Orderly
<1>7. Orderly'
  <2>1. phase'[Startup] \notin {"done", "aborted"} => \A u \in Tasks : u # Startup => phase'[u] = "idle"
    BY <1>3, TasksAssumption DEF Orderly, TypeOK, MayBegin, Tasks
  <2>2. \A i \in running' : phase'[i[2]] # "idle"
    BY <1>3, <1>4 DEF Orderly, TypeOK, Instances
  <2>3. \A u \in Tasks : making'[u] # None => u # t
    BY <1>3, <1>4 DEF Orderly
  <2> QED  BY <1>1, <1>3, <1>4, <1>5, <2>1, <2>2, <2>3 DEF Orderly, TypeOK
<1>8. Single'
  BY <1>4 DEF Single
<1>9. Wired'
  BY <1>3, <1>4, <1>6 DEF Wired, TypeOK, Instances
<1>10. Provided'
  <2>1. ASSUME NEW u \in Tasks PROVE Covered(u, needs[u])'
    BY <1>1, <1>3, <1>5 DEF Provided, Covered, TypeOK
  <2>2. ASSUME NEW i \in running PROVE (i[2] \in Others => Covered(i[2], requirements[i[1]]))'
    BY <1>1, <1>3, <1>4, <1>5, <1>6 DEF Provided, Covered, TypeOK, Instances
  <2> QED  BY <1>4, <2>1, <2>2 DEF Provided
<1> QED  BY <1>2, <1>7, <1>8, <1>9, <1>10

(* What leaves the list is there, or was never to be created.                *)
LEMMA PassKeeps ==
    ASSUME IInv, NEW t \in Tasks, NEW p \in Providers, Pass(t, p)
    PROVE  IInv'
<1> USE DEF IInv
<1>1. TypeOK'
  BY DEF Pass, TypeOK, installed
<1>2. /\ phase[t] = "creating" /\ making[t] = None
      /\ todo' = [todo EXCEPT ![t] = @ \ {p}] /\ (p \in Present \/ p \notin Sound)
  BY DEF Pass, Looks, Sound
<1>3. UNCHANGED <<class, requirements, running, told, phase, needs, making, untold>>
  BY DEF Pass, installed
<1>4. Present' = Present /\ Sound' = Sound
  BY <1>3 DEF Present, Sound
<1>5. Orderly'
  BY <1>2, <1>3, <1>4 DEF Orderly, TypeOK
<1>6. Single' /\ Wired'
  BY <1>3 DEF Single, Wired
<1>7. Provided'
  <2>1. ASSUME NEW u \in Tasks, NEW S, Covered(u, S) PROVE Covered(u, S)'
    BY <1>2, <1>3, <1>4, <2>1 DEF Covered, TypeOK
  <2> QED  BY <1>3, <2>1 DEF Provided, TypeOK, Instances, Covered
<1> QED  BY <1>1, <1>5, <1>6, <1>7

(* A provider that is pushed: by a task that is creating, and one that may   *)
(* have a second instance, or has none.                                      *)
Pushes(t, p) ==
    /\ phase[t] = "creating"
    /\ Push(t, p)
    /\ \/ making' = making /\ making[t] = None
       \/ making' = [making EXCEPT ![t] = None] /\ making[t] = p
    /\ p \in Configurable \/ t \in Extensions \/ p \notin Present
    /\ UNCHANGED <<class, requirements, told, phase, needs, untold>>

(* A pushed provider is there, and what it consumes is looked at.            *)
LEMMA PushKeeps ==
    ASSUME IInv, NEW t \in Tasks, NEW p \in Providers, Pushes(t, p)
    PROVE  IInv'
<1> USE DEF IInv
<1>1. running' = running \cup {<<p, t>>} /\ phase[t] = "creating"
  BY DEF Pushes, Push
<1>2. todo' = [todo EXCEPT ![t] = (@ \ {p}) \cup (IF t \in Extensions THEN {} ELSE requirements[p])]
  BY DEF Pushes, Push
<1>3. UNCHANGED <<class, requirements, told, phase, needs, untold>>
  BY DEF Pushes
<1>4. making'[t] = None /\ \A u \in Tasks : u # t => making'[u] = making[u]
  BY DEF Pushes, TypeOK
<1>5. Present' = Present \cup {p} /\ Sound' = Sound
  <2>1. <<p, t>>[1] = p
    OBVIOUS
  <2>2. \A q : q \in {i[1] : i \in running \cup {<<p, t>>}} <=> q \in {i[1] : i \in running} \/ q = p
    BY <2>1
  <2> QED  BY <1>1, <1>3, <2>2 DEF Present, Sound
<1>6. TypeOK'
  <2>1. running' \subseteq Instances
    BY <1>1 DEF TypeOK, Instances
  <2>2. todo' \in [Tasks -> SUBSET Providers]
    BY <1>2 DEF TypeOK
  <2>3. making' \in [Tasks -> Providers \cup {None}]
    BY DEF Pushes, TypeOK
  <2> QED  BY <1>3, <2>1, <2>2, <2>3 DEF TypeOK
<1>7. Orderly'
  <2>1. \A i \in running' : phase'[i[2]] # "idle"
    BY <1>1, <1>3 DEF Orderly
  <2>2. ASSUME NEW u \in Tasks, making'[u] # None
        PROVE  /\ phase'[u] = "creating" /\ making'[u] \in Sound' /\ making'[u] \in todo'[u]
               /\ u \in Installs => making'[u] \in Configurable
    <3>1. u # t /\ making'[u] = making[u] /\ todo'[u] = todo[u]
      BY <1>2, <1>4, <2>2 DEF TypeOK
    <3> QED  BY <1>3, <1>5, <2>2, <3>1 DEF Orderly
  <2>3. making'[Startup] # None => making'[Startup] \notin Present'
    <3> SUFFICES ASSUME making'[Startup] # None PROVE FALSE
      OBVIOUS
    <3>1. Startup \in Tasks /\ Startup # t
      BY <1>4 DEF Tasks
    <3>2. phase[Startup] = "creating"
      BY <1>4, <3>1 DEF Orderly
    <3> QED  BY <1>1, <3>1, <3>2 DEF Orderly
  <2> QED  BY <1>3, <2>1, <2>2, <2>3 DEF Orderly
<1>8. Single'
  <2>1. t \in Extensions \/ p \in Configurable \/ \A i \in running : i[1] # p
    BY DEF Pushes, Present
  <2> QED  BY <1>1, <2>1 DEF Single, Others
<1>9. Wired'
  <2>1. \A u \in Tasks : \A i \in untold'[u] :
          i \in running' /\ i[2] = u /\ u \in Others /\ told'[i] = 0 /\ phase'[u] = "wiring"
    BY <1>1, <1>3 DEF Wired
  <2>2. \A i \in Instances : told'[i] # 0 =>
          told'[i] = 1 /\ i \in running' /\ phase'[i[2]] \in {"wiring", "done"} /\ i[2] \in Others
    BY <1>1, <1>3 DEF Wired
  <2>3. \A i \in running' : i[2] \in Others /\ phase'[i[2]] \in {"wiring", "done"}
          => told'[i] = 1 \/ i \in untold'[i[2]]
    BY <1>1, <1>3 DEF Wired
  <2> QED  BY <2>1, <2>2, <2>3 DEF Wired
<1>10. Provided'
  <2>1. ASSUME NEW u \in Tasks, NEW S, Covered(u, S) PROVE Covered(u, S)'
    BY <1>2, <1>3, <1>5, <2>1 DEF Covered, TypeOK
  <2>2. \A u \in Tasks : Covered(u, needs[u])'
    BY <1>3, <2>1 DEF Provided, Covered
  <2>3. t \in Others => Covered(t, requirements[p])'
    BY <1>1, <1>2, <1>3 DEF Covered, TypeOK, Others
  <2>4. \A i \in running : i[2] \in Others => Covered(i[2], requirements[i[1]])'
    BY <1>3, <2>1 DEF Provided, TypeOK, Instances, Others, Covered
  <2> QED  BY <1>1, <1>3, <2>2, <2>3, <2>4 DEF Provided, Covered
<1> QED  BY <1>6, <1>7, <1>8, <1>9, <1>10

(* Whoever pushes does it so: the startup is alone, and an install that did  *)
(* not await a configuration has just looked.                                *)
LEMMA PushersPush ==
    ASSUME IInv, NEW t \in Tasks, NEW p \in Providers,
           \/ Create(t, p) /\ ~ Awaited(t, p)
           \/ Created(t) /\ making[t] = p
           \/ t = Startup /\ CreatePublic(p)
    PROVE  Pushes(t, p)
<1> USE DEF IInv
<1>1. CASE Create(t, p) /\ ~ Awaited(t, p)
  BY <1>1 DEF Create, Looks, Pushes, installed
<1>2. CASE Created(t) /\ making[t] = p
  <2>1. making[t] # None /\ Push(t, p) /\ making' = [making EXCEPT ![t] = None]
    BY <1>2 DEF Created
  <2>2. t = Startup => p \notin Present
    BY <1>2, <2>1 DEF Orderly
  <2>3. t \in Installs => p \in Configurable
    BY <1>2, <2>1 DEF Orderly
  <2>4. phase[t] = "creating"
    BY <2>1 DEF Orderly
  <2> QED  BY <1>2, <2>1, <2>2, <2>3, <2>4 DEF Created, Pushes, Tasks, installed
<1>3. CASE t = Startup /\ CreatePublic(p)
  BY <1>3 DEF CreatePublic, Pushes, installed
<1> QED  BY <1>1, <1>2, <1>3

-----------------------------------------------------------------------------
(* The steps that push nothing.                                              *)

(* What is awaited stays in the list until it is there.                      *)
LEMMA AwaitKeeps ==
    ASSUME IInv, NEW t \in Tasks, NEW p \in Providers, Create(t, p), Awaited(t, p)
    PROVE  IInv'
<1> USE DEF IInv
<1>1. /\ phase[t] = "creating" /\ p \in todo[t] /\ p \in Sound /\ p \notin Present
      /\ making' = [making EXCEPT ![t] = p]
  BY DEF Create, Looks
<1>2. UNCHANGED <<class, requirements, running, told, phase, needs, todo, untold>>
  BY DEF Create, installed
<1>3. TypeOK'
  BY <1>1, <1>2 DEF TypeOK
<1>4. Present' = Present /\ Sound' = Sound
  BY <1>2 DEF Present, Sound
<1>5. t \in Installs => p \in Configurable
  BY DEF Awaited
<1>6. Orderly'
  BY <1>1, <1>2, <1>4, <1>5 DEF Orderly, TypeOK
<1>7. Single' /\ Wired'
  BY <1>2 DEF Single, Wired
<1>8. Provided'
  BY <1>2, <1>4 DEF Provided, Covered
<1> QED  BY <1>3, <1>6, <1>7, <1>8

(* A list is given up with what it was for, unless it is an extension's.     *)
LEMMA ThrowsKeeps ==
    ASSUME IInv, NEW t \in Tasks, NEW p \in Providers, Throws(t, p)
    PROVE  IInv'
<1> USE DEF IInv
<1>1. phase[t] = "creating" /\ making[t] = None /\ p \notin Sound
  BY DEF Throws, Looks, Sound
<1>2. UNCHANGED <<class, requirements, running, told, needs, making, untold>>
  BY DEF Throws, installed
<1>3. TypeOK'
  BY DEF Throws, TypeOK, installed
<1>4. Present' = Present /\ Sound' = Sound
  BY <1>2 DEF Present, Sound
<1>5. /\ phase'[t] \in {"creating", "aborted"} /\ (phase'[t] = "creating" => todo'[t] = todo[t] \ {p})
      /\ \A u \in Tasks : u # t => phase'[u] = phase[u] /\ todo'[u] = todo[u]
  BY <1>1 DEF Throws, TypeOK
<1>6. Orderly'
  <2>1. phase'[Startup] \notin {"done", "aborted"} => \A u \in Tasks : u # Startup => phase'[u] = "idle"
    BY <1>1, <1>5 DEF Orderly, Tasks
  <2>2. \A i \in running' : phase'[i[2]] # "idle"
    BY <1>2, <1>5 DEF Orderly, TypeOK, Instances
  <2>3. \A u \in Tasks : making'[u] # None => u # t
    BY <1>1, <1>2
  <2> QED  BY <1>2, <1>4, <1>5, <2>1, <2>2, <2>3 DEF Orderly
<1>7. Single'
  BY <1>2 DEF Single
<1>8. Wired'
  BY <1>1, <1>2, <1>5 DEF Wired, TypeOK, Instances
<1>9. Provided'
  <2>1. ASSUME NEW u \in Tasks, NEW S, Covered(u, S) PROVE Covered(u, S)'
    BY <1>1, <1>4, <1>5, <2>1 DEF Covered
  <2> QED  BY <1>2, <2>1 DEF Provided, TypeOK, Instances, Covered
<1> QED  BY <1>3, <1>6, <1>7, <1>8, <1>9

(* Nothing is left to look at, so nothing is missing.                        *)
LEMMA WireKeeps ==
    ASSUME IInv, NEW t \in Tasks, Wire(t)
    PROVE  IInv'
<1> USE DEF IInv
<1>1. /\ phase[t] = "creating" /\ making[t] = None /\ todo[t] = {}
      /\ phase' = [phase EXCEPT ![t] = "wiring"]
      /\ untold' = [untold EXCEPT ![t] = IF t \in Extensions THEN {} ELSE {i \in running : i[2] = t}]
  BY DEF Wire
<1>2. UNCHANGED <<class, requirements, running, told, needs, todo, making>>
  BY DEF Wire, installed
<1>3. TypeOK'
  BY <1>1, <1>2 DEF TypeOK
<1>4. Present' = Present /\ Sound' = Sound
  BY <1>2 DEF Present, Sound
<1>5. /\ phase'[t] = "wiring"
      /\ \A u \in Tasks : u # t => phase'[u] = phase[u] /\ untold'[u] = untold[u]
  BY <1>1 DEF TypeOK
<1>6. Orderly'
  <2>1. phase'[Startup] \notin {"done", "aborted"} => \A u \in Tasks : u # Startup => phase'[u] = "idle"
    BY <1>1, <1>5 DEF Orderly, Tasks
  <2>2. \A i \in running' : phase'[i[2]] # "idle"
    BY <1>2, <1>5 DEF Orderly, TypeOK, Instances
  <2> QED  BY <1>1, <1>2, <1>4, <1>5, <2>1, <2>2 DEF Orderly
<1>7. Single'
  BY <1>2 DEF Single
<1>8. Wired'
  <2>1. untold'[t] = IF t \in Extensions THEN {} ELSE {i \in running : i[2] = t}
    BY <1>1 DEF TypeOK
  <2>2. \A i \in running : i[2] = t => told[i] = 0
    BY <1>1 DEF Wired, TypeOK
  <2>3. \A u \in Tasks : \A i \in untold'[u] :
          i \in running' /\ i[2] = u /\ u \in Others /\ told'[i] = 0 /\ phase'[u] = "wiring"
    BY <1>2, <1>5, <2>1, <2>2 DEF Wired, Others
  <2>4. \A i \in Instances : told'[i] # 0 =>
          told'[i] = 1 /\ i \in running' /\ phase'[i[2]] \in {"wiring", "done"} /\ i[2] \in Others
    BY <1>2, <1>5 DEF Wired, Instances
  <2>5. \A i \in running' : i[2] \in Others /\ phase'[i[2]] \in {"wiring", "done"}
          => told'[i] = 1 \/ i \in untold'[i[2]]
    BY <1>2, <1>5, <2>1 DEF Wired, TypeOK, Instances, Others
  <2> QED  BY <2>3, <2>4, <2>5 DEF Wired
<1>9. Provided'
  <2>1. ASSUME NEW u \in Tasks, NEW S, Covered(u, S) PROVE Covered(u, S)'
    BY <1>1, <1>2, <1>4, <1>5, <2>1 DEF Covered
  <2>2. \A u \in Tasks : Covered(u, needs[u])'
    BY <1>2, <2>1 DEF Provided, Covered
  <2>3. \A i \in running : i[2] \in Others => Covered(i[2], requirements[i[1]])'
    BY <1>2, <2>1 DEF Provided, TypeOK, Instances, Others, Covered
  <2> QED  BY <1>2, <2>2, <2>3 DEF Provided, Covered
<1> QED  BY <1>3, <1>6, <1>7, <1>8, <1>9

(* A provider is told once, by who created it.                               *)
LEMMA TellKeeps ==
    ASSUME IInv, NEW t \in Tasks, NEW i \in Instances, Tell(t, i)
    PROVE  IInv'
<1> USE DEF IInv
<1>1. /\ i \in running /\ i[2] = t /\ t \in Others /\ told[i] = 0 /\ phase[t] = "wiring"
      /\ told' = [told EXCEPT ![i] = @ + 1] /\ untold' = [untold EXCEPT ![t] = @ \ {i}]
  BY DEF Tell, Wired
<1>2. UNCHANGED <<class, requirements, running, phase, needs, todo, making>>
  BY DEF Tell, installed
<1>3. TypeOK'
  BY <1>1, <1>2 DEF TypeOK
<1>4. Present' = Present /\ Sound' = Sound
  BY <1>2 DEF Present, Sound
<1>5. Orderly' /\ Single'
  BY <1>2, <1>4 DEF Orderly, Single
<1>6. Wired'
  <2>1. told'[i] = 1 /\ \A j \in Instances : j # i => told'[j] = told[j]
    BY <1>1 DEF TypeOK
  <2>2. /\ untold'[t] = untold[t] \ {i}
        /\ \A u \in Tasks : u # t => untold'[u] = untold[u]
    BY <1>1 DEF TypeOK
  <2>3. \A u \in Tasks : \A j \in untold'[u] :
          j \in running' /\ j[2] = u /\ u \in Others /\ told'[j] = 0 /\ phase'[u] = "wiring"
    BY <1>1, <1>2, <2>1, <2>2 DEF Wired, TypeOK
  <2>4. \A j \in Instances : told'[j] # 0 =>
          told'[j] = 1 /\ j \in running' /\ phase'[j[2]] \in {"wiring", "done"} /\ j[2] \in Others
    BY <1>1, <1>2, <2>1 DEF Wired
  <2>5. \A j \in running' : j[2] \in Others /\ phase'[j[2]] \in {"wiring", "done"}
          => told'[j] = 1 \/ j \in untold'[j[2]]
    BY <1>2, <2>1, <2>2 DEF Wired, TypeOK, Instances
  <2> QED  BY <2>3, <2>4, <2>5 DEF Wired
<1>7. Provided'
  BY <1>2, <1>4 DEF Provided, Covered
<1> QED  BY <1>3, <1>5, <1>6, <1>7

(* A task only ends when all it created was told.                            *)
LEMMA FinishKeeps ==
    ASSUME IInv, NEW t \in Tasks, Finish(t)
    PROVE  IInv'
<1> USE DEF IInv
<1>1. phase[t] = "wiring" /\ untold[t] = {} /\ phase' = [phase EXCEPT ![t] = "done"]
  BY DEF Finish
<1>2. UNCHANGED <<class, requirements, running, told, needs, todo, making, untold>>
  BY DEF Finish, installed
<1>3. TypeOK'
  BY <1>1, <1>2 DEF TypeOK
<1>4. Present' = Present /\ Sound' = Sound
  BY <1>2 DEF Present, Sound
<1>5. phase'[t] = "done" /\ \A u \in Tasks : u # t => phase'[u] = phase[u]
  BY <1>1 DEF TypeOK
<1>6. Orderly'
  <2>1. phase'[Startup] \notin {"done", "aborted"} => \A u \in Tasks : u # Startup => phase'[u] = "idle"
    BY <1>1, <1>5 DEF Orderly, Tasks
  <2>2. \A j \in running' : phase'[j[2]] # "idle"
    BY <1>2, <1>5 DEF Orderly, TypeOK, Instances
  <2>3. \A u \in Tasks : making'[u] # None => u # t
    BY <1>1, <1>2 DEF Orderly
  <2> QED  BY <1>2, <1>4, <1>5, <2>1, <2>2, <2>3 DEF Orderly
<1>7. Single'
  BY <1>2 DEF Single
<1>8. Wired'
  BY <1>1, <1>2, <1>5 DEF Wired, TypeOK, Instances
<1>9. Provided'
  <2>1. ASSUME NEW u \in Tasks, NEW S, Covered(u, S) PROVE Covered(u, S)'
    BY <1>1, <1>2, <1>4, <1>5, <2>1 DEF Covered
  <2>2. \A u \in Tasks : Covered(u, needs[u])'
    BY <1>2, <2>1 DEF Provided, Covered
  <2>3. \A i \in running : i[2] \in Others => Covered(i[2], requirements[i[1]])'
    BY <1>2, <2>1 DEF Provided, TypeOK, Instances, Others, Covered
  <2> QED  BY <1>2, <2>2, <2>3 DEF Provided, Covered
<1> QED  BY <1>3, <1>6, <1>7, <1>8, <1>9

-----------------------------------------------------------------------------

(* Every step keeps the invariant.                                           *)
LEMMA WiringInductive == IInv /\ [Next]_vars => IInv'
<1> SUFFICES ASSUME IInv, [Next]_vars PROVE IInv'
  OBVIOUS
<1>1. ASSUME NEW t \in Tasks, Created(t) PROVE IInv'
  <2>1. making[t] \in Providers
    BY <1>1 DEF Created, IInv, TypeOK
  <2> QED  BY <1>1, <2>1, PushersPush, PushKeeps
<1>2. ASSUME NEW t \in Tasks, NEW p \in Providers, Create(t, p) PROVE IInv'
  BY <1>2, AwaitKeeps, PushersPush, PushKeeps
<1>3. ASSUME NEW p \in Providers, CreatePublic(p) PROVE IInv'
  BY <1>3, PushersPush, PushKeeps DEF Tasks
<1>4. CASE UNCHANGED vars
  BY <1>4 DEF IInv, TypeOK, Orderly, Single, Wired, Provided, Covered, Present, Sound, vars, installed
<1>5. CASE Next
  BY <1>1, <1>2, <1>3, <1>5, BeginKeeps, WireKeeps, FinishKeeps, PassKeeps, ThrowsKeeps, TellKeeps DEF Next
<1> QED  BY <1>4, <1>5

(* The types hold for any providers, requirements and tasks.                 *)
THEOREM WiringTyped == Spec => []TypeOK
<1>1. IInv => TypeOK
  BY DEF IInv
<1> QED  BY <1>1, WiringInit, WiringInductive, PTL DEF Spec

(* Consumer.ts:100.  For any requirements, cycles included, and whatever is  *)
(* not registered, throws or crosses: nobody is told before its producers    *)
(* are there.                                                                *)
THEOREM ProducersComeFirst == Spec => []ProducersAreThere
<1>1. IInv => ProducersAreThere
  <2> SUFFICES ASSUME IInv PROVE ProducersAreThere
    OBVIOUS
  <2>1. ASSUME NEW i \in running, told[i] > 0
        PROVE  requirements[i[1]] \cap Sound \subseteq Present
    <3>1. i \in Instances /\ told[i] # 0
      BY <2>1 DEF IInv, TypeOK
    <3> QED  BY <3>1 DEF IInv, Wired, Provided, Covered
  <2>2. ASSUME NEW t \in Installs \cup Extensions, phase[t] = "done"
        PROVE  needs[t] \cap Sound \subseteq Present
    BY <2>2 DEF IInv, Provided, Covered, Tasks
  <2> QED  BY <2>1, <2>2 DEF ProducersAreThere
<1> QED  BY <1>1, WiringInit, WiringInductive, PTL DEF Spec

(* What the startup and the installs create is told exactly once, and one    *)
(* instance of it at most but for a configuration that is read in between.   *)
THEOREM EveryoneIsToldOnce == Spec => []ToldOnce
<1>1. IInv => ToldOnce
  <2> SUFFICES ASSUME IInv PROVE ToldOnce
    OBVIOUS
  <2>1. ASSUME NEW i \in running
        PROVE  /\ told[i] <= 1
               /\ phase[i[2]] = "done" /\ i[2] \notin Extensions => told[i] = 1
    <3>1. i \in Instances /\ i[2] \in Tasks
      BY DEF IInv, TypeOK, Instances
    <3>2. told[i] = 0 \/ told[i] = 1
      BY <3>1 DEF IInv, Wired
    <3> QED  BY <3>1, <3>2 DEF IInv, Wired, Others
  <2>2. ASSUME NEW i \in running, NEW j \in running, told[i] > 0, told[j] > 0, i[1] = j[1]
        PROVE  i = j \/ i[1] \in Configurable
    <3>1. i \in Instances /\ j \in Instances /\ told[i] # 0 /\ told[j] # 0
      BY <2>2 DEF IInv, TypeOK
    <3> QED  BY <2>2, <3>1 DEF IInv, Wired, Single
  <2> QED  BY <2>1, <2>2 DEF ToldOnce
<1> QED  BY <1>1, WiringInit, WiringInductive, PTL DEF Spec
=============================================================================
