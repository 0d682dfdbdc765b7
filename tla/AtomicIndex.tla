---------------------------- MODULE AtomicIndex ----------------------------
(* What the managers may assume of an extension index: each update of it     *)
(* takes effect at one instant, on top of the list as it is at that instant, *)
(* and touches only the entry it is about.  IndexLock implements this with a *)
(* read and a write that are seconds apart.                                  *)
CONSTANTS
    Callers,   \* the requests that may be updating the index at one time
    Ids,       \* extension ids
    Metas,     \* what an entry may say (version, source...)
    NoMeta     \* the id has no entry

VARIABLES
    index,     \* the stored list, as the entry of each id
    phase,     \* where each caller is: "idle", "open" or "answered"
    change     \* what each caller asked for: the entry an id is to have

vars == <<index, phase, change>>

Change == [id : Ids, meta : Metas \cup {NoMeta}]

Applied(ch, list) == [list EXCEPT ![ch.id] = ch.meta]

Init ==
    /\ index = [i \in Ids |-> NoMeta]
    /\ phase = [c \in Callers |-> "idle"]
    /\ change \in [Callers -> Change]

Submit(c) ==
    /\ phase[c] = "idle"
    /\ phase' = [phase EXCEPT ![c] = "open"]
    /\ \E ch \in Change : change' = [change EXCEPT ![c] = ch]
    /\ UNCHANGED index

(* The caller is answered, and the update took effect at this instant or,    *)
(* when the store failed, not at all.                                        *)
Answer(c) ==
    /\ phase[c] = "open"
    /\ index' \in {index, Applied(change[c], index)}
    /\ phase' = [phase EXCEPT ![c] = "answered"]
    /\ UNCHANGED change

Return(c) ==
    /\ phase[c] = "answered"
    /\ phase' = [phase EXCEPT ![c] = "idle"]
    /\ UNCHANGED <<index, change>>

(* The process dies: nobody is waiting any more, and what is stored stays.   *)
Crash ==
    /\ phase' = [c \in Callers |-> "idle"]
    /\ UNCHANGED <<index, change>>

Next ==
    \/ \E c \in Callers : Submit(c) \/ Answer(c) \/ Return(c)
    \/ Crash

Spec == Init /\ [][Next]_vars
=============================================================================
