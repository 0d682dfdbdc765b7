----------------------------- MODULE IndexLock -----------------------------
(* back/src/tools/IndexLock.ts: every manager keeps the list of what is      *)
(* installed in one ConfigMap and changes it with updateIndex(), a read and  *)
(* a write of the whole list with awaits in between.  withIndexLock() queues *)
(* the calls behind a chain of promises, one chain per index and per core.   *)
(* The store is the Kubernetes one, which answers an error by `undefined`.   *)
EXTENDS Integers, Sequences

CONSTANTS
    Callers,   \* the requests that may be updating the index at one time
    Ids,       \* extension ids
    Metas,     \* what an entry may say (version, source...)
    NoMeta,    \* the id has no entry
    Faults     \* how the store may fail, a subset of AllFaults

(* "read": the read answers undefined.  "write": the write answers undefined *)
(* and nothing is stored.  "reject": the read or the write rejects.          *)
AllFaults == {"read", "write", "reject"}

ASSUME NoMetaAssumption == NoMeta \notin Metas
ASSUME FaultsAssumption == Faults \subseteq AllFaults

VARIABLES
    index,     \* the stored list, as the entry of each id
    chain,     \* the calls whose task has not settled, in the order they came
    pc,        \* where each call is
    change,    \* what its `change` callback does: the entry an id is to have
    fresh      \* the list it is about to write

vars == <<index, chain, pc, change, fresh>>

Change == [id : Ids, meta : Metas \cup {NoMeta}]
List == [Ids -> Metas \cup {NoMeta}]
EmptyList == [i \in Ids |-> NoMeta]

(* Bug: what is stored is the request instead of the entry it carries.       *)
ChangedToRequest(ch, list) == [list EXCEPT ![ch.id] = ch]

(* The callbacks the managers pass: replace or push the entry (install), or  *)
(* filter it out (uninstall, meta = NoMeta).                                 *)
Changed(ch, list) == [list EXCEPT ![ch.id] = ch.meta]

Init ==
    /\ index = EmptyList
    /\ chain = <<>>
    /\ pc = [c \in Callers |-> "idle"]
    /\ change \in [Callers -> Change]
    /\ fresh = [c \in Callers |-> EmptyList]

-----------------------------------------------------------------------------

(* withIndexLock: chained behind whatever is there.                          *)
Call(c) ==
    /\ pc[c] = "idle"
    /\ chain' = Append(chain, c)
    /\ pc' = [pc EXCEPT ![c] = "waiting"]
    /\ \E ch \in Change : change' = [change EXCEPT ![c] = ch]
    /\ UNCHANGED <<index, fresh>>

(* previous.then(mutate, mutate): it starts when the task before it settles, *)
(* whether that one resolved or threw.                                       *)
MayRun(c) == chain # <<>> /\ Head(chain) = c

(* Bug: the task does not wait for the one before it, as before IndexLock.   *)
BeginAtOnce(c) ==
    /\ pc[c] = "waiting"
    /\ pc' = [pc EXCEPT ![c] = "reading"]
    /\ UNCHANGED <<index, chain, change, fresh>>

Begin(c) ==
    /\ pc[c] = "waiting"
    /\ MayRun(c)
    /\ pc' = [pc EXCEPT ![c] = "reading"]
    /\ UNCHANGED <<index, chain, change, fresh>>

(* What `(await configMaps.read(...)) || []` may be.                         *)
ReadAnswers == {index} \cup (IF "read" \in Faults THEN {EmptyList} ELSE {})

(* fresh = change((await read()) ?? [])                                      *)
Read(c) ==
    /\ pc[c] = "reading"
    /\ \E list \in ReadAnswers : fresh' = [fresh EXCEPT ![c] = Changed(change[c], list)]
    /\ pc' = [pc EXCEPT ![c] = "writing"]
    /\ UNCHANGED <<index, chain, change>>

(* Bug: then(mutate) with no rejection handler, so a failure ends the chain. *)
SettleAndBlock(c) ==
    /\ pc' = [pc EXCEPT ![c] = "settled"]
    /\ chain' = IF index' = fresh[c] THEN Tail(chain) ELSE chain
    /\ fresh' = [fresh EXCEPT ![c] = EmptyList]
    /\ UNCHANGED change

(* The task settles, which lets the next one in the chain run, and the list  *)
(* it had is gone.                                                           *)
Settle(c) ==
    /\ pc' = [pc EXCEPT ![c] = "settled"]
    /\ chain' = Tail(chain)
    /\ fresh' = [fresh EXCEPT ![c] = EmptyList]
    /\ UNCHANGED change

(* await write(fresh): the store takes the whole list, or, when it fails, it *)
(* keeps what it had and the promise resolves all the same.                  *)
Write(c) ==
    /\ pc[c] = "writing"
    /\ \/ index' = fresh[c]
       \/ "write" \in Faults /\ index' = index
    /\ Settle(c)

(* The read or the write rejects; a write that rejects may have been stored. *)
Throw(c) ==
    /\ "reject" \in Faults
    /\ \/ pc[c] = "reading" /\ index' = index
       \/ pc[c] = "writing" /\ index' \in {index, fresh[c]}
    /\ Settle(c)

(* The `finally`, and the answer.  It deletes the entry of `queues` when that *)
(* is undefined, and it never is: the end of the chain stays there.          *)
Finally(c) ==
    /\ pc[c] = "settled"
    /\ pc' = [pc EXCEPT ![c] = "idle"]
    /\ UNCHANGED <<index, chain, change, fresh>>

(* The core dies and is started again: its memory is gone, the store is not. *)
Crash ==
    /\ chain' = <<>>
    /\ pc' = [c \in Callers |-> "idle"]
    /\ fresh' = [c \in Callers |-> EmptyList]
    /\ UNCHANGED <<index, change>>

Task(c) == Begin(c) \/ Read(c) \/ Write(c) \/ Throw(c)

Next ==
    \/ \E c \in Callers : Call(c) \/ Task(c) \/ Finally(c)
    \/ Crash

(* A task that may run does run, and the store answers one way or the other. *)
Fairness == \A c \in Callers : WF_vars(Task(c))

Spec == Init /\ [][Next]_vars
FairSpec == Spec /\ Fairness

-----------------------------------------------------------------------------

(* The types of the state of updateIndex and of its lock.                    *)
TypeOK ==
    /\ index \in List
    /\ chain \in Seq(Callers)
    /\ pc \in [Callers -> {"idle", "waiting", "reading", "writing", "settled"}]
    /\ change \in [Callers -> Change]
    /\ fresh \in [Callers -> List]

Inside(c) == pc[c] \in {"reading", "writing"}

(* Only the head of the chain is inside its read-modify-write.               *)
OneInside == \A c \in Callers : Inside(c) => MayRun(c)

(* IndexLock.ts:19, "what gets written is always the newest list plus this   *)
(* change": nothing another request stored since the read is lost.           *)
NothingLost == \A c \in Callers : pc[c] = "writing" => fresh[c] = Changed(change[c], index)

(* A failing task does not block the queue: every call gets its turn.        *)
EveryCallSettles == \A c \in Callers : pc[c] = "waiting" ~> pc[c] \in {"settled", "idle"}

(* The managers see an index whose updates are atomic.                       *)
Phase(p) == CASE p = "idle" -> "idle"
              [] p = "settled" -> "answered"
              [] OTHER -> "open"

Atomic == INSTANCE AtomicIndex WITH phase <- [c \in Callers |-> Phase(pc[c])]
UpdatesAreAtomic == Atomic!Spec
=============================================================================
