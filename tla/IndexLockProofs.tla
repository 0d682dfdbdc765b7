-------------------------- MODULE IndexLockProofs --------------------------
(* For any callers, ids and metas, and whenever a read that fails is not     *)
(* taken for an empty list: no update is lost, and updateIndex is atomic.    *)
EXTENDS IndexLock, TLAPS

(* What the chain must satisfy for a step to be typed: its Tail is taken     *)
(* only when it is not empty, which OneInside says.                          *)
Queue == TypeOK /\ OneInside

-----------------------------------------------------------------------------

LEMMA ChangedInList ==
    ASSUME NEW ch \in Change, NEW list \in List
    PROVE  Changed(ch, list) \in List
BY DEF Changed, Change, List

LEMMA EmptyListInList == EmptyList \in List
BY DEF EmptyList, List

LEMMA ReadAnswersAreLists ==
    ASSUME index \in List, NEW list \in ReadAnswers
    PROVE  list \in List
<1>1. CASE list = index
    BY <1>1
<1>2. CASE list = EmptyList
    BY <1>2, EmptyListInList
<1>3. QED BY <1>1, <1>2 DEF ReadAnswers

(* Joining the chain does not change who is at its head, unless nobody was.  *)
LEMMA AppendKeepsHead ==
    ASSUME NEW s \in Seq(Callers), NEW c \in Callers, s # <<>>
    PROVE  Append(s, c) # <<>> /\ Head(Append(s, c)) = Head(s)
OBVIOUS

LEMMA InitQueue == Init => Queue
<1> SUFFICES ASSUME Init PROVE Queue
    OBVIOUS
<1>1. TypeOK
    <2>1. index \in List /\ fresh \in [Callers -> List]
        BY EmptyListInList DEF Init
    <2>2. chain \in Seq(Callers)
        BY DEF Init
    <2>3. QED BY <2>1, <2>2 DEF Init, TypeOK
<1>2. OneInside
    BY DEF Init, OneInside, Inside
<1>3. QED BY <1>1, <1>2 DEF Queue

(* Every step keeps the types and the order of the chain.                    *)
LEMMA StepQueue == Queue /\ [Next]_vars => Queue'
<1> SUFFICES ASSUME Queue, [Next]_vars PROVE Queue'
    OBVIOUS
<1> USE DEF Queue, TypeOK
<1>1. ASSUME NEW c \in Callers, Call(c) PROVE Queue'
    <2>1. TypeOK'
        BY <1>1 DEF Call
    <2>2. ASSUME NEW d \in Callers, Inside(d)' PROVE MayRun(d)'
        <3>1. Inside(d)
            BY <1>1, <2>2 DEF Call, Inside
        <3>2. QED BY <1>1, <3>1, AppendKeepsHead DEF Call, OneInside, MayRun
    <2>3. QED BY <2>1, <2>2 DEF OneInside
<1>2. ASSUME NEW c \in Callers, Begin(c) PROVE Queue'
    BY <1>2 DEF Begin, OneInside, Inside, MayRun
<1>3. ASSUME NEW c \in Callers, Read(c) PROVE Queue'
    <2>1. PICK list \in ReadAnswers : fresh' = [fresh EXCEPT ![c] = Changed(change[c], list)]
        BY <1>3 DEF Read
    <2>2. fresh' \in [Callers -> List]
        BY <2>1, ReadAnswersAreLists, ChangedInList
    <2>3. QED BY <1>3, <2>2 DEF Read, OneInside, Inside, MayRun
<1>4. ASSUME NEW c \in Callers, Inside(c), Settle(c), index' \in List PROVE Queue'
    <2>1. MayRun(c)
        BY <1>4 DEF OneInside
    <2>2. chain' \in Seq(Callers)
        BY <1>4, <2>1 DEF Settle, MayRun
    <2>3. TypeOK'
        BY <1>4, <2>2, EmptyListInList DEF Settle
    <2>4. ASSUME NEW d \in Callers PROVE ~ Inside(d)'
        <3>1. d # c => ~ Inside(d)
            BY <2>1 DEF OneInside, MayRun
        <3>2. QED BY <1>4, <3>1 DEF Settle, Inside
    <2>5. QED BY <2>3, <2>4 DEF OneInside
<1>5. ASSUME NEW c \in Callers, Write(c) PROVE Queue'
    BY <1>4, <1>5 DEF Write, Inside
<1>6. ASSUME NEW c \in Callers, Throw(c) PROVE Queue'
    BY <1>4, <1>6 DEF Throw, Inside
<1>7. ASSUME NEW c \in Callers, Finally(c) PROVE Queue'
    BY <1>7 DEF Finally, OneInside, Inside, MayRun
<1>8. ASSUME Crash PROVE Queue'
    <2>1. chain' \in Seq(Callers) /\ \A d \in Callers : ~ Inside(d)'
        BY <1>8 DEF Crash, Inside
    <2>2. pc' \in [Callers -> {"idle", "waiting", "reading", "writing", "settled"}]
        BY <1>8 DEF Crash
    <2>3. fresh' \in [Callers -> List]
        BY <1>8, EmptyListInList DEF Crash
    <2>4. QED BY <1>8, <2>1, <2>2, <2>3 DEF Crash, OneInside
<1>9. CASE UNCHANGED vars
    BY <1>9 DEF vars, OneInside, Inside, MayRun
<1>10. QED BY <1>1, <1>2, <1>3, <1>5, <1>6, <1>7, <1>8, <1>9 DEF Next, Task

-----------------------------------------------------------------------------

(* The queue, the index and the lists of the calls keep their types.         *)
THEOREM IndexLockTyped == Spec => []TypeOK
<1>1. QED BY InitQueue, StepQueue, PTL DEF Spec, Queue

(* withIndexLock gives exclusive access: at most one task is between its     *)
(* read and its write, and it is the oldest call that has not settled.       *)
THEOREM ExclusiveAccess == Spec => [](TypeOK /\ OneInside)
<1>1. QED BY InitQueue, StepQueue, PTL DEF Spec, Queue
-----------------------------------------------------------------------------

(* A step of one call leaves the others' lists alone, and only the head of   *)
(* the chain stores anything.                                                *)
LEMMA StepNothingLost ==
    ASSUME "read" \notin Faults
    PROVE  Queue /\ NothingLost /\ [Next]_vars => NothingLost'
<1> SUFFICES ASSUME Queue, NothingLost, [Next]_vars PROVE NothingLost'
    OBVIOUS
<1> USE DEF Queue, TypeOK
<1>1. ASSUME NEW c \in Callers, Call(c) PROVE NothingLost'
    BY <1>1 DEF Call, NothingLost
<1>2. ASSUME NEW c \in Callers, Begin(c) PROVE NothingLost'
    BY <1>2 DEF Begin, NothingLost
<1>3. ASSUME NEW c \in Callers, Read(c) PROVE NothingLost'
    <2>1. fresh' = [fresh EXCEPT ![c] = Changed(change[c], index)]
        BY <1>3 DEF Read, ReadAnswers
    <2>2. QED BY <1>3, <2>1 DEF Read, NothingLost
<1>4. ASSUME NEW c \in Callers, Inside(c), Settle(c) PROVE NothingLost'
    <2>1. ASSUME NEW d \in Callers PROVE pc'[d] # "writing"
        <3>1. d # c => pc[d] # "writing"
            BY <1>4 DEF OneInside, MayRun, Inside
        <3>2. QED BY <1>4, <3>1 DEF Settle
    <2>2. QED BY <2>1 DEF NothingLost
<1>5. ASSUME NEW c \in Callers, Write(c) PROVE NothingLost'
    BY <1>4, <1>5 DEF Write, Inside
<1>6. ASSUME NEW c \in Callers, Throw(c) PROVE NothingLost'
    BY <1>4, <1>6 DEF Throw, Inside
<1>7. ASSUME NEW c \in Callers, Finally(c) PROVE NothingLost'
    BY <1>7 DEF Finally, NothingLost
<1>8. ASSUME Crash PROVE NothingLost'
    BY <1>8 DEF Crash, NothingLost
<1>9. CASE UNCHANGED vars
    BY <1>9 DEF vars, NothingLost
<1>10. QED BY <1>1, <1>2, <1>3, <1>5, <1>6, <1>7, <1>8, <1>9 DEF Next, Task

LEMMA InitNothingLost == Init => NothingLost
BY DEF Init, NothingLost

(* What updateIndex writes is the newest list plus its own change, as long   *)
(* as the store does not answer a failed read by an empty list.              *)
THEOREM NoUpdateLost ==
    ASSUME "read" \notin Faults
    PROVE  Spec => []NothingLost
<1>1. Init => Queue /\ NothingLost
    BY InitQueue, InitNothingLost
<1>2. Queue /\ NothingLost /\ [Next]_vars => (Queue /\ NothingLost)'
    BY StepQueue, StepNothingLost
<1>3. QED BY <1>1, <1>2, PTL DEF Spec

-----------------------------------------------------------------------------

LEMMA InitIsAtomic == Init => Atomic!Init
BY DEF Init, Atomic!Init, Phase, EmptyList, Change, Atomic!Change

(* Each step of a call is a step of an atomic update or changes nothing the  *)
(* managers can see.                                                         *)
LEMMA StepIsAtomic ==
    Queue /\ NothingLost /\ [Next]_vars => [Atomic!Next]_Atomic!vars
<1> SUFFICES ASSUME Queue, NothingLost, [Next]_vars PROVE [Atomic!Next]_Atomic!vars
    OBVIOUS
<1> USE DEF Queue, TypeOK
<1> DEFINE phase == [d \in Callers |-> Phase(pc[d])]
<1>0. ASSUME NEW c \in Callers, NEW p, pc' = [pc EXCEPT ![c] = p]
      PROVE  phase' = [phase EXCEPT ![c] = Phase(p)]
    BY <1>0
<1>1. ASSUME NEW c \in Callers, Call(c) PROVE Atomic!Submit(c)
    <2>1. phase[c] = "idle" /\ phase' = [phase EXCEPT ![c] = "open"]
        BY <1>0, <1>1 DEF Call, Phase
    <2>2. QED BY <1>1, <2>1 DEF Call, Atomic!Submit, Change, Atomic!Change
<1>2. ASSUME NEW c \in Callers, Begin(c) \/ Read(c) PROVE UNCHANGED Atomic!vars
    <2>1. phase' = phase
        BY <1>2 DEF Begin, Read, Phase
    <2>2. QED BY <1>2, <2>1 DEF Begin, Read, Atomic!vars
<1>3. ASSUME NEW c \in Callers, Inside(c), Settle(c),
             index' \in {index, Changed(change[c], index)}
      PROVE  Atomic!Answer(c)
    <2>1. phase[c] = "open" /\ phase' = [phase EXCEPT ![c] = "answered"]
        BY <1>0, <1>3 DEF Settle, Inside, Phase
    <2>2. QED BY <1>3, <2>1 DEF Settle, Atomic!Answer, Changed, Atomic!Applied
<1>4. ASSUME NEW c \in Callers, Write(c) PROVE Atomic!Answer(c)
    BY <1>3, <1>4 DEF Write, Inside, NothingLost
<1>5. ASSUME NEW c \in Callers, Throw(c) PROVE Atomic!Answer(c)
    BY <1>3, <1>5 DEF Throw, Inside, NothingLost
<1>6. ASSUME NEW c \in Callers, Finally(c) PROVE Atomic!Return(c)
    <2>1. phase[c] = "answered" /\ phase' = [phase EXCEPT ![c] = "idle"]
        BY <1>0, <1>6 DEF Finally, Phase
    <2>2. QED BY <1>6, <2>1 DEF Finally, Atomic!Return
<1>7. ASSUME Crash PROVE Atomic!Crash
    <2>1. phase' = [d \in Callers |-> "idle"]
        BY <1>7 DEF Crash, Phase
    <2>2. QED BY <1>7, <2>1 DEF Crash, Atomic!Crash
<1>8. CASE UNCHANGED vars
    <2>1. phase' = phase
        BY <1>8 DEF vars
    <2>2. QED BY <1>8, <2>1 DEF vars, Atomic!vars
<1>9. QED BY <1>1, <1>2, <1>4, <1>5, <1>6, <1>7, <1>8 DEF Next, Task, Atomic!Next

(* The managers may treat updateIndex as one atomic step.                    *)
THEOREM UpdateIndexIsAtomic ==
    ASSUME "read" \notin Faults
    PROVE  Spec => UpdatesAreAtomic
<1>1. Init => Queue /\ NothingLost
    BY InitQueue, InitNothingLost
<1>2. Queue /\ NothingLost /\ [Next]_vars => (Queue /\ NothingLost)'
    BY StepQueue, StepNothingLost
<1>3. QED BY <1>1, <1>2, InitIsAtomic, StepIsAtomic, PTL DEF Spec, UpdatesAreAtomic, Atomic!Spec
=============================================================================
