------------------------- MODULE ApiKeyStoreProofs -------------------------
(* The types of the access keys, whatever crosses and fails; and, of a store *)
(* that does what it is asked to, what holds while one request at a time is  *)
(* served and what still holds when any number of clients refresh what is    *)
(* cached.  The runs show that with two writers at once most of it does not. *)
EXTENDS ApiKeyStore, TLAPS

KeyList == [Ids -> Times \cup {NoKey}]

-----------------------------------------------------------------------------
(* The types.                                                                *)

(* A list is a list after it is cleaned.                                     *)
LEMMA CleanedIsList ==
    ASSUME NEW keys \in KeyList
    PROVE  cleanApiKeys(keys) \in KeyList
BY DEF cleanApiKeys, KeyList

Steps == {"idle", "reading", "changing", "writing", "written"}
Requests ==
    {r \in [pc : Steps, kind : AllKinds \cup {"none", "show"}, id : Ids \cup {"none"},
            expire : Times \cup {NoKey}] : r.kind \in AllKinds => r.id \in Ids}

(* The types, and a request to change a key has one.                         *)
Typed ==
    /\ setting \in Settings
    /\ stored \in KeyList /\ cache \in KeyList /\ now \in Times
    /\ req \in [Slots -> Requests] /\ list \in [Slots -> KeyList]
    /\ verdict \in [id : Ids \cup {"none"}, valid : BOOLEAN]
    /\ owed \in KeyList /\ dropped \subseteq Ids

(* How the keys are used does not change, nor what is read from it.          *)
LEMMA SettingReads ==
    ASSUME setting' = setting
    PROVE  /\ Users' = Users /\ Kinds' = Kinds /\ Volatile' = Volatile /\ Faults' = Faults
           /\ MaxTime' = MaxTime /\ Times' = Times /\ KeyList' = KeyList /\ Requests' = Requests
           /\ OneAtATime' = OneAtATime /\ OneWriter' = OneWriter
BY DEF Users, Kinds, Volatile, Faults, MaxTime, Times, KeyList, Requests, OneAtATime, OneWriter

LEMMA SettingKept ==
    ASSUME [Next]_vars
    PROVE  setting' = setting
BY DEF vars, Next, Serve, Ask, PostVolatile, Show, Read, Change, Store, Answer, Clean, Refresh, Tick,
       Crash

(* A setting is one of those there are.                                      *)
LEMMA SettingTyped ==
    ASSUME setting \in Settings
    PROVE  /\ Users \subseteq Slots /\ Kinds \subseteq AllKinds /\ Volatile \subseteq Ids
           /\ MaxTime \in Nat \ {0} /\ Faults \subseteq KeyFaults
BY SettingsAssumption DEF Uses, Users, Kinds, Volatile, MaxTime, Faults

(* A request is a request after it goes on, or ends.                         *)
LEMMA RequestsStayRequests ==
    ASSUME req \in [Slots -> Requests], NEW s \in Slots
    PROVE  /\ \A pc \in Steps : Goes(s, pc) => req' \in [Slots -> Requests]
           /\ Ends(s) => req' \in [Slots -> Requests]
<1>1. ASSUME NEW pc \in Steps, Goes(s, pc) PROVE req' \in [Slots -> Requests]
  BY <1>1 DEF Goes, Requests
<1>2. ASSUME Ends(s) PROVE req' \in [Slots -> Requests]
  <2>1. Idle \in Requests
    BY DEF Idle, Requests, Steps, AllKinds, Logins
  <2> QED  BY <1>2, <2>1 DEF Ends
<1> QED  BY <1>1, <1>2

(* The types are preserved by every step, whatever the faults and however    *)
(* many requests cross.                                                      *)
LEMMA TypeStep ==
    ASSUME Typed, [Next]_vars
    PROVE  Typed'
<1> USE SettingKept, SettingReads, SettingTyped DEF Typed
<1>a. /\ NoKeys \in KeyList
      /\ \A s \in Slots : cleanApiKeys(list[s]) \in KeyList /\ req[s].expire \in Times \cup {NoKey}
      /\ Admins \subseteq Slots /\ Users \subseteq Slots
  BY CleanedIsList DEF NoKeys, KeyList, Requests, Slots
<1>1. ASSUME NEW s \in Admins, Ask(s) PROVE Typed'
  <2>1. PICK kind \in Kinds, i \in Ids, e \in Times :
           /\ req' = [req EXCEPT ![s] = Asked(kind, i, IF kind = "delete" THEN NoKey ELSE e)]
           /\ owed' = [owed EXCEPT ![i] = NoKey]
           /\ dropped' = dropped \ {i}
    BY <1>1 DEF Ask
  <2>2. Asked(kind, i, IF kind = "delete" THEN NoKey ELSE e) \in Requests
    BY DEF Asked, Requests, Steps
  <2>3. req' \in [Slots -> Requests]
    BY <1>a, <2>1, <2>2
  <2>4. owed' \in KeyList
    BY <2>1 DEF KeyList
  <2> QED  BY <1>1, <2>1, <2>3, <2>4 DEF Ask
<1>2. ASSUME NEW s \in Admins, PostVolatile(s) PROVE Typed'
  BY <1>2 DEF PostVolatile, KeyList
<1>3. ASSUME NEW s \in Users, NEW i \in Ids, Show(s, i) PROVE Typed'
  <2>1. Asked("show", i, NoKey) \in Requests
    BY DEF Asked, Requests, Steps, AllKinds, Logins
  <2>2. req' \in [Slots -> Requests]
    BY <1>3, <1>a, <2>1 DEF Show
  <2>3. verdict' \in [id : Ids \cup {"none"}, valid : BOOLEAN]
    <3>1. CASE Judged(i, cache, FALSE)
      BY <3>1 DEF Judged
    <3>2. CASE UNCHANGED verdict
      BY <3>2
    <3> QED  BY <1>3, <3>1, <3>2 DEF Show
  <2> QED  BY <1>3, <2>2, <2>3 DEF Show
<1>4. ASSUME NEW s \in Slots, Read(s) PROVE Typed'
  <2>1. req' \in [Slots -> Requests]
    BY <1>4, RequestsStayRequests DEF Read, Steps
  <2>2. Unless("read", stored) \subseteq KeyList
    BY <1>a DEF Unless
  <2> QED  BY <1>4, <2>1, <2>2 DEF Read
<1>5. ASSUME NEW s \in Slots, Change(s) PROVE Typed'
  <2>1. Changed(s) \in KeyList
    BY <1>a DEF Changed, KeyList
  <2>2. req' \in [Slots -> Requests]
    BY <1>5, RequestsStayRequests DEF Change, Steps
  <2>3. [owed EXCEPT ![req[s].id] = req[s].expire] \in KeyList
    BY <1>a DEF KeyList
  <2>4. owed' \in KeyList
    BY <1>5, <2>3 DEF Change, Answered
  <2>5. dropped' \subseteq Ids
    BY <1>5 DEF Change, Answered, Requests
  <2> QED  BY <1>5, <2>1, <2>2, <2>4, <2>5 DEF Change
<1>6. ASSUME NEW s \in Slots, Store(s) PROVE Typed'
  <2>1. req' \in [Slots -> Requests]
    BY <1>6, RequestsStayRequests DEF Store, Steps
  <2> QED  BY <1>6, <1>a, <2>1 DEF Store
<1>7. ASSUME NEW s \in Slots, Answer(s) PROVE Typed'
  <2>0. [owed EXCEPT ![req[s].id] = req[s].expire] \in KeyList /\ req[s].id \in Ids
    BY <1>a, <1>7 DEF Answer, KeyList, Requests
  <2>1. req' \in [Slots -> Requests]
    BY <1>7, RequestsStayRequests DEF Answer
  <2>2. Merged(list[s]) \in KeyList
    BY DEF Merged, KeyList
  <2> QED  BY <1>7, <1>a, <2>0, <2>1, <2>2 DEF Answer, Answered
<1>8. ASSUME NEW s \in Slots, Refreshed(s), list' \in [Slots -> KeyList],
             UNCHANGED <<stored, now, owed, dropped>>
      PROVE  Typed'
  <2>1. req' \in [Slots -> Requests]
    BY <1>8, RequestsStayRequests DEF Refreshed
  <2> QED  BY <1>8, <2>1 DEF Refreshed, Judged, Requests
<1>9. ASSUME NEW s \in Slots, Clean(s) PROVE Typed'
  <2>1. list' \in [Slots -> KeyList]
    BY <1>9, <1>a DEF Clean
  <2>2. CASE list' = list
    BY <1>8, <1>9, <2>1, <2>2 DEF Clean
  <2>3. CASE list' # list
    <3>1. req' \in [Slots -> Requests]
      BY <1>9, <2>3, RequestsStayRequests DEF Clean, Steps
    <3> QED  BY <1>9, <2>1, <2>3, <3>1 DEF Clean
  <2> QED  BY <2>2, <2>3
<1>10. ASSUME NEW s \in Slots, Refresh(s) PROVE Typed'
  BY <1>8, <1>10 DEF Refresh
<1>11. CASE Tick
  BY <1>11 DEF Tick, Times
<1>12. CASE Crash
  <2>1. \A keys \in Unless("read", stored) : cleanApiKeys(keys) \in KeyList
    BY <1>a, CleanedIsList DEF Unless
  <2>2. Idle \in Requests
    BY DEF Idle, Requests, Steps, AllKinds, Logins
  <2>3. owed' \in KeyList
    BY <1>12 DEF Crash, KeyList
  <2> QED  BY <1>12, <1>a, <2>1, <2>2, <2>3 DEF Crash, NoVerdict
<1>13. CASE UNCHANGED vars
  BY <1>13 DEF vars
<1> QED
  BY <1>1, <1>2, <1>3, <1>4, <1>5, <1>6, <1>7, <1>9, <1>10, <1>11, <1>12, <1>13 DEF Next, Serve

(* What a core starts on has the types.                                      *)
LEMMA TypeInit == Init => Typed
<1> SUFFICES ASSUME Init PROVE Typed
  OBVIOUS
<1>1. cache \in KeyList /\ stored \in KeyList
  BY CleanedIsList DEF Init, KeyList
<1>2. Idle \in Requests
  BY DEF Idle, Requests, Steps, AllKinds, Logins
<1> QED  BY <1>1, <1>2, SettingTyped DEF Init, Typed, KeyList, NoKeys, NoVerdict, Times

(* The types hold, whatever crosses and fails.                               *)
LEMMA TypedInvariant == Spec => []Typed
BY TypeInit, TypeStep, PTL DEF Spec

-----------------------------------------------------------------------------
(* The invariant of one request at a time.                                   *)

Busy == Admins \cup Users

(* The permanent keys that were promised are in a list.                      *)
KeysStored(keys) == \A i \in Ids \ Volatile : Live(i) => keys[i] = owed[i]

(* A request other than a refresh, from its question to its answer.          *)
Asking(s) == req[s].pc # "idle" /\ req[s].kind # "show"
Answering(s) == Asking(s) /\ ~ (req[s].kind \in Logins /\ req[s].pc = "writing")

(* What is true of a request at each of its steps.                           *)
InStep(s) ==
    /\ req[s].pc # "idle" => req[s].kind \in Kinds \cup {"show"}
    /\ Asking(s) => req[s].id \in Ids /\ req[s].id \notin dropped
    /\ Asking(s) /\ req[s].kind = "delete" => req[s].expire = NoKey
    /\ Answering(s) => owed[req[s].id] = NoKey
    /\ req[s].pc \in {"changing", "written"} => list[s] = stored
    /\ req[s].pc \in {"writing", "written"} /\ Asking(s) => list[s][req[s].id] = req[s].expire
    /\ req[s].pc = "writing" => KeysStored(list[s])
    /\ (req[s].pc = "writing" /\ req[s].kind \in Logins) \/ KeysStored(stored)
    /\ \A i \in dropped : list[s][i] = NoKey

(* What was promised is cached, and what was deleted is nowhere.             *)
Cached ==
    /\ KeysStored(cache)
    /\ \A i \in dropped : stored[i] = NoKey /\ (i \notin Volatile => cache[i] = NoKey)
    /\ Busy = {} => KeysStored(stored)

(* Nobody else asks for anything.                                            *)
Outside == \A s \in Slots \ Busy : req[s] = Idle

SerialInv == Cached /\ \A s \in Busy : InStep(s)

IInv == Typed /\ Outside /\ (OneAtATime => SerialInv)

(* A key that is promised, and not expired, outlives the cleaning.           *)
LEMMA CleanedKeepsLive ==
    ASSUME NEW keys, KeysStored(keys)
    PROVE  KeysStored(cleanApiKeys(keys))
BY DEF KeysStored, cleanApiKeys, Live

(* What is deleted from a list is not put back by cleaning it.               *)
LEMMA CleanedStaysOut ==
    ASSUME NEW keys, NEW i \in Ids, keys[i] = NoKey
    PROVE  cleanApiKeys(keys)[i] = NoKey
BY DEF cleanApiKeys

(* A core that starts promises what it finds.                                *)
LEMMA KeysInit == ASSUME Init PROVE IInv
<1>1. Typed /\ Busy \subseteq Slots
  BY TypeInit, SettingTyped DEF Typed, Busy, Slots
<1>2. KeysStored(stored) /\ KeysStored(cache)
  BY CleanedKeepsLive DEF Init, KeysStored
<1> QED
  BY <1>1, <1>2 DEF Init, IInv, Outside, SerialInv, Cached, InStep, Asking, Answering, Idle

(* A request to change a key comes: nothing is promised of the key, which is *)
(* not one that was deleted, until it is answered.                           *)
LEMMA AskStep ==
    ASSUME OneAtATime, Typed, SerialInv, NEW s \in Admins, Ask(s)
    PROVE  Cached' /\ InStep(s)'
<1>1. /\ req \in [Slots -> Requests] /\ owed \in KeyList /\ InStep(s) /\ Cached
      /\ req[s] = Idle /\ UNCHANGED <<stored, cache, now, list>>
      /\ Volatile' = Volatile /\ Kinds' = Kinds /\ Busy' = Busy /\ s \in Slots /\ s \in Busy
  BY SettingReads DEF SerialInv, Typed, Ask, Busy, Slots
<1>2. PICK kind \in Kinds, i \in Ids, e \in Times :
         /\ req' = [req EXCEPT ![s] = Asked(kind, i, IF kind = "delete" THEN NoKey ELSE e)]
         /\ owed' = [owed EXCEPT ![i] = NoKey]
         /\ dropped' = dropped \ {i}
  BY DEF Ask
<1>3. /\ req'[s] = Asked(kind, i, IF kind = "delete" THEN NoKey ELSE e)
      /\ owed'[i] = NoKey
  BY <1>1, <1>2 DEF KeyList
<1>4. \A j \in Ids : Live(j)' => Live(j) /\ owed'[j] = owed[j]
  BY <1>1, <1>2 DEF Live, KeyList
<1>5. KeysStored(stored) /\ (KeysStored(stored) => KeysStored(stored)')
  BY <1>1, <1>4 DEF InStep, Idle, KeysStored
<1>6. Cached'
  BY <1>1, <1>2, <1>4 DEF Cached, KeysStored
<1>7. InStep(s)'
  BY <1>1, <1>2, <1>3, <1>5 DEF InStep, Asking, Answering, Asked
<1> QED  BY <1>6, <1>7

(* A volatile key is one that nothing is said of.                            *)
LEMMA PostStep ==
    ASSUME OneAtATime, Typed, SerialInv, NEW s \in Admins, PostVolatile(s)
    PROVE  Cached' /\ InStep(s)'
<1>1. /\ owed \in KeyList /\ cache \in KeyList /\ InStep(s) /\ Cached
      /\ req[s] = Idle /\ UNCHANGED <<stored, now, req, list, dropped>>
      /\ Volatile' = Volatile /\ Kinds' = Kinds /\ Busy' = Busy
  BY SettingReads DEF SerialInv, Typed, PostVolatile, Busy
<1>2. \A i \in Ids \ Volatile : owed'[i] = owed[i] /\ cache'[i] = cache[i]
  BY <1>1 DEF PostVolatile, KeyList
<1>3. \A i \in dropped : i \notin Volatile => i \in Ids /\ cache'[i] = NoKey
  BY <1>1, <1>2 DEF Cached, Typed
<1>4. Cached'
  BY <1>1, <1>2, <1>3 DEF Cached, KeysStored, Live
<1>5. InStep(s)'
  BY <1>1, <1>2 DEF InStep, Asking, Answering, Idle, KeysStored, Live
<1> QED  BY <1>4, <1>5

(* A key is shown: what is cached answers, or the list is read again.        *)
LEMMA ShowStep ==
    ASSUME OneAtATime, Typed, SerialInv, NEW s \in Users, NEW i \in Ids, Show(s, i)
    PROVE  Cached' /\ InStep(s)'
<1>1. /\ req \in [Slots -> Requests] /\ InStep(s) /\ Cached
      /\ req[s] = Idle /\ UNCHANGED <<stored, cache, now, list, owed, dropped>>
      /\ Volatile' = Volatile /\ Kinds' = Kinds /\ Busy' = Busy /\ s \in Slots /\ s \in Busy
  BY SettingReads, SettingTyped DEF SerialInv, Typed, Show, Busy
<1>2. req'[s] = Idle \/ req'[s] = Asked("show", i, NoKey)
  BY <1>1 DEF Show
<1>3. Cached'
  BY <1>1 DEF Cached, KeysStored, Live
<1>4. InStep(s)'
  BY <1>1, <1>2 DEF InStep, Asking, Answering, Asked, Idle, KeysStored, Live
<1> QED  BY <1>3, <1>4

(* The list is read, changed and stored, and the request is answered.        *)
LEMMA ServeStep ==
    ASSUME OneAtATime, Typed, SerialInv, NEW s \in Busy, Serve(s)
    PROVE  Cached' /\ InStep(s)'
<1>0. /\ Volatile' = Volatile /\ Kinds' = Kinds /\ Busy' = Busy /\ s \in Slots /\ Volatile \subseteq Ids
  BY SettingReads, SettingTyped
     DEF Serve, Read, Change, Store, Answer, Clean, Refresh, Typed, Busy, Slots
<1>1. /\ req \in [Slots -> Requests] /\ owed \in KeyList /\ list \in [Slots -> KeyList]
      /\ stored \in KeyList /\ dropped \subseteq Ids
      /\ InStep(s) /\ Cached
  BY DEF SerialInv, Typed
<1>2. now' = now
  BY DEF Serve, Read, Change, Store, Answer, Clean, Refresh
<1>3. owed' = owed =>
        \A keys : KeysStored(keys) => \A i \in Ids \ Volatile : Live(i)' => keys[i] = owed'[i]
  BY <1>2 DEF KeysStored, Live
<1>4. "read" \notin Faults /\ "write" \notin Faults
  BY DEF OneAtATime
<1> USE <1>0
<1>5. CASE Read(s)
  <2>1. /\ req[s].pc = "reading" /\ req'[s] = [req[s] EXCEPT !.pc = "changing"]
        /\ list'[s] = stored /\ UNCHANGED <<stored, cache, owed, dropped>>
    BY <1>1, <1>4, <1>5 DEF Read, Goes, Unless
  <2>2. KeysStored(stored)' /\ KeysStored(stored)
    BY <1>1, <1>3, <2>1 DEF InStep, KeysStored
  <2>3. Cached'
    BY <1>1, <1>3, <2>1 DEF Cached, KeysStored
  <2>4. InStep(s)'
    BY <1>1, <2>1, <2>2 DEF InStep, Asking, Answering, Requests, Cached
  <2> QED  BY <2>3, <2>4
<1>6. CASE Change(s)
  <2> DEFINE k == req[s].id
  <2>1. /\ req[s].pc = "changing" /\ req'[s] = [req[s] EXCEPT !.pc = "writing"]
        /\ req[s].kind \in Kinds \cap AllKinds /\ Asking(s) /\ k \in Ids /\ k \notin dropped
        /\ list'[s] = Changed(s) /\ list[s] = stored /\ stored' = stored
        /\ owed[k] = NoKey
    BY <1>1, <1>6 DEF Change, Goes, InStep, Asking, Answering, AllKinds, Logins
  <2>2. /\ Changed(s)[k] = req[s].expire
        /\ \A i \in Ids \ {k} : Changed(s)[i] = cleanApiKeys(stored)[i]
    BY <2>1 DEF Changed, cleanApiKeys
  <2>3. KeysStored(stored) /\ KeysStored(cleanApiKeys(stored))
    BY <1>1, <2>1, CleanedKeepsLive DEF InStep
  <2>4. \A i \in dropped : i \in Ids /\ i # k /\ Changed(s)[i] = NoKey
    BY <1>1, <2>1, <2>2, CleanedStaysOut DEF Cached
  <2>5. CASE req[s].kind \in Logins
    <3>1. /\ cache' = Changed(s) /\ owed' = [owed EXCEPT ![k] = req[s].expire]
          /\ dropped' = dropped
      BY <1>6, <2>5 DEF Change, Answered, Logins
    <3>2. \A i \in Ids \ Volatile : Live(i)' => Changed(s)[i] = owed'[i]
      <4>1. ASSUME NEW i \in Ids \ Volatile, i # k, Live(i)' PROVE Changed(s)[i] = owed'[i]
        <5>1. owed'[i] = owed[i] /\ Live(i)
          BY <1>1, <1>2, <3>1, <4>1 DEF Live, KeyList
        <5> QED  BY <2>2, <2>3, <4>1, <5>1 DEF KeysStored
      <4>2. Changed(s)[k] = owed'[k]
        BY <1>1, <2>1, <2>2, <3>1 DEF KeyList
      <4> QED  BY <4>1, <4>2
    <3>3. Cached'
      BY <1>1, <2>1, <2>4, <3>1, <3>2 DEF Cached, KeysStored
    <3>4. InStep(s)'
      BY <1>1, <2>1, <2>2, <2>4, <2>5, <3>1, <3>2
         DEF InStep, Asking, Answering, KeysStored, Requests
    <3> QED  BY <3>3, <3>4
  <2>6. CASE req[s].kind \notin Logins
    <3>1. UNCHANGED <<cache, owed, dropped>>
      BY <1>6, <2>6 DEF Change
    <3>2. \A i \in Ids \ Volatile : Live(i)' => Changed(s)[i] = owed'[i] /\ stored'[i] = owed'[i]
      <4>1. ASSUME NEW i \in Ids \ Volatile, Live(i)' PROVE Changed(s)[i] = owed'[i] /\ stored'[i] = owed'[i]
        <5>1. owed'[i] = owed[i] /\ Live(i) /\ owed[i] # NoKey
          BY <1>2, <3>1, <4>1 DEF Live
        <5>2. i # k
          BY <2>1, <5>1
        <5> QED  BY <2>1, <2>2, <2>3, <5>1, <5>2 DEF KeysStored
      <4> QED  BY <4>1
    <3>3. Cached'
      BY <1>1, <1>3, <2>1, <3>1 DEF Cached, KeysStored
    <3>4. InStep(s)'
      BY <1>1, <2>1, <2>2, <2>4, <2>6, <3>1, <3>2
         DEF InStep, Asking, Answering, KeysStored, Requests
    <3> QED  BY <3>3, <3>4
  <2> QED  BY <2>5, <2>6
<1>7. CASE Store(s)
  <2>1. /\ req[s].pc = "writing" /\ stored' = list[s] /\ UNCHANGED <<cache, owed, dropped>>
        /\ \/ req'[s] = Idle /\ list'[s] = NoKeys
           \/ /\ req'[s] = [req[s] EXCEPT !.pc = "written"] /\ list'[s] = list[s]
              /\ req[s].kind \notin Logins
    BY <1>1, <1>4, <1>7 DEF Store, Ends, Goes
  <2>2. KeysStored(stored)'
    BY <1>1, <1>3, <2>1 DEF InStep, KeysStored
  <2>3. Cached'
    BY <1>1, <1>3, <2>1 DEF Cached, KeysStored, InStep
  <2>4. InStep(s)'
    <3>1. CASE req'[s] = Idle /\ list'[s] = NoKeys
      BY <1>1, <2>1, <2>2, <3>1 DEF InStep, Asking, Answering, Idle, NoKeys
    <3>2. CASE /\ req'[s] = [req[s] EXCEPT !.pc = "written"] /\ list'[s] = list[s]
               /\ req[s].kind \notin Logins
      BY <1>1, <2>1, <2>2, <3>2 DEF InStep, Asking, Answering, Requests
    <3> QED  BY <2>1, <3>1, <3>2
  <2> QED  BY <2>3, <2>4
<1>8. CASE Answer(s)
  <2> DEFINE k == req[s].id
  <2>1. /\ req[s].pc = "written" /\ Asking(s) /\ Answering(s) /\ list[s] = stored
        /\ k \in Ids /\ stored[k] = req[s].expire
        /\ req'[s] = Idle /\ list'[s] = NoKeys /\ stored' = stored
        /\ owed' = [owed EXCEPT ![k] = req[s].expire]
        /\ req[s].kind = "delete" => req[s].expire = NoKey
        /\ \/ req[s].kind = "delete" /\ dropped' = dropped \cup {k}
           \/ dropped' = dropped
    BY <1>1, <1>8 DEF Answer, Answered, Ends, InStep, Asking, Answering, AllKinds, Logins
  <2>2. \A i \in Ids \ Volatile : cache'[i] = stored[i]
    BY <1>8, <2>1 DEF Answer, Merged
  <2>3. \A i \in Ids \ Volatile : Live(i)' => stored[i] = owed'[i]
    <3>1. ASSUME NEW i \in Ids \ Volatile, i # k, Live(i)' PROVE stored[i] = owed'[i]
      <4>1. owed'[i] = owed[i] /\ Live(i)
        BY <1>1, <1>2, <2>1, <3>1 DEF Live, KeyList
      <4> QED  BY <1>1, <2>1, <4>1 DEF InStep, KeysStored
    <3>2. stored[k] = owed'[k]
      BY <1>1, <2>1 DEF KeyList
    <3> QED  BY <3>1, <3>2
  <2>4. \A i \in dropped' : i \in Ids /\ stored[i] = NoKey
    BY <1>1, <2>1 DEF Cached
  <2>5. Cached'
    BY <2>1, <2>2, <2>3, <2>4 DEF Cached, KeysStored
  <2>6. InStep(s)'
    BY <2>1, <2>3, <2>4 DEF InStep, Asking, Answering, Idle, KeysStored, NoKeys
  <2> QED  BY <2>5, <2>6
(* The list a refresh caches is the stored one.                              *)
<1>9. ASSUME Refreshed(s), list'[s] = stored, UNCHANGED <<stored, owed, dropped>>,
             KeysStored(stored)
      PROVE  Cached' /\ InStep(s)'
  <2>1. req'[s] = Idle /\ cache' = stored
    BY <1>1, <1>9 DEF Refreshed, Ends
  <2>2. KeysStored(stored)'
    BY <1>3, <1>9 DEF KeysStored
  <2>3. Cached'
    BY <1>1, <1>9, <2>1, <2>2 DEF Cached, KeysStored
  <2>4. InStep(s)'
    BY <1>1, <1>9, <2>1, <2>2 DEF InStep, Asking, Answering, Idle, Cached
  <2> QED  BY <2>3, <2>4
<1>10. CASE Clean(s)
  <2>1. /\ req[s].pc = "changing" /\ req[s].kind = "show" /\ list[s] = stored
        /\ list'[s] = cleanApiKeys(stored) /\ UNCHANGED <<stored, owed, dropped>>
        /\ KeysStored(stored)
    BY <1>1, <1>10 DEF Clean, InStep
  <2>2. CASE list' = list
    BY <1>9, <1>10, <2>1, <2>2 DEF Clean
  <2>3. CASE list' # list
    <3>1. req'[s] = [req[s] EXCEPT !.pc = "writing"] /\ cache' = cache
      BY <1>1, <1>10, <2>3 DEF Clean, Goes
    <3>2. KeysStored(stored)' /\ KeysStored(list[s])'
      BY <1>3, <2>1, CleanedKeepsLive DEF KeysStored
    <3>3. Cached'
      BY <1>1, <1>3, <2>1, <3>1 DEF Cached, KeysStored
    <3>4. \A i \in dropped : list'[s][i] = NoKey
      BY <1>1, <2>1, CleanedStaysOut DEF Cached
    <3>5. InStep(s)'
      BY <1>1, <2>1, <3>1, <3>2, <3>4 DEF InStep, Asking, Answering, Requests
    <3> QED  BY <3>3, <3>5
  <2> QED  BY <2>2, <2>3
<1>11. CASE Refresh(s)
  <2>1. req[s].pc = "written" /\ list[s] = stored /\ KeysStored(stored)
    BY <1>1, <1>11 DEF Refresh, InStep
  <2> QED  BY <1>9, <1>11, <2>1 DEF Refresh
<1> QED  BY <1>5, <1>6, <1>7, <1>8, <1>10, <1>11 DEF Serve

(* Time passes, or the core dies and the next one reads the list.            *)
LEMMA CoreStep ==
    ASSUME OneAtATime, Typed, SerialInv, Tick \/ Crash
    PROVE  SerialInv'
<1>0. /\ Volatile' = Volatile /\ Kinds' = Kinds /\ Busy' = Busy /\ Busy \subseteq Slots
  BY SettingReads, SettingTyped DEF Tick, Crash, Typed, Busy, Slots
<1>1. Cached /\ Typed /\ \A s \in Busy : InStep(s)
  BY DEF SerialInv
<1> USE <1>0
<1>2. CASE Tick
  <2>1. UNCHANGED <<stored, cache, req, list, verdict, owed, dropped>> /\ now' = now + 1
    BY <1>2 DEF Tick
  <2>2. \A i \in Ids : Live(i)' => Live(i)
    <3>1. now \in Nat /\ \A i \in Ids : owed[i] \in Nat
      BY <1>1, SettingTyped DEF Typed, KeyList, Times, NoKey
    <3> QED  BY <2>1, <3>1 DEF Live
  <2>3. Cached'
    BY <1>1, <2>1, <2>2 DEF Cached, KeysStored
  <2>4. ASSUME NEW s \in Busy PROVE InStep(s)'
    BY <1>1, <2>1, <2>2 DEF InStep, Asking, Answering, KeysStored
  <2> QED  BY <2>3, <2>4 DEF SerialInv
<1>3. CASE Crash
  <2>1. /\ cache' = cleanApiKeys(stored) /\ UNCHANGED <<stored, now, dropped>>
        /\ \A s \in Slots : req'[s] = Idle /\ list'[s] = NoKeys
        /\ \A i \in Ids \ Volatile : owed'[i] = owed[i]
        /\ Kinds \cap Logins = {}
    BY <1>3 DEF Crash, Unless, OneAtATime
  <2>2. \A i \in Ids \ Volatile : Live(i)' <=> Live(i)
    BY <2>1 DEF Live
  <2>3. KeysStored(stored)
    <3>1. ASSUME NEW s \in Busy PROVE KeysStored(stored)
      BY <1>1, <2>1 DEF InStep, Logins
    <3> QED  BY <1>1, <3>1 DEF Cached
  <2>4. KeysStored(cleanApiKeys(stored))
    BY <2>3, CleanedKeepsLive
  <2>5. \A i \in dropped : i \in Ids /\ stored[i] = NoKey /\ cleanApiKeys(stored)[i] = NoKey
    BY <1>1, CleanedStaysOut DEF Cached, Typed
  <2>6. KeysStored(stored)'
    BY <2>1, <2>2, <2>3 DEF KeysStored
  <2>7. Cached'
    BY <2>1, <2>2, <2>4, <2>5, <2>6 DEF Cached, KeysStored
  <2>8. ASSUME NEW s \in Busy PROVE InStep(s)'
    BY <2>1, <2>5, <2>6 DEF InStep, Asking, Answering, Idle, NoKeys
  <2> QED  BY <2>7, <2>8 DEF SerialInv
<1> QED  BY <1>2, <1>3

(* Who does not ask for anything never does.                                 *)
LEMMA OutsideStep ==
    ASSUME Typed, Outside, [Next]_vars
    PROVE  Outside'
<1>0. Busy' = Busy /\ Busy \subseteq Slots
  BY SettingKept, SettingReads, SettingTyped DEF Typed, Busy, Slots
<1>1. SUFFICES ASSUME NEW t \in Slots \ Busy
               PROVE  req'[t] = Idle
  BY <1>0 DEF Outside
<1>2. req \in [Slots -> Requests] /\ req[t] = Idle
  BY DEF Typed, Outside
<1>3. ASSUME NEW s \in Slots, Serve(s) PROVE req'[t] = Idle
  <2>1. s # t
    BY <1>2, <1>3 DEF Serve, Read, Change, Store, Answer, Clean, Refresh, Idle
  <2> QED
    BY <1>2, <1>3, <2>1
       DEF Serve, Read, Change, Store, Answer, Clean, Refresh, Refreshed, Goes, Ends
<1>4. ASSUME NEW s \in Admins, Ask(s) \/ PostVolatile(s) PROVE req'[t] = Idle
  BY <1>2, <1>4 DEF Ask, PostVolatile, Busy
<1>5. ASSUME NEW s \in Users, NEW i \in Ids, Show(s, i) PROVE req'[t] = Idle
  BY <1>2, <1>5 DEF Show, Busy
<1> QED  BY <1>2, <1>3, <1>4, <1>5 DEF Next, Tick, Crash, vars

(* The invariant is inductive.                                               *)
LEMMA KeysInvariant == Spec => []IInv
<1>1. ASSUME IInv, Next PROVE IInv'
  <2>1. Typed' /\ Outside'
    BY <1>1, TypeStep, OutsideStep DEF IInv
  <2>2. (OneAtATime' => OneAtATime) /\ Busy' = Busy /\ Busy \subseteq Slots
    BY <1>1, SettingKept, SettingReads, SettingTyped DEF Busy, Slots, IInv, Typed
  <2>3. SUFFICES ASSUME OneAtATime PROVE SerialInv'
    BY <2>1, <2>2 DEF IInv
  <2>4. Typed /\ SerialInv /\ Outside
    BY <1>1, <2>3 DEF IInv
  <2>5. ASSUME NEW s \in Busy, Cached' /\ InStep(s)' PROVE SerialInv'
    <3>1. \A t \in Busy : t = s
      BY <2>3 DEF OneAtATime, Busy
    <3> QED  BY <2>2, <2>5, <3>1 DEF SerialInv
  <2>6. ASSUME NEW s \in Slots, Serve(s) PROVE s \in Busy
    BY <2>4, <2>6 DEF Outside, Serve, Read, Change, Store, Answer, Clean, Refresh, Idle
  <2> QED
    BY <1>1, <2>3, <2>4, <2>5, <2>6, AskStep, PostStep, ShowStep, ServeStep, CoreStep
       DEF Next, Busy
<1>2. ASSUME IInv, UNCHANGED vars PROVE IInv'
  <2>1. Typed' /\ Outside'
    BY <1>2, TypeStep, OutsideStep DEF IInv
  <2>2. /\ OneAtATime' = OneAtATime /\ Busy' = Busy /\ Volatile' = Volatile /\ Kinds' = Kinds
    BY <1>2, SettingReads DEF Busy, vars
  <2>3. SUFFICES ASSUME OneAtATime PROVE SerialInv'
    BY <2>1, <2>2 DEF IInv
  <2>4. Cached'
    BY <1>2, <2>2, <2>3 DEF IInv, SerialInv, Cached, KeysStored, Live, vars
  <2>5. ASSUME NEW s \in Busy PROVE InStep(s)'
    BY <1>2, <2>2, <2>3, <2>5
       DEF IInv, SerialInv, InStep, Asking, Answering, KeysStored, Live, vars
  <2> QED  BY <2>2, <2>4, <2>5 DEF SerialInv
<1> QED  BY KeysInit, <1>1, <1>2, PTL DEF Spec

-----------------------------------------------------------------------------
(* The invariant of one writer: the clients' refreshes have nothing to clean, *)
(* so what they read and cache never reaches the store.                      *)

WriterStep(s) ==
    /\ Asking(s) => /\ s \in Admins /\ req[s].kind \in AllKinds \ Logins
                    /\ req[s].id \in Ids /\ owed[req[s].id] = NoKey
    /\ req[s].pc \in {"writing", "written"} => Asking(s)
    /\ Asking(s) /\ req[s].pc = "changing" => list[s] = stored
    /\ req[s].pc = "writing" => KeysStored(list[s]) /\ list[s][req[s].id] = req[s].expire
    /\ req[s].pc = "written" => stored[req[s].id] = req[s].expire

WriterInv == now = 1 /\ KeysStored(stored) /\ \A s \in Slots : WriterStep(s)

(* At the first instant nothing has expired.                                 *)
LEMMA NothingToClean ==
    ASSUME NEW keys \in KeyList, now = 1
    PROVE  cleanApiKeys(keys) = keys
BY DEF cleanApiKeys, KeyList, Times, NoKey

LEMMA WriterInit == ASSUME Init PROVE WriterInv
<1>1. stored \in KeyList
  BY TypeInit DEF Typed
<1>2. \A s \in Slots : WriterStep(s)
  BY DEF Init, WriterStep, Asking, Idle
<1> QED  BY <1>1, <1>2 DEF Init, WriterInv, KeysStored

(* A step of one request leaves the others where they are, and only the one  *)
(* of the administrator has a list that will be stored.                      *)
LEMMA OtherWriters ==
    ASSUME OneWriter, Typed, WriterInv, UNCHANGED <<setting, now>>, NEW s \in Slots,
           KeysStored(stored)', WriterStep(s)',
           \A t \in Slots \ {s} : req'[t] = req[t] /\ list'[t] = list[t],
           \/ UNCHANGED <<stored, owed>>
           \/ s \in Admins /\ (Asking(s) \/ req[s] = Idle)
    PROVE  WriterInv'
<1> SUFFICES ASSUME NEW t \in Slots \ {s} PROVE WriterStep(t)'
  BY DEF WriterInv
<1>1. WriterStep(t) /\ Volatile' = Volatile /\ (Asking(t)' <=> Asking(t))
  BY SettingReads DEF WriterInv, Asking
<1>2. CASE UNCHANGED <<stored, owed>>
  BY <1>1, <1>2 DEF WriterStep, KeysStored, Live
<1>3. CASE s \in Admins
  <2>1. CASE ~ Asking(t)
    BY <1>1, <2>1 DEF WriterStep
  <2>2. CASE Asking(t)
    <3>1. t \in Admins
      BY <1>1, <2>2 DEF WriterStep
    <3> QED  BY <1>3, <3>1 DEF OneWriter
  <2> QED  BY <2>1, <2>2
<1> QED  BY <1>2, <1>3

(* The invariant is preserved by a request that is served.                   *)
LEMMA WriterServe ==
    ASSUME OneWriter, Typed, WriterInv, NEW s \in Slots, Serve(s)
    PROVE  WriterInv'
<1>1. /\ req \in [Slots -> Requests] /\ owed \in KeyList /\ list \in [Slots -> KeyList]
      /\ stored \in KeyList /\ WriterStep(s) /\ KeysStored(stored) /\ now = 1
      /\ req[s].kind \in AllKinds => Asking(s) \/ req[s].pc = "idle"
  BY DEF WriterInv, Typed, Asking, AllKinds, Logins
<1>2. /\ UNCHANGED <<setting, now>> /\ Volatile' = Volatile
      /\ \A t \in Slots \ {s} : req'[t] = req[t] /\ list'[t] = list[t]
  BY <1>1, SettingReads
     DEF Serve, Read, Change, Store, Answer, Clean, Refresh, Refreshed, Goes, Ends
<1>3. "read" \notin Faults /\ "write" \notin Faults
  BY DEF OneWriter
<1>4. CASE Read(s)
  <2>1. /\ req[s].pc = "reading" /\ req'[s] = [req[s] EXCEPT !.pc = "changing"]
        /\ list'[s] = stored /\ UNCHANGED <<stored, owed>>
    BY <1>1, <1>3, <1>4 DEF Read, Goes, Unless
  <2>2. KeysStored(stored)'
    BY <1>1, <1>2, <2>1 DEF KeysStored, Live
  <2>3. WriterStep(s)'
    BY <1>1, <2>1 DEF WriterStep, Asking, Requests
  <2> QED  BY <1>2, <2>1, <2>2, <2>3, OtherWriters
<1>5. CASE Change(s)
  <2>1. /\ req[s].pc = "changing" /\ req'[s] = [req[s] EXCEPT !.pc = "writing"] /\ Asking(s)
        /\ list'[s] = Changed(s) /\ list[s] = stored /\ req[s].kind \notin Logins
    BY <1>1, <1>5 DEF Change, Goes, WriterStep
  <2>2. UNCHANGED <<stored, owed>> /\ owed[req[s].id] = NoKey /\ req[s].id \in Ids
    BY <1>1, <1>5, <2>1 DEF Change, WriterStep
  <2>3. list'[s] = [stored EXCEPT ![req[s].id] = req[s].expire]
    BY <1>1, <2>1, NothingToClean DEF Changed
  <2>4. \A i \in Ids \ Volatile : Live(i)' => i # req[s].id /\ stored[i] = owed[i]
    BY <1>1, <1>2, <2>2 DEF KeysStored, Live
  <2>5. KeysStored(stored)' /\ KeysStored(list[s])' /\ list'[s][req[s].id] = req[s].expire
    BY <1>1, <1>2, <2>2, <2>3, <2>4 DEF KeysStored, KeyList
  <2>6. WriterStep(s)'
    BY <1>1, <2>1, <2>2, <2>5 DEF WriterStep, Asking, Requests
  <2> QED  BY <1>2, <2>2, <2>5, <2>6, OtherWriters
<1>6. CASE Store(s)
  <2>1. /\ req[s].pc = "writing" /\ stored' = list[s] /\ owed' = owed /\ Asking(s)
        /\ s \in Admins /\ req[s].kind \notin Logins /\ KeysStored(list[s])
        /\ list[s][req[s].id] = req[s].expire
    BY <1>1, <1>3, <1>6 DEF Store, WriterStep
  <2>2. req'[s] = [req[s] EXCEPT !.pc = "written"]
    BY <1>1, <1>6, <2>1 DEF Store, Goes
  <2>3. KeysStored(stored)'
    BY <1>2, <2>1 DEF KeysStored, Live
  <2>4. WriterStep(s)'
    BY <1>1, <2>1, <2>2 DEF WriterStep, Asking, Requests
  <2> QED  BY <1>2, <2>1, <2>3, <2>4, OtherWriters
<1>7. CASE Answer(s)
  <2>1. /\ req[s].pc = "written" /\ Asking(s) /\ s \in Admins /\ req[s].id \in Ids
        /\ stored' = stored /\ stored[req[s].id] = req[s].expire
        /\ owed' = [owed EXCEPT ![req[s].id] = req[s].expire] /\ req'[s] = Idle
    BY <1>1, <1>7 DEF Answer, Answered, Ends, WriterStep
  <2>2. KeysStored(stored)'
    <3> SUFFICES ASSUME NEW i \in Ids \ Volatile, Live(i)' PROVE stored[i] = owed'[i]
      BY <1>2, <2>1 DEF KeysStored
    <3>1. CASE i = req[s].id
      BY <1>1, <2>1, <3>1 DEF KeyList
    <3>2. CASE i # req[s].id
      <4>1. owed'[i] = owed[i] /\ Live(i)
        BY <1>1, <1>2, <2>1, <3>2 DEF Live, KeyList
      <4> QED  BY <1>1, <4>1 DEF KeysStored
    <3> QED  BY <3>1, <3>2
  <2>3. WriterStep(s)'
    BY <2>1 DEF WriterStep, Asking, Idle
  <2> QED  BY <1>2, <2>1, <2>2, <2>3, OtherWriters
<1>8. CASE Clean(s)
  <2>1. list' = list
    BY <1>1, <1>8, NothingToClean DEF Clean
  <2>2. req'[s] = Idle /\ UNCHANGED <<stored, owed>>
    BY <1>1, <1>8, <2>1 DEF Clean, Refreshed, Ends
  <2>3. KeysStored(stored)' /\ WriterStep(s)'
    BY <1>1, <1>2, <2>2 DEF KeysStored, Live, WriterStep, Asking, Idle
  <2> QED  BY <1>2, <2>2, <2>3, OtherWriters
<1>9. CASE Refresh(s)
  BY <1>1, <1>9 DEF Refresh, WriterStep, Asking
<1> QED  BY <1>4, <1>5, <1>6, <1>7, <1>8, <1>9 DEF Serve

(* It is preserved by a question, and by a restart.                          *)
LEMMA WriterNext ==
    ASSUME OneWriter, Typed, WriterInv, Next
    PROVE  WriterInv'
<1>1. /\ req \in [Slots -> Requests] /\ owed \in KeyList /\ stored \in KeyList
      /\ KeysStored(stored) /\ now = 1 /\ Admins \subseteq Slots /\ Users \subseteq Slots
      /\ Kinds \subseteq AllKinds \ Logins
  BY SettingTyped DEF WriterInv, Typed, Slots, OneWriter
<1>2. setting' = setting /\ Volatile' = Volatile
  BY SettingKept, SettingReads
<1>3. ASSUME NEW s \in Admins, Ask(s) PROVE WriterInv'
  <2>1. PICK kind \in Kinds, i \in Ids, e \in Times :
           /\ req' = [req EXCEPT ![s] = Asked(kind, i, IF kind = "delete" THEN NoKey ELSE e)]
           /\ owed' = [owed EXCEPT ![i] = NoKey]
    BY <1>3 DEF Ask
  <2>2. req[s] = Idle /\ s \in Slots /\ UNCHANGED <<stored, now, list>>
    BY <1>1, <1>3 DEF Ask
  <2>3. KeysStored(stored)'
    BY <1>1, <1>2, <2>1, <2>2 DEF KeysStored, Live, KeyList
  <2>4. WriterStep(s)'
    BY <1>1, <2>1, <2>2 DEF WriterStep, Asking, Asked, KeyList
  <2>5. \A t \in Slots \ {s} : req'[t] = req[t] /\ list'[t] = list[t]
    BY <1>1, <2>1, <2>2
  <2> QED  BY <1>2, <2>2, <2>3, <2>4, <2>5, OtherWriters
<1>4. ASSUME NEW s \in Admins, PostVolatile(s) PROVE WriterInv'
  <2>1. req[s] = Idle /\ s \in Slots /\ UNCHANGED <<stored, now, req, list>>
    BY <1>1, <1>4 DEF PostVolatile
  <2>2. \A i \in Ids \ Volatile : owed'[i] = owed[i]
    BY <1>1, <1>4 DEF PostVolatile, KeyList
  <2>3. KeysStored(stored)' /\ WriterStep(s)'
    BY <1>1, <1>2, <2>1, <2>2 DEF KeysStored, Live, WriterStep, Asking, Idle
  <2> QED  BY <1>2, <2>1, <2>3, OtherWriters
<1>5. ASSUME NEW s \in Users, NEW i \in Ids, Show(s, i) PROVE WriterInv'
  <2>1. /\ req[s] = Idle /\ s \in Slots /\ UNCHANGED <<stored, now, list, owed>>
        /\ req'[s] = Idle \/ req'[s] = Asked("show", i, NoKey)
        /\ \A t \in Slots \ {s} : req'[t] = req[t]
    BY <1>1, <1>5 DEF Show
  <2>2. KeysStored(stored)' /\ WriterStep(s)'
    BY <1>1, <1>2, <2>1 DEF KeysStored, Live, WriterStep, Asking, Asked, Idle
  <2> QED  BY <1>2, <2>1, <2>2, OtherWriters
<1>6. ASSUME Tick PROVE FALSE
  BY <1>1, <1>6 DEF Tick, OneWriter
<1>7. CASE Crash
  <2>1. UNCHANGED <<stored, now>> /\ \A s \in Slots : req'[s] = Idle
    BY <1>7 DEF Crash
  <2>2. \A i \in Ids \ Volatile : owed'[i] = owed[i]
    BY <1>7 DEF Crash
  <2> QED
    BY <1>1, <1>2, <2>1, <2>2 DEF WriterInv, KeysStored, Live, WriterStep, Asking, Idle
<1> QED  BY <1>3, <1>4, <1>5, <1>6, <1>7, WriterServe DEF Next

LEMMA WriterInvariant == Spec => [](OneWriter => WriterInv)
<1>1. ASSUME Typed, OneWriter => WriterInv, [Next]_vars
      PROVE  (OneWriter => WriterInv)'
  <2>1. OneWriter' = OneWriter
    BY <1>1, SettingKept, SettingReads
  <2>2. CASE Next
    BY <1>1, <2>1, <2>2, WriterNext
  <2>3. CASE UNCHANGED vars
    BY <1>1, <2>1, <2>3, SettingReads
       DEF vars, WriterInv, WriterStep, Asking, KeysStored, Live
  <2> QED  BY <1>1, <2>2, <2>3
<1> QED  BY WriterInit, TypedInvariant, <1>1, PTL DEF Spec

-----------------------------------------------------------------------------
(* What follows from it.                                                     *)

(* Whatever requests cross and whatever fails, the store, the cache and the  *)
(* requests keep their types.                                                *)
THEOREM KeysTyped == Spec => []TypeOK
<1>1. Typed => TypeOK
  BY DEF Typed, TypeOK, KeyList, Requests, Steps
<1> QED  BY TypedInvariant, <1>1, PTL

(* One request at a time, and a core that hands no key out before it is      *)
(* stored if it may die: a permanent key that was deleted is neither stored  *)
(* nor accepted.                                                             *)
THEOREM DeletedKeysAreGone == Spec => []DeletedStaysGone
<1>1. IInv => DeletedStaysGone
  BY DEF IInv, SerialInv, Cached, DeletedStaysGone, DeletedIsGone
<1> QED  BY KeysInvariant, <1>1, PTL

(* And one that was promised is accepted at once.                            *)
THEOREM PromisedKeysAreCached == Spec => []CacheFollowsStore
<1>1. IInv => CacheFollowsStore
  BY DEF IInv, SerialInv, Cached, KeysStored, CacheFollowsStore, CacheHasTheKeys
<1> QED  BY KeysInvariant, <1>1, PTL

(* A permanent key that was answered is stored until it expires, or in the   *)
(* write that is on its way: when requests come one at a time, and also when *)
(* any number of clients show keys, and refresh what is cached, across what  *)
(* one administrator does, wherever the core dies.                           *)
THEOREM PermanentKeysLast == Spec => []NoKeyIsLost
<1>1. ASSUME IInv, OneAtATime, NEW i \in Ids \ Volatile, Live(i)
      PROVE  \/ stored[i] = owed[i]
             \/ \E s \in Slots : req[s].pc = "writing" /\ list[s][i] = owed[i]
  <2>1. CASE Busy = {}
    BY <1>1, <2>1 DEF IInv, SerialInv, Cached, KeysStored
  <2>2. ASSUME NEW s \in Busy
        PROVE  s \in Slots /\ (stored[i] = owed[i] \/ (req[s].pc = "writing" /\ list[s][i] = owed[i]))
    BY <1>1, SettingTyped DEF IInv, Typed, SerialInv, InStep, KeysStored, Busy, Slots
  <2> QED  BY <2>1, <2>2
<1>2. ASSUME IInv, OneAtATime PROVE PermanentIsStored
  BY <1>1, <1>2 DEF PermanentIsStored
<1>3. ASSUME WriterInv PROVE PermanentIsStored
  BY <1>3 DEF WriterInv, KeysStored, PermanentIsStored
<1>4. IInv /\ (OneWriter => WriterInv) => NoKeyIsLost
  BY <1>2, <1>3 DEF NoKeyIsLost
<1> QED  BY KeysInvariant, WriterInvariant, <1>4, PTL
=============================================================================
