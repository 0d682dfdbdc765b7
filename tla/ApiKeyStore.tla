---------------------------- MODULE ApiKeyStore ----------------------------
(* The access keys: back/src/api/ApiKeyApi.ts, createApiKey() of Identity-   *)
(* Service.ts and validKey() of AuthorizationManagement.ts.  The list in the *)
(* ConfigMap kwirth.keys is read and written whole with awaits in between,   *)
(* without updateIndex(), by every route; `apiKeys` caches it and also holds *)
(* the volatile keys.  A list maps the id of a key to its `expire`, 0 for a  *)
(* key that is not in it.  The core is not the desktop one.                  *)
EXTENDS Integers

CONSTANTS
    Ids,       \* key ids
    Admins,    \* requests to /key and logins that may be in progress at once
    Clients,   \* requests of others that may be in progress at once
    Settings   \* the ways the keys may be used, of which one is met

(* "login": LoginApi, under the lock of the identities; "sso": the callback  *)
(* of an IdP, without it.  Both end in createApiKey.                         *)
Logins == {"login", "sso"}
AllKinds == Logins \cup {"post", "put", "delete"}

(* "read": a read answers undefined.  "write": a write is not stored and is  *)
(* not reported.  "crash": the core dies and is started again.               *)
KeyFaults == {"read", "write", "crash"}

Slots == Admins \cup Clients

(* users: the requests with a key; one of an administrator does now the one  *)
(* thing and now the other.  kinds: what is asked of the routes.  volatile:  *)
(* the ids of the volatile keys.  maxTime: bound on the clock.               *)
Uses == [users : SUBSET Slots, kinds : SUBSET AllKinds, volatile : SUBSET Ids,
         maxTime : Nat \ {0}, faults : SUBSET KeyFaults]

ASSUME SettingsAssumption == Settings \subseteq Uses

VARIABLES
    setting,  \* how the keys are used
    stored,   \* kwirth.keys
    cache,    \* apiKeys
    now,      \* the clock
    req,      \* what each request is doing
    list,     \* the list each request has read, and changes
    verdict,  \* what the last key that was shown was answered
    owed,     \* the expiry that was promised of each key, 0 for none
    dropped   \* the keys whose DELETE was answered

vars == <<setting, stored, cache, now, req, list, verdict, owed, dropped>>

Users == setting.users
Kinds == setting.kinds
Volatile == setting.volatile
Faults == setting.faults
MaxTime == setting.maxTime

NoKey == 0
Times == 1..MaxTime
NoKeys == [i \in Ids |-> NoKey]
Idle == [pc |-> "idle", kind |-> "none", id |-> "none", expire |-> NoKey]
Asked(kind, i, e) == [pc |-> "reading", kind |-> kind, id |-> i, expire |-> e]
NoVerdict == [id |-> "none", valid |-> FALSE]

(* cleanApiKeys, which answers [] for a read that failed.                    *)
cleanApiKeys(keys) == [i \in Ids |-> IF keys[i] >= now THEN keys[i] ELSE NoKey]

(* A core that starts on what an earlier one left.                           *)
Init ==
    /\ setting \in Settings
    /\ now = 1
    /\ stored \in {keys \in [Ids -> Times \cup {NoKey}] : \A i \in Volatile : keys[i] = NoKey}
    /\ cache = cleanApiKeys(stored)
    /\ req = [s \in Slots |-> Idle]
    /\ list = [s \in Slots |-> NoKeys]
    /\ verdict = NoVerdict
    /\ owed = stored /\ dropped = {}

Goes(s, pc) == req' = [req EXCEPT ![s].pc = pc]
Ends(s) == req' = [req EXCEPT ![s] = Idle]
Unless(kind, keys) == IF kind \in Faults THEN {keys, NoKeys} ELSE {keys}

-----------------------------------------------------------------------------
(* The routes of /key, and the login                                         *)

Known(i) == stored[i] # NoKey \/ cache[i] # NoKey \/ owed[i] # NoKey

(* An id that no one has used; ids come from a uuid.                         *)
Unused(i) ==
    /\ ~ Known(i) /\ i \notin dropped
    /\ \A s \in Slots : req[s].id # i /\ list[s][i] = NoKey

(* POST of a permanent key, or the login of a user, for a new id; PUT and    *)
(* DELETE of one that is known.  A login of LoginApi waits for the lock of   *)
(* the identities, which it holds until it is answered.                      *)
Ask(s) ==
    /\ req[s] = Idle
    /\ \E kind \in Kinds, i \in Ids, e \in Times :
         /\ IF kind \in Logins \cup {"post"} THEN Unused(i) /\ i \notin Volatile ELSE Known(i)
         /\ kind = "login" => \A t \in Admins :
              req[t].kind = "login" => req[t].pc \notin {"reading", "changing"}
         /\ req' = [req EXCEPT ![s] = Asked(kind, i, IF kind = "delete" THEN NoKey ELSE e)]
         /\ owed' = [owed EXCEPT ![i] = NoKey]
         /\ dropped' = dropped \ {i}
    /\ UNCHANGED <<setting, stored, cache, now, list, verdict>>

(* POST of a volatile key: it is only cached.                                *)
PostVolatile(s) ==
    /\ "post" \in Kinds
    /\ req[s] = Idle
    /\ \E i \in Volatile, e \in Times :
         /\ Unused(i)
         /\ cache' = [cache EXCEPT ![i] = e]
         /\ owed' = [owed EXCEPT ![i] = e]
    /\ UNCHANGED <<setting, stored, now, req, list, verdict, dropped>>

(* configMaps.read is answered with the list as it is by then.               *)
Read(s) ==
    /\ req[s].pc = "reading"
    /\ \E keys \in Unless("read", stored) : list' = [list EXCEPT ![s] = keys]
    /\ Goes(s, "changing")
    /\ UNCHANGED <<setting, stored, cache, now, verdict, owed, dropped>>

(* Bugs: the list is stored without the key; a PUT adds to its expire.       *)
ChangedWithout(s) == [cleanApiKeys(list[s]) EXCEPT ![req[s].id] = NoKey]
ChangedExtending(s) == [cleanApiKeys(list[s]) EXCEPT ![req[s].id] = @ + req[s].expire]

(* What a route makes of the list it read: expired keys are dropped, and the *)
(* key of the request is put in place of the one with its id, or filtered.   *)
Changed(s) == [cleanApiKeys(list[s]) EXCEPT ![req[s].id] = req[s].expire]

(* The request is answered: a key has been promised, or deleted.             *)
Answered(s) ==
    /\ owed' = [owed EXCEPT ![req[s].id] = req[s].expire]
    /\ dropped' = IF req[s].kind = "delete" THEN dropped \cup {req[s].id} ELSE dropped

(* Bug: every cached key is kept, and not the volatile ones.                 *)
MergedKeepingAll(keys) == [i \in Ids |-> IF cache[i] # NoKey THEN cache[i] ELSE keys[i]]

(* `[...apiKeys.filter(volatile), ...storedKeys]`, where the first is found. *)
Merged(keys) == [i \in Ids |-> IF i \in Volatile /\ cache[i] # NoKey THEN cache[i] ELSE keys[i]]

(* The write is issued.  A route awaits it; a login does not, and caches the *)
(* list it is storing, without the volatile keys, and is answered.           *)
Change(s) ==
    /\ req[s].pc = "changing" /\ req[s].kind \in AllKinds
    /\ list' = [list EXCEPT ![s] = Changed(s)]
    /\ Goes(s, "writing")
    /\ IF req[s].kind \in Logins
         THEN cache' = Changed(s) /\ Answered(s)
         ELSE UNCHANGED <<cache, owed, dropped>>
    /\ UNCHANGED <<setting, stored, now, verdict>>

(* The store takes the whole list; nobody is told when it does not.          *)
Store(s) ==
    /\ req[s].pc = "writing"
    /\ \/ stored' = list[s]
       \/ "write" \in Faults /\ stored' = stored
    /\ IF req[s].kind \in Logins
         THEN Ends(s) /\ list' = [list EXCEPT ![s] = NoKeys]
         ELSE Goes(s, "written") /\ UNCHANGED list
    /\ UNCHANGED <<setting, cache, now, verdict, owed, dropped>>

(* Bug: the cache is left for the next refresh.                              *)
AnswerUncached(s) ==
    /\ req[s].pc = "written" /\ req[s].kind \in AllKinds
    /\ Answered(s)
    /\ Ends(s)
    /\ list' = [list EXCEPT ![s] = NoKeys]
    /\ UNCHANGED <<setting, stored, cache, now, verdict>>

(* The await of the write is over: the list is cached with the volatile keys.*)
Answer(s) ==
    /\ req[s].pc = "written" /\ req[s].kind \in AllKinds
    /\ cache' = Merged(list[s])
    /\ Answered(s)
    /\ Ends(s)
    /\ list' = [list EXCEPT ![s] = NoKeys]
    /\ UNCHANGED <<setting, stored, now, verdict>>

-----------------------------------------------------------------------------
(* validKey                                                                  *)

(* Bug: computedExpire is set in the other of the two branches.              *)
JudgedTheOtherWay(i, keys, refreshed) ==
    verdict' = [id |-> i, valid |-> keys[i] # NoKey /\ keys[i] >= now /\ refreshed]

(* A key is valid when it is found, for a `computedExpire` of its own expire *)
(* that is not over.  A key found only after refreshKeys leaves it at 0.     *)
Judged(i, keys, refreshed) ==
    verdict' = [id |-> i, valid |-> keys[i] # NoKey /\ keys[i] >= now /\ ~ refreshed]

(* A request shows a key: one that is cached is judged at once, any other    *)
(* starts refreshKeys().                                                     *)
Show(s, i) ==
    /\ req[s] = Idle
    /\ \/ /\ cache[i] # NoKey
          /\ Judged(i, cache, FALSE)
          /\ req' = req
       \/ /\ cache[i] = NoKey
          /\ req' = [req EXCEPT ![s] = Asked("show", i, NoKey)]
          /\ UNCHANGED verdict
    /\ UNCHANGED <<setting, stored, cache, now, list, owed, dropped>>

(* The rest of refreshKeys(), and of validKey().                             *)
Refreshed(s) ==
    /\ cache' = list'[s]
    /\ Judged(req[s].id, list'[s], TRUE)
    /\ Ends(s)

(* The list that was read is cleaned, and only written when that changed it. *)
Clean(s) ==
    /\ req[s].pc = "changing" /\ req[s].kind = "show"
    /\ list' = [list EXCEPT ![s] = cleanApiKeys(@)]
    /\ IF list' = list
         THEN Refreshed(s)
         ELSE Goes(s, "writing") /\ UNCHANGED <<cache, verdict>>
    /\ UNCHANGED <<setting, stored, now, owed, dropped>>

Refresh(s) ==
    /\ req[s].pc = "written" /\ req[s].kind = "show"
    /\ list' = list
    /\ Refreshed(s)
    /\ UNCHANGED <<setting, stored, now, owed, dropped>>

-----------------------------------------------------------------------------

Tick ==
    /\ now < MaxTime
    /\ now' = now + 1
    /\ UNCHANGED <<setting, stored, cache, req, list, verdict, owed, dropped>>

(* The core dies, and create() of the next one reads the list.               *)
Crash ==
    /\ "crash" \in Faults
    /\ \E keys \in Unless("read", stored) : cache' = cleanApiKeys(keys)
    /\ req' = [s \in Slots |-> Idle]
    /\ list' = [s \in Slots |-> NoKeys]
    /\ verdict' = NoVerdict
    /\ owed' = [i \in Ids |-> IF i \in Volatile THEN NoKey ELSE owed[i]]
    /\ UNCHANGED <<setting, stored, now, dropped>>

Serve(s) == Read(s) \/ Change(s) \/ Store(s) \/ Answer(s) \/ Clean(s) \/ Refresh(s)

Next ==
    \/ \E s \in Admins : Ask(s) \/ PostVolatile(s)
    \/ \E s \in Users, i \in Ids : Show(s, i)
    \/ \E s \in Slots : Serve(s)
    \/ Tick \/ Crash

Spec == Init /\ [][Next]_vars

(* The store answers, and who holds a key goes on showing it: that the Users *)
(* are few is a bound of the model, so a free one is not for ever for others.*)
Fairness ==
    /\ \A s \in Slots : WF_vars(Serve(s))
    /\ \A i \in Ids : SF_vars(\E s \in Users : Show(s, i))
FairSpec == Spec /\ Fairness

-----------------------------------------------------------------------------

(* The types of the store, of its cache and of the requests.                 *)
TypeOK ==
    /\ setting \in Settings
    /\ stored \in [Ids -> Times \cup {NoKey}] /\ cache \in [Ids -> Times \cup {NoKey}]
    /\ now \in Times
    /\ req \in [Slots -> [pc : {"idle", "reading", "changing", "writing", "written"},
                          kind : AllKinds \cup {"none", "show"},
                          id : Ids \cup {"none"}, expire : Times \cup {NoKey}]]
    /\ list \in [Slots -> [Ids -> Times \cup {NoKey}]]
    /\ verdict \in [id : Ids \cup {"none"}, valid : BOOLEAN]
    /\ owed \in [Ids -> Times \cup {NoKey}] /\ dropped \subseteq Ids

Live(i) == owed[i] # NoKey /\ owed[i] >= now

(* key-types.md:6 of the docs: permanent keys are stored, so "they are usable *)
(* until their expiration date arrives, even if kwirth or the whole cluster  *)
(* is stopped and restarted".  One that was answered is stored, or is in a   *)
(* write that is on its way.                                                 *)
PermanentIsStored ==
    \A i \in Ids \ Volatile : Live(i) =>
        \/ stored[i] = owed[i]
        \/ \E s \in Slots : req[s].pc = "writing" /\ list[s][i] = owed[i]

(* A deleted key is neither stored nor accepted, if it was a permanent one:   *)
(* a volatile one is still cached.                                           *)
DeletedIsGone == \A i \in dropped \ Volatile : stored[i] = NoKey /\ cache[i] = NoKey

(* Between requests every permanent key that was promised is accepted.       *)
CacheHasTheKeys ==
    (\A s \in Slots : req[s] = Idle) => \A i \in Ids \ Volatile : Live(i) => cache[i] = owed[i]

(* Whatever refreshes cross, a client that goes on showing a key it was      *)
(* given has it accepted.                                                    *)
KeyIsAccepted ==
    \A i \in Ids : i \notin Volatile /\ Live(i) ~> (verdict.id = i /\ verdict.valid) \/ ~ Live(i)

(* One request at a time, of a core that may die only where no key is handed *)
(* out before it is stored.                                                  *)
OneAtATime ==
    /\ \A s, t \in Admins \cup Users : s = t
    /\ Faults \subseteq {"crash"} /\ ("crash" \in Faults => Kinds \cap Logins = {})

(* One administrator, and any number of clients whose refreshes cross what   *)
(* the administrator does and wherever the core dies, of keys that have time.*)
OneWriter ==
    /\ \A s, t \in Admins : s = t
    /\ Kinds \cap Logins = {} /\ MaxTime = 1 /\ Faults \subseteq {"crash"}

(* ApiKeyApi.ts:37 and validKey: in both cases a permanent key that was      *)
(* answered is stored until it expires.                                      *)
NoKeyIsLost == OneAtATime \/ OneWriter => PermanentIsStored

(* ApiKeyApi.ts:162: a DELETE takes the key from the store and the cache.    *)
DeletedStaysGone == OneAtATime => DeletedIsGone

(* Every route leaves in the cache what it leaves in the store.              *)
CacheFollowsStore == OneAtATime => CacheHasTheKeys

(* AuthorizationManagement.ts:120: a client that insists has its key         *)
(* accepted, by the second try if not by the first.                          *)
InsistingIsEnough == OneWriter => KeyIsAccepted
=============================================================================
