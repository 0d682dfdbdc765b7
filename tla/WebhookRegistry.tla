-------------------------- MODULE WebhookRegistry --------------------------
(* The registry of the webhooks' callback URLs (back/src/tools/              *)
(* WebhookManager.ts and api/WebhookApi.ts): each configuration of a webhook *)
(* has a token, which is the only credential of its URL and routes what      *)
(* comes to it (tools/WebhookReceiver.ts).  The configurations and the       *)
(* tokens are stored apart, and nobody awaits those writes.                  *)
EXTENDS Naturals, Sequences, SequencesExt, Functions

CONSTANTS
    Hooks,     \* ids of webhooks
    Names,     \* names of configurations
    Tokens,    \* what randomBytes may give, in all: none comes twice
    Faults,    \* what may go wrong, a subset of RegistryFaults
    MaxWrites  \* bound on the writes of one ConfigMap in flight

(* "reorder": two writes land in either order; "lost": one is refused, which *)
(* is logged; "crash": the core dies with writes in flight.                  *)
RegistryFaults == {"reorder", "lost", "crash"}

ASSUME FaultsAssumption == Faults \subseteq RegistryFaults
ASSUME BoundAssumption == MaxWrites \in Nat

VARIABLES
    installed,      \* the webhooks whose code and index entry are stored
    registered,     \* registeredWebhooks
    uninstalling,   \* how far each DELETE got
    configStore,    \* the names of each webhook's configurations
    tokenByConfig,  \* the token of <<webhook, name>>
    configByToken,  \* and back
    storedConfigs, configWrites,  \* kwirth-webhook-configs, and its writes in flight
    storedTokens, tokenWrites,    \* kwirth-webhook-tokens, and its writes in flight
    minted,         \* every token there has been
    revoked,        \* those that were evicted
    order           \* of the writes of the tokens so far, see below

(* order is a history variable: "kept" while those writes land in their turn *)
(* and no core dies before the last of them; then "broken", and "loaded"     *)
(* once a core starts from what that left in the store.                      *)

memory == <<configStore, tokenByConfig, configByToken, minted, revoked>>
store == <<storedConfigs, configWrites, storedTokens, tokenWrites, order>>
vars == <<installed, registered, uninstalling, memory, store>>

Keys == Hooks \X Names
Empty == [k \in {} |-> {}]

Init ==
    /\ installed \in SUBSET Hooks /\ registered = installed
    /\ uninstalling = [h \in Hooks |-> "no"]
    /\ configStore = [h \in Hooks |-> {}]
    /\ tokenByConfig = Empty /\ configByToken = Empty
    /\ storedConfigs = configStore /\ configWrites = <<>>
    /\ storedTokens = Empty /\ tokenWrites = <<>>
    /\ minted = {} /\ revoked = {}
    /\ order = "kept"

-----------------------------------------------------------------------------
(* The tokens                                                                *)

Without(f, S) == [x \in DOMAIN f \ S |-> f[x]]

(* Bug: an evicted token only leaves one of the two maps.                    *)
RetokenHalf(evicted, ensured) ==
    LET kept == Without(tokenByConfig, evicted)
    IN  \E fresh \in Injection(ensured \ DOMAIN kept, Tokens \ minted) :
          /\ tokenByConfig' = [k \in DOMAIN kept \cup DOMAIN fresh |->
                                 IF k \in DOMAIN kept THEN kept[k] ELSE fresh[k]]
          /\ configByToken' = [t \in DOMAIN configByToken \cup Range(fresh) |->
                                 IF t \in Range(fresh)
                                   THEN CHOOSE k \in DOMAIN fresh : fresh[k] = t
                                   ELSE configByToken[t]]
          /\ minted' = minted \cup Range(fresh)
          /\ revoked' = revoked \cup {tokenByConfig[k] : k \in evicted \cap DOMAIN tokenByConfig}

(* evictToken of a set of configurations, then ensureToken of another.       *)
Retoken(evicted, ensured) ==
    LET gone == {tokenByConfig[k] : k \in evicted \cap DOMAIN tokenByConfig}
        kept == Without(tokenByConfig, evicted)
    IN  \E fresh \in Injection(ensured \ DOMAIN kept, Tokens \ minted) :
          /\ tokenByConfig' = [k \in DOMAIN kept \cup DOMAIN fresh |->
                                 IF k \in DOMAIN kept THEN kept[k] ELSE fresh[k]]
          /\ configByToken' = [t \in (DOMAIN configByToken \ gone) \cup Range(fresh) |->
                                 IF t \in Range(fresh)
                                   THEN CHOOSE k \in DOMAIN fresh : fresh[k] = t
                                   ELSE configByToken[t]]
          /\ minted' = minted \cup Range(fresh)
          /\ revoked' = revoked \cup gone

(* Bug: the other map is stored.                                             *)
PersistTokensBack ==
    /\ Len(tokenWrites) < MaxWrites
    /\ tokenWrites' = Append(tokenWrites, configByToken')

PersistTokens ==
    /\ Len(tokenWrites) < MaxWrites
    /\ tokenWrites' = Append(tokenWrites, tokenByConfig')

PersistConfigs(h, names) ==
    /\ Len(configWrites) < MaxWrites
    /\ configWrites' = Append(configWrites, [hook |-> h, names |-> names])

Pairs(h, names) == {h} \X names

-----------------------------------------------------------------------------
(* The configurations                                                        *)

(* POST /:id/configs, and each configuration of an import.                   *)
AddConfig(h, n) ==
    /\ h \in registered
    /\ configStore' = [configStore EXCEPT ![h] = @ \cup {n}]
    /\ Retoken({}, {<<h, n>>})
    /\ PersistConfigs(h, configStore'[h]) /\ PersistTokens
    /\ UNCHANGED <<installed, registered, uninstalling, storedConfigs, storedTokens, order>>

(* DELETE /:id/configs/:name                                                 *)
RemoveConfig(h, n) ==
    /\ h \in registered
    /\ configStore' = [configStore EXCEPT ![h] = @ \ {n}]
    /\ Retoken({<<h, n>>}, {})
    /\ PersistConfigs(h, configStore'[h]) /\ PersistTokens
    /\ UNCHANGED <<installed, registered, uninstalling, storedConfigs, storedTokens, order>>

(* PUT /:id/configs: every configuration is taken away, and those of the     *)
(* body are added, each with another token.                                  *)
SetConfigs(h, names) ==
    /\ h \in registered
    /\ configStore' = [configStore EXCEPT ![h] = names]
    /\ Retoken(Pairs(h, configStore[h]), Pairs(h, names))
    /\ PersistConfigs(h, names) /\ PersistTokens
    /\ UNCHANGED <<installed, registered, uninstalling, storedConfigs, storedTokens, order>>

(* POST /:id/configs/:name/rotate                                            *)
Rotate(h, n) ==
    /\ n \in configStore[h]
    /\ Retoken({<<h, n>>}, {<<h, n>>})
    /\ PersistTokens
    /\ UNCHANGED <<installed, registered, uninstalling, configStore,
                   storedConfigs, configWrites, storedTokens, order>>

-----------------------------------------------------------------------------
(* The webhooks                                                              *)

Install(h) ==
    /\ h \notin installed /\ uninstalling[h] = "no"
    /\ installed' = installed \cup {h} /\ registered' = registered \cup {h}
    /\ UNCHANGED <<uninstalling, memory, store>>

(* DELETE /:id, up to the first write.                                       *)
Unregister(h) ==
    /\ h \in installed /\ uninstalling[h] = "no"
    /\ registered' = registered \ {h}
    /\ uninstalling' = [uninstalling EXCEPT ![h] = "index"]
    /\ UNCHANGED <<installed, memory, store>>

(* The index and the code are gone: every configuration goes.                *)
Erase(h) ==
    /\ uninstalling[h] = "index"
    /\ uninstalling' = [uninstalling EXCEPT ![h] = "configs"]
    /\ installed' = installed \ {h}
    /\ configStore' = [configStore EXCEPT ![h] = {}]
    /\ Retoken(Pairs(h, configStore[h]), {})
    /\ PersistConfigs(h, {})
    /\ UNCHANGED <<registered, storedConfigs, storedTokens, tokenWrites, order>>

(* The write of the configurations, the only one awaited, has ended.         *)
Uninstalled(h) ==
    /\ uninstalling[h] = "configs"
    /\ \A w \in Range(configWrites) : w.hook # h
    /\ uninstalling' = [uninstalling EXCEPT ![h] = "no"]
    /\ UNCHANGED <<installed, registered, memory, storedConfigs, configWrites, storedTokens, order>>
    /\ PersistTokens

-----------------------------------------------------------------------------
(* The store                                                                 *)

MayLand(k) == k = 1 \/ "reorder" \in Faults

LandTokens ==
    /\ \E k \in 1..Len(tokenWrites) :
         /\ MayLand(k)
         /\ storedTokens' \in {tokenWrites[k]} \cup
                              (IF "lost" \in Faults THEN {storedTokens} ELSE {})
         /\ tokenWrites' = RemoveAt(tokenWrites, k)
         /\ order' = IF order = "kept" /\ (k # 1 \/ storedTokens' # tokenWrites[k])
                       THEN "broken" ELSE order
    /\ UNCHANGED <<installed, registered, uninstalling, memory, storedConfigs, configWrites>>

LandConfigs ==
    /\ \E k \in 1..Len(configWrites) :
         /\ MayLand(k)
         /\ LET w == configWrites[k]
            IN  storedConfigs' \in {[storedConfigs EXCEPT ![w.hook] = w.names]} \cup
                                   (IF "lost" \in Faults THEN {storedConfigs} ELSE {})
         /\ configWrites' = RemoveAt(configWrites, k)
    /\ UNCHANGED <<installed, registered, uninstalling, memory, storedTokens, tokenWrites, order>>

Idle == tokenWrites = <<>> /\ configWrites = <<>> /\ uninstalling = [h \in Hooks |-> "no"]

Landed == tokenWrites = <<>> /\ \A h \in Hooks : uninstalling[h] # "configs"
StartsFrom == IF order = "kept" /\ Landed THEN "kept" ELSE "loaded"

(* configByToken as loadPersistedConfigs builds it.                          *)
LoadedKeys(tokens) == [t \in Range(tokens) |-> CHOOSE k \in DOMAIN tokens : tokens[k] = t]

(* Bug: a configuration whose token was not stored is left without one.      *)
RestartAsStored ==
    /\ Idle \/ "crash" \in Faults
    /\ registered' = installed /\ uninstalling' = [h \in Hooks |-> "no"]
    /\ configStore' = [h \in Hooks |-> IF h \in installed THEN storedConfigs[h] ELSE {}]
    /\ tokenByConfig' = storedTokens /\ configByToken' = LoadedKeys(storedTokens)
    /\ tokenWrites' = <<>> /\ configWrites' = <<>> /\ order' = StartsFrom
    /\ UNCHANGED <<installed, storedConfigs, storedTokens, minted, revoked>>

(* Another core starts: loadAll, and loadPersistedConfigs, which gives a     *)
(* token to a configuration that has none.                                   *)
Restart ==
    /\ Idle \/ "crash" \in Faults
    /\ registered' = installed /\ uninstalling' = [h \in Hooks |-> "no"]
    /\ configStore' = [h \in Hooks |-> IF h \in installed THEN storedConfigs[h] ELSE {}]
    /\ LET missing == {k \in Keys : k[2] \in configStore'[k[1]]} \ DOMAIN storedTokens
       IN  \E fresh \in Injection(missing, Tokens \ minted) :
             /\ tokenByConfig' = [k \in DOMAIN storedTokens \cup missing |->
                                    IF k \in missing THEN fresh[k] ELSE storedTokens[k]]
             /\ minted' = minted \cup Range(fresh)
    /\ configByToken' = LoadedKeys(tokenByConfig')
    /\ tokenWrites' = <<>> /\ configWrites' = <<>> /\ order' = StartsFrom
    /\ UNCHANGED <<installed, storedConfigs, storedTokens, revoked>>

Next ==
    \/ \E h \in Hooks, n \in Names : AddConfig(h, n) \/ RemoveConfig(h, n) \/ Rotate(h, n)
    \/ \E h \in Hooks, names \in SUBSET Names : SetConfigs(h, names)
    \/ \E h \in Hooks : Install(h) \/ Unregister(h) \/ Erase(h) \/ Uninstalled(h)
    \/ LandTokens \/ LandConfigs
    \/ Restart

Spec == Init /\ [][Next]_vars

-----------------------------------------------------------------------------

Partial(S, T) == UNION {[D -> T] : D \in SUBSET S}

(* The types of the maps, of the store and of what is on its way to it.      *)
TypeOK ==
    /\ installed \subseteq Hooks /\ registered \subseteq Hooks
    /\ uninstalling \in [Hooks -> {"no", "index", "configs"}]
    /\ configStore \in [Hooks -> SUBSET Names] /\ storedConfigs \in [Hooks -> SUBSET Names]
    /\ configWrites \in Seq([hook : Hooks, names : SUBSET Names])
    /\ minted \subseteq Tokens /\ revoked \subseteq minted
    /\ tokenByConfig \in Partial(Keys, minted) /\ configByToken \in Partial(minted, Keys)
    /\ storedTokens \in Partial(Keys, minted) /\ tokenWrites \in Seq(Partial(Keys, minted))
    /\ order \in {"kept", "broken", "loaded"}

(* WebhookManager.resolve: what a callback is delivered for.                 *)
Resolves(t, h, n) ==
    t \in DOMAIN configByToken /\ configByToken[t] = <<h, n>> /\ n \in configStore[h]

(* The URL an administrator is shown for a configuration (getUrl, which goes *)
(* by one map) brings its callbacks to that configuration (resolve, by the   *)
(* other), whatever was edited, uninstalled, lost or loaded before.          *)
EveryConfigIsReached ==
    \A h \in Hooks : \A n \in configStore[h] :
        <<h, n>> \in DOMAIN tokenByConfig /\ Resolves(tokenByConfig[<<h, n>>], h, n)

(* WebhookApi.ts:178, of rotate: "it invalidates the previous one configured *)
(* in the provider".  A token that was rotated, or whose configuration was   *)
(* edited, removed or uninstalled, is not accepted again for anything, not   *)
(* even by another core, unless that core started from a store in which the  *)
(* writes of the tokens did not land in their order.                         *)
RevokedStaysDead ==
    order # "loaded" => \A t \in revoked, h \in Hooks, n \in Names : ~ Resolves(t, h, n)
=============================================================================
