----------------------- MODULE WebhookRegistryProofs -----------------------
(* The two maps of the registry are inverse of each other and cover the      *)
(* configurations, whatever happens to what is stored: so every URL that is  *)
(* shown works.  When the writes land in their order, the last one has what  *)
(* is in memory: so no core ever accepts a token that was evicted.           *)
EXTENDS WebhookRegistry, SequenceTheorems, TLAPS

Mirrored(f, g) ==
    /\ \A k \in DOMAIN f : f[k] \in DOMAIN g /\ g[f[k]] = k
    /\ \A t \in DOMAIN g : g[t] \in DOMAIN f /\ f[g[t]] = t

Tokened == tokenByConfig \in Partial(Keys, minted) /\ configByToken \in Partial(minted, Keys)

Maps ==
    /\ minted \subseteq Tokens /\ revoked \subseteq minted
    /\ Tokened
    /\ Mirrored(tokenByConfig, configByToken)

(* Every snapshot of the tokens was a map of the registry.                   *)
Snapshots ==
    /\ storedTokens \in Partial(Keys, minted) /\ IsInjective(storedTokens)
    /\ tokenWrites \in Seq(Partial(Keys, minted))
    /\ \A k \in 1..Len(tokenWrites) : IsInjective(tokenWrites[k])

Configs ==
    /\ installed \subseteq Hooks /\ registered \subseteq Hooks
    /\ uninstalling \in [Hooks -> {"no", "index", "configs"}]
    /\ configStore \in [Hooks -> SUBSET Names] /\ storedConfigs \in [Hooks -> SUBSET Names]
    /\ configWrites \in Seq([hook : Hooks, names : SUBSET Names])

Covered == \A h \in Hooks : Pairs(h, configStore[h]) \subseteq DOMAIN tokenByConfig

Recorded == order \in {"kept", "broken", "loaded"}

RegistryInv == Maps /\ Snapshots /\ Configs /\ Covered

-----------------------------------------------------------------------------
(* Partial functions and sequences                                           *)

LEMMA PartialDef ==
    ASSUME NEW S, NEW T, NEW f
    PROVE  f \in Partial(S, T) <=> DOMAIN f \subseteq S /\ f \in [DOMAIN f -> T]
BY DEF Partial

LEMMA PartialGrows ==
    ASSUME NEW S, NEW T, NEW U, T \subseteq U
    PROVE  Partial(S, T) \subseteq Partial(S, U) /\ Seq(Partial(S, T)) \subseteq Seq(Partial(S, U))
<1>1. Partial(S, T) \subseteq Partial(S, U)
  BY DEF Partial
<1> QED  BY <1>1

LEMMA InverseIsInjective ==
    ASSUME NEW f, NEW g, Mirrored(f, g)
    PROVE  IsInjective(f)
BY DEF Mirrored, IsInjective

LEMMA RemovedAt ==
    ASSUME NEW T, NEW s \in Seq(T), NEW k \in 1..Len(s)
    PROVE  /\ RemoveAt(s, k) \in Seq(T) /\ Len(RemoveAt(s, k)) = Len(s) - 1
           /\ \A n \in 1..Len(s) - 1 : RemoveAt(s, k)[n] = IF n < k THEN s[n] ELSE s[n + 1]
<1>1. SubSeq(s, 1, k - 1) \in Seq(T) /\ Len(SubSeq(s, 1, k - 1)) = k - 1
      /\ \A n \in 1..k - 1 : SubSeq(s, 1, k - 1)[n] = s[n]
  OBVIOUS
<1>2. SubSeq(s, k + 1, Len(s)) \in Seq(T) /\ Len(SubSeq(s, k + 1, Len(s))) = Len(s) - k
      /\ \A n \in 1..Len(s) - k : SubSeq(s, k + 1, Len(s))[n] = s[n + k]
  OBVIOUS
<1> DEFINE a == SubSeq(s, 1, k - 1)
           b == SubSeq(s, k + 1, Len(s))
<1>3. RemoveAt(s, k) = a \o b
  BY DEF RemoveAt
<1>4. a \in Seq(T) /\ Len(a) = k - 1 /\ \A n \in 1..k - 1 : a[n] = s[n]
  BY <1>1
<1>5. b \in Seq(T) /\ Len(b) = Len(s) - k /\ \A n \in 1..Len(s) - k : b[n] = s[n + k]
  BY <1>2
<1> HIDE DEF a, b
<1>6. Len(s) \in Nat /\ k \in Nat /\ k >= 1 /\ k <= Len(s)
  OBVIOUS
<1>7. /\ a \o b \in Seq(T) /\ Len(a \o b) = Len(a) + Len(b)
      /\ \A n \in 1..Len(a) + Len(b) : (a \o b)[n] = IF n <= Len(a) THEN a[n] ELSE b[n - Len(a)]
  BY <1>4, <1>5, ConcatProperties
<1>8. Len(a) + Len(b) = Len(s) - 1
  BY <1>4, <1>5, <1>6
<1>9. ASSUME NEW n \in 1..Len(s) - 1
      PROVE  (a \o b)[n] = IF n < k THEN s[n] ELSE s[n + 1]
  <2>1. CASE n < k
    BY <1>4, <1>6, <1>7, <1>8, <2>1
  <2>2. CASE n >= k
    <3>1. (a \o b)[n] = b[n - (k - 1)] /\ n - (k - 1) \in 1..Len(s) - k
      BY <1>4, <1>6, <1>7, <1>8, <2>2
    <3>2. b[n - (k - 1)] = s[n - (k - 1) + k] /\ n - (k - 1) + k = n + 1
      BY <1>5, <1>6, <3>1
    <3> QED  BY <2>2, <3>1, <3>2
  <2>3. n < k \/ n >= k
    BY <1>6
  <2> QED  BY <2>1, <2>2, <2>3
<1> QED  BY <1>3, <1>7, <1>8, <1>9

-----------------------------------------------------------------------------
(* The maps                                                                  *)

(* A change of the tokens keeps the maps inverse, covers what it was asked   *)
(* to and evicts the rest of what it was given.                              *)
LEMMA RetokenKeeps ==
    ASSUME Maps, NEW evicted \in SUBSET Keys, NEW ensured \in SUBSET Keys,
           Retoken(evicted, ensured)
    PROVE  /\ Maps' /\ minted \subseteq minted' /\ revoked' \subseteq minted
           /\ DOMAIN tokenByConfig' = (DOMAIN tokenByConfig \ evicted) \cup ensured
           /\ \A t \in DOMAIN configByToken' :
                t \notin minted \/ (t \in DOMAIN configByToken /\ t \notin revoked' \ revoked)
<1> DEFINE gone == {tokenByConfig[k] : k \in evicted \cap DOMAIN tokenByConfig}
           kept == Without(tokenByConfig, evicted)
           missing == ensured \ DOMAIN kept
<1>1. PICK fresh \in Injection(missing, Tokens \ minted) :
        /\ tokenByConfig' = [k \in DOMAIN kept \cup DOMAIN fresh |->
                               IF k \in DOMAIN kept THEN kept[k] ELSE fresh[k]]
        /\ configByToken' = [t \in (DOMAIN configByToken \ gone) \cup Range(fresh) |->
                               IF t \in Range(fresh)
                                 THEN CHOOSE k \in DOMAIN fresh : fresh[k] = t
                                 ELSE configByToken[t]]
        /\ minted' = minted \cup Range(fresh)
        /\ revoked' = revoked \cup gone
  BY DEF Retoken
<1>2. DOMAIN tokenByConfig \subseteq Keys /\ tokenByConfig \in [DOMAIN tokenByConfig -> minted]
      /\ DOMAIN configByToken \subseteq minted /\ configByToken \in [DOMAIN configByToken -> Keys]
  BY PartialDef DEF Maps, Tokened
<1>3. fresh \in [missing -> Tokens \ minted] /\ IsInjective(fresh) /\ DOMAIN fresh = missing
  BY <1>1 DEF Injection
<1>4. /\ DOMAIN kept = DOMAIN tokenByConfig \ evicted
      /\ \A k \in DOMAIN kept : kept[k] = tokenByConfig[k]
  BY DEF Without
<1>5. Range(fresh) \subseteq Tokens \ minted /\ \A t \in Range(fresh) : \E k \in missing : fresh[k] = t
  BY <1>3 DEF Range
<1>6. \A k \in missing : fresh[k] \in Range(fresh) /\ (CHOOSE j \in DOMAIN fresh : fresh[j] = fresh[k]) = k
  BY <1>3 DEF Range, IsInjective
<1> DEFINE back == [t \in Range(fresh) |-> CHOOSE k \in DOMAIN fresh : fresh[k] = t]
<1>7. \A t \in Range(fresh) : back[t] \in missing /\ fresh[back[t]] = t
  BY <1>3, <1>5
<1>8. DOMAIN tokenByConfig' = (DOMAIN tokenByConfig \ evicted) \cup ensured
  BY <1>1, <1>3, <1>4
<1>9. /\ \A k \in DOMAIN kept : tokenByConfig'[k] = tokenByConfig[k] /\ tokenByConfig'[k] \in minted
      /\ \A k \in missing : tokenByConfig'[k] = fresh[k] /\ k \notin DOMAIN kept
  BY <1>1, <1>2, <1>3, <1>4
<1>10. /\ DOMAIN configByToken' = (DOMAIN configByToken \ gone) \cup Range(fresh)
       /\ \A t \in Range(fresh) : configByToken'[t] = back[t] /\ t \notin DOMAIN configByToken
       /\ \A t \in DOMAIN configByToken \ gone : configByToken'[t] = configByToken[t]
  BY <1>1, <1>2, <1>5
<1>11. Tokened'
  <2>1. DOMAIN tokenByConfig' \subseteq Keys
    BY <1>2, <1>8
  <2>2. \A k \in DOMAIN tokenByConfig' : tokenByConfig'[k] \in minted'
    BY <1>1, <1>3, <1>4, <1>6, <1>8, <1>9
  <2>3. tokenByConfig' \in [DOMAIN tokenByConfig' -> minted']
    BY <1>1, <2>2
  <2>4. DOMAIN configByToken' \subseteq minted'
    BY <1>1, <1>2, <1>10
  <2>5. \A t \in DOMAIN configByToken' : configByToken'[t] \in Keys
    BY <1>2, <1>7, <1>10
  <2>6. configByToken' \in [DOMAIN configByToken' -> Keys]
    BY <1>1, <2>5
  <2> QED  BY <2>1, <2>3, <2>4, <2>6, PartialDef DEF Tokened
<1>12. Mirrored(tokenByConfig', configByToken')
  <2>1. ASSUME NEW k \in DOMAIN kept
        PROVE  tokenByConfig'[k] \in DOMAIN configByToken' /\ configByToken'[tokenByConfig'[k]] = k
    <3>1. tokenByConfig[k] \in DOMAIN configByToken /\ configByToken[tokenByConfig[k]] = k
      BY <1>4 DEF Maps, Mirrored
    <3>2. tokenByConfig[k] \notin gone
      BY <1>4, <3>1 DEF Maps, Mirrored
    <3> QED  BY <1>9, <1>10, <3>1, <3>2
  <2>2. ASSUME NEW k \in missing
        PROVE  tokenByConfig'[k] \in DOMAIN configByToken' /\ configByToken'[tokenByConfig'[k]] = k
    <3>1. fresh[k] \in Range(fresh) /\ back[fresh[k]] = k
      BY <1>6
    <3>2. tokenByConfig'[k] = fresh[k]
      BY <1>9
    <3> HIDE DEF back, missing
    <3> QED  BY <1>10, <3>1, <3>2
  <2>3. ASSUME NEW t \in Range(fresh)
        PROVE  configByToken'[t] \in DOMAIN tokenByConfig' /\ tokenByConfig'[configByToken'[t]] = t
    BY <1>3, <1>4, <1>7, <1>8, <1>9, <1>10
  <2>4. ASSUME NEW t \in DOMAIN configByToken \ gone
        PROVE  configByToken'[t] \in DOMAIN tokenByConfig' /\ tokenByConfig'[configByToken'[t]] = t
    <3>1. configByToken[t] \in DOMAIN tokenByConfig /\ tokenByConfig[configByToken[t]] = t
      BY DEF Maps, Mirrored
    <3>2. configByToken[t] \in DOMAIN kept
      BY <1>4, <3>1
    <3> QED  BY <1>8, <1>9, <1>10, <1>4, <3>1, <3>2
  <2>5. DOMAIN tokenByConfig' = DOMAIN kept \cup missing
    BY <1>4, <1>8
  <2> QED  BY <1>10, <2>1, <2>2, <2>3, <2>4, <2>5 DEF Mirrored
<1>13. minted' \subseteq Tokens /\ revoked' \subseteq minted /\ minted \subseteq minted'
  BY <1>1, <1>2, <1>5 DEF Maps
<1>14. \A t \in DOMAIN configByToken' :
         t \notin minted \/ (t \in DOMAIN configByToken /\ t \notin revoked' \ revoked)
  BY <1>1, <1>5, <1>10
<1> QED  BY <1>1, <1>8, <1>11, <1>12, <1>13, <1>14 DEF Maps

(* What is stored or on its way to it stays a snapshot.                      *)
LEMMA SnapshotsKept ==
    ASSUME Snapshots, Maps', minted \subseteq minted',
           UNCHANGED storedTokens, PersistTokens \/ UNCHANGED tokenWrites
    PROVE  Snapshots'
<1>1. storedTokens' \in Partial(Keys, minted') /\ tokenWrites \in Seq(Partial(Keys, minted'))
  BY PartialGrows DEF Snapshots
<1>2. tokenByConfig' \in Partial(Keys, minted') /\ IsInjective(tokenByConfig')
  BY InverseIsInjective DEF Maps, Tokened
<1>3. CASE PersistTokens
  BY <1>1, <1>2, <1>3 DEF PersistTokens, Snapshots
<1>4. CASE UNCHANGED tokenWrites
  BY <1>1, <1>4 DEF Snapshots
<1> QED  BY <1>3, <1>4

(* The maps do not depend on the webhooks and their configurations.          *)
LEMMA MemoryKept ==
    ASSUME Maps, Covered, UNCHANGED memory
    PROVE  Maps' /\ Covered' /\ minted \subseteq minted'
BY DEF Maps, Tokened, Covered, Pairs, memory

(* The configurations of a webhook change, and their tokens with them.       *)
LEMMA RetokenCovers ==
    ASSUME Maps, Covered, Configs, NEW h \in Hooks, NEW names \in SUBSET Names,
           NEW evicted \in SUBSET Keys, NEW ensured \in SUBSET Keys,
           configStore' = [configStore EXCEPT ![h] = names],
           Retoken(evicted, ensured),
           evicted \subseteq Pairs(h, Names),
           Pairs(h, names) \subseteq (Pairs(h, configStore[h]) \ evicted) \cup ensured
    PROVE  Covered'
<1>1. DOMAIN tokenByConfig' = (DOMAIN tokenByConfig \ evicted) \cup ensured
  BY RetokenKeeps
<1>2. ASSUME NEW g \in Hooks, g # h
      PROVE  Pairs(g, configStore'[g]) \subseteq DOMAIN tokenByConfig'
  BY <1>1, <1>2 DEF Covered, Configs, Pairs
<1>3. Pairs(h, configStore'[h]) \subseteq DOMAIN tokenByConfig'
  BY <1>1 DEF Covered, Configs
<1> QED  BY <1>2, <1>3 DEF Covered

-----------------------------------------------------------------------------
(* The invariant                                                             *)

LEMMA RegistryInit == Init => RegistryInv
<1> SUFFICES ASSUME Init PROVE RegistryInv
  OBVIOUS
<1>1. Empty \in Partial(Keys, minted) /\ Empty \in Partial(minted, Keys)
      /\ IsInjective(Empty) /\ Mirrored(Empty, Empty)
  BY DEF Empty, Partial, IsInjective, Mirrored
<1>2. Maps /\ Snapshots /\ Covered
  BY <1>1 DEF Init, Maps, Tokened, Snapshots, Covered, Pairs
<1>3. Configs
  BY DEF Init, Configs
<1> QED  BY <1>2, <1>3 DEF RegistryInv

LEMMA ConfigsPersisted ==
    ASSUME Configs, NEW h \in Hooks, NEW names \in SUBSET Names, PersistConfigs(h, names)
    PROVE  configWrites' \in Seq([hook : Hooks, names : SUBSET Names])
BY DEF Configs, PersistConfigs

(* Every step of a request about configurations.                             *)
LEMMA RegistryConfigs ==
    ASSUME RegistryInv, NEW h \in Hooks,
           \/ \E n \in Names : AddConfig(h, n) \/ RemoveConfig(h, n) \/ Rotate(h, n)
           \/ \E names \in SUBSET Names : SetConfigs(h, names)
           \/ Erase(h)
    PROVE  RegistryInv'
<1>0. Maps /\ Snapshots /\ Configs /\ Covered
  BY DEF RegistryInv
<1>1. ASSUME NEW n \in Names, AddConfig(h, n)
      PROVE  RegistryInv'
  <2>1. {} \in SUBSET Keys /\ {<<h, n>>} \in SUBSET Keys
    BY DEF Keys
  <2>2. Maps' /\ minted \subseteq minted'
    BY <1>0, <1>1, <2>1, RetokenKeeps DEF AddConfig
  <2>3. Snapshots'
    BY <1>0, <1>1, <2>2, SnapshotsKept DEF AddConfig
  <2>4. configStore[h] \cup {n} \in SUBSET Names
    BY <1>0 DEF Configs
  <2>5. Covered'
    <3>1. Pairs(h, configStore[h] \cup {n}) \subseteq (Pairs(h, configStore[h]) \ {}) \cup {<<h, n>>}
      BY DEF Pairs
    <3> QED  BY <1>0, <1>1, <2>1, <2>4, <3>1, RetokenCovers DEF AddConfig
  <2>6. configStore' \in [Hooks -> SUBSET Names] /\ configStore'[h] \in SUBSET Names
    BY <1>0, <1>1, <2>4 DEF Configs, AddConfig
  <2>7. Configs'
    BY <1>0, <1>1, <2>6, ConfigsPersisted DEF Configs, AddConfig
  <2> QED  BY <2>2, <2>3, <2>5, <2>7 DEF RegistryInv
<1>2. ASSUME NEW n \in Names, RemoveConfig(h, n)
      PROVE  RegistryInv'
  <2>1. {} \in SUBSET Keys /\ {<<h, n>>} \in SUBSET Keys
    BY DEF Keys
  <2>2. Maps' /\ minted \subseteq minted'
    BY <1>0, <1>2, <2>1, RetokenKeeps DEF RemoveConfig
  <2>3. Snapshots'
    BY <1>0, <1>2, <2>2, SnapshotsKept DEF RemoveConfig
  <2>4. configStore[h] \ {n} \in SUBSET Names
    BY <1>0 DEF Configs
  <2>5. Covered'
    <3>1. Pairs(h, configStore[h] \ {n}) \subseteq (Pairs(h, configStore[h]) \ {<<h, n>>}) \cup {}
      BY DEF Pairs
    <3>2. {<<h, n>>} \subseteq Pairs(h, Names)
      BY DEF Pairs
    <3> QED  BY <1>0, <1>2, <2>1, <2>4, <3>1, <3>2, RetokenCovers DEF RemoveConfig
  <2>6. configStore' \in [Hooks -> SUBSET Names] /\ configStore'[h] \in SUBSET Names
    BY <1>0, <1>2, <2>4 DEF Configs, RemoveConfig
  <2>7. Configs'
    BY <1>0, <1>2, <2>6, ConfigsPersisted DEF Configs, RemoveConfig
  <2> QED  BY <2>2, <2>3, <2>5, <2>7 DEF RegistryInv
<1>3. ASSUME NEW n \in Names, Rotate(h, n)
      PROVE  RegistryInv'
  <2>1. {<<h, n>>} \in SUBSET Keys
    BY DEF Keys
  <2>2. Maps' /\ minted \subseteq minted'
        /\ DOMAIN tokenByConfig' = (DOMAIN tokenByConfig \ {<<h, n>>}) \cup {<<h, n>>}
    BY <1>0, <1>3, <2>1, RetokenKeeps DEF Rotate
  <2>3. Snapshots'
    BY <1>0, <1>3, <2>2, SnapshotsKept DEF Rotate
  <2>4. Covered'
    BY <1>0, <1>3, <2>2 DEF Covered, Pairs, Rotate
  <2>5. Configs'
    BY <1>0, <1>3 DEF Configs, Rotate
  <2> QED  BY <2>2, <2>3, <2>4, <2>5 DEF RegistryInv
<1>4. ASSUME NEW names \in SUBSET Names, SetConfigs(h, names)
      PROVE  RegistryInv'
  <2>1. configStore[h] \in SUBSET Names
    BY <1>0 DEF Configs
  <2>2. Pairs(h, configStore[h]) \in SUBSET Keys /\ Pairs(h, names) \in SUBSET Keys
        /\ Pairs(h, configStore[h]) \subseteq Pairs(h, Names)
    BY <2>1 DEF Keys, Pairs
  <2>3. Maps' /\ minted \subseteq minted'
    BY <1>0, <1>4, <2>2, RetokenKeeps DEF SetConfigs
  <2>4. Snapshots'
    BY <1>0, <1>4, <2>3, SnapshotsKept DEF SetConfigs
  <2>5. Covered'
    BY <1>0, <1>4, <2>2, RetokenCovers DEF SetConfigs
  <2>6. Configs'
    BY <1>0, <1>4, ConfigsPersisted DEF Configs, SetConfigs
  <2> QED  BY <2>3, <2>4, <2>5, <2>6 DEF RegistryInv
<1>5. CASE Erase(h)
  <2>1. configStore[h] \in SUBSET Names
    BY <1>0 DEF Configs
  <2>2. Pairs(h, configStore[h]) \in SUBSET Keys /\ {} \in SUBSET Keys
        /\ Pairs(h, configStore[h]) \subseteq Pairs(h, Names) /\ Pairs(h, {}) = {}
    BY <2>1 DEF Keys, Pairs
  <2>3. Maps' /\ minted \subseteq minted'
    BY <1>0, <1>5, <2>2, RetokenKeeps DEF Erase
  <2>4. Snapshots'
    BY <1>0, <1>5, <2>3, SnapshotsKept DEF Erase
  <2>5. Covered'
    BY <1>0, <1>5, <2>2, RetokenCovers DEF Erase
  <2>6. Configs'
    BY <1>0, <1>5, ConfigsPersisted DEF Configs, Erase
  <2> QED  BY <2>3, <2>4, <2>5, <2>6 DEF RegistryInv
<1> QED  BY <1>1, <1>2, <1>3, <1>4, <1>5

(* Every other step, but a restart.                                          *)
LEMMA RegistryOther ==
    ASSUME RegistryInv,
           \/ \E h \in Hooks : Install(h) \/ Unregister(h) \/ Uninstalled(h)
           \/ LandTokens \/ LandConfigs \/ UNCHANGED vars
    PROVE  RegistryInv'
<1>0. Maps /\ Snapshots /\ Configs /\ Covered
  BY DEF RegistryInv
<1>1. UNCHANGED memory
  BY DEF Install, Unregister, Uninstalled, LandTokens, LandConfigs, vars
<1>2. Maps' /\ Covered' /\ minted \subseteq minted' /\ minted' = minted
  BY <1>0, <1>1, MemoryKept DEF memory
<1>3. ASSUME NEW h \in Hooks, Install(h) \/ Unregister(h)
      PROVE  Snapshots' /\ Configs'
  BY <1>0, <1>2, <1>3, SnapshotsKept DEF Install, Unregister, Configs, store, memory
<1>4. ASSUME NEW h \in Hooks, Uninstalled(h)
      PROVE  Snapshots' /\ Configs'
  BY <1>0, <1>2, <1>4, SnapshotsKept DEF Uninstalled, Configs, memory
<1>5. CASE LandTokens
  <2>1. Configs'
    BY <1>0, <1>5 DEF LandTokens, Configs, memory
  <2>2. PICK k \in 1..Len(tokenWrites) :
          /\ storedTokens' \in {tokenWrites[k], storedTokens}
          /\ tokenWrites' = RemoveAt(tokenWrites, k)
    BY <1>5 DEF LandTokens
  <2>3. storedTokens' \in Partial(Keys, minted) /\ IsInjective(storedTokens')
    BY <1>0, <2>2 DEF Snapshots
  <2>4. /\ tokenWrites' \in Seq(Partial(Keys, minted)) /\ Len(tokenWrites') = Len(tokenWrites) - 1
        /\ \A n \in 1..Len(tokenWrites) - 1 :
             tokenWrites'[n] = IF n < k THEN tokenWrites[n] ELSE tokenWrites[n + 1]
    BY <1>0, <2>2, RemovedAt DEF Snapshots
  <2>5. Len(tokenWrites) \in Nat
    BY <1>0 DEF Snapshots
  <2>6. \A n \in 1..Len(tokenWrites') : IsInjective(tokenWrites'[n])
    BY <1>0, <2>4, <2>5 DEF Snapshots
  <2>7. storedTokens' \in Partial(Keys, minted') /\ tokenWrites' \in Seq(Partial(Keys, minted'))
    BY <1>2, <2>3, <2>4
  <2>8. Snapshots'
    BY <2>3, <2>6, <2>7 DEF Snapshots
  <2> QED  BY <1>2, <2>1, <2>8 DEF RegistryInv
<1>6. CASE LandConfigs
  <2>1. Snapshots'
    BY <1>0, <1>2, <1>6, SnapshotsKept DEF LandConfigs
  <2>2. PICK k \in 1..Len(configWrites) :
          /\ storedConfigs' \in {[storedConfigs EXCEPT ![configWrites[k].hook] = configWrites[k].names],
                                 storedConfigs}
          /\ configWrites' = RemoveAt(configWrites, k)
    BY <1>6 DEF LandConfigs
  <2>3. configWrites[k] \in [hook : Hooks, names : SUBSET Names]
    <3>1. configWrites \in Seq([hook : Hooks, names : SUBSET Names])
      BY <1>0 DEF Configs
    <3> QED  BY <2>2, <3>1, ElementOfSeq
  <2>4. storedConfigs' \in [Hooks -> SUBSET Names]
    <3>1. configWrites[k].hook \in Hooks /\ configWrites[k].names \in SUBSET Names
      BY <2>3
    <3>2. storedConfigs \in [Hooks -> SUBSET Names]
      BY <1>0 DEF Configs
    <3> QED  BY <2>2, <3>1, <3>2
  <2>5. configWrites' \in Seq([hook : Hooks, names : SUBSET Names])
    BY <1>0, <2>2, RemovedAt DEF Configs
  <2>6. /\ installed' = installed /\ registered' = registered
        /\ uninstalling' = uninstalling /\ configStore' = configStore
    BY <1>6 DEF LandConfigs, memory
  <2>7. Configs'
    BY <1>0, <2>4, <2>5, <2>6 DEF Configs
  <2> QED  BY <1>2, <2>1, <2>7 DEF RegistryInv
<1>7. CASE UNCHANGED vars
  <2>1. /\ installed' = installed /\ registered' = registered /\ uninstalling' = uninstalling
        /\ configStore' = configStore /\ storedConfigs' = storedConfigs
        /\ configWrites' = configWrites /\ UNCHANGED <<storedTokens, tokenWrites>>
    BY <1>7 DEF vars, memory, store
  <2>2. Snapshots'
    BY <1>0, <1>2, <2>1, SnapshotsKept
  <2>3. Configs'
    BY <1>0, <2>1 DEF Configs
  <2> QED  BY <1>2, <2>2, <2>3 DEF RegistryInv
<1> QED  BY <1>2, <1>3, <1>4, <1>5, <1>6, <1>7 DEF RegistryInv

(* Whatever was stored, what is loaded from it is a map with its inverse.    *)
LEMMA RegistryRestart ==
    ASSUME RegistryInv, Restart
    PROVE  RegistryInv'
<1>0. Maps /\ Snapshots /\ Configs /\ Covered
  BY DEF RegistryInv
<1> DEFINE missing == {k \in Keys : k[2] \in configStore'[k[1]]} \ DOMAIN storedTokens
<1>1. Configs'
  BY <1>0 DEF Restart, Configs
<1>2. PICK fresh \in Injection(missing, Tokens \ minted) :
        /\ tokenByConfig' = [k \in DOMAIN storedTokens \cup missing |->
                               IF k \in missing THEN fresh[k] ELSE storedTokens[k]]
        /\ minted' = minted \cup Range(fresh)
  BY DEF Restart
<1>3. fresh \in [missing -> Tokens \ minted] /\ IsInjective(fresh) /\ Range(fresh) \subseteq Tokens
      /\ \A k \in missing : fresh[k] \in Range(fresh)
  BY <1>2 DEF Injection, Range
<1>4. DOMAIN storedTokens \subseteq Keys /\ storedTokens \in [DOMAIN storedTokens -> minted]
      /\ IsInjective(storedTokens)
  BY <1>0, PartialDef DEF Snapshots
<1>5. missing \subseteq Keys
  BY <1>1 DEF Configs, Pairs, Keys
<1>6. /\ DOMAIN tokenByConfig' = DOMAIN storedTokens \cup missing
      /\ \A k \in DOMAIN storedTokens : tokenByConfig'[k] = storedTokens[k] /\ tokenByConfig'[k] \in minted
      /\ \A k \in missing : tokenByConfig'[k] = fresh[k] /\ tokenByConfig'[k] \in Range(fresh)
                            /\ tokenByConfig'[k] \notin minted
  BY <1>2, <1>3, <1>4
<1>7. IsInjective(tokenByConfig')
  <2> SUFFICES ASSUME NEW a \in DOMAIN tokenByConfig', NEW b \in DOMAIN tokenByConfig',
                      tokenByConfig'[a] = tokenByConfig'[b]
               PROVE  a = b
    BY DEF IsInjective
  <2>1. CASE a \in missing /\ b \in missing
    BY <1>3, <1>6, <2>1 DEF IsInjective
  <2>2. CASE a \in DOMAIN storedTokens /\ b \in DOMAIN storedTokens
    BY <1>4, <1>6, <2>2 DEF IsInjective
  <2> QED  BY <1>6, <2>1, <2>2
<1>8. /\ configByToken' = [t \in Range(tokenByConfig') |-> CHOOSE k \in DOMAIN tokenByConfig' : tokenByConfig'[k] = t]
  BY DEF Restart, LoadedKeys
<1>9. \A k \in DOMAIN tokenByConfig' :
        tokenByConfig'[k] \in Range(tokenByConfig') /\ tokenByConfig'[k] \in minted'
  BY <1>2, <1>6 DEF Range
<1>10. \A t \in Range(tokenByConfig') : \E k \in DOMAIN tokenByConfig' : tokenByConfig'[k] = t
  BY DEF Range
<1>11. \A t \in DOMAIN configByToken' :
         configByToken'[t] \in DOMAIN tokenByConfig' /\ tokenByConfig'[configByToken'[t]] = t
  BY <1>8, <1>10
<1>12. Mirrored(tokenByConfig', configByToken')
  <2>1. ASSUME NEW k \in DOMAIN tokenByConfig'
        PROVE  tokenByConfig'[k] \in DOMAIN configByToken' /\ configByToken'[tokenByConfig'[k]] = k
    <3>1. tokenByConfig'[k] \in DOMAIN configByToken'
      BY <1>8, <1>9
    <3> QED  BY <1>7, <1>11, <3>1 DEF IsInjective
  <2> QED  BY <1>11, <2>1 DEF Mirrored
<1>13. Tokened'
  <2>1. tokenByConfig' \in [DOMAIN tokenByConfig' -> minted'] /\ DOMAIN tokenByConfig' \subseteq Keys
    BY <1>2, <1>4, <1>5, <1>6, <1>9
  <2>2. DOMAIN configByToken' \subseteq minted'
    BY <1>8, <1>9, <1>10
  <2>3. configByToken' \in [DOMAIN configByToken' -> Keys]
    BY <1>8, <1>11, <2>1
  <2> QED  BY <2>1, <2>2, <2>3, PartialDef DEF Tokened
<1>14. Maps' /\ minted \subseteq minted'
  BY <1>0, <1>2, <1>3, <1>12, <1>13 DEF Maps, Restart
<1>15. Covered'
  BY <1>1, <1>6 DEF Covered, Pairs, Keys, Configs
<1>16. Snapshots'
  <2>1. storedTokens' = storedTokens /\ tokenWrites' = <<>>
    BY DEF Restart
  <2> QED  BY <1>0, <1>14, <2>1, PartialGrows DEF Snapshots
<1> QED  BY <1>1, <1>14, <1>15, <1>16 DEF RegistryInv

LEMMA RegistryNext == RegistryInv /\ [Next]_vars => RegistryInv'
BY RegistryConfigs, RegistryOther, RegistryRestart DEF Next

LEMMA RegistryAlways == Spec => []RegistryInv
BY RegistryInit, RegistryNext, PTL DEF Spec

(* The promise of getUrl and resolve holds for any webhooks, names, tokens   *)
(* and failures of the store.                                                *)
THEOREM UrlsAlwaysWork == Spec => []EveryConfigIsReached
<1>1. RegistryInv => EveryConfigIsReached
  BY DEF RegistryInv, Maps, Mirrored, Covered, Pairs, EveryConfigIsReached, Resolves
<1> QED  BY <1>1, RegistryAlways, PTL

-----------------------------------------------------------------------------
(* Tokens that were evicted, as long as the writes land in their order       *)

Dead == DOMAIN configByToken \cap revoked = {}

(* What the store has once every write has landed.                           *)
LastTokens == IF tokenWrites = <<>> THEN storedTokens ELSE tokenWrites[Len(tokenWrites)]

(* It may have what was evicted only until the uninstall that did it stores  *)
(* the tokens.                                                               *)
Synced ==
    (\A h \in Hooks : uninstalling[h] # "configs") =>
        \A k \in DOMAIN LastTokens : LastTokens[k] \notin revoked

OrderInv ==
    /\ RegistryInv /\ Recorded
    /\ order # "loaded" => Dead
    /\ order = "kept" => Synced

(* A change of the tokens leaves nothing evicted in the maps.                *)
LEMMA RetokenDead ==
    ASSUME Maps, Dead, NEW evicted \in SUBSET Keys, NEW ensured \in SUBSET Keys,
           Retoken(evicted, ensured)
    PROVE  Dead'
<1> SUFFICES ASSUME NEW t \in DOMAIN configByToken', t \in revoked'
             PROVE  FALSE
  BY DEF Dead
<1>1. revoked' \subseteq minted
      /\ (t \notin minted \/ (t \in DOMAIN configByToken /\ t \notin revoked' \ revoked))
  BY RetokenKeeps
<1> QED  BY <1>1 DEF Dead

(* Once it is stored, so is that.                                            *)
LEMMA PersistSynced ==
    ASSUME Snapshots, Maps', Dead', PersistTokens
    PROVE  Synced'
<1>1. /\ tokenWrites' = Append(tokenWrites, tokenByConfig')
      /\ tokenWrites \in Seq(Partial(Keys, minted))
  BY DEF PersistTokens, Snapshots
<1>2. tokenWrites' # <<>> /\ tokenWrites'[Len(tokenWrites')] = tokenByConfig'
  BY <1>1
<1>3. LastTokens' = tokenByConfig'
  BY <1>2 DEF LastTokens
<1>4. \A k \in DOMAIN tokenByConfig' : tokenByConfig'[k] \in DOMAIN configByToken'
  BY DEF Maps, Mirrored
<1> QED  BY <1>3, <1>4 DEF Synced, Dead

LEMMA OrderInit == Init => OrderInv
<1> SUFFICES ASSUME Init PROVE OrderInv
  OBVIOUS
<1>1. Dead
  BY DEF Init, Dead, Empty
<1>2. LastTokens = Empty
  BY DEF Init, LastTokens
<1>3. Synced
  BY <1>2 DEF Synced, Empty
<1> QED  BY <1>1, <1>3, RegistryInit DEF OrderInv, Recorded, Init

LEMMA OrderConfigs ==
    ASSUME OrderInv, NEW h \in Hooks,
           \/ \E n \in Names : AddConfig(h, n) \/ RemoveConfig(h, n) \/ Rotate(h, n)
           \/ \E names \in SUBSET Names : SetConfigs(h, names)
           \/ Erase(h)
    PROVE  OrderInv'
<1>1. RegistryInv'
  BY RegistryConfigs DEF OrderInv
<1>2. PICK evicted \in SUBSET Keys, ensured \in SUBSET Keys : Retoken(evicted, ensured)
  <2>1. \A n \in Names : {} \in SUBSET Keys /\ {<<h, n>>} \in SUBSET Keys
    BY DEF Keys
  <2>2. \A names \in SUBSET Names : Pairs(h, names) \in SUBSET Keys
    BY DEF Keys, Pairs
  <2>3. configStore[h] \in SUBSET Names
    BY DEF OrderInv, RegistryInv, Configs
  <2>4. {} \in SUBSET Keys
    OBVIOUS
  <2> QED  BY <2>1, <2>2, <2>3, <2>4 DEF AddConfig, RemoveConfig, Rotate, SetConfigs, Erase
<1>3. order' = order /\ Recorded'
  BY DEF OrderInv, Recorded, AddConfig, RemoveConfig, Rotate, SetConfigs, Erase
<1>4. ASSUME order # "loaded" PROVE Dead'
  BY <1>2, <1>4, RetokenDead DEF OrderInv, RegistryInv
<1>5. ASSUME order = "kept" PROVE Synced'
  <2>1. CASE PersistTokens
    BY <1>1, <1>4, <1>5, <2>1, PersistSynced DEF OrderInv, RegistryInv
  <2>2. CASE Erase(h)
    <3>1. uninstalling'[h] = "configs"
      BY <2>2 DEF Erase, OrderInv, RegistryInv, Configs
    <3> QED  BY <3>1 DEF Synced
  <2> QED  BY <2>1, <2>2 DEF AddConfig, RemoveConfig, Rotate, SetConfigs
<1> QED  BY <1>1, <1>3, <1>4, <1>5 DEF OrderInv

LEMMA OrderOther ==
    ASSUME OrderInv,
           \/ \E h \in Hooks : Install(h) \/ Unregister(h) \/ Uninstalled(h)
           \/ LandTokens \/ LandConfigs \/ UNCHANGED vars
    PROVE  OrderInv'
<1>1. RegistryInv'
  BY RegistryOther DEF OrderInv
<1>2. UNCHANGED memory
  BY DEF Install, Unregister, Uninstalled, LandTokens, LandConfigs, vars
<1>3. /\ Recorded' /\ (order' = "loaded" <=> order = "loaded") /\ (order' = "kept" => order = "kept")
      /\ order' # "loaded" => Dead'
  <2>1. Recorded' /\ (order' = "loaded" <=> order = "loaded") /\ (order' = "kept" => order = "kept")
    <3>1. CASE LandTokens
      BY <3>1 DEF OrderInv, Recorded, LandTokens
    <3>2. CASE ~ LandTokens
      BY <3>2 DEF OrderInv, Recorded, Install, Unregister, Uninstalled, LandConfigs, vars, store
    <3> QED  BY <3>1, <3>2
  <2> QED  BY <1>2, <2>1 DEF OrderInv, Dead, memory
<1>4. ASSUME NEW h \in Hooks, Uninstalled(h), order' = "kept"
      PROVE  Synced'
  BY <1>1, <1>3, <1>4, PersistSynced DEF Uninstalled, OrderInv, RegistryInv
<1>5. ASSUME UNCHANGED <<tokenWrites, storedTokens>>, order' = "kept",
             \A h \in Hooks : uninstalling'[h] # "configs" => uninstalling[h] # "configs"
      PROVE  Synced'
  <2>1. LastTokens' = LastTokens /\ revoked' = revoked
    BY <1>2, <1>5 DEF LastTokens, memory
  <2> QED  BY <1>3, <1>5, <2>1 DEF OrderInv, Synced
<1>6. ASSUME NEW h \in Hooks, Install(h) \/ Unregister(h), order' = "kept"
      PROVE  Synced'
  <2>1. uninstalling \in [Hooks -> {"no", "index", "configs"}]
    BY DEF OrderInv, RegistryInv, Configs
  <2>2. \A g \in Hooks : uninstalling'[g] # "configs" => uninstalling[g] # "configs"
    BY <1>6, <2>1 DEF Install, Unregister
  <2> QED  BY <1>5, <1>6, <2>2 DEF Install, Unregister, store
<1>7. CASE LandConfigs \/ UNCHANGED vars
  BY <1>1, <1>3, <1>5, <1>7 DEF LandConfigs, vars, store, OrderInv
<1>8. ASSUME LandTokens, order' = "kept"
      PROVE  Synced'
  <2>1. PICK k \in 1..Len(tokenWrites) :
          k = 1 /\ storedTokens' = tokenWrites[k] /\ tokenWrites' = RemoveAt(tokenWrites, k)
    BY <1>3, <1>8 DEF LandTokens
  <2>2. k = 1
    BY <2>1
  <2>3. tokenWrites \in Seq(Partial(Keys, minted)) /\ Len(tokenWrites) \in Nat
    BY DEF OrderInv, RegistryInv, Snapshots
  <2>4. /\ tokenWrites' \in Seq(Partial(Keys, minted)) /\ Len(tokenWrites') = Len(tokenWrites) - 1
        /\ \A n \in 1..Len(tokenWrites) - 1 : tokenWrites'[n] = tokenWrites[n + 1]
    <3>1. 1 \in 1..Len(tokenWrites) /\ tokenWrites' = RemoveAt(tokenWrites, 1)
      BY <2>1, <2>2
    <3>2. /\ RemoveAt(tokenWrites, 1) \in Seq(Partial(Keys, minted))
          /\ Len(RemoveAt(tokenWrites, 1)) = Len(tokenWrites) - 1
          /\ \A n \in 1..Len(tokenWrites) - 1 :
               RemoveAt(tokenWrites, 1)[n] = IF n < 1 THEN tokenWrites[n] ELSE tokenWrites[n + 1]
      BY <2>3, <3>1, RemovedAt
    <3> QED  BY <3>1, <3>2
  <2>5. tokenWrites # <<>> /\ LastTokens = tokenWrites[Len(tokenWrites)]
    BY <2>1, <2>3 DEF LastTokens
  <2>6. LastTokens' = tokenWrites[Len(tokenWrites)]
    <3>1. CASE Len(tokenWrites) = 1
      BY <2>1, <2>2, <2>4, <3>1 DEF LastTokens
    <3>2. CASE Len(tokenWrites) > 1
      <4>1. tokenWrites' # <<>> /\ Len(tokenWrites') \in 1..Len(tokenWrites) - 1
        BY <2>3, <2>4, <3>2
      <4> QED  BY <2>3, <2>4, <3>2, <4>1 DEF LastTokens
    <3>3. \A n \in Nat : k \in 1..n => n = 1 \/ n > 1
      OBVIOUS
    <3> QED  BY <2>1, <2>3, <3>1, <3>2, <3>3
  <2>7. revoked' = revoked /\ uninstalling' = uninstalling
    BY <1>8 DEF LandTokens, memory
  <2> QED  BY <1>3, <1>8, <2>5, <2>6, <2>7 DEF OrderInv, Synced
<1> QED  BY <1>1, <1>3, <1>4, <1>6, <1>7, <1>8 DEF OrderInv

(* What another core loads is what the last write had, and what was never    *)
(* handed out.                                                               *)
LEMMA OrderRestart ==
    ASSUME OrderInv, Restart
    PROVE  OrderInv'
<1>1. RegistryInv'
  BY RegistryRestart DEF OrderInv
<1>2. /\ revoked' = revoked /\ storedTokens' = storedTokens /\ tokenWrites' = <<>>
      /\ order' = "loaded" \/ (order' = "kept" /\ order = "kept" /\ Landed)
  BY DEF Restart, StartsFrom
<1>loaded. CASE order' = "loaded"
  BY <1>1, <1>loaded DEF OrderInv, Recorded
<1>kept. SUFFICES ASSUME order' = "kept", order = "kept", Landed PROVE OrderInv'
  BY <1>2, <1>loaded
<1>3. LastTokens = storedTokens /\ LastTokens' = storedTokens
  BY <1>2, <1>kept DEF Landed, LastTokens
<1>4. \A k \in DOMAIN storedTokens : storedTokens[k] \notin revoked
  BY <1>2, <1>3, <1>kept DEF OrderInv, Synced, Landed
<1>5. Synced'
  BY <1>2, <1>3, <1>4 DEF Synced
<1>6. Dead'
  <2> DEFINE missing == {k \in Keys : k[2] \in configStore'[k[1]]} \ DOMAIN storedTokens
  <2>1. PICK fresh \in Injection(missing, Tokens \ minted) :
          tokenByConfig' = [k \in DOMAIN storedTokens \cup missing |->
                              IF k \in missing THEN fresh[k] ELSE storedTokens[k]]
    BY DEF Restart
  <2>2. fresh \in [missing -> Tokens \ minted]
    BY <2>1 DEF Injection
  <2>3. \A k \in DOMAIN tokenByConfig' : tokenByConfig'[k] \notin revoked
    <3>1. revoked \subseteq minted
      BY DEF OrderInv, RegistryInv, Maps
    <3> QED  BY <1>4, <2>1, <2>2, <3>1
  <2>4. \A t \in DOMAIN configByToken' : \E k \in DOMAIN tokenByConfig' : t = tokenByConfig'[k]
    BY <1>1 DEF RegistryInv, Maps, Mirrored
  <2> QED  BY <1>2, <2>3, <2>4 DEF Dead
<1> QED  BY <1>1, <1>5, <1>6, <1>kept DEF OrderInv, Recorded

LEMMA OrderAlways == Spec => []OrderInv
<1>1. OrderInv /\ [Next]_vars => OrderInv'
  BY OrderConfigs, OrderOther, OrderRestart DEF Next
<1> QED  BY <1>1, OrderInit, PTL DEF Spec

(* A token that was rotated, or whose configuration was edited, removed or   *)
(* uninstalled, is refused by this core and by every later one that started  *)
(* from writes that landed in their order, for any webhooks, names and       *)
(* tokens and whatever goes wrong with the writes.                           *)
THEOREM RevokedTokensStayDead == Spec => []RevokedStaysDead
<1>1. OrderInv => RevokedStaysDead
  BY DEF OrderInv, Dead, RevokedStaysDead, Resolves
<1> QED  BY <1>1, OrderAlways, PTL

(* The types hold for any webhooks, names, tokens and failures of the store. *)
THEOREM RegistryTyped == Spec => []TypeOK
<1>1. OrderInv => TypeOK
  BY DEF OrderInv, Recorded, RegistryInv, Maps, Tokened, Snapshots, Configs, TypeOK
<1> QED  BY <1>1, OrderAlways, PTL
=============================================================================
