# A TLA+ model of the Kwirth core

Kwirth (version 0.6.97) is a console for Kubernetes and Docker. A *core* (the Node process under
`src/back`) serves a front end, the *channels* that plugins bring (logs, metrics, ops...), and an API to
administer itself; it keeps everything it has to remember in ConfigMaps and Secrets. Cores federate: one
opens a WebSocket to another and uses its channels as a browser would. This project models the parts of
the core, and of the front end that talks to it, where the order of things matters, checks them with TLC on small instances, and proves the
properties that matter most with TLAPS for every value of the constants.

Paths below are relative to the repository, `src/` left out. The order of the sections: the inventory of
the system, the plan, the modules, the runs, what the code does that its comments say it does not, the
proofs, and what is left out.

## 1. Inventory

The repository holds 3513 files. The core is `back/src`: 96 files and 20.8k lines of TypeScript, of which
`index.ts` (3842 lines) is the startup, the WebSocket server and the protocol of the instances,
`tools/` the managers, and `api/` the 25 routers over them. The rest is extensions (`plugins`,
`providers`, `senders`, `webhooks`, `dces`, `idps`, `logins`, `aitoolsets`, `homepages`, `themes`,
`packs`), the packages they share (`common*`), the front end, documents and images.

Node runs one callback at a time, so a step of a model is what runs between two awaits; a hazard is a
value that is read before an await and used after it, a callback nobody awaits, a timer, a message, a
restart, or a store that fails without saying so.

| component | state | operations | interacts with |
|---|---|---|---|
| **extension index lock** (`tools/IndexLock.ts`) | `queues`: the end of a chain of promises per index | `withIndexLock`, `updateIndex` | called by ten managers; reads and writes the store |
| **federation link, home side** (`tools/RemoteChannel.ts`) | socket, `instanceId`, `sentWithInstance`, `replayPending`, `channelGone`, `awaitingPong`, three timers | `connect`, `sendStart`, `send`, `close`, the socket's callbacks | a consumer (plugin) through a handle and a state callback; the member's core through a WebSocket |
| **instance protocol, member side** (`index.ts`) | running instance's channels, the watches of each socket, `pendingWebsocket` | START, COMMAND, STOP, RECONNECT, ROUTE, WEBSOCKET; push on uninstall; close on reload | channels, the cluster's watches, every client |
| **tabs of the front end** (`front/src/App.tsx`) | the socket of a tab, its instance, `channelStarted`, the retry interval | start, stop, drop, resume (RECONNECT) or restart (START) | the instance protocol, through one WebSocket per tab |
| **connections of a channel** (`plugins/log`, and alike alert and ops) | `webSockets`: a socket, its instances, what each streams | addObject, stopInstance, updateConnection, removeConnection | the watches of the core, the sockets of the tabs |
| **plugin manager** (`tools/PluginManager.ts`, `api/PluginApi.ts`) | index, back and front in the store; `installedIds`, `cachedIndex`, `registeredChannels` in memory | install, upgrade, uninstall, `installBundled`, `loadAll` | `ExtensionInstallGuard`, the index lock, callbacks of `index.ts` that start and stop channels |
| **access keys** (`api/ApiKeyApi.ts`, `AuthorizationManagement.ts`) | `kwirth.keys` in a ConfigMap, `apiKeys` in memory (also the volatile ones) | POST, PUT, DELETE `/key`, `createApiKey`, `refreshKeys`, `validKey` | every route, which calls `validKey`; the logins |
| **identities** (`tools/auth/*`, `LoginRateLimiter.ts`, `api/LoginApi.ts`, `AuthApi.ts`, `UserApi.ts`, `SignupApi.ts`) | users and sign-up requests in Secrets, one lock, single-use codes with a TTL, a window of attempts per address | login, password, users, IdP callback and exchange, sign-up, approve, reject | access keys; identity providers |
| **object storage** (`tools/*ConfigMaps.ts`, `*Secrets.ts`) | none: the cluster's API, Docker volumes or files | read, write, readKey, writeKey, readAllKeys | every manager |
| **access scopes** (`AuthorizationManagement.ts`, `ScopeCatalog.ts`) | none | predicates on a key, an action and an object | every route and START |
| **providers and consumers** (`providers/*`, `model/ClusterInfo.ts`, `ProviderManager.ts`) | the providers that run, their subscriptions, rings of pluvider events | create what is required, wire, tell, subscribe, start, stop, event | channels, plugins, senders, webhooks |
| **other managers** (senders, webhooks, IdPs, logins, toolsets, DCEs, homepages, themes, docs, packs, bundles, marketplaces, licences) | each an index and artefacts in the store | install, upgrade, uninstall, configure | the index lock, and what each extends |
| **webhooks** (`tools/WebhookManager.ts`, `WebhookReceiver.ts`, `api/WebhookApi.ts`) | configurations, and a token for each, in two maps and two ConfigMaps | install, uninstall, add, remove, set, rotate, resolve a callback | external services, which hold the URLs; providers |
| **senders** (`tools/SenderManager.ts`) | configurations, batches | configure, send | external services, providers |

What makes each correct, and what is hard in it:

- **Index lock.** No update of an index is lost whatever requests cross; a task that fails does not block
  those behind it; every call is answered. Hard: a chain of promises with rejections, a store that
  answers errors by `undefined`.
- **Link.** What the link reports is what it can do; it never stops trying unless it is closed; closing
  is final; commands refused for a dead instance are remembered; it comes back, and notices a dead
  connection nobody reports. Hard: two ends, a FIFO that may break at any moment, a watchdog that races
  the answer it watches for, a member whose plugin comes and goes under a START that is awaiting.
- **Plugins.** The index never names code that is not there or is older; what is stored, registered and
  running agree; versions only move forwards, and only when asked. Hard: a dozen awaits per request, two
  requests at once, a core that dies between any two, an image that brings its own versions, a store whose
  reads and writes fail in silence, a class that does not load.
- **Access keys.** A permanent key that was handed out works until it expires, whatever restarts or
  crosses it; a deleted key works no more. Hard: a list that is read and written whole, by five routes,
  without a lock, with a write nobody awaits, and a cache that refreshes itself in the middle.
- **Identities.** No update of the users is lost; a request for an account disappears only when it was
  turned into a user or an administrator dropped it; what was rejected stays so; the caps hold. Hard: one
  non-reentrant lock that some paths take and one does not, writes whose failure nobody reports.
- **Tabs and connections.** A tab that shows itself started is served on the socket it has; after a drop the
  stream comes back, whole. Hard: each end notices a drop when it does, and in the meantime STARTs await the
  cluster and may be denied, watches report to sockets that are gone, the channel is replaced, a core is
  there before its channels, and a timer dials again.
- **Providers.** When a provider is told that its producers are there, they are, and it is told once. Hard:
  an await between looking for a provider and putting it in the list, in three pieces of code that may run
  at the same time; constructors that throw; requirements with cycles.
- **Webhooks.** The URL an administrator is shown works, and one that was revoked does not work again. Hard:
  what is in memory twice is stored twice, in two ConfigMaps, by writes that nobody awaits and that may be
  reordered by their own retries.

The hazards, each at its line and with the properties that watch it, are in `PROJECT.json`.

## 2. Plan

In the order of importance, with what is done:

1. `IndexLock` over `AtomicIndex`, its abstract specification. *Done, proved.*
2. `RemoteLink`, both ends of a federation link over one socket. *Done; safety proved.*
3. `PluginLifecycle`, from the request to the running channel, over an index that is atomic, which is what
   1 shows. *Done; proved.*
4. `ApiKeyStore`. *Done; safety proved.*
5. `Identities`: users, sign-ups, the lock and the IdP callback, over `Accounts`, its abstract specification.
   *Done; safety and refinement proved.*
6. `TabSession`: a tab, its sockets, the core and the connections of a channel: the other side of the member
   that `RemoteLink` sees through one socket. *Done; safety proved.*
7. `WebhookRegistry`: configurations and tokens over writes that nobody awaits. *Done, proved.*
8. `Wiring`: startup, hot installs and extensions create and tell providers. *Done, proved.*
9. Left, in this order: the subscriptions between consumers and providers (`Pluvider.ts`), ROUTE and the
   pending WebSocket, single-use codes and the window of attempts of a login, the access predicates as
   operators against a reference definition, bundles and packs.

Every invariant and every action property a passing run checks is proved, the liveness properties are not.

Modules are written to be proved about: parameters are constants with named assumptions, there is one
action per stretch of code between two awaits, recursion is not used, and an invariant is a conjunction
of named parts. Runs are few and each asks one question: where a part works only when two things do not
cross, a passing run shows that it works then, and the crossing is shown by a run that finds the violation
or told in section 5.

## 3. The modules

### IndexLock, AtomicIndex, IndexLockProofs

`tools/IndexLock.ts`. `index` is the stored list, as a function from extension ids to entries; `chain` the
calls that have not settled, in the order their promises were chained; `pc`, `change` and `fresh` are where
each call is, what its `change` callback does, and the list it is about to write. `Call` is
`withIndexLock` up to its first await, `Begin` the `then(mutate, mutate)` of the call whose turn it is,
`Read` and `Write` the two awaits of `updateIndex`, `Throw` a rejection of either, `Finally` the rest.
`Crash` restarts the core with the store as it is. The faults are those of the Kubernetes storage: a read
or a write that answers `undefined`, or a rejection.

`AtomicIndex` is what the managers may assume: each update takes effect at one instant or not at all.
`UpdatesAreAtomic` says that `IndexLock` implements it, `phase` being a function of `pc`.

### RemoteLink, MCRemoteLink, RemoteLinkProofs

`tools/RemoteChannel.ts`, and what `index.ts` does with it at the other end. The variables of the home
are the locals of `openRemoteChannel` under their own names, the pending timers as Booleans; `up` and
`down` are the two directions of the socket; the member is whether the plugin is there (`serving`), STARTs
that await the cluster (`begun`), instances whose objects are being watched (`watching`) and those the
channel knows (`regs`). Each callback of the socket and each timer is an action, each kind of message
received is one (`OnStarted`, `OnStartRefused`, `OnInstanceUnknown`...), and so are the member's readers
(`RefuseStart`, `AcceptStart`, `SuspendStart`, `Accept`, `TakeCommand`, `AddObject`) and what may happen to
it (`Uninstall`, `Install`, `Upgrade`, `Reload`, `Restart`). `Cut` is a load balancer that drops the
connection in silence. Backoff and cadence are not modelled: a timer that is armed may fire at any time,
which allows every delay the code can have. What channels do with a command is not modelled.

### PluginLifecycle, PluginLifecycleProofs

One plugin, since nothing is shared between two but the index, whose updates `IndexLock` shows to be
atomic. `index`, `back` and `front` are in the store, the rest in memory. A request is a record with where
it is, the version it brings and the upgrade flag; the image's own install is one more request, `Boot`.
Each await of `install` and `uninstall` ends a step, so `ReadIndex`, `Check`, `WriteBack`, `WriteFront`,
`UpdateIndex` and `Load` are the install, and `Delete`, `ReadIndex`, `Remove`, `Unindex`, `EraseBack` and
`EraseFront` the uninstall. `Start` is `init()` and the decision of `installBundled`, `LoadAll` the load of
everything and the start of the channels, `HotReady` the end of the providers a channel waits for.
The store is that of Kubernetes: any write may be refused and any read fail, both answer `undefined`, and the
handlers go on as `PluginManager` does. `Load` and `LoadAll` may find a `back.js` that does not load
(`loadBackPlugin` swallows it), and the update of another plugin whose read failed drops this one's entry
(`Overwrite`). `amiss` is history: what did not go as the core takes it to have gone, and was not mended
since. A write that succeeds mends the one that was refused, a new index entry what the core did not know of
the old one, a load the load before, a restart what was wrong in memory only. Each property names the mishaps
it excepts, and each exception is needed: without any one of them TLC finds the property violated (section
5). The requirements of a package are a refusal that may or may not come. What the package is like is chosen at
the start: `waits`, whether its channel waits for a provider that is not up, and `big`, the versions whose
code does not fit in the store and is fetched again. `Consistent` and `RestartKeepsVersion` say what they
promise of each, and what they do not is in section 5.

### ApiKeyStore, MCApiKeyStore, ApiKeyStoreProofs

`kwirth.keys` (`stored`), `apiKeys` (`cache`) and the requests in progress, each with the list it has read.
A list maps ids to expiries. `Ask`, `Read`, `Change`, `Store`, `Answer` are the routes of `/key`, which
differ in what they make of the list (`Changed`), and the logins, which do not await `Store`, replace the
cache at once, and hold the lock of the identities (`login`) or not (`sso`, the IdP callback). `Show`,
`Read`, `Clean`, `Store` and `Refresh` are `validKey` with its `refreshKeys`. `owed` and `dropped` are
history: what was answered to whom. A refresh in `isValidKey` is the one of `validKey`. Who asks, for what,
and what may go wrong is one record, `setting`, chosen at the start: the properties say which settings they
are about (`OneAtATime`, any kind of request, one at a time; `OneWriter`, an administrator whose requests
are crossed by any clients' refreshes and by restarts, while nothing expires: a refresh that finds an expired
key is a writer too), and `MCApiKeyStore` lists those TLC goes through.
The properties are about permanent keys: a volatile one is dropped by the next refresh, and stays in the
cache when it is deleted (section 5).

### Identities, Accounts, MCIdentities, IdentitiesProofs

The Secrets `kwirth-users` (`users`, each with the IdP it is bound to, or `Local`) and `kwirth-signups`
(`signups`), the sign-up codes that are out (`codes`), `IdentityService.lock`, and the requests in
progress: `submit` and the IdP `callback` of `AuthApi`, `approve`, `reject` and `drop` of `SignupApi`, `put`
and `remove` of `UserApi`, `password` of `LoginApi`. What runs between two awaits is an action, shared by
the handlers that do the same there: `Acquire` is `lock.use`, which the callback does not call,
`CheckUser`, `CheckRequest` and `CheckRoom` are what a sign-up looks at, `ReadUsers` and `WriteUsers` the
read-modify-write of the users, `Save` and `Remove` one key of the sign-ups, `Refuse` what a handler
answers for reasons that are not modelled (a policy, scopes, a password) or `guard()` for an error. The
storage is that of Kubernetes, whose users come with the deployment.

`Accounts` is what an administrator may assume: a request is an order (`orders`), and each order takes effect
at one instant, on the email it is about and on top of whatever else was done, or not at all. `SignUp` needs
a stranger and room, `Admit` binds who asked to the IdP the request came through, `Forget` comes after it.
`AccountsAreAtomic` says that `Identities` implements it, an order being what a handler was asked for
(`OrderOf`), whatever it has read and checked so far.

### TabSession, TabSessionProofs

The three parties of a stream: the tab (`App.tsx`), the core (`index.ts`) and the channel, whose `webSockets`
(`conns`) is that of `log`; `alert` and `ops` keep theirs alike. A socket has a state at each end (`front`,
`back`), what is on its way on it (`up`, `down`), and may be `cut`, which each end notices when it does
(`OnClose`, `CoreCloses`). `kind` says whether the channel resumes its instances. The tab's actions are its
two buttons (`UserStart`, `UserStop`), the retry (`Dial`), what an answered dial does in either kind
(`OpensToResume`, `OpensToRestart`) and what it makes of an answer (`FrontReads`); `bound` are the sockets
that carry the tab's handlers, which a socket only gets from a START or a RECONNECT. In the core, `TakeStart`
and `Accept` or `Deny` are the START on both sides of its await, and `watch` the watches it opens: pairs of a
socket and an instance which nothing else ever changes. A START is denied when no pod is there. A core that
was restarted listens before it has its channels (`serving`), and `TurnAway` answers what comes meanwhile,
which the tab shows and does nothing about. `WatchReports` is `processEvent` with the channel's
`addObject`. The view is that of a namespace, whose
watch reports pods that start later; an instance streams one container of each pod. The other messages of a tab, and what is
streamed, are not modelled. `astray` is history: whether the last START or RECONNECT to be answered
was denied or turned away, or came on a socket the tab had left, which takes the instance away from it;
`StartedIsServed` and `StreamComesBack` are about any other tab. All three exceptions are needed (section 5).

### WebhookRegistry, MCWebhookRegistry, WebhookRegistryProofs

`tools/WebhookManager.ts`. A configuration is a name of a webhook; `tokenByConfig` and `configByToken` are
the two maps, `storedTokens` and `storedConfigs` the two ConfigMaps, `tokenWrites` and `configWrites` the
writes nobody has awaited, the first with the whole map and the second with one webhook's names. `Retoken`
is what every operation comes down to: tokens evicted, and others ensured, which are new. `Unregister`,
`Erase` and `Uninstalled` are the three stretches of `_doUninstall`; `Restart` is `loadAll` and
`loadPersistedConfigs`. The faults are a retry after a 409 that overtakes a later write, a write that is
refused, and a core that dies with writes on their way. `minted`, `revoked` and `order` are history, the
last of whether the writes of the tokens landed in their turn and whether a core started from ones that had
not. `MCWebhookRegistry` adds the symmetry.

### Wiring, MCWiring, WiringProofs

What creates providers: the startup, hot installs and extensions (`Tasks`), each with the list it has yet to
look at (`todo`) and the provider it awaits (`making`). `running` is `clusterInfo.providers`, an instance
being a provider and who created it. `Looks`, `Pass`, `Create`, `Created` and `Throws` are the loop of
`resolveConsumedProviders` and its like, whose await is between `Create` and `Created`: only
`startRequiredProvider` awaits the start, and `hotCreateProvider` only the configuration (`Awaited`). `Wire`
and `Tell` are `wireProviderConsumers`, `Finish` the start of the channel or the telling of the extension.
The order of a list is any. Installs wait for the startup, since the routes are only there afterwards.

## 4. The runs

| run | instance | states | what it shows |
|---|---|---|---|
| `index_lock` | 3 requests, 2 extensions, 2 versions; failed writes, rejections, restarts | 190k | exclusive access, nothing lost, every call settles, updates are atomic |
| `index_read_fault` | 2 requests, and reads that fail | | `NothingLost` is violated |
| `link_state` | 2 commands, replay bound 1, 2 faults of every kind, STARTs answered now or later | 1.7M | what is reported is so, it never gives up, close is final |
| `link_live` | 1 command, replay bound 2, 2 faults but upgrades, STARTs answered now | 11k | it comes back, notices a cut |
| `plugins` | 1 request at a time, 2 versions, any image; crashes, refusals, an image that fails, reads and writes of the store that fail, classes that do not load; a channel that waits or not, code that fits in the store or not | 8.6M | code and index, consistency, versions, restarts |
| `keys` | 1 request at a time of every kind, 2 instants, a core that dies or in which users log in; or one administrator, one client and restarts; 3 keys, one of them volatile | 443k | no key is lost, what was deleted is gone, a client that insists is accepted |
| `keys_login` | 2 logins | | `PermanentIsStored` is violated |
| `identities` | 2 requests of every kind, 2 emails, 2 IdPs, a cap of 1, restarts | 2.4M | the lock is exclusive, caps and decisions stand, approvals leave a user, accounts are atomic |
| `tab` | 3 sockets, 1 pod that starts at any time, both kinds of channel, 2 faults of 5 kinds, 1 STOP | 520k | a started tab is served, one connection each, the stream comes back |
| `tab_reconnect` | 2 sockets, 2 pods, one drop | | `PodsAreStreamed` is violated |
| `webhooks` | 1 webhook, 2 configurations, 4 tokens, 2 writes of each ConfigMap in flight, all faults | 351k | every URL works, a revoked one stays dead unless a core started from writes out of order |
| `wiring` | 3 providers of any requirements, one with a router and a configuration, 2 installs, 1 extension | 5.6M | producers are there when a consumer is told, once |

**Bounds.** Three requests make a chain with one that is running, one behind it and one behind that; two
extensions let one overwrite the other's entry, and two versions let an upgrade be lost. A link has at most
two commands because one past the replay bound is the first that is dropped, four instance ids because no
more are alive at once with `WireMax` STARTs in flight (a START waits when none is free), and two faults
because each wrong thing the link must survive is one event and its recovery crossing another; `WireMax`
keeps the watchdog from filling the wire, and two STARTs in flight is what it takes for a late answer to
cross an early one. Two versions are an older and a newer one, of which either is
installed, stored, cached or carried by the image; a request looks at one pair of them at a time, and the
theorems are for any number of versions. The faults of `plugins` have no bound: each may come at every step. The clock of the keys needs
two instants, before and at an expiry, for a key to expire after it was read. Two requests for two emails
race for the last place under a cap of 1, and for one email through two IdPs for its request; one code
per identity is enough for both, since it is spent before the lock is taken and another may be handed out
while the first waits. A tab needs three sockets: the one it has, one that is cut and still open at one end,
and one it dials; its four ids are what the tab, a watch that is still reporting, a message and a new START
may refer to at once, and one that is in use is never given. Four tokens let both configurations be rotated
or replaced with an older token of each in a write on its way. One list of requirements has one entry
(`MaxRequired`), which with three providers allows chains and cycles; two installs cross each other and the
extension. Symmetry is used in `link_state`, `identities`, `webhooks` and `wiring`, of ids, commands, emails,
IdPs, requests, tokens, providers and installs, and never with a liveness property.

**Deadlock** is checked but in `keys` and `keys_login`, where nobody has to ask for anything and all ids may
have been used, in `tab` and `tab_reconnect`, where a tab that was never started does not notice that its
socket dropped, and in `wiring`, which ends. A closed link stutters explicitly (`Over`).

**Fairness.** `IndexLock`: a task that may run runs, and the store answers (`WF` of each call's steps);
Node's event loop and the client library's timeouts give this. Callers are under no obligation, and restarts
may go on for ever, which is why a call that is waiting may also be dropped (`"idle"`). `RemoteLink`:
armed timers fire, what is on a live wire arrives, a dial is answered, the member's handlers run, and an
uninstalled plugin is one day installed again, without which nothing could come back; the socket failing
and the consumer sending or closing have no fairness, and faults are finite. `ApiKeyStore`: the store
answers, and a client that holds a key goes on showing it (`SF`, since the number of clients is the
model's bound and a slot that is busy with another key is not a refusal). `TabSession`: the interval
fires and a dial is answered, either way; what is on a live socket arrives and is read; either end notices
in the end that a socket is gone, which is TCP and the keep-alive; a watch reports the pods there are and
ends when its socket has. The user is under no obligation, pods need not start, and faults are finite.

Every property has a mutant in `PROJECT.json`: a plausible bug in one definition (marked `Bug:` in the
modules) under which TLC finds the property violated in the same run.

## 5. Where the code and its comments disagree

Found by the runs, with the lines quoted in `PROJECT.json`:

- A failed read of an index is taken for an empty one, and everything installed is dropped from it
  (`index_read_fault`).
- Two logins in a row: the second stores the list without the key of the first (`keys_login`).
- The watch of the pods stays on the socket of the START: pods that start after a RECONNECT are reported on
  the one that broke and never reach the tab (`tab_reconnect`).

Seen with the same modules under other constants, or certain by reading; no run is spent on them:

- `RemoteChannel.ts:294`: two START responses in flight: the second forgets the commands sent since the
  first, and their refusal comes later, against line 117 (`RefusedIsRemembered`).
- `PluginManager.ts:404`: `loadAll` goes by an index read before the image's plugins were installed, against
  line 489 (`RestartKeepsVersion` without `FetchedStale`).
- `PluginManager.ts:304`: a write of the code that was refused (`KubernetesConfigMaps.ts:89`) does not stop
  the install: the index names a version whose code is not there, or is the one before
  (`CodeIsNotOlder` without `"back"` or `"front"`), and a restart goes back to that, against line 489
  (`RestartKeepsVersion` without `"back"`), or registers nothing (`Consistent` without it).
- `PluginManager.ts:317`: a write of the index that was refused does not either: the plugin is in
  `installedIds`, registered and running, and not in the list, which is the state line 315 means to avoid
  ("already installed" on retry, and absent from the list); after an uninstall (line 373) the list keeps what
  is gone from memory, a plain install then replaces it, and the erased code is still listed. The same comes of
  the update of any other plugin whose read fails, which drops this one's entry (`Consistent` without
  `"memory"`, and `"index"`).
- `PluginManager.ts:80`: `init()` takes a read of the index that failed for an empty one, so the image installs
  an older version over a newer one, against line 489, and a plain install replaces what is there, against
  `ExtensionInstallGuard.ts:12` and `:15` (`OnlyForwards`, `NothingReplacedByAccident`, `RestartKeepsVersion`
  and `CodeIsNotOlder` without `"index"`).
- `PluginManager.ts:457`: a `back.js` that does not load is a line in the log: the plugin is installed and
  indexed, and what is registered and runs is nothing, or the version before (`Consistent` without `"load"`).
- `index.ts:1722`: an upgrade in place replaces the channel without a word to its connections, so the links
  of the channel go on reporting CONNECTED, which `IFederation.ts:24` defines as "operational", with an
  instance nobody knows, until they happen to send something (`ComesBack` with `Faults = {"upgrade"}`).
- `SignupApi.ts:69`: a write of the users that fails is not reported, and the request is removed, so the two
  are lost, which `SignupApi.ts:40` means to avoid by writing the user first (`ApprovedIsAUser` with
  `Faults = {"write"}`).
- `SignupStore.ts:40`: a read that fails is taken for no requests, so somebody who was rejected may ask
  again, over the rejection, and the cap is not seen (`RequestsAreNotOverwritten` and `CapHolds` with
  `Faults = {"read"}`); `AuthApi.ts:331` takes one of the users for nobody being a user
  (`OnlyStrangersAsk`).
- `DockerSecrets.ts:19`: the file storages write in place; a core that dies there starts with users it cannot
  parse, which `index.ts:420` takes for a first start, and stores its administrator over them.
- `IndexLock.ts:45`: the entry of an index in `queues` is never deleted (what is stored there is the
  promise of line 38, never `undefined`), where line 43 says that the queue is dropped.
- `RemoteChannel.ts:307`: with STARTs that await the cluster (`Answers = {"later"}`) and one uninstall, an
  accepted START followed by a refused one leaves HANDSHAKING with an instance id, and the watchdog never
  probes again (`HandshakeIsProbed`).
- `RemoteChannel.ts:318` says that all of `sentWithInstance` was refused. Nothing takes a command out when
  it is processed, so what was processed before an uninstall is processed again after it.
- `index.ts:1722`: an upgrade sets the new channel over the running one without the `cleanup()` that the
  uninstall and the hot reload call, though `PluginManager.ts:64` tells why it is needed.
- `PluginApi` does not await `onPluginInstalled`; a DELETE while the channel waits for its providers finds
  nothing to stop, and the channel is set running afterwards (`Consistent` where the channel `waits`).
- `PluginManager.ts:271`: the version guard looks at an index read before the code is written, so of two
  upgrades at once the older may be stored last (`OnlyForwards` with two clients).
- `PluginManager.ts:497`: an image's install that throws leaves the id out of `installedIds`, and any
  plain install then replaces the plugin (`NothingReplacedByAccident` without `"index"`, `Consistent` without
  `"image"`).
- `AuthorizationManagement.ts:120`: `validKey` answers 403 the first time to a key it finds by refreshing
  its cache; `isValidKey`, its "silent twin", does not. `InsistingIsEnough` shows that it heals.
- `ApiKeyApi.ts:198`: a refresh drops every volatile key; one that read the list before a DELETE
  brings the deleted key back; one that drops an expired key may overwrite a key being stored. `:162`:
  the DELETE of a volatile key answers 200 and leaves it in the cache.
- `RemoteChannel.ts:399`: a command sent while the socket is not open is dropped with a line in the log,
  where one sent while the handshake is going on is kept.
- `App.tsx:1931`: a dial that is not answered within the ten seconds of the interval is followed by another,
  and the answer to the first ends the interval though the tab waits for the second by then: nothing is sent,
  or a tab that cannot resume is left stopped, and if the second fails nobody dials again, against line
  1940, "The socket still has to come back"
  (`StreamComesBack` with `Overlaps = TRUE`).
- `index.ts:993`: a RECONNECT that arrives after its socket broke, and after the one of the next socket, takes
  the connection to a socket that is gone (`StartedIsServed` without `astray`, with the fault `"late"`).
- `index.ts:1071`: a START is denied when no pod matches it, nothing is watched, and the tab, which shows the
  message, goes on showing itself started: a pod that starts later is never streamed (`StartedIsServed` and
  `StreamComesBack` where `Deny` leaves `astray` alone).
- `index.ts:1356`: a tab that comes back to a restarted core before its channels are up is answered
  CHANNEL_UNSUPPORTED, which a `RemoteChannel` retries and a tab does not: it goes on showing itself started,
  against `App.tsx:1940` (the same two, where `TurnAway` leaves `astray` alone).
- `index.ts:1084`: in the views by group, pod and container a START may be accepted and watch nothing, or
  only the pods there were: a pod of another name or controller that starts later is not in them. By reading;
  the view modelled is that of a namespace.
- `index.ts:739`: after a hot reload the tab resumes by a RECONNECT, which a channel without connections can
  only answer with "not found": the tab stops, and is not back as the comment says.
- `index.ts:1172`: a STOP ends the instance and not its watch, so the instance is created again when one of
  its pods changes.
- `App.tsx:1977`: a tab of a channel that does not resume, which the user stopped, is started again when
  its socket drops. A STOP before the answer to START, or while there is no socket, reaches nobody.
- `index.ts:1367`: a RECONNECT with a key that is no longer valid, or to a channel that is gone, is answered
  without data, and the tab goes on showing itself started.
- `WebhookApi.ts:178`: a rotation "invalidates the previous one configured in the provider"; a retry of an
  older write that lands last, a write that is refused, or a restart before the write brings the old token
  back (`RevokedStaysDead` without its condition on `order`, with each of `"reorder"`, `"lost"` and `"crash"`). `writeKey`, of the
  configurations, does not retry at all.
- `WebhookManager.ts:666`: saving the configurations of a webhook as they are gives each another URL.
- `index.ts:1680`: two hot installs that require a provider with a configuration both create it, and both
  instances are told (`ToldOnce` without its exception).
- `Consumer.ts:258`: a provider created for a sender or a webhook is never told that its producers are
  there, and what it consumes is not created, which the startup and the installs do.
- `IProvider.ts:50`: a constructor that throws aborts what is left of a startup's or an install's list, and
  its telling, against `Consumer.ts:112`, "One failing does not take the rest down", and `:176`.

## 6. The proofs

TLAPS 1.4.5, with Z3, Zenon and LS4; every leaf is checked.

- **`IndexLockProofs`.** The inductive invariant is `TypeOK /\ OneInside`: only the head of the chain is
  inside its read-modify-write. `OneInside` is what makes the types inductive (the tail of a chain is only
  taken when it is not empty) and it gives `ExclusiveAccess` for any callers, ids, entries and faults. With
  `"read" \notin Faults`, which `index_read_fault` shows to be needed, `NothingLost` is inductive on top of
  it (`NoUpdateLost`), and each step maps to a step of `AtomicIndex` or a stutter: the write is where the
  update takes effect (`UpdateIndexIsAtomic`).
- **`RemoteLinkProofs`.** `IInv` is `TypeOK`, `Assigned` (a START answered with an instance carries one,
  which `ConnectedIsOperational` needs when the answer is read) and `Link`, the three safety invariants
  with `ToldOfSocket`: while the socket is open the consumer was told HANDSHAKING or CONNECTED, and it was
  told DOWN exactly when the link was closed. Without it neither `CloseIsTerminal` nor `Progression` is
  inductive. Five theorems follow, for any commands, instances, replay bound, faults and how often they
  come: `LinkTyped`, `ConnectedOnlyWhenOperational`, `LinkNeverGivesUp`, `CloseIsFinal`, `StatesProgress`.
- **`PluginLifecycleProofs`.** `PluginTyped` assumes nothing. Under `OneAtATime` (at most one client; the installs of
  the image are done before the API is served, `InTurn`) and for any faults, crashes, a store that refuses or does
  not answer, an image and classes that fail, `IInv` adds to the types `Listed` (what the index has is in
  `installedIds`, but between the two assignments or when the entry was taken for missing) and `InStep` (what a
  request has read and written at each of its steps, or what went amiss instead). `IndexNeverAheadOfCode` and
  `InstallsOnlyMoveForwards` follow, for any versions and number of restarts. `Agree` (the memory follows the
  index between the steps that change the one and the other: `IndexIsKnown`, `OnlyInstalled`, `EveryInstalled`,
  `OnlyRegistered`, `InMemory`, `Starting`) and `Asked` are inductive with it, and `WhatRunsIsInstalled`,
  `ReplacedOnlyWhenAsked` and `RestartsNeverGoBack` follow. `OneAtATime` is the only assumption, and two clients
  violate the properties without it; what the faults do break is excepted by the properties themselves, through
  `amiss`, and section 5 shows that each exception is needed.
- **`ApiKeyStoreProofs`.** `KeysTyped` assumes nothing. For requests that come one at a time (`OneAtATime`),
  `SerialInv` says what holds at each step of a request (`InStep`: what it read is still what is stored, and
  what it is about to write keeps every key that was promised) and of the cache (`Cached`).
  `DeletedKeysAreGone` and `PromisedKeysAreCached` follow, for any keys, volatile ones beside them, times and
  kinds of request. For `OneWriter` another invariant is inductive, `WriterInv`: only the administrator has a
  list that will be stored, and it is what is stored with his own change, since the refreshes that cross it
  find nothing to clean. `PermanentKeysLast` has both cases. `keys_login` shows that two writers must not cross.
- **`TabSessionProofs`.** For any sockets, instances, pods and faults, with dials that overlap and messages
  that arrive after their socket broke. `SocketInv` is the types, `Ends` (what one end of a socket knows of it,
  the other knows too or it is cut), `Resumes` (a RECONNECT is the first thing on its socket, and carries the
  tab's instance if it is the tab's) and `OneConnectionEach`, which needs it: a RECONNECT moves a connection to
  a socket that has none. `TabTypes` and `OneConnectionPerSocket` follow. `TabInv` adds `Told` (an instance the
  core answered is watched), `Handled` (a started tab has its handlers on its socket), `Restarted` (a START
  follows a STOP) and `Owed`: a started tab is served, or there is something on its way, up,
  down or in the core, that will say otherwise, unless it went `astray`. When nothing is on its way that is `StartedTabsAreServed`.
- **`WebhookRegistryProofs`.** `RegistryInv`: the two maps are the inverse of each other, every snapshot in
  the store or on its way is injective, and every configuration has a token (`Covered`). It is inductive
  whatever is reordered, lost or interrupted, and `RegistryTyped` and `UrlsAlwaysWork` follow: injectivity is
  what lets a restart rebuild the second map from any snapshot. `OrderInv` adds that no revoked token is in
  memory (`Dead`) unless the core started from writes out of order, and that while they land in their turn the
  last of them has none either, but in the middle of an uninstall (`Synced`): `RevokedTokensStayDead`, for any
  faults.
- **`WiringProofs`.** `IInv` has four parts beside the types: `Orderly` (the startup is alone, and what a task
  awaits is still in its list), `Single` (two instances of a provider only where a configuration is awaited),
  `Wired` (what was told, and what is yet to be) and `Provided`: of what a task or a provider it created
  requires, all that is missing is in the task's list. It makes no assumption, and `WiringTyped`,
  `ProducersComeFirst` and `EveryoneIsToldOnce` follow for any requirements, cycles included.
- **`IdentitiesProofs`.** `AloneInv` is the types, which handlers reach which step (`Shaped`, without which a
  user could be stored bound to nothing), `LockIsHeldInside` and `UsersNotLost`; it is inductive whatever
  fails. `Undisturbed` is what the lock gives: what is true of the Secrets while a handler holds it is not
  undone by another. With it, and `"read" \notin Faults`, `ChecksStand` (what a sign-up or a rejection looked
  at is still so when it is stored) is inductive; `CapIsNeverExceeded`, by counting the requests before and
  after `Save`, `DecisionsStand` and `NoUserAsks` follow. With `"write" \notin Faults`, an approval that
  removes its request has written its user (`Approvals`), and `ApprovalLeavesAUser` follows. Both assumptions
  are needed: section 5. With both, and `Admissions` (an approval goes on with the request it read, of the IdP
  it is bound to, of somebody who is not a user), each step of a handler maps to a step of `Accounts` or to a
  stutter: what a sign-up or an approval writes is where its order takes effect (`AccountsImplemented`).

`IndexLockTyped` is the type invariant of `IndexLock`, from the same `IInv`.

Only model-checked: liveness (`EveryCallSettles`, `ComesBack`, `CutIsNoticed`, `InsistingIsEnough`,
`StreamComesBack`), since TLAPS does not reason about fairness and `ENABLED`. Every other property of a passing
run is stated by a theorem. Facts by induction over data and recursive operators are out of the prover's reach
too; none of the modules needs them.

## 7. What is not modelled

- **Of the identities**: the OIDC state and the handoff codes, the window of attempts of a login, and the
  policies of an IdP, which are a refusal that may come; reads by `GET`; the file storages.
- **Of the tabs**: PAUSE, MODIFY, ROUTE and WEBSOCKET, tabs of delegated clusters, several channels on one
  socket, and what a channel streams; the back pressure of `log`, whose interval keeps the socket it was
  created with after a RECONNECT.
- **Of the wiring**: pluviders and the registry of subscriptions (`Pluvider.ts:132`), a provider installed or
  removed while others run, and a desktop core with several running instances.
- **Of the webhooks**: the verification and the delivery of a callback, which run in the extensions, and the
  senders.
- **The rest of the core**: see the plan, and the note of each component in `PROJECT.json`.
- **The retries inside a write** of the Kubernetes storage (a 409 reads the resource version again and
  overwrites), but for the order in which the webhooks' writes land: two cores on one store, which
  `IndexLock.ts:21` says the lock does not cover.
- **A store of `kwirth.keys` that fails**: the runs of `ApiKeyStore` take its reads and writes as done; what a
  manager makes of one that is not is shown on the indexes (`index_read_fault`) and the plugins.
- **Bearer keys**, which are verified by their signature and have no state; the desktop core's keys, which
  are never refreshed.
- **Dev plugins, packs and front ends** of the plugin manager: the first replace a channel in memory only,
  the others are installs one by one and static files.
- **AI usage, logging, routes, utilities**: counters kept by the database, formatting, registries.
- **Extensions, the rest of the front end, documents and images.** Five sixths of the code of the repository:
  dialogs, tables and drawings in React, and adapters to external services, whose correctness is not a
  matter of order and which a model would only transcribe. The share of the repository that is mapped stays
  small for that reason; of the modules named in section 3, the lines that are mapped are the ones that
  change state.
