# A formal model of flowgo-server

flowgo-server is a Go service that stores flows (graphs of nodes), publishes them as HTTP
routes and MQTT subscriptions, lets editors connect over WebSocket and language-model clients
over MCP, and authorises the latter with a small OAuth server. Little of it is algorithmic;
nearly all of it is *shared state under concurrent requests*: a document database that every
operation reads and then updates by id, tables of listeners and broker connections guarded by
mutexes that are given up between steps, channels and time-outs, and in-memory maps of tokens.
That is what this project models.

Paths are relative to `src/`.

## 1. The system

| Part | State | Operations | What makes it correct |
|---|---|---|---|
| HTTP endpoint manager, `internal/endpoint/manager.go` | per listening address a server with TLS mode, route table, reference count and `ServeMux`; per flow the list of its routes | `SyncFlow`, `RemoveFlow`, `addRoute`, `StartAll` | listener open exactly while used; per-flow lists and muxes agree with the tables; a flow's routes are those of its publication; nobody removes another flow's route |
| Route check, `internal/endpoint/route_check.go` | none | `CheckHTTPRoutes` | what it accepts can be mounted |
| Flow store, `internal/store/flow.go`, `flow_publish.go`, `flow_online.go` | one document per flow: draft, publication with number, history, lock | save, publish, offline, online, rollback, discard, delete a version, lock, migrate | no publication vanishes; numbers name publications; a lock holds |
| Groups and trash, `internal/store/group.go`, `flow_trash.go` | groups; `groupId` and `previousGroupId` of flows | move, soft delete, purge, restore, create and delete a group | references exist; what is in the trash is offline; restore goes home |
| Publishing handlers, `internal/api/flow_publish.go`, `internal/mcp/publish_tools.go` | none of their own: they chain check, store, re-read and sync | publish, offline, online, rollback over REST and MCP | what is served is what is stored as published |
| MQTT endpoint manager, `internal/mqttendpoint/manager.go`, `draft_session.go` | handles per node and track, lists per track, open flows per editor session, counts | `SyncFlow`, `SyncDraft`, `RemoveFlow`, `RemoveDraft`, session updates, `StartAll` | no orphaned or doubled connection; drafts connected only while an editor has them open |
| Composite, `internal/endpoint/composite.go` | none | HTTP first, then MQTT; `StartAll` of both | MQTT serves the publication that HTTP could mount |
| Editor hub, `internal/ws/*` | connections, their send channels, pending queries | upgrade, read and write pumps, broadcast, query and patch round trips, disconnection | no send on a closed channel; a query ends once, with its own answer; editors that are gone leave |
| MCP settings, `internal/store/mcp_settings.go` | the MCP switch of a user | save | switched off means no editor connected |
| OAuth server, `internal/oauth/*` | clients, codes, refresh tokens, in memory | register, authorise, exchange, refresh | a code or refresh token is good once; its line keeps client and user; idle grants die |
| Plugin host, `internal/pluginhost/*` | plugin processes, the types they registered, directories with an executable and a manifest | install, load, enable, disable, uninstall, `LoadAll` | registry, processes, map and directories agree; what is disabled stays so |
| MCP gateway, `internal/mcp/gateway.go` | none of its own | tools over the same store, managers and hub | as the REST handlers |
| Access lists, `internal/store/user.go`, `internal/api/flow_handlers.go` | the flows a user who is no admin may see | extended by a save, replaced by an admin | nothing a user made drops out of their list |
| Authentication, API keys, templates, catalogue, documents, configuration, other fields of users | single records or files | create, edit, delete one record | |
| Executor, `internal/app/executor.go` | none here; the engine is another repository | execute, debug | |

**How the parts interact.** `cmd/server/main.go` builds the store, the executor, the hub and
the two endpoint managers behind a composite, starts `StartAll` in a goroutine and serves at
once. A REST handler or MCP tool (any number at a time) reads a flow, perhaps asks
`CheckHTTPRoutes`, calls one store operation and gives the record it re-reads to
`Composite.SyncFlow`. The reader goroutine of an editor's connection hands the list of flows the
editor has open to the MQTT manager. MCP tools ask editors through the hub and wait. Nothing
spans two of these calls: no transaction, no lock.

**What is hard.** Check-then-act across handler, store and manager; read-then-update by id in
every store operation; `SyncFlow` as a series of lock sections; broker connections that take
seconds without a lock; reference counts; a panic in the middle of a table change; a crash
between two database calls; answers that race their time-outs; tokens that race themselves.
`PROJECT.json` lists the hazards one by one, at their lines, each with the properties that would
catch it or the reason why there is none.

## 2. The modules

| Module | Models | Actions |
|---|---|---|
| `HttpEndpoints` | the HTTP endpoint manager and `CheckHTTPRoutes` | `RemoveFlow` and `addRoute` are one step each, as they hold the mutex throughout; `SyncFlow` is a process of such steps (`SyncBegin`, `SyncRemove`, `AddRoute`, its refusals and failures, `SyncCleanup`, `SyncReturn`). A registration that clashes panics and leaves the table as it is at that point |
| `FlowRecord` | the document of a flow and what each store operation writes to it | pure operators: `Published`, `Unpublished`, `Online`, `RolledBack`, `VersionDeleted`, `Migrated`, `Archived`, ... with two arguments, the document now and the copy the operation decided on |
| `FlowStore` | the store under concurrent callers | `Read` (`FindAll` and the checks), one write action per operation, `SetFlowLocked`, `Crash` |
| `FlowPublishing` | the handlers, the composite, `StartAll` and restarts over `HttpEndpoints` (extended) and `FlowRecord` (instantiated) | `HandlerGet`, `HandlerCheck`, `StoreRead`, `StoreWrite`, `HandlerSync`, the steps of `SyncFlow`, `HandlerReturn`, `HandlerMqtt` (the MQTT half, in one step); `BootBegin`, `BootSync`, `BootNext`, `BootMqtt`, `BootMqttSync`, `BootEnd`; `SaveDraft`; `Restart` |
| `FlowGroups` | groups, trash, purge and what they unload | `SetFlowGroup`, `SoftDeleteOrPurgeFlow`, `RestoreFlow`, `DeleteGroup`, `Publish` begin a request with its first database call and checks; `GetGroup`, `Unpublish`, `Update`, `Purge`, `RemoveEndpoints`, `Reread`, `Sync`, `ListFlows`, `ClearFlow`, `Cleared` are its later calls; a save is `HandleSaveFlow` (the request is authenticated and its user's list read), `SaveFlow`, `UpdateUserFlows`; an admin's `HandleUpdateUser` replaces a list; `CreateGroup`, `SetFlowLocked`; `StartAllLists` and `StartAllSyncs`, first for HTTP and then for MQTT, beside the requests; `Restart` |
| `MqttEndpoints` | the MQTT manager, draft sessions, and the handlers and `StartAll` that drive them | one step per lock section: `Unmount`, `Clear`, `Connect`, `Register`, `Undo`, the session updates, the sweep |
| `PublishedFlows` | abstract: what publishing promises of each flow, without requests, documents or the route table; `Promise` in `FlowPublishing` maps the one to the other (`Phase`, `Answers`) | `Begin`, `Refuse`, `Store`, `Unload`, `Mount`, `Settle` of whoever has the flow to itself; `Fail`, `Withdraw`, `GiveUp` of a mounting that is refused; `Join`, `Contend` while several are at work, `Break`, `Broken` from a panic on, `Restart` |
| `EditorQuery` | abstract: what a round trip promises its caller | `Join`, `Ask`, `Return` |
| `WsHub` | the hub, both goroutines of each connection, round trips, the MCP switch | `Authenticate`, `Enter`, `Read`, `Complete`, `Leave`, `Release`, `Write`, `WriterLeaves`, `Broadcast`, `Ask`, `Send`, `Receive`, `TimeOut`, `Unregister`, `SaveSettings`, `ListConns`, `DisconnectOne`, `EditorVanishes` |
| `OAuthTokens` | codes and refresh tokens | `Register`, `Authorize`, `TokenFromCode`, `TokenFromRefresh`, `IssueTokenResponse`, `IssueFails`, `Tick`, `Restart` |
| `PluginHost` | the plugin host, the handlers over it and `LoadAll` | requests `InstallFile`, `SetEnabled`, `Uninstall` and `LoadAll` begin jobs; `Clear`, `MkdirAll`, `Copy`, `WriteManifest`, `Discard` (upload); `WriteFlag`, `Drop`, `Remove`; `ReadDir`, `UnloadOld`, `Start`, `Register` (one type), `RefuseType`, `RefuseEmpty`, `RewriteManifest`, `Store` (loadFromDir); `Restart` |
| `*Proofs` | theorems about the modules of their names | |
| `MC*` | the instances TLC checks | |

Each module's header says how its state corresponds to the code, and `PROJECT.json` maps every
definition to the lines it models. Definitions whose comment begins with "Slip" are not part of
the model: each is a definition as a plausible mistake would have left it, and the properties
are tested against them (`mutants` in `PROJECT.json`). Variables commented as *history* exist
only for the properties: which calls overlapped, what was granted, where a flow came from.

**Abstractions.** Definitions are reduced to what a part reads of them: a sequence of routers
for HTTP, of nodes for MQTT, an opaque value for the store. Names, notes, times, permissions,
notifications and the wording of errors are left out. Database calls are atomic, as the embedded
database makes them, and what is between two calls of one operation is not. In `WsHub` the
upgrade, joining the hub and the greeting are one step; the patch round trip is the query's over
a map of its own; a user has one settings request at a time. In `OAuthTokens` PKCE, redirect
URIs and secrets are a success or a failure, and lookups of users too. In `FlowGroups` the two
calls inside `UnpublishFlow` and `PublishFlow` are one, as they are `FlowStore`'s subject, and
`SyncFlow` either loads the publication or, failing, nothing. In `FlowPublishing` a handler's reads
of the flow and of its history before the check are one, the later of the two. The MQTT manager
mounts a definition or nothing in one step: how it does so is `MqttEndpoints`. In `PluginHost` a
manifest is whether the plugin is enabled, an executable is the sequence of types it declares,
and the registry (the engine's) and processes (the SDK's) are external; looking a type up,
unregistering what it had and registering it, three calls of the engine, are one step.

## 3. What TLC checks

| Run | Instance | What it shows |
|---|---|---|
| `http_endpoints` | 2 flows, 2 addresses, 3 patterns of which 2 clash, HTTP, HTTPS and a bad key pair, 2 goroutines; unbounded calls | reference counts (`ListenerInUse`), TLS modes (`TlsUniform`), per-flow lists (`IndexExact`) and muxes (`MuxExact`) stay exact under every interleaving, failure and (the first two) panic; a `SyncFlow` nothing overlaps installs exactly its definition (`SoloSyncExact`); what the check accepted is not refused (`CheckedSyncNotRefused`); routes leave only in a removal of their own flow (`OnlyOwnerRemoves`) |
| `http_clash` | the same, 1 goroutine | **violation** of `RemoveUnloadsAll`, see section 6 |
| `flow_store` | 2 definitions, history limit 2, numbers up to 4, 2 goroutines | `PublicationWellFormed` under every interleaving; `NumbersAscend`, `NothingLost` and `NewLiveNewNumber` as long as no update writes over a publication that another has changed since it read, `NumbersAscend` also until the numbering starts again |
| `flow_lock` | 1 goroutine beside the one that locks | **violation** of `LockedUnchanged` |
| `publishing` | 2 flows on one address, clashing and colliding definitions, 2 goroutines, 2 requests or crashes beside `StartAll`, from every database in which the flows are saved and at most one is published, with a history | publishing implements `PublishedFlows` (`PublishingImplemented`): the old routes of a flow go before a new one answers, only what is stored is mounted, and what was mounted whole stays until somebody works on the flow again; after a request that HTTP could mount the MQTT nodes serve what is published, or nothing (`MqttAsPublished`); what a handler that nothing overlapped has checked is mounted (`QuietHandlerNotRefused`) |
| `rollback_unchecked` | 1 flow, 1 goroutine, 6 requests | **violation** of `StoresWhatItChecked` |
| `flow_groups` | 2 flows, 1 group, 1 user beside the admin, 2 goroutines, 3 requests or crashes, 1 request at a time while `StartAll` runs | `GroupsExist`, `TrashedOffline`, `ServedIsPublished`, `ThroughTrash`, for flows on which no two requests have overlapped (nor, of what is served, a request that unloads the flow and `StartAll` that has listed it and not come to it yet), and `ListOnlyGrows`, for users whose list no two requests handled at once, with crashes anywhere |
| `mqtt` | 1 flow, 2 nodes, 2 editor sessions, 2 goroutines, 3 jobs beside `StartAll` | under every interleaving handles can be found by their removal (`HandlesListed`) and counts are exact (`OpenCountExact`); unless jobs overlapped on the flow, no connection is orphaned, dead, doubled, left over or half mounted (`ConnectionsHeld`, `HandlesAlive`, `NoDoubleConnection`, `DraftFollowsEditor`, `PublishedWhole`) |
| `draft_unopened` | the same | **violation** of `DraftOnlyWhileOpen` |
| `ws_hub` | 2 users, 2 connections, a query, send buffers of 1, one change of a switch | no send to a connection that is closed (`MembersOpen`), no entry left behind (`PendingInProgress`), an answer that is accepted finds room in the channel of its query, and comes from an editor of the user who was asked (`ClaimedReplyFits`), nobody stays connected whose switch is off (`SwitchedOffDisconnected`); editors that are gone depart (`EditorsDepart`); the hub implements `EditorQuery`, liveness included (`RoundTripImplemented`) |
| `oauth_tokens` | 2 clients, 2 users, 4 tokens, 2 racing requests, time to 3 | a grant is in one place, good for one use (`GrantInOnePlace`), keeps its client and user through rotations (`LineageKept`) and dies when unused (`IdleGrantDies`) |
| `plugins` | 2 plugins; executables that share a type, declare a built-in one after another, or none; 2 goroutines, 3 processes, 3 requests or restarts | factories call processes that run (`RegistryAlive`), a loaded plugin serves its types (`LoadedServed`), both however requests overlap; no process is forgotten (`NoOrphan`), what is loaded comes back (`ManifestFollowed`), what is disabled stays so (`DisabledStays`), unless requests overlapped on the plugin or, for what comes back, its last upload or write of a manifest failed |

**Bounds and why they are enough.** Two goroutines are the least that race, and every check that
a step makes is on state that one other goroutine can change; two flows on one address are the
least that conflict. The history limit, 20 in the code, is 2 in
`flow_store`: two entries have an order, and a full history loses one of them and keeps the
other; with `MaxVersion` 4 there are numbers for both, the publication and its replacement.
Once a write has been stale, or the numbering has started again, `OneByOne` checks a state with two
operations under way but does not continue it: the properties that remain then speak of
each write alone, and every interleaving up to there is explored. `flow_lock` needs no order and
keeps a limit of 1. `MaxEarly` 1 lets one request at a time race `StartAll`, whose two managers list
for themselves; races between requests are explored once it is done. Three patterns give a route kept, one that conflicts and one that
clashes. `MaxCalls` bounds requests and crashes together where a run would otherwise not end:
each counterexample to a mutant needs no more than the bound, and larger instances were explored
once without finding more (`FlowPublishing` with 3 calls from an empty history, 1.4 million states,
and with 3 goroutines; `MqttEndpoints` with two flows and 2 jobs, some 900,000). Send buffers hold 1 where the
code has room for more, so that they are full in every run. Four tokens are a code with three
rotations, or two codes that race. Three processes let two plugins run while a third load starts.

**Deadlock.** It is checked in `http_endpoints`, `flow_store` and `oauth_tokens` and switched off
where bounded requests end by design (`publishing`, `flow_groups`, `mqtt`, `ws_hub`, `plugins` and
the violations on them): there all clients may have used up their calls.

**Symmetry** is used for flows, nodes, goroutines, groups, plugins and processes in runs that check
no liveness; `ws_hub`, which does, uses none.

**Types.** Every module has a type invariant. The modules whose names have a `Proofs` prove it for
every instance; the runs spend their time on the other properties.

**Fairness.** Only `ws_hub` needs it: `WsHub` assumes weak fairness of the reader and the writer
of each connection, of each round trip and of each disconnection. They are goroutines the Go
scheduler runs, with a deadline on every read and write (`ws/client.go`) and a timer on every
wait (`ws/active_query.go`); users and editors owe nothing, so that no answer, vanishing or
request is assumed to come. `HttpEndpoints` states the same of `SyncFlow`; no run uses it.

## 4. What is proved

The theorems hold for every value of the constants under the `ASSUME`s of the modules, which say
only that null values are not values, that there are finitely many patterns, that limits are
positive numbers, and that the documents publishing starts from are unlocked and migrated.

* `HttpEndpointsProofs`. Type correctness, then four inductive invariants one after another, each
  using those before it: `ListenerInUse` (the reference count is the cardinality of the live
  routes: the lemmas are about what leaves in `RemoveFlow` and what `addRoute` adds), `TlsUniform`,
  `IndexExact` and `MuxExact`. The last two hold until a registration panics; the index is
  inductive only together with the fact that an entry of a flow's list names a route the flow
  owns, which is what makes the loop of `RemoveFlow` find everything. `RemovalsCorrect` is the
  action property `OnlyOwnerRemoves`, from the types and `ListenerInUse`: a server that is closed
  has lost its last route. Then `Marks` says what the marks of the calls in flight are worth (a
  quiet call is alone, a solo one the only one of its flow), and each of two properties follows
  from an invariant of such a call. `SoloCorrect` (`SoloSyncExact`): `RemoveFlow` leaves the flow
  without routes, each router adds its own, and the calls of other flows touch none.
  `CheckedCorrect` (`CheckedSyncNotRefused`) from `Ready`: before `RemoveFlow` the check would
  still pass, after it the routers that remain can be mounted. The step between them is where
  the check's exception is needed, that an address may run in another mode if all its routes
  are the flow's own: then its server is gone.
* `FlowStoreProofs`. `StoreInv` strengthens `PublicationWellFormed`: it also says of each copy an
  operation holds that it was well formed and accepted by that operation's check, since the
  write uses the copy and not the document. The lemmas give, per operation, the form of what it
  writes. `NumbersCorrect` proves `NumbersAscend` from it with `Numbered`, and needs that a fresh
  update works on the publication that is stored. `NumbersGrow` is the action property
  `NewLiveNewNumber`. `PublicationsKept` is `NothingLost`: each of the functions that write is
  shown to keep what was published, in the live definition or in order in the history
  (`ArchivedKeeps`, `ArchivingKeeps`), up to what the limit truncates. It needs `OldIsEmpty`, that a
  document of the old format, and any copy of it in flight, has no history the migration could erase.
* `OAuthTokensProofs`. Type correctness, `GrantInOnePlace`, `LineageKept` and the action property
  `IdleGrantDies`. The first is inductive only with `GrantsIssued`, that no place holds a grant
  whose code was not issued yet: a new code then starts a grant that is nowhere else. Every step
  is first shown to be of one of three forms: places only empty, one grant moves from a place to
  another, or one begins. The last rests on `DatesInv`: a code or a refresh token expires no later
  than its term after the last use of its grant, which is why a rotation must count from now; and
  on `GrantInOnePlace`, since while the code is there no refresh token can outlive it.

* `WsHubProofs`. Type correctness, then `MembersOpen`, `PendingInProgress`, `ClaimedReplyFits` and
  `SwitchedOffDisconnected`, for any number of users, connections and queries. The first needs
  that a connection in the hub is one whose goroutines have not both left; the third that what is
  in the channel of a query and what a reader has claimed for it were sent to it, and that whoever a query reaches is an editor
  of its user;
  the last follows a disconnection through its loop: whoever is connected and not yet visited is
  on the list it still has. `RoundTripSafe` is the safety part of the refinement: every step of
  the hub maps to a step of `EditorQuery` or a stutter.
* `FlowGroupsProofs`. Each of its properties is proved of a flow (a user) on which no two requests
  have overlapped, from an invariant of that flow alone: the document with its history (`Kept`,
  `Apart`), and, for each request under way on it, what the request knows at the place where it
  is (`Worked`) or has still on its list (`Listed`). What is served needs one fact more
  (`Awaited`): a flow that `StartAll` has listed and not come to is still published and no request
  on it is about to unload it, unless it counts as overtaken. A step of a request on another flow leaves
  all of it untouched, which is one lemma; what remains is one step per place. `ListOnlyGrows` is
  proved in the same way of users, and the action property `ThroughTrash` from the invariant.
* `MqttEndpointsProofs`. Type correctness, where the length of a loop matters: a job that mounts or
  registers has a definition and an index into it. `HandlesListed` (the list of a track and the
  handles of a track name the same nodes) holds whatever jobs interleave; `OpenCountExact` relates
  a counter to the cardinality of the set of sessions it stands for. The other five are about
  flows on which no two jobs have overlapped, and rest on `FlowsInv`: such a flow has one track at
  most, is as it should be when nothing is at work on it (`Calm`), and otherwise one job is, which
  knows how it stands (`Knows`; at each place of `SyncFlow` and `SyncDraft`, `Work`: for instance,
  that what is mounted so far are the nodes before the next). Each step is shown to turn one job
  into another with an `Outcome` for every flow: the job's own goes on or comes to rest, all
  others are left alone. That gives `NoDoubleConnection`, `DraftFollowsEditor` and
  `PublishedWhole`. `ConnsInv` follows the connections: each belongs to one flow (`OneFlow`), a
  handle goes with its connection (`Alive`, for `HandlesAlive`) and a connection has one handle or
  job that owns it (`OneOwner`, for `ConnectionsHeld`). The steps are of four forms here: nothing
  changes, a track is cleared, a handle is taken, or registered. `ConnectionsHeld` has the
  hypothesis `DistinctIds`, that the nodes of a definition have distinct ids: nothing in the code
  checks it, and a second node of one id would take the place of the first, still connected.
* `PluginHostProofs`. Two invariants beside the types. Of processes: no two of the map's entries and
  the loads in progress keep the same process, whoever keeps a process lists the types that lead
  to it, and a listed type leads to it unless it was contested. It holds however requests overlap
  and gives `RegistryAlive` and `LoadedServed`; `NoOrphan` adds that what runs is kept. The lemmas
  are about the six things a step can do to processes: nothing, unload, start, register, refuse,
  hand over to the map. Of plugins: what a job alone on a plugin knows of its directory and
  entry at each place, from which `ManifestFollowed` and `DisabledStays` follow, through restarts.
* `FlowPublishingProofs` extends `HttpEndpointsProofs`. A step of the composite is a step of
  `HttpEndpoints`, leaves its variables alone, or is a restart, which empties them: so every
  invariant of the route table holds here too (`TableCarried`). Of the jobs, a lemma per operation
  first says what the step makes of the job, the document and what MQTT serves; types follow, and
  that a goroutine inside `SyncFlow` has a job waiting for it. Then, one invariant on the other:
  `AloneExact` and `TodoOnce` (a job marked alone has its flow to itself), `HoldsLive` (such a job
  works with what the document says is published), and `Synced` (its `SyncFlow` is solo, so by
  `SoloSyncExact` it has mounted that definition if it ends well). `Served` and `Followed` keep it
  when the job is over, and give `ServedCorrect` (`ServedAsPublished`, the invariant that HTTP
  serves what an undisturbed job published) and `MqttCorrect`. `QuietKnows` follows a handler
  that nothing overlaps from its check through the update to `SyncFlow`: what is published when
  it gets there is what it checked, provided a rollback's version names one entry. With
  `CheckedReady` of the table that gives `QuietCorrect`.

  `PromiseCorrect` is the refinement: `FlowPublishing` implements `PublishedFlows`. It is shown flow
  by flow (`PromiseStep`). `Bystanders` says that a step which leaves a flow's routes, document and
  jobs alone is a stutter for it. Of a handler or `StartAll`, `AwayFlow` treats the flows it is not
  at work on (where it may arrive: `Begin` or `Join`), `LeaveFlow` those it leaves (where `Synced`
  makes the end of a good job `Settle`) and `WorkFlow` those it goes on with. Of a goroutine inside
  `SyncFlow`, `SyncingFlow` treats its own flow, and all others, whose routes stay as they are
  (`OthersStay`). `BreakStep`, `BrokenStep` and `RestartStep` are the rest. One more invariant is
  needed, `PanicDirty`: a call that panicked has marked the history, so that no job leaves a flow
  half mounted that counts as kept. `WholeCorrect` then follows from the abstract specification
  alone: a flow that is kept answers with its whole publication and nothing else. Nothing is promised of a flow while
  several jobs are at work on it, which is the code's own weakness (the hazards at
  `manager.go:96` and `flow_publish.go:81`), and nothing of any flow after a panic until a restart.

Every invariant and every action property of the passing runs is a theorem, and so is the
refinement of `PublishedFlows`, which promises safety only. Only model-checked is liveness, which
is outside what the prover handles: `EditorsDepart` and the liveness part of `EditorQuery`.

## 5. What is not modelled

The execution of flows (`internal/app/executor.go` picks what to run; the engine with its node
cache is another repository), what an MQTT message executes and the connection test
(`dispatch.go`, `probe.go`), authentication and API keys, response templates, component documents
and catalogue, settings other than the MCP switch, configuration: single records or files,
written one at a time, or pure input and output. Of the modelled parts: what a request that
reaches a route executes; the `allowCors` flag; the three seconds a listener takes to shut down;
permissions of MCP tools; the text of notes; the documents a plugin brings along; what a broker or
an editor does with what it gets. `PROJECT.json` gives the reason for each part.

One hazard has no property: two first saves of one id insert two documents (`store/flow.go:115`),
where ids are random and the models have one document per id. Of another a part is left: `StartAll`
runs where nothing recovers a panic (`manager.go:80`), so that a stored publication that clashes
ends every start; in the models the process is then dead and no more is said.

## 6. Where the code and its comments disagree

* **`RemoveFlow` may leave routes behind** (`endpoint/manager.go:123`). Patterns that differ as
  strings but clash in `http.ServeMux` pass both the check and `addRoute`; the registration
  panics after the table has taken the route, and so does every later rebuild of that mux, in the
  middle of `RemoveFlow`'s loop (run `http_clash`).
* **A locked flow can still change** (`store/flow.go:25`): an operation that read it before the
  lock writes after it (run `flow_lock`).
* **A rollback may store what was not checked** (`api/middleware.go:45`): after an offline period
  two history entries may carry one number; the handler checks the newest, the store installs the
  oldest (run `rollback_unchecked`).
* **A draft may stay connected with no editor** (`mqttendpoint/draft_session.go:2`): the last
  editor leaves while the draft is still connecting (run `draft_unopened`).

## 7. Observations

Behaviours met while modelling that no document contradicts; the models contain them, and the
properties are stated so that they say what holds nevertheless.

* *Plugins.* A built-in node whose `Source` is empty can be replaced by a plugin, as
  `manager.go:305` compares the source while `component_handlers.go:138` treats an empty one as built
  in. An upload that fails removes the directory of the plugin that is loaded, which runs on until
  the next start. A plugin may take over a type of another; when the other is unloaded, the type is
  unregistered. A load that is refused at its second type leaves the first registered for a
  process that was closed (`stranded` in the model). The manifest a load writes last undoes a
  disable that came in between.
* *Access lists.* `toolSaveFlow` of the MCP gateway does not call `UpdateUserFlows`: a flow that a user
  who is no admin makes over MCP is not on that user's list. Ids of purged flows stay on lists.
* *OAuth.* A refresh token is taken before the client is authenticated and the answer is sent
  (`oauth/token.go:74`): a failure or a lost answer costs the client its grant.
* *Editors.* A patch goes to every connection of the user, and the first answer wins
  (`ws/active_patch.go:62`): two editors may both apply it. The reader of a connection waits while
  drafts connect (`ws/client.go:69`), and answers behind the session list wait with it.
* *Start.* `StartAll` runs beside the requests (`cmd/server/main.go:88`) and gives `SyncFlow` each
  record as it listed it (`endpoint/manager.go:76`). A flow that a request takes offline, into the
  trash or out of the store in between is served again, until a later request unloads it or the
  process ends (`overtaken` in `FlowGroups`); no two requests need overlap.
* *Composite.* When HTTP refuses a publication at start, MQTT may mount it, as the two list the flows
  each for itself; in a request MQTT is then not tried.

## 8. Plan

The order was: the endpoint manager (the shared state everything ends in), the store, the two
composed by the publishing handlers, MQTT, the hub, OAuth, groups and trash, the plugin host and
access lists, proofs along the way, and `PublishedFlows`, which `FlowPublishing` implements. Left,
if the models grow: two documents of one id in the store, and the restarts of a process that a
stored publication ends.
