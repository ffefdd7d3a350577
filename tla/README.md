# TLA+ specifications of the scheduler simulator

This directory holds TLA+ specifications of the program in `src/`: a fork of
kube-scheduler-simulator (Go), with plugins that ask a learned model where to put
a pod. Paths below are relative to `src/kube-scheduler-simulator/simulator/`
unless they start with `src/`.

## The system

A simulator server and a *debuggable scheduler* run in two containers beside a
fake cluster (etcd, kube-apiserver, KWOK).  They share a volume with the
scheduler's configuration file, and both talk to the kube-apiserver.

| component | where | state it keeps | operations | talks to |
| --- | --- | --- | --- | --- |
| Wrapped plugins | `scheduler/plugin/wrappedplugin.go` | none of its own | one method per extension point: Before hook, original plugin, record the result, After hook | result store, kube-scheduler |
| Plugin result store | `scheduler/plugin/resultstore/store.go` | map from `namespace/name` to a struct of results, under a mutex | `Add*`, `GetStoredResult`, `DeleteData` | written by plugins, read by the reflector |
| Extender proxy and its store | `scheduler/extender/` | the extenders' clients; a map like the above | `Filter`, `Prioritize`, `Preempt`, `Bind` forwarded and recorded | kube-scheduler, the real extenders |
| Store reflector | `scheduler/storereflector/` | the registered stores | on every pod update: read the pod, collect the results, update the pod (retrying conflicts), delete the results | kube-apiserver, stores |
| Scheduler service | `scheduler/scheduler.go`, `server/handler/schedulerconfig.go`, `scheduler/config/`, `config/` | initial and current configuration, the shared file, the container | apply a configuration, reset, restart with rollback | Docker, the file |
| Plugin set conversion | `scheduler/plugin/plugins.go`, `scheduler/config/` | none (pure) | merge user and default plugin sets, weights, plugin arguments | scheduler start-up |
| Syncer, one-shot importer, applier | `syncer/`, `oneshotimporter/`, `resourceapplier/` | informer caches | create, update, delete in the simulated cluster what happens in a real one | two clusters |
| Resource watcher, web stores | `resourcewatcher/`, `src/kube-scheduler-simulator/web/` | last resource version per kind; the browser's lists | list, watch, stream events, reconnect | kube-apiserver, browser |
| Reset | `reset/reset.go` | the etcd contents at start-up | delete all, put all back, reset the scheduler | etcd, scheduler service |
| Snapshot | `snapshot/snapshot.go` | none | list all kinds; restart the scheduler and apply all kinds in phases | kube-apiserver, scheduler service |
| DRL and Logger plugins | `drlScheduler/`, `logScheduler/` | the cycle state; two CSV files | ask the inference server in PreScore, score; log | inference server |

Left out, with the reason in `PROJECT.json`: HTTP routing and wiring
(`server/`, `cmd/`), the learned models and their servers (`src/drl`,
`src/energy`: floating point, no protocol), the scenario controller (its
`Reconcile` is an empty scaffold), and deployment data.

### What is hard about it, and what would make it correct

* **Store reflector.** Plugins record while the handler works; the handler reads
  two stores and deletes from two stores, without a lock over both; the API
  server may refuse, fail, or apply an update and lose the answer; a pod may be
  replaced by another of the same name; the scheduler may restart. It is correct
  if the history on the pod is a faithful log (in order, nothing twice), nothing
  leaves a store without having reached the pod, no write of another client is
  undone, and it comes to rest.
* **Scheduler service.** No lock, a file shared with another process, a restart
  observed once. It is correct if what it reports as the current configuration is
  the one the scheduler runs, and a failed change leaves the old one in force.
* **Syncer.** Two clusters, informers of several kinds in parallel, a destination
  that others write to. It is correct if the destination converges to the source,
  except for pods that are scheduled.
* **Watcher.** It is correct if the browser's lists converge to the cluster
  without an object twice or missing, across reconnections.
* **Reset and snapshot.** Correct if they restore what was there, whole or not at
  all, and in an order the API server and the scheduler accept.
* **Plugin sets.** Correct if the merged set enables what the user and the
  defaults together enable, in the scheduler's order, and a score is weighted as
  the scheduler weights it.

`PROJECT.json` lists every hazard at its line with the properties about it, or
the reason why there is none.

## The modules and how they fit together

| module | models | used by |
| --- | --- | --- |
| `ResultData` | the result stores, down to the last recording under an annotation key | `StoreReflector` |
| `StoreReflector` | the pod informer's handler between stores and API server | |
| `PluginResults` | the plugin result store with the maps under each key, and weights | `SchedulingCycle` |
| `ExtenderProxy` | rewriting of the extender configuration, routing, recording | `SchedulingCycle` |
| `Selection` | the elements of a list that are in a set, in their order | `Framework`, `ExtenderProxy`, `SchedulingCycle`, `PluginSets` |
| `Framework` | kube-scheduler's framework, as plugins see it (external) | `SchedulingCycle`, `OriginalCycle` |
| `OriginalCycle` | **abstract**: scheduling with the original plugins and extenders | refined by `SchedulingCycle` |
| `SchedulingCycle` | the wrapped plugins and the proxy within one pod's scheduling | |
| `SchedulerConfig` | scheduler service, configuration file, both containers | |
| `PluginSets` | conversion of a profile's plugin sets, as operators | `DebuggableScheduler` |
| `SchedulerLogger` | the Logger plugin's files | `DebuggableScheduler` |
| `DebuggableScheduler` | start-up from the user's profile to a running scheduler, and restarts | |
| `Clusters`, `ResourceApplier`, `Syncer`, `OneShotImporter` | two clusters, the writes to one, and who makes them | `ClusterImport` |
| `ClusterImport` | their composition | |
| `RestoredCluster` | the simulated cluster, everyone who writes to it, requests, the error group | `Snapshot`, `Reset` |
| `Snapshot`, `Reset` | the two services | `ClusterRestore` |
| `ClusterRestore` | their composition | |
| `EventLog` | the API server as a watcher sees it (external) | `ResourceWatcher` |
| `ResourceWatcher` | the watch API of the server | `WebStores` |
| `WebStores` | the page and its stores | `ResourceView` |
| `ResourceView` | cluster, server and page together | |

The same code appears in two modules only where two questions need different
detail: the stores (races in `ResultData`, content in `PluginResults`), a
scheduling cycle (for the reflector in `StoreReflector`, for the scheduler in
`SchedulingCycle`), and the restart of the scheduler (by request in
`SchedulerConfig`; as a step that a reset or a load waits for, and that may fail, in
`Reset` and `Snapshot`).

### What is left to do

* An abstract specification of the result log for `StoreReflector`, and of a
  register with restart for `SchedulerConfig`.
* The integer arithmetic of the DRL and Logger plugins (units, percentages) at its
  real width.

## Modules

### `ResultData`

The data, abstracted to what the properties can tell apart. An annotation key
(`filter-result`, `bind-result`, ...) is a *cell*; the map under it is the
*recording* put into it last: a token with a serial number and the pod
incarnation it was made for. `AddResult` stands for every `Add*` of both stores
(create the struct on the first result, then set the cell). `GetStoredResult`
keeps the detail that matters: once there is an entry, **every** built-in key of
that store is in the returned map, with `{}` where nothing was recorded, and a
custom key only if it was recorded.

### `StoreReflector`

| state | in the code |
| --- | --- |
| `api`, `rv` | the pods at the kube-apiserver; resource versions |
| `queue` | the pod updates on their way to the handler (one goroutine per handler, in order) |
| `results` | `Store.results` of each registered store, by `namespace/name` |
| `sched`, `cycles` | where `scheduleOne` and the bind cycle are with a pod |
| `hpc`, `event`, `tries`, `copy`, `resultSet`, `todo` | the handler's place, its argument, the backoff's steps, `newPod`, `resultSet`, the stores its loop has left |
| `late`, `errors`, `ambiguous`, `crashes` | history variables: recordings made after the handler read their store; faults so far |

| action | code |
| --- | --- |
| `Create`, `Delete`, `Touch`, `Relist` | users, controllers, kubelet; an informer that lost its watch (external) |
| `StartCycle`, `Record`, `Bind`, `BindFails`, `RecordBind`, `FailCycle` | a scheduling cycle as the stores see it: the wrapped plugins record before Bind, `wrappedPlugin.Bind` calls the API server and records afterwards, a failed cycle patches the pod's condition unless it is there already |
| `Handle`, `GetPod`, `GetPodFails` | `storeAllResultToPodFunc` up to the UID check (storereflector.go:78-99) |
| `ReadStore(s)` | one `GetStoredResult`, in any order, as Go ranges over a map (103-117) |
| `UpdatePod`, `UpdateConflicts`, `UpdateFails`, `UpdateAnswerLost` | the four outcomes of the update (124-139), with the six steps of `util/retry.go` as `RetrySteps` |
| `DeleteData(s)` | one `DeleteData` (141-144) |
| `Crash` | the container restarts (`scheduler/scheduler.go:58-85`): stores, queue and handler are gone, pods stay |

A step is what no other process can interrupt: one API call, or one hold of a
store's mutex. Writing the annotations and the history happens on the handler's
own copy of the pod, so it is part of the update step.

### `SchedulerConfig`

| state | in the code |
| --- | --- |
| `configured` | whether a path is set, in `KUBE_SCHEDULER_CONFIG_PATH` or `config.yaml` (chosen once) |
| `initial`, `current` | `Service.initialSchedulerCfg`, `Service.currentSchedulerCfg`; `NoConfig` is the nil pointer |
| `file` | the file both containers mount: a configuration, `{}` (what a nil one is written as), empty, or a mixture of two writes |
| `proc`, `active` | the scheduler's container as Docker reports it, and the configuration the running process has read |
| `server` | the simulator server's own container |
| `pc`, `job` | the goroutine of each request: its place in `RestartScheduler`, the new and the old configuration, the attempt |
| `last`, and `alone`, `before`, `seen` in a job | history: how the last request ended, whether others were in flight with it, the file and the faults when it began |

| action | code |
| --- | --- |
| `Apply`, `Reset`, `Import` | `ApplySchedulerConfig` (reads the current configuration and replaces profiles and extenders), `ResetScheduler`, `Service.Load` |
| `ReadOld` | `GetSchedulerCfg` (scheduler.go:97) |
| `Find`, `NotFound` | `ContainerList` and the search in it (59-66, 84) |
| `Truncate`, `Write` | `UpdateSchedulerConfig`: `os.WriteFile` empties the file, then writes from its start |
| `Restart`, `Inspect` | `ContainerRestart`, `ContainerInspect` (71-80); `Inspect` that sees a running container is also the end of `RestartScheduler` (109) |
| `CallFails` | any of these calls returns an error |
| `Load`, `StartAgain`, `Exit` | the scheduler reads the file (`NewConfigs`) and comes up or exits; Docker starts it again; it exits for reasons of its own |
| `ServerExit`, `ServerStart` | the server's container restarts and reads the configuration anew (`config.NewConfig`) |

A configuration is a record of two fields: what an apply request replaces
(profiles, extenders) and the rest. Which ones decode and which ones the
scheduler comes up with are constants. An apply request while the current
configuration is nil panics in the handler and changes nothing, so there is no
action for it. A mixture of two writes is taken not to decode. `ContainerRestart`
is one step: Docker serialises what it does to a container.

### `Clusters`, `ResourceApplier`, `Syncer`, `OneShotImporter`, `ClusterImport`

`Clusters` holds the two clusters and what others do to them; it is external.
`ResourceApplier` extends it with the calls that write to the destination, and
`Syncer` and `OneShotImporter` are its two callers. `ClusterImport` composes them:
a simulator runs in one mode or the other (`config/config.go:88`).

| state | in the code |
| --- | --- |
| `src`, `version`, `dst` | the objects of the two clusters; an object is its UID, its version, `at`: the node of a pod, the UID in a volume's claimRef, and `bound`: that a volume's phase is Bound |
| `job` | the call of the applier in progress for an object, and the claim `mutatePV` has looked up |
| `queue`, `known`, `watch` | each kind's events on their way to its handler, the informers' stores, their watches |
| `phase`, `outcome` | the importer's place in `DefaultGVRs`, and how it ended |
| `made`, `behind` | history: UIDs created at the destination; objects whose last event failed, was dropped, or that were removed |

| action | code |
| --- | --- |
| `SrcCreate`, `SrcUpdate`, `SrcPlace`, `SrcDelete` | the source cluster (external); `SrcPlace` schedules a pod, or writes a volume's claimRef |
| `SrcBind`, `SrcReclaim` | the volume's phase follows its claimRef, to Bound or to Released, which keeps the claimRef; someone clears that (external) |
| `DstSchedule`, `DstTerminate`, `DstRemove` | the simulator's scheduler, KWOK, users and preemption (external) |
| `ListAndWatch`, `LoseWatch`, `Notify` | client-go's informers: first list, relist with tombstones, events (external but for how `Run` starts them) |
| `AddFunc`, `UpdateFunc`, `DeleteFunc` | the event handlers (syncer.go:76-126), one goroutine per kind |
| `LookUpClaim`, `CreateResource`, `UpdateResource`, `DeleteResource`, `CallFails` | the applier's requests; filters and mutations are local and belong to the step before (`Begin`) or to the request (`Mutated`) |
| `ImportResource`, `ListFails`, `ImportReturns` | the importer: list a kind, create all of it at once, wait, go on |

What is assumed of the API server: it refuses a pod whose priority class is
missing, refuses to take a pod off its node by an update, keeps a deleted pod
until it is off its node, and otherwise leaves what it is sent as it is (the
ServiceAccount admission plugin, which would make every update of a pod fail, is
taken to be off, as KWOK runs it). What it does not check is a volume's claimRef:
`mutatePV` replaces the UID in it only if the phase is Bound (resource.go:45), so a
volume that is copied before its phase was set, or after its release, names its claim
by the source's UID. A namespace behaves like a priority class
when a pod is created; that deleting it empties it is left out. In the importer
`&resource` is the variable of one iteration, as in Go 1.22 and later.

### `PluginResults`, `ExtenderProxy`, `Framework`, `OriginalCycle`, `SchedulingCycle`

One pod is scheduled over a few nodes, attempt after attempt. `Framework` has
kube-scheduler's part: the points in their order, plugins called one after the
other or, for filters and scores, per node in parallel, and what each status does.
It asks two things of its user: which plugins are called at a point (`ListAt`) and
what they return.

| state | in the code |
| --- | --- |
| `point`, `todo`, `lane`, `alive`, `skipped`, `waiting`, `score`, `extScore`, `node`, `cycles` | the scheduler (external) |
| `store`, `extStore` | the pod's entry in the plugin store and in the extender store |
| `answer` | what the original plugin or the real extender said last |
| `held` | the originals whose Reserve ran and whose Unreserve did not |
| `whole`, `dryRun`, `reflects` | history: the entries hold this attempt and only it; a preemption ran; deletions |

| action | code |
| --- | --- |
| `PreFilter` ... `Unreserve` | the methods of `wrappedPlugin`: neutral answer without an original, Before hook, original, recording, After hook (`Ways`) |
| `DryRunFilter`, `ExtPreempt` | a preempting PostFilter plugin calls the profile's (wrapped) filters and the extenders again |
| `ExtFilter`, `ExtPrioritize`, `ExtBind` | a call to the proxy, on to the extender it is routed to, its recording |
| `Reflect` | the reflector deletes an entry |
| `Begin`, `Scheduler` | kube-scheduler |

*The refinement.* `OriginalCycle` is the same framework with the original plugins
at those points only that they implement, calling the real extenders, with a hook
allowed to change an answer. `BehavesAsOriginal == Promise!Spec` maps `todo` and
`lane` to the calls that are left for that scheduler (`Unwrapped`), so a call of a
wrapper without an original is a stutter; `answer` makes sure that the right
extender was asked: each answer carries the URL and the verb of the service that
gave it, and the promise has the ones that the user configured (`Served`). The
proxy's factor on priorities is a parameter of the promise (`ProxyFactor`): the code
multiplies by weight and range, and kube-scheduler multiplies the answer again.

*What the results explain.* The properties about the stores are about an attempt
whose entries hold all of its results and no others (`whole`), and each names when
something else may have its way: a user's hook overrules what was recorded
(`Unhooked`, or `Hooked` in `NoneRefused` and `FailedHoldsNothing`); a preemption
tries the filters on nodes as they might be (`dryRun`); and two extenders configured
under one URL overwrite each other's results, since the store knows an extender by
its URL only (`OneUrlEach`).

### `PluginSets`, `SchedulerLogger`, `DebuggableScheduler`

`PluginSets` has the functions of `scheduler/plugin/plugins.go` as operators over
plugin sets, and what kube-scheduler does with the result: defaulting, expansion of
MultiPoint, weights (external). A name is a pair: the plugin, and whether it is the
wrapped one. `DebuggableScheduler` runs them in the order of the command
(`NewConfigs`, `NewRegistry`, `AddTypeDefaultingFunc`, `Start`): the scheme's
defaulting function is state, and the default configuration that conversion and
registry start from comes out of it. A restart is a new process that starts over.
`EffectiveSame` compares the expansion of what the scheduler ends up with to that
of the user's own profile. `InstancesAssumption` says which profiles there are: those
that kube-scheduler accepts, so that a plugin configured at a point implements it
(wrapped, it would be accepted even if it does not), and whose plugins the simulator
registers: the default ones and those that are not in-tree. An in-tree plugin that
the default MultiPoint does not have is wrapped by name but not registered, and the
scheduler does not start.

`SchedulerLogger` has the rows of the Logger's two files; whether it is called is
decided by the expansion. Rows carry the attempt as history, which the files do not
have.

| state | in the code |
| --- | --- |
| `states`, `actions` | the whole rows of the two files |
| `exist`, `torn`, `broken`, `faults` | the files there are; those that end in part of a row; those whose `csv.Writer` has kept an error; how often a write to each has failed |
| `cycle`, `binding`, `assigned`, `unaware` | the attempt being scheduled and those being bound; the bindings at the API server, and those that the scheduler has not been told of (external) |
| `missed`, `cut` | history: rows that were to be written and are not there; bindings after which PostBind did not run |

| action | code |
| --- | --- |
| `New`, `NewFails` | `New` and `initSpecificLogger` (logScheduler/plugin.go:78-119); a header that could not be written is not noticed, as `Flush` returns nothing |
| `Score`, `PostBind` | a row is written (`Written`), or not (`NotWritten`): the write fails and is only logged (286-290, 312-316), the writer has failed before, or the row continues a part of another |
| `Schedule`, `CycleFails`, `Assume`, `Bind`, `SeesBound` | kube-scheduler (external); `Bind` may be applied and its answer lost, and then PostBind does not run |
| `StartFails`, `Restart` | a file cannot be opened, and the scheduler does not start; the process ends |

### `RestoredCluster`, `Snapshot`, `Reset`, `ClusterRestore`

| state | in the code |
| --- | --- |
| `db` | etcd: an object is gone, or has a uid (claims), the uid that its claimRef names and whether its phase is Bound (volumes), a node or none (pods) |
| `initial` | `Service.initialData` of the reset service |
| `file` | a snapshot kept by the user, and of each object in it whether the resourceVersion that was saved is the object's still |
| `req` | each request's goroutine: `pc`, the functions of its error group that have not ended (`tasks`), the group's error, the snapshot it builds or loads, looked up claims; history: objects others wrote meanwhile, look-ups without an answer, refusals |

| action | code |
| --- | --- |
| `Snap`, `List`, `ListFails`, `SnapReturns` | `snapshot.go:103-149`, one call per kind, in parallel as far as the group's semaphore lets them |
| `Load`, `RestartScheduler`, `LookUpClaim`, `Apply`, `ApplyFails`, `NextPhase` | `snapshot.go:154-215` and the `apply` functions |
| `ResetRequest`, `DeleteAll`, `Put`, `PutsReturn`, `ResetScheduler` and their failures | `reset.go:58-85` |
| `ServerRestart` | the server dies with its requests; `NewResetService` reads what is there (33-55) |
| `Create`, `Delete`, `Update`, `Place`, `BindVolume`, `SetPhase` | everyone else (external) |

Server-side apply is taken to keep or drop a field it is not given, depending on
whether this manager had set it: a nondeterministic choice. An object that is there is applied
only if the resourceVersion that is sent, if one is, is its own (`Admits`): Load clears
the UIDs of its file, not the versions. Whoever writes an object makes every saved version
of it old (`Outdated`), an apply that changes nothing excepted. A saved version of an
object that is gone is taken to be no obstacle to creating it. `Delete` of everything
is one transaction of etcd.

### `EventLog`, `ResourceWatcher`, `WebStores`, `ResourceView`

| state | in the code |
| --- | --- |
| `log`, `floor` | the API server's events by resource version; what was compacted (external) |
| `handler`, `hungUp`, `stop` | `ListWatch` of the request in progress; its context; `runctx` |
| `proxy` | each kind's `eventProxy` and goroutine: its version, listed items not sent yet, the event in hand |
| `context`, `pooled` | the echo context that each request was given, with the Response in it; those that wait in echo's pool (external) |
| `left` | the goroutines of earlier requests, with what they may still write |
| `wire`, `mixed` | what was written to the response and not read yet; history: whether any of it, or of what was read, came from a goroutine of an earlier request |
| `page`, `store`, `lrv` | where `ResourceWatcher.vue` is; the stores' items; their `lastResourceVersion` |
| `mode` | whether the client is that page, or one that gives no versions and begins with nothing (`raw`) |

| action | code |
| --- | --- |
| `DoListAndWatch`, `SendListedItem`, `ListSent` | `resourcewatcher.go:106`, `eventproxy.go:66-119` |
| `Connect`, `WatchCloses` | client-go's RetryWatcher (external), `createWatcher` |
| `Receive`, `StopCh`, `WriteEvent` | `watchHandlerFunc` (126-165) |
| `ListWatchReturns`, `FormerReturns`, `Ends` | `ListWatch`'s select, `run`'s deferred cancel; the context goes back to the pool |
| `LeftoverWrites` | a goroutine of an earlier request writes to the Response that was that request's (handler/watcher.go:38), if the present request has it |
| `InitList`, `WatchResources`, `ProcessText`, `Done`, `Breaks`, `Reload` | `ResourceWatcher.vue`, `store/*.ts` |

`ListWatch` does not wait for its goroutines. When a request follows, those that have not
ended become `left`, each with the items and the versions that it may still write; what it
writes while nobody has its context is lost, so it may skip any of it. The request is given
a new context or one from the pool. The versions that the server goes by are
those that the handler reads (`LastResourceVersions`), under the page's parameter names.
Echo's pool is external: what is assumed is that a context is reused only after its handler
has returned, and that a write through a reused Response goes to its new request.

## Runs

Each cfg sets `CHECK_DEADLOCK FALSE`: the bounds on the environment end every
behaviour, and an idle reflector, server or page waits for events.

| run | what it asks | instance | result |
| --- | --- | --- | --- |
| `reflector_safety` | `HistoryOrdered`, `DropsNothingOwed`, `KeepsForeignWrites`, `HistoryGrowsForEvent`, and the invariants `IInv` (with the types) and `DropInv` that the proofs use | one pod name and two incarnations of it, the two stores, a cell recorded before Bind and one after, two recordings, one foreign write, one fault | holds; 1.5 million states |
| `reflector_liveness` | `Quiesces`, `StoredIsHandled` | one incarnation, two cycles, one store with a built-in, a bind and a custom cell, histories that decode and that do not | holds; 46 000 states |
| `reflector_finished` | the comment at storereflector.go:54 (`AllResultsWhenFinished`) | one cycle, no faults | **violated** |
| `schedcfg` | `CleanRequestAgrees`, `RollbackRestoresFile`, `ResetRestoresReadable`, `ApplyKeepsRest`, `CleanRequestTakesEffect`, and the inductive invariant `IInv` (with the types) | two requests in two goroutines, one after the other or overlapping, with and without a configured path, one fault; profiles that are good and that the scheduler exits with; imports of a good configuration, one without kind, and none | holds; 0.9 million states |
| `schedcfg_accepted` | docs/api.md:24 and :7 (`AcceptedIsRun`) | one request, no faults | **violated** |
| `cluster_import` | `SameObjects`, `SameVersions`, `ClaimReferencesAreLocal`, `ImportIsComplete`, `RemovedStaysRemoved`, `Settles`, and the inductive invariant `IInv` (with the types) | a pod with its priority class, or a volume with its claim, present or not at the start; three changes at the source; one failed call, lost watch or removal; both modes | holds; 0.21 million states |
| `sync_order` | the comment at syncer.go:22 (`FirstSyncIsComplete`) | the syncer, a source at rest, no faults | **violated** |
| `cycle` | `BehavesAsOriginal`, `RejectionsExplained`, `DecisionExplained`, `OutcomeExplained`, `FailedHoldsNothing`, and the inductive invariant `IInv` (with the types) | two plugins, one of them hooked at Reserve, Unreserve and Permit, that implement different points; two nodes; two extenders without a verb in common; a store that is empty or holds an earlier attempt; one deletion by the reflector | holds; 0.46 million states |
| `restore` | `LoadApplies`, `ClaimsAreLocal`, `RefusedForAReason`, `ResetRestores`, `NoOrphans`, `SnapHasNamespaces`, and the inductive invariant `IInv` (with the types) | a system and a user namespace, a priority class, a claim, a pod and a volume that need each other; two requests of any kind; two goroutines of a group at a time; one write of someone else, failed call or restart | holds; 0.37 million states |
| `watcher` | `ShowsAPast`, `CatchesUp`, and the inductive invariant `IInv` (with the types) | pods and nodes, two changes, compaction at any moment, one fault or reload; the page, and a client without versions | holds; 1.2 million states |
| `plugins` | `EffectiveSame`, `LogTellsDecisions`, and the inductive invariant `IInv` (with the types) | to start with, the 4738 profiles over two default plugins and the Logger, with weights, disabled plugins and arguments, in which no list names a plugin twice; to schedule with, the Logger at both of its points, at PostBind alone, or at none; two pods, two nodes, three attempts, one restart, one failed write, lost answers | holds; 0.57 million states |
| `plugin_weights` | the comment at plugins.go:287 (`RecordsFrameworkWeights`) | the same profiles | **violated** |

*Bounds.* Stores and annotations of different pod names share nothing, and the
handler handles one event at a time; a second name would only multiply states
(the proofs are for any number). Two incarnations are what a stale event and
leftover results need. Two recordings suffice for a history entry that is out of
order or double: a violation needs an earlier and a later entry with tokens of
one cell. `RetrySteps = 2` has a retry and an exhaustion of retries.
`MaxRv` only keeps the version a number of bounded size: with the other bounds it
is not reached. `MaxFaults = 1` allows one fault of any kind.

In `schedcfg`, what a request finds is a file, a current configuration and a
container; one request before it suffices to make each of them anything they can
be, and one beside it for every overlap of two. The proofs cover any number.

In `cluster_import`, `Scopes` confines a behaviour to two objects that refer to
each other: kinds share nothing else, each having its own informer and handler.
Three changes are a deletion, a new creation and an update of it; one of them may
fall into the time without a watch.

In `cycle`, two plugins are what neutral answers and order need, each extender has a
verb the other lacks so that a wrong route is seen, and the earlier attempt in
`Leftovers` stands for the attempts before this one. In `restore`, two requests are
every overlap of two; what a third would meet is what another writer can leave. In
`watcher`, two changes are one of each kind, or an object that is created and changed or
deleted, and a break between any two steps is what a reconnection needs. Kinds share the
stream and its end, but no data. The proofs are for any number of changes and requests. In `plugins`,
two defaults and one other plugin are an order that a merge can disturb and
something to append. One failed write is a row that is lost, all that
follow it in that process, and what a part of it does to the first row of the next;
three attempts are one that fails or is not told of its binding, and one of each pod.

*Fairness.* `FairSpec` assumes weak fairness of the handler as a whole: its
goroutine is scheduled, and client-go calls return. Nothing is assumed of
users, scheduler or API server; `StoredIsHandled` therefore excuses failed calls
by naming them. It does not excuse conflicts: a write that causes a conflict is
itself an update that will be handled, even when the retries are used up.

`SchedulerConfig`'s `Spec` assumes that the steps of a request are taken (Docker
answers, if only with an error), that a starting scheduler gets as far as reading
its file, and that Docker starts it again (`restart: always` in compose.yml).

`ClusterImport`'s `Spec` assumes only that as long as a handler, an informer, a
call, the importer, the scheduler or KWOK can take a step, one of them does. That
is enough because the work is finite once the source is at rest.

`ResourceView`'s `Spec` assumes that a goroutine that can go on does, that
`ListWatch` returns when it can, and that the page reads, reconnects after its five
seconds, and gets answers. Nothing is assumed of the goroutines of earlier requests. `ClusterRestore`, `SchedulingCycle` and
`DebuggableScheduler` assume nothing.

### What the violations show

* **Half a result.** `wrappedPlugin.Bind` calls the API server (line 712) before
  it records (line 719). The update event of Bind lets the reflector write
  everything recorded so far and delete it. The bind result then makes a new
  entry; the next update of the pod reflects it, with `{}` for every other
  built-in key of the store. The annotations show empty filter and score results
  for a pod that has them, in its history annotation only.
* **Accepted, but not run.** The scheduler exits on the new configuration before
  the container is inspected; the rollback succeeds; `RestartScheduler` goes on to
  store the *new* configuration as the current one and returns no error. From
  then on the API reports a configuration that is neither in the file nor run,
  and the next apply starts from it. (When the scheduler exits only after the
  inspection there is no rollback, and it keeps exiting.)
* **Out of order.** `Run` starts the informers itself and then waits for those
  the factory has started, which are none; and a cache that is filled is not a
  handler that is done. So the kinds run side by side, and a pod that is handled
  before its priority class is refused. The error is logged; later updates find
  nothing to update. `ImportIsComplete`, which holds, shows that the importer's
  wait group is what makes the same order work there, and `SameObjects` that such
  failures, removals and dropped tombstones are all that the syncer ever misses.
  (They include a pod that was created again while the old one of its name was
  still terminating at the destination.)

* **Weighted otherwise.** A plugin that a profile lists in MultiPoint and again at
  Score, with two weights, is scored with Score's and recorded with MultiPoint's:
  `getScorePluginWeight` appends MultiPoint's plugins to Score's and the last entry
  of a name wins. `EffectiveSame`, which holds, shows that the scheduling itself is
  weighted as the user's profile says, and `DecisionExplained` that with the right
  weights the recorded final scores explain the choice.

### Divergences that were seen and have no run of their own

* storereflector.go:142 says that data is deleted "only if it is successfully added
  on the pod's annotations". A result recorded between the handler's read and its
  deletion is deleted unread. `DropsNothingOwed`, which holds, shows that this window
  is the *only* way to lose a result other than a restart.
* scheduler.go:104 says that the old configuration is rolled back to. Without a
  configured path, as in the repository's own `config.yaml`, the "old" one is the
  default and not the file's. `RollbackRestoresFile`, which holds, is about a
  configured path.
* docs/api.md:45 says that a reset restores the initial configuration. With a
  configured path, a file that does not decode makes every request fail at
  scheduler.go:97, before anything is written; an import whose `schedulerConfig` is
  missing, or has no `kind` as in the documented sample, makes such a file.
  `ResetRestoresReadable`, which holds, shows that nothing else stands in its way.
* extender.go:133 says that priorities are returned as they are; they are scaled, and
  kube-scheduler scales them again.
* resourceapplier/resource.go:46 says that the claim's UID "is changed in a destination
  cluster [...] and thus we need to update the PVC UID in the PersistentVolume". A volume
  that names a claim without being Bound (its phase comes after its claimRef, and a
  released volume keeps it) goes to the destination with the UID that the claim has in
  the source, and a one-shot import leaves it so. `ClaimReferencesAreLocal`, which holds,
  tells the two kinds of volumes apart.
* Load takes the UIDs out of the objects of its file (snapshot.go:380 and its like) but
  not their resourceVersions. To load a file into a cluster in which one of its objects
  has been written since is refused with a conflict: the second time the same file is
  loaded, for instance, if an apply of the first had changed something.
  `RefusedForAReason`, which holds, names this case and the few others.
* resourcewatcher.go:85 says that `ListWatch` will "finish to event send when the connection
  from a client is closed". It returns, but nobody waits for its goroutines: they see
  `stopCh` only between two events, or after a list is out, and until then write to
  `c.Response()`, which echo may have given to the next request. Its client is then sent
  items or events of a request that is not its own: an object twice, or an event older than
  its list. `ShowsAPast` and `CatchesUp`, which hold, are about streams that no such
  goroutine wrote to (`mixed`); without that condition TLC finds both violated.
* docs/api.md:126 names the parameter `podslastResourceVersion` (and others alike, and none
  for namespaces); the handler reads `podsLastResourceVersion` and its like
  (handler/watcher.go:27). A client that lists first, as line 118 recommends, and then
  follows the document is taken for one that gave no versions, and is sent all its objects
  again as ADDED. `ShowsAPast` is about clients that give no versions and begin with
  nothing, and about those that give them as the handler reads them, which the page does.
* The page never watches again after the stream has *ended* (as opposed to broken):
  it asks to be reloaded. `CatchesUp` says that it is one or the other.

## Proofs

`StoreReflector_proofs` proves, with TLAPS, for all values of the constants that
satisfy `DataAssumption` and `ReflectorAssumption` (any number of pods, stores,
cells, retries, any bounds):

* `TypeCorrect`: `Spec => []TypeOK`.
* `InvariantHolds`: `Spec => []IInv`.
* `HistoryInOrder`: `Spec => []HistoryOrdered`.

*The argument.* `HistoryOrdered` alone is not inductive: an append may break it
unless what is appended is known to be newer than the history of the copy. So
`IInv` adds: serial numbers grow (`IdsBounded`); the pod that has the version of
the handler's copy is the copy (`CopyCurrent`, optimistic concurrency); what the
store holds is newer than what the history lists, except between an update and
the deletion that follows it (`StoreAfterHistory`); and what was read from the
stores lies between the two (`ReadBetween`). The exception in
`StoreAfterHistory` is why a second handler run cannot append a recording again:
the deletion comes first. When an answer is lost the deletion does not come, and
"older" weakens to "not newer" (`Precedes`). `ReadBetween` is what survives the
window between reading and updating: a recording made in it can only make the
store newer. Steps that neither record nor handle are one class (`OthersStep`),
for which one lemma (`OthersKeep`) serves.

`SchedulerConfig_proofs` proves, for any number of requests, any configurations
and bounds that satisfy `ConfigAssumption`:

* `SchedulerTypeCorrect`: `Spec => []TypeOK`.
* `SchedulerInvariant`: `Spec => []IInv`.
* `CleanAgrees`: `Spec => []CleanRequestAgrees`.
* `RollbackRestoresTheFile`: `Spec => []RollbackRestoresFile`.
* `ResetRestoresTheInitial`: `Spec => []ResetRestoresReadable`.
* `ApplyKeepsTheRest`: `Spec => ApplyKeepsRest`.

*The argument.* These speak of requests that had no other in flight with them.
That a request is still alone is a fact about the *others*, so `IInv` says it
(`AloneIsAlone`), and with it that at each place of `RestartScheduler` the file
and the old configuration are what this request made of them or read
(`AloneOwnsFile`), and that the current configuration is still the one an apply
request started from (`AloneOwnsCurrent`). A request that begins makes those in
flight not alone any more; the scheduler's process only reads; the server's
restart ends all requests (`DownIsIdle`). One lemma covers every step in which a
request goes on (`GoOnInv`), one every end (`EndInv`). All this is `FileInv`, about
the file. `ResetRestoresReadable` is also about why a request *fails*, which the
file does not say. So `IInv` adds where a lone reset can be while nothing has
disturbed it (`ResetOnCourse`): its second attempt only looks for a container that is
stopped, and the scheduler it restarted, which reads what it wrote, is starting or
up. That no fault has disturbed it is a comparison of counters, for which the counter
must not have been ahead (`SeenSoFar`).

`StoreReflector_proofs` then goes on from `IInv`, under the same assumptions:

* `DropInvariant`: `Spec => [](IInv /\ DropInv)`.
* `NothingOwedIsDropped`: `Spec => DropsNothingOwed`.
* `ForeignWritesKept`: `Spec => KeepsForeignWrites`.
* `HistoryOnlyGrows`: `Spec => HistoryGrowsForEvent`.

*The argument.* A result leaves a store by the handler's `DeleteData` only, so
`DropInv` says of that moment that nothing in the store is owed
(`DeletesNothingOwed`), and of the moments before what makes it so: cell by cell,
what a store holds after the handler has read it is what was read, or was recorded
since (`ReadOrLate`), because stores have cells of their own (`StoresOwnCells`).
`UpdatePod` puts all that was read into the history, in one step with the move to
the deletion. What is left is that it is the history of the right pod: the copy is
of the pod the event was about (`CopyOfEvent`), and a pod created later has a uid
that no event or copy has (`PodsKnown`, `EventKnown`). The two properties about
what an update may change use `CopyCurrent` from `IInv`: the version has not moved,
so what is sent differs from what is there by the annotations only.

`ClusterRestore_proofs` proves, for any objects, kinds, needs, requests and number
of goroutines that satisfy `ObjectsAssumption`, `RestoreAssumption` and
`AdmissionAssumption`:

* `RestoreTypeCorrect`: `Spec => []TypeOK`.
* `RestoreInvariant`: `Spec => []IInv`.
* `ResetRestoresAll`: `Spec => []ResetRestores`.
* `LoadAppliesAll`: `Spec => []LoadApplies`.
* `ClaimsAreLocalAlways`: `Spec => []ClaimsAreLocal`.
* `RefusalsHaveAReason`: `Spec => []RefusedForAReason`.
* `NoOrphansAlways`: `Spec => []NoOrphans`.
* `SnapshotsHaveNamespaces`: `Spec => SnapHasNamespaces`.

*The argument.* Requests share the cluster and nothing else, so `IInv` is one
invariant per request (`RequestInv`) and what it says is relative to `touched`, the
objects that others have written since: a reset has put back the keys whose
functions have returned without an error (`PutSoFar`); a load has finished the
phases before its own (`PhasesDone`) and applied what it has handled
(`AppliedSoFar`), and a claim that a volume names, or is about to name, has this
cluster's uid (`NamesSoFar`, `Given`). The error group's `Wait` is what turns "has
returned" into "all": a phase with an error ends the request. One lemma
(`WriteStep`) covers every step that writes, whoever makes it, since what is written
becomes `touched` for everyone else; one (`LocalStep`) every step that writes
nothing.

That a Load is refused, if it is not for want of a namespace, has the version as its
reason: an object that is there admits what is sent unless the version is old, or a
placed pod would lose its node.

The last three are about objects and the namespaces they are in, and rest on the
second half of `IInv`, `Ordered`. It accounts for every object that is without its
namespace (`NamespaceInv`): some Reset has deleted the namespace and is going to put
it back (`Awaited`), or will not, because it failed or someone else has written it
since (`Lost`). The same is said of the initial state, which a restarted server takes
from the cluster in whatever state it is. Of a request it says what it has listed so
far (`ListedSoFar`), and that a Load which goes on to objects has all its namespaces
(`NamespacesFirst`), so that what it is refused is never owed to the order of its
phases (`RefusedSoFar`). The attempt to prove the last one showed that its premises
had to name one more case: a namespace that a snapshot ignores, such as
`kube-system`, is in no file, and a Load does not bring it back after a Reset that
failed has taken it away.

`ClusterImport_proofs` proves, for any objects and kinds, references, order of import,
scopes and bounds that satisfy `ClustersAssumption`, `ApplierAssumption`,
`ImporterAssumption` and `ModesAssumption`:

* `Invariant`: `Spec => []IInv`.
* `SourceIsCopied`: `Spec => []SameObjects`; `LatestIsCopied`: `Spec => []SameVersions`.
* `ClaimsAreLocal`: `Spec => []ClaimReferencesAreLocal`: what was copied as Bound names a
  UID of the destination, and what was not names the source's.
* `AllIsImported`: `Spec => []ImportIsComplete`.
* `NothingComesBack`: `Spec => RemovedStaysRemoved`.

*The argument.* What the destination will have when the queues are empty is decided
by events that are still in them, so `IInv` follows one object from one end to the
other: its waiting events alternate between creations and deletions, starting from
what the call in progress, or else the destination, makes of it and ending with what
the informer knows (`EventsAlternate`); while the informer watches, the last of them
carries the object as the source has it (`LastIsCurrent`); and every creation waiting
is of a newer object than everything before it (`AddsAreNewer`), from which
`RemovedStaysRemoved` follows. `behind` excuses an object from the beginning of the
chain only. For the importer, `ImportGoesOn` says that what was listed is there or
being created, with what it refers to. The lemmas are per queue operation (an event
is appended, the first is taken, a list appends one for each object), then one per
step.

`ResourceView_proofs` proves, for any kinds, order of kinds and bounds that satisfy
`ViewAssumption`:

* `Invariant`: `Spec => []IInv`.
* `ViewIsAPast`: `Spec => []ShowsAPast`, for clients that are `Undisturbed`: no goroutine of
  an earlier request wrote to what they read, and they gave no versions, or gave them as the
  handler reads them.

*The argument.* A page's list of a kind is a past of the cluster because what it reads
next is the log's next event after its version. `IInv` says so of everything on its
way: the lines on the wire are the events of that kind after the page's version, in
order and without a gap (`Streamed`), up to the version of the goroutine that writes
them (`StreamedUpToProxy`), which holds the next one (`ProxyInStep`). That an event
turns one past into the next is a fact about the log alone (`EventShown`, from
`LogIsReadable`). A client without versions gets lists from the server, in other
pieces, so for it `FirstSent` and `NewToClient` say that nothing is sent as new that
it was told of already. All of it is said of streams that no goroutine of an earlier
request has written to (`mixed`); what such a goroutine may write is still from the log
(`LeftoverInStep`, `WrittenOfLog`), which is what keeps the versions of a page within it.

`SchedulingCycle_proofs` proves, for any profile, implemented points, hooks,
extenders, weights, nodes, leftovers and bounds that satisfy `ProfileAssumption`,
`CycleAssumption`, `StoreAssumption` and `ExtenderAssumption`:

* `Refinement`: `Spec => BehavesAsOriginal`, that is, `SchedulingCycle` implements
  `OriginalCycle`.
* `Invariant`: `Spec => []IInv`.
* `EveryRejectionExplained`: `Spec => []RejectionsExplained`.
* `EveryDecisionExplained`: `Spec => []DecisionExplained`.
* `EveryOutcomeExplained`: `Spec => []OutcomeExplained`.
* `FailedAttemptHoldsNothing`: `Spec => []FailedHoldsNothing`.

*The argument.* The refinement goes action by action (the lemmas `...Refines`, put
together in `StepRefines`). A wrapper's way through its method is, if the original is
there, a call of the original on whose answer or a hook's the scheduler acts
(`Asked`), and the list of calls left loses its head on both sides
(`UnwrappedFirst`); if it is not there, the neutral answer must change nothing that
the other scheduler sees (`Neutral`), which is where the facts about the scheduler's
own state come in: that a plugin without a score has given none (`Scored`), that some
node is feasible while pre-filters are called, and that the calls left are of those
that can be called at this point (`CallsLeft`). They are the invariant `Shape`,
proved first (`ShapeStep`).

What the results tell is proved on top of it. The stores' types (`StoresStep`) rest
on one lemma per `Add*`. `RejectionsExplained` needs `NotYetFiltered`: a result that
is recorded now adds its reason to the earlier ones only if it replaces none of them,
because the plugin or the extender has not been recorded in this attempt.
`OutcomeExplained` needs to be said of every point on the way (`OutcomeKnown`): from
the first Reserve on the recorded node is the selected one, nobody is recorded to
have bound the pod before somebody has, and as long as the attempt goes on no refusal
is recorded. `FailedHoldsNothing` follows from `Reserved`: while what was reserved is
undone, every plugin that still holds something is on the list of those to be called.

`DecisionExplained` compares two sums, the scheduler's over what it holds and the
reader's over what is recorded. They are equal node by node (`ExplainedTotal`), because
while nodes are scored the stores hold what the scheduler does (`ScoresHeld`): of each
recorded plugin its weighted score, of the extenders the priorities counted so far.
Every node is scored by the same plugins (`EachScored`), so either all feasible nodes
are recorded or none is. For any constants this needs the conditions in `Explaining`:
no result was deleted meanwhile, the store knows the scheduler's weights, no hook
overrules Score or NormalizeScore, and no two extenders share a URL, under which the
second would overwrite the first. The run's constants satisfy the last three.

`DebuggableScheduler_proofs` proves, for any plugins, default and user profiles, pods,
nodes and bounds that satisfy `PointsAssumption`, `LoggerAssumption` and
`InstancesAssumption`:

* `Invariant`: `Spec => []IInv`.
* `WrappedAsOriginal`: `Spec => []EffectiveSame`.
* `LogTells`: `Spec => []LogTellsDecisions`, over any number of restarts, lost answers and
  failed writes.

*The argument.* That a process ends up with the same plugins as the one before it is
`StartsFromDefaults`: conversion and registry find the scheme's old defaults, the
scheduler finds the new ones. So a running scheduler's plugins are a function of the
profile (`Effective`), and what `EffectiveSame` says is about lists. Wrapping is a
function `Wrap` on entries. Since the converted MultiPoint disables everything,
merging it with the defaults once more gives what it was (`MergeNothing`,
`ConvertedIs`). Then each of the three parts of a point's plugins is, wrapped, a
selection by names that `Wrap` keeps apart (`SelectedWrap`, `WrapApart`), but from a
longer list, because a wrapped plugin implements every point; leaving out those whose
originals do not gives the user's (`ExpandWrap`), for a point's own plugins all
implement it. A weight is that of the first entry of a name, at the same index in
both lists (`WeightWrap`).

The log's account has two exceptions, and both are in the property: rows of a file a
write to which has failed (`missed`, with `MissesAfterFault`), and bindings after which
PostBind did not run, because of a restart or of an answer that was lost (`cut`).
`LogTellsDecisions` needs to know whose rows are whose: attempts have numbers, and
the rows of the one that is scoring are told apart from all others (`AttemptsApart`);
a pod has one attempt at a time, and an attempt after it was bound, by a scheduler that
was not told, does not bind it again (`OneAttempt`). With it, the rows of an attempt are
its candidates without those left to score and those whose rows are missed (`Tells`). The
two halves of the log hold only if the profile has the Logger at that point, which is
why `IInv` needs `Effective`.

`SequenceLemmas` has what these need to know about lists, natural numbers and sums:
that a nonempty set of natural numbers has a least element, an order of indices, a
sequence with one element removed, and what `Selected` keeps: of two lists joined,
twice, and after a function was applied to all elements (`SelectedConcat`,
`SelectedBoth`, `SelectedMapped`). `Selected` is a recursive function and not a
`RECURSIVE` operator; what it computes is proved by induction over the *set* of lists
for which it holds (`SeqInduction`, from `LeastNatural`), which needs no theorem with an
operator as a parameter. In the same way a sum over a finite set is reached through the
set of those subsets for which the claim holds (`SubsetInduction`): a sum over equal
values is the same (`SumSame`), and one value changed changes it by the difference
(`SumChanged`).

Only model-checked: the liveness properties (`Quiesces`, `StoredIsHandled`,
`CleanRequestTakesEffect`, `Settles`, `CatchesUp`), since fairness and `ENABLED` are out
of the prover's reach.

## Not modelled

* `StoreReflector`: namespaces (a name stands for `namespace/name`) and the size
  limit of annotations.
* `SchedulerConfig`: what a plugin or extender in a configuration means, and
  requests that overlap beyond the properties' premises: nothing is promised of
  them, because the code promises nothing.
* `ClusterImport`: filters, mutations and kinds that users add, and restarts of the
  simulator (which start from what is in etcd).
* `SchedulingCycle`: `PreEnqueue` and `Less`, which only pass on to the original.
* `PluginSets`: how an unregistered plugin is found to be a wasm plugin; from then
  on it is like any other out-of-tree plugin.
* `Snapshot`: the options `IgnoreErr` and `IgnoreSchedulerConfiguration`, and the
  scheduler configuration within a snapshot (`SchedulerConfig` has its import).
* `ResourceView`: selecting and editing in the page, and a failing first list when
  it is opened; what a write through echo's pooled Response does to requests other than
  this client's (their bodies, and two lines written into each other), and the panic it
  may end in while nobody has the Response. `CatchesUp` assumes that the server runs.
* `SchedulerLogger`: a CSV row that is cut short is a row neither to the file nor to its
  reader; what a reader makes of the line is not modelled.
* The DRL plugin, which is not registered at this commit, and the numbers in the
  Logger's rows: floating point, and 64-bit products that TLC's 32-bit integers do
  not hold.
* The HTTP server and dependency injection (wiring without state), the learned
  models, training and the energy model (floating point behind HTTP), the scenario
  controller (an empty scaffold).
