# A verification development of sealos-state-metrics

sealos-state-metrics is a Prometheus exporter for Sealos clusters. It runs a
set of collectors, some of them on every pod and some only on the pod that
leads, reloads its configuration without a restart, and serves what the
collectors found. This directory holds TLA+ modules that model its control
plane and its collectors, the TLC configurations that check them on small
instances, and proofs, checked by TLAPS, of what matters most for instances of
any size.

Paths below are relative to the repository; `file.go:10-20` are lines.

## The system

### Parts and how they interact

| part | where | state | what is hard about it |
|---|---|---|---|
| collector lifecycle | `pkg/collector/base` | started, ready, a context, a `readyCh`, a `stoppedCh`, all behind `b.mu` | hooks and polls run outside the lock; Start, Stop, SetReady and scrapes overlap |
| leader election | `pkg/leaderelection`, `server/leader_election.go` | one elector, context and `doneCh` per leader-managed collector; a Lease in the cluster | callbacks in goroutines of their own, crashes, lost replies, failing renewals, the order of release and stop |
| server | `server` | `s.mu`, the configuration in force, the map of electors, the HTTP servers | Reload and Shutdown against electors, scrapes and each other |
| registry | `pkg/registry` | the map of collector instances behind `r.mu` | hooks run under its read lock; Reinitialize replaces all instances |
| reloader, main | `pkg/config/reloader.go`, `main.go` | a debounce timer; the loaded configuration | timers that fire while a reload runs |
| database collector | `pkg/collector/database` | the secret cache, the statuses of the latest poll | dispatchers, workers, semaphores and a channel closed by a third goroutine, under cancellation |
| CRD collector | `pkg/collector/crds` | informers; a store with incremental counts | counts must follow adds, updates, deletes and resyncs |
| image pull, node, zombie | `pkg/collector/imagepull`, `node`, `zombie` | informers with a `stopCh`; timers; polled answers | a stop that meets a start; timers that meet deletions |
| domain, registry proxy | `pkg/collector/domain`, `registryproxy` | results of the latest poll | a worker pool under cancellation |
| billing, balances, licenses, LVM | `pkg/collector/billing`, `userbalance`, `cloudbalance`, `cockroachlicense`, `lvm` | results of the latest poll | partial failure |
| authentication, certificates, HTTP, pprof | `pkg/auth`, `pkg/tlscache`, `pkg/httpserver`, `pkg/pprof` | caches with expiry; servers that stop with a timeout | stale entries; who waits for whom |

`main` builds the server and the reloader. `Server.Init` has the registry
create one instance per enabled collector, registers the scrape path and
starts collectors: all of them if leader election is off, otherwise the plain
ones, and an elector for each leader-managed one. An elector's callbacks call
`registry.StartCollector` and `registry.StopCollector`, which call
`BaseCollector.Start` and `Stop`; these call the concrete collector's hooks.
A change of the configuration file ends in `Server.Reload`: stop everything,
apply, create new instances, start again. SIGTERM cancels the server's
context, from which all other contexts derive, and leads to `Shutdown`.

### What makes each part correct

* Lifecycle: no poll loop outlives its Stop unnoticed, a scrape that waits is
  woken, metrics are emitted only after a poll, readiness belongs to a cycle.
* Election: at most one elector renews; two pods collect at once only in a
  known window; a reload leaves nothing of the old instances running; Shutdown
  leaves no held Lease behind; a standby takes over.
* Database poll: an undisturbed poll loses no database; limits hold; every poll
  and the loop end.
* CRD store: every count equals a recount.
* Reloader and server: the configuration in force is the one on disk once
  nothing is under way; reloads, scrapes, callbacks and shutdown never wait for
  each other for ever; a scrape is of one generation of collectors and loses
  nothing they sent.
* Secret discovery: a loop ends with its cycle, and a running one keeps up with
  the cluster's secrets. Informer hooks: Stop leaves no informer behind.
* Image pull, node, zombie, domain, registry proxy: what a scrape shows is what
  the pods, nodes and checked addresses say, whatever timers, stale answers and
  cancellations come late.
* Billing, balances: the snapshot is the sum of the documents of one hour; an
  account has one source.
* Authentication: nobody is served on a grant older than the caches allow.
  Certificates: the pair on disk is served in the end.

PROJECT.json lists the hazards of the code at their lines, each with the
properties that would catch it.

## Modules

| module | models | proofs |
|---|---|---|
| `BaseCollector` | `base.go`: Start, Stop, rollback, SetReady, Collect, WaitReady, RunPollLoop | `BaseCollectorProofs` |
| `LeaderElection` | Leases, electors, callbacks, collector instances, Reload, Shutdown, crashes | `LeaderElectionProofs` |
| `LeaderSlot` | what the election promises: a slot taken only when free | the refinement is proved in `LeaderElectionProofs` |
| `DatabasePoll` | the database collector's poll pipeline | `DatabasePollProofs` |
| `CrdStore` | the CRD collector's informer events and the counts of its metric store | `CrdStoreProofs` |
| `ConfigReload` | `main.go`, `pkg/config/reloader.go`, `pkg/pprof`: boot, watch, debounce, concurrent reloads | `ControlPlaneProofs` |
| `ServerLocks` | `s.mu` and `r.mu` between Reload, Shutdown, scrapes, health requests, electors' callbacks and hooks | `ControlPlaneProofs` |
| `CollectFanIn` | one scrape inside `pkg/registry/collector.go` | `ControlPlaneProofs` |
| `SecretCache` | the database collector's secret cache over consecutive poll loops | types, in `CollectorsProofs` |
| `InformerHooks` | OnStart and OnStop of the collectors that run informers | `InformerProofs` |
| `ImagePull` | pod events against slow-pull timers | `InformerProofs` |
| `NodeWatch` | node events against the zombie collector's poll; the node collector's judgement | `InformerProofs` |
| `ProbePool` | targets, polls and worker pools of the domain and registry proxy collectors | `CollectorsProofs` |
| `BillingLedger` | the billing poll: window, concurrent queries, sums, snapshot | `CollectorsProofs` |
| `BalancePoll` | the user and cloud balance polls | `CollectorsProofs` |
| `ReviewCache` | `pkg/auth`: the middleware and its caches | `ReviewCacheProofs` |
| `CertCache` | `pkg/tlscache` | types, in `CollectorsProofs` |
| `MC...` | the instances that TLC checks | |

Operators named `Slip...` are not part of any specification. Each is the
definition that follows it with one plausible mistake (a dropped guard, a
missing wait, a limit one too large). PROJECT.json names, for every property
of every passing run, the slip that the property notices when it takes the
place of the definition.

### BaseCollector

One critical section of `b.mu` is one action. A *cycle* is a pass of `Start`
through its started check: the number of a cycle names the context, the
`readyCh` and the `stoppedCh` it creates. `cycle` is the one the struct holds,
`stopCh` the one whose `stoppedCh` it still has (0: nil). What happens between
two critical sections is interleaved with everything else: the call of the
hook (`EnterHook` reads `b.ctx` after the unlock, as base.go:158 does), the
hook's success or failure, the first poll, `SetReady`, the select of
`WaitReady`. `ParentCancel` is the end of the context the caller passed in:
lost leadership, or the server's shutdown.

Left out: which metrics a hook writes, `Health` (it reads only), logging.
A hook that polls is represented by the poll loop it leaves behind; one that
calls `SetReady` itself does so as its last step, with the same effect.

### LeaderElection and LeaderSlot

Electors of different collectors share only reloads and shutdown, so the
module follows one leader-managed collector, its Lease, and the plain
collectors as a group. Every registry initialisation of a process creates an
instance of the collector and, with leader election on, an elector: both have
the same number. `holder` and `age` are the Lease; time is the number of ticks
since it was last written. An elector goes through `acquiring`, `leading`,
`lost` (renew returned), `released`, `stopping` (the deferred cancel has run,
OnStoppedLeading begins), `unflagged`, `done` (its `doneCh` is closed); the
OnStartedLeading goroutine is a process of its own (`starting`), and *late* once
it starts an instance that its elector has stopped already. A pod *collects*
while the instance its registry has is started, whatever became of the context
it was started under: informers run until `OnStop` closes their `stopCh`, and
`BaseCollector.Collect` (base.go:416-448) does not look at the context. client-go
is external: its actions follow what `Run` of the vendored version does and
what `pkg/leaderelection` relies on. The durations are any that `Validate`
accepts; properties that need a margin between them name it
(`TimingsLeaveMargin`).

`Reload` is three actions, because `stopLeaderElections` waits in between and
the callbacks it waits for run meanwhile: `BeginReload` takes the handles out
and cancels them, `Reinitialize` is the rest of `stopCollectors`, the new
configuration and the new instances, `EndReload` is `startCollectors`.
`Shutdown` does not take `s.mu`, and so interleaves with all of them. `Crash`
may happen at any moment, and a restarted process has the identity it had.

`LeaderSlot` is what other parts may rely on: a slot that an elector takes only
when it is free, and leaves before anybody takes it again.

### DatabasePoll

`pollLoop` starts the secret cache and polls. A poll makes a task of every
credential secret in the cache (any set of them: `BeginPoll(ds)`). Per type, a
dispatcher launches workers; a worker takes a slot, checks, sends its status
and gives the slot back; a closer closes the channel when the dispatchers have
returned; the poll collects and publishes. A task is the database it checks.
Limits may be 0, which nothing validates: the semaphore is then an unbuffered
channel, a worker of that type waits for ever and its poll with it (`Starved`).
The context may be cancelled at any moment; a cancelled dispatcher returns
without waiting (database.go:402-405), as the module does in `GiveUp`.

Left out: what a check finds, the statistics, the two ways to fill the secret
cache. Assumed: a secret matches the selector of one type.

### CrdStore

The cluster's objects change; the informer observes them, perhaps after several
changes, and queues events; the handlers of `informer/informer.go` take them in
order and call `metricStore`. `objects`, `countValues` and `countMetrics` are
the fields of the store, with 0 where a map has no entry. A store operation
holds `s.mu` throughout and is one step: `Replace` removes what the stored
object contributed, adds what the new one does and refreshes the exposed
metrics it touched. A scrape (`snapshotMetrics`) reads all of it under the same
lock, so what it exposes is the state. `Write`, `Remove`, `Observe` and `Resync`
are Kubernetes and client-go, and external.

An object is its resourceVersion and the fields that count metrics read. The
series of the other metric types are a function of the object, so the module
stores the object they were built from; their labels and values are left out.
Assumed: the names of a CRD's count metrics are distinct. An instance of the
collector is started once (`LeaderElection`), so its store starts empty. The
informers' start, stop and sync are `InformerHooks`.

### ConfigReload

The file has a revision and a body; a body is what a reload can tell apart. A
timer that fires starts a goroutine (`job`), and nothing makes it wait for the
one before it: reading, validating, the logger, the steps of pprof's `Reload`
and `Server.Reload` under `s.mu` are actions of their own. Events and edits
arrive at any time, also while `main` boots. `Terminate` and `ExitMain` are the
signal and the return of `main`.

`SettledFollowsFile` and `ChangeTakesEffect` except three cases, because the
code has them: two reloads that overlapped, where the older may be applied last
and pprof may keep the port of neither; a file that was bad when it was read,
until its next event; and a change between the boot's read and the watch, which
is noticed with the next one (the properties ask for `disk.rev > watchedFrom`).
The same property says where pprof is: on the port of the configuration in
force, or nowhere if it could not have it (`refused`), because `net.Listen` may
fail and `main` only logs it during a reload (main.go:192), while the reload
goes on; at boot it ends the process (`BootInit`).
A pprof server that a reload enables is detached (main.go:207): a later reload
can neither stop nor move it. It is in `detached`, and no property speaks of it.

### ServerLocks

The two locks are not variables: who holds or waits for them follows from where
the goroutines are, and a `sync.RWMutex` with a waiting writer admits no new
reader. A generation is one `Reinitialize`. `hookWaits` says whether the hook's
wait for its caches ends with its context (CRDs) or with its `stopCh` only
(image pull, node, zombie). The health request is the chart's liveness probe; a
pod that answers 503 is restarted, which is what `FailedLeaderIsReplaced` rests
on. Electors are those of `LeaderElection`, reduced to what waits for them.

### CollectFanIn

One call of `PrometheusCollector.Collect`: collectors that send and may panic,
the channel of the wrapper that adds the instance label, its close, and the
results. A collector is assumed not to send after it has returned.

### SecretCache

`c.secretCache` belongs to the collector and is shared by the loop of a stopped
cycle that has not ended with the loop of the next one. What a poll finds is
the set of versions of the cluster's secrets it came from. `mixed` is set when
one loop replaced or started the cache of another, or stopped it once it had
synced: the code then polls a dead cache or panics on a second close, and
`DiscoveryKeepsUp` says nothing more. A loop that stops a cache while it is
still starting is harmless: Start fails and the polls list directly.

### InformerHooks

Two styles. In `factory` collectors OnStart makes a new `stopCh`, OnStop closes
whatever the field holds; in the CRD collector the informer has its own flag
and channel, not locked, and both OnStop and a failed OnStart stop it. The base
collector calls hooks outside its lock, so calls of Start and Stop interleave.
`overtaken` is set when a Stop comes before the hook has made its channel, or a
Start before earlier hooks have ended; the code then leaks an informer or closes
a channel twice, and `StopEndsInformers` excludes it. It also admits one panic
that needs no such thing: the CRD collector's OnStop meeting the OnStart it
interrupts inside `Informer.Stop`.

### ImagePull

One container per pod. The informer delivers versions in order and may skip
some after a lost watch; `Resync` handles the known version again. A timer that
has fired cannot be stopped, and its callback asks the API server, ahead of the
informer. `waitSpell` is a history variable: it tells the timer that was armed
when the container was first seen waiting from later ones. Two containers of a
pod that fail for the same image and reason would have the same labels, which
the scrape's gatherer refuses: with one container per pod this is left out.

### NodeWatch

One map of nodes stands for the maps of both collectors, whose handlers are the
same. The zombie collector's poll takes a list, later applies it: `bornAt` and
`askedAt` are history variables that say which list an entry comes from and
which was the last before the node, by its UID, was first seen. A node that is
recreated while the watch is lost arrives as an update, and the code, which
forgets an answer only in `DeleteFunc`, shows its predecessor's until the next
poll: such nodes are in `heirs`. Two things the module keeps as the code has them: a pressure
condition that is Unknown does not make a node unhealthy (the comment at
node.go:123 says all of them are False), and a node without a Ready condition is unhealthy
without a condition that says so.

### ProbePool

Both collectors, which differ in parsing, in their checks and in what an empty
resolution means. A check is one step, with one of the answers a server may
give; a context that is done leaves no answer, except for the certificate check,
which does not look at it. Entries with the same endpoint overwrite each other
in the map: which goroutine comes last decides, and `ProbeCountsAreChecked` is
about targets that have their endpoint to themselves. One poll: the maps are
made anew by every poll, and nothing of an earlier one is read.

### BillingLedger and BalancePoll

Billing documents are written while two queries, each of its own moment, sum
them up. A document's place in the ledger gives its usage and amount, so a sum
tells which documents it counted; the two stages of the pipelines are operators,
and `aggregateBillingDocuments`, which the code keeps for its tests, is the
reference. The properties collection is one of a few and does not change within
a behaviour; a property whose enum is not a number counts as enum 0, as in
`int64Value`.

`BalancePoll` has the user balance collector and, with `balConfig.cloud`, the
cloud one. A balance is a number; the rounding to two digits is left out. Both
modules have one cycle of their collector, since an instance is started once.
Stop forgets the client while a poll may hold no copy of it
(billing/factory.go:77, userbalance/factory.go:81-97): the use of a nil client
is the modules' panic, after which nothing is claimed. A balance poll that is
cancelled between its last configured account and its publication publishes
what it has.

### ReviewCache and CertCache

`ReviewCache` has one token and one access, each with a verdict at the API
server that may change, and counts time in ticks; a review takes at most
`Latency`. Concurrent misses each store what they were told. `CertCache` has two
files replaced one after the other, or removed and created again, whereupon
their watch is gone: only the ticker finds the new pair.

## Runs

| run | instance | shows |
|---|---|---|
| `base_collector` | 3 cycles, 1 scrape, fairness | lifecycle safety, and that a scrape is woken, without its timeout, once what it waits for is decided |
| `base_collector_panic` | 2 cycles | finding: `SetReady` can close a closed channel |
| `leader_safety` | 2 pods, one operated (2 instances, reloads in both modes, SIGTERM), 2 process starts | uniqueness, the overlap window, reloads, shutdown, refinement |
| `leader_liveness` | 2 pods, both operated, 1 instance each, fairness | SIGTERM ends a pod; a standby takes over |
| `leader_overlap` | as `leader_safety`, 1 instance | finding: two pods collect at once |
| `leader_failover` | 2 pods, no operator, fairness | finding: the holder is dead, and the pod that is up, which lost a renewal before, does not campaign |
| `database_poll` | 3 databases, 2 types, limit 1, 2 polls, fairness | completeness, limits, polls and the loop end |
| `database_poll_panic` | the same, 1 poll | finding: a send on a closed channel |
| `crd_store` | 3 objects, one in a filtered namespace, 1 metric with 2 values, 4 writes, resyncs into queues shorter than 2, fairness | counts are recounts, the store follows the informer, a scrape mirrors the cluster |
| `control_plane` | `ConfigReload` with 3 edits, 1 port, 2 reload goroutines; `ServerLocks` with 2 generations, 1 scrape; `CollectFanIn` with 2 collectors, 2 metrics each; fairness | the file is followed, waits end, a failed leader is replaced, scrapes are complete and of one generation |
| `collectors` | the nine modules of collectors and caches, see below; fairness for two of them | what scrapes show, ages of grants, discovery, certificates, hooks |
| `slow_pull_restarts` | `ImagePull`: 1 container, 2 timers, 5 changes | finding: the duration of a slow pull starts over |

`MCControlPlane` and `MCCollectors` hold several modules that share no variable.
A behaviour runs one of them, the one that `focus` names, and the others keep an
initial state: the state space is the sum of the modules' own, not their
product, which could show nothing more. The fairness of a module's specification
is conditioned on its focus.

Why the bounds are enough. *Three cycles*: a late hook, a late rollback and a
late `SetReady` can come from three different Starts, and every check of the
code compares one cycle with the current one. *One scrape*: scrapes read the
shared state and never write it. *Two pods, two process starts*: every
property relates two electors, two pods or a pod to itself; a second pod is
enough to take the Lease, and with both starts used by one pod a restart is
covered. *Two instances*: a replaced one and its successor. *Durations 3, 1, 1*
are the smallest that leave a margin (`TimingsLeaveMargin`) with a retry period
that is not zero. *Two databases of a type with one slot*: the least that makes
workers wait; *two polls*: workers of a cancelled poll can meet those of the
next. *Two objects that share a value, two values, four writes*: a count that
rises to two and falls again, a value that changes, an object deleted and
created again under its name while events of it are queued. The proofs do not
depend on any of these bounds.

In `control_plane`: *three edits* are a change before the watch, one that is
being applied and one that overtakes it, *two goroutines* the least that overlap,
*two generations* a reload and what it replaces; the wrapper's capacity of 1
makes collectors wait. In `collectors`: *five changes of a pod* create, schedule,
fail, heal and delete it, with *two timers*, a forgotten one and its successor;
*four changes of a node* let it leave and come back between *two lists*; *two
loops* share a cache; *two requests* miss together, with lifetimes of 1 and 2
ticks, so that an entry outlives a review; *three certificates* let an old pair
be stored after a newer one was replaced; *three addresses for two workers* leave
one waiting; *a clock of two hours of two ticks* puts documents on both edges and
inside of a window; *two users and two owners* are all that labels can confuse;
*two calls* of Start and of Stop are an interrupted Start and its successor.

CHECK_DEADLOCK is off in all runs: every model has a number of operations it
may perform (cycles, initialisations, process starts, polls), after which it
stops; and the process may stop by itself.

### Fairness

* `BaseCollector`: a scrape, a rollback and a `SetReady` that are due happen.
  Hooks and polls owe nothing: three collectors' hooks wait on their `stopCh` for
  a cache that may never sync, and then only the timeout of `WaitReady` ends a
  scrape. `DecidedWaitEnds` is about the scrapes whose wait is decided, by a
  stop, a failed hook or a poll that is over. Nobody has to call Start, Stop or
  Collect, and the timeout is not relied upon.
* `LeaderElection`: weak fairness of time, of the way out of `renew` and `Run`,
  of callbacks, Reload and Shutdown; strong fairness of `Acquire`, which stands
  for retries every RetryPeriod that are not always unlucky with their reply.
  Nobody has to renew, crash, reload or send a signal.
* `DatabasePoll`: as long as some goroutine of the pipeline can run, one does;
  a step is never repeated within a poll, so that is enough. Checks return
  within their timeout. The informers owe nothing (`CacheSynced` is not fair).
* `CrdStore`: a changed object is observed in the end, because the informer
  watches and lists again, and queued events are handled. Nobody has to write.
* `ConfigReload`: events that the watcher queued are received, the timer fires,
  and reload goroutines proceed. Nobody has to edit the file, and the boot and
  the end of the process are not fair.
* `ServerLocks`: scrapes, callbacks, Reload and Shutdown proceed where their
  locks and channels let them, drains and forced closes have timeouts, and
  kubelet keeps probing. A cache has to sync only where nothing else ends the
  wait (`SyncIsOwed`): hooks that wait on their `stopCh`, and collectors that a
  reload starts itself. There the code relies on the API server.
* `CollectFanIn`: some goroutine of the scrape proceeds; none repeats a step.
* `SecretCache`: the API server recovers from an outage, informers reconnect,
  loops run, and a loop whose context is done does not draw its tick for ever
  (Go's select chooses at random). Secrets and cycles owe nothing.
* `CertCache`: the ticker ticks and both goroutines run. Nothing is assumed of
  file events: the property holds if all of them are lost.

## Findings

1. `SetReady` names no cycle (base.go:234-250): the late call of a stopped poll
   loop marks the next cycle ready or closes a `readyCh` twice, which ends the
   process, although base.go:238 says "Only set ready once per Start cycle".
2. README.md:121, "Leader election ensures only one instance collects
   metrics": the Lease is released before the losing pod's collector stops.
   `OverlapOnlyAfterLostRenewal` is what holds instead.
3. README.md:128, "Automatic failover when leader pod dies": `Run` is called
   once per elector. In the run, a pod leads, loses a renewal and stays up with
   an elector that has returned; the other one takes the Lease and dies. Nobody
   takes over until a pod is started anew or reloaded: with the dead pod
   restarted, it would lead itself.
4. database.go:369, "Wait for all processing to complete": a cancelled
   dispatcher does not wait for its workers, and a worker sends on the closed
   channel.
5. imagepull.go:71, "Current slow image pull duration in seconds after exceeding
   the configured threshold": a fired timer is forgotten, so the next event of
   the waiting pod arms another one, whose callback sets the start of the pull
   to its own (imagepull.go:306). The duration falls back to the threshold again
   and again.

Run 4's panic and run 1's panic are why `BaseCollector` and `DatabasePoll` stop
at `panicked`: their other properties are about the time before.

## Proofs

Each holds for all values of the constants that satisfy the named assumptions of
the modules, and is proved as `Spec => []Inv` from an inductive invariant
`IInv`, with one lemma per conjunct and one step per action.

* `BaseCollectorProofs`: `TypeCorrect`, `LiveContext`, `NoStranded`,
  `EmitAfterPoll`, `ReadyFalls`. The invariant ties the struct to the cycles:
  cycles are numbered in order of creation, all but the current one are
  cancelled and closed, `stopCh` is the current cycle exactly while started, and
  a `readyCh` is closed only after some loop has polled.
* `LeaderElectionProofs`: `TypeCorrect`, `UniqueLeader`, `OverlapBounded`,
  `CurrentOnly`, `NoneAbandoned`, `PodSlotsImplemented`, `SlotImplemented`, for
  all durations that `Validate` accepts. `LeaderUnique` is not inductive: within a pod it holds
  because a server waits for the `doneCh` of the elector it replaces, and between
  two pods, if the durations leave a margin, because a leader renews or gives up
  before its Lease is old enough to be taken. The invariant states both: who
  leads renewed no longer than RetryPeriod + RenewDeadline ago (`LeaderInTime`),
  with a margin holds the Lease, and every elector but the newest is done unless
  the server waits for it. `OverlapBounded` and `CurrentOnly` rest on what is
  stopped once an elector is done, with the late start as the one exception that
  the code leaves. `SlotImplemented` maps, given the margin, every step of the
  detailed specification to a step of `LeaderSlot` or a stutter;
  `PodSlotsImplemented` does so for the electors of each pod without it.
* `DatabasePollProofs`: `TypeCorrect`, `CompletePolls`, `ConcurrencyBounded`,
  `PollsNeverStick`, `PanicsNeedCancel`. The invariant follows a task: it is
  pending or has a worker; a dispatcher that nobody cancelled has returned only
  when its workers are done; a worker that sent has its status in the channel or
  in the map. `WithinConcurrency` counts workers over all polls, while a
  semaphore belongs to one: `SlotsBounded` bounds each poll, and `OneBusyPoll`
  says that workers of two polls are not busy together. `PollsNeverStick` is the
  safety half of `PollEnds`: a dispatcher that waits has launched all its
  workers (`WaitersLaunchedAll`), so it waits for one that runs or that another
  worker of the same poll keeps from a slot, and that one runs, unless the limit
  is 0 and nobody has a slot (`Starved`).
  `PanicsNeedCancel` is what remains true of the violated `NoSendAfterClose`: by
  `DispatchersDone`, only a cancelled dispatcher leaves workers behind.
* `CrdStoreProofs`: `TypeCorrect`, `CountsExact`, `StoreCurrent`. That counts
  are recounts follows from cardinalities of sets that gain or lose one key.
  `StoreFollowsInformer` needs the shape of the queue: the events of an object
  form a chain from the state in the store to the state in the cache (`Chained`,
  `StoreAtHead`), and an event that keeps the version keeps the object, so the
  handler may ignore it. Objects are finite in number; nothing else is bounded.
* `ControlPlaneProofs`: `ScrapeComplete`, `ScrapesNeverStick`,
  `ScrapesOfOneGeneration`, `LocksInOrder`, `ReloadsSettle`, the types, and all
  of them for the composed specification in `ControlPlaneCorrect`. A scrape is
  complete because sent = delivered + buffered, channels are closed after the
  last collector, and Collect waits for the wrapper (`FanInv`); with room in the
  wrapper's channel, which has 100 places, a collector waits only while the
  wrapper has something to forward (`ScrapeGoesOn`). It is of one generation
  because a scrape that has copied the map reads under `s.mu`, and `WriterAlone`
  keeps a reload before its lock meanwhile (`LInv`). `LocksInOrder` is the
  safety half of `EveryWaitEnds`: a request that reads `s.mu` never waits for a
  writer of the registry, a hook that does so has a cancelled context, and of
  earlier generations, whose electors were cancelled and awaited, nobody is left
  to wait for (`EarlierEnd`). `SettledFollowsFile` speaks of rest only; what is
  inductive is `ChangeIsPending`: a revision on disk that is not in force has an
  event, a timer or a reload that will read it or has read it, and
  `JobProgress`, what a reload has applied by where it is, pprof's port or the
  failure to have it included (`RInv`).
* `InformerProofs`: `PullsFollowPods`, `AnswersOfTheNode`, `StopsEndInformers`
  and the types. `PullInv` adds to the mirror that the last queued version is
  the API server's; then a callback that is ahead of the informer is corrected
  by what is still queued. `NInv` adds that an answer is of a node that is there,
  and from a list no older than the last before the node was seen, or inherited.
  `HInv` is what an open channel means: as long as nobody
  overtakes, one Start and one Stop at most are under way, what runs does so on
  the current channel, somebody is there to stop it, and the channel that OnStop
  will close is open.
* `ReviewCacheProofs`: `GrantsAreRecent`. `GrantIsRecent` speaks of replies. The
  invariant bounds the age of what an entry says by the life it has left
  (`EntrySound`) and of what a request was told by the request's own age
  (`Sound`), which answers stored in any order keep.
* `CollectorsProofs`: `CountsAreChecked`, `UsersHaveOneSource`,
  `SnapshotsAreTheBill`, the types of the remaining modules, and
  `CollectorsCorrect` for the composed specification, where a step is a step or
  a stutter of each module. `JobSound` says that an index a target has given out
  is checked or in a worker's hand, and that a count is of results nobody
  changes any more. In a bill, the window is an hour that is over
  (`WindowOfNow`), `$match` takes exactly its documents, with one on the
  boundary in the hour it ends (`WindowIsTheHour`, `PipelineRows`), and a later
  document changes nothing of what a query saw (`RowsKept`). That the groups'
  sums, added up by resource and by owner, are those of the documents one by one
  is `SumOfSums`: over parts that share nothing, a sum of sums is the sum over
  all. Sums are folds; that they exist and may be taken in any order (`SumStep`,
  `SumWithout`) is proved from their definition by taking a least set that would
  be a counterexample (`LeastSubset`).

Assumptions. `TimingAssumption` is what `Validate` (config.go:309) enforces;
that RetryPeriod + RenewDeadline stays below LeaseDuration, which the defaults
satisfy and nothing checks, is a condition inside the statements that need it
(`LeaderUnique` and `OverlapOnlyAfterLostRenewal` between two pods,
`SlotImplemented`). `LimitAssumption` admits every limit, 0 included.
The other assumptions either bound the instance (edits, changes, calls, lists
and clocks are naturals) or hold of constants in the code: entries of
`ReviewCache` live 1 minute, 5 minutes and 30 seconds (`pkg/auth`), so a denial
no longer than a grant, the worker pools of `ProbePool` have a fixed positive
size, and the wrapper's channel, for `ScrapesNeverStick`, has 100 places.

Only model-checked: everything under fairness (`DecidedWaitEnds`, `ShutdownEnds`,
`StandbyTakesOver`, `PollEnds`, `LoopEnds`, `ScrapeMirrorsCluster`,
`ChangeTakesEffect`, `EveryWaitEnds`, `FailedLeaderIsReplaced`,
`DiscoveryKeepsUp`, `CertFollowsFiles`), because the prover has neither liveness
nor ENABLED. Of four of them the safety half is proved: that nobody waits in a
circle, of `PollEnds` (`PollsNeverStick`) and of `EveryWaitEnds`
(`LocksInOrder`); that what is reached is right, of `ChangeTakesEffect`
(`ReloadsSettle`) and of `ScrapeMirrorsCluster` (`StoreCurrent`). The five
violations are findings, and there is nothing to prove about them.

## Not modelled

* Database connectors and their preflight, DNS, HTTP and TLS probes, the
  balance providers' requests, the LVM commands: I/O, whose outcomes are
  choices of the actions that wait for them (`DatabasePoll`, `ProbePool`,
  `BalancePoll`). LVM and CockroachDB licenses have no state but the latest
  results of a poll, and `BaseCollector`'s lifecycle.
* Parsing of certificates, licenses, command output and field paths of CRDs:
  pure conversions over strings, which the repository's tests reach.
* Layering of defaults, file and environment, which third-party decoders do by
  reflection; the Kubernetes client provider, a `sync.Once` whose failure is an
  alternative in `LeaderElection`; logging, identity, the Helm chart.
* Cloud accounts that the configuration lists twice, and a collector that cannot
  be created.

## What is left to prove

Every invariant and every action property of the passing runs is proved, and so
is the refinement of `LeaderSlot`. What remains are the liveness properties above,
which stay with TLC. For `SecretCache` and `CertCache`, whose runs check
liveness, only the types are proved: what their safety would say (no loop finds
a neighbour's secrets while `mixed` is not set, and what is served was read as a
pair) holds by a single guard each.
