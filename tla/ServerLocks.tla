----------------------------- MODULE ServerLocks -----------------------------
(***************************************************************************)
(* Who waits for whom in a running server: Server.Reload and Shutdown, the *)
(* scrapes and health requests of the main and the debug HTTP server, and  *)
(* the electors' callbacks into the registry (server/*.go,                 *)
(* pkg/registry, pkg/httpserver).                                          *)
(*                                                                         *)
(* s.mu and r.mu are sync.RWMutex: a writer that waits keeps new readers   *)
(* out.  They need no variables: who holds or awaits them is where the     *)
(* goroutines are.  A read lock that is taken and given back within a step *)
(* is a guard of that step.  Every Reinitialize begins a generation, with  *)
(* one instance of the leader-managed collector and, if leader election is *)
(* on, one elector.                                                        *)
(***************************************************************************)
EXTENDS Naturals, FiniteSets

CONSTANTS
  Scrapes,      \* requests for metrics that may be under way at a time
  MaxGens       \* bound: generations of collector instances

ASSUME GensAssumption == MaxGens \in Nat \ {0}

Gens == 1..MaxGens
Http == {"main", "debug"}

VARIABLES
  election,     \* leader election is enabled (fixed)
  hookWaits,    \* what ends the wait for the cache: "stopCh" or "ctx" (fixed)
  gen,          \* the generation r.collectors holds
  reloadAt,     \* where Server.Reload is
  downAt,       \* where Shutdown is
  scrape,       \* [at, via, gen]: gen is that of the copied collector map
  health,       \* the liveness probe's request: idle, asked, unhealthy
  http,         \* the HTTP servers: up, draining, down
  elector,      \* per generation: off, running, leading, stopping, done
  cancelled,    \* generations whose elector context is cancelled
  starter,      \* OnStartedLeading, per generation: [at, on]
  inst,         \* collector instances: [started, up, told]
  synced        \* the API server answers: informer caches sync

lockVars == <<election, hookWaits, gen, reloadAt, downAt, scrape, health, http,
              elector, cancelled, starter, inst, synced>>

ReloadSteps == {"idle", "lockS", "electors", "plain", "drain", "lockR", "reinit",
                "start", "hook"}
DownSteps   == {"no", "main", "debug", "electors", "plain", "exited"}

LockTypeOK ==
  /\ election \in BOOLEAN /\ hookWaits \in {"stopCh", "ctx"}
  /\ gen \in Gens /\ reloadAt \in ReloadSteps /\ downAt \in DownSteps
  /\ scrape \in [Scrapes -> [at : {"idle", "lockS", "copy", "collect", "emit"},
                             via : Http, gen : 0..MaxGens]]
  /\ health \in {"idle", "asked", "unhealthy"}
  /\ http \in [Http -> {"up", "draining", "down"}]
  /\ elector \in [Gens -> {"off", "running", "leading", "stopping", "done"}]
  /\ cancelled \subseteq Gens
  /\ starter \in [Gens -> [at : {"none", "spawned", "started", "hook"},
                           on : 0..MaxGens]]
  /\ inst \in [Gens -> [started : BOOLEAN, up : BOOLEAN, told : BOOLEAN]]
  /\ synced \in BOOLEAN

NoScrape  == [at |-> "idle", via |-> "main", gen |-> 0]
NoStarter == [at |-> "none", on |-> 0]
NewInst   == [started |-> FALSE, up |-> FALSE, told |-> FALSE]

(* Init has returned and both servers listen. *)
LockInit ==
  /\ election \in BOOLEAN /\ hookWaits \in {"stopCh", "ctx"}
  /\ gen = 1 /\ reloadAt = "idle" /\ downAt = "no"
  /\ scrape = [s \in Scrapes |-> NoScrape]
  /\ health = "idle"
  /\ http \in [Http -> {"up", "down"}] /\ http["main"] = "up"
  /\ elector = [g \in Gens |-> IF g = 1 /\ election THEN "running" ELSE "off"]
  /\ cancelled = {}
  /\ starter = [g \in Gens |-> NoStarter]
  /\ inst = [g \in Gens |-> [NewInst EXCEPT !.started = g = 1 /\ ~election,
                                            !.up = g = 1 /\ ~election]]
  /\ synced \in BOOLEAN

Alive == downAt # "exited"

(* s.mu: ReloadAwareCollector reads, Reload writes. *)
ServerReaders  == {s \in Scrapes : scrape[s].at \notin {"idle", "lockS"}}
ServerReadable == reloadAt = "idle"

(* r.mu: only hooks hold it for long; Reinitialize writes. *)
InHook(g)        == starter[g].at \in {"started", "hook"}
RegistryReaders  == {g \in Gens : InHook(g)}
RegistryReadable == reloadAt \notin {"lockR", "reinit"}

-----------------------------------------------------------------------------
(* Scrapes                                                                 *)

ScrapeBegins(s, v) ==
  /\ Alive /\ scrape[s].at = "idle" /\ http[v] = "up"
  /\ scrape' = [scrape EXCEPT ![s] = [at |-> "lockS", via |-> v, gen |-> 0]]
  /\ UNCHANGED <<election, hookWaits, gen, reloadAt, downAt, health, http,
                 elector, cancelled, starter, inst, synced>>

ScrapeAt(s, from, to, g) ==
  /\ Alive /\ scrape[s].at = from
  /\ scrape' = [scrape EXCEPT ![s].at = to, ![s].gen = g]
  /\ UNCHANGED <<election, hookWaits, gen, reloadAt, downAt, health, http,
                 elector, cancelled, starter, inst, synced>>

(* ReloadAwareCollector.Collect: s.mu.RLock. *)
SlipScrapeLocks(s) == ScrapeAt(s, "lockS", "copy", 0)
ScrapeLocks(s) == ServerReadable /\ ScrapeAt(s, "lockS", "copy", 0)

(* PrometheusCollector.Collect copies the map and the instance name ... *)
ScrapeCopies(s) == RegistryReadable /\ ScrapeAt(s, "copy", "collect", gen)

(* ... collects from every collector, each of which gives up waiting to get
   ready after a timeout, and reads the instance name again. *)
ScrapeCollects(s) == ScrapeAt(s, "collect", "emit", scrape[s].gen)

ScrapeEmits(s) ==
  RegistryReadable /\ ScrapeAt(s, "emit", "idle", 0)

ScrapeStep(s) ==
  ScrapeLocks(s) \/ ScrapeCopies(s) \/ ScrapeCollects(s) \/ ScrapeEmits(s)

-----------------------------------------------------------------------------
(* Health requests: the liveness probe of the chart asks /health.          *)

HealthAsked ==
  /\ Alive /\ health = "idle" /\ http["main"] = "up"
  /\ health' = "asked"
  /\ UNCHANGED <<election, hookWaits, gen, reloadAt, downAt, scrape, http,
                 elector, cancelled, starter, inst, synced>>

(* handleHealth: a collector counts unless this pod does not lead it; Health
   asks whether it is started.  isCollectorLeader looks the elector up among
   the current handles, which stopLeaderElections has emptied. *)
Leads(g) == elector[g] = "leading" /\ g \notin cancelled

SlipHealthy == ~election => inst[gen].started
Healthy == (~election \/ Leads(gen)) => inst[gen].started

HealthAnswered ==
  /\ Alive /\ health = "asked" /\ RegistryReadable
  /\ health' = IF Healthy THEN "idle" ELSE "unhealthy"
  /\ UNCHANGED <<election, hookWaits, gen, reloadAt, downAt, scrape, http,
                 elector, cancelled, starter, inst, synced>>

(* The kubelet restarts a pod that answered unhealthy: SIGTERM. *)
ProbeRestarts ==
  /\ health = "unhealthy" /\ downAt = "no"
  /\ downAt' = "main" /\ cancelled' = Gens
  /\ UNCHANGED <<election, hookWaits, gen, reloadAt, scrape, health, http,
                 elector, starter, inst, synced>>

-----------------------------------------------------------------------------
(* Electors and their callbacks                                            *)

ElectorLeads(g) ==
  /\ Alive /\ elector[g] = "running" /\ g \notin cancelled
  /\ elector' = [elector EXCEPT ![g] = "leading"]
  /\ starter' = [starter EXCEPT ![g] = [at |-> "spawned", on |-> 0]]
  /\ UNCHANGED <<election, hookWaits, gen, reloadAt, downAt, scrape, health,
                 http, cancelled, inst, synced>>

(* The context is cancelled, or the Lease is lost: Run cancels the context of
   the started callback and calls OnStoppedLeading. *)
ElectorReturns(g) ==
  /\ Alive
  /\ \/ elector[g] = "leading"
     \/ elector[g] = "running" /\ g \in cancelled
  /\ elector' = [elector EXCEPT ![g] = "stopping"]
  /\ UNCHANGED <<election, hookWaits, gen, reloadAt, downAt, scrape, health,
                 http, cancelled, starter, inst, synced>>

(* BaseCollector.Stop: an instance that is not started is left alone; one
   whose hook has made its channel is told through it. *)
Stopped(n) ==
  IF ~inst[n].started THEN inst
  ELSE [inst EXCEPT ![n] =
         [started |-> FALSE, up |-> FALSE,
          told |-> \/ reloadAt = "hook"
                   \/ \E g \in Gens : starter[g] = [at |-> "hook", on |-> n]]]

(* OnStoppedLeading: registry.StopCollector by name; then doneCh is closed. *)
StopCallback(g) ==
  /\ Alive /\ elector[g] = "stopping" /\ RegistryReadable
  /\ elector' = [elector EXCEPT ![g] = "done"]
  /\ inst' = Stopped(gen)
  /\ UNCHANGED <<election, hookWaits, gen, reloadAt, downAt, scrape, health,
                 http, cancelled, starter, synced>>

(* OnStartedLeading: registry.StartCollector by name, under r.mu.RLock until
   the hook returns.  An instance that is started already is an error. *)
StartCallback(g) ==
  /\ Alive /\ starter[g].at = "spawned" /\ RegistryReadable
  /\ IF inst[gen].started
     THEN starter' = [starter EXCEPT ![g] = NoStarter] /\ UNCHANGED inst
     ELSE /\ starter' = [starter EXCEPT ![g] = [at |-> "started", on |-> gen]]
          /\ inst' = [inst EXCEPT ![gen].started = TRUE]
  /\ UNCHANGED <<election, hookWaits, gen, reloadAt, downAt, scrape, health,
                 http, elector, cancelled, synced>>

(* The hook makes its stopCh and waits for the cache. *)
HookWaits(g) ==
  /\ Alive /\ starter[g].at = "started"
  /\ starter' = [starter EXCEPT ![g].at = "hook"]
  /\ UNCHANGED <<election, hookWaits, gen, reloadAt, downAt, scrape, health,
                 http, elector, cancelled, inst, synced>>

(* The context a hook got ends with its elector's Run or with Stop. *)
HookCtxDone(g) == elector[g] \in {"stopping", "done"} \/ g \in cancelled
                    \/ ~inst[starter[g].on].started

HookSyncs(g) ==
  /\ Alive /\ starter[g].at = "hook" /\ synced
  /\ starter' = [starter EXCEPT ![g] = NoStarter]
  /\ inst' = [inst EXCEPT ![starter[g].on].up = inst[starter[g].on].started]
  /\ UNCHANGED <<election, hookWaits, gen, reloadAt, downAt, scrape, health,
                 http, elector, cancelled, synced>>

(* The wait is ended, or the hook fails for another reason: Start rolls back. *)
HookFails(g) ==
  /\ Alive /\ starter[g].at = "hook"
  /\ starter' = [starter EXCEPT ![g] = NoStarter]
  /\ inst' = [inst EXCEPT ![starter[g].on].started = FALSE]
  /\ UNCHANGED <<election, hookWaits, gen, reloadAt, downAt, scrape, health,
                 http, elector, cancelled, synced>>

HookTold(g) == IF hookWaits = "ctx" THEN HookCtxDone(g)
                                    ELSE inst[starter[g].on].told

CacheSyncs ==
  /\ ~synced
  /\ synced' = TRUE
  /\ UNCHANGED <<election, hookWaits, gen, reloadAt, downAt, scrape, health,
                 http, elector, cancelled, starter, inst>>

-----------------------------------------------------------------------------
(* Server.Reload                                                           *)

ReloadGoes(from, to) ==
  /\ Alive /\ reloadAt = from /\ reloadAt' = to
  /\ UNCHANGED <<election, hookWaits, downAt, scrape, health, starter, synced>>

ReloadBegins ==
  /\ gen < MaxGens
  /\ ReloadGoes("idle", "lockS")
  /\ UNCHANGED <<gen, http, elector, cancelled, inst>>

(* s.mu.Lock, then stopLeaderElections cancels and waits for every doneCh. *)
ReloadLocks ==
  /\ ServerReaders = {}
  /\ ReloadGoes("lockS", "electors")
  /\ cancelled' = cancelled \union {gen}
  /\ UNCHANGED <<gen, http, elector, inst>>

(* Whoever of Reload and Shutdown comes first takes the handles and waits; the
   other one finds none. *)
ReloadStops ==
  /\ elector[gen] \in {"off", "done"} \/ downAt \in {"electors", "plain"}
  /\ ReloadGoes("electors", "plain")
  /\ inst' = IF election THEN inst ELSE Stopped(gen)
  /\ UNCHANGED <<gen, http, elector, cancelled>>

(* reloadDebugServer, if its configuration has changed: the listener closes
   and Shutdown waits for requests that are under way ... *)
ReloadDebug ==
  \/ ReloadGoes("plain", "lockR") /\ UNCHANGED <<gen, http, elector, cancelled, inst>>
  \/ /\ http["debug"] # "draining"
     /\ ReloadGoes("plain", "drain")
     /\ http' = [http EXCEPT !["debug"] = "draining"]
     /\ UNCHANGED <<gen, elector, cancelled, inst>>

(* httpserver.Start of a new server: disabled, or the address in use, is down. *)
StartDebug == \E up \in {"up", "down"} : http' = [http EXCEPT !["debug"] = up]

InFlight(v) == \E s \in Scrapes : scrape[s].at # "idle" /\ scrape[s].via = v

(* ... but not longer than its timeout.  A new server may be started. *)
SlipReloadDrained ==
  /\ ~InFlight("debug")
  /\ ReloadGoes("drain", "lockR")
  /\ StartDebug
  /\ UNCHANGED <<gen, elector, cancelled, inst>>

ReloadDrained ==
  /\ ReloadGoes("drain", "lockR")
  /\ StartDebug
  /\ UNCHANGED <<gen, elector, cancelled, inst>>

(* Reinitialize: r.mu.Lock, new instances. *)
ReloadLocksRegistry ==
  /\ RegistryReaders = {}
  /\ ReloadGoes("lockR", "reinit")
  /\ UNCHANGED <<gen, http, elector, cancelled, inst>>

Reinitializes ==
  /\ ReloadGoes("reinit", "start")
  /\ gen' = gen + 1
  /\ UNCHANGED <<http, elector, cancelled, inst>>

(* startCollectors: electors that run on their own, or every collector, one
   after the other, under r.mu.RLock. *)
ReloadStarts ==
  /\ ReloadGoes("start", IF election THEN "idle" ELSE "hook")
  /\ elector' = IF election THEN [elector EXCEPT ![gen] = "running"] ELSE elector
  /\ inst' = IF election THEN inst ELSE [inst EXCEPT ![gen].started = TRUE]
  /\ UNCHANGED <<gen, http, cancelled>>

ReloadHookEnds ==
  /\ synced \/ inst[gen].told \/ (hookWaits = "ctx" /\ downAt # "no")
  /\ ReloadGoes("hook", "idle")
  /\ \E ok \in BOOLEAN :
       inst' = [inst EXCEPT ![gen].up = ok /\ synced /\ inst[gen].started,
                            ![gen].started = ok /\ synced /\ inst[gen].started]
  /\ UNCHANGED <<gen, http, elector, cancelled>>

ReloadProceeds ==
  \/ ReloadLocks \/ ReloadStops \/ ReloadDebug \/ ReloadDrained
  \/ ReloadLocksRegistry \/ Reinitializes \/ ReloadStarts \/ ReloadHookEnds

-----------------------------------------------------------------------------
(* Shutdown: it takes neither lock.                                        *)

DownGoes(from, to) ==
  /\ downAt = from /\ downAt' = to
  /\ UNCHANGED <<election, hookWaits, gen, reloadAt, scrape, health, starter,
                 synced>>

(* SIGTERM ends the server's context, and with it those of the electors. *)
Sigterm ==
  /\ DownGoes("no", "main")
  /\ cancelled' = Gens
  /\ UNCHANGED <<http, elector, inst>>

(* httpserver.Stop: graceful, then forced by its timeout. *)
DownMain ==
  /\ DownGoes("main", "debug")
  /\ http' = [http EXCEPT !["main"] = "down"]
  /\ UNCHANGED <<elector, cancelled, inst>>

(* The debug server's own mutex makes this wait for a Stop in Reload. *)
DownDebug ==
  /\ reloadAt # "drain"
  /\ DownGoes("debug", "electors")
  /\ http' = [http EXCEPT !["debug"] = "down"]
  /\ UNCHANGED <<elector, cancelled, inst>>

DownElectors ==
  /\ elector[gen] \in {"off", "done"} \/ reloadAt \notin {"idle", "lockS"}
  /\ DownGoes("electors", "plain")
  /\ UNCHANGED <<http, elector, cancelled, inst>>

DownPlain ==
  /\ RegistryReadable
  /\ DownGoes("plain", "exited")
  /\ inst' = IF election THEN inst ELSE Stopped(gen)
  /\ UNCHANGED <<http, elector, cancelled>>

DownProceeds == DownMain \/ DownDebug \/ DownElectors \/ DownPlain

-----------------------------------------------------------------------------
ElectorProceeds(g) ==
  \/ g \in cancelled /\ ElectorReturns(g)
  \/ StopCallback(g) \/ StartCallback(g) \/ HookWaits(g) \/ HookSyncs(g)
  \/ starter[g].at = "hook" /\ HookTold(g) /\ HookFails(g)

LockNext ==
  \/ \E s \in Scrapes : ScrapeStep(s) \/ \E v \in Http : ScrapeBegins(s, v)
  \/ HealthAsked \/ HealthAnswered \/ ProbeRestarts
  \/ \E g \in Gens : \/ ElectorLeads(g) \/ ElectorReturns(g) \/ HookFails(g)
                     \/ StopCallback(g) \/ StartCallback(g) \/ HookWaits(g)
                     \/ HookSyncs(g)
  \/ CacheSyncs
  \/ ReloadBegins \/ ReloadProceeds
  \/ Sigterm \/ DownProceeds

(* A cache must sync in the end only where nothing else ends the wait. *)
SyncIsOwed == hookWaits = "stopCh" \/ ~election

LockFairness ==
  /\ \A s \in Scrapes : WF_lockVars(ScrapeStep(s))
  /\ \A g \in Gens : WF_lockVars(ElectorProceeds(g))
  /\ WF_lockVars(ReloadProceeds)
  /\ WF_lockVars(DownProceeds)
  /\ WF_lockVars(HealthAsked) /\ WF_lockVars(HealthAnswered)
  /\ WF_lockVars(ProbeRestarts)
  /\ WF_lockVars(SyncIsOwed /\ CacheSyncs)

LockSpec == LockInit /\ [][LockNext]_lockVars /\ LockFairness

-----------------------------------------------------------------------------
(* A scrape labels what it collected with the instance name of the same
   generation of collectors: it reads the map and, later, the name under two
   locks of r.mu, and only s.mu keeps a reload from coming in between
   (registry/collector.go:155 and 127). *)
ScrapeOfOneGeneration ==
  \A s \in Scrapes : scrape[s].at = "emit" => scrape[s].gen = gen

(* Nobody waits for ever.  A reload ends, a scrape returns and a shutdown
   exits, whatever hooks wait for and whichever requests meet them, although a
   reload that drains the debug server holds the lock that the drained
   requests want (reload.go:89), and a hook holds the lock a reload wants
   (registry.go:215). *)
EveryWaitEnds ==
  /\ (reloadAt # "idle") ~> (reloadAt = "idle" \/ ~Alive)
  /\ \A s \in Scrapes : (scrape[s].at # "idle") ~> (scrape[s].at = "idle" \/ ~Alive)
  /\ (downAt # "no") ~> ~Alive

(* A StartCollector that fails after the Lease was won is only logged
   (leader_election.go:74).  It does not stay unnoticed: the pod answers the
   liveness probe with 503 and is restarted, unless the collector is started,
   the leadership ends or the caller's reload replaces it first. *)
FailedLeaderIsReplaced ==
  (Leads(gen) /\ starter[gen].at = "none" /\ ~inst[gen].started)
    ~> (~Leads(gen) \/ inst[gen].started \/ downAt # "no")
=============================================================================
