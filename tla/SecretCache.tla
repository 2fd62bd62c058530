---------------------------- MODULE SecretCache ----------------------------
(***************************************************************************)
(* How the database collector discovers databases: pollLoop of database.go *)
(* and the secret cache (secret_cache.go).  c.secretCache belongs to the   *)
(* collector, not to the loop: a loop of a stopped cycle that has not yet  *)
(* ended shares it with the loop of the next cycle.  What a poll finds is  *)
(* abstracted to the versions of the cluster's secrets it was found in.    *)
(***************************************************************************)
EXTENDS Naturals, FiniteSets

CONSTANTS
  MaxLoops,     \* bound: cycles of the collector, each with a poll loop
  MaxSecrets    \* bound: changes of the secrets

ASSUME SecretAssumption == MaxLoops \in Nat /\ MaxSecrets \in Nat \ {0}

Loops == 1..MaxLoops

VARIABLES
  allNamespaces,  \* the configuration names no namespaces: use informers
  secretsAt,      \* the version of the secrets at the API server
  secretApi,      \* the API server: "up", "down", or "back" after an outage
  loop,           \* pollLoop of each cycle: where it is, and its context
  secretCache,    \* c.secretCache: the cache made by that loop, or 0 for nil
  stopCh,         \* sc.stopCh of a cache: the channel made by that loop, or 0
  chan,           \* the channels
  informers,      \* sc.informers of a cache: the ones that these loops started
  store,          \* the version in the stores of a loop's informers; 0: none
  found,          \* the versions that the last poll of a loop found
  mixed,          \* history: a loop replaced or started the cache of another one,
                  \* or stopped it once it had synced
  secretPanic     \* nil dereference or close of a closed channel: the process ends

secretVars == <<allNamespaces, secretsAt, secretApi, loop, secretCache, stopCh,
                chan, informers, store, found, mixed, secretPanic>>

SecretTypeOK ==
  /\ allNamespaces \in BOOLEAN
  /\ secretsAt \in 1..MaxSecrets
  /\ secretApi \in {"up", "down", "back"}
  /\ loop \in [Loops -> [at : {"none", "new", "start", "sync", "run", "idle", "done"},
                         live : BOOLEAN, cache : {0} \union Loops]]
  /\ secretCache \in {0} \union Loops
  /\ stopCh \in [Loops -> {0} \union Loops]
  /\ chan \in [Loops -> {"none", "open", "closed"}]
  /\ informers \in [Loops -> SUBSET Loops]
  /\ store \in [Loops -> 0..MaxSecrets]
  /\ found \in [Loops -> SUBSET (1..MaxSecrets)]
  /\ mixed \in BOOLEAN
  /\ secretPanic \in BOOLEAN

SecretInit ==
  /\ allNamespaces \in BOOLEAN
  /\ secretsAt = 1
  /\ secretApi = "up"
  /\ loop = [i \in Loops |-> [at |-> "none", live |-> FALSE, cache |-> 0]]
  /\ secretCache = 0
  /\ stopCh = [i \in Loops |-> 0]
  /\ chan = [i \in Loops |-> "none"]
  /\ informers = [i \in Loops |-> {}]
  /\ store = [i \in Loops |-> 0]
  /\ found = [i \in Loops |-> {}]
  /\ mixed = FALSE
  /\ secretPanic = FALSE

cacheVars == <<secretCache, stopCh, chan, informers>>

-----------------------------------------------------------------------------
(* The cluster: secrets change; the API server fails once and recovers. *)
SecretsChange ==
  /\ secretsAt < MaxSecrets
  /\ secretsAt' = secretsAt + 1
  /\ UNCHANGED <<allNamespaces, secretApi, loop, cacheVars, store, found, mixed,
                 secretPanic>>

ApiFails ==
  /\ secretApi = "up"
  /\ secretApi' = "down"
  /\ UNCHANGED <<allNamespaces, secretsAt, loop, cacheVars, store, found, mixed,
                 secretPanic>>

ApiRecovers ==
  /\ secretApi = "down"
  /\ secretApi' = "back"
  /\ UNCHANGED <<allNamespaces, secretsAt, loop, cacheVars, store, found, mixed,
                 secretPanic>>

(* A running informer lists or watches. *)
InformerSees(i) ==
  /\ chan[i] = "open" /\ allNamespaces /\ secretApi # "down"
  /\ store[i] # secretsAt
  /\ store' = [store EXCEPT ![i] = secretsAt]
  /\ UNCHANGED <<allNamespaces, secretsAt, secretApi, loop, cacheVars, found,
                 mixed, secretPanic>>

(* The collector's cycles: StartFunc launches a loop; Stop cancels its context
   and waits for nothing. *)
CycleStarts(i) ==
  /\ loop[i].at = "none"
  /\ i > 1 => loop[i - 1].at # "none" /\ ~loop[i - 1].live
  /\ loop' = [loop EXCEPT ![i].at = "new", ![i].live = TRUE]
  /\ UNCHANGED <<allNamespaces, secretsAt, secretApi, cacheVars, store, found,
                 mixed, secretPanic>>

CycleStops(i) ==
  /\ loop[i].live
  /\ loop' = [loop EXCEPT ![i].live = FALSE]
  /\ UNCHANGED <<allNamespaces, secretsAt, secretApi, cacheVars, store, found,
                 mixed, secretPanic>>

-----------------------------------------------------------------------------
(* pollLoop: a new cache for the collector. *)
NewSecretCache(i) ==
  /\ loop[i].at = "new"
  /\ secretCache' = i
  /\ loop' = [loop EXCEPT ![i].at = "start"]
  /\ mixed' = (mixed \/ \E k \in Loops : k > i /\ loop[k].at \notin {"none", "new"})
  /\ UNCHANGED <<allNamespaces, secretsAt, secretApi, stopCh, chan, informers,
                 store, found, secretPanic>>

(* Start, up to its wait, on whatever cache the collector has now. *)
StartCache(i) ==
  /\ loop[i].at = "start"
  /\ IF secretCache = 0
     THEN /\ secretPanic' = TRUE
          /\ UNCHANGED <<loop, stopCh, chan, informers, mixed>>
     ELSE /\ loop' = [loop EXCEPT ![i].at = IF allNamespaces THEN "sync" ELSE "run",
                                  ![i].cache = secretCache]
          /\ stopCh' = [stopCh EXCEPT ![secretCache] = i]
          /\ chan' = [chan EXCEPT ![i] = "open"]
          /\ informers' = IF allNamespaces
                          THEN [informers EXCEPT ![secretCache] = @ \union {i}]
                          ELSE informers
          /\ mixed' = (mixed \/ secretCache # i)
          /\ UNCHANGED secretPanic
  /\ UNCHANGED <<allNamespaces, secretsAt, secretApi, secretCache, store, found>>

(* WaitForCacheSync: all informers of the cache, or its stopCh is closed; the
   context of the loop is not looked at. *)
CacheSynced(i) ==
  /\ loop[i].at = "sync"
  /\ \A k \in informers[loop[i].cache] : store[k] > 0
  /\ IF secretCache = 0
     THEN secretPanic' = TRUE /\ UNCHANGED loop
     ELSE loop' = [loop EXCEPT ![i].at = "run"] /\ UNCHANGED secretPanic
  /\ UNCHANGED <<allNamespaces, secretsAt, secretApi, cacheVars, store, found, mixed>>

SlipStartFailed(i) ==
  /\ loop[i].at = "sync" /\ chan[i] = "closed"
  /\ loop' = [loop EXCEPT ![i].at = "run"]
  /\ UNCHANGED <<allNamespaces, secretsAt, secretApi, cacheVars, store, found,
                 mixed, secretPanic>>

(* A failed Start: the collector does without a cache. *)
StartFailed(i) ==
  /\ loop[i].at = "sync" /\ chan[i] = "closed"
  /\ secretCache' = 0
  /\ loop' = [loop EXCEPT ![i].at = "run"]
  /\ UNCHANGED <<allNamespaces, secretsAt, secretApi, stopCh, chan, informers,
                 store, found, mixed, secretPanic>>

(* GetSecrets: the stores of all informers of the cache, running or stopped. *)
GetSecrets(c) == {store[k] : k \in informers[c]} \ {0}

(* Direct queries, for all namespaces or the configured ones. *)
ListSecrets(i) == IF secretApi # "down" /\ loop[i].live THEN {secretsAt} ELSE {}

collectDatabaseTasks(i) ==
  IF allNamespaces /\ secretCache # 0 THEN GetSecrets(secretCache)
                                      ELSE ListSecrets(i)

(* RunPollLoop: the first poll, and one at every tick; select may prefer the
   tick to the end of the context. *)
PollSecrets(i) ==
  /\ loop[i].at \in {"run", "idle"}
  /\ found' = [found EXCEPT ![i] = collectDatabaseTasks(i)]
  /\ loop' = [loop EXCEPT ![i].at = "idle"]
  /\ UNCHANGED <<allNamespaces, secretsAt, secretApi, cacheVars, store, mixed,
                 secretPanic>>

(* The end of pollLoop stops the cache that the collector has now. *)
StopCache(i) ==
  /\ loop[i].at = "idle" /\ ~loop[i].live
  /\ loop' = [loop EXCEPT ![i].at = "done"]
  /\ LET k == IF secretCache = 0 THEN 0 ELSE stopCh[secretCache]
     IN IF k = 0 THEN UNCHANGED <<chan, mixed, secretPanic>>
        ELSE /\ secretPanic' = (chan[k] = "closed")
             /\ chan' = [chan EXCEPT ![k] = "closed"]
             /\ mixed' = (mixed \/ (k # i /\ store[k] > 0))
  /\ UNCHANGED <<allNamespaces, secretsAt, secretApi, secretCache, stopCh,
                 informers, store, found>>

LoopStep(i) ==
  /\ ~secretPanic
  /\ \/ NewSecretCache(i) \/ StartCache(i) \/ CacheSynced(i) \/ StartFailed(i)
     \/ PollSecrets(i) \/ StopCache(i)

SecretNext ==
  /\ ~secretPanic
  /\ \/ SecretsChange \/ ApiFails \/ ApiRecovers
     \/ \E i \in Loops : InformerSees(i) \/ CycleStarts(i) \/ CycleStops(i)
     \/ \E i \in Loops : LoopStep(i)

(* Informers reconnect, the API server recovers, the scheduler is fair to the
   loops, and a loop whose context is done does not draw the tick for ever. *)
SecretSpec ==
  /\ SecretInit /\ [][SecretNext]_secretVars
  /\ WF_secretVars(ApiRecovers /\ ~secretPanic)
  /\ \A i \in Loops : /\ WF_secretVars(InformerSees(i) /\ ~secretPanic)
                      /\ WF_secretVars(LoopStep(i))
                      /\ WF_secretVars(StopCache(i) /\ ~secretPanic)

-----------------------------------------------------------------------------
(* Unless a loop replaced, started, or stopped once it had synced, the cache of
   another one, or the process ended: every loop of a
   stopped cycle ends (although Start waits for the informers, not for the
   context), and the polls of a running cycle find the secrets the cluster has,
   from the cache, or directly when the loop of an earlier cycle stopped the
   cache while it was starting. *)
DiscoveryKeepsUp ==
  \A i \in Loops :
    /\ (loop[i].at # "none" /\ ~loop[i].live) ~> (loop[i].at = "done" \/ mixed \/ secretPanic)
    /\ <>[](loop[i].live => found[i] = {secretsAt} \/ mixed \/ secretPanic)
=============================================================================
