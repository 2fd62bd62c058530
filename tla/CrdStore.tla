------------------------------ MODULE CrdStore ------------------------------
(***************************************************************************)
(* One CRD of the crds collector (src/pkg/collector/crds): its informer    *)
(* queues events of the cluster's objects, and the event handlers keep     *)
(* metricStore, which holds the metrics of every object and, for metrics   *)
(* of type count, how many objects have each value.  The counts are never  *)
(* recomputed: upsert takes back what the stored object contributed and    *)
(* adds what the new one does.                                             *)
(*                                                                         *)
(* An object is its resourceVersion and the fields that count metrics      *)
(* read; the series of the other metric types are a function of the object *)
(* they were built from, so the store is modelled as holding that object.  *)
(* Names of count metrics are taken to be distinct within a CRD.           *)
(*                                                                         *)
(* Operators named Slip... are mistakes the properties must notice, each   *)
(* in place of the definition that follows it.                             *)
(***************************************************************************)
EXTENDS Naturals, Sequences, FiniteSets

CONSTANTS
  Objects,      \* namespace/name of the objects the informer's factory lists
  Allowed,      \* those in a namespace the configuration names
  Metrics,      \* metrics of type count
  Values,       \* values of the fields they read
  NoValue,      \* the field is absent or empty
  MaxRevision,  \* bound: writes to the cluster
  MaxResyncs    \* bound: a resync needs a queue shorter than this

ASSUME ObjectsAssumption == IsFiniteSet(Objects) /\ Allowed \subseteq Objects
ASSUME NoValueAssumption == NoValue \notin Values
ASSUME BoundsAssumption == MaxRevision \in Nat /\ MaxResyncs \in Nat

Status == [Metrics -> Values \cup {NoValue}]
Object == [version : Nat, status : Status]
(* Version 0 marks that there is no object.                                *)
Absent == [version |-> 0, status |-> [m \in Metrics |-> NoValue]]
Present(o) == o.version # 0

EventKind == {"add", "update", "delete", "tombstone"}
Event == [kind : EventKind, key : Objects, old : Object, new : Object]
Counts == [Metrics -> [Values -> Nat]]

VARIABLES
  cluster,       \* the objects as the API server has them
  revision,      \* its latest resourceVersion
  cache,         \* the objects as the informer has them
  events,        \* events the informer has queued for the handlers
  objects,       \* s.objects: the object each entry was built from
  countValues,   \* s.countValues, 0 where the map has no entry
  countMetrics   \* s.countMetrics: the counts a scrape exposes, likewise

store == <<objects, countValues, countMetrics>>
vars == <<cluster, revision, cache, events, store>>

(* Type correctness of the variables.                                      *)
TypeOK ==
  /\ cluster \in [Objects -> Object]
  /\ revision \in 0 .. MaxRevision
  /\ cache \in [Objects -> Object]
  /\ events \in Seq(Event)
  /\ objects \in [Objects -> Object]
  /\ countValues \in Counts
  /\ countMetrics \in Counts

Init ==
  /\ cluster = [k \in Objects |-> Absent]
  /\ revision = 0
  /\ cache = [k \in Objects |-> Absent]
  /\ events = <<>>
  /\ objects = [k \in Objects |-> Absent]
  /\ countValues = [m \in Metrics |-> [v \in Values |-> 0]]
  /\ countMetrics = [m \in Metrics |-> [v \in Values |-> 0]]
-----------------------------------------------------------------------------
(* The cluster: somebody creates, changes or deletes an object.            *)

Write(k, s) ==
  /\ revision < MaxRevision
  /\ revision' = revision + 1
  /\ cluster' = [cluster EXCEPT ![k] = [version |-> revision + 1, status |-> s]]
  /\ UNCHANGED <<cache, events, store>>

Remove(k) ==
  /\ revision < MaxRevision /\ Present(cluster[k])
  /\ revision' = revision + 1
  /\ cluster' = [cluster EXCEPT ![k] = Absent]
  /\ UNCHANGED <<cache, events, store>>
-----------------------------------------------------------------------------
(* The informer.  It may miss versions in between (a new list after a      *)
(* broken watch), and then knows of a deletion only that the object is     *)
(* gone: the handler gets a tombstone with the last state it knew.         *)

Observation(k) ==
  CASE ~Present(cache[k])   -> {"add"}
    [] ~Present(cluster[k]) -> {"delete", "tombstone"}
    [] OTHER                -> {"update"}

Observe(k) ==
  /\ cache[k] # cluster[k]
  /\ \E kind \in Observation(k) :
       events' = Append(events,
         [kind |-> kind, key |-> k, old |-> cache[k], new |-> cluster[k]])
  /\ cache' = [cache EXCEPT ![k] = cluster[k]]
  /\ UNCHANGED <<cluster, revision, store>>

(* Every ResyncPeriod the cache is replayed, as updates to the same state. *)
Resync(k) ==
  /\ Present(cache[k]) /\ Len(events) < MaxResyncs
  /\ events' = Append(events,
       [kind |-> "update", key |-> k, old |-> cache[k], new |-> cache[k]])
  /\ UNCHANGED <<cluster, revision, cache, store>>
-----------------------------------------------------------------------------
(* metricStore.  Each of its operations holds s.mu from its first access   *)
(* to its last, so that a handler and a scrape never overlap.              *)

(* What upsert stores for an object: nothing if its namespace is filtered. *)
Built(k, o) == IF k \in Allowed THEN o ELSE Absent

(* removeCountLocked, for each contribution of a stored object.            *)
SlipRemoved(counts, o) ==
  [m \in Metrics |-> [v \in Values |->
     IF o.status[m] # NoValue THEN counts[m][v] - 1 ELSE counts[m][v]]]
Removed(counts, o) ==
  [m \in Metrics |-> [v \in Values |->
     IF o.status[m] = v /\ counts[m][v] > 0 THEN counts[m][v] - 1
                                            ELSE counts[m][v]]]

(* addCountLocked, for each contribution of a new one.                     *)
Added(counts, o) ==
  [m \in Metrics |-> [v \in Values |->
     IF o.status[m] = v THEN counts[m][v] + 1 ELSE counts[m][v]]]

(* refreshCountMetricLocked: only the entries that were touched.           *)
Refreshed(counts, touched) ==
  [m \in Metrics |-> [v \in Values |->
     IF \E o \in touched : o.status[m] = v THEN counts[m][v]
                                           ELSE countMetrics[m][v]]]

(* Entry k is replaced by what was built of an object, or deleted.         *)
SlipReplace(k, built) ==
  /\ objects' = [objects EXCEPT ![k] = built]
  /\ countValues' = Added(countValues, built)
  /\ countMetrics' = Refreshed(countValues', {built})
Replace(k, built) ==
  /\ objects' = [objects EXCEPT ![k] = built]
  /\ countValues' = Added(Removed(countValues, objects[k]), built)
  /\ countMetrics' = Refreshed(countValues', {objects[k], built})

Upsert(k, o) == Replace(k, Built(k, o))

Delete(k) ==
  \/ ~Present(objects[k]) /\ UNCHANGED store
  \/ Present(objects[k]) /\ Replace(k, Absent)
-----------------------------------------------------------------------------
(* The event handlers, one event at a time, in the order of the queue.     *)

Take(kinds) ==
  /\ events # <<>> /\ Head(events).kind \in kinds
  /\ events' = Tail(events)
  /\ UNCHANGED <<cluster, revision, cache>>

HandleAdd ==
  /\ Take({"add"})
  /\ Upsert(Head(events).key, Head(events).new)

(* Updates to the same resourceVersion are ignored.                        *)
SlipHandleUpdate ==
  /\ Take({"update"})
  /\ IF Head(events).old.version = Head(events).new.version
       THEN UNCHANGED store
       ELSE Upsert(Head(events).key, Head(events).old)
HandleUpdate ==
  /\ Take({"update"})
  /\ IF Head(events).old.version = Head(events).new.version
       THEN UNCHANGED store
       ELSE Upsert(Head(events).key, Head(events).new)

SlipHandleDelete ==
  /\ Take({"delete", "tombstone"})
  /\ IF Head(events).kind = "tombstone" THEN UNCHANGED store
                                        ELSE Delete(Head(events).key)
HandleDelete ==
  /\ Take({"delete", "tombstone"})
  /\ Delete(Head(events).key)

Handle == HandleAdd \/ HandleUpdate \/ HandleDelete

Next ==
  \/ \E k \in Objects, s \in Status : Write(k, s)
  \/ \E k \in Objects : Remove(k) \/ Observe(k) \/ Resync(k)
  \/ Handle

Spec == Init /\ [][Next]_vars
-----------------------------------------------------------------------------
(* The informer's goroutines run: what changed is observed in the end, and *)
(* queued events are handled.  Nobody has to write, and nothing to resync. *)
Fairness == (\A k \in Objects : WF_vars(Observe(k))) /\ WF_vars(Handle)

FairSpec == Spec /\ Fairness
-----------------------------------------------------------------------------
(* The objects of an array of objects that have a value.                   *)
Having(os, m, v) == {k \in Objects : os[k].status[m] = v}

(* However adds, changes of a value, deletes and repeated events follow    *)
(* one another, upsert and Delete (metric_store.go:189-335) leave every    *)
(* count, and every count a scrape exposes, what a recount of the stored   *)
(* objects would give.                                                     *)
CountsAreRecount ==
  \A m \in Metrics, v \in Values :
    /\ countValues[m][v] = Cardinality(Having(objects, m, v))
    /\ countMetrics[m][v] = countValues[m][v]

(* Where no event is queued, the store has what the informer has (and of   *)
(* filtered namespaces nothing): neither the handlers' shortcut for equal  *)
(* versions (informer.go:291) nor tombstones (informer.go:333) lose a      *)
(* change.                                                                 *)
StoreFollowsInformer ==
  \A k \in Objects :
    (\A i \in DOMAIN events : events[i].key # k) => objects[k] = Built(k, cache[k])

(* Once the cluster is left alone, a scrape exposes of every count metric  *)
(* how many of the cluster's objects in allowed namespaces have the value  *)
(* (metric_store.go:215-231).                                              *)
ScrapeMirrorsCluster ==
  <>[](\A m \in Metrics, v \in Values :
         countMetrics[m][v] = Cardinality(Having(cluster, m, v) \cap Allowed))
=============================================================================
