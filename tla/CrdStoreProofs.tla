--------------------------- MODULE CrdStoreProofs ---------------------------
(***************************************************************************)
(* What TLAPS proves of CrdStore, for every finite set of objects, any     *)
(* metrics and values, and any number of writes and resyncs: every count   *)
(* is what a recount would give, and where no event is queued the store    *)
(* has what the informer has.                                              *)
(*                                                                         *)
(* The second needs the shape of the queue.  The events of an object form  *)
(* a chain from the state in the store to the state in the cache: what an  *)
(* event says was before is what the one before it said comes next.        *)
(***************************************************************************)
EXTENDS CrdStore, FiniteSetTheorems, SequenceTheorems, TLAPS

(* Object k is o after the first n queued events: the next event of k      *)
(* starts from o, and if there is none the cache has o.                    *)
Follows(k, n, o) ==
  /\ \A i \in DOMAIN events :
       (i > n /\ events[i].key = k /\ \A j \in DOMAIN events :
                                        n < j /\ j < i => events[j].key # k)
         => events[i].old = o
  /\ (\A i \in DOMAIN events : i > n => events[i].key # k) => cache[k] = o

Chained ==
  \A i \in DOMAIN events : Follows(events[i].key, i, events[i].new)

StoreAtHead ==
  \A k \in Objects : \E o \in Object : Follows(k, 0, o) /\ objects[k] = Built(k, o)

(* An event that keeps the version keeps the object; a deletion leaves     *)
(* none.                                                                   *)
EventsGenuine ==
  \A i \in DOMAIN events :
    /\ events[i].old.version = events[i].new.version => events[i].old = events[i].new
    /\ ~Present(events[i].new) => events[i].new = Absent
    /\ events[i].kind \in {"delete", "tombstone"} => events[i].new = Absent

(* A version names one state of an object, and the cluster's is the latest.*)
VersionsUnique ==
  \A k \in Objects :
    /\ cluster[k].version <= revision
    /\ cache[k].version <= revision
    /\ ~Present(cluster[k]) => cluster[k] = Absent
    /\ ~Present(cache[k]) => cache[k] = Absent
    /\ cluster[k].version = cache[k].version => cluster[k] = cache[k]

(* A stored object that is none contributes nothing.                       *)
StoredGenuine ==
  \A k \in Objects : ~Present(objects[k]) => objects[k] = Absent

IInv ==
  /\ TypeOK
  /\ CountsAreRecount
  /\ Chained
  /\ StoreAtHead
  /\ EventsGenuine
  /\ VersionsUnique
  /\ StoredGenuine
-----------------------------------------------------------------------------
USE ObjectsAssumption, NoValueAssumption, BoundsAssumption
    DEF Status, Object, EventKind, Event, Counts

(* The record that marks absence is an object.                             *)
LEMMA AbsentType == Absent \in Object
BY DEF Absent

(* Replacing an entry keeps the types, and counts that are recounts.       *)
LEMMA ReplaceCounts ==
  ASSUME TypeOK, CountsAreRecount,
         NEW k \in Objects, NEW o \in Object, Replace(k, o)
  PROVE  /\ objects' = [objects EXCEPT ![k] = o]
         /\ objects' \in [Objects -> Object]
         /\ countValues' \in Counts
         /\ countMetrics' \in Counts
         /\ CountsAreRecount'
<1> DEFINE R == Removed(countValues, objects[k])
<1>1. objects' = [objects EXCEPT ![k] = o] /\ objects' \in [Objects -> Object]
  BY DEF Replace, TypeOK
<1>2. R \in Counts
  BY DEF Removed, TypeOK
<1>3. countValues' = Added(R, o)
  BY DEF Replace
<1>4. countValues' \in Counts
  <2> HIDE DEF R
  <2> QED  BY <1>2, <1>3 DEF Added
<1>5. countMetrics' = Refreshed(countValues', {objects[k], o})
  BY DEF Replace
<1>6. countMetrics' \in Counts
  BY <1>4, <1>5 DEF Refreshed, TypeOK
<1>7. ASSUME NEW m \in Metrics, NEW v \in Values
      PROVE  /\ countValues'[m][v] = Cardinality(Having(objects', m, v))
             /\ countMetrics'[m][v] = countValues'[m][v]
  <2> DEFINE c == Cardinality(Having(objects, m, v))
  <2>0. objects \in [Objects -> Object]
    BY DEF TypeOK
  <2>1. /\ c \in Nat
        /\ objects[k].status[m] = v => c > 0
        /\ objects[k].status[m] = v /\ o.status[m] # v =>
             Cardinality(Having(objects', m, v)) = c - 1
        /\ objects[k].status[m] # v /\ o.status[m] = v =>
             Cardinality(Having(objects', m, v)) = c + 1
        /\ (objects[k].status[m] = v <=> o.status[m] = v) =>
             Cardinality(Having(objects', m, v)) = c
    <3> DEFINE S == Having(objects, m, v)
               T == Having(objects', m, v)
    <3>1. IsFiniteSet(S) /\ S \subseteq Objects
      BY FS_Subset DEF Having
    <3>2. IsFiniteSet(S \ {k})
      BY <3>1, FS_RemoveElement
    <3>3. c \in Nat /\ Cardinality(S \ {k}) \in Nat
      BY <3>1, <3>2, FS_CardinalityType
    <3>4. k \in S <=> objects[k].status[m] = v
      BY DEF Having
    <3>5. Cardinality(S \ {k}) = IF objects[k].status[m] = v THEN c - 1 ELSE c
      BY <3>1, <3>4, FS_RemoveElement
    <3>6. objects[k].status[m] = v => c > 0
      BY <3>1, <3>3, <3>4, FS_EmptySet
    <3>7. T = IF o.status[m] = v THEN (S \ {k}) \cup {k} ELSE S \ {k}
      BY <1>1, <2>0 DEF Having
    <3>8. Cardinality((S \ {k}) \cup {k}) = Cardinality(S \ {k}) + 1
      BY <3>2, FS_AddElement
    <3>9. Cardinality(T) = IF o.status[m] = v THEN Cardinality(S \ {k}) + 1
                                              ELSE Cardinality(S \ {k})
      BY <3>7, <3>8
    <3> HIDE DEF S, c
    <3> QED  BY <3>3, <3>5, <3>6, <3>9
  <2>2. countValues[m][v] = c /\ countMetrics[m][v] = c
    BY DEF CountsAreRecount
  <2> HIDE DEF c
  <2>3. R[m][v] = IF objects[k].status[m] = v THEN c - 1 ELSE c
    BY <2>1, <2>2 DEF Removed
  <2>4. countValues'[m][v] = R[m][v] + (IF o.status[m] = v THEN 1 ELSE 0)
    <3> HIDE DEF R
    <3>1. R[m][v] \in Nat
      BY <1>2
    <3> QED  BY <1>3, <3>1 DEF Added
  <2>5. countValues'[m][v] = Cardinality(Having(objects', m, v))
    <3> HIDE DEF R
    <3> QED  BY <2>1, <2>3, <2>4
  <2>6. CASE objects[k].status[m] = v \/ o.status[m] = v
    <3>1. countMetrics'[m][v] = countValues'[m][v]
      BY <1>5, <2>6 DEF Refreshed
    <3> QED  BY <2>5, <3>1
  <2>7. CASE ~(objects[k].status[m] = v \/ o.status[m] = v)
    <3>1. countMetrics'[m][v] = countMetrics[m][v]
      BY <1>5, <2>7 DEF Refreshed
    <3>2. countValues'[m][v] = c
      <4> HIDE DEF R
      <4> QED  BY <2>1, <2>3, <2>4, <2>7
    <3> QED  BY <2>2, <2>5, <3>1, <3>2
  <2> QED  BY <2>6, <2>7
<1>8. CountsAreRecount'
  BY <1>7 DEF CountsAreRecount, Having
<1> QED  BY <1>1, <1>4, <1>6, <1>8

(* What is built of an object is an object.                                *)
LEMMA BuiltType == ASSUME NEW k, NEW o \in Object PROVE Built(k, o) \in Object
BY AbsentType DEF Built
-----------------------------------------------------------------------------
(* The informer queues event e and brings its cache up to date with it.    *)
Queues(e) ==
  /\ e \in Event
  /\ e.old = cache[e.key]
  /\ events' = Append(events, e)
  /\ cache' = [cache EXCEPT ![e.key] = e.new]

(* The handlers have taken the first event.                                *)
Takes ==
  /\ events # <<>>
  /\ events' = Tail(events)
  /\ cache' = cache

(* A queued event comes last; the others keep their places.                *)
LEMMA QueuesEvents ==
  ASSUME TypeOK, NEW e, Queues(e)
  PROVE  /\ events' \in Seq(Event)
         /\ cache' \in [Objects -> Object]
         /\ DOMAIN events = 1 .. Len(events)
         /\ DOMAIN events' = 1 .. Len(events) + 1
         /\ Len(events) \in Nat
         /\ \A i \in 1 .. Len(events) : events'[i] = events[i]
         /\ events'[Len(events) + 1] = e
BY DEF TypeOK, Queues

(* Without the first event the others move up by one.                      *)
LEMMA TakesEvents ==
  ASSUME TypeOK, Takes
  PROVE  /\ events' \in Seq(Event)
         /\ Len(events) \in Nat \ {0}
         /\ DOMAIN events = 1 .. Len(events)
         /\ DOMAIN events' = 1 .. Len(events) - 1
         /\ \A i \in 1 .. Len(events) - 1 : events'[i] = events[i + 1]
         /\ Head(events) = events[1]
         /\ events[1] \in Event
<1> HIDE DEF Event
<1>1. events \in Seq(Event) /\ events # <<>> /\ events' = Tail(events)
  BY DEF TypeOK, Takes
<1>2. /\ Len(events) \in Nat \ {0}
      /\ DOMAIN events = 1 .. Len(events)
      /\ Head(events) = events[1] /\ events[1] \in Event
  BY <1>1
<1>3. /\ events' \in Seq(Event)
      /\ Len(events') = Len(events) - 1
      /\ \A i \in 1 .. Len(events') : events'[i] = events[i + 1]
  BY <1>1, HeadTailProperties
<1> QED  BY <1>2, <1>3

(* A longer queue continues the chains it had.                             *)
LEMMA QueuesFollows ==
  ASSUME TypeOK, NEW e, Queues(e),
         NEW k \in Objects, NEW n \in 0 .. Len(events), NEW o, Follows(k, n, o)
  PROVE  Follows(k, n, o)'
<1>0. /\ DOMAIN events = 1 .. Len(events)
      /\ DOMAIN events' = 1 .. Len(events) + 1
      /\ Len(events) \in Nat
      /\ \A i \in 1 .. Len(events) : events'[i] = events[i]
      /\ events'[Len(events) + 1] = e
  BY QueuesEvents
<1> USE <1>0
<1>1. ASSUME NEW i \in DOMAIN events', i > n, events'[i].key = k,
             \A j \in DOMAIN events' : n < j /\ j < i => events'[j].key # k
      PROVE  events'[i].old = o
  <2>1. CASE i \in 1 .. Len(events)
    BY <1>1, <2>1 DEF Follows
  <2>2. CASE i = Len(events) + 1
    <3>1. \A j \in DOMAIN events : j > n => events[j].key # k
      BY <1>1, <2>2
    <3>2. cache[k] = o
      BY <3>1 DEF Follows
    <3> QED  BY <1>1, <2>2, <3>2 DEF Queues
  <2> QED  BY <2>1, <2>2
<1>2. ASSUME \A i \in DOMAIN events' : i > n => events'[i].key # k
      PROVE  cache'[k] = o
  <2>1. \A j \in DOMAIN events : j > n => events[j].key # k
    BY <1>2
  <2>2. cache[k] = o
    BY <2>1 DEF Follows
  <2>3. e.key # k
    BY <1>2
  <2> QED  BY <2>2, <2>3 DEF Queues, TypeOK
<1> QED  BY <1>1, <1>2 DEF Follows

(* A shorter queue keeps the chains, one place further on.                 *)
LEMMA TakesFollows ==
  ASSUME TypeOK, Takes,
         NEW k \in Objects, NEW n \in 0 .. Len(events) - 1, NEW o,
         Follows(k, n + 1, o)
  PROVE  Follows(k, n, o)'
<1>0. /\ Len(events) \in Nat \ {0}
      /\ DOMAIN events = 1 .. Len(events)
      /\ DOMAIN events' = 1 .. Len(events) - 1
      /\ \A i \in 1 .. Len(events) - 1 : events'[i] = events[i + 1]
  BY TakesEvents
<1> USE <1>0
<1>1. ASSUME NEW i \in DOMAIN events', i > n, events'[i].key = k,
             \A j \in DOMAIN events' : n < j /\ j < i => events'[j].key # k
      PROVE  events'[i].old = o
  <2>1. i + 1 \in DOMAIN events /\ i + 1 > n + 1 /\ events[i + 1].key = k
    BY <1>1
  <2>2. ASSUME NEW j \in DOMAIN events, n + 1 < j, j < i + 1
        PROVE  events[j].key # k
    <3>1. j - 1 \in DOMAIN events' /\ n < j - 1 /\ j - 1 < i
      BY <1>1, <2>2
    <3>2. events'[j - 1] = events[j]
      BY <3>1
    <3> QED  BY <1>1, <3>1, <3>2
  <2>3. events[i + 1].old = o
    BY <2>1, <2>2 DEF Follows
  <2> QED  BY <1>1, <2>3
<1>2. ASSUME \A i \in DOMAIN events' : i > n => events'[i].key # k
      PROVE  cache'[k] = o
  <2>1. ASSUME NEW j \in DOMAIN events, j > n + 1
        PROVE  events[j].key # k
    <3>1. j - 1 \in DOMAIN events' /\ j - 1 > n /\ events'[j - 1] = events[j]
      BY <2>1
    <3> QED  BY <1>2, <3>1
  <2> QED  BY <2>1 DEF Follows, Takes
<1> QED  BY <1>1, <1>2 DEF Follows

(* The first event is about another object: nothing changes for this one.  *)
LEMMA SkipsHead ==
  ASSUME TypeOK, events # <<>>, NEW k, events[1].key # k, NEW o, Follows(k, 0, o)
  PROVE  Follows(k, 1, o)
<1>1. DOMAIN events = 1 .. Len(events) /\ Len(events) \in Nat
  BY DEF TypeOK
<1> QED  BY <1>1 DEF Follows
-----------------------------------------------------------------------------
(* Writes reach neither informer nor store.                                *)
LEMMA ClusterStep ==
  ASSUME IInv, NEW k \in Objects, NEW c \in Object,
         cluster' = [cluster EXCEPT ![k] = c],
         revision < MaxRevision, revision' = revision + 1,
         c.version = revision' \/ c = Absent,
         UNCHANGED <<cache, events, store>>
  PROVE  IInv'
<1>1. TypeOK'
  BY DEF IInv, TypeOK, store
<1>2. CountsAreRecount' /\ Chained' /\ StoreAtHead' /\ EventsGenuine' /\ StoredGenuine'
  BY DEF IInv, store, CountsAreRecount, Having, Chained, StoreAtHead, Follows,
         EventsGenuine, StoredGenuine, Present, Absent
<1>3. ASSUME NEW j \in Objects
      PROVE  /\ cluster'[j].version <= revision'
             /\ cache'[j].version <= revision'
             /\ ~Present(cluster'[j]) => cluster'[j] = Absent
             /\ ~Present(cache'[j]) => cache'[j] = Absent
             /\ cluster'[j].version = cache'[j].version => cluster'[j] = cache'[j]
  <2>1. /\ revision \in Nat /\ revision' = revision + 1
        /\ cluster[j].version \in Nat /\ cache[j].version \in Nat
        /\ cluster[j].version <= revision /\ cache[j].version <= revision
        /\ cache' = cache
        /\ ~Present(cluster[j]) => cluster[j] = Absent
        /\ ~Present(cache[j]) => cache[j] = Absent
        /\ cluster[j].version = cache[j].version => cluster[j] = cache[j]
    BY DEF IInv, TypeOK, VersionsUnique
  <2>2. cluster'[j] = IF j = k THEN c ELSE cluster[j]
    BY DEF IInv, TypeOK
  <2>3. Absent.version = 0
    BY DEF Absent
  <2>4. CASE j = k /\ c = Absent
    BY <2>1, <2>2, <2>3, <2>4 DEF Present
  <2>5. CASE j = k /\ c.version = revision'
    BY <2>1, <2>2, <2>5 DEF Present
  <2>6. CASE j # k
    BY <2>1, <2>2, <2>6
  <2> QED  BY <2>4, <2>5, <2>6
<1>4. VersionsUnique'
  BY <1>3 DEF VersionsUnique, Present, Absent
<1> QED  BY <1>1, <1>2, <1>4 DEF IInv

(* Queuing an event prolongs the chain of its object.                      *)
LEMMA QueueStep ==
  ASSUME IInv, NEW e, Queues(e), e.new = cluster[e.key] \/ e.new = cache[e.key],
         e.kind \in {"delete", "tombstone"} => e.new = Absent,
         UNCHANGED <<cluster, revision, store>>
  PROVE  IInv'
<1>0. TypeOK /\ e.key \in Objects
  BY DEF IInv, Queues
<1>1. /\ DOMAIN events = 1 .. Len(events)
      /\ DOMAIN events' = 1 .. Len(events) + 1
      /\ Len(events) \in Nat
      /\ \A i \in 1 .. Len(events) : events'[i] = events[i]
      /\ events'[Len(events) + 1] = e
      /\ events' \in Seq(Event)
      /\ cache' \in [Objects -> Object]
  BY <1>0, QueuesEvents
<1>2. TypeOK'
  BY <1>0, <1>1 DEF TypeOK, store
<1>3. CountsAreRecount' /\ StoredGenuine'
  BY DEF IInv, store, CountsAreRecount, Having, StoredGenuine
<1>4. ASSUME NEW i \in DOMAIN events'
      PROVE  Follows(events[i].key, i, events[i].new)'
  <2>1. CASE i \in 1 .. Len(events)
    <3>1. Follows(events[i].key, i, events[i].new)
      BY <1>1, <2>1 DEF IInv, Chained
    <3>2. events[i].key \in Objects /\ events[i].new \in Object
      <4>1. events[i] \in Event
        <5> HIDE DEF Event
        <5> QED  BY <1>0, <1>1, <2>1 DEF TypeOK
      <4> QED  BY <4>1
    <3>3. i \in 0 .. Len(events)
      BY <1>1, <2>1
    <3>5. ASSUME NEW k \in Objects, NEW o, Follows(k, i, o)
          PROVE  Follows(k, i, o)'
      BY <1>0, <3>3, <3>5, QueuesFollows
    <3>6. PICK k \in Objects, o \in Object : k = events[i].key /\ o = events[i].new
      BY <3>2
    <3>7. Follows(k, i, o)
      BY <3>1, <3>6
    <3>8. Follows(k, i, o)'
      BY <3>5, <3>7
    <3> QED  BY <1>1, <2>1, <3>6, <3>8 DEF Follows
  <2>2. CASE i = Len(events) + 1
    <3>1. cache'[e.key] = e.new
      BY <1>0 DEF Queues, TypeOK
    <3> QED  BY <1>1, <2>2, <3>1 DEF Follows
  <2> QED  BY <1>1, <2>1, <2>2
<1>5. Chained'
  BY <1>4 DEF Chained, Follows
<1>6. ASSUME NEW k \in Objects
      PROVE  \E o \in Object : Follows(k, 0, o)' /\ objects'[k] = Built(k, o)
  <2>1. PICK o \in Object : Follows(k, 0, o) /\ objects[k] = Built(k, o)
    BY DEF IInv, StoreAtHead
  <2>2. 0 \in 0 .. Len(events)
    BY <1>1
  <2>3. Follows(k, 0, o)'
    BY <1>0, <2>1, <2>2, QueuesFollows
  <2> QED  BY <2>1, <2>3 DEF store
<1>7. StoreAtHead'
  BY <1>6 DEF StoreAtHead, Follows, Built
<1>8. /\ e.old.version = e.new.version => e.old = e.new
      /\ ~Present(e.new) => e.new = Absent
  BY <1>0 DEF IInv, VersionsUnique, Queues
<1>9. ASSUME NEW i \in DOMAIN events'
      PROVE  /\ events'[i].old.version = events'[i].new.version =>
                  events'[i].old = events'[i].new
             /\ ~Present(events'[i].new) => events'[i].new = Absent
             /\ events'[i].kind \in {"delete", "tombstone"} => events'[i].new = Absent
  <2>1. CASE i \in 1 .. Len(events)
    <3>1. events'[i] = events[i] /\ i \in DOMAIN events
      BY <1>1, <2>1
    <3> QED  BY <3>1 DEF IInv, EventsGenuine
  <2>2. CASE i = Len(events) + 1
    <3>1. events'[i] = e
      BY <1>1, <2>2
    <3> QED  BY <1>8, <3>1
  <2> QED  BY <1>1, <2>1, <2>2
<1>10. EventsGenuine'
  BY <1>9 DEF EventsGenuine, Present, Absent
<1>11. VersionsUnique'
  BY <1>0 DEF IInv, VersionsUnique, Queues, TypeOK, Present
<1> QED  BY <1>2, <1>3, <1>5, <1>7, <1>10, <1>11 DEF IInv

(* Handling an event moves its object one link along its chain, whatever   *)
(* the handler did with it, if that left the store with what the event     *)
(* says comes next.                                                        *)
LEMMA HandleStep ==
  ASSUME IInv, Takes, UNCHANGED <<cluster, revision>>,
         objects' \in [Objects -> Object],
         countValues' \in Counts, countMetrics' \in Counts, CountsAreRecount',
         \A k \in Objects : k # events[1].key => objects'[k] = objects[k],
         objects'[events[1].key] = Built(events[1].key, events[1].new)
  PROVE  IInv'
<1>0. TypeOK
  BY DEF IInv
<1>1. /\ Len(events) \in Nat \ {0}
      /\ DOMAIN events = 1 .. Len(events)
      /\ DOMAIN events' = 1 .. Len(events) - 1
      /\ \A i \in 1 .. Len(events) - 1 : events'[i] = events[i + 1]
  BY <1>0, TakesEvents
<1>2. TypeOK' /\ events[1] \in Event
  BY <1>0, TakesEvents DEF TypeOK, Takes
<1>3. ASSUME NEW i \in DOMAIN events'
      PROVE  Follows(events[i].key, i, events[i].new)'
  <2>1. i + 1 \in DOMAIN events /\ events'[i] = events[i + 1]
    BY <1>1
  <2>2. Follows(events[i + 1].key, i + 1, events[i + 1].new)
    BY <2>1 DEF IInv, Chained
  <2>3. events[i + 1].key \in Objects /\ events[i + 1].new \in Object
    <3>1. events[i + 1] \in Event
      <4> HIDE DEF Event
      <4> QED  BY <1>0, <1>1, <2>1 DEF TypeOK
    <3> QED  BY <3>1
  <2>4. PICK k \in Objects, o \in Object : k = events[i + 1].key /\ o = events[i + 1].new
    BY <2>3
  <2>5. Follows(k, i + 1, o)
    BY <2>2, <2>4
  <2>6. i \in 0 .. Len(events) - 1
    BY <1>1
  <2>7. Follows(k, i, o)'
    BY <1>0, <2>5, <2>6, TakesFollows
  <2> QED  BY <2>1, <2>4, <2>7 DEF Follows
<1>4. Chained'
  BY <1>3 DEF Chained, Follows
<1>5. ASSUME NEW k \in Objects
      PROVE  \E o \in Object : Follows(k, 0, o)' /\ objects'[k] = Built(k, o)
  <2>1. 0 \in 0 .. Len(events) - 1
    BY <1>1
  <2>2. CASE k # events[1].key
    <3>1. PICK o \in Object : Follows(k, 0, o) /\ objects[k] = Built(k, o)
      BY DEF IInv, StoreAtHead
    <3>2. Follows(k, 0 + 1, o)
      BY <1>0, <2>2, <3>1, SkipsHead DEF Takes
    <3>3. Follows(k, 0, o)'
      BY <1>0, <2>1, <3>2, TakesFollows
    <3> QED  BY <2>2, <3>1, <3>3
  <2>3. CASE k = events[1].key
    <3>1. PICK o \in Object : o = events[1].new
      BY <1>2
    <3>2. Follows(k, 0 + 1, o)
      <4>1. 1 \in DOMAIN events
        BY <1>1
      <4> QED  BY <2>3, <3>1, <4>1 DEF IInv, Chained
    <3>3. Follows(k, 0, o)'
      BY <1>0, <2>1, <3>2, TakesFollows
    <3> QED  BY <2>3, <3>1, <3>3
  <2> QED  BY <2>2, <2>3
<1>6. StoreAtHead'
  BY <1>5 DEF StoreAtHead, Follows, Built
<1>7. EventsGenuine'
  <2>1. ASSUME NEW i \in DOMAIN events'
        PROVE  /\ events'[i].old.version = events'[i].new.version =>
                    events'[i].old = events'[i].new
               /\ ~Present(events'[i].new) => events'[i].new = Absent
               /\ events'[i].kind \in {"delete", "tombstone"} => events'[i].new = Absent
    <3>1. i + 1 \in DOMAIN events /\ events'[i] = events[i + 1]
      BY <1>1
    <3> QED  BY <3>1 DEF IInv, EventsGenuine
  <2> QED  BY <2>1 DEF EventsGenuine, Present, Absent
<1>8. VersionsUnique'
  BY DEF IInv, VersionsUnique, Takes, Present, Absent
<1>9. ASSUME NEW k \in Objects, ~Present(objects'[k])
      PROVE  objects'[k] = Absent
  <2>1. CASE k # events[1].key
    BY <1>9, <2>1 DEF IInv, StoredGenuine
  <2>2. CASE k = events[1].key
    <3>1. 1 \in DOMAIN events
      BY <1>1
    <3>2. ~Present(events[1].new) => events[1].new = Absent
      BY <3>1 DEF IInv, EventsGenuine
    <3> QED  BY <1>9, <2>2, <3>2 DEF Built
  <2> QED  BY <2>1, <2>2
<1>10. StoredGenuine'
  BY <1>9 DEF StoredGenuine, Present, Absent
<1> QED  BY <1>2, <1>4, <1>6, <1>7, <1>8, <1>10 DEF IInv

(* HandleStep for a handler that replaces the entry of its object.         *)
LEMMA ReplaceStep ==
  ASSUME IInv, Takes, UNCHANGED <<cluster, revision>>,
         NEW k \in Objects, k = events[1].key,
         NEW o \in Object, o = Built(k, events[1].new), Replace(k, o)
  PROVE  IInv'
<1>1. TypeOK /\ CountsAreRecount
  BY DEF IInv
<1>2. /\ objects' = [objects EXCEPT ![k] = o]
      /\ objects' \in [Objects -> Object]
      /\ countValues' \in Counts
      /\ countMetrics' \in Counts
      /\ CountsAreRecount'
  BY <1>1, ReplaceCounts
<1>3. objects'[k] = o /\ \A j \in Objects : j # k => objects'[j] = objects[j]
  BY <1>1, <1>2 DEF TypeOK
<1> QED  BY <1>2, <1>3, HandleStep

(* HandleStep for a handler that leaves the store alone.                   *)
LEMMA IgnoreStep ==
  ASSUME IInv, Takes, UNCHANGED <<cluster, revision, store>>,
         objects[events[1].key] = Built(events[1].key, events[1].new)
  PROVE  IInv'
<1>1. /\ objects' \in [Objects -> Object]
      /\ countValues' \in Counts /\ countMetrics' \in Counts
  BY DEF IInv, TypeOK, store
<1>2. CountsAreRecount'
  BY DEF IInv, CountsAreRecount, Having, store
<1>3. objects' = objects
  BY DEF store
<1> QED  BY <1>1, <1>2, <1>3, HandleStep

(* The handlers keep the invariant.                                        *)
LEMMA HandlerStep == ASSUME IInv, Handle PROVE IInv'
<1>0. TypeOK /\ Takes /\ UNCHANGED <<cluster, revision>>
  BY DEF IInv, Handle, HandleAdd, HandleUpdate, HandleDelete, Take, Takes
<1>1. events[1] \in Event /\ Head(events) = events[1]
  BY <1>0, TakesEvents
<1>2. PICK k \in Objects, old \in Object, new \in Object :
        k = events[1].key /\ old = events[1].old /\ new = events[1].new
  BY <1>1
<1>3. 1 \in DOMAIN events
  <2>1. Len(events) \in Nat \ {0} /\ DOMAIN events = 1 .. Len(events)
    BY <1>0, TakesEvents
  <2> QED  BY <2>1
<1>4. Built(k, new) \in Object
  BY BuiltType
<1>5. ASSUME Upsert(k, new) PROVE IInv'
  BY <1>0, <1>2, <1>4, <1>5, ReplaceStep DEF Upsert
<1>6. CASE HandleAdd
  BY <1>1, <1>2, <1>5, <1>6 DEF HandleAdd
<1>7. CASE HandleUpdate
  <2>1. CASE old.version # new.version
    BY <1>1, <1>2, <1>5, <1>7, <2>1 DEF HandleUpdate
  <2>2. CASE old.version = new.version
    <3>1. UNCHANGED store
      BY <1>1, <1>2, <1>7, <2>2 DEF HandleUpdate
    <3>2. old = new
      BY <1>2, <1>3, <2>2 DEF IInv, EventsGenuine
    <3>3. PICK o \in Object : Follows(k, 0, o) /\ objects[k] = Built(k, o)
      BY DEF IInv, StoreAtHead
    <3>4. \A j \in DOMAIN events : ~(0 < j /\ j < 1)
      BY <1>0 DEF TypeOK
    <3>5. old = o
      BY <1>2, <1>3, <3>3, <3>4 DEF Follows
    <3>6. objects[events[1].key] = Built(events[1].key, events[1].new)
      BY <1>2, <3>2, <3>3, <3>5
    <3> QED  BY <1>0, <3>1, <3>6, IgnoreStep
  <2> QED  BY <2>1, <2>2
<1>8. CASE HandleDelete
  <2>1. new = Absent
    BY <1>1, <1>2, <1>3, <1>8 DEF HandleDelete, Take, IInv, EventsGenuine
  <2>2. Built(k, new) = Absent
    BY <2>1 DEF Built
  <2>3. CASE Present(objects[k])
    <3>1. Replace(k, Absent)
      BY <1>1, <1>2, <1>8, <2>3 DEF HandleDelete, Delete
    <3> QED  BY <1>0, <1>2, <1>4, <2>2, <3>1, ReplaceStep
  <2>4. CASE ~Present(objects[k])
    <3>1. UNCHANGED store
      BY <1>1, <1>2, <1>8, <2>4 DEF HandleDelete, Delete
    <3>2. objects[k] = Absent
      BY <2>4 DEF IInv, StoredGenuine
    <3>3. objects[events[1].key] = Built(events[1].key, events[1].new)
      BY <1>2, <2>2, <3>2
    <3> QED  BY <1>0, <3>1, <3>3, IgnoreStep
  <2> QED  BY <2>3, <2>4
<1> QED  BY <1>6, <1>7, <1>8 DEF Handle

(* Initially nothing is counted, queued or stored.                         *)
LEMMA InitIInv == Init => IInv
<1> SUFFICES ASSUME Init PROVE IInv
  OBVIOUS
<1>1. Absent \in Object /\ ~Present(Absent)
  BY AbsentType DEF Absent, Present
<1>2. TypeOK
  BY <1>1 DEF Init, TypeOK
<1>3. CountsAreRecount
  <2>1. ASSUME NEW m \in Metrics, NEW v \in Values
        PROVE  /\ countValues[m][v] = Cardinality(Having(objects, m, v))
               /\ countMetrics[m][v] = countValues[m][v]
    <3>1. Having(objects, m, v) = {}
      BY DEF Init, Having, Absent
    <3>2. countValues[m][v] = 0 /\ countMetrics[m][v] = 0
      BY DEF Init
    <3> QED  BY <3>1, <3>2, FS_EmptySet
  <2> QED  BY <2>1 DEF CountsAreRecount
<1>4. DOMAIN events = {}
  BY DEF Init
<1>5. StoreAtHead
  <2>1. \A k \in Objects : Follows(k, 0, Absent) /\ objects[k] = Built(k, Absent)
    BY <1>4 DEF Init, Follows, Built
  <2> QED  BY <1>1, <2>1 DEF StoreAtHead
<1>6. Chained /\ EventsGenuine
  BY <1>4 DEF Chained, EventsGenuine
<1>7. VersionsUnique /\ StoredGenuine
  BY <1>1 DEF Init, VersionsUnique, StoredGenuine, Absent
<1> QED  BY <1>2, <1>3, <1>5, <1>6, <1>7 DEF IInv

(* Every step keeps the invariant.                                         *)
LEMMA NextIInv == IInv /\ [Next]_vars => IInv'
<1> SUFFICES ASSUME IInv, [Next]_vars PROVE IInv'
  OBVIOUS
<1>0. TypeOK
  BY DEF IInv
<1>1. ASSUME NEW k \in Objects, NEW s \in Status, Write(k, s) PROVE IInv'
  <2>1. [version |-> revision + 1, status |-> s] \in Object
    BY <1>0 DEF TypeOK
  <2>2. PICK c \in Object : c = [version |-> revision + 1, status |-> s]
    BY <2>1
  <2>3. c.version = revision'
    BY <1>1, <2>2 DEF Write
  <2>4. cluster' = [cluster EXCEPT ![k] = c]
    BY <1>1, <2>2 DEF Write
  <2> QED  BY <1>1, <2>3, <2>4, ClusterStep DEF Write
<1>2. ASSUME NEW k \in Objects, Remove(k) PROVE IInv'
  BY <1>2, AbsentType, ClusterStep DEF Remove
<1>3. ASSUME NEW k \in Objects, Observe(k) PROVE IInv'
  <2>1. cache[k] \in Object /\ cluster[k] \in Object
    BY <1>0 DEF TypeOK
  <2>2. PICK kind \in Observation(k) :
          events' = Append(events,
            [kind |-> kind, key |-> k, old |-> cache[k], new |-> cluster[k]])
    BY <1>3 DEF Observe
  <2>3. kind \in EventKind
    BY <2>2 DEF Observation
  <2>4. PICK e \in Event :
          e = [kind |-> kind, key |-> k, old |-> cache[k], new |-> cluster[k]]
    BY <2>1, <2>3
  <2>5. Queues(e)
    BY <1>3, <2>2, <2>4 DEF Queues, Observe
  <2>6. e.kind \in {"delete", "tombstone"} => e.new = Absent
    <3>1. kind \in {"delete", "tombstone"} => ~Present(cluster[k])
      BY <2>2 DEF Observation
    <3> QED  BY <2>4, <3>1 DEF IInv, VersionsUnique
  <2>7. e.new = cluster[e.key]
    BY <2>4
  <2> QED  BY <1>3, <2>5, <2>6, <2>7, QueueStep DEF Observe
<1>4. ASSUME NEW k \in Objects, Resync(k) PROVE IInv'
  <2>1. cache[k] \in Object
    BY <1>0 DEF TypeOK
  <2>2. PICK e \in Event :
          e = [kind |-> "update", key |-> k, old |-> cache[k], new |-> cache[k]]
    BY <2>1
  <2>3. cache' = [cache EXCEPT ![e.key] = e.new]
    BY <1>0, <1>4, <2>2 DEF Resync, TypeOK
  <2>4. Queues(e)
    BY <1>4, <2>2, <2>3 DEF Queues, Resync
  <2>5. e.new = cache[e.key] /\ e.kind \notin {"delete", "tombstone"}
    BY <2>2
  <2> QED  BY <1>4, <2>4, <2>5, QueueStep DEF Resync
<1>5. CASE Handle
  BY <1>5, HandlerStep
<1>6. CASE UNCHANGED vars
  <2>1. TypeOK' /\ CountsAreRecount'
    <3>1. TypeOK'
      BY <1>0, <1>6 DEF vars, store, TypeOK
    <3>2. CountsAreRecount'
      BY <1>6 DEF vars, store, IInv, CountsAreRecount, Having
    <3> QED  BY <3>1, <3>2
  <2>2. Chained' /\ StoreAtHead'
    BY <1>6 DEF vars, store, IInv, Chained, StoreAtHead, Follows
  <2>3. EventsGenuine' /\ VersionsUnique' /\ StoredGenuine'
    BY <1>6 DEF vars, store, IInv, EventsGenuine, VersionsUnique, StoredGenuine
  <2> QED  BY <2>1, <2>2, <2>3 DEF IInv
<1> QED  BY <1>1, <1>2, <1>3, <1>4, <1>5, <1>6 DEF Next

(* The inductive invariant holds throughout.                               *)
LEMMA InvariantHolds == Spec => []IInv
BY InitIInv, NextIInv, PTL DEF Spec
-----------------------------------------------------------------------------
(* The store and the queue keep their types; in particular no count of     *)
(* metric_store.go:549-576 goes below 0.                                   *)
THEOREM TypeCorrect == Spec => []TypeOK
<1>1. IInv => TypeOK
  BY DEF IInv
<1> QED  BY <1>1, InvariantHolds, PTL

(* Every count, and every count a scrape exposes, is the number of stored  *)
(* objects that have the value (metric_store.go:189-335).                  *)
THEOREM CountsExact == Spec => []CountsAreRecount
<1>1. IInv => CountsAreRecount
  BY DEF IInv
<1> QED  BY <1>1, InvariantHolds, PTL

(* An object without a queued event is stored as the informer has it.      *)
THEOREM StoreCurrent == Spec => []StoreFollowsInformer
<1>1. IInv => StoreFollowsInformer
  <2> SUFFICES ASSUME IInv, NEW k \in Objects,
                      \A i \in DOMAIN events : events[i].key # k
               PROVE  objects[k] = Built(k, cache[k])
    BY DEF StoreFollowsInformer
  <2>1. PICK o \in Object : Follows(k, 0, o) /\ objects[k] = Built(k, o)
    BY DEF IInv, StoreAtHead
  <2>2. cache[k] = o
    BY <2>1 DEF Follows
  <2> QED  BY <2>1, <2>2
<1> QED  BY <1>1, InvariantHolds, PTL
=============================================================================
