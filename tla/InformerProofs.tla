--------------------------- MODULE InformerProofs ---------------------------
(***************************************************************************)
(* What TLAPS proves of the collectors that informers feed, for every      *)
(* value of the constants: of ImagePull, that what is kept of a pull       *)
(* agrees with the pod; of NodeWatch, that an answer is given for the node *)
(* it was asked for; of InformerHooks, that Stop ends the informers.       *)
(***************************************************************************)
EXTENDS ImagePull, NodeWatch, InformerHooks, SequenceTheorems, TLAPS

(***************************************************************************)
(* The queue of versions an informer has yet to deliver                    *)
(***************************************************************************)

(* A short queue is a sequence.                                            *)
LEMMA ShortIsSeq ==
  ASSUME NEW S
  PROVE  \A q : q \in SeqOf(S, 2) <=> q \in Seq(S) /\ Len(q) \in 0..2
<1>1. ASSUME NEW q \in SeqOf(S, 2) PROVE q \in Seq(S) /\ Len(q) \in 0..2
  <2>1. PICK m \in 0..2 : q \in [1..m -> S]
    BY DEF SeqOf
  <2>2. q \in Seq(S)
    BY <2>1, SeqDef
  <2>3. Len(q) = m
    BY <2>1, <2>2, LenProperties
  <2> QED  BY <2>2, <2>3
<1>2. ASSUME NEW q \in Seq(S), Len(q) \in 0..2 PROVE q \in SeqOf(S, 2)
  <2>1. q \in [1..Len(q) -> S]
    BY LenProperties
  <2> QED  BY <1>2, <2>1 DEF SeqOf
<1> QED
  BY <1>1, <1>2

(* A version that is queued is the last one ...                            *)
LEMMA QueueAppend ==
  ASSUME NEW S, NEW q \in SeqOf(S, 2), Len(q) < 2, NEW v \in S
  PROVE  /\ Append(q, v) \in SeqOf(S, 2) /\ Append(q, v) # <<>>
         /\ Last(Append(q, v)) = v
<1>1. q \in Seq(S) /\ Len(q) \in 0..2
  BY ShortIsSeq
<1>2. /\ Append(q, v) \in Seq(S) /\ Append(q, v) # <<>>
      /\ Len(Append(q, v)) = Len(q) + 1 /\ Append(q, v)[Len(q) + 1] = v
  BY <1>1, AppendProperties
<1>3. Len(Append(q, v)) \in 0..2
  BY <1>1, <1>2
<1>4. Append(q, v) \in SeqOf(S, 2)
  BY <1>2, <1>3, ShortIsSeq
<1> QED
  BY <1>2, <1>4 DEF Last

(* ... and stays so, until it is the one that is delivered.                *)
LEMMA QueueTail ==
  ASSUME NEW S, NEW q \in SeqOf(S, 2), q # <<>>
  PROVE  /\ Head(q) \in S /\ Tail(q) \in SeqOf(S, 2)
         /\ Tail(q) = <<>> => Last(q) = Head(q)
         /\ Tail(q) # <<>> => Last(Tail(q)) = Last(q)
<1>1. q \in Seq(S) /\ Len(q) \in 0..2
  BY ShortIsSeq
<1>2. /\ Head(q) \in S /\ Tail(q) \in Seq(S) /\ Len(Tail(q)) = Len(q) - 1
      /\ \A i \in 1..Len(Tail(q)) : Tail(q)[i] = q[i + 1]
      /\ Len(q) # 0 /\ Head(q) = q[1]
  BY <1>1, HeadTailProperties, EmptySeq
<1>3. Tail(q) = <<>> => Len(Tail(q)) = 0
  BY EmptySeq
<1>4. Tail(q) # <<>> => Len(Tail(q)) # 0
  BY <1>2, EmptySeq
<1>5. Len(Tail(q)) \in 0..2
  BY <1>1, <1>2
<1>6. Tail(q) \in SeqOf(S, 2)
  BY <1>2, <1>5, ShortIsSeq
<1>7. Tail(q) = <<>> => Last(q) = Head(q)
  BY <1>1, <1>2, <1>3 DEF Last
<1>8. Tail(q) # <<>> => Last(Tail(q)) = Last(q)
  BY <1>1, <1>2, <1>4 DEF Last
<1> QED
  BY <1>2, <1>6, <1>7, <1>8

(* A list delivers the last version only.                                  *)
LEMMA QueueRelist ==
  ASSUME NEW S, NEW q \in SeqOf(S, 2), Len(q) = 2
  PROVE  /\ <<Last(q)>> \in SeqOf(S, 2) /\ <<Last(q)>> # <<>> /\ q # <<>>
         /\ Last(<<Last(q)>>) = Last(q)
<1>1. q \in Seq(S)
  BY ShortIsSeq
<1>2. Last(q) \in S
  BY <1>1, ElementOfSeq DEF Last
<1>3. <<Last(q)>> \in Seq(S) /\ Len(<<Last(q)>>) = 1 /\ <<Last(q)>>[1] = Last(q)
  BY <1>2
<1> QED
  BY <1>3, ShortIsSeq DEF Last

(* Nothing queued is a queue.                                              *)
LEMMA QueueEmpty == ASSUME NEW S PROVE <<>> \in SeqOf(S, 2)
<1>1. <<>> \in Seq(S) /\ Len(<<>>) \in 0..2
  BY EmptySeq
<1> QED
  BY <1>1, ShortIsSeq

(***************************************************************************)
(* ImagePull                                                               *)
(***************************************************************************)

(* What the informer delivers last is what the API server has; a status    *)
(* comes from a node.                                                      *)
PodsArrive ==
  \A k \in Containers :
    /\ podEvents[k] # <<>> => Last(podEvents[k]) = podApi[k]
    /\ podApi[k].up /\ podApi[k].status # "none" => podApi[k].node

PullInv == PullTypeOK /\ PodsArrive /\ PullsMirrorPods

PodVersions == Pods \union {Gone}
Failures    == [reason : {"none", "notFound", "unknown", "backOff"}, public : BOOLEAN]
SlowPulls   == [on : BOOLEAN, first : BOOLEAN]
TimerValues == [at : {"off", "armed", "fired"}, key : Containers \union {"none"},
                first : BOOLEAN]

(* What the handlers keep is of its type.                                  *)
KeptTypes ==
  /\ pullFailures \in [Containers -> Failures]
  /\ slowPulls \in [Containers -> SlowPulls]
  /\ slowTimers \in [Containers -> Timers \union {"none"}]
  /\ pullTimer \in [Timers -> TimerValues]
  /\ waitSpell \in [Containers -> 0..2]

(* The type invariant, in these names.                                     *)
LEMMA KeptIsType ==
  PullTypeOK <=> /\ podApi \in [Containers -> PodVersions]
                 /\ podEvents \in [Containers -> SeqOf(PodVersions, 2)]
                 /\ podChanges \in 0..MaxChanges
                 /\ KeptTypes
  BY DEF PullTypeOK, KeptTypes, PodVersions, Failures, SlowPulls, TimerValues

(* The values the handlers write.                                          *)
LEMMA PullValues ==
  /\ Gone \in PodVersions /\ ~Gone.up /\ Gone.status = "none"
  /\ NoFailure \in Failures /\ NoFailure.reason = "none"
  /\ NoSlow \in SlowPulls /\ ~NoSlow.on
  /\ Quiet \in TimerValues
  /\ \A v \in PodVersions : /\ v.status \in Statuses /\ v.public \in BOOLEAN
                            /\ ~v.up => v.status = "none"
<1>1. Gone \in PodVersions /\ ~Gone.up /\ Gone.status = "none"
  BY DEF PodVersions, Gone
<1>2. NoFailure \in Failures /\ NoFailure.reason = "none" /\ NoSlow \in SlowPulls /\ ~NoSlow.on
  BY DEF NoFailure, Failures, NoSlow, SlowPulls
<1>3. Quiet \in TimerValues
  BY DEF Quiet, TimerValues
<1>4. ASSUME NEW v \in PodVersions
      PROVE  v.status \in Statuses /\ v.public \in BOOLEAN /\ (~v.up => v.status = "none")
  <2>1. CASE v = Gone
    BY <2>1 DEF Gone, Statuses
  <2>2. CASE v \in Pods
    BY <2>2 DEF Pods
  <2> QED  BY <2>1, <2>2 DEF PodVersions
<1> QED
  BY <1>1, <1>2, <1>3, <1>4

(* What a scrape shows of a container agrees with a version of its pod.    *)
Agrees(k, v) ==
  LET f == pullCollect(k).failure
  IN ~v.up \/ v.status # "none" =>
       /\ f # "none" <=> (isImagePullFailure(v.status) /\ v.public)
       /\ f \notin {"none", v.status} => v.status = "backOff" /\ isSpecificReason(f)
       /\ pullCollect(k).slow => isSlowPullCandidate(v.status)

(* The property, in these names.                                           *)
LEMMA MirrorIsAgrees ==
  PullsMirrorPods <=> \A k \in Containers : podEvents[k] = <<>> => Agrees(k, podApi[k])
  BY DEF PullsMirrorPods, Agrees

(* cleanupSlowPull leaves no slow pull of the container behind.            *)
LEMMA CleanupEffect ==
  ASSUME KeptTypes, NEW k \in Containers, cleanupSlowPull(k)
  PROVE  /\ slowPulls' \in [Containers -> SlowPulls]
         /\ slowTimers' \in [Containers -> Timers \union {"none"}]
         /\ pullTimer' \in [Timers -> TimerValues]
         /\ waitSpell' \in [Containers -> 0..2]
         /\ ~slowPulls'[k].on
         /\ \A j \in Containers : j # k => slowPulls'[j] = slowPulls[j]
<1> USE PullValues DEF KeptTypes, cleanupSlowPull
<1>1. /\ slowPulls' \in [Containers -> SlowPulls] /\ ~slowPulls'[k].on
      /\ \A j \in Containers : j # k => slowPulls'[j] = slowPulls[j]
  OBVIOUS
<1>2. \A t \in Timers : Stopped(t) \in TimerValues
  BY DEF Stopped
<1>3. pullTimer' \in [Timers -> TimerValues]
  BY <1>2
<1>4. /\ slowTimers' \in [Containers -> Timers \union {"none"}]
      /\ waitSpell' \in [Containers -> 0..2]
  OBVIOUS
<1> QED
  BY <1>1, <1>3, <1>4

(* checkSlowPull leaves the slow pulls alone.                              *)
LEMMA CheckEffect ==
  ASSUME KeptTypes, NEW k \in Containers, checkSlowPull(k)
  PROVE  /\ UNCHANGED slowPulls
         /\ slowTimers' \in [Containers -> Timers \union {"none"}]
         /\ pullTimer' \in [Timers -> TimerValues]
         /\ waitSpell' \in [Containers -> 0..2]
<1> USE DEF KeptTypes
<1>1. UNCHANGED slowPulls
  BY DEF checkSlowPull
<1>2. /\ slowTimers' \in [Containers -> Timers \union {"none"}]
      /\ pullTimer' \in [Timers -> TimerValues]
  <2>1. CASE slowTimers[k] # "none"
    BY <2>1 DEF checkSlowPull
  <2>2. CASE slowTimers[k] = "none"
    <3>1. PICK t \in Timers :
            /\ slowTimers' = [slowTimers EXCEPT ![k] = t]
            /\ pullTimer' = [pullTimer EXCEPT
                 ![t] = [at |-> "armed", key |-> k, first |-> waitSpell[k] = 0]]
      BY <2>2 DEF checkSlowPull
    <3>2. (waitSpell[k] = 0) \in BOOLEAN
      OBVIOUS
    <3>3. [at |-> "armed", key |-> k, first |-> waitSpell[k] = 0] \in TimerValues
      BY <3>2 DEF TimerValues
    <3> QED  BY <3>1, <3>3
  <2> QED  BY <2>1, <2>2
<1>3. waitSpell' \in [Containers -> 0..2]
  BY DEF checkSlowPull
<1> QED
  BY <1>1, <1>2, <1>3

(* The reason that is recorded is the pod's, or the root cause known.      *)
LEMMA ReasonValues ==
  ASSUME KeptTypes, NEW k \in Containers, NEW v \in PodVersions,
         isImagePullFailure(v.status)
  PROVE  /\ Reason(k, v) \in {"notFound", "unknown", "backOff"}
         /\ Reason(k, v) # v.status => v.status = "backOff" /\ isSpecificReason(Reason(k, v))
<1>1. pullFailures[k].reason \in {"none", "notFound", "unknown", "backOff"}
  BY DEF KeptTypes, Failures
<1> QED
  BY <1>1 DEF Reason, isImagePullFailure, isSpecificReason

(* processPod leaves what agrees with the version it is given, unless that *)
(* version says nothing, and leaves the other containers alone.            *)
LEMMA ProcessEffect ==
  ASSUME KeptTypes, NEW k \in Containers, NEW v \in PodVersions, processPod(k, v)
  PROVE  /\ KeptTypes'
         /\ v.up /\ (v.status # "none" => v.node) => Agrees(k, v)'
         /\ \A j \in Containers : j # k => /\ pullFailures'[j] = pullFailures[j]
                                           /\ slowPulls'[j] = slowPulls[j]
<1>1. CASE ~v.node \/ v.status = "none"
  <2>1. UNCHANGED <<pullFailures, slowPulls, slowTimers, pullTimer, waitSpell>>
    BY <1>1 DEF processPod, isImagePullFailure
  <2> QED  BY <1>1, <2>1 DEF KeptTypes, Agrees
<1>2. CASE v.node /\ isImagePullFailure(v.status) /\ v.public
  <2> DEFINE f == [reason |-> Reason(k, v), public |-> v.public]
  <2>1. pullFailures' = [pullFailures EXCEPT ![k] = f] /\ cleanupSlowPull(k)
    BY <1>2 DEF processPod, isImagePullFailure
  <2>2. f \in Failures
    BY <1>2, PullValues, ReasonValues DEF Failures
  <2>3. /\ pullFailures' \in [Containers -> Failures] /\ pullFailures'[k] = f
        /\ \A j \in Containers : j # k => pullFailures'[j] = pullFailures[j]
    BY <2>1, <2>2 DEF KeptTypes
  <2>4. KeptTypes'
    BY <2>1, <2>3, CleanupEffect DEF KeptTypes
  <2>5. Agrees(k, v)'
    BY <1>2, <2>1, <2>3, CleanupEffect, ReasonValues DEF Agrees, pullCollect
  <2> QED  BY <2>1, <2>3, <2>4, <2>5, CleanupEffect
<1>3. CASE ~(~v.node \/ v.status = "none") /\ ~(isImagePullFailure(v.status) /\ v.public)
  <2>1. /\ pullFailures' = [pullFailures EXCEPT ![k] = NoFailure]
        /\ IF isSlowPullCandidate(v.status) THEN checkSlowPull(k) ELSE cleanupSlowPull(k)
    BY <1>3 DEF processPod
  <2>2. /\ pullFailures' \in [Containers -> Failures] /\ pullFailures'[k].reason = "none"
        /\ \A j \in Containers : j # k => pullFailures'[j] = pullFailures[j]
    BY <2>1, PullValues DEF KeptTypes
  <2>3. CASE isSlowPullCandidate(v.status)
    <3>1. KeptTypes' /\ UNCHANGED slowPulls
      BY <2>1, <2>2, <2>3, CheckEffect DEF KeptTypes
    <3> QED  BY <1>3, <2>2, <2>3, <3>1 DEF Agrees, pullCollect
  <2>4. CASE ~isSlowPullCandidate(v.status)
    <3>1. /\ KeptTypes' /\ ~slowPulls'[k].on
          /\ \A j \in Containers : j # k => slowPulls'[j] = slowPulls[j]
      BY <2>1, <2>2, <2>4, CleanupEffect DEF KeptTypes
    <3> QED  BY <1>3, <2>2, <2>4, <3>1 DEF Agrees, pullCollect
  <2> QED  BY <2>3, <2>4
<1> QED
  BY <1>1, <1>2, <1>3

(* No pod, and nothing kept.                                               *)
LEMMA PullInitInv == PullInit => PullInv
<1> SUFFICES ASSUME PullInit PROVE PullInv
  OBVIOUS
<1> USE PullValues DEF PullInit
<1>1. KeptTypes
  BY DEF KeptTypes
<1>2. PullTypeOK
  BY <1>1, KeptIsType, QueueEmpty, ChangesAssumption
<1>3. PodsArrive
  BY DEF PodsArrive
<1>4. ASSUME NEW k \in Containers PROVE Agrees(k, Gone)
  BY DEF Agrees, pullCollect, isImagePullFailure
<1>5. PullsMirrorPods
  BY <1>4, MirrorIsAgrees
<1> QED
  BY <1>2, <1>3, <1>5 DEF PullInv

(* The pods change and the informer catches up.                            *)
LEMMA PodSteps ==
  ASSUME PullInv, NEW k \in Containers,
         \/ \E v \in Pods \union {Gone} : PodChanges(k, v)
         \/ Relisted(k) \/ HandlePod(k) \/ handlePodDelete(k) \/ Resync(k)
  PROVE  PullInv'
<1> USE ChangesAssumption
<1>0. /\ podApi \in [Containers -> PodVersions]
      /\ podEvents \in [Containers -> SeqOf(PodVersions, 2)]
      /\ podChanges \in 0..MaxChanges /\ KeptTypes /\ PodsArrive
      /\ \A j \in Containers : podEvents[j] = <<>> => Agrees(j, podApi[j])
  BY KeptIsType, MirrorIsAgrees DEF PullInv
<1>1. ASSUME NEW v \in PodVersions, PodChanges(k, v) PROVE PullInv'
  <2>1. /\ podApi' = [podApi EXCEPT ![k] = v]
        /\ podEvents' = [podEvents EXCEPT ![k] = Append(podEvents[k], v)]
        /\ podChanges' = podChanges + 1 /\ podChanges < MaxChanges
        /\ UNCHANGED <<pullFailures, slowPulls, slowTimers, pullTimer, waitSpell>>
        /\ v.up /\ v.status # "none" => v.node
        /\ Len(podEvents[k]) < 2
    BY <1>1 DEF PodChanges
  <2>2. /\ Append(podEvents[k], v) \in SeqOf(PodVersions, 2)
        /\ Append(podEvents[k], v) # <<>> /\ Last(Append(podEvents[k], v)) = v
    BY <1>0, <2>1, QueueAppend
  <2>3. PullTypeOK'
    <3>1. KeptTypes'
      BY <1>0, <2>1 DEF KeptTypes
    <3>2. /\ podApi' \in [Containers -> PodVersions]
          /\ podEvents' \in [Containers -> SeqOf(PodVersions, 2)]
          /\ podChanges' \in 0..MaxChanges
      BY <1>0, <2>1, <2>2
    <3> QED
      BY <3>1, <3>2
         DEF PullTypeOK, KeptTypes, PodVersions, Failures, SlowPulls, TimerValues
  <2>4. PodsArrive'
    BY <1>0, <2>1, <2>2 DEF PodsArrive
  <2>5. ASSUME NEW j \in Containers, podEvents'[j] = <<>> PROVE Agrees(j, podApi[j])'
    <3>1. j # k /\ podEvents[j] = <<>> /\ podApi'[j] = podApi[j]
      BY <1>0, <2>1, <2>2, <2>5
    <3>2. Agrees(j, podApi[j])
      BY <1>0, <3>1
    <3> QED  BY <2>1, <3>1, <3>2 DEF Agrees, pullCollect
  <2>6. PullsMirrorPods'
    BY <2>5 DEF PullsMirrorPods, Agrees
  <2> QED  BY <2>3, <2>4, <2>6 DEF PullInv
<1>2. CASE Relisted(k)
  <2>1. /\ podEvents' = [podEvents EXCEPT ![k] = <<Last(podEvents[k])>>]
        /\ Len(podEvents[k]) = 2
        /\ UNCHANGED <<podApi, podChanges, pullFailures, slowPulls, slowTimers, pullTimer,
                       waitSpell>>
    BY <1>2 DEF Relisted
  <2> DEFINE q == <<Last(podEvents[k])>>
  <2>2. q \in SeqOf(PodVersions, 2) /\ q # <<>> /\ podEvents[k] # <<>>
        /\ Last(q) = Last(podEvents[k])
    BY <1>0, <2>1, QueueRelist
  <2> HIDE DEF q
  <2>3. PullTypeOK'
    <3>1. KeptTypes'
      BY <1>0, <2>1 DEF KeptTypes
    <3>2. podEvents' \in [Containers -> SeqOf(PodVersions, 2)]
      BY <1>0, <2>1, <2>2 DEF q
    <3> QED
      BY <1>0, <2>1, <3>1, <3>2
         DEF PullTypeOK, KeptTypes, PodVersions, Failures, SlowPulls, TimerValues
  <2>4. \A j \in Containers : podEvents'[j] = IF j = k THEN q ELSE podEvents[j]
    BY <1>0, <2>1 DEF q
  <2>5. PodsArrive'
    BY <1>0, <2>1, <2>2, <2>4 DEF PodsArrive
  <2>6. ASSUME NEW j \in Containers, podEvents'[j] = <<>> PROVE Agrees(j, podApi[j])'
    BY <1>0, <2>1, <2>2, <2>4, <2>6 DEF Agrees, pullCollect
  <2>7. PullsMirrorPods'
    BY <2>6 DEF PullsMirrorPods, Agrees
  <2> QED  BY <2>3, <2>5, <2>7 DEF PullInv
<1>3. ASSUME podEvents[k] # <<>>, podEvents' = [podEvents EXCEPT ![k] = Tail(podEvents[k])],
             UNCHANGED <<podApi, podChanges>>, KeptTypes',
             Tail(podEvents[k]) = <<>> => Agrees(k, podApi[k])',
             \A j \in Containers : j # k => /\ pullFailures'[j] = pullFailures[j]
                                           /\ slowPulls'[j] = slowPulls[j]
      PROVE  PullInv'
  <2>1. /\ Tail(podEvents[k]) \in SeqOf(PodVersions, 2)
        /\ Tail(podEvents[k]) # <<>> => Last(Tail(podEvents[k])) = Last(podEvents[k])
    BY <1>0, <1>3, QueueTail
  <2>2. \A j \in Containers :
          podEvents'[j] = IF j = k THEN Tail(podEvents[k]) ELSE podEvents[j]
    BY <1>0, <1>3
  <2>3. PullTypeOK'
    <3>1. podEvents' \in [Containers -> SeqOf(PodVersions, 2)]
      BY <1>0, <1>3, <2>1
    <3> QED
      BY <1>0, <1>3, <3>1
         DEF PullTypeOK, KeptTypes, PodVersions, Failures, SlowPulls, TimerValues
  <2>4. PodsArrive'
    BY <1>0, <1>3, <2>1, <2>2 DEF PodsArrive
  <2>5. ASSUME NEW j \in Containers, podEvents'[j] = <<>> PROVE Agrees(j, podApi[j])'
    <3>1. CASE j = k
      BY <1>3, <2>2, <2>5, <3>1
    <3>2. CASE j # k
      <4>1. Agrees(j, podApi[j])
        BY <1>0, <2>2, <2>5, <3>2
      <4> QED  BY <1>3, <3>2, <4>1 DEF Agrees, pullCollect
    <3> QED  BY <3>1, <3>2
  <2>6. PullsMirrorPods'
    BY <2>5 DEF PullsMirrorPods, Agrees
  <2> QED  BY <2>3, <2>4, <2>6 DEF PullInv
<1>4. CASE HandlePod(k)
  <2>h. podEvents[k] # <<>> /\ Head(podEvents[k]) \in PodVersions
    BY <1>0, <1>4, QueueTail DEF HandlePod
  <2>v. PICK v \in PodVersions : v = Head(podEvents[k])
    BY <2>h
  <2>1. /\ podEvents[k] # <<>> /\ v.up /\ processPod(k, v)
        /\ podEvents' = [podEvents EXCEPT ![k] = Tail(podEvents[k])]
        /\ UNCHANGED <<podApi, podChanges>>
    BY <1>4, <2>v DEF HandlePod
  <2>2. Tail(podEvents[k]) = <<>> => v = podApi[k]
    BY <1>0, <2>h, <2>v, QueueTail DEF PodsArrive
  <2>3. Tail(podEvents[k]) = <<>> => (v.status # "none" => v.node)
    BY <1>0, <2>1, <2>2 DEF PodsArrive
  <2>4. /\ KeptTypes'
        /\ Tail(podEvents[k]) = <<>> => Agrees(k, v)'
        /\ \A j \in Containers : j # k => /\ pullFailures'[j] = pullFailures[j]
                                          /\ slowPulls'[j] = slowPulls[j]
    BY <1>0, <2>1, <2>2, <2>3, ProcessEffect
  <2>5. Tail(podEvents[k]) = <<>> => Agrees(k, podApi[k])'
    BY <2>1, <2>2, <2>4 DEF Agrees
  <2> QED  BY <1>3, <2>1, <2>4, <2>5
<1>5. CASE handlePodDelete(k)
  <2>1. /\ podEvents[k] # <<>> /\ ~Head(podEvents[k]).up /\ cleanupSlowPull(k)
        /\ podEvents' = [podEvents EXCEPT ![k] = Tail(podEvents[k])]
        /\ pullFailures' = [pullFailures EXCEPT ![k] = NoFailure]
        /\ UNCHANGED <<podApi, podChanges>>
    BY <1>5 DEF handlePodDelete
  <2>h. /\ Head(podEvents[k]) \in PodVersions
        /\ Tail(podEvents[k]) = <<>> => Head(podEvents[k]) = Last(podEvents[k])
    BY <1>0, <2>1, QueueTail
  <2>2. Tail(podEvents[k]) = <<>> => ~podApi[k].up /\ podApi[k].status = "none"
    BY <1>0, <2>1, <2>h, PullValues DEF PodsArrive
  <2>3. /\ pullFailures' \in [Containers -> Failures] /\ pullFailures'[k].reason = "none"
        /\ \A j \in Containers : j # k => pullFailures'[j] = pullFailures[j]
    BY <1>0, <2>1, PullValues DEF KeptTypes
  <2>4. /\ KeptTypes' /\ ~slowPulls'[k].on
        /\ \A j \in Containers : j # k => slowPulls'[j] = slowPulls[j]
    BY <1>0, <2>1, <2>3, CleanupEffect DEF KeptTypes
  <2>5. Tail(podEvents[k]) = <<>> => Agrees(k, podApi[k])'
    BY <2>1, <2>2, <2>3, <2>4 DEF Agrees, pullCollect, isImagePullFailure
  <2> QED  BY <1>3, <2>1, <2>3, <2>4, <2>5
<1>6. CASE Resync(k)
  <2>1. /\ podEvents[k] = <<>> /\ podApi[k].up /\ processPod(k, podApi[k])
        /\ UNCHANGED <<podApi, podEvents, podChanges>>
    BY <1>6 DEF Resync
  <2>2. podApi[k] \in PodVersions /\ (podApi[k].status # "none" => podApi[k].node)
    BY <1>0, <2>1 DEF PodsArrive
  <2>e. PICK v \in PodVersions : v = podApi[k]
    BY <2>2
  <2>v. v.up /\ (v.status # "none" => v.node) /\ processPod(k, v) /\ v = podApi'[k]
    BY <2>1, <2>2, <2>e
  <2>3. /\ KeptTypes' /\ Agrees(k, v)'
        /\ \A j \in Containers : j # k => /\ pullFailures'[j] = pullFailures[j]
                                          /\ slowPulls'[j] = slowPulls[j]
    BY <1>0, <2>v, ProcessEffect
  <2>4. PullTypeOK' /\ PodsArrive'
    BY <1>0, <2>1, <2>3
       DEF PullTypeOK, KeptTypes, PodVersions, Failures, SlowPulls, TimerValues, PodsArrive
  <2>5. ASSUME NEW j \in Containers, podEvents'[j] = <<>> PROVE Agrees(j, podApi[j])'
    <3>1. CASE j = k
      BY <2>3, <2>v, <3>1 DEF Agrees
    <3>2. CASE j # k
      <4>1. Agrees(j, podApi[j])
        BY <1>0, <2>1, <2>5
      <4> QED  BY <2>1, <2>3, <3>2, <4>1 DEF Agrees, pullCollect
    <3> QED  BY <3>1, <3>2
  <2>6. PullsMirrorPods'
    BY <2>5 DEF PullsMirrorPods, Agrees
  <2> QED  BY <2>4, <2>6 DEF PullInv
<1> QED
  BY <1>1, <1>2, <1>4, <1>5, <1>6 DEF PodVersions

(* A timer's callback records a slow pull only where the API server still  *)
(* has the container wait, whichever timer it was.                         *)
LEMMA TimerSteps ==
  ASSUME PullInv, NEW t \in Timers, TimerExpires(t) \/ handleSlowPullTimer(t)
  PROVE  PullInv'
<1>0. KeptTypes /\ PodsArrive
      /\ \A j \in Containers : podEvents[j] = <<>> => Agrees(j, podApi[j])
  BY KeptIsType, MirrorIsAgrees DEF PullInv
<1>1. UNCHANGED <<podApi, podEvents, podChanges, pullFailures, waitSpell>>
  BY DEF TimerExpires, handleSlowPullTimer
<1>2. \A j \in Containers :
        slowPulls'[j] = slowPulls[j] \/ isSlowPullCandidate(podApi[j].status)
  BY <1>0 DEF KeptTypes, TimerExpires, handleSlowPullTimer
<1>3. KeptTypes'
  <2>1. pullTimer[t] \in TimerValues
    BY <1>0 DEF KeptTypes
  <2>2. CASE TimerExpires(t)
    <3>1. [pullTimer[t] EXCEPT !.at = "fired"] \in TimerValues
      BY <2>1 DEF TimerValues
    <3> QED  BY <1>0, <2>2, <3>1 DEF TimerExpires, KeptTypes
  <2>3. CASE handleSlowPullTimer(t)
    <3> DEFINE k == pullTimer[t].key
    <3>1. [on |-> TRUE, first |-> pullTimer[t].first] \in SlowPulls
      BY <2>1 DEF TimerValues, SlowPulls
    <3>2. /\ slowTimers' = [slowTimers EXCEPT ![k] = "none"]
          /\ \/ UNCHANGED slowPulls
             \/ slowPulls' = [slowPulls EXCEPT ![k] = [on |-> TRUE,
                                                      first |-> pullTimer[t].first]]
          /\ pullTimer' = [pullTimer EXCEPT ![t] = Quiet]
          /\ UNCHANGED <<pullFailures, waitSpell>>
      BY <2>3 DEF handleSlowPullTimer
    <3> QED  BY <1>0, <3>1, <3>2, PullValues DEF KeptTypes
  <2> QED  BY <2>2, <2>3
<1>4. PullTypeOK' /\ PodsArrive'
  BY <1>0, <1>1, <1>3
     DEF PullInv, PullTypeOK, KeptTypes, PodVersions, Failures, SlowPulls, TimerValues,
         PodsArrive
<1>5. ASSUME NEW j \in Containers, podEvents'[j] = <<>> PROVE Agrees(j, podApi[j])'
  <2>1. Agrees(j, podApi[j])
    BY <1>0, <1>1, <1>5
  <2>2. CASE slowPulls'[j] = slowPulls[j]
    BY <1>1, <2>1, <2>2 DEF Agrees, pullCollect
  <2>3. CASE isSlowPullCandidate(podApi[j].status)
    BY <1>1, <2>1, <2>3 DEF Agrees, pullCollect
  <2> QED  BY <1>2, <2>2, <2>3
<1>6. PullsMirrorPods'
  BY <1>5 DEF PullsMirrorPods, Agrees
<1> QED
  BY <1>4, <1>6 DEF PullInv

(* Every step keeps the invariant of the pulls.                            *)
LEMMA PullNextInv == PullInv /\ [PullNext]_pullVars => PullInv'
<1> SUFFICES ASSUME PullInv, [PullNext]_pullVars PROVE PullInv'
  OBVIOUS
<1>1. CASE UNCHANGED pullVars
  BY <1>1 DEF pullVars, PullInv, PullTypeOK, PodsArrive, PullsMirrorPods, pullCollect
<1> QED
  BY <1>1, PodSteps, TimerSteps DEF PullNext

(* What the image pull collector keeps is of its type.                     *)
THEOREM PullTypeCorrect == PullSpec => []PullTypeOK
<1>1. PullInv => PullTypeOK
  BY DEF PullInv
<1> QED
  BY <1>1, PullInitInv, PullNextInv, PTL DEF PullSpec

(* For any number of containers, of timers and of changes: once everything *)
(* about a container is delivered, a scrape shows of it what its pod says, *)
(* whichever callbacks of replaced or stopped timers are still to come     *)
(* (imagepull.go, processPod and handleSlowPullTimer).                     *)
THEOREM PullsFollowPods == PullSpec => []PullsMirrorPods
<1>1. PullInv => PullsMirrorPods
  BY DEF PullInv
<1> QED
  BY <1>1, PullInitInv, PullNextInv, PTL DEF PullSpec

(***************************************************************************)
(* NodeWatch                                                               *)
(***************************************************************************)

(* What is delivered last is what the API server has, and what is kept     *)
(* once everything is delivered.                                           *)
NodesArrive ==
  \A n \in Nodes :
    IF nodeEvents[n] = <<>> THEN nodes[n] = nodeApi[n]
                            ELSE Last(nodeEvents[n]) = nodeApi[n]

(* A node was first seen before now, and an answer is of a node that is    *)
(* there, from a list no older than the node, or it was inherited.         *)
AnswersAreYoung ==
  \A n \in Nodes :
    /\ bornAt[n] <= lists
    /\ nodeHasMetrics[n] # "none" =>
         nodes[n] # NoNode /\ (askedAt[n] >= bornAt[n] \/ n \in heirs)

NInv == NodeTypeOK /\ NodesArrive /\ AnswersAreYoung

(* The versions of a node.                                                 *)
LEMMA NodeValueFacts ==
  /\ NoNode \in NodeValues /\ NoNode.ready = "none"
  /\ \A u \in Uids, c \in Conditions :
       [uid |-> u, ready |-> c.ready, pressure |-> c.pressure, custom |-> c.custom]
         \in NodeValues
  /\ \A v \in NodeValues : v # NoNode => v.uid \in Uids
<1>1. NoNode \in NodeValues /\ NoNode.ready = "none"
  BY DEF NoNode, NodeValues
<1>2. \A u \in Uids, c \in Conditions :
        [uid |-> u, ready |-> c.ready, pressure |-> c.pressure, custom |-> c.custom]
          \in NodeValues
  BY DEF NodeValues
<1>3. ASSUME NEW v \in NodeValues, v # NoNode PROVE v.uid \in Uids
  <2>1. PICK u \in Uids, c \in Conditions :
          v = [uid |-> u, ready |-> c.ready, pressure |-> c.pressure, custom |-> c.custom]
    BY <1>3 DEF NodeValues
  <2> QED  BY <2>1
<1> QED
  BY <1>1, <1>2, <1>3

(* No node has joined.                                                     *)
LEMMA NodeInitInv == NodeInit => NInv
<1> SUFFICES ASSUME NodeInit PROVE NInv
  OBVIOUS
<1> USE NodeBoundsAssumption DEF NodeInit
<1>1. nodeEvents \in [Nodes -> SeqOf(NodeValues, 2)]
  BY QueueEmpty
<1>2. NodeTypeOK
  BY <1>1, NodeValueFacts DEF NodeTypeOK
<1>3. NodesArrive /\ AnswersAreYoung
  BY DEF NodesArrive, AnswersAreYoung
<1> QED
  BY <1>2, <1>3 DEF NInv

(* The API server's side: a change is queued, and a list keeps the last.   *)
LEMMA NodeChangeSteps ==
  ASSUME NInv, NEW n \in Nodes, NodeChanges(n) \/ NodeRelisted(n)
  PROVE  NInv'
<1> USE NodeBoundsAssumption
<1>0. NodeTypeOK /\ NodesArrive /\ AnswersAreYoung
      /\ nodeEvents[n] \in SeqOf(NodeValues, 2) /\ nodeApi[n] \in NodeValues
  BY DEF NInv, NodeTypeOK
<1>1. UNCHANGED <<ignoreNew, nodes, nodeHasMetrics, zombiePoll, lists, bornAt, askedAt,
                  heirs>>
  BY DEF NodeChanges, NodeRelisted
<1>2. AnswersAreYoung'
  BY <1>0, <1>1 DEF AnswersAreYoung
<1>3. CASE NodeChanges(n)
  <2>1. PICK v \in NodeValues : nodeApi' = [nodeApi EXCEPT ![n] = v]
    <3>1. CASE NodeLeaves(n)
      BY <3>1, NodeValueFacts DEF NodeLeaves
    <3>2. ASSUME NEW c \in Conditions, NodeJoins(n, c)
          PROVE  \E v \in NodeValues : nodeApi' = [nodeApi EXCEPT ![n] = v]
      <4>1. 1 + nodeChanges \in Uids
        BY <1>0, <1>3 DEF NodeChanges, NodeTypeOK, Uids
      <4> QED  BY <3>2, <4>1, NodeValueFacts DEF NodeJoins
    <3>3. ASSUME NEW c \in Conditions, NodeTurns(n, c)
          PROVE  \E v \in NodeValues : nodeApi' = [nodeApi EXCEPT ![n] = v]
      <4>1. nodeApi[n].uid \in Uids
        BY <1>0, <3>3, NodeValueFacts DEF NodeTurns
      <4> QED  BY <3>3, <4>1, NodeValueFacts DEF NodeTurns
    <3> QED  BY <1>3, <3>1, <3>2, <3>3 DEF NodeChanges
  <2>2. nodeApi' \in [Nodes -> NodeValues] /\ nodeApi'[n] = v
        /\ \A m \in Nodes : m # n => nodeApi'[m] = nodeApi[m]
    BY <1>0, <2>1 DEF NodeTypeOK
  <2> DEFINE q == Append(nodeEvents[n], v)
  <2>3. nodeEvents' = [nodeEvents EXCEPT ![n] = q] /\ Len(nodeEvents[n]) < 2
        /\ nodeChanges' = nodeChanges + 1 /\ nodeChanges < MaxNodeChanges
    BY <1>3, <2>2 DEF NodeChanges
  <2>4. q \in SeqOf(NodeValues, 2) /\ q # <<>> /\ Last(q) = v
    BY <1>0, <2>3, QueueAppend
  <2> HIDE DEF q
  <2>5. nodeEvents' \in [Nodes -> SeqOf(NodeValues, 2)] /\ nodeEvents'[n] = q
        /\ \A m \in Nodes : m # n => nodeEvents'[m] = nodeEvents[m]
    BY <1>0, <2>3, <2>4 DEF NodeTypeOK
  <2>6. NodeTypeOK'
    BY <1>0, <1>1, <2>2, <2>3, <2>5 DEF NodeTypeOK
  <2>7. NodesArrive'
    BY <1>0, <1>1, <2>2, <2>4, <2>5 DEF NodesArrive
  <2> QED  BY <1>2, <2>6, <2>7 DEF NInv
<1>4. CASE NodeRelisted(n)
  <2> DEFINE q == <<Last(nodeEvents[n])>>
  <2>1. nodeEvents' = [nodeEvents EXCEPT ![n] = q] /\ Len(nodeEvents[n]) = 2
        /\ UNCHANGED <<nodeApi, nodeChanges>>
    BY <1>4 DEF NodeRelisted
  <2>2. q \in SeqOf(NodeValues, 2) /\ q # <<>> /\ Last(q) = Last(nodeEvents[n])
        /\ nodeEvents[n] # <<>>
    BY <1>0, <2>1, QueueRelist
  <2> HIDE DEF q
  <2>3. nodeEvents' \in [Nodes -> SeqOf(NodeValues, 2)] /\ nodeEvents'[n] = q
        /\ \A m \in Nodes : m # n => nodeEvents'[m] = nodeEvents[m]
    BY <1>0, <2>1, <2>2 DEF NodeTypeOK
  <2>4. NodeTypeOK'
    BY <1>0, <1>1, <2>1, <2>3 DEF NodeTypeOK
  <2>5. NodesArrive'
    BY <1>0, <1>1, <2>1, <2>2, <2>3 DEF NodesArrive
  <2> QED  BY <1>2, <2>4, <2>5 DEF NInv
<1> QED
  BY <1>3, <1>4

(* The handlers: a node that is gone leaves no answer to its successor.    *)
LEMMA NodeHandlerSteps ==
  ASSUME NInv, NEW n \in Nodes, HandleNode(n) \/ HandleNodeDelete(n)
  PROVE  NInv'
<1> USE NodeBoundsAssumption
<1>0. NodeTypeOK /\ NodesArrive /\ AnswersAreYoung
      /\ nodeEvents[n] \in SeqOf(NodeValues, 2)
  BY DEF NInv, NodeTypeOK
<1>1. /\ nodeEvents[n] # <<>> /\ nodeEvents' = [nodeEvents EXCEPT ![n] = Tail(nodeEvents[n])]
      /\ nodes' = [nodes EXCEPT ![n] = Head(nodeEvents[n])]
      /\ UNCHANGED <<nodeApi, nodeChanges, ignoreNew, zombiePoll, lists, askedAt>>
  BY DEF HandleNode, HandleNodeDelete
<1>2. /\ Head(nodeEvents[n]) \in NodeValues /\ Tail(nodeEvents[n]) \in SeqOf(NodeValues, 2)
      /\ Tail(nodeEvents[n]) = <<>> => Last(nodeEvents[n]) = Head(nodeEvents[n])
      /\ Tail(nodeEvents[n]) # <<>> => Last(Tail(nodeEvents[n])) = Last(nodeEvents[n])
  BY <1>0, <1>1, QueueTail
<1>3. /\ nodeEvents' \in [Nodes -> SeqOf(NodeValues, 2)] /\ nodes' \in [Nodes -> NodeValues]
      /\ nodeEvents'[n] = Tail(nodeEvents[n]) /\ nodes'[n] = Head(nodeEvents[n])
      /\ \A m \in Nodes : m # n => nodeEvents'[m] = nodeEvents[m] /\ nodes'[m] = nodes[m]
  BY <1>0, <1>1, <1>2 DEF NodeTypeOK
<1>4. NodesArrive'
  BY <1>0, <1>1, <1>2, <1>3 DEF NodesArrive
<1>5. /\ nodeHasMetrics' \in [Nodes -> {"none", "yes", "no"}]
      /\ bornAt' \in [Nodes -> 0..MaxLists]
      /\ heirs' \subseteq Nodes
  <2>1. CASE HandleNode(n)
    <3>1. bornAt' \in [Nodes -> 0..MaxLists]
      BY <1>0, <2>1 DEF HandleNode, NodeTypeOK
    <3>2. UNCHANGED nodeHasMetrics /\ heirs' \subseteq Nodes
      BY <1>0, <2>1 DEF HandleNode, NodeTypeOK
    <3> QED  BY <1>0, <3>1, <3>2 DEF NodeTypeOK
  <2>2. CASE HandleNodeDelete(n)
    <3>1. nodeHasMetrics' \in [Nodes -> {"none", "yes", "no"}]
      BY <1>0, <2>2 DEF HandleNodeDelete, NodeTypeOK
    <3>2. UNCHANGED bornAt /\ heirs' \subseteq Nodes
      BY <1>0, <2>2 DEF HandleNodeDelete, NodeTypeOK
    <3> QED  BY <1>0, <3>1, <3>2 DEF NodeTypeOK
  <2> QED  BY <2>1, <2>2
<1>6. NodeTypeOK'
  BY <1>0, <1>1, <1>3, <1>5 DEF NodeTypeOK
<1>7. CASE HandleNode(n)
  <2>1. /\ UNCHANGED nodeHasMetrics /\ Head(nodeEvents[n]) # NoNode
        /\ \A m \in Nodes : m # n => bornAt'[m] = bornAt[m]
        /\ bornAt'[n] = IF Head(nodeEvents[n]).uid # nodes[n].uid THEN lists ELSE bornAt[n]
        /\ heirs \subseteq heirs'
        /\ nodes[n] # NoNode /\ Head(nodeEvents[n]).uid # nodes[n].uid => n \in heirs'
    BY <1>0, <1>7 DEF HandleNode, NodeTypeOK
  <2> QED  BY <1>0, <1>1, <1>3, <1>4, <1>6, <2>1 DEF NInv, AnswersAreYoung, NodeTypeOK
<1>8. CASE HandleNodeDelete(n)
  <2>1. UNCHANGED bornAt /\ heirs' = heirs \ {n}
        /\ \A m \in Nodes : nodeHasMetrics'[m] = IF m = n THEN "none" ELSE nodeHasMetrics[m]
    BY <1>0, <1>8 DEF HandleNodeDelete, NodeTypeOK
  <2> QED  BY <1>0, <1>1, <1>3, <1>4, <1>6, <2>1 DEF NInv, AnswersAreYoung
<1> QED
  BY <1>7, <1>8

(* The poll: an answer goes only to nodes that are there when it is        *)
(* written down, and those were added by then.                             *)
LEMMA ZombiePollSteps ==
  ASSUME NInv,
         \/ NodesAge \/ AskMetrics \/ AskFails \/ ApplyMetrics
         \/ \E s \in SUBSET Nodes : ListMetrics(s)
  PROVE  NInv'
<1> USE NodeBoundsAssumption
<1>0. NodeTypeOK /\ NodesArrive /\ AnswersAreYoung
  BY DEF NInv
<1>1. UNCHANGED <<nodeApi, nodeEvents, nodeChanges, nodes, bornAt>>
  BY DEF NodesAge, AskMetrics, AskFails, ApplyMetrics, ListMetrics
<1>2. NodesArrive'
  BY <1>0, <1>1 DEF NodesArrive
<1>3. zombiePoll' \in [at : {"idle", "asking", "told"}, has : SUBSET Nodes]
  BY <1>0 DEF NodeTypeOK, NodesAge, AskMetrics, AskFails, ApplyMetrics, ListMetrics
<1>4. /\ ignoreNew' \in {0} \union Uids /\ lists' \in 0..MaxLists /\ lists' >= lists
  BY <1>0 DEF NodeTypeOK, Uids, NodesAge, AskMetrics, AskFails, ApplyMetrics, ListMetrics
<1>5. CASE ApplyMetrics
  <2>1. /\ nodeHasMetrics' = [n \in Nodes |->
             IF isNodeReady(nodes[n]) THEN IF n \in zombiePoll.has THEN "yes" ELSE "no"
             ELSE nodeHasMetrics[n]]
        /\ askedAt' = [n \in Nodes |-> IF isNodeReady(nodes[n]) THEN lists ELSE askedAt[n]]
        /\ heirs' = {n \in heirs : ~isNodeReady(nodes[n])}
        /\ UNCHANGED lists
    BY <1>5 DEF ApplyMetrics
  <2>2. /\ nodeHasMetrics' \in [Nodes -> {"none", "yes", "no"}]
        /\ askedAt' \in [Nodes -> 0..MaxLists]
        /\ heirs' \subseteq Nodes
    BY <1>0, <1>5 DEF NodeTypeOK, ApplyMetrics
  <2>3. NodeTypeOK'
    BY <1>0, <1>1, <1>3, <1>4, <2>2 DEF NodeTypeOK
  <2>4. \A n \in Nodes : isNodeReady(nodes[n]) => nodes[n] # NoNode
    BY NodeValueFacts DEF isNodeReady
  <2>5. AnswersAreYoung'
    BY <1>0, <1>1, <2>1, <2>4 DEF AnswersAreYoung, NodeTypeOK
  <2> QED  BY <1>2, <2>3, <2>5 DEF NInv
<1>6. CASE ~ApplyMetrics
  <2>1. UNCHANGED <<nodeHasMetrics, askedAt, heirs>>
    BY <1>6 DEF NodesAge, AskMetrics, AskFails, ListMetrics
  <2>2. NodeTypeOK'
    BY <1>0, <1>1, <1>3, <1>4, <2>1 DEF NodeTypeOK
  <2>3. AnswersAreYoung'
    BY <1>0, <1>1, <1>4, <2>1 DEF AnswersAreYoung, NodeTypeOK
  <2> QED  BY <1>2, <2>2, <2>3 DEF NInv
<1> QED
  BY <1>5, <1>6

(* Every step keeps the invariant of the nodes.                            *)
LEMMA NodeNextInv == NInv /\ [NodeNext]_nodeVars => NInv'
<1> SUFFICES ASSUME NInv, [NodeNext]_nodeVars PROVE NInv'
  OBVIOUS
<1>1. CASE UNCHANGED nodeVars
  BY <1>1 DEF nodeVars, NInv, NodeTypeOK, NodesArrive, AnswersAreYoung
<1> QED
  BY <1>1, NodeChangeSteps, NodeHandlerSteps, ZombiePollSteps DEF NodeNext

(* An unhealthy node is shown with a reason, or has no Ready condition.    *)
LEMMA UnhealthyHasReason ==
  ASSUME NEW v, ~isNodeHealthy(v), v.ready # "none"
  PROVE  Abnormal(v) # {}
<1>1. CASE v.pressure = "True"
  <2>1. "pressure" \in Abnormal(v)
    BY <1>1 DEF Abnormal
  <2> QED  BY <2>1
<1>2. CASE v.pressure # "True"
  <2>1. "ready" \in Abnormal(v)
    BY <1>2 DEF Abnormal, isNodeHealthy
  <2> QED  BY <2>1
<1> QED
  BY <1>1, <1>2

(* What the invariant says of a scrape.                                    *)
LEMMA NInvAnswers == NInv => AnswersAreOfThisNode
<1> SUFFICES ASSUME NInv PROVE AnswersAreOfThisNode
  OBVIOUS
<1>0. NodesArrive /\ AnswersAreYoung
  BY DEF NInv
<1>1. ASSUME NEW n \in DOMAIN zombieCollect
      PROVE  /\ askedAt[n] >= bornAt[n] \/ n \in heirs
             /\ (nodeEvents[n] = <<>> => isNodeReady(nodeApi[n]))
  <2>1. n \in Nodes /\ isNodeReady(nodes[n]) /\ nodeHasMetrics[n] # "none"
    BY <1>1 DEF zombieCollect
  <2> QED  BY <1>0, <2>1 DEF NodesArrive, AnswersAreYoung
<1>2. ASSUME NEW n \in DOMAIN nodeCollect
      PROVE  /\ nodeEvents[n] = <<>> => nodeApi[n] # NoNode
             /\ nodeCollect[n].healthy \/ nodeCollect[n].shown # {}
                  \/ nodes[n].ready = "none"
  <2>1. n \in Nodes /\ nodes[n] # NoNode
        /\ nodeCollect[n] = [healthy |-> isNodeHealthy(nodes[n]),
             shown |-> IF isNodeHealthy(nodes[n]) THEN {} ELSE Abnormal(nodes[n])]
    BY <1>2 DEF nodeCollect
  <2>2. nodeEvents[n] = <<>> => nodeApi[n] # NoNode
    BY <1>0, <2>1 DEF NodesArrive
  <2>3. isNodeHealthy(nodes[n]) \/ Abnormal(nodes[n]) # {} \/ nodes[n].ready = "none"
    BY UnhealthyHasReason
  <2> QED  BY <2>1, <2>2, <2>3
<1> QED
  BY <1>1, <1>2 DEF AnswersAreOfThisNode

(* What the two node collectors keep is of its type.                       *)
THEOREM NodeTypeCorrect == NodeSpec => []NodeTypeOK
<1>1. NInv => NodeTypeOK
  BY DEF NInv
<1> QED
  BY <1>1, NodeInitInv, NodeNextInv, PTL DEF NodeSpec

(* For any number of nodes, of changes and of polls: the answer shown of a *)
(* node is at worst from the list that was on its way when the node, by    *)
(* its UID, was first seen, unless the node was recreated unseen and no    *)
(* poll has met it since (zombie.go, Poll applies a list it took without   *)
(* the lock; the informer's DeleteFunc is what forgets an answer); a node  *)
(* that is shown unhealthy is shown with a reason.                         *)
THEOREM AnswersOfTheNode == NodeSpec => []AnswersAreOfThisNode
  BY NInvAnswers, NodeInitInv, NodeNextInv, PTL DEF NodeSpec

(***************************************************************************)
(* InformerHooks                                                           *)
(***************************************************************************)

(* Which hooks a collector of either style runs.                           *)
StylesApart ==
  \A k \in Calls :
    /\ startAt[k] \in {"made", "running"} => hookStyle = "factory"
    /\ startAt[k] \in {"stopping", "closing"} \/ stopAt[k] = "closing" => hookStyle = "crd"

(* A channel that somebody made was made by a hook that has got so far.    *)
ChannelsAreMade ==
  \A k \in Calls : k \in closedCh \/ k = hookStopCh => startAt[k] \notin {"no", "entered"}

StopUnderWay == \E k \in Calls : stopAt[k] \notin {"no", "ended"}
NoneRuns     == \A k \in Calls : ~Running(k)

(* As long as no call overtakes the hooks of another one: at most one      *)
(* Start and one Stop are under way, and ...                               *)
OneCallOfEach ==
  /\ \A j, k \in Calls :
       startAt[j] \notin {"no", "ended"} /\ startAt[k] \notin {"no", "ended"} => j = k
  /\ \A j, k \in Calls :
       stopAt[j] \notin {"no", "ended"} /\ stopAt[k] \notin {"no", "ended"} => j = k
  /\ StopUnderWay => ~hookStarted

(* ... a Start begins, and fails, with no informer running; what runs does *)
(* so on the current channel, and somebody is there to stop it; ...        *)
StartsFromNothing ==
  \A k \in Calls :
    /\ startAt[k] = "entered" => hookStarted
    /\ startAt[k] \in {"entered", "failing"} =>
         NoneRuns /\ (hookStyle = "crd" => ~informerUp)

RunsOnCurrent ==
  \A k \in Calls : Running(k) =>
    /\ informerCh[k] = hookStopCh
    /\ hookStarted \/ StopUnderWay
    /\ hookStyle = "crd" => informerUp

UpHasOwner == hookStyle = "crd" /\ informerUp => hookStarted \/ StopUnderWay

FactoryHooks ==
  hookStyle = "factory" => \A k \in Calls :
    /\ startAt[k] \in {"made", "running", "waiting"} =>
         hookStarted \/ StopUnderWay \/ hookStopCh \in closedCh
    /\ startAt[k] = "waiting" => waitCh[k] = hookStopCh

(* ... the channel that OnStop will close is open.                         *)
FactoryCanClose ==
  /\ hookStyle = "factory"
  /\ StopUnderWay \/ (hookStarted /\ \A k \in Calls : startAt[k] # "entered")
  => hookStopCh # NilCh /\ hookStopCh \notin closedCh

HInv ==
  /\ HookTypeOK /\ StylesApart /\ ChannelsAreMade
  /\ ~overtaken => /\ OneCallOfEach /\ StartsFromNothing /\ RunsOnCurrent /\ UpHasOwner
                   /\ FactoryHooks /\ FactoryCanClose
                   /\ hookPanic => hookStyle = "crd"

(* The channels are told apart.                                            *)
LEMMA ChannelFacts == NilCh \notin Calls /\ NilCh # 0 /\ 0 \notin Calls
  BY CallsAssumption DEF NilCh, Calls

(* Nothing was called.                                                     *)
LEMMA HookInitInv == HookInit => HInv
<1> SUFFICES ASSUME HookInit PROVE HInv
  OBVIOUS
<1> USE ChannelFacts DEF HookInit
<1>1. /\ hookStarted \in BOOLEAN /\ overtaken \in BOOLEAN /\ hookPanic \in BOOLEAN
      /\ informerUp \in BOOLEAN
  BY Zenon
<1>2. HookTypeOK
  <2>1. /\ startAt \in [Calls -> {"no", "entered", "made", "running", "waiting", "stopping",
                                  "closing", "failing", "ended"}]
        /\ stopAt \in [Calls -> {"no", "entered", "closing", "ended"}]
        /\ informerCh \in [Calls -> Calls \union {0, NilCh}]
        /\ waitCh \in [Calls -> Calls \union {0, NilCh}]
        /\ hookStopCh \in Calls \union {0, NilCh}
        /\ closedCh = {} /\ informerSync = {} /\ hookCtx = 0 /\ cancelledCtx = {}
        /\ hookStyle \in {"factory", "crd"}
    OBVIOUS
  <2> HIDE DEF HookInit
  <2> QED  BY <1>1, <2>1 DEF HookTypeOK
<1>3. NoneRuns /\ ~StopUnderWay
  BY DEF NoneRuns, Running, StopUnderWay
<1> QED
  BY <1>2, <1>3
     DEF HInv, StylesApart, ChannelsAreMade, OneCallOfEach, StartsFromNothing,
         RunsOnCurrent, NoneRuns, UpHasOwner, FactoryHooks, FactoryCanClose

(* The calls of the base collector.                                        *)
LEMMA BaseSteps ==
  ASSUME HInv, NEW k \in Calls, BaseStart(k) \/ BaseStop(k) \/ BaseRollback(k)
  PROVE  HInv'
<1> USE ChannelFacts
<1>0. /\ HookTypeOK /\ StylesApart /\ ChannelsAreMade
      /\ ~overtaken => /\ OneCallOfEach /\ StartsFromNothing /\ RunsOnCurrent /\ UpHasOwner
                       /\ FactoryHooks /\ FactoryCanClose
                       /\ hookPanic => hookStyle = "crd"
  BY DEF HInv
<1>1. /\ UNCHANGED <<hookStyle, hookStopCh, closedCh, informerUp, informerCh, waitCh,
                     informerSync, hookPanic>>
      /\ \A j \in Calls : Running(j)' <=> Running(j)
  BY DEF BaseStart, BaseStop, BaseRollback, Running
<1>n. NoneRuns' <=> NoneRuns
  BY <1>1 DEF NoneRuns
<1>2. CASE BaseStart(k)
  <2>1. /\ startAt[k] = "no" /\ startAt' = [startAt EXCEPT ![k] = "entered"]
        /\ hookStarted' /\ ~hookStarted /\ hookCtx' = k
        /\ overtaken' = (overtaken \/ ~HooksAtRest)
        /\ UNCHANGED <<cancelledCtx, stopAt>>
    BY <1>2 DEF BaseStart
  <2>b. hookStarted' \in BOOLEAN /\ overtaken' \in BOOLEAN
    BY <1>2, Zenon DEF BaseStart
  <2>2. \A j \in Calls : startAt'[j] = IF j = k THEN "entered" ELSE startAt[j]
    BY <1>0, <2>1 DEF HookTypeOK
  <2>3. HookTypeOK'
    BY <1>0, <1>1, <2>1, <2>b DEF HookTypeOK
  <2>4. StylesApart' /\ ChannelsAreMade'
    BY <1>0, <1>1, <2>1, <2>2 DEF StylesApart, ChannelsAreMade
  <2>5. ASSUME ~overtaken'
        PROVE  /\ OneCallOfEach' /\ StartsFromNothing' /\ RunsOnCurrent' /\ UpHasOwner'
               /\ FactoryHooks' /\ FactoryCanClose' /\ (hookPanic' => hookStyle' = "crd")
    <3>1. ~overtaken /\ \A j \in Calls : startAt[j] \in {"no", "ended"}
                                         /\ stopAt[j] \in {"no", "ended"}
      BY <2>1, <2>5 DEF HooksAtRest, InFlight
    <3>2. ~StopUnderWay /\ ~StopUnderWay'
      BY <2>1, <3>1 DEF StopUnderWay
    <3>3. NoneRuns /\ (hookStyle = "crd" => ~informerUp)
      BY <1>0, <2>1, <3>1, <3>2 DEF RunsOnCurrent, UpHasOwner, NoneRuns
    <3>4. OneCallOfEach'
      BY <2>1, <2>2, <3>1, <3>2 DEF OneCallOfEach
    <3>5. StartsFromNothing'
      BY <1>1, <1>n, <2>1, <2>2, <3>1, <3>3 DEF StartsFromNothing
    <3>6. RunsOnCurrent' /\ UpHasOwner'
      BY <1>1, <2>1, <3>3 DEF RunsOnCurrent, UpHasOwner, NoneRuns
    <3>7. FactoryHooks' /\ FactoryCanClose'
      BY <1>1, <2>1, <2>2, <3>1, <3>2 DEF FactoryHooks, FactoryCanClose
    <3> QED  BY <1>0, <1>1, <3>1, <3>4, <3>5, <3>6, <3>7
  <2> QED  BY <2>3, <2>4, <2>5 DEF HInv
<1>3. CASE BaseStop(k)
  <2>1. /\ stopAt[k] = "no" /\ stopAt' = [stopAt EXCEPT ![k] = "entered"]
        /\ ~hookStarted' /\ hookStarted
        /\ cancelledCtx' = cancelledCtx \union ({hookCtx} \ {0}) /\ hookCtx' = 0
        /\ overtaken' = (overtaken \/ \E j \in Calls : startAt[j] = "entered")
        /\ UNCHANGED startAt
    BY <1>3 DEF BaseStop
  <2>b. hookStarted' \in BOOLEAN /\ overtaken' \in BOOLEAN
    BY <1>3, Zenon DEF BaseStop
  <2>2. \A j \in Calls : stopAt'[j] = IF j = k THEN "entered" ELSE stopAt[j]
    BY <1>0, <2>1 DEF HookTypeOK
  <2>3. HookTypeOK'
    BY <1>0, <1>1, <2>1, <2>b DEF HookTypeOK
  <2>4. StylesApart' /\ ChannelsAreMade' /\ StopUnderWay'
    BY <1>0, <1>1, <2>1, <2>2 DEF StylesApart, ChannelsAreMade, StopUnderWay
  <2>5. ASSUME ~overtaken'
        PROVE  /\ OneCallOfEach' /\ StartsFromNothing' /\ RunsOnCurrent' /\ UpHasOwner'
               /\ FactoryHooks' /\ FactoryCanClose' /\ (hookPanic' => hookStyle' = "crd")
    <3>1. ~overtaken /\ \A j \in Calls : startAt[j] # "entered"
      BY <2>1, <2>5
    <3>2. \A j \in Calls : stopAt[j] \in {"no", "ended"}
      BY <1>0, <2>1, <3>1 DEF OneCallOfEach, StopUnderWay
    <3>3. OneCallOfEach'
      BY <1>0, <2>1, <2>2, <3>1, <3>2 DEF OneCallOfEach
    <3>4. StartsFromNothing'
      BY <1>0, <1>1, <1>n, <2>1, <3>1 DEF StartsFromNothing
    <3>5. RunsOnCurrent' /\ UpHasOwner' /\ FactoryHooks'
      BY <1>0, <1>1, <2>1, <2>4, <3>1 DEF RunsOnCurrent, UpHasOwner, FactoryHooks
    <3>6. FactoryCanClose'
      BY <1>0, <1>1, <2>1, <3>1 DEF FactoryCanClose
    <3> QED  BY <1>0, <1>1, <3>1, <3>3, <3>4, <3>5, <3>6
  <2> QED  BY <2>3, <2>4, <2>5 DEF HInv
<1>4. CASE BaseRollback(k)
  <2>1. /\ startAt[k] = "failing" /\ startAt' = [startAt EXCEPT ![k] = "ended"]
        /\ ~hookStarted'
        /\ cancelledCtx' = cancelledCtx \union ({hookCtx} \ {0}) /\ hookCtx' = 0
        /\ UNCHANGED <<stopAt, overtaken>>
    BY <1>4 DEF BaseRollback
  <2>b. hookStarted' \in BOOLEAN
    BY <1>4, Zenon DEF BaseRollback
  <2>2. \A j \in Calls : startAt'[j] = IF j = k THEN "ended" ELSE startAt[j]
    BY <1>0, <2>1 DEF HookTypeOK
  <2>3. HookTypeOK'
    BY <1>0, <1>1, <2>1, <2>b DEF HookTypeOK
  <2>4. StylesApart' /\ ChannelsAreMade' /\ (StopUnderWay' <=> StopUnderWay)
    BY <1>0, <1>1, <2>1, <2>2 DEF StylesApart, ChannelsAreMade, StopUnderWay
  <2>5. ASSUME ~overtaken'
        PROVE  /\ OneCallOfEach' /\ StartsFromNothing' /\ RunsOnCurrent' /\ UpHasOwner'
               /\ FactoryHooks' /\ FactoryCanClose' /\ (hookPanic' => hookStyle' = "crd")
    <3>1. ~overtaken /\ NoneRuns /\ (hookStyle = "crd" => ~informerUp)
      BY <1>0, <2>1, <2>5 DEF StartsFromNothing
    <3>2. \A j \in Calls : startAt'[j] \in {"no", "ended"}
      BY <1>0, <2>1, <2>2, <3>1 DEF OneCallOfEach, HookTypeOK
    <3>3. OneCallOfEach'
      BY <1>0, <2>1, <2>4, <3>1, <3>2 DEF OneCallOfEach
    <3>4. StartsFromNothing' /\ FactoryHooks'
      BY <3>2 DEF StartsFromNothing, FactoryHooks
    <3>5. RunsOnCurrent' /\ UpHasOwner'
      BY <1>1, <1>n, <3>1 DEF RunsOnCurrent, UpHasOwner, NoneRuns
    <3>6. FactoryCanClose'
      BY <1>0, <1>1, <2>1, <2>4, <3>1 DEF FactoryCanClose
    <3> QED  BY <1>0, <1>1, <3>1, <3>3, <3>4, <3>5, <3>6
  <2> QED  BY <2>3, <2>4, <2>5 DEF HInv
<1> QED
  BY <1>2, <1>3, <1>4

(* The hooks of the collectors with an informer factory.                   *)
LEMMA FactorySteps ==
  ASSUME HInv, NEW k \in Calls,
         MakeStopCh(k) \/ FactoryStart(k) \/ BeginWait(k) \/ FactoryStop(k)
  PROVE  HInv'
<1> USE ChannelFacts
<1>0. /\ HookTypeOK /\ StylesApart /\ ChannelsAreMade
      /\ ~overtaken => /\ OneCallOfEach /\ StartsFromNothing /\ RunsOnCurrent /\ UpHasOwner
                       /\ FactoryHooks /\ FactoryCanClose
                       /\ hookPanic => hookStyle = "crd"
  BY DEF HInv
<1>1. UNCHANGED <<hookStyle, hookStarted, hookCtx, cancelledCtx, overtaken, informerUp,
                  informerSync>>
  BY DEF MakeStopCh, FactoryStart, BeginWait, FactoryStop, BaseUnchanged
<1>2. CASE MakeStopCh(k)
  <2>1. /\ startAt[k] = "entered" /\ startAt' = [startAt EXCEPT ![k] = "made"]
        /\ hookStyle = "factory" /\ hookStopCh' = k
        /\ UNCHANGED <<stopAt, closedCh, informerCh, waitCh, hookPanic>>
    BY <1>2 DEF MakeStopCh
  <2>2. \A j \in Calls : startAt'[j] = IF j = k THEN "made" ELSE startAt[j]
    BY <1>0, <2>1 DEF HookTypeOK
  <2>3. HookTypeOK'
    BY <1>0, <1>1, <2>1 DEF HookTypeOK
  <2>4. StylesApart' /\ ChannelsAreMade' /\ (StopUnderWay' <=> StopUnderWay)
    BY <1>0, <1>1, <2>1, <2>2 DEF StylesApart, ChannelsAreMade, StopUnderWay
  <2>5. ASSUME ~overtaken'
        PROVE  /\ OneCallOfEach' /\ StartsFromNothing' /\ RunsOnCurrent' /\ UpHasOwner'
               /\ FactoryHooks' /\ FactoryCanClose' /\ (hookPanic' => hookStyle' = "crd")
    <3>1. ~overtaken /\ hookStarted /\ NoneRuns /\ k \notin closedCh
      BY <1>0, <1>1, <2>1, <2>5 DEF StartsFromNothing, ChannelsAreMade
    <3>2. NoneRuns' /\ \A j \in Calls : ~Running(j)'
      BY <2>1, <3>1 DEF NoneRuns, Running
    <3>3. \A j \in Calls : j # k => startAt'[j] \in {"no", "ended"}
      BY <1>0, <2>1, <2>2, <3>1 DEF OneCallOfEach
    <3>4. OneCallOfEach'
      BY <1>0, <1>1, <2>1, <2>4, <3>1, <3>3 DEF OneCallOfEach
    <3>5. StartsFromNothing'
      BY <2>2, <3>3 DEF StartsFromNothing
    <3>6. RunsOnCurrent' /\ UpHasOwner'
      BY <1>1, <3>1, <3>2 DEF RunsOnCurrent, UpHasOwner
    <3>7. FactoryHooks' /\ FactoryCanClose'
      BY <1>1, <2>1, <2>2, <3>1, <3>3 DEF FactoryHooks, FactoryCanClose
    <3> QED  BY <1>0, <1>1, <2>1, <3>1, <3>4, <3>5, <3>6, <3>7
  <2> QED  BY <2>3, <2>4, <2>5 DEF HInv
<1>3. CASE FactoryStart(k)
  <2>1. /\ startAt[k] = "made" /\ startAt' = [startAt EXCEPT ![k] = "running"]
        /\ informerCh' = [informerCh EXCEPT ![k] = hookStopCh]
        /\ UNCHANGED <<stopAt, closedCh, hookStopCh, waitCh, hookPanic>>
    BY <1>3 DEF FactoryStart
  <2>2. /\ \A j \in Calls : startAt'[j] = IF j = k THEN "running" ELSE startAt[j]
        /\ \A j \in Calls : informerCh'[j] = IF j = k THEN hookStopCh ELSE informerCh[j]
    BY <1>0, <2>1 DEF HookTypeOK
  <2>3. HookTypeOK'
    BY <1>0, <1>1, <2>1 DEF HookTypeOK
  <2>4. StylesApart' /\ ChannelsAreMade' /\ (StopUnderWay' <=> StopUnderWay)
    BY <1>0, <1>1, <2>1, <2>2 DEF StylesApart, ChannelsAreMade, StopUnderWay
  <2>5. ASSUME ~overtaken'
        PROVE  /\ OneCallOfEach' /\ StartsFromNothing' /\ RunsOnCurrent' /\ UpHasOwner'
               /\ FactoryHooks' /\ FactoryCanClose' /\ (hookPanic' => hookStyle' = "crd")
    <3>1. ~overtaken /\ hookStyle = "factory"
      BY <1>0, <1>1, <2>1, <2>5 DEF StylesApart
    <3>2. \A j \in Calls : j # k => startAt'[j] \in {"no", "ended"}
      BY <1>0, <2>1, <2>2, <3>1 DEF OneCallOfEach
    <3>3. OneCallOfEach'
      BY <1>0, <1>1, <2>1, <2>4, <3>1, <3>2 DEF OneCallOfEach
    <3>4. StartsFromNothing'
      BY <2>2, <3>2 DEF StartsFromNothing
    <3>5. ASSUME NEW j \in Calls, Running(j)'
          PROVE  informerCh'[j] = hookStopCh' /\ (hookStarted' \/ StopUnderWay')
      <4>1. CASE j = k
        BY <1>0, <1>1, <2>1, <2>2, <2>4, <3>1, <3>5, <4>1 DEF Running, FactoryHooks
      <4>2. CASE j # k
        BY <1>0, <1>1, <2>1, <2>2, <2>4, <3>1, <3>5, <4>2 DEF Running, RunsOnCurrent
      <4> QED  BY <4>1, <4>2
    <3>6. RunsOnCurrent' /\ UpHasOwner'
      BY <1>1, <3>1, <3>5 DEF RunsOnCurrent, UpHasOwner
    <3>7. FactoryHooks' /\ FactoryCanClose'
      BY <1>0, <1>1, <2>1, <2>2, <2>4, <3>1, <3>2 DEF FactoryHooks, FactoryCanClose
    <3> QED  BY <1>0, <1>1, <2>1, <3>1, <3>3, <3>4, <3>6, <3>7
  <2> QED  BY <2>3, <2>4, <2>5 DEF HInv
<1>4. CASE BeginWait(k)
  <2>1. /\ startAt[k] = "running" /\ startAt' = [startAt EXCEPT ![k] = "waiting"]
        /\ waitCh' = [waitCh EXCEPT ![k] = hookStopCh]
        /\ UNCHANGED <<stopAt, closedCh, hookStopCh, informerCh, hookPanic>>
    BY <1>4 DEF BeginWait
  <2>2. /\ \A j \in Calls : startAt'[j] = IF j = k THEN "waiting" ELSE startAt[j]
        /\ waitCh'[k] = hookStopCh
        /\ \A j \in Calls : Running(j)' <=> Running(j)
    BY <1>0, <2>1 DEF HookTypeOK, Running
  <2>3. HookTypeOK'
    BY <1>0, <1>1, <2>1 DEF HookTypeOK
  <2>4. StylesApart' /\ ChannelsAreMade' /\ (StopUnderWay' <=> StopUnderWay)
    BY <1>0, <1>1, <2>1, <2>2 DEF StylesApart, ChannelsAreMade, StopUnderWay
  <2>5. ASSUME ~overtaken'
        PROVE  /\ OneCallOfEach' /\ StartsFromNothing' /\ RunsOnCurrent' /\ UpHasOwner'
               /\ FactoryHooks' /\ FactoryCanClose' /\ (hookPanic' => hookStyle' = "crd")
    <3>1. ~overtaken /\ hookStyle = "factory"
      BY <1>0, <1>1, <2>1, <2>5 DEF StylesApart
    <3>2. \A j \in Calls : j # k => startAt'[j] \in {"no", "ended"}
      BY <1>0, <2>1, <2>2, <3>1 DEF OneCallOfEach
    <3>3. OneCallOfEach'
      BY <1>0, <1>1, <2>1, <2>4, <3>1, <3>2 DEF OneCallOfEach
    <3>4. StartsFromNothing'
      BY <2>2, <3>2 DEF StartsFromNothing
    <3>5. RunsOnCurrent' /\ UpHasOwner'
      BY <1>0, <1>1, <2>1, <2>2, <2>4, <3>1 DEF RunsOnCurrent, UpHasOwner
    <3>6. FactoryHooks' /\ FactoryCanClose'
      BY <1>0, <1>1, <2>1, <2>2, <2>4, <3>1, <3>2 DEF FactoryHooks, FactoryCanClose
    <3> QED  BY <1>0, <1>1, <2>1, <3>1, <3>3, <3>4, <3>5, <3>6
  <2> QED  BY <2>3, <2>4, <2>5 DEF HInv
<1>5. CASE FactoryStop(k)
  <2>1. /\ stopAt[k] = "entered" /\ stopAt' = [stopAt EXCEPT ![k] = "ended"]
        /\ hookStyle = "factory"
        /\ hookPanic' = (hookPanic \/ hookStopCh \in closedCh \union {NilCh})
        /\ closedCh' = closedCh \union ({hookStopCh} \ {NilCh})
        /\ UNCHANGED <<startAt, hookStopCh, informerCh, waitCh>>
    BY <1>5 DEF FactoryStop, CloseStopCh
  <2>b. hookPanic' \in BOOLEAN
    BY <1>5, Zenon DEF FactoryStop, CloseStopCh
  <2>2. \A j \in Calls : stopAt'[j] = IF j = k THEN "ended" ELSE stopAt[j]
    BY <1>0, <2>1 DEF HookTypeOK
  <2>3. HookTypeOK'
    BY <1>0, <1>1, <2>1, <2>b DEF HookTypeOK
  <2>4. StylesApart' /\ ChannelsAreMade' /\ StopUnderWay
    BY <1>0, <1>1, <2>1, <2>2 DEF StylesApart, ChannelsAreMade, StopUnderWay
  <2>5. ASSUME ~overtaken'
        PROVE  /\ OneCallOfEach' /\ StartsFromNothing' /\ RunsOnCurrent' /\ UpHasOwner'
               /\ FactoryHooks' /\ FactoryCanClose' /\ (hookPanic' => hookStyle' = "crd")
    <3>1. /\ ~overtaken /\ ~hookStarted
          /\ hookStopCh # NilCh /\ hookStopCh \notin closedCh
      BY <1>0, <1>1, <2>1, <2>4, <2>5 DEF FactoryCanClose, OneCallOfEach
    <3>2. ~StopUnderWay'
      BY <1>0, <2>1, <2>2, <3>1 DEF OneCallOfEach, StopUnderWay
    <3>3. NoneRuns' /\ \A j \in Calls : ~Running(j)'
      BY <1>0, <2>1, <3>1 DEF NoneRuns, Running, RunsOnCurrent
    <3>4. OneCallOfEach'
      BY <1>0, <1>1, <2>1, <2>2, <3>1, <3>2 DEF OneCallOfEach
    <3>5. StartsFromNothing'
      BY <1>0, <1>1, <2>1, <3>1, <3>3 DEF StartsFromNothing
    <3>6. RunsOnCurrent' /\ UpHasOwner'
      BY <1>1, <2>1, <3>3 DEF RunsOnCurrent, UpHasOwner
    <3>7. FactoryHooks' /\ FactoryCanClose'
      BY <1>0, <1>1, <2>1, <3>1, <3>2 DEF FactoryHooks, FactoryCanClose
    <3> QED  BY <1>0, <1>1, <2>1, <3>1, <3>4, <3>5, <3>6, <3>7
  <2> QED  BY <2>3, <2>4, <2>5 DEF HInv
<1> QED
  BY <1>2, <1>3, <1>4, <1>5

(* The wait for the sync, of either style.                                 *)
LEMMA WaitSteps ==
  ASSUME HInv, NEW k \in Calls, InformerSyncs(k) \/ WaitForCacheSync(k)
  PROVE  HInv'
<1> USE ChannelFacts
<1>0. /\ HookTypeOK /\ StylesApart /\ ChannelsAreMade
      /\ ~overtaken => /\ OneCallOfEach /\ StartsFromNothing /\ RunsOnCurrent /\ UpHasOwner
                       /\ FactoryHooks /\ FactoryCanClose
                       /\ hookPanic => hookStyle = "crd"
  BY DEF HInv
<1>1. /\ UNCHANGED <<hookStyle, hookStarted, hookCtx, cancelledCtx, overtaken, stopAt, hookStopCh,
                     closedCh, informerUp, informerCh, waitCh, hookPanic>>
      /\ \A j \in Calls : Running(j)' <=> Running(j)
      /\ StopUnderWay' <=> StopUnderWay
  BY DEF InformerSyncs, WaitForCacheSync, BaseUnchanged, Running, StopUnderWay
<1>n. NoneRuns' <=> NoneRuns
  BY <1>1 DEF NoneRuns
<1>2. CASE InformerSyncs(k)
  <2>1. UNCHANGED startAt /\ informerSync' = informerSync \union {k}
    BY <1>2 DEF InformerSyncs
  <2>2. HookTypeOK'
    BY <1>0, <1>1, <2>1 DEF HookTypeOK
  <2>3. StylesApart' /\ ChannelsAreMade'
    BY <1>0, <1>1, <2>1 DEF StylesApart, ChannelsAreMade
  <2>4. ASSUME ~overtaken'
        PROVE  /\ OneCallOfEach' /\ StartsFromNothing' /\ RunsOnCurrent' /\ UpHasOwner'
               /\ FactoryHooks' /\ FactoryCanClose' /\ (hookPanic' => hookStyle' = "crd")
    <3>1. OneCallOfEach' /\ StartsFromNothing'
      BY <1>0, <1>1, <1>n, <2>1, <2>4 DEF OneCallOfEach, StartsFromNothing
    <3>2. RunsOnCurrent' /\ UpHasOwner'
      BY <1>0, <1>1, <2>1, <2>4 DEF RunsOnCurrent, UpHasOwner
    <3>3. FactoryHooks' /\ FactoryCanClose'
      BY <1>0, <1>1, <2>1, <2>4 DEF FactoryHooks, FactoryCanClose
    <3> QED  BY <1>0, <1>1, <2>4, <3>1, <3>2, <3>3
  <2> QED  BY <2>2, <2>3, <2>4 DEF HInv
<1>3. CASE WaitForCacheSync(k)
  <2>1. /\ startAt[k] = "waiting" /\ UNCHANGED informerSync
        /\ \/ startAt' = [startAt EXCEPT ![k] = "ended"]
           \/ /\ hookStyle = "factory" /\ waitCh[k] \in closedCh
              /\ startAt' = [startAt EXCEPT ![k] = "failing"]
           \/ hookStyle = "crd" /\ startAt' = [startAt EXCEPT ![k] = "stopping"]
    BY <1>0, <1>3 DEF WaitForCacheSync, WaitEnds, HookTypeOK
  <2>2. PICK to \in {"ended", "failing", "stopping"} :
          /\ startAt' = [startAt EXCEPT ![k] = to]
          /\ to = "failing" => hookStyle = "factory" /\ waitCh[k] \in closedCh
          /\ to = "stopping" => hookStyle = "crd"
    BY <2>1
  <2>3. \A j \in Calls : startAt'[j] = IF j = k THEN to ELSE startAt[j]
    BY <1>0, <2>2 DEF HookTypeOK
  <2>4. HookTypeOK'
    BY <1>0, <1>1, <2>1, <2>2 DEF HookTypeOK
  <2>5. StylesApart' /\ ChannelsAreMade'
    BY <1>0, <1>1, <2>1, <2>2, <2>3 DEF StylesApart, ChannelsAreMade
  <2>6. ASSUME ~overtaken'
        PROVE  /\ OneCallOfEach' /\ StartsFromNothing' /\ RunsOnCurrent' /\ UpHasOwner'
               /\ FactoryHooks' /\ FactoryCanClose' /\ (hookPanic' => hookStyle' = "crd")
    <3>1. ~overtaken
      BY <1>1, <2>6
    <3>2. \A j \in Calls : j # k => startAt'[j] \in {"no", "ended"}
      BY <1>0, <2>1, <2>3, <3>1 DEF OneCallOfEach
    <3>3. to = "failing" => NoneRuns
      BY <1>0, <2>1, <2>2, <3>1 DEF FactoryHooks, RunsOnCurrent, NoneRuns, Running
    <3>4. OneCallOfEach'
      BY <1>0, <1>1, <3>1, <3>2 DEF OneCallOfEach
    <3>5. StartsFromNothing'
      BY <1>1, <1>n, <2>2, <2>3, <3>2, <3>3 DEF StartsFromNothing
    <3>6. RunsOnCurrent' /\ UpHasOwner'
      BY <1>0, <1>1, <3>1 DEF RunsOnCurrent, UpHasOwner
    <3>7. FactoryHooks'
      BY <2>2, <2>3, <3>2 DEF FactoryHooks
    <3>8. FactoryCanClose'
      BY <1>0, <1>1, <2>1, <2>3, <3>1, <3>2 DEF FactoryCanClose, OneCallOfEach
    <3> QED  BY <1>0, <1>1, <3>1, <3>4, <3>5, <3>6, <3>7, <3>8
  <2> QED  BY <2>4, <2>5, <2>6 DEF HInv
<1> QED
  BY <1>2, <1>3

(* The hooks of the CRD collector.                                         *)
LEMMA CrdSteps ==
  ASSUME HInv, NEW k \in Calls, InformerStart(k) \/ InformerStopChecks(k) \/ InformerStop(k)
  PROVE  HInv'
<1> USE ChannelFacts
<1>0. /\ HookTypeOK /\ StylesApart /\ ChannelsAreMade
      /\ ~overtaken => /\ OneCallOfEach /\ StartsFromNothing /\ RunsOnCurrent /\ UpHasOwner
                       /\ FactoryHooks /\ FactoryCanClose
                       /\ hookPanic => hookStyle = "crd"
  BY DEF HInv
<1>1. /\ UNCHANGED <<hookStyle, hookStarted, hookCtx, cancelledCtx, overtaken, waitCh,
                     informerSync>>
      /\ hookStyle = "crd"
  BY <1>0 DEF InformerStart, InformerStopChecks, InformerStop, BaseUnchanged, StylesApart
<1>f. FactoryHooks' /\ FactoryCanClose'
  BY <1>1 DEF FactoryHooks, FactoryCanClose
<1>2. CASE InformerStart(k)
  <2>1. /\ startAt[k] = "entered" /\ UNCHANGED <<stopAt, closedCh, hookPanic>>
        /\ StopUnderWay' <=> StopUnderWay
    BY <1>2 DEF InformerStart, StopUnderWay
  <2>2. CASE informerUp
    <3>1. startAt' = [startAt EXCEPT ![k] = "failing"]
          /\ UNCHANGED <<hookStopCh, informerUp, informerCh>>
      BY <1>2, <2>2 DEF InformerStart
    <3>2. \A j \in Calls : startAt'[j] = IF j = k THEN "failing" ELSE startAt[j]
      BY <1>0, <3>1 DEF HookTypeOK
    <3>3. HookTypeOK'
      BY <1>0, <1>1, <2>1, <3>1 DEF HookTypeOK
    <3>4. StylesApart' /\ ChannelsAreMade'
      BY <1>0, <1>1, <2>1, <3>1, <3>2 DEF StylesApart, ChannelsAreMade
    <3>5. overtaken'
      BY <1>0, <1>1, <2>1, <2>2 DEF StartsFromNothing
    <3> QED  BY <3>3, <3>4, <3>5 DEF HInv
  <2>3. CASE ~informerUp
    <3>1. /\ hookStopCh' = k /\ informerUp'
          /\ informerCh' = [informerCh EXCEPT ![k] = k]
          /\ startAt' = [startAt EXCEPT ![k] = "waiting"]
      BY <1>2, <2>3 DEF InformerStart
    <3>b. informerUp' \in BOOLEAN
      BY <1>2, <2>3, Zenon DEF InformerStart
    <3>2. /\ \A j \in Calls : startAt'[j] = IF j = k THEN "waiting" ELSE startAt[j]
          /\ \A j \in Calls : informerCh'[j] = IF j = k THEN k ELSE informerCh[j]
      BY <1>0, <3>1 DEF HookTypeOK
    <3>3. HookTypeOK'
      BY <1>0, <1>1, <2>1, <3>1, <3>b DEF HookTypeOK
    <3>4. StylesApart' /\ ChannelsAreMade'
      BY <1>0, <1>1, <2>1, <3>1, <3>2 DEF StylesApart, ChannelsAreMade
    <3>5. ASSUME ~overtaken'
          PROVE  OneCallOfEach' /\ StartsFromNothing' /\ RunsOnCurrent' /\ UpHasOwner'
      <4>1. ~overtaken /\ hookStarted /\ NoneRuns
        BY <1>0, <1>1, <2>1, <3>5 DEF StartsFromNothing
      <4>2. \A j \in Calls : j # k => startAt'[j] \in {"no", "ended"}
        BY <1>0, <2>1, <3>2, <4>1 DEF OneCallOfEach
      <4>3. OneCallOfEach'
        BY <1>0, <1>1, <2>1, <4>1, <4>2 DEF OneCallOfEach
      <4>4. StartsFromNothing'
        BY <3>2, <4>2 DEF StartsFromNothing
      <4>5. \A j \in Calls : Running(j)' => j = k
        BY <2>1, <3>2, <4>1 DEF NoneRuns, Running
      <4>6. RunsOnCurrent' /\ UpHasOwner'
        BY <1>1, <3>1, <3>2, <4>1, <4>5 DEF RunsOnCurrent, UpHasOwner
      <4> QED  BY <4>3, <4>4, <4>6
    <3> QED  BY <1>1, <1>f, <3>3, <3>4, <3>5 DEF HInv
  <2> QED  BY <2>2, <2>3
<1>3. CASE InformerStopChecks(k)
  <2>1. UNCHANGED <<hookStopCh, closedCh, informerUp, informerCh, hookPanic>>
        /\ \A j \in Calls : Running(j)' <=> Running(j)
    BY <1>3 DEF InformerStopChecks, Running
  <2>n. NoneRuns' <=> NoneRuns
    BY <2>1 DEF NoneRuns
  <2>2. CASE stopAt[k] = "entered" /\ UNCHANGED startAt
             /\ stopAt' = [stopAt EXCEPT ![k] = IF informerUp THEN "closing" ELSE "ended"]
    <3>1. \A j \in Calls :
            stopAt'[j] = IF j = k THEN (IF informerUp THEN "closing" ELSE "ended")
                                  ELSE stopAt[j]
      BY <1>0, <2>2 DEF HookTypeOK
    <3>2. HookTypeOK'
      BY <1>0, <1>1, <2>1, <2>2 DEF HookTypeOK
    <3>3. StylesApart' /\ ChannelsAreMade' /\ StopUnderWay /\ (informerUp => StopUnderWay')
      BY <1>0, <1>1, <2>1, <2>2, <3>1 DEF StylesApart, ChannelsAreMade, StopUnderWay
    <3>4. ASSUME ~overtaken'
          PROVE  OneCallOfEach' /\ StartsFromNothing' /\ RunsOnCurrent' /\ UpHasOwner'
      <4>1. ~overtaken /\ ~hookStarted
        BY <1>0, <1>1, <3>3, <3>4 DEF OneCallOfEach
      <4>2. OneCallOfEach'
        BY <1>0, <1>1, <2>2, <3>1, <4>1 DEF OneCallOfEach
      <4>3. StartsFromNothing'
        BY <1>0, <1>1, <2>1, <2>n, <2>2, <4>1 DEF StartsFromNothing
      <4>4. RunsOnCurrent' /\ UpHasOwner'
        BY <1>0, <1>1, <2>1, <3>3, <4>1 DEF RunsOnCurrent, UpHasOwner
      <4> QED  BY <4>2, <4>3, <4>4
    <3> QED  BY <1>1, <1>f, <3>2, <3>3, <3>4 DEF HInv
  <2>3. CASE startAt[k] = "stopping" /\ UNCHANGED stopAt
             /\ startAt' = [startAt EXCEPT ![k] = IF informerUp THEN "closing" ELSE "failing"]
    <3>1. \A j \in Calls :
            startAt'[j] = IF j = k THEN (IF informerUp THEN "closing" ELSE "failing")
                                   ELSE startAt[j]
      BY <1>0, <2>3 DEF HookTypeOK
    <3>2. HookTypeOK'
      BY <1>0, <1>1, <2>1, <2>3 DEF HookTypeOK
    <3>3. StylesApart' /\ ChannelsAreMade' /\ (StopUnderWay' <=> StopUnderWay)
      BY <1>0, <1>1, <2>1, <2>3, <3>1 DEF StylesApart, ChannelsAreMade, StopUnderWay
    <3>4. ASSUME ~overtaken'
          PROVE  OneCallOfEach' /\ StartsFromNothing' /\ RunsOnCurrent' /\ UpHasOwner'
      <4>1. ~overtaken /\ (~informerUp => NoneRuns)
        BY <1>0, <1>1, <3>4 DEF RunsOnCurrent, NoneRuns
      <4>2. \A j \in Calls : j # k => startAt'[j] \in {"no", "ended"}
        BY <1>0, <2>3, <3>1, <4>1 DEF OneCallOfEach
      <4>3. OneCallOfEach'
        BY <1>0, <1>1, <2>3, <3>3, <4>1, <4>2 DEF OneCallOfEach
      <4>4. StartsFromNothing'
        BY <1>1, <2>1, <2>n, <3>1, <4>1, <4>2 DEF StartsFromNothing
      <4>5. RunsOnCurrent' /\ UpHasOwner'
        BY <1>0, <1>1, <2>1, <3>3, <4>1 DEF RunsOnCurrent, UpHasOwner
      <4> QED  BY <4>3, <4>4, <4>5
    <3> QED  BY <1>1, <1>f, <3>2, <3>3, <3>4 DEF HInv
  <2> QED  BY <1>3, <2>2, <2>3 DEF InformerStopChecks
<1>4. CASE InformerStop(k)
  <2>1. /\ hookPanic' = (hookPanic \/ hookStopCh \in closedCh \union {NilCh})
        /\ closedCh' = closedCh \union ({hookStopCh} \ {NilCh})
        /\ hookStopCh' = NilCh /\ ~informerUp' /\ UNCHANGED informerCh
    BY <1>4 DEF InformerStop, CloseStopCh
  <2>b. hookPanic' \in BOOLEAN /\ informerUp' \in BOOLEAN
    BY <1>4, Zenon DEF InformerStop, CloseStopCh
  <2>2. \/ /\ stopAt[k] = "closing"
           /\ stopAt' = [stopAt EXCEPT ![k] = "ended"] /\ UNCHANGED startAt
        \/ /\ startAt[k] = "closing"
           /\ startAt' = [startAt EXCEPT ![k] = "failing"] /\ UNCHANGED stopAt
    BY <1>4 DEF InformerStop
  <2>3. \A j \in Calls :
          /\ \/ startAt'[j] = startAt[j]
             \/ startAt'[j] = "failing" /\ startAt[j] = "closing"
          /\ stopAt'[j] \in {stopAt[j], "ended"}
    <3>1. CASE UNCHANGED startAt /\ stopAt' = [stopAt EXCEPT ![k] = "ended"]
      BY <1>0, <3>1 DEF HookTypeOK
    <3>2. CASE startAt[k] = "closing" /\ UNCHANGED stopAt
               /\ startAt' = [startAt EXCEPT ![k] = "failing"]
      BY <1>0, <3>2 DEF HookTypeOK
    <3> QED  BY <2>2, <3>1, <3>2
  <2>4. HookTypeOK'
    <3>1. closedCh' \subseteq Calls \union {0}
      BY <1>0, <2>1 DEF HookTypeOK
    <3> QED  BY <1>0, <1>1, <2>1, <2>b, <2>2, <3>1 DEF HookTypeOK
  <2>5. StylesApart' /\ ChannelsAreMade'
    <3>1. StylesApart'
      BY <1>0, <1>1, <2>3 DEF StylesApart
    <3>2. ChannelsAreMade'
      BY <1>0, <2>1, <2>3 DEF ChannelsAreMade
    <3> QED  BY <3>1, <3>2
  <2>6. ASSUME ~overtaken'
        PROVE  OneCallOfEach' /\ StartsFromNothing' /\ RunsOnCurrent' /\ UpHasOwner'
    <3>1. ~overtaken
      BY <1>1, <2>6
    <3>2. NoneRuns' /\ \A j \in Calls : ~Running(j)'
      BY <1>0, <2>1, <3>1 DEF NoneRuns, Running, RunsOnCurrent
    <3>3. StopUnderWay' => StopUnderWay
      BY <2>3 DEF StopUnderWay
    <3>4. OneCallOfEach'
      BY <1>0, <1>1, <2>3, <3>1, <3>3 DEF OneCallOfEach
    <3>5. StartsFromNothing'
      BY <1>0, <1>1, <2>1, <2>3, <3>1, <3>2 DEF StartsFromNothing
    <3>6. RunsOnCurrent' /\ UpHasOwner'
      BY <2>1, <3>2 DEF RunsOnCurrent, UpHasOwner
    <3> QED  BY <3>4, <3>5, <3>6
  <2> QED  BY <1>1, <1>f, <2>4, <2>5, <2>6 DEF HInv
<1> QED
  BY <1>2, <1>3, <1>4

(* Every step keeps the invariant.                                         *)
LEMMA HookNextInv == HInv /\ [HookNext]_hookVars => HInv'
<1> SUFFICES ASSUME HInv, [HookNext]_hookVars PROVE HInv'
  OBVIOUS
<1>1. CASE HookNext
  BY <1>1, BaseSteps, FactorySteps, WaitSteps, CrdSteps DEF HookNext
<1>2. CASE UNCHANGED hookVars
  <2>1. UNCHANGED <<hookStyle, hookStarted, hookCtx, cancelledCtx, startAt, stopAt, hookStopCh,
                    closedCh, informerUp, informerCh, waitCh, informerSync, overtaken, hookPanic>>
    BY <1>2 DEF hookVars
  <2> QED
    BY <2>1 DEF HInv, HookTypeOK, StylesApart, ChannelsAreMade, OneCallOfEach, StopUnderWay,
                StartsFromNothing, RunsOnCurrent, NoneRuns, Running, UpHasOwner, FactoryHooks,
                FactoryCanClose
<1> QED
  BY <1>1, <1>2

(* What the calls of the hooks keep is of its type.                        *)
THEOREM HookTypeCorrect == HookSpec => []HookTypeOK
<1>1. HInv => HookTypeOK
  BY DEF HInv
<1> QED
  BY <1>1, HookInitInv, HookNextInv, PTL DEF HookSpec

(* For any number of calls of Start and Stop: as long as the calls come in *)
(* the order of their hooks, a stopped collector leaves no informer        *)
(* behind, and only the CRD collector's Informer.Stop can close a channel  *)
(* twice (imagepull.go, node.go, zombie.go and informer/informer.go, OnStart   *)
(* and OnStop).                                                            *)
THEOREM StopsEndInformers == HookSpec => []StopEndsInformers
<1>1. HInv => StopEndsInformers
  BY DEF HInv, StopEndsInformers, RunsOnCurrent, StopUnderWay, HooksAtRest, InFlight
<1> QED
  BY <1>1, HookInitInv, HookNextInv, PTL DEF HookSpec
=============================================================================
