----------------------------- MODULE ImagePull -----------------------------
(***************************************************************************)
(* The image pull collector (pkg/collector/imagepull): what the pod        *)
(* informer's handlers and the slow pull timers keep about the pulls of a  *)
(* container.  The handlers run in the order of the informer, which lags   *)
(* behind the API server; a timer's callback asks the API server itself,   *)
(* and Stop does not stop a callback that already waits for the lock.      *)
(***************************************************************************)
EXTENDS Naturals, Sequences, FiniteSets, SequencesExt

CONSTANTS
  Containers,   \* namespace/pod/container keys, each of a pod of its own
  MaxChanges,   \* bound: how often the pods change
  Timers        \* bound: the timers that may exist at a time

ASSUME ChangesAssumption == MaxChanges \in Nat

VARIABLES
  podApi,       \* the pod of a container, at the API server
  podEvents,    \* the versions the informer has not delivered
  podChanges,   \* counts the changes of the pods
  pullFailures, \* c.failures
  slowPulls,    \* c.slowPulls
  slowTimers,   \* c.slowTimers: the timer under each key, or "none"
  pullTimer,    \* the timers themselves, the forgotten ones too
  waitSpell     \* history: the handled versions since a container began to wait

pullVars == <<podApi, podEvents, podChanges, pullFailures, slowPulls,
              slowTimers, pullTimer, waitSpell>>

(* What a container status can be: there is none yet, waiting in
   ContainerCreating (with a back-off message too), waiting for a pull that
   failed for a reason the classifier tells apart, or anything else. *)
Statuses == {"none", "creating", "creatingBackOff", "notFound", "unknown",
             "backOff", "running"}
Gone     == [up |-> FALSE, node |-> FALSE, public |-> FALSE, status |-> "none"]
Pods     == [up : {TRUE}, node : BOOLEAN, public : BOOLEAN, status : Statuses]

isImagePullFailure(s)  == s \in {"notFound", "unknown", "backOff"}
isSlowPullCandidate(s) == s = "creating"
isSpecificReason(r)    == r \notin {"backOff", "unknown"}

NoFailure == [reason |-> "none", public |-> FALSE]
Quiet     == [at |-> "off", key |-> "none", first |-> FALSE]
NoSlow    == [on |-> FALSE, first |-> FALSE]

PullTypeOK ==
  /\ podApi \in [Containers -> Pods \union {Gone}]
  /\ podEvents \in [Containers -> SeqOf(Pods \union {Gone}, 2)]
  /\ podChanges \in 0..MaxChanges
  /\ pullFailures \in [Containers -> [reason : {"none", "notFound", "unknown",
                                                "backOff"}, public : BOOLEAN]]
  /\ slowPulls \in [Containers -> [on : BOOLEAN, first : BOOLEAN]]
  /\ slowTimers \in [Containers -> Timers \union {"none"}]
  /\ pullTimer \in [Timers -> [at : {"off", "armed", "fired"},
                               key : Containers \union {"none"},
                               first : BOOLEAN]]
  /\ waitSpell \in [Containers -> 0..2]

PullInit ==
  /\ podApi = [k \in Containers |-> Gone]
  /\ podEvents = [k \in Containers |-> <<>>]
  /\ podChanges = 0
  /\ pullFailures = [k \in Containers |-> NoFailure]
  /\ slowPulls = [k \in Containers |-> NoSlow]
  /\ slowTimers = [k \in Containers |-> "none"]
  /\ pullTimer = [t \in Timers |-> Quiet]
  /\ waitSpell = [k \in Containers |-> 0]

-----------------------------------------------------------------------------
(* A pod is created, scheduled, changes its status, or is deleted.  Node and
   image of a pod stay what they are. *)
PodChanges(k, v) ==
  /\ podChanges < MaxChanges
  /\ Len(podEvents[k]) < 2
  /\ v # podApi[k]
  /\ v.up => /\ v.status # "none" => v.node
             /\ podApi[k].up => /\ v.public = podApi[k].public
                                /\ podApi[k].node => v.node
                                /\ podApi[k].status # "none" => v.status # "none"
             /\ ~podApi[k].up => v.status = "none"
  /\ podApi' = [podApi EXCEPT ![k] = v]
  /\ podEvents' = [podEvents EXCEPT ![k] = Append(@, v)]
  /\ podChanges' = podChanges + 1
  /\ UNCHANGED <<pullFailures, slowPulls, slowTimers, pullTimer, waitSpell>>

(* After a lost watch the informer lists: it delivers the newest version only. *)
Relisted(k) ==
  /\ Len(podEvents[k]) = 2
  /\ podEvents' = [podEvents EXCEPT ![k] = <<Last(@)>>]
  /\ UNCHANGED <<podApi, podChanges, pullFailures, slowPulls, slowTimers,
                 pullTimer, waitSpell>>

(* cleanupSlowPull.  A timer that has fired is not stopped. *)
Stopped(t) == IF pullTimer[t].at = "armed" THEN Quiet ELSE pullTimer[t]

cleanupSlowPull(k) ==
  /\ slowPulls' = [slowPulls EXCEPT ![k] = NoSlow]
  /\ slowTimers' = [slowTimers EXCEPT ![k] = "none"]
  /\ pullTimer' = IF slowTimers[k] = "none" THEN pullTimer
                  ELSE [pullTimer EXCEPT ![slowTimers[k]] = Stopped(slowTimers[k])]
  /\ waitSpell' = [waitSpell EXCEPT ![k] = 0]

(* checkSlowPull: at most one timer under a key, whatever is recorded. *)
checkSlowPull(k) ==
  /\ IF slowTimers[k] # "none"
     THEN UNCHANGED <<slowTimers, pullTimer>>
     ELSE \E t \in Timers :
            /\ pullTimer[t].at = "off"
            /\ slowTimers' = [slowTimers EXCEPT ![k] = t]
            /\ pullTimer' = [pullTimer EXCEPT
                 ![t] = [at |-> "armed", key |-> k, first |-> waitSpell[k] = 0]]
  /\ waitSpell' = [waitSpell EXCEPT ![k] = IF @ = 2 THEN 2 ELSE @ + 1]
  /\ UNCHANGED slowPulls

(* A back-off keeps the root cause that is already known of the same image. *)
Reason(k, v) ==
  IF /\ v.status = "backOff"
     /\ pullFailures[k].reason # "none" /\ isSpecificReason(pullFailures[k].reason)
     /\ pullFailures[k].public = v.public
  THEN pullFailures[k].reason
  ELSE v.status

processPod(k, v) ==
  CASE ~v.node \/ v.status = "none" ->
         UNCHANGED <<pullFailures, slowPulls, slowTimers, pullTimer, waitSpell>>
    [] v.node /\ isImagePullFailure(v.status) /\ v.public ->
         /\ pullFailures' = [pullFailures EXCEPT
              ![k] = [reason |-> Reason(k, v), public |-> v.public]]
         /\ cleanupSlowPull(k)
    [] OTHER ->
         /\ pullFailures' = [pullFailures EXCEPT ![k] = NoFailure]
         /\ IF isSlowPullCandidate(v.status) THEN checkSlowPull(k)
                                             ELSE cleanupSlowPull(k)

HandlePod(k) ==
  /\ podEvents[k] # <<>> /\ Head(podEvents[k]).up
  /\ podEvents' = [podEvents EXCEPT ![k] = Tail(@)]
  /\ processPod(k, Head(podEvents[k]))
  /\ UNCHANGED <<podApi, podChanges>>

handlePodDelete(k) ==
  /\ podEvents[k] # <<>> /\ ~Head(podEvents[k]).up
  /\ podEvents' = [podEvents EXCEPT ![k] = Tail(@)]
  /\ pullFailures' = [pullFailures EXCEPT ![k] = NoFailure]
  /\ cleanupSlowPull(k)
  /\ UNCHANGED <<podApi, podChanges>>

(* The informer resyncs: every pod it knows is an update of itself. *)
Resync(k) ==
  /\ podEvents[k] = <<>> /\ podApi[k].up
  /\ processPod(k, podApi[k])
  /\ UNCHANGED <<podApi, podEvents, podChanges>>

TimerExpires(t) ==
  /\ pullTimer[t].at = "armed"
  /\ pullTimer' = [pullTimer EXCEPT ![t].at = "fired"]
  /\ UNCHANGED <<podApi, podEvents, podChanges, pullFailures, slowPulls,
                 slowTimers, waitSpell>>

(* The callback: it forgets the timer under its key, which may be another one
   by now, and records a slow pull unless the API server says otherwise (or
   nothing). *)
SlipHandleSlowPullTimer(t) ==
  /\ pullTimer[t].at = "fired"
  /\ LET k == pullTimer[t].key
     IN /\ slowTimers' = [slowTimers EXCEPT ![k] = "none"]
        /\ slowPulls' = [slowPulls EXCEPT ![k] = [on |-> TRUE, first |-> TRUE]]
  /\ pullTimer' = [pullTimer EXCEPT ![t] = Quiet]
  /\ UNCHANGED <<podApi, podEvents, podChanges, pullFailures, waitSpell>>

handleSlowPullTimer(t) ==
  /\ pullTimer[t].at = "fired"
  /\ LET k == pullTimer[t].key
     IN /\ slowTimers' = [slowTimers EXCEPT ![k] = "none"]
        /\ \/ UNCHANGED slowPulls
           \/ /\ isSlowPullCandidate(podApi[k].status)
              /\ slowPulls' = [slowPulls EXCEPT
                   ![k] = [on |-> TRUE, first |-> pullTimer[t].first]]
  /\ pullTimer' = [pullTimer EXCEPT ![t] = Quiet]
  /\ UNCHANGED <<podApi, podEvents, podChanges, pullFailures, waitSpell>>

PullNext ==
  \/ \E k \in Containers :
       \/ \E v \in Pods \union {Gone} : PodChanges(k, v)
       \/ Relisted(k) \/ HandlePod(k) \/ handlePodDelete(k) \/ Resync(k)
  \/ \E t \in Timers : TimerExpires(t) \/ handleSlowPullTimer(t)

PullSpec == PullInit /\ [][PullNext]_pullVars

-----------------------------------------------------------------------------
(* What a scrape shows of a container. *)
pullCollect(k) == [failure |-> pullFailures[k].reason, slow |-> slowPulls[k].on]

(* Once the informer has delivered everything about a container, what a scrape
   shows of it is what its pod says, whichever callbacks of replaced or stopped
   timers are still to come: a failure exactly when the pull fails, with the
   pod's own reason or the root cause a back-off hides; a slow pull only while
   the container waits.  A pod without a node or a status says nothing. *)
PullsMirrorPods ==
  \A k \in Containers :
    LET v == podApi[k]
        f == pullCollect(k).failure
    IN podEvents[k] = <<>> /\ (~v.up \/ v.status # "none") =>
         /\ f # "none" <=> (isImagePullFailure(v.status) /\ v.public)
         /\ f \notin {"none", v.status} => v.status = "backOff" /\ isSpecificReason(f)
         /\ pullCollect(k).slow => isSlowPullCandidate(v.status)

(* The duration of a slow pull counts from the first time the container was
   seen waiting (imagepull.go:71, "Current slow image pull duration in
   seconds"): the recorded start is that of the timer armed then. *)
DurationSinceFirstSeen ==
  \A k \in Containers : slowPulls[k].on => slowPulls[k].first
=============================================================================
