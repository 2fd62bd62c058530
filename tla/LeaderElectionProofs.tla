------------------------ MODULE LeaderElectionProofs ------------------------
(***************************************************************************)
(* What TLAPS proves of LeaderElection, for every set of pods, every       *)
(* number of reloads and process starts, and all durations that Validate   *)
(* accepts.                                                                *)
(*                                                                         *)
(* The argument has two halves.  Between pods it is about time: a leader   *)
(* has renewed at most RetryPeriod + RenewDeadline ago, so if that is less *)
(* than LeaseDuration, nobody else may have taken the Lease from it.       *)
(* Within a pod it is about waiting: an elector that Run has not left is   *)
(* the one in the handle map or the one Reload waits for, so a new elector *)
(* is not launched before the old one is done.                             *)
(***************************************************************************)
EXTENDS LeaderElection, TLAPS

Busy(p, g) == elector[p][g] \notin {"none", "done"}
Past(p, g) == elector[p][g] \in {"leading", "lost"}

(* A dead pod holds nothing in memory.                                     *)
DeadIsEmpty ==
  \A p \in Pods : ~alive[p] =>
    /\ reload[p] = "idle"
    /\ term[p] = "no"
    /\ on[p] = {}
    /\ plainOn[p] = {}
    /\ \A g \in Inst : elector[p][g] = "none" /\ starting[p][g] = "none"

(* A live pod has an instance, and Reload room for the next one.           *)
AliveHasInstance ==
  \A p \in Pods : alive[p] =>
    /\ inst[p] \in Inst
    /\ reload[p] = "stopping" => inst[p] < MaxInst

(* Who leads renewed in time, or will have given up by then.               *)
LeaderInTime ==
  \A p \in Pods, g \in Inst :
    Leads(p, g) => SinceRenewal(p) <= RetryPeriod + RenewDeadline

(* Until SIGTERM, at most one elector of a pod is in Run.                  *)
OneBusy ==
  \A p \in Pods, g \in Inst :
    term[p] = "no" /\ Busy(p, g) =>
      \/ g = handle[p] /\ le[p] /\ reload[p] = "idle"
      \/ g = awaiting[p]["reload"] /\ reload[p] = "stopping"

(* After it, at most one of them holds the Lease ...                       *)
OnePast ==
  \A p \in Pods : \A g, h \in Inst : Past(p, g) /\ Past(p, h) => g = h

(* ... and somebody will wait for it.                                      *)
PastIsTracked ==
  \A p \in Pods, g \in Inst :
    Past(p, g) =>
      \/ g = handle[p] /\ le[p] /\ reload[p] = "idle" /\ term[p] # "stopping"
      \/ g = awaiting[p]["reload"] /\ reload[p] = "stopping"
      \/ g = awaiting[p]["shutdown"] /\ term[p] = "stopping"

(* The electors of instances to come have not been launched.               *)
FutureElectors ==
  \A p \in Pods, g \in Inst :
    g > inst[p] \/ (g = inst[p] /\ reload[p] = "starting") => elector[p][g] = "none"

(* An elector that has not acquired has called nobody back.                *)
FreshElectors ==
  \A p \in Pods, g \in Inst :
    elector[p][g] \in {"none", "acquiring"} =>
      /\ starting[p][g] = "none"
      /\ \A i \in on[p] : ctx[p][i] # g

(* No instance to come is started; the current one was started by the      *)
(* server itself only where leader election is disabled.                   *)
StartedInstances ==
  \A p \in Pods :
    /\ \A i \in on[p] : i <= inst[p]
    /\ term[p] = "no" /\ inst[p] \in on[p] /\ ctx[p][inst[p]] = NoInst =>
         ~le[p] /\ reload[p] # "starting"

(* A done elector has stopped the current instance, unless its start of it *)
(* came later.                                                             *)
DoneStopped ==
  \A p \in Pods : \A i \in on[p] :
    i = inst[p] /\ ctx[p][i] # NoInst /\ elector[p][ctx[p][i]] = "done"
      => starting[p][ctx[p][i]] = "late"

Shape == TypeOK /\ DeadIsEmpty /\ AliveHasInstance
Electors == LeaderInTime /\ OneBusy /\ OnePast /\ PastIsTracked /\ FutureElectors
Instances ==
  FreshElectors /\ StartedInstances /\ DoneStopped /\ OnlyCurrentInstanceRuns

IInv == Shape /\ Electors /\ Instances

-----------------------------------------------------------------------------
USE NoPodAssumption, BoundsAssumption, ModesAssumption, TimingAssumption
    DEF Inst, NoInst, ElectorState, CallbackState, lease, server, callbacks, collectors

(* What the parts of the server's actions do to the types.                 *)
LEMMA TakeHandlesType ==
  ASSUME TypeOK, NEW p \in Pods, NEW t \in {"reload", "shutdown"}, TakeHandles(p, t)
  PROVE  /\ handle' \in [Pods -> Inst \cup {NoInst}]
         /\ awaiting' \in [Pods -> [{"reload", "shutdown"} -> Inst \cup {NoInst}]]
         /\ cancelReq' \in [Pods -> SUBSET Inst]
<1>1. handle[p] \in Inst \cup {NoInst}
  BY DEF TypeOK
<1>2. awaiting' \in [Pods -> [{"reload", "shutdown"} -> Inst \cup {NoInst}]]
  BY <1>1 DEF TypeOK, TakeHandles
<1>3. cancelReq' \in [Pods -> SUBSET Inst]
  BY <1>1 DEF TypeOK, TakeHandles, CancelAll
<1>4. handle' \in [Pods -> Inst \cup {NoInst}]
  BY DEF TypeOK, TakeHandles
<1> QED
  BY <1>2, <1>3, <1>4

LEMMA StartInstanceType ==
  ASSUME TypeOK, NEW p \in Pods, NEW i \in Inst, NEW c \in Inst \cup {NoInst}, StartInstance(p, i, c)
  PROVE  on' \in [Pods -> SUBSET Inst] /\ ctx' \in [Pods -> [Inst -> Inst \cup {NoInst}]]
<1>1. CASE UNCHANGED <<on, ctx>>
  BY <1>1 DEF TypeOK
<1>2. CASE /\ on' = [on EXCEPT ![p] = @ \cup {i}]
             /\ ctx' = [ctx EXCEPT ![p][i] = c]
  <2>1. on' \in [Pods -> SUBSET Inst]
    BY <1>2 DEF TypeOK
  <2>2. ctx' \in [Pods -> [Inst -> Inst \cup {NoInst}]]
    BY <1>2 DEF TypeOK
  <2> QED
  BY <2>1, <2>2
<1> QED
  BY <1>1, <1>2 DEF StartInstance

LEMMA StartAnyType ==
  ASSUME TypeOK, NEW p \in Pods, NEW i \in Inst,
         \/ StartAll(p, i) \/ StartPlainAndElect(p, i) \/ StartPlainOnly(p, i)
  PROVE  /\ plainOn' \in [Pods -> SUBSET Inst]
         /\ on' \in [Pods -> SUBSET Inst]
         /\ ctx' \in [Pods -> [Inst -> Inst \cup {NoInst}]]
         /\ handle' \in [Pods -> Inst \cup {NoInst}]
         /\ elector' \in [Pods -> [Inst -> ElectorState]]
<1>1. CASE StartAll(p, i)
  BY <1>1, StartInstanceType DEF TypeOK, StartAll
<1>2. CASE StartPlainAndElect(p, i)
  BY <1>2 DEF TypeOK, StartPlainAndElect
<1>3. CASE StartPlainOnly(p, i)
  BY <1>3 DEF TypeOK, StartPlainOnly
<1> QED
  BY <1>1, <1>2, <1>3

(* Starting collectors launches at most the elector of the instance.       *)
LEMMA Launched ==
  ASSUME TypeOK, NEW p \in Pods, NEW i \in Inst,
         StartAll(p, i) \/ StartPlainAndElect(p, i) \/ StartPlainOnly(p, i)
  PROVE  \A q \in Pods, h \in Inst :
           \/ elector'[q][h] = elector[q][h]
           \/ /\ q = p /\ h = i /\ elector'[q][h] = "acquiring"
              /\ StartPlainAndElect(p, i)
<1>1. CASE UNCHANGED elector
  BY <1>1
<1>2. CASE StartPlainAndElect(p, i)
  BY <1>2 DEF TypeOK, StartPlainAndElect
<1> QED
  BY <1>1, <1>2 DEF StartAll, StartPlainOnly

(* It starts at most the instance, under the given context.                *)
LEMMA Joined ==
  ASSUME TypeOK, NEW p \in Pods, NEW i \in Inst, NEW c \in Inst \cup {NoInst},
         StartInstance(p, i, c)
  PROVE  \A q \in Pods, j \in Inst :
           j \in on'[q] => \/ j \in on[q] /\ ctx'[q][j] = ctx[q][j]
                           \/ q = p /\ j = i /\ j \notin on[q] /\ ctx'[q][j] = c
<1>1. CASE UNCHANGED <<on, ctx>>
  BY <1>1
<1>2. CASE /\ i \notin on[p]
           /\ on' = [on EXCEPT ![p] = @ \cup {i}]
           /\ ctx' = [ctx EXCEPT ![p][i] = c]
  BY <1>2 DEF TypeOK
<1> QED
  BY <1>1, <1>2 DEF StartInstance

(* The actions whose effect on the shape of the state takes several steps. *)
LEMMA ShapeStopRenewing ==
  ASSUME IInv, NEW p \in Pods, NEW g \in Inst, StopRenewing(p, g)
  PROVE  Shape'
<1>1. TypeOK'
  BY DEF IInv, Shape, TypeOK, StopRenewing, ElectorStep
<1>2. DeadIsEmpty' /\ AliveHasInstance'
  BY DEF IInv, Shape, TypeOK, DeadIsEmpty, AliveHasInstance, StopRenewing,
         ElectorStep, Leads
<1> QED
  BY <1>1, <1>2 DEF Shape

LEMMA ShapeOnStartedLeadingStart ==
  ASSUME IInv, NEW p \in Pods, NEW g \in Inst, OnStartedLeadingStart(p, g)
  PROVE  Shape'
<1>0. alive[p] /\ inst[p] \in Inst
  BY DEF IInv, Shape, TypeOK, DeadIsEmpty, AliveHasInstance, OnStartedLeadingStart
<1>1. StartInstance(p, inst[p], g)
  BY DEF OnStartedLeadingStart
<1>2. on' \in [Pods -> SUBSET Inst] /\ ctx' \in [Pods -> [Inst -> Inst \cup {NoInst}]]
  BY <1>0, <1>1, StartInstanceType DEF IInv, Shape
<1>3. TypeOK'
  BY <1>2 DEF IInv, Shape, TypeOK, OnStartedLeadingStart
<1>4. DeadIsEmpty' /\ AliveHasInstance'
  BY <1>0
     DEF IInv, Shape, TypeOK, DeadIsEmpty, AliveHasInstance,
         OnStartedLeadingStart, StartInstance
<1> QED
  BY <1>3, <1>4 DEF Shape

LEMMA ShapeBoot ==
  ASSUME IInv, NEW p \in Pods, NEW e \in Modes, Boot(p, e)
  PROVE  Shape'
<1>0. 1 \in Inst /\ e \in BOOLEAN
  OBVIOUS
<1>1. StartAll(p, 1) \/ StartPlainAndElect(p, 1)
  BY DEF Boot
<1>2. TypeOK'
  BY <1>0, <1>1, StartAnyType DEF IInv, Shape, TypeOK, Boot
<1>3. DeadIsEmpty' /\ AliveHasInstance'
  BY <1>0
     DEF IInv, Shape, TypeOK, DeadIsEmpty, AliveHasInstance, Boot, StartAll,
         StartInstance, StartPlainAndElect
<1> QED
  BY <1>2, <1>3 DEF Shape

LEMMA ShapeBeginReload ==
  ASSUME IInv, NEW p \in Pods, BeginReload(p)
  PROVE  Shape'
<1>1. ASSUME le[p] PROVE TypeOK'
  BY <1>1, TakeHandlesType DEF IInv, Shape, TypeOK, BeginReload
<1>2. ASSUME ~le[p] PROVE TypeOK'
  BY <1>2 DEF IInv, Shape, TypeOK, BeginReload
<1>3. TypeOK'
  BY <1>1, <1>2
<1>4. DeadIsEmpty' /\ AliveHasInstance'
  BY DEF IInv, Shape, TypeOK, DeadIsEmpty, AliveHasInstance, BeginReload,
         TakeHandles, CancelAll
<1> QED
  BY <1>3, <1>4 DEF Shape

LEMMA ShapeEndReload ==
  ASSUME IInv, NEW p \in Pods, EndReload(p)
  PROVE  Shape'
<1>0. alive[p] /\ inst[p] \in Inst
  BY DEF IInv, Shape, TypeOK, DeadIsEmpty, AliveHasInstance, EndReload
<1>1. StartAll(p, inst[p]) \/ StartPlainAndElect(p, inst[p]) \/ StartPlainOnly(p, inst[p])
  BY DEF EndReload
<1>2. TypeOK'
  BY <1>0, <1>1, StartAnyType DEF IInv, Shape, TypeOK, EndReload
<1>3. DeadIsEmpty' /\ AliveHasInstance'
  BY <1>0
     DEF IInv, Shape, TypeOK, DeadIsEmpty, AliveHasInstance, EndReload,
         StartAll, StartInstance, StartPlainAndElect, StartPlainOnly
<1> QED
  BY <1>2, <1>3 DEF Shape

LEMMA ShapeBeginShutdown ==
  ASSUME IInv, NEW p \in Pods, BeginShutdown(p)
  PROVE  Shape'
<1>1. ASSUME le[p] PROVE TypeOK'
  BY <1>1, TakeHandlesType DEF IInv, Shape, TypeOK, BeginShutdown
<1>2. ASSUME ~le[p] PROVE TypeOK'
  <2>1. /\ on' = [on EXCEPT ![p] = @ \ {inst[p]}]
        /\ plainOn' = [plainOn EXCEPT ![p] = @ \ {inst[p]}]
    BY <1>2 DEF BeginShutdown
  <2>2. on' \in [Pods -> SUBSET Inst]
    BY <2>1 DEF IInv, Shape, TypeOK
  <2>3. plainOn' \in [Pods -> SUBSET Inst]
    BY <2>1 DEF IInv, Shape, TypeOK
  <2>4. term' \in [Pods -> {"no", "signalled", "stopping"}]
    BY DEF IInv, Shape, TypeOK, BeginShutdown
  <2>5. QED
    BY <1>2, <2>2, <2>3, <2>4 DEF IInv, Shape, TypeOK, BeginShutdown
<1>3. TypeOK'
  BY <1>1, <1>2
<1>4. DeadIsEmpty' /\ AliveHasInstance'
  BY DEF IInv, Shape, TypeOK, DeadIsEmpty, AliveHasInstance, BeginShutdown,
         TakeHandles, CancelAll
<1> QED
  BY <1>3, <1>4 DEF Shape

(* Every step keeps the shape.                                             *)
LEMMA NextShape == IInv /\ [Next]_vars => Shape'
<1> SUFFICES ASSUME IInv, [Next]_vars PROVE Shape'
  OBVIOUS
<1> USE DEF IInv, Shape, TypeOK, DeadIsEmpty, AliveHasInstance
<1>1. CASE Tick
  BY <1>1 DEF Tick
<1>2. ASSUME NEW p \in Pods, NEW g \in Inst, Acquire(p, g) PROVE Shape'
  BY <1>2 DEF Acquire, MayTake, ElectorStep
<1>3. ASSUME NEW p \in Pods, NEW g \in Inst, ReplyLost(p, g) PROVE Shape'
  BY <1>3 DEF ReplyLost, MayTake
<1>4. ASSUME NEW p \in Pods, NEW g \in Inst, Renew(p, g) PROVE Shape'
  BY <1>4 DEF Renew
<1>5. ASSUME NEW p \in Pods, NEW g \in Inst, StopRenewing(p, g) PROVE Shape'
  BY <1>5, ShapeStopRenewing
<1>6. ASSUME NEW p \in Pods, NEW g \in Inst, Release(p, g) PROVE Shape'
  BY <1>6 DEF Release, ElectorStep
<1>7. ASSUME NEW p \in Pods, NEW g \in Inst, RunReturns(p, g) PROVE Shape'
  BY <1>7 DEF RunReturns, ElectorStep
<1>8. ASSUME NEW p \in Pods, NEW g \in Inst, OnStoppedLeadingFlag(p, g) PROVE Shape'
  BY <1>8 DEF OnStoppedLeadingFlag
<1>9. ASSUME NEW p \in Pods, NEW g \in Inst, OnStoppedLeadingStop(p, g) PROVE Shape'
  BY <1>9 DEF OnStoppedLeadingStop
<1>10. ASSUME NEW p \in Pods, NEW g \in Inst, OnStartedLeadingFlag(p, g) PROVE Shape'
  BY <1>10 DEF OnStartedLeadingFlag
<1>11. ASSUME NEW p \in Pods, NEW g \in Inst, OnStartedLeadingStart(p, g) PROVE Shape'
  BY <1>11, ShapeOnStartedLeadingStart
<1>12. ASSUME NEW p \in Pods, NEW e \in Modes, Boot(p, e) PROVE Shape'
  BY <1>12, ShapeBoot
<1>13. ASSUME NEW p \in Pods, BeginReload(p) PROVE Shape'
  BY <1>13, ShapeBeginReload
<1>14. ASSUME NEW p \in Pods, NEW e \in Modes, Reinitialize(p, e) PROVE Shape'
  BY <1>14 DEF Reinitialize
<1>15. ASSUME NEW p \in Pods, EndReload(p) PROVE Shape'
  BY <1>15, ShapeEndReload
<1>16. ASSUME NEW p \in Pods, Signal(p) PROVE Shape'
  BY <1>16 DEF Signal
<1>17. ASSUME NEW p \in Pods, BeginShutdown(p) PROVE Shape'
  BY <1>17, ShapeBeginShutdown
<1>18. ASSUME NEW p \in Pods, Exit(p) PROVE Shape'
  BY <1>18 DEF Exit, Gone
<1>19. ASSUME NEW p \in Pods, Crash(p) PROVE Shape'
  BY <1>19 DEF Crash, Gone
<1>20. CASE UNCHANGED vars
  BY <1>20 DEF vars
<1> HIDE DEF IInv, Shape, TypeOK, DeadIsEmpty, AliveHasInstance
<1>21. ASSUME NEW p \in Pods, NEW g \in Inst, Elector(p, g) \/ OnStartedLeading(p, g)
       PROVE  Shape'
  BY <1>2, <1>3, <1>4, <1>5, <1>6, <1>7, <1>8, <1>9, <1>10, <1>11, <1>21
     DEF Elector, OnStartedLeading
<1>22. ASSUME NEW p \in Pods, Reload(p) \/ Shutdown(p) PROVE Shape'
  BY <1>13, <1>14, <1>15, <1>16, <1>17, <1>18, <1>22 DEF Reload, Shutdown
<1> QED
  BY <1>1, <1>12, <1>19, <1>20, <1>21, <1>22 DEF Next

(* Boot launches an elector that does not lead yet, and so does Reload.    *)
LEMMA BootLeads ==
  ASSUME IInv, NEW p \in Pods, NEW e \in Modes, Boot(p, e)
  PROVE  LeaderInTime' /\ OnePast'
<1>1. \A q \in Pods, h \in Inst : Past(q, h)' => Past(q, h)
  <2>1. 1 \in Inst /\ (StartAll(p, 1) \/ StartPlainAndElect(p, 1))
    BY DEF Boot
  <2> QED
    BY <2>1, Launched DEF IInv, Shape, Past
<1>2. \A q \in Pods, h \in Inst : Leads(q, h)' => Leads(q, h)
  <2>1. 1 \in Inst /\ (StartAll(p, 1) \/ StartPlainAndElect(p, 1))
    BY DEF Boot
  <2> QED
    BY <2>1, Launched DEF IInv, Shape, Leads
<1> QED
  BY <1>1, <1>2 DEF IInv, Electors, LeaderInTime, SinceRenewal, OnePast, Boot

LEMMA EndReloadLeads ==
  ASSUME IInv, NEW p \in Pods, EndReload(p)
  PROVE  LeaderInTime' /\ OnePast'
<1>1. inst[p] \in Inst /\ (StartAll(p, inst[p]) \/ StartPlainAndElect(p, inst[p]) \/ StartPlainOnly(p, inst[p]))
    BY DEF EndReload, IInv, Shape, DeadIsEmpty, AliveHasInstance, TypeOK
<1>2. \A q \in Pods, h \in Inst : Leads(q, h)' => Leads(q, h)
    BY <1>1, Launched DEF IInv, Shape, Leads
<1>3. \A q \in Pods, h \in Inst : Past(q, h)' => Past(q, h)
    BY <1>1, Launched DEF IInv, Shape, Past
<1> QED
  BY <1>1, <1>2, <1>3
     DEF IInv, Electors, LeaderInTime, SinceRenewal, OnePast, EndReload

(* An elector that acquires is the only one of its pod in Run.             *)
LEMMA AcquirePast ==
  ASSUME IInv, NEW p \in Pods, NEW g \in Inst, Acquire(p, g)
  PROVE  OnePast' /\ PastIsTracked'
<1>1. \A h \in Inst : Busy(p, h) => h = g
   BY DEF IInv, Electors, OneBusy, Busy, Acquire, Cancelled
<1>2. \A q \in Pods, h \in Inst : Past(q, h)' => Past(q, h) \/ (q = p /\ h = g)
   BY DEF IInv, Shape, TypeOK, Past, Acquire, ElectorStep
<1>3. \A h \in Inst : ~Past(p, h)
   BY <1>1 DEF Past, Busy, Acquire
<1>4. OnePast'
   BY <1>2, <1>3 DEF IInv, Electors, OnePast
<1>5. \/ g = handle[p] /\ le[p] /\ reload[p] = "idle" /\ term[p] # "stopping"
      \/ g = awaiting[p]["reload"] /\ reload[p] = "stopping"
   BY DEF IInv, Electors, OneBusy, Busy, Acquire, Cancelled
<1>6. PastIsTracked'
   BY <1>2, <1>5 DEF IInv, Electors, PastIsTracked, Acquire, ElectorStep
<1> QED
  BY <1>4, <1>6

LEMMA StopRenewingFuture ==
  ASSUME IInv, NEW p \in Pods, NEW g \in Inst, StopRenewing(p, g)
  PROVE  FutureElectors'
<1>1. \A q \in Pods, h \in Inst : elector'[q][h] = elector[q][h] \/ (q = p /\ h = g)
  BY DEF IInv, Shape, TypeOK, StopRenewing, ElectorStep
<1>2. elector[p][g] # "none"
  BY DEF StopRenewing, Leads
<1> QED
  BY <1>1, <1>2 DEF IInv, Electors, FutureElectors, StopRenewing, ElectorStep

(* Who writes the Lease renewed just now, and if others lead it was theirs *)
(* no more, or LeaseDuration old.                                          *)
LEMMA WriterInTime ==
  ASSUME IInv, NEW p \in Pods, NEW g \in Inst, MayTake(p), holder' = p, age' = 0,
         \A q \in Pods, h \in Inst : Leads(q, h)' => Leads(q, h) \/ q = p
  PROVE  LeaderInTime'
<1> SUFFICES ASSUME NEW q \in Pods, NEW h \in Inst, Leads(q, h)'
             PROVE  SinceRenewal(q)' <= RetryPeriod + RenewDeadline
  BY DEF LeaderInTime
<1>0. age \in Nat
  BY DEF IInv, Shape, TypeOK
<1>1. CASE q = p
  BY <1>1 DEF SinceRenewal
<1>2. CASE q # p
  <2>1. SinceRenewal(q) <= RetryPeriod + RenewDeadline
    BY <1>2 DEF IInv, Electors, LeaderInTime
  <2>2. SinceRenewal(q) >= LeaseDuration
    BY <1>0, <1>2 DEF SinceRenewal, MayTake
  <2>3. SinceRenewal(q)' = LeaseDuration
    BY <1>2 DEF SinceRenewal
  <2>4. SinceRenewal(q) \in Nat
    BY <1>0 DEF SinceRenewal
  <2> QED
    BY <2>1, <2>2, <2>3, <2>4
<1> QED
  BY <1>1, <1>2

LEMMA AcquireInTime ==
  ASSUME IInv, NEW p \in Pods, NEW g \in Inst, Acquire(p, g)
  PROVE  LeaderInTime'
<1>1. \A q \in Pods, h \in Inst : Leads(q, h)' => Leads(q, h) \/ q = p
  BY DEF IInv, Shape, TypeOK, Leads, Acquire, ElectorStep
<1> QED
  BY <1>1, WriterInTime DEF Acquire

LEMMA RenewInTime ==
  ASSUME IInv, NEW p \in Pods, NEW g \in Inst, Renew(p, g)
  PROVE  LeaderInTime'
<1>1. \A q \in Pods, h \in Inst : Leads(q, h)' => Leads(q, h) \/ q = p
  BY DEF Leads, Renew
<1> QED
  BY <1>1, WriterInTime DEF Renew

(* A step that writes the Lease leaves every leader in time, and so does   *)
(* the passing of time.                                                    *)
LEMMA NextLeaderInTime == IInv /\ [Next]_vars => LeaderInTime'
<1> SUFFICES ASSUME IInv, [Next]_vars PROVE LeaderInTime'
  OBVIOUS
<1> USE DEF IInv, Shape, TypeOK, DeadIsEmpty, AliveHasInstance, Electors,
            LeaderInTime, SinceRenewal, OneBusy, OnePast,
           Leads, Busy, Past, Cancelled, Awaited
<1>1. CASE Tick
  BY <1>1 DEF Tick
<1>2. ASSUME NEW p \in Pods, NEW g \in Inst, Acquire(p, g) PROVE LeaderInTime'
  BY <1>2, AcquireInTime
<1>3. ASSUME NEW p \in Pods, NEW g \in Inst, ReplyLost(p, g) PROVE LeaderInTime'
  BY <1>3 DEF ReplyLost, MayTake
<1>4. ASSUME NEW p \in Pods, NEW g \in Inst, Renew(p, g) PROVE LeaderInTime'
  BY <1>4, RenewInTime
<1>5. ASSUME NEW p \in Pods, NEW g \in Inst, StopRenewing(p, g) PROVE LeaderInTime'
  BY <1>5 DEF StopRenewing, ElectorStep
<1>6. ASSUME NEW p \in Pods, NEW g \in Inst, Release(p, g) PROVE LeaderInTime'
  BY <1>6 DEF Release, ElectorStep
<1>7. ASSUME NEW p \in Pods, NEW g \in Inst, RunReturns(p, g) PROVE LeaderInTime'
  BY <1>7 DEF RunReturns, ElectorStep
<1>8. ASSUME NEW p \in Pods, NEW g \in Inst, OnStoppedLeadingFlag(p, g) PROVE LeaderInTime'
  BY <1>8 DEF OnStoppedLeadingFlag
<1>9. ASSUME NEW p \in Pods, NEW g \in Inst, OnStoppedLeadingStop(p, g) PROVE LeaderInTime'
  BY <1>9 DEF OnStoppedLeadingStop
<1>10. ASSUME NEW p \in Pods, NEW g \in Inst, OnStartedLeadingFlag(p, g) PROVE LeaderInTime'
  BY <1>10 DEF OnStartedLeadingFlag
<1>11. ASSUME NEW p \in Pods, NEW g \in Inst, OnStartedLeadingStart(p, g) PROVE LeaderInTime'
  BY <1>11 DEF OnStartedLeadingStart, StartInstance
<1>12. ASSUME NEW p \in Pods, NEW e \in Modes, Boot(p, e) PROVE LeaderInTime'
  BY <1>12, BootLeads
<1>13. ASSUME NEW p \in Pods, BeginReload(p) PROVE LeaderInTime'
  BY <1>13 DEF BeginReload, TakeHandles, CancelAll
<1>14. ASSUME NEW p \in Pods, NEW e \in Modes, Reinitialize(p, e) PROVE LeaderInTime'
  BY <1>14 DEF Reinitialize
<1>15. ASSUME NEW p \in Pods, EndReload(p) PROVE LeaderInTime'
  BY <1>15, EndReloadLeads
<1>16. ASSUME NEW p \in Pods, Signal(p) PROVE LeaderInTime'
  BY <1>16 DEF Signal
<1>17. ASSUME NEW p \in Pods, BeginShutdown(p) PROVE LeaderInTime'
  BY <1>17 DEF BeginShutdown, TakeHandles, CancelAll
<1>18. ASSUME NEW p \in Pods, Exit(p) PROVE LeaderInTime'
  BY <1>18 DEF Exit, Gone
<1>19. ASSUME NEW p \in Pods, Crash(p) PROVE LeaderInTime'
  BY <1>19 DEF Crash, Gone
<1>20. CASE UNCHANGED vars
  BY <1>20 DEF vars
<1> HIDE DEF IInv, Shape, TypeOK, DeadIsEmpty, AliveHasInstance, Electors,
            LeaderInTime, SinceRenewal, OneBusy, OnePast,
           Leads, Busy, Past, Cancelled, Awaited
<1>21. ASSUME NEW p \in Pods, NEW g \in Inst, Elector(p, g) \/ OnStartedLeading(p, g)
       PROVE  LeaderInTime'
  BY <1>2, <1>3, <1>4, <1>5, <1>6, <1>7, <1>8, <1>9, <1>10, <1>11, <1>21
     DEF Elector, OnStartedLeading
<1>22. ASSUME NEW p \in Pods, Reload(p) \/ Shutdown(p) PROVE LeaderInTime'
  BY <1>13, <1>14, <1>15, <1>16, <1>17, <1>18, <1>22 DEF Reload, Shutdown
<1> QED
  BY <1>1, <1>12, <1>19, <1>20, <1>21, <1>22 DEF Next

(* Reload launches an elector after the one it waits for is done.          *)
LEMMA NextOneBusy == IInv /\ [Next]_vars => OneBusy'
<1> SUFFICES ASSUME IInv, [Next]_vars PROVE OneBusy'
  OBVIOUS
<1> USE DEF IInv, Shape, TypeOK, DeadIsEmpty, AliveHasInstance, Electors,
            FutureElectors, OneBusy,
           Leads, Busy, Past, Cancelled, Awaited
<1>1. CASE Tick
  BY <1>1 DEF Tick
<1>2. ASSUME NEW p \in Pods, NEW g \in Inst, Acquire(p, g) PROVE OneBusy'
  BY <1>2 DEF Acquire, MayTake, ElectorStep
<1>3. ASSUME NEW p \in Pods, NEW g \in Inst, ReplyLost(p, g) PROVE OneBusy'
  BY <1>3 DEF ReplyLost, MayTake
<1>4. ASSUME NEW p \in Pods, NEW g \in Inst, Renew(p, g) PROVE OneBusy'
  BY <1>4 DEF Renew
<1>5. ASSUME NEW p \in Pods, NEW g \in Inst, StopRenewing(p, g) PROVE OneBusy'
  BY <1>5 DEF StopRenewing, ElectorStep
<1>6. ASSUME NEW p \in Pods, NEW g \in Inst, Release(p, g) PROVE OneBusy'
  BY <1>6 DEF Release, ElectorStep
<1>7. ASSUME NEW p \in Pods, NEW g \in Inst, RunReturns(p, g) PROVE OneBusy'
  BY <1>7 DEF RunReturns, ElectorStep
<1>8. ASSUME NEW p \in Pods, NEW g \in Inst, OnStoppedLeadingFlag(p, g) PROVE OneBusy'
  BY <1>8 DEF OnStoppedLeadingFlag
<1>9. ASSUME NEW p \in Pods, NEW g \in Inst, OnStoppedLeadingStop(p, g) PROVE OneBusy'
  BY <1>9 DEF OnStoppedLeadingStop
<1>10. ASSUME NEW p \in Pods, NEW g \in Inst, OnStartedLeadingFlag(p, g) PROVE OneBusy'
  BY <1>10 DEF OnStartedLeadingFlag
<1>11. ASSUME NEW p \in Pods, NEW g \in Inst, OnStartedLeadingStart(p, g) PROVE OneBusy'
  BY <1>11 DEF OnStartedLeadingStart, StartInstance
<1>12. ASSUME NEW p \in Pods, NEW e \in Modes, Boot(p, e) PROVE OneBusy'
  BY <1>12 DEF Boot, StartAll, StartInstance, StartPlainAndElect
<1>13. ASSUME NEW p \in Pods, BeginReload(p) PROVE OneBusy'
  BY <1>13 DEF BeginReload, TakeHandles, CancelAll
<1>14. ASSUME NEW p \in Pods, NEW e \in Modes, Reinitialize(p, e) PROVE OneBusy'
  BY <1>14 DEF Reinitialize
<1>15. ASSUME NEW p \in Pods, EndReload(p) PROVE OneBusy'
  BY <1>15 DEF EndReload, StartAll, StartInstance, StartPlainAndElect, StartPlainOnly
<1>16. ASSUME NEW p \in Pods, Signal(p) PROVE OneBusy'
  BY <1>16 DEF Signal
<1>17. ASSUME NEW p \in Pods, BeginShutdown(p) PROVE OneBusy'
  BY <1>17 DEF BeginShutdown, TakeHandles, CancelAll
<1>18. ASSUME NEW p \in Pods, Exit(p) PROVE OneBusy'
  BY <1>18 DEF Exit, Gone
<1>19. ASSUME NEW p \in Pods, Crash(p) PROVE OneBusy'
  BY <1>19 DEF Crash, Gone
<1>20. CASE UNCHANGED vars
  BY <1>20 DEF vars
<1> HIDE DEF IInv, Shape, TypeOK, DeadIsEmpty, AliveHasInstance, Electors,
            FutureElectors, OneBusy,
           Leads, Busy, Past, Cancelled, Awaited
<1>21. ASSUME NEW p \in Pods, NEW g \in Inst, Elector(p, g) \/ OnStartedLeading(p, g)
       PROVE  OneBusy'
  BY <1>2, <1>3, <1>4, <1>5, <1>6, <1>7, <1>8, <1>9, <1>10, <1>11, <1>21
     DEF Elector, OnStartedLeading
<1>22. ASSUME NEW p \in Pods, Reload(p) \/ Shutdown(p) PROVE OneBusy'
  BY <1>13, <1>14, <1>15, <1>16, <1>17, <1>18, <1>22 DEF Reload, Shutdown
<1> QED
  BY <1>1, <1>12, <1>19, <1>20, <1>21, <1>22 DEF Next

LEMMA NextOnePast == IInv /\ [Next]_vars => OnePast'
<1> SUFFICES ASSUME IInv, [Next]_vars PROVE OnePast'
  OBVIOUS
<1> USE DEF IInv, Shape, TypeOK, DeadIsEmpty, AliveHasInstance, Electors,
            OneBusy, OnePast,
           Leads, Busy, Past, Cancelled, Awaited
<1>1. CASE Tick
  BY <1>1 DEF Tick
<1>2. ASSUME NEW p \in Pods, NEW g \in Inst, Acquire(p, g) PROVE OnePast'
  BY <1>2, AcquirePast
<1>3. ASSUME NEW p \in Pods, NEW g \in Inst, ReplyLost(p, g) PROVE OnePast'
  BY <1>3 DEF ReplyLost, MayTake
<1>4. ASSUME NEW p \in Pods, NEW g \in Inst, Renew(p, g) PROVE OnePast'
  BY <1>4 DEF Renew
<1>5. ASSUME NEW p \in Pods, NEW g \in Inst, StopRenewing(p, g) PROVE OnePast'
  BY <1>5 DEF StopRenewing, ElectorStep
<1>6. ASSUME NEW p \in Pods, NEW g \in Inst, Release(p, g) PROVE OnePast'
  BY <1>6 DEF Release, ElectorStep
<1>7. ASSUME NEW p \in Pods, NEW g \in Inst, RunReturns(p, g) PROVE OnePast'
  BY <1>7 DEF RunReturns, ElectorStep
<1>8. ASSUME NEW p \in Pods, NEW g \in Inst, OnStoppedLeadingFlag(p, g) PROVE OnePast'
  BY <1>8 DEF OnStoppedLeadingFlag
<1>9. ASSUME NEW p \in Pods, NEW g \in Inst, OnStoppedLeadingStop(p, g) PROVE OnePast'
  BY <1>9 DEF OnStoppedLeadingStop
<1>10. ASSUME NEW p \in Pods, NEW g \in Inst, OnStartedLeadingFlag(p, g) PROVE OnePast'
  BY <1>10 DEF OnStartedLeadingFlag
<1>11. ASSUME NEW p \in Pods, NEW g \in Inst, OnStartedLeadingStart(p, g) PROVE OnePast'
  BY <1>11 DEF OnStartedLeadingStart, StartInstance
<1>12. ASSUME NEW p \in Pods, NEW e \in Modes, Boot(p, e) PROVE OnePast'
  BY <1>12, BootLeads
<1>13. ASSUME NEW p \in Pods, BeginReload(p) PROVE OnePast'
  BY <1>13 DEF BeginReload, TakeHandles, CancelAll
<1>14. ASSUME NEW p \in Pods, NEW e \in Modes, Reinitialize(p, e) PROVE OnePast'
  BY <1>14 DEF Reinitialize
<1>15. ASSUME NEW p \in Pods, EndReload(p) PROVE OnePast'
  BY <1>15, EndReloadLeads
<1>16. ASSUME NEW p \in Pods, Signal(p) PROVE OnePast'
  BY <1>16 DEF Signal
<1>17. ASSUME NEW p \in Pods, BeginShutdown(p) PROVE OnePast'
  BY <1>17 DEF BeginShutdown, TakeHandles, CancelAll
<1>18. ASSUME NEW p \in Pods, Exit(p) PROVE OnePast'
  BY <1>18 DEF Exit, Gone
<1>19. ASSUME NEW p \in Pods, Crash(p) PROVE OnePast'
  BY <1>19 DEF Crash, Gone
<1>20. CASE UNCHANGED vars
  BY <1>20 DEF vars
<1> HIDE DEF IInv, Shape, TypeOK, DeadIsEmpty, AliveHasInstance, Electors,
            OneBusy, OnePast,
           Leads, Busy, Past, Cancelled, Awaited
<1>21. ASSUME NEW p \in Pods, NEW g \in Inst, Elector(p, g) \/ OnStartedLeading(p, g)
       PROVE  OnePast'
  BY <1>2, <1>3, <1>4, <1>5, <1>6, <1>7, <1>8, <1>9, <1>10, <1>11, <1>21
     DEF Elector, OnStartedLeading
<1>22. ASSUME NEW p \in Pods, Reload(p) \/ Shutdown(p) PROVE OnePast'
  BY <1>13, <1>14, <1>15, <1>16, <1>17, <1>18, <1>22 DEF Reload, Shutdown
<1> QED
  BY <1>1, <1>12, <1>19, <1>20, <1>21, <1>22 DEF Next

LEMMA NextPastIsTracked == IInv /\ [Next]_vars => PastIsTracked'
<1> SUFFICES ASSUME IInv, [Next]_vars PROVE PastIsTracked'
  OBVIOUS
<1> USE DEF IInv, Shape, TypeOK, DeadIsEmpty, AliveHasInstance, Electors,
            OneBusy, PastIsTracked, FutureElectors,
           Leads, Busy, Past, Cancelled, Awaited
<1>1. CASE Tick
  BY <1>1 DEF Tick
<1>2. ASSUME NEW p \in Pods, NEW g \in Inst, Acquire(p, g) PROVE PastIsTracked'
  BY <1>2, AcquirePast
<1>3. ASSUME NEW p \in Pods, NEW g \in Inst, ReplyLost(p, g) PROVE PastIsTracked'
  BY <1>3 DEF ReplyLost, MayTake
<1>4. ASSUME NEW p \in Pods, NEW g \in Inst, Renew(p, g) PROVE PastIsTracked'
  BY <1>4 DEF Renew
<1>5. ASSUME NEW p \in Pods, NEW g \in Inst, StopRenewing(p, g) PROVE PastIsTracked'
  BY <1>5 DEF StopRenewing, ElectorStep
<1>6. ASSUME NEW p \in Pods, NEW g \in Inst, Release(p, g) PROVE PastIsTracked'
  BY <1>6 DEF Release, ElectorStep
<1>7. ASSUME NEW p \in Pods, NEW g \in Inst, RunReturns(p, g) PROVE PastIsTracked'
  BY <1>7 DEF RunReturns, ElectorStep
<1>8. ASSUME NEW p \in Pods, NEW g \in Inst, OnStoppedLeadingFlag(p, g) PROVE PastIsTracked'
  BY <1>8 DEF OnStoppedLeadingFlag
<1>9. ASSUME NEW p \in Pods, NEW g \in Inst, OnStoppedLeadingStop(p, g) PROVE PastIsTracked'
  BY <1>9 DEF OnStoppedLeadingStop
<1>10. ASSUME NEW p \in Pods, NEW g \in Inst, OnStartedLeadingFlag(p, g) PROVE PastIsTracked'
  BY <1>10 DEF OnStartedLeadingFlag
<1>11. ASSUME NEW p \in Pods, NEW g \in Inst, OnStartedLeadingStart(p, g) PROVE PastIsTracked'
  BY <1>11 DEF OnStartedLeadingStart, StartInstance
<1>12. ASSUME NEW p \in Pods, NEW e \in Modes, Boot(p, e) PROVE PastIsTracked'
  BY <1>12 DEF Boot, StartAll, StartInstance, StartPlainAndElect
<1>13. ASSUME NEW p \in Pods, BeginReload(p) PROVE PastIsTracked'
  BY <1>13 DEF BeginReload, TakeHandles, CancelAll
<1>14. ASSUME NEW p \in Pods, NEW e \in Modes, Reinitialize(p, e) PROVE PastIsTracked'
  BY <1>14 DEF Reinitialize
<1>15. ASSUME NEW p \in Pods, EndReload(p) PROVE PastIsTracked'
  BY <1>15 DEF EndReload, StartAll, StartInstance, StartPlainAndElect, StartPlainOnly
<1>16. ASSUME NEW p \in Pods, Signal(p) PROVE PastIsTracked'
  BY <1>16 DEF Signal
<1>17. ASSUME NEW p \in Pods, BeginShutdown(p) PROVE PastIsTracked'
  BY <1>17 DEF BeginShutdown, TakeHandles, CancelAll
<1>18. ASSUME NEW p \in Pods, Exit(p) PROVE PastIsTracked'
  BY <1>18 DEF Exit, Gone
<1>19. ASSUME NEW p \in Pods, Crash(p) PROVE PastIsTracked'
  BY <1>19 DEF Crash, Gone
<1>20. CASE UNCHANGED vars
  BY <1>20 DEF vars
<1> HIDE DEF IInv, Shape, TypeOK, DeadIsEmpty, AliveHasInstance, Electors,
            OneBusy, PastIsTracked, FutureElectors,
           Leads, Busy, Past, Cancelled, Awaited
<1>21. ASSUME NEW p \in Pods, NEW g \in Inst, Elector(p, g) \/ OnStartedLeading(p, g)
       PROVE  PastIsTracked'
  BY <1>2, <1>3, <1>4, <1>5, <1>6, <1>7, <1>8, <1>9, <1>10, <1>11, <1>21
     DEF Elector, OnStartedLeading
<1>22. ASSUME NEW p \in Pods, Reload(p) \/ Shutdown(p) PROVE PastIsTracked'
  BY <1>13, <1>14, <1>15, <1>16, <1>17, <1>18, <1>22 DEF Reload, Shutdown
<1> QED
  BY <1>1, <1>12, <1>19, <1>20, <1>21, <1>22 DEF Next

LEMMA NextFutureElectors == IInv /\ [Next]_vars => FutureElectors'
<1> SUFFICES ASSUME IInv, [Next]_vars PROVE FutureElectors'
  OBVIOUS
<1> USE DEF IInv, Shape, TypeOK, DeadIsEmpty, AliveHasInstance, Electors, FutureElectors
<1>1. CASE Tick
  BY <1>1 DEF Tick
<1>2. ASSUME NEW p \in Pods, NEW g \in Inst, Acquire(p, g) PROVE FutureElectors'
  BY <1>2 DEF Acquire, MayTake, ElectorStep
<1>3. ASSUME NEW p \in Pods, NEW g \in Inst, ReplyLost(p, g) PROVE FutureElectors'
  BY <1>3 DEF ReplyLost, MayTake
<1>4. ASSUME NEW p \in Pods, NEW g \in Inst, Renew(p, g) PROVE FutureElectors'
  BY <1>4 DEF Renew
<1>5. ASSUME NEW p \in Pods, NEW g \in Inst, StopRenewing(p, g) PROVE FutureElectors'
  BY <1>5, StopRenewingFuture
<1>6. ASSUME NEW p \in Pods, NEW g \in Inst, Release(p, g) PROVE FutureElectors'
  BY <1>6 DEF Release, ElectorStep
<1>7. ASSUME NEW p \in Pods, NEW g \in Inst, RunReturns(p, g) PROVE FutureElectors'
  BY <1>7 DEF RunReturns, ElectorStep
<1>8. ASSUME NEW p \in Pods, NEW g \in Inst, OnStoppedLeadingFlag(p, g) PROVE FutureElectors'
  BY <1>8 DEF OnStoppedLeadingFlag
<1>9. ASSUME NEW p \in Pods, NEW g \in Inst, OnStoppedLeadingStop(p, g) PROVE FutureElectors'
  BY <1>9 DEF OnStoppedLeadingStop
<1>10. ASSUME NEW p \in Pods, NEW g \in Inst, OnStartedLeadingFlag(p, g) PROVE FutureElectors'
  BY <1>10 DEF OnStartedLeadingFlag
<1>11. ASSUME NEW p \in Pods, NEW g \in Inst, OnStartedLeadingStart(p, g) PROVE FutureElectors'
  BY <1>11 DEF OnStartedLeadingStart, StartInstance
<1>12. ASSUME NEW p \in Pods, NEW e \in Modes, Boot(p, e) PROVE FutureElectors'
  BY <1>12 DEF Boot, StartAll, StartInstance, StartPlainAndElect
<1>13. ASSUME NEW p \in Pods, BeginReload(p) PROVE FutureElectors'
  BY <1>13 DEF BeginReload, TakeHandles, CancelAll
<1>14. ASSUME NEW p \in Pods, NEW e \in Modes, Reinitialize(p, e) PROVE FutureElectors'
  BY <1>14 DEF Reinitialize
<1>15. ASSUME NEW p \in Pods, EndReload(p) PROVE FutureElectors'
  BY <1>15 DEF EndReload, StartAll, StartInstance, StartPlainAndElect, StartPlainOnly
<1>16. ASSUME NEW p \in Pods, Signal(p) PROVE FutureElectors'
  BY <1>16 DEF Signal
<1>17. ASSUME NEW p \in Pods, BeginShutdown(p) PROVE FutureElectors'
  BY <1>17 DEF BeginShutdown, TakeHandles, CancelAll
<1>18. ASSUME NEW p \in Pods, Exit(p) PROVE FutureElectors'
  BY <1>18 DEF Exit, Gone
<1>19. ASSUME NEW p \in Pods, Crash(p) PROVE FutureElectors'
  BY <1>19 DEF Crash, Gone
<1>20. CASE UNCHANGED vars
  BY <1>20 DEF vars
<1> HIDE DEF IInv, Shape, TypeOK, DeadIsEmpty, AliveHasInstance, Electors, FutureElectors
<1>21. ASSUME NEW p \in Pods, NEW g \in Inst, Elector(p, g) \/ OnStartedLeading(p, g)
       PROVE  FutureElectors'
  BY <1>2, <1>3, <1>4, <1>5, <1>6, <1>7, <1>8, <1>9, <1>10, <1>11, <1>21
     DEF Elector, OnStartedLeading
<1>22. ASSUME NEW p \in Pods, Reload(p) \/ Shutdown(p) PROVE FutureElectors'
  BY <1>13, <1>14, <1>15, <1>16, <1>17, <1>18, <1>22 DEF Reload, Shutdown
<1> QED
  BY <1>1, <1>12, <1>19, <1>20, <1>21, <1>22 DEF Next

(* Late callbacks, and what (re)starting collectors does to instances.     *)
LEMMA OnStartedLeadingStartInstances ==
  ASSUME IInv, NEW p \in Pods, NEW g \in Inst, OnStartedLeadingStart(p, g)
  PROVE  FreshElectors' /\ StartedInstances'
<1>0. alive[p] /\ inst[p] \in Inst
  BY DEF IInv, Shape, TypeOK, DeadIsEmpty, AliveHasInstance, OnStartedLeadingStart
<1>1. \A q \in Pods, j \in Inst :
           j \in on'[q] => \/ j \in on[q] /\ ctx'[q][j] = ctx[q][j]
                           \/ q = p /\ j = inst[p] /\ j \notin on[q] /\ ctx'[q][j] = g
  BY <1>0, Joined DEF OnStartedLeadingStart, IInv, Shape
<1>2. elector[p][g] \notin {"none", "acquiring"}
  BY DEF OnStartedLeadingStart, IInv, Instances, FreshElectors
<1>3. \A q \in Pods, h \in Inst : h # g \/ q # p => starting'[q][h] = starting[q][h]
  BY DEF OnStartedLeadingStart, IInv, Shape, TypeOK
<1>4. \A q \in Pods : on[q] \subseteq Inst /\ on'[q] \subseteq Inst
  BY <1>0, StartInstanceType DEF OnStartedLeadingStart, IInv, Shape, TypeOK
<1>5. FreshElectors'
  BY <1>1, <1>2, <1>3, <1>4 DEF OnStartedLeadingStart, IInv, Instances, FreshElectors
<1>6. StartedInstances'
  <2>1. \A q \in Pods : \A j \in on'[q] : j <= inst[q]
    BY <1>0, <1>1, <1>4 DEF IInv, Instances, StartedInstances
  <2>2. ASSUME NEW q \in Pods, term[q] = "no", inst[q] \in on'[q], ctx'[q][inst[q]] = NoInst
        PROVE  ~le[q] /\ reload[q] # "starting"
    BY <1>1, <1>4, <2>2 DEF IInv, Instances, StartedInstances
  <2> QED
    BY <2>1, <2>2 DEF OnStartedLeadingStart, StartedInstances
<1> QED
  BY <1>5, <1>6

LEMMA BootInstances ==
  ASSUME IInv, NEW p \in Pods, NEW e \in Modes, Boot(p, e)
  PROVE  FreshElectors' /\ StartedInstances'
<1>0. 1 \in Inst /\ (StartAll(p, 1) \/ StartPlainAndElect(p, 1)) /\ ~alive[p] /\ e \in BOOLEAN
  BY DEF Boot
<1>1. on[p] = {} /\ \A g \in Inst : elector[p][g] = "none" /\ starting[p][g] = "none"
  BY <1>0 DEF IInv, Shape, DeadIsEmpty
<1>2. \A q \in Pods, h \in Inst : elector'[q][h] = elector[q][h] \/ q = p
  BY <1>0, Launched DEF IInv, Shape
<1>3. \A q \in Pods : on'[q] \subseteq Inst
  BY <1>0, StartAnyType DEF IInv, Shape
<1>4. \A q \in Pods, j \in Inst :
           j \in on'[q] => \/ q # p /\ j \in on[q] /\ ctx'[q][j] = ctx[q][j]
                           \/ q = p /\ j = 1 /\ ctx'[q][j] = NoInst /\ ~e
  BY <1>0, <1>1, Joined DEF Boot, StartAll, StartPlainAndElect, IInv, Shape
<1>5. FreshElectors'
  BY <1>1, <1>2, <1>3, <1>4 DEF Boot, IInv, Instances, FreshElectors
<1>6. /\ inst' = [inst EXCEPT ![p] = 1] /\ le' = [le EXCEPT ![p] = e] /\ UNCHANGED <<term, reload>>
      /\ inst \in [Pods -> Inst \cup {NoInst}] /\ le \in [Pods -> BOOLEAN] /\ reload[p] = "idle"
  BY <1>0 DEF Boot, IInv, Shape, TypeOK, DeadIsEmpty
<1>7. StartedInstances'
  BY <1>3, <1>4, <1>6 DEF IInv, Instances, StartedInstances
<1> QED
  BY <1>5, <1>7

LEMMA EndReloadInstances ==
  ASSUME IInv, NEW p \in Pods, EndReload(p)
  PROVE  FreshElectors' /\ StartedInstances'
<1>0. /\ inst[p] \in Inst
      /\ StartAll(p, inst[p]) \/ StartPlainAndElect(p, inst[p]) \/ StartPlainOnly(p, inst[p])
  BY DEF EndReload, IInv, Shape, TypeOK, DeadIsEmpty, AliveHasInstance
<1>1. elector[p][inst[p]] = "none"
  BY <1>0 DEF EndReload, IInv, Electors, FutureElectors
<1>2. \A q \in Pods, h \in Inst : elector'[q][h] \in {"none", "acquiring"} => elector[q][h] \in {"none", "acquiring"}
  BY <1>0, <1>1, Launched DEF IInv, Shape
<1>3. \A q \in Pods : on'[q] \subseteq Inst
  BY <1>0, StartAnyType DEF IInv, Shape
<1>4. \A q \in Pods, j \in Inst :
           j \in on'[q] => \/ j \in on[q] /\ ctx'[q][j] = ctx[q][j]
                           \/ q = p /\ j = inst[p] /\ ctx'[q][j] = NoInst /\ ~le[p]
  BY <1>0, Joined
     DEF EndReload, StartAll, StartPlainAndElect, StartPlainOnly, IInv, Shape
<1>5. FreshElectors'
  BY <1>2, <1>3, <1>4 DEF EndReload, IInv, Instances, FreshElectors
<1>6. /\ reload' = [reload EXCEPT ![p] = "idle"] /\ UNCHANGED <<term, inst, le>>
      /\ reload \in [Pods -> {"idle", "stopping", "starting"}]
  BY DEF EndReload, IInv, Shape, TypeOK
<1>7. ASSUME NEW q \in Pods PROVE \A j \in on'[q] : j <= inst'[q]
  BY <1>0, <1>3, <1>4, <1>6 DEF IInv, Instances, StartedInstances
<1>8. ASSUME NEW q \in Pods, term'[q] = "no", inst'[q] \in on'[q], ctx'[q][inst'[q]] = NoInst
      PROVE  ~le'[q] /\ reload'[q] # "starting"
  BY <1>3, <1>4, <1>6, <1>8 DEF IInv, Instances, StartedInstances
<1>9. StartedInstances'
  BY <1>7, <1>8 DEF StartedInstances
<1> QED
  BY <1>5, <1>9

LEMMA BeginShutdownFresh ==
  ASSUME IInv, NEW p \in Pods, BeginShutdown(p)
  PROVE  FreshElectors'
<1>0. on' = on \/ on' = [on EXCEPT ![p] = @ \ {inst[p]}]
  BY DEF BeginShutdown
<1>1. \A q \in Pods : on'[q] \subseteq on[q]
  <2>1. CASE on' = on
    BY <2>1
  <2>2. CASE on' = [on EXCEPT ![p] = @ \ {inst[p]}]
    BY <2>2 DEF IInv, Shape, TypeOK
  <2> QED
    BY <1>0, <2>1, <2>2
<1>2. UNCHANGED <<elector, starting, ctx>>
  BY DEF BeginShutdown
<1>3. QED
  BY <1>1, <1>2 DEF IInv, Instances, FreshElectors

LEMMA NextFreshElectors == IInv /\ [Next]_vars => FreshElectors'
<1> SUFFICES ASSUME IInv, [Next]_vars PROVE FreshElectors'
  OBVIOUS
<1> USE DEF IInv, Shape, TypeOK, DeadIsEmpty, AliveHasInstance, Electors,
            FutureElectors, Instances, FreshElectors
<1>1. CASE Tick
  BY <1>1 DEF Tick
<1>2. ASSUME NEW p \in Pods, NEW g \in Inst, Acquire(p, g) PROVE FreshElectors'
  BY <1>2 DEF Acquire, MayTake, ElectorStep
<1>3. ASSUME NEW p \in Pods, NEW g \in Inst, ReplyLost(p, g) PROVE FreshElectors'
  BY <1>3 DEF ReplyLost, MayTake
<1>4. ASSUME NEW p \in Pods, NEW g \in Inst, Renew(p, g) PROVE FreshElectors'
  BY <1>4 DEF Renew
<1>5. ASSUME NEW p \in Pods, NEW g \in Inst, StopRenewing(p, g) PROVE FreshElectors'
  BY <1>5 DEF StopRenewing, ElectorStep
<1>6. ASSUME NEW p \in Pods, NEW g \in Inst, Release(p, g) PROVE FreshElectors'
  BY <1>6 DEF Release, ElectorStep
<1>7. ASSUME NEW p \in Pods, NEW g \in Inst, RunReturns(p, g) PROVE FreshElectors'
  BY <1>7 DEF RunReturns, ElectorStep
<1>8. ASSUME NEW p \in Pods, NEW g \in Inst, OnStoppedLeadingFlag(p, g) PROVE FreshElectors'
  BY <1>8 DEF OnStoppedLeadingFlag
<1>9. ASSUME NEW p \in Pods, NEW g \in Inst, OnStoppedLeadingStop(p, g) PROVE FreshElectors'
  BY <1>9 DEF OnStoppedLeadingStop
<1>10. ASSUME NEW p \in Pods, NEW g \in Inst, OnStartedLeadingFlag(p, g) PROVE FreshElectors'
  BY <1>10 DEF OnStartedLeadingFlag
<1>11. ASSUME NEW p \in Pods, NEW g \in Inst, OnStartedLeadingStart(p, g) PROVE FreshElectors'
  BY <1>11, OnStartedLeadingStartInstances
<1>12. ASSUME NEW p \in Pods, NEW e \in Modes, Boot(p, e) PROVE FreshElectors'
  BY <1>12, BootInstances
<1>13. ASSUME NEW p \in Pods, BeginReload(p) PROVE FreshElectors'
  BY <1>13 DEF BeginReload, TakeHandles, CancelAll
<1>14. ASSUME NEW p \in Pods, NEW e \in Modes, Reinitialize(p, e) PROVE FreshElectors'
  BY <1>14 DEF Reinitialize
<1>15. ASSUME NEW p \in Pods, EndReload(p) PROVE FreshElectors'
  BY <1>15, EndReloadInstances
<1>16. ASSUME NEW p \in Pods, Signal(p) PROVE FreshElectors'
  BY <1>16 DEF Signal
<1>17. ASSUME NEW p \in Pods, BeginShutdown(p) PROVE FreshElectors'
  BY <1>17, BeginShutdownFresh
<1>18. ASSUME NEW p \in Pods, Exit(p) PROVE FreshElectors'
  BY <1>18 DEF Exit, Gone
<1>19. ASSUME NEW p \in Pods, Crash(p) PROVE FreshElectors'
  BY <1>19 DEF Crash, Gone
<1>20. CASE UNCHANGED vars
  BY <1>20 DEF vars
<1> HIDE DEF IInv, Shape, TypeOK, DeadIsEmpty, AliveHasInstance, Electors,
            FutureElectors, Instances, FreshElectors
<1>21. ASSUME NEW p \in Pods, NEW g \in Inst, Elector(p, g) \/ OnStartedLeading(p, g)
       PROVE  FreshElectors'
  BY <1>2, <1>3, <1>4, <1>5, <1>6, <1>7, <1>8, <1>9, <1>10, <1>11, <1>21
     DEF Elector, OnStartedLeading
<1>22. ASSUME NEW p \in Pods, Reload(p) \/ Shutdown(p) PROVE FreshElectors'
  BY <1>13, <1>14, <1>15, <1>16, <1>17, <1>18, <1>22 DEF Reload, Shutdown
<1> QED
  BY <1>1, <1>12, <1>19, <1>20, <1>21, <1>22 DEF Next

(* A replaced instance is older than the new one, which is not started.    *)
LEMMA ReinitializeStarted ==
  ASSUME IInv, NEW p \in Pods, NEW e \in Modes, Reinitialize(p, e)
  PROVE  StartedInstances'
<1>1. /\ UNCHANGED <<term, ctx>>
      /\ inst' = [inst EXCEPT ![p] = @ + 1]
      /\ le' = [le EXCEPT ![p] = e]
      /\ reload' = [reload EXCEPT ![p] = "starting"]
      /\ on' = on \/ on' = [on EXCEPT ![p] = @ \ {inst[p]}]
  BY DEF Reinitialize
<1>2. \A q \in Pods : /\ inst[q] \in Nat /\ on[q] \subseteq Nat
                      /\ \A i \in on[q] : i <= inst[q]
  BY DEF IInv, Shape, TypeOK, Instances, StartedInstances
<1>3. \A q \in Pods : on'[q] \subseteq on[q]
  <2>1. on \in [Pods -> SUBSET Inst]
    BY DEF IInv, Shape, TypeOK
  <2> QED  BY <1>1, <2>1
<1>4. /\ inst'[p] = inst[p] + 1
      /\ \A q \in Pods \ {p} : inst'[q] = inst[q] /\ le'[q] = le[q] /\ reload'[q] = reload[q]
  BY <1>1 DEF IInv, Shape, TypeOK
<1>5. ASSUME NEW q \in Pods PROVE \A i \in on'[q] : i <= inst'[q]
  BY <1>2, <1>3, <1>4
<1>6. inst'[p] \notin on'[p]
  BY <1>2, <1>3, <1>4
<1>7. ASSUME NEW q \in Pods, term'[q] = "no", inst'[q] \in on'[q], ctx'[q][inst'[q]] = NoInst
      PROVE  ~le'[q] /\ reload'[q] # "starting"
  <2>1. q # p
    BY <1>6, <1>7
  <2>2. inst[q] \in on[q] /\ term[q] = "no" /\ ctx[q][inst[q]] = NoInst
    BY <1>1, <1>3, <1>4, <1>7, <2>1
  <2> QED  BY <1>4, <2>1, <2>2 DEF IInv, Instances, StartedInstances
<1> QED
  BY <1>5, <1>7 DEF StartedInstances

LEMMA NextStartedInstances == IInv /\ [Next]_vars => StartedInstances'
<1> SUFFICES ASSUME IInv, [Next]_vars PROVE StartedInstances'
  OBVIOUS
<1> USE DEF IInv, Shape, TypeOK, DeadIsEmpty, AliveHasInstance, Instances,
            FreshElectors,
           StartedInstances
<1>1. CASE Tick
  BY <1>1 DEF Tick
<1>2. ASSUME NEW p \in Pods, NEW g \in Inst, Acquire(p, g) PROVE StartedInstances'
  BY <1>2 DEF Acquire, MayTake, ElectorStep
<1>3. ASSUME NEW p \in Pods, NEW g \in Inst, ReplyLost(p, g) PROVE StartedInstances'
  BY <1>3 DEF ReplyLost, MayTake
<1>4. ASSUME NEW p \in Pods, NEW g \in Inst, Renew(p, g) PROVE StartedInstances'
  BY <1>4 DEF Renew
<1>5. ASSUME NEW p \in Pods, NEW g \in Inst, StopRenewing(p, g) PROVE StartedInstances'
  BY <1>5 DEF StopRenewing, ElectorStep
<1>6. ASSUME NEW p \in Pods, NEW g \in Inst, Release(p, g) PROVE StartedInstances'
  BY <1>6 DEF Release, ElectorStep
<1>7. ASSUME NEW p \in Pods, NEW g \in Inst, RunReturns(p, g) PROVE StartedInstances'
  BY <1>7 DEF RunReturns, ElectorStep
<1>8. ASSUME NEW p \in Pods, NEW g \in Inst, OnStoppedLeadingFlag(p, g) PROVE StartedInstances'
  BY <1>8 DEF OnStoppedLeadingFlag
<1>9. ASSUME NEW p \in Pods, NEW g \in Inst, OnStoppedLeadingStop(p, g) PROVE StartedInstances'
  BY <1>9 DEF OnStoppedLeadingStop
<1>10. ASSUME NEW p \in Pods, NEW g \in Inst, OnStartedLeadingFlag(p, g) PROVE StartedInstances'
  BY <1>10 DEF OnStartedLeadingFlag
<1>11. ASSUME NEW p \in Pods, NEW g \in Inst, OnStartedLeadingStart(p, g) PROVE StartedInstances'
  BY <1>11, OnStartedLeadingStartInstances
<1>12. ASSUME NEW p \in Pods, NEW e \in Modes, Boot(p, e) PROVE StartedInstances'
  BY <1>12, BootInstances
<1>13. ASSUME NEW p \in Pods, BeginReload(p) PROVE StartedInstances'
  BY <1>13 DEF BeginReload, TakeHandles, CancelAll
<1>14. ASSUME NEW p \in Pods, NEW e \in Modes, Reinitialize(p, e) PROVE StartedInstances'
  BY <1>14, ReinitializeStarted
<1>15. ASSUME NEW p \in Pods, EndReload(p) PROVE StartedInstances'
  BY <1>15, EndReloadInstances
<1>16. ASSUME NEW p \in Pods, Signal(p) PROVE StartedInstances'
  BY <1>16 DEF Signal
<1>17. ASSUME NEW p \in Pods, BeginShutdown(p) PROVE StartedInstances'
  BY <1>17 DEF BeginShutdown, TakeHandles, CancelAll
<1>18. ASSUME NEW p \in Pods, Exit(p) PROVE StartedInstances'
  BY <1>18 DEF Exit, Gone
<1>19. ASSUME NEW p \in Pods, Crash(p) PROVE StartedInstances'
  BY <1>19 DEF Crash, Gone
<1>20. CASE UNCHANGED vars
  BY <1>20 DEF vars
<1> HIDE DEF IInv, Shape, TypeOK, DeadIsEmpty, AliveHasInstance, Instances,
            FreshElectors,
           StartedInstances
<1>21. ASSUME NEW p \in Pods, NEW g \in Inst, Elector(p, g) \/ OnStartedLeading(p, g)
       PROVE  StartedInstances'
  BY <1>2, <1>3, <1>4, <1>5, <1>6, <1>7, <1>8, <1>9, <1>10, <1>11, <1>21
     DEF Elector, OnStartedLeading
<1>22. ASSUME NEW p \in Pods, Reload(p) \/ Shutdown(p) PROVE StartedInstances'
  BY <1>13, <1>14, <1>15, <1>16, <1>17, <1>18, <1>22 DEF Reload, Shutdown
<1> QED
  BY <1>1, <1>12, <1>19, <1>20, <1>21, <1>22 DEF Next

(* A late start is known for one, and comes after the elector is done.     *)
LEMMA OnStartedLeadingStartRuns ==
  ASSUME IInv, NEW p \in Pods, NEW g \in Inst, OnStartedLeadingStart(p, g)
  PROVE  DoneStopped' /\ OnlyCurrentInstanceRuns'
<1>1. alive[p] /\ inst[p] \in Inst
  BY DEF IInv, Shape, TypeOK, DeadIsEmpty, AliveHasInstance, OnStartedLeadingStart
<1>2. \A q \in Pods, j \in Inst :
        j \in on'[q] => \/ j \in on[q] /\ ctx'[q][j] = ctx[q][j]
                        \/ q = p /\ j = inst[q] /\ ctx'[q][j] = g
  BY <1>1, Joined DEF OnStartedLeadingStart, IInv, Shape
<1>3. \A q \in Pods : on'[q] \subseteq Inst
  BY <1>1, StartInstanceType DEF OnStartedLeadingStart, IInv, Shape
<1>4. /\ starting[p][g] = "flagged"
      /\ starting'[p][g] = IF elector[p][g] = "done" THEN "late" ELSE "finished"
      /\ \A q \in Pods, h \in Inst : q # p \/ h # g => starting'[q][h] = starting[q][h]
  BY DEF OnStartedLeadingStart, IInv, Shape, TypeOK
<1>5. \A q \in Pods, j \in Inst : ctx[q][j] # NoInst => ctx[q][j] \in Inst
  BY DEF IInv, Shape, TypeOK
<1>6. UNCHANGED <<inst, plainOn, elector, term>>
  BY DEF OnStartedLeadingStart
<1>7. DoneStopped'
  BY <1>2, <1>3, <1>4, <1>5, <1>6 DEF IInv, Instances, DoneStopped
<1>8. OnlyCurrentInstanceRuns'
  BY <1>2, <1>3, <1>4, <1>5, <1>6 DEF IInv, Instances, OnlyCurrentInstanceRuns
<1> QED
  BY <1>7, <1>8

(* Nothing runs in a process that has just started but its first instance. *)
LEMMA BootRuns ==
  ASSUME IInv, NEW p \in Pods, NEW e \in Modes, Boot(p, e)
  PROVE  DoneStopped' /\ OnlyCurrentInstanceRuns'
<1>0. 1 \in Inst /\ (StartAll(p, 1) \/ StartPlainAndElect(p, 1)) /\ ~alive[p]
  BY DEF Boot
<1>1. on[p] = {} /\ plainOn[p] = {}
  BY <1>0 DEF IInv, Shape, DeadIsEmpty
<1>2. \A q \in Pods, h \in Inst : elector'[q][h] = elector[q][h] \/ q = p
  BY <1>0, Launched DEF IInv, Shape
<1>3. \A q \in Pods : on'[q] \subseteq Inst
  BY <1>0, StartAnyType DEF IInv, Shape
<1>4. \A q \in Pods, j \in Inst :
           j \in on'[q] => \/ q # p /\ j \in on[q] /\ ctx'[q][j] = ctx[q][j]
                           \/ q = p /\ j = 1 /\ ctx'[q][j] = NoInst
  BY <1>0, <1>1, Joined DEF Boot, StartAll, StartPlainAndElect, IInv, Shape
<1>5. /\ inst'[p] = 1 /\ plainOn'[p] = {1}
      /\ \A q \in Pods \ {p} : inst'[q] = inst[q] /\ plainOn'[q] = plainOn[q]
      /\ UNCHANGED <<term, starting>>
  BY <1>0, <1>1 DEF Boot, StartAll, StartPlainAndElect, IInv, Shape, TypeOK
<1>6. \A q \in Pods, j \in Inst : ctx[q][j] # NoInst => ctx[q][j] \in Inst
  BY DEF IInv, Shape, TypeOK
<1>7. DoneStopped'
  BY <1>2, <1>3, <1>4, <1>5, <1>6 DEF IInv, Instances, DoneStopped
<1>8. OnlyCurrentInstanceRuns'
  BY <1>3, <1>4, <1>5 DEF IInv, Instances, OnlyCurrentInstanceRuns
<1> QED
  BY <1>7, <1>8

(* Reload waited for the elector that started the instance it replaces.    *)
LEMMA ReinitializeRuns ==
  ASSUME IInv, NEW p \in Pods, NEW e \in Modes, Reinitialize(p, e)
  PROVE  DoneStopped' /\ OnlyCurrentInstanceRuns'
<1>1. /\ UNCHANGED <<term, elector, starting, ctx>>
      /\ inst' = [inst EXCEPT ![p] = @ + 1]
      /\ plainOn' = [plainOn EXCEPT ![p] = @ \ {inst[p]}]
      /\ on' = IF le[p] THEN on ELSE [on EXCEPT ![p] = @ \ {inst[p]}]
      /\ reload[p] = "stopping" /\ Awaited(p, "reload")
  BY DEF Reinitialize
<1>2. \A q \in Pods : inst[q] \in Nat /\ on[q] \subseteq Inst
  BY DEF IInv, Shape, TypeOK
<1>3. /\ \A q \in Pods : on'[q] \subseteq on[q]
      /\ ~le[p] => inst[p] \notin on'[p]
      /\ plainOn'[p] = plainOn[p] \ {inst[p]}
      /\ inst'[p] = inst[p] + 1
      /\ \A q \in Pods \ {p} : inst'[q] = inst[q] /\ plainOn'[q] = plainOn[q]
  BY <1>1 DEF IInv, Shape, TypeOK
<1>4. inst'[p] \notin on'[p]
  BY <1>2, <1>3 DEF IInv, Instances, StartedInstances
<1>5. DoneStopped'
  BY <1>1, <1>2, <1>3, <1>4 DEF IInv, Instances, DoneStopped
<1>6. ASSUME NEW i \in on[p], le[p], i = inst[p], term[p] = "no"
      PROVE  ctx[p][i] # NoInst /\ starting[p][ctx[p][i]] = "late"
  <2>1. ctx[p][i] \in Inst
    BY <1>2, <1>6 DEF IInv, Shape, TypeOK, Instances, StartedInstances
  <2>2. elector[p][ctx[p][i]] \notin {"none", "acquiring"}
    BY <1>6, <2>1 DEF IInv, Instances, FreshElectors
  <2>3. elector[p][ctx[p][i]] = "done"
    <3>1. ASSUME Busy(p, ctx[p][i]) PROVE ctx[p][i] = awaiting[p]["reload"]
      BY <1>1, <1>6, <2>1, <3>1 DEF IInv, Electors, OneBusy
    <3> QED
      BY <1>1, <2>1, <2>2, <3>1 DEF Awaited, Busy
  <2> QED
    BY <1>6, <2>1, <2>3 DEF IInv, Instances, DoneStopped
<1>7. OnlyCurrentInstanceRuns'
  <2>1. ASSUME NEW q \in Pods, q # p, term'[q] = "no"
        PROVE  /\ \A i \in on'[q] :
                    i = inst'[q] \/ (ctx'[q][i] # NoInst /\ starting'[q][ctx'[q][i]] = "late")
               /\ plainOn'[q] \subseteq {inst'[q]}
    BY <1>1, <1>3, <2>1 DEF IInv, Instances, OnlyCurrentInstanceRuns
  <2>2. ASSUME term'[p] = "no", NEW i \in on'[p]
        PROVE  ctx'[p][i] # NoInst /\ starting'[p][ctx'[p][i]] = "late"
    BY <1>1, <1>3, <1>6, <2>2 DEF IInv, Instances, OnlyCurrentInstanceRuns
  <2>3. term'[p] = "no" => plainOn'[p] = {}
    BY <1>1, <1>3 DEF IInv, Instances, OnlyCurrentInstanceRuns
  <2> QED
    BY <2>1, <2>2, <2>3 DEF OnlyCurrentInstanceRuns
<1> QED
  BY <1>5, <1>7

(* What Reload starts is the new instance.                                 *)
LEMMA EndReloadRuns ==
  ASSUME IInv, NEW p \in Pods, EndReload(p)
  PROVE  DoneStopped' /\ OnlyCurrentInstanceRuns'
<1>0. /\ inst[p] \in Inst
      /\ StartAll(p, inst[p]) \/ StartPlainAndElect(p, inst[p]) \/ StartPlainOnly(p, inst[p])
  BY DEF EndReload, IInv, Shape, TypeOK, DeadIsEmpty, AliveHasInstance
<1>1. \A q \in Pods, h \in Inst : elector'[q][h] = "done" => elector[q][h] = "done"
  BY <1>0, Launched DEF IInv, Shape
<1>2. \A q \in Pods : on'[q] \subseteq Inst
  BY <1>0, StartAnyType DEF IInv, Shape
<1>3. \A q \in Pods, j \in Inst :
           j \in on'[q] => \/ j \in on[q] /\ ctx'[q][j] = ctx[q][j]
                           \/ j = inst[q] /\ ctx'[q][j] = NoInst
  BY <1>0, Joined
     DEF EndReload, StartAll, StartPlainAndElect, StartPlainOnly, IInv, Shape
<1>4. /\ UNCHANGED <<inst, term, starting>>
      /\ \A q \in Pods : plainOn'[q] \subseteq plainOn[q] \cup {inst[q]}
  BY DEF EndReload, StartAll, StartPlainAndElect, StartPlainOnly, IInv, Shape, TypeOK
<1>5. \A q \in Pods, j \in Inst : ctx[q][j] # NoInst => ctx[q][j] \in Inst
  BY DEF IInv, Shape, TypeOK
<1>6. DoneStopped'
  BY <1>1, <1>2, <1>3, <1>4, <1>5 DEF IInv, Instances, DoneStopped
<1>7. OnlyCurrentInstanceRuns'
  BY <1>2, <1>3, <1>4 DEF IInv, Instances, OnlyCurrentInstanceRuns
<1> QED
  BY <1>6, <1>7

(* A step that makes no elector done and starts nothing.                   *)
LEMMA DoneStoppedKept ==
  ASSUME IInv, UNCHANGED <<inst, ctx>>,
         \A q \in Pods : on'[q] \subseteq on[q],
         \A q \in Pods, h \in Inst : elector'[q][h] = "done" => elector[q][h] = "done",
         \A q \in Pods, h \in Inst : starting[q][h] = "late" => starting'[q][h] = "late"
  PROVE  DoneStopped'
<1>1. \A q \in Pods, j \in Inst : ctx[q][j] # NoInst => ctx[q][j] \in Inst
  BY DEF IInv, Shape, TypeOK
<1>2. \A q \in Pods : on[q] \subseteq Inst
  BY DEF IInv, Shape, TypeOK
<1> QED
  BY <1>1, <1>2 DEF IInv, Instances, DoneStopped

(* The three ways in which instances stop.                                 *)
LEMMA OnStoppedLeadingStopDone ==
  ASSUME IInv, NEW p \in Pods, NEW g \in Inst, OnStoppedLeadingStop(p, g)
  PROVE  DoneStopped'
<1>1. \A q \in Pods : q # p => on'[q] = on[q] /\ elector'[q] = elector[q]
  BY DEF IInv, Shape, TypeOK, OnStoppedLeadingStop
<1>2. inst[p] \notin on'[p]
  BY DEF IInv, Shape, TypeOK, OnStoppedLeadingStop
<1>3. UNCHANGED <<inst, ctx, starting>>
  BY DEF OnStoppedLeadingStop
<1> QED
  BY <1>1, <1>2, <1>3 DEF IInv, Instances, DoneStopped

LEMMA BeginShutdownDone ==
  ASSUME IInv, NEW p \in Pods, BeginShutdown(p)
  PROVE  DoneStopped'
<1>0. on' = on \/ on' = [on EXCEPT ![p] = @ \ {inst[p]}]
  BY DEF BeginShutdown
<1>1. \A q \in Pods : on'[q] \subseteq on[q]
  <2>1. CASE on' = on
    BY <2>1
  <2>2. CASE on' = [on EXCEPT ![p] = @ \ {inst[p]}]
    BY <2>2 DEF IInv, Shape, TypeOK
  <2> QED
    BY <1>0, <2>1, <2>2
<1>2. UNCHANGED <<elector, starting, ctx, inst>>
  BY DEF BeginShutdown
<1> QED
  BY <1>1, <1>2, DoneStoppedKept

LEMMA GoneDone ==
  ASSUME IInv, NEW p \in Pods, Gone(p)
  PROVE  DoneStopped'
<1>1. \A q \in Pods : q # p => /\ on'[q] = on[q] /\ elector'[q] = elector[q]
                               /\ inst'[q] = inst[q] /\ ctx'[q] = ctx[q]
                               /\ starting'[q] = starting[q]
  BY DEF IInv, Shape, TypeOK, Gone
<1>2. on'[p] = {}
  BY DEF IInv, Shape, TypeOK, Gone
<1> QED
  BY <1>1, <1>2 DEF IInv, Instances, DoneStopped

(* OnStoppedLeading stops the current instance as its last act.            *)
LEMMA NextDoneStopped == IInv /\ [Next]_vars => DoneStopped'
<1> SUFFICES ASSUME IInv, [Next]_vars PROVE DoneStopped'
  OBVIOUS
<1>0. /\ TypeOK
      /\ \A p \in Pods, g \in Inst : elector[p][g] = "acquiring" => starting[p][g] = "none"
      /\ \A p \in Pods, j \in Inst : ctx[p][j] # NoInst => ctx[p][j] \in Inst
  BY DEF IInv, Shape, TypeOK, Instances, FreshElectors
<1>23. DoneStopped
  BY DEF IInv, Instances
<1> USE <1>0 DEF TypeOK
<1>1. CASE Tick
  BY <1>1, DoneStoppedKept DEF Tick
<1>2. ASSUME NEW p \in Pods, NEW g \in Inst, Acquire(p, g) PROVE DoneStopped'
  BY <1>2, DoneStoppedKept DEF Acquire, MayTake, ElectorStep
<1>3. ASSUME NEW p \in Pods, NEW g \in Inst, ReplyLost(p, g) PROVE DoneStopped'
  BY <1>3, DoneStoppedKept DEF ReplyLost, MayTake
<1>4. ASSUME NEW p \in Pods, NEW g \in Inst, Renew(p, g) PROVE DoneStopped'
  BY <1>4, DoneStoppedKept DEF Renew
<1>5. ASSUME NEW p \in Pods, NEW g \in Inst, StopRenewing(p, g) PROVE DoneStopped'
  BY <1>5, DoneStoppedKept DEF StopRenewing, ElectorStep
<1>6. ASSUME NEW p \in Pods, NEW g \in Inst, Release(p, g) PROVE DoneStopped'
  BY <1>6, DoneStoppedKept DEF Release, ElectorStep
<1>7. ASSUME NEW p \in Pods, NEW g \in Inst, RunReturns(p, g) PROVE DoneStopped'
  BY <1>7, DoneStoppedKept DEF RunReturns, ElectorStep
<1>8. ASSUME NEW p \in Pods, NEW g \in Inst, OnStoppedLeadingFlag(p, g) PROVE DoneStopped'
  BY <1>8, DoneStoppedKept DEF OnStoppedLeadingFlag
<1>9. ASSUME NEW p \in Pods, NEW g \in Inst, OnStoppedLeadingStop(p, g) PROVE DoneStopped'
  BY <1>9, OnStoppedLeadingStopDone
<1>10. ASSUME NEW p \in Pods, NEW g \in Inst, OnStartedLeadingFlag(p, g) PROVE DoneStopped'
  BY <1>10, DoneStoppedKept DEF OnStartedLeadingFlag
<1>11. ASSUME NEW p \in Pods, NEW g \in Inst, OnStartedLeadingStart(p, g) PROVE DoneStopped'
  BY <1>11, OnStartedLeadingStartRuns
<1>12. ASSUME NEW p \in Pods, NEW e \in Modes, Boot(p, e) PROVE DoneStopped'
  BY <1>12, BootRuns
<1>13. ASSUME NEW p \in Pods, BeginReload(p) PROVE DoneStopped'
  BY <1>13, DoneStoppedKept DEF BeginReload, TakeHandles, CancelAll
<1>14. ASSUME NEW p \in Pods, NEW e \in Modes, Reinitialize(p, e) PROVE DoneStopped'
  BY <1>14, ReinitializeRuns
<1>15. ASSUME NEW p \in Pods, EndReload(p) PROVE DoneStopped'
  BY <1>15, EndReloadRuns
<1>16. ASSUME NEW p \in Pods, Signal(p) PROVE DoneStopped'
  BY <1>16, DoneStoppedKept DEF Signal
<1>17. ASSUME NEW p \in Pods, BeginShutdown(p) PROVE DoneStopped'
  BY <1>17, BeginShutdownDone
<1>18. ASSUME NEW p \in Pods, Exit(p) PROVE DoneStopped'
  BY <1>18, GoneDone DEF Exit
<1>19. ASSUME NEW p \in Pods, Crash(p) PROVE DoneStopped'
  BY <1>19, GoneDone DEF Crash
<1>20. CASE UNCHANGED vars
  BY <1>20, <1>23 DEF vars, DoneStopped
<1> HIDE <1>0 DEF TypeOK
<1>21. ASSUME NEW p \in Pods, NEW g \in Inst, Elector(p, g) \/ OnStartedLeading(p, g)
       PROVE  DoneStopped'
  BY <1>2, <1>3, <1>4, <1>5, <1>6, <1>7, <1>8, <1>9, <1>10, <1>11, <1>21
     DEF Elector, OnStartedLeading
<1>22. ASSUME NEW p \in Pods, Reload(p) \/ Shutdown(p) PROVE DoneStopped'
  BY <1>13, <1>14, <1>15, <1>16, <1>17, <1>18, <1>22 DEF Reload, Shutdown
<1> QED
  BY <1>1, <1>12, <1>19, <1>20, <1>21, <1>22 DEF Next

(* Only Reinitialize replaces an instance.                                 *)
LEMMA NextOnlyCurrent == IInv /\ [Next]_vars => OnlyCurrentInstanceRuns'
<1> SUFFICES ASSUME IInv, [Next]_vars PROVE OnlyCurrentInstanceRuns'
  OBVIOUS
<1> USE DEF IInv, Shape, TypeOK, DeadIsEmpty, AliveHasInstance, Instances,
            FreshElectors, OnlyCurrentInstanceRuns
<1>1. CASE Tick
  BY <1>1 DEF Tick
<1>2. ASSUME NEW p \in Pods, NEW g \in Inst, Acquire(p, g) PROVE OnlyCurrentInstanceRuns'
  BY <1>2 DEF Acquire, MayTake, ElectorStep
<1>3. ASSUME NEW p \in Pods, NEW g \in Inst, ReplyLost(p, g) PROVE OnlyCurrentInstanceRuns'
  BY <1>3 DEF ReplyLost, MayTake
<1>4. ASSUME NEW p \in Pods, NEW g \in Inst, Renew(p, g) PROVE OnlyCurrentInstanceRuns'
  BY <1>4 DEF Renew
<1>5. ASSUME NEW p \in Pods, NEW g \in Inst, StopRenewing(p, g) PROVE OnlyCurrentInstanceRuns'
  BY <1>5 DEF StopRenewing, ElectorStep
<1>6. ASSUME NEW p \in Pods, NEW g \in Inst, Release(p, g) PROVE OnlyCurrentInstanceRuns'
  BY <1>6 DEF Release, ElectorStep
<1>7. ASSUME NEW p \in Pods, NEW g \in Inst, RunReturns(p, g) PROVE OnlyCurrentInstanceRuns'
  BY <1>7 DEF RunReturns, ElectorStep
<1>8. ASSUME NEW p \in Pods, NEW g \in Inst, OnStoppedLeadingFlag(p, g) PROVE OnlyCurrentInstanceRuns'
  BY <1>8 DEF OnStoppedLeadingFlag
<1>9. ASSUME NEW p \in Pods, NEW g \in Inst, OnStoppedLeadingStop(p, g) PROVE OnlyCurrentInstanceRuns'
  BY <1>9 DEF OnStoppedLeadingStop
<1>10. ASSUME NEW p \in Pods, NEW g \in Inst, OnStartedLeadingFlag(p, g) PROVE OnlyCurrentInstanceRuns'
  BY <1>10 DEF OnStartedLeadingFlag
<1>11. ASSUME NEW p \in Pods, NEW g \in Inst, OnStartedLeadingStart(p, g) PROVE OnlyCurrentInstanceRuns'
  BY <1>11, OnStartedLeadingStartRuns
<1>12. ASSUME NEW p \in Pods, NEW e \in Modes, Boot(p, e) PROVE OnlyCurrentInstanceRuns'
  BY <1>12, BootRuns
<1>13. ASSUME NEW p \in Pods, BeginReload(p) PROVE OnlyCurrentInstanceRuns'
  BY <1>13 DEF BeginReload, TakeHandles, CancelAll
<1>14. ASSUME NEW p \in Pods, NEW e \in Modes, Reinitialize(p, e) PROVE OnlyCurrentInstanceRuns'
  BY <1>14, ReinitializeRuns
<1>15. ASSUME NEW p \in Pods, EndReload(p) PROVE OnlyCurrentInstanceRuns'
  BY <1>15, EndReloadRuns
<1>16. ASSUME NEW p \in Pods, Signal(p) PROVE OnlyCurrentInstanceRuns'
  BY <1>16 DEF Signal
<1>17. ASSUME NEW p \in Pods, BeginShutdown(p) PROVE OnlyCurrentInstanceRuns'
  BY <1>17 DEF BeginShutdown, TakeHandles, CancelAll
<1>18. ASSUME NEW p \in Pods, Exit(p) PROVE OnlyCurrentInstanceRuns'
  BY <1>18 DEF Exit, Gone
<1>19. ASSUME NEW p \in Pods, Crash(p) PROVE OnlyCurrentInstanceRuns'
  BY <1>19 DEF Crash, Gone
<1>20. CASE UNCHANGED vars
  BY <1>20 DEF vars
<1> HIDE DEF IInv, Shape, TypeOK, DeadIsEmpty, AliveHasInstance, Instances,
            FreshElectors, OnlyCurrentInstanceRuns
<1>21. ASSUME NEW p \in Pods, NEW g \in Inst, Elector(p, g) \/ OnStartedLeading(p, g)
       PROVE  OnlyCurrentInstanceRuns'
  BY <1>2, <1>3, <1>4, <1>5, <1>6, <1>7, <1>8, <1>9, <1>10, <1>11, <1>21
     DEF Elector, OnStartedLeading
<1>22. ASSUME NEW p \in Pods, Reload(p) \/ Shutdown(p) PROVE OnlyCurrentInstanceRuns'
  BY <1>13, <1>14, <1>15, <1>16, <1>17, <1>18, <1>22 DEF Reload, Shutdown
<1> QED
  BY <1>1, <1>12, <1>19, <1>20, <1>21, <1>22 DEF Next

LEMMA InitInvariant == Init => IInv
<1>1. Init => Shape
  BY DEF Init, Shape, TypeOK, DeadIsEmpty, AliveHasInstance
<1>2. Init => Electors
  BY DEF Init, Electors, LeaderInTime, OneBusy, OnePast, PastIsTracked,
         FutureElectors, Leads, Past, Busy
<1>3. Init => Instances
  BY DEF Init, Instances, FreshElectors, StartedInstances,
         DoneStopped, OnlyCurrentInstanceRuns
<1> QED
  BY <1>1, <1>2, <1>3 DEF IInv

LEMMA NextInvariant == IInv /\ [Next]_vars => IInv'
  BY NextShape, NextLeaderInTime, NextOneBusy, NextOnePast, NextPastIsTracked,
     NextFutureElectors, NextFreshElectors, NextStartedInstances, NextDoneStopped,
     NextOnlyCurrent
     DEF IInv, Electors, Instances

LEMMA Invariant == Spec => []IInv
  BY InitInvariant, NextInvariant, PTL DEF Spec

(* With a margin, a leader is the holder.                                  *)
LEMMA LeaderIsHolder ==
  ASSUME IInv, TimingsLeaveMargin, NEW p \in Pods, NEW g \in Inst, Leads(p, g)
  PROVE  holder = p /\ age < LeaseDuration
<1>1. SinceRenewal(p) < LeaseDuration
  BY DEF IInv, Electors, LeaderInTime, TimingsLeaveMargin, SinceRenewal, Shape, TypeOK
<1> QED
  BY <1>1 DEF SinceRenewal, IInv, Shape, TypeOK

(* Two leaders would both be the holder, or two electors of one pod.       *)
LEMMA UniqueFromInvariant == IInv => LeaderUnique
<1> SUFFICES ASSUME IInv, NEW x \in Leaders, NEW y \in Leaders,
                    x[1] = y[1] \/ TimingsLeaveMargin
             PROVE  x = y
  BY DEF LeaderUnique
<1>1. PICK p \in Pods, g \in Inst : x = <<p, g>> /\ Leads(p, g)
  BY DEF Leaders
<1>2. PICK q \in Pods, h \in Inst : y = <<q, h>> /\ Leads(q, h)
  BY DEF Leaders
<1>3. p = q
  BY <1>1, <1>2, LeaderIsHolder
<1>4. g = h
  BY <1>1, <1>2, <1>3 DEF IInv, Electors, OnePast, Past, Leads
<1> QED
  BY <1>1, <1>2, <1>3, <1>4

(* An elector whose instance collects has led and, unless it is on its way *)
(* out, leads.                                                             *)
LEMMA OverlapFromInvariant == IInv => OverlapOnlyAfterLostRenewal
<1> SUFFICES ASSUME IInv, NEW p \in Pods, NEW q \in Pods, NEW i \in Inst, NEW j \in Inst,
                    p # q,
                    Collecting(p, i), ctx[p][i] # NoInst,
                    Collecting(q, j), ctx[q][j] # NoInst,
                    ~OnItsWayOut(p, ctx[p][i]), ~OnItsWayOut(q, ctx[q][j])
             PROVE  FALSE
  BY DEF OverlapOnlyAfterLostRenewal
<1>1. ASSUME NEW r \in Pods, NEW k \in Inst, Collecting(r, k), ctx[r][k] # NoInst,
             ~OnItsWayOut(r, ctx[r][k])
      PROVE  ctx[r][k] \in Inst /\ Leads(r, ctx[r][k])
  <2>1. ctx[r][k] \in Inst /\ elector[r][ctx[r][k]] \in ElectorState
    BY <1>1 DEF IInv, Shape, TypeOK
  <2>2. elector[r][ctx[r][k]] \notin {"none", "acquiring"}
    BY <1>1, <2>1 DEF IInv, Instances, FreshElectors, Collecting
  <2>3. elector[r][ctx[r][k]] # "done"
    BY <1>1 DEF IInv, Instances, DoneStopped, Collecting, OnItsWayOut
  <2> QED
    BY <1>1, <2>1, <2>2, <2>3 DEF OnItsWayOut, Leads
<1>2. Leads(p, ctx[p][i]) /\ Leads(q, ctx[q][j]) /\ ctx[p][i] \in Inst /\ ctx[q][j] \in Inst
  BY <1>1
<1>3. CASE TimingsLeaveMargin
  BY <1>2, <1>3, LeaderIsHolder
<1>4. CASE ~TimingsLeaveMargin
  BY <1>2, <1>4 DEF OnItsWayOut
<1> QED
  BY <1>3, <1>4

-----------------------------------------------------------------------------
(* Every variable keeps its type.                                          *)
THEOREM TypeCorrect == Spec => []TypeOK
<1>1. IInv => TypeOK
  BY DEF IInv, Shape
<1> QED
  BY <1>1, Invariant, PTL

(* No two electors of a pod renew the Lease at the same time, before and   *)
(* after a reload; nor do those of two pods, unless the durations, which   *)
(* Validate accepts, leave no margin.                                      *)
THEOREM UniqueLeader == Spec => []LeaderUnique
  BY UniqueFromInvariant, Invariant, PTL

(* Two pods expose what they collect under leadership at the same time     *)
(* only while the elector of one of them is on its way out.                *)
THEOREM OverlapBounded == Spec => []OverlapOnlyAfterLostRenewal
  BY OverlapFromInvariant, Invariant, PTL

(* Reload leaves no replaced instance running but one that was started     *)
(* after its elector had stopped it.                                       *)
THEOREM CurrentOnly == Spec => []OnlyCurrentInstanceRuns
<1>1. IInv => OnlyCurrentInstanceRuns
  BY DEF IInv, Instances
<1> QED
  BY <1>1, Invariant, PTL

(* Without a Reload in flight, Shutdown leaves no elector behind that      *)
(* holds the Lease.                                                        *)
THEOREM NoneAbandoned == Spec => []NoElectorAbandoned
<1>1. IInv => NoElectorAbandoned
  BY DEF IInv, Electors, PastIsTracked, Past, NoElectorAbandoned, Awaited
<1> QED
  BY <1>1, Invariant, PTL

-----------------------------------------------------------------------------
(* Only Acquire makes an elector a leader.                                 *)
LEMMA OnlyAcquireLeads ==
  ASSUME IInv, [Next]_vars, \A p \in Pods, g \in Inst : ~Acquire(p, g)
  PROVE  \A q \in Pods, h \in Inst : Leads(q, h)' => Leads(q, h)
<1>1. CASE UNCHANGED elector
  BY <1>1 DEF Leads
<1>2. ASSUME NEW p \in Pods, NEW g \in Inst,
             \/ StopRenewing(p, g) \/ Release(p, g) \/ RunReturns(p, g)
             \/ OnStoppedLeadingFlag(p, g) \/ OnStoppedLeadingStop(p, g)
      PROVE  \A q \in Pods, h \in Inst : Leads(q, h)' => Leads(q, h)
  <2>1. PICK to \in ElectorState \ {"leading"} : elector' = [elector EXCEPT ![p][g] = to]
    BY <1>2 DEF StopRenewing, Release, RunReturns, ElectorStep, OnStoppedLeadingFlag,
                OnStoppedLeadingStop
  <2> QED
    BY <2>1 DEF IInv, Shape, TypeOK, Leads
<1>3. ASSUME NEW p \in Pods, NEW i \in Inst,
             StartAll(p, i) \/ StartPlainAndElect(p, i) \/ StartPlainOnly(p, i)
      PROVE  \A q \in Pods, h \in Inst : Leads(q, h)' => Leads(q, h)
  BY <1>3, Launched DEF IInv, Shape, Leads
<1>4. ASSUME NEW p \in Pods, NEW e \in Modes, Boot(p, e)
      PROVE  \A q \in Pods, h \in Inst : Leads(q, h)' => Leads(q, h)
  BY <1>3, <1>4 DEF Boot
<1>5. ASSUME NEW p \in Pods, EndReload(p)
      PROVE  \A q \in Pods, h \in Inst : Leads(q, h)' => Leads(q, h)
  BY <1>3, <1>5 DEF EndReload, IInv, Shape, TypeOK, DeadIsEmpty, AliveHasInstance
<1>6. ASSUME NEW p \in Pods, Gone(p)
      PROVE  \A q \in Pods, h \in Inst : Leads(q, h)' => Leads(q, h)
  BY <1>6 DEF Gone, IInv, Shape, TypeOK, Leads
<1> QED
  BY <1>1, <1>2, <1>4, <1>5, <1>6
     DEF vars, Next, Elector, OnStartedLeading, Reload, Shutdown, Tick,
            ReplyLost, Renew,
         OnStartedLeadingFlag, OnStartedLeadingStart, BeginReload, Reinitialize, Signal,
         BeginShutdown, Exit, Crash

(* What Acquire makes of the leaders.                                      *)
LEMMA AcquireLeads ==
  ASSUME IInv, NEW p \in Pods, NEW g \in Inst, Acquire(p, g)
  PROVE  /\ \A h \in Inst : ~Leads(p, h)
         /\ \A q \in Pods, h \in Inst : Leads(q, h)' <=> Leads(q, h) \/ (q = p /\ h = g)
<1>1. ASSUME NEW h \in Inst, Leads(p, h) PROVE FALSE
  <2>1. h = g
    BY <1>1 DEF IInv, Electors, OneBusy, Busy, Leads, Acquire, Cancelled
  <2> QED
    BY <1>1, <2>1 DEF Acquire, Leads
<1>2. \A q \in Pods, h \in Inst : Leads(q, h)' <=> Leads(q, h) \/ (q = p /\ h = g)
  BY DEF IInv, Shape, TypeOK, Leads, Acquire, ElectorStep
<1> QED
  BY <1>1, <1>2

(* A step makes an elector a leader only if there was none.                *)
LEMMA LeadersStep ==
  ASSUME IInv, TimingsLeaveMargin, [Next]_vars
  PROVE  \/ Leaders' \subseteq Leaders
         \/ Leaders = {} /\ \E pg \in Pods \X Inst : Leaders' = {pg}
<1>1. ASSUME NEW p \in Pods, NEW g \in Inst, Acquire(p, g)
      PROVE  Leaders = {} /\ Leaders' = {<<p, g>>}
  <2>1. \A q \in Pods, h \in Inst : ~Leads(q, h)
    <3> SUFFICES ASSUME NEW q \in Pods, NEW h \in Inst, Leads(q, h) PROVE FALSE
      OBVIOUS
    <3>1. holder = q /\ age < LeaseDuration
      BY LeaderIsHolder
    <3>2. q = p
      BY <1>1, <3>1 DEF Acquire, MayTake, IInv, Shape, TypeOK
    <3> QED
      BY <1>1, <3>2, AcquireLeads
  <2> QED
    BY <1>1, <2>1, AcquireLeads DEF Leaders
<1> QED
  BY <1>1, OnlyAcquireLeads DEF Leaders

(* In one pod, whatever the durations: a step makes an elector a leader    *)
(* only if the pod had none.                                               *)
LEMMA PodLeadersStep ==
  ASSUME IInv, [Next]_vars, NEW p \in Pods
  PROVE  /\ \A g, h \in LeadersOf(p) : g = h
         /\ \/ LeadersOf(p)' \subseteq LeadersOf(p)
            \/ LeadersOf(p) = {} /\ \E g \in Inst : LeadersOf(p)' = {g}
<1>1. \A g, h \in LeadersOf(p) : g = h
  BY DEF IInv, Electors, OnePast, Past, LeadersOf, Leads
<1>2. ASSUME NEW g \in Inst, Acquire(p, g)
      PROVE  LeadersOf(p) = {} /\ LeadersOf(p)' = {g}
  BY <1>2, AcquireLeads DEF LeadersOf
<1>3. ASSUME NEW q \in Pods, NEW g \in Inst, Acquire(q, g), q # p
      PROVE  LeadersOf(p)' \subseteq LeadersOf(p)
  BY <1>3, AcquireLeads DEF LeadersOf
<1>4. ASSUME \A q \in Pods, g \in Inst : ~Acquire(q, g)
      PROVE  LeadersOf(p)' \subseteq LeadersOf(p)
  BY <1>4, OnlyAcquireLeads DEF LeadersOf
<1> QED
  BY <1>1, <1>2, <1>3, <1>4

(* For all durations that Validate accepts: the electors of a pod, before  *)
(* and after a reload or a restart of its process, refine the slot that    *)
(* LeaderSlot specifies.                                                   *)
THEOREM PodSlotsImplemented == Spec => ImplementsPodSlots
<1> SUFFICES ASSUME NEW p \in Pods PROVE Spec => PodSlot(p)!Spec
  BY DEF ImplementsPodSlots
<1> DEFINE bar == IF LeadersOf(p) = {} THEN NoInst ELSE CHOOSE g \in LeadersOf(p) : TRUE
<1>1. Init => PodSlot(p)!Init
  <2>1. Init => LeadersOf(p) = {}
    BY DEF Init, LeadersOf, Leads
  <2> QED
    BY <2>1 DEF PodSlot!Init
<1>2. IInv /\ [Next]_vars => [PodSlot(p)!Next]_bar
  <2> SUFFICES ASSUME IInv, [Next]_vars PROVE [PodSlot(p)!Next]_bar
    OBVIOUS
  <2>1. /\ \A g, h \in LeadersOf(p) : g = h
        /\ LeadersOf(p) # {} => bar \in LeadersOf(p) /\ bar # NoInst
    BY PodLeadersStep DEF LeadersOf
  <2>2. CASE LeadersOf(p)' = LeadersOf(p)
    BY <2>2
  <2>3. CASE LeadersOf(p)' = {} /\ LeadersOf(p) # {}
    BY <2>1, <2>3 DEF PodSlot!Next, PodSlot!Leave
  <2>4. ASSUME NEW g \in Inst, LeadersOf(p) = {}, LeadersOf(p)' = {g}
        PROVE  PodSlot(p)!Next
    <3>1. bar = NoInst /\ bar' = g
      BY <2>4
    <3> QED
      BY <3>1 DEF PodSlot!Next, PodSlot!Take
  <2>5. LeadersOf(p)' \subseteq LeadersOf(p) =>
          LeadersOf(p)' = LeadersOf(p) \/ (LeadersOf(p)' = {} /\ LeadersOf(p) # {})
    BY <2>1
  <2> QED
    BY <2>2, <2>3, <2>4, <2>5, PodLeadersStep
<1> QED
  BY <1>1, <1>2, Invariant, PTL DEF Spec, PodSlot!Spec

(* If the durations leave a margin - Validate does not see to it -, the    *)
(* leaders refine the slot that LeaderSlot specifies.                      *)
THEOREM SlotImplemented == TimingsLeaveMargin => (Spec => ImplementsSlot)
<1> SUFFICES ASSUME TimingsLeaveMargin PROVE Spec => ImplementsSlot
  OBVIOUS
<1> DEFINE bar == IF Leaders = {} THEN <<NoPod, NoInst>> ELSE CHOOSE pg \in Leaders : TRUE
<1>1. Init => Slot!Init
  <2>1. Init => Leaders = {}
    BY DEF Init, Leaders, Leads
  <2> QED
    BY <2>1 DEF Slot!Init
<1>2. IInv /\ LeaderUnique /\ LeaderUnique' /\ [Next]_vars => [Slot!Next]_bar
  <2> SUFFICES ASSUME IInv, LeaderUnique, LeaderUnique', [Next]_vars PROVE [Slot!Next]_bar
    OBVIOUS
  <2>1. /\ \A x, y \in Leaders : x = y
        /\ \A x, y \in Leaders' : x = y
    BY DEF LeaderUnique, TimingsLeaveMargin
  <2>2. Leaders # {} => bar \in Leaders /\ bar # <<NoPod, NoInst>>
    BY DEF Leaders
  <2>3. CASE Leaders' = Leaders
    BY <2>3
  <2>4. CASE Leaders' = {} /\ Leaders # {}
    BY <2>2, <2>4 DEF Slot!Next, Slot!Leave
  <2>5. ASSUME NEW pg \in Pods \X Inst, Leaders = {}, Leaders' = {pg}
        PROVE  Slot!Next
    <3>1. bar = <<NoPod, NoInst>> /\ bar' = pg
      BY <2>5
    <3> QED
      BY <3>1 DEF Slot!Next, Slot!Take
  <2>6. Leaders' \subseteq Leaders => Leaders' = Leaders \/ (Leaders' = {} /\ Leaders # {})
    BY <2>1
  <2> QED
    BY <2>3, <2>4, <2>5, <2>6, LeadersStep
<1> QED
  BY <1>1, <1>2, Invariant, UniqueLeader, PTL DEF Spec, ImplementsSlot, Slot!Spec
=============================================================================
