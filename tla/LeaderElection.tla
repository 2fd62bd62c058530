--------------------------- MODULE LeaderElection ---------------------------
(***************************************************************************)
(* Which pod runs a leader-managed collector: the server (src/server), the *)
(* elector it runs for the collector (src/pkg/leaderelection over          *)
(* client-go), the registry's collector instances and the Lease object the *)
(* pods compete for.                                                       *)
(*                                                                         *)
(* Electors of different collectors share nothing but the server's reload  *)
(* and shutdown, so the module follows one leader-managed collector, its   *)
(* Lease, and the plain (non-leader) collectors as a group.                *)
(*                                                                         *)
(* Every (re)initialisation of a pod's registry creates a new instance of  *)
(* the collector and, if leader election is enabled, one elector: instance *)
(* i of a pod and its elector share the number i.  The callbacks of an     *)
(* elector name the collector, not the instance: they reach whatever       *)
(* instance the registry holds when they run.                              *)
(*                                                                         *)
(* Time is counted in ticks since the Lease was last written.              *)
(*                                                                         *)
(* An operator named Slip... is not part of the specification: it is the   *)
(* definition that follows it with a plausible mistake, kept here to check *)
(* that the properties at the end notice the mistake.                      *)
(***************************************************************************)
EXTENDS Naturals, FiniteSets

CONSTANTS
  Pods,           \* replicas of the deployment
  NoPod,          \* the holder identity of a released Lease
  Operated,       \* bound: pods that are reloaded and sent SIGTERM
  MaxInst,        \* bound: registry initialisations in one process
  MaxBoots,       \* bound: process starts, over all pods
  Modes,          \* values of leaderElection.enabled the configuration takes
  LeaseDuration,  \* ticks after which others may take an unrenewed Lease
  RenewDeadline,  \* ticks for which a leader retries a renewal
  RetryPeriod     \* ticks between renewals

ASSUME NoPodAssumption == NoPod \notin Pods
ASSUME BoundsAssumption == /\ Operated \subseteq Pods
                           /\ MaxInst \in Nat \ {0}
                           /\ MaxBoots \in Nat
ASSUME ModesAssumption == Modes \subseteq BOOLEAN
(* What Validate demands of the durations.                                 *)
ASSUME TimingAssumption == /\ LeaseDuration \in Nat
                           /\ RenewDeadline \in Nat
                           /\ RetryPeriod \in Nat
                           /\ RenewDeadline < LeaseDuration

(* What it does not demand: that a leader has time to give up before its   *)
(* Lease may be taken.  Its last renewal was RetryPeriod before the        *)
(* attempts that fail for RenewDeadline.                                   *)
TimingsLeaveMargin == RetryPeriod + RenewDeadline < LeaseDuration

Inst == 1 .. MaxInst
NoInst == 0      \* no elector; as a context: the server's own context

VARIABLES
  holder,     \* holderIdentity of the Lease
  age,        \* ticks since the Lease was written, up to LeaseDuration
  boots,      \* process starts so far
  alive,      \* is the pod's process running
  le,         \* s.config.LeaderElection.Enabled
  inst,       \* the instance in the registry
  handle,     \* the elector in s.leaderElectors
  reload,     \* where Reload is, under s.mu
  term,       \* where SIGTERM and Shutdown are
  awaiting,   \* the doneCh that Reload and Shutdown wait for
  elector,    \* what Run of each elector is doing
  cancelReq,  \* electors whose handle was cancelled
  starting,   \* the goroutine that runs OnStartedLeading
  isLeader,   \* electors with the isLeader flag set
  on,         \* instances of the collector that are started
  ctx,        \* the elector whose callback started an instance, or NoInst
  plainOn     \* instances of the plain collectors that are started

lease == <<holder, age>>
server == <<boots, alive, le, inst, handle, reload, term, awaiting, cancelReq>>
callbacks == <<elector, starting, isLeader>>
collectors == <<on, ctx, plainOn>>
vars == <<lease, server, callbacks, collectors>>

ElectorState == {"none", "acquiring", "leading", "lost", "released",
                 "stopping", "unflagged", "done"}
CallbackState == {"none", "spawned", "flagged", "finished", "late"}

(* Type correctness of the variables.                                      *)
TypeOK ==
  /\ holder \in Pods \cup {NoPod}
  /\ age \in 0 .. LeaseDuration
  /\ boots \in 0 .. MaxBoots
  /\ alive \in [Pods -> BOOLEAN]
  /\ le \in [Pods -> BOOLEAN]
  /\ inst \in [Pods -> Inst \cup {NoInst}]
  /\ handle \in [Pods -> Inst \cup {NoInst}]
  /\ reload \in [Pods -> {"idle", "stopping", "starting"}]
  /\ term \in [Pods -> {"no", "signalled", "stopping"}]
  /\ awaiting \in [Pods -> [{"reload", "shutdown"} -> Inst \cup {NoInst}]]
  /\ cancelReq \in [Pods -> SUBSET Inst]
  /\ elector \in [Pods -> [Inst -> ElectorState]]
  /\ starting \in [Pods -> [Inst -> CallbackState]]
  /\ isLeader \in [Pods -> SUBSET Inst]
  /\ on \in [Pods -> SUBSET Inst]
  /\ ctx \in [Pods -> [Inst -> Inst \cup {NoInst}]]
  /\ plainOn \in [Pods -> SUBSET Inst]

Init ==
  /\ holder = NoPod
  /\ age = 0
  /\ boots = 0
  /\ alive = [p \in Pods |-> FALSE]
  /\ le = [p \in Pods |-> FALSE]
  /\ inst = [p \in Pods |-> NoInst]
  /\ handle = [p \in Pods |-> NoInst]
  /\ reload = [p \in Pods |-> "idle"]
  /\ term = [p \in Pods |-> "no"]
  /\ awaiting = [p \in Pods |-> [t \in {"reload", "shutdown"} |-> NoInst]]
  /\ cancelReq = [p \in Pods |-> {}]
  /\ elector = [p \in Pods |-> [g \in Inst |-> "none"]]
  /\ starting = [p \in Pods |-> [g \in Inst |-> "none"]]
  /\ isLeader = [p \in Pods |-> {}]
  /\ on = [p \in Pods |-> {}]
  /\ ctx = [p \in Pods |-> [i \in Inst |-> NoInst]]
  /\ plainOn = [p \in Pods |-> {}]

-----------------------------------------------------------------------------
(* The elector's context is done: its handle was cancelled, or the server  *)
(* context it derives from was.                                            *)
Cancelled(p, g) == g \in cancelReq[p] \/ term[p] # "no"

(* Slip: whoever did not renew is not displaced.                           *)
SlipMayTake(p) == holder \in {NoPod, p}

(* client-go: a Lease can be written by its holder, when it was released,  *)
(* and when nobody renewed it for LeaseDuration.                           *)
MayTake(p) == holder \in {NoPod, p} \/ age >= LeaseDuration

Leads(p, g) == elector[p][g] = "leading"

(* The least time since a leader of p wrote the Lease: another pod that    *)
(* took it from p found it unrenewed for LeaseDuration.                    *)
SinceRenewal(p) == IF holder = p THEN age ELSE LeaseDuration + age

(* Collect exposes what the instance in the registry has for as long as it *)
(* is started.  It asks neither who leads nor whether the context that     *)
(* instance was started with is still live.                                *)
Collecting(p, i) == i = inst[p] /\ i \in on[p]

-----------------------------------------------------------------------------
(* The Lease and client-go's elector.                                      *)

(* Time passes, but a leader renews or gives up before its deadline.       *)
Tick ==
  /\ age < LeaseDuration
  /\ \A p \in Pods, g \in Inst :
       Leads(p, g) => SinceRenewal(p) < RetryPeriod + RenewDeadline
  /\ age' = age + 1
  /\ UNCHANGED <<holder, server, callbacks, collectors>>

ElectorStep(p, g, to) ==
  /\ elector' = [elector EXCEPT ![p][g] = to]
  /\ UNCHANGED <<server, isLeader, collectors>>

(* acquire succeeds: the callback runs in a goroutine of its own, renew in *)
(* this one.                                                               *)
Acquire(p, g) ==
  /\ elector[p][g] = "acquiring"
  /\ ~Cancelled(p, g)
  /\ MayTake(p)
  /\ holder' = p
  /\ age' = 0
  /\ starting' = [starting EXCEPT ![p][g] = "spawned"]
  /\ ElectorStep(p, g, "leading")

(* The API server writes the Lease and the reply is lost.                  *)
ReplyLost(p, g) ==
  /\ elector[p][g] = "acquiring"
  /\ ~Cancelled(p, g)
  /\ MayTake(p)
  /\ holder' = p
  /\ age' = 0
  /\ UNCHANGED <<server, callbacks, collectors>>

(* The same write as acquire's.                                            *)
Renew(p, g) ==
  /\ Leads(p, g)
  /\ ~Cancelled(p, g)
  /\ MayTake(p)
  /\ holder' = p
  /\ age' = 0
  /\ UNCHANGED <<server, callbacks, collectors>>

(* renew returns: renewals failed for RenewDeadline, or its context is     *)
(* done.                                                                   *)
StopRenewing(p, g) ==
  /\ Leads(p, g)
  /\ Cancelled(p, g) \/ SinceRenewal(p) >= RenewDeadline
  /\ ElectorStep(p, g, "lost")
  /\ UNCHANGED <<lease, starting>>

(* ReleaseOnCancel: give the Lease up, if the API server can be reached    *)
(* and it is still ours.                                                   *)
Release(p, g) ==
  /\ elector[p][g] = "lost"
  /\ ElectorStep(p, g, "released")
  /\ \/ holder = p /\ holder' = NoPod
     \/ UNCHANGED holder
  /\ UNCHANGED <<age, starting>>

(* Run returns: its deferred cancel of the callback's context first - the  *)
(* informers of an instance do not look at it -, OnStoppedLeading next,    *)
(* also for an elector that never led.                                     *)
RunReturns(p, g) ==
  /\ \/ elector[p][g] = "released"
     \/ elector[p][g] = "acquiring" /\ Cancelled(p, g)
  /\ ElectorStep(p, g, "stopping")
  /\ UNCHANGED <<lease, starting>>

-----------------------------------------------------------------------------
(* The callbacks of pkg/leaderelection and server.setupLeaderElections.    *)

OnStartedLeadingFlag(p, g) ==
  /\ starting[p][g] = "spawned"
  /\ starting' = [starting EXCEPT ![p][g] = "flagged"]
  /\ isLeader' = [isLeader EXCEPT ![p] = @ \cup {g}]
  /\ UNCHANGED <<lease, server, elector, collectors>>

(* Instance i, the one in the registry, starts under context c - or not,   *)
(* because it is started already or its OnStart hook fails; the error is   *)
(* logged and nobody tries again.                                          *)
StartInstance(p, i, c) ==
  \/ /\ i \notin on[p]
     /\ on' = [on EXCEPT ![p] = @ \cup {i}]
     /\ ctx' = [ctx EXCEPT ![p][i] = c]
  \/ UNCHANGED <<on, ctx>>

(* registry.StartCollector(ctx, name), with the context of elector g.  The *)
(* goroutine is late if the elector stopped the collector before.          *)
OnStartedLeadingStart(p, g) ==
  /\ starting[p][g] = "flagged"
  /\ starting' = [starting EXCEPT ![p][g] =
                     IF elector[p][g] = "done" THEN "late" ELSE "finished"]
  /\ StartInstance(p, inst[p], g)
  /\ UNCHANGED <<lease, server, elector, isLeader, plainOn>>

OnStoppedLeadingFlag(p, g) ==
  /\ elector[p][g] = "stopping"
  /\ elector' = [elector EXCEPT ![p][g] = "unflagged"]
  /\ isLeader' = [isLeader EXCEPT ![p] = @ \ {g}]
  /\ UNCHANGED <<lease, server, starting, collectors>>

(* Slip: the error of stopping a stopped collector keeps Run from returning. *)
SlipOnStoppedLeadingStop(p, g) ==
  /\ elector[p][g] = "unflagged"
  /\ inst[p] \in on[p]
  /\ elector' = [elector EXCEPT ![p][g] = "done"]
  /\ on' = [on EXCEPT ![p] = @ \ {inst[p]}]
  /\ UNCHANGED <<lease, server, starting, isLeader, ctx, plainOn>>

(* Slip: the collector is stopped only by an elector whose flag is set,    *)
(* which it has just cleared.                                              *)
SlipOnStoppedLeadingKeep(p, g) ==
  /\ elector[p][g] = "unflagged"
  /\ elector' = [elector EXCEPT ![p][g] = "done"]
  /\ on' = IF g \in isLeader[p] THEN [on EXCEPT ![p] = @ \ {inst[p]}] ELSE on
  /\ UNCHANGED <<lease, server, starting, isLeader, ctx, plainOn>>

(* registry.StopCollector(name), then Run's goroutine closes doneCh.       *)
OnStoppedLeadingStop(p, g) ==
  /\ elector[p][g] = "unflagged"
  /\ elector' = [elector EXCEPT ![p][g] = "done"]
  /\ on' = [on EXCEPT ![p] = @ \ {inst[p]}]
  /\ UNCHANGED <<lease, server, starting, isLeader, ctx, plainOn>>

-----------------------------------------------------------------------------
(* The server.                                                             *)

(* startCollectors on instance i: everything under the server's context;   *)
(* or the plain collectors, and an elector unless the Kubernetes client    *)
(* cannot be built.                                                        *)
StartAll(p, i) ==
  /\ plainOn' = [plainOn EXCEPT ![p] = @ \cup {i}]
  /\ StartInstance(p, i, NoInst)
  /\ UNCHANGED <<handle, elector>>

StartPlainAndElect(p, i) ==
  /\ plainOn' = [plainOn EXCEPT ![p] = @ \cup {i}]
  /\ handle' = [handle EXCEPT ![p] = i]
  /\ elector' = [elector EXCEPT ![p][i] = "acquiring"]
  /\ UNCHANGED <<on, ctx>>

StartPlainOnly(p, i) ==
  /\ plainOn' = [plainOn EXCEPT ![p] = @ \cup {i}]
  /\ UNCHANGED <<handle, elector, on, ctx>>

(* The process starts and Init succeeds; a failing Init ends the process.  *)
Boot(p, enabled) ==
  /\ ~alive[p]
  /\ boots < MaxBoots
  /\ boots' = boots + 1
  /\ alive' = [alive EXCEPT ![p] = TRUE]
  /\ le' = [le EXCEPT ![p] = enabled]
  /\ inst' = [inst EXCEPT ![p] = 1]
  /\ IF enabled THEN StartPlainAndElect(p, 1) ELSE StartAll(p, 1)
  /\ UNCHANGED <<lease, reload, term, awaiting, cancelReq, starting, isLeader>>

(* Slip: the loop over the handles does not skip a collector without one.  *)
SlipCancelAll(p) == cancelReq' = [cancelReq EXCEPT ![p] = @ \cup {handle[p]}]

(* handle.cancel() for every handle in the map.                            *)
CancelAll(p) == cancelReq' = [cancelReq EXCEPT ![p] = @ \cup ({handle[p]} \ {NoInst})]

(* Slip: the handles are cancelled but not waited for.                     *)
SlipTakeHandles(p, t) ==
  /\ handle' = [handle EXCEPT ![p] = NoInst]
  /\ CancelAll(p)
  /\ UNCHANGED awaiting

(* stopLeaderElections, its first half: take the handles out of the map    *)
(* and cancel them; t then waits for their doneCh.                         *)
TakeHandles(p, t) ==
  /\ handle' = [handle EXCEPT ![p] = NoInst]
  /\ awaiting' = [awaiting EXCEPT ![p][t] = handle[p]]
  /\ CancelAll(p)

Awaited(p, t) == \A g \in Inst : g = awaiting[p][t] => elector[p][g] = "done"

(* Reload takes s.mu and starts stopCollectors.                            *)
BeginReload(p) ==
  /\ alive[p]
  /\ p \in Operated
  /\ reload[p] = "idle"
  /\ inst[p] < MaxInst
  /\ reload' = [reload EXCEPT ![p] = "stopping"]
  /\ IF le[p] THEN TakeHandles(p, "reload") ELSE UNCHANGED <<handle, awaiting, cancelReq>>
  /\ UNCHANGED <<lease, boots, alive, le, inst, term, callbacks, collectors>>

(* Slip: stopCollectors consults the new configuration.                    *)
SlipReinitialize(p, enabled) ==
  /\ reload[p] = "stopping"
  /\ Awaited(p, "reload")
  /\ plainOn' = [plainOn EXCEPT ![p] = @ \ {inst[p]}]
  /\ on' = IF enabled THEN on ELSE [on EXCEPT ![p] = @ \ {inst[p]}]
  /\ le' = [le EXCEPT ![p] = enabled]
  /\ inst' = [inst EXCEPT ![p] = @ + 1]
  /\ reload' = [reload EXCEPT ![p] = "starting"]
  /\ awaiting' = [awaiting EXCEPT ![p]["reload"] = NoInst]
  /\ UNCHANGED <<lease, boots, alive, handle, term, cancelReq, callbacks, ctx>>

(* The rest of stopCollectors - under the configuration still in force -,  *)
(* ApplyHotReload and Reinitialize.                                        *)
Reinitialize(p, enabled) ==
  /\ reload[p] = "stopping"
  /\ Awaited(p, "reload")
  /\ plainOn' = [plainOn EXCEPT ![p] = @ \ {inst[p]}]
  /\ on' = IF le[p] THEN on ELSE [on EXCEPT ![p] = @ \ {inst[p]}]
  /\ le' = [le EXCEPT ![p] = enabled]
  /\ inst' = [inst EXCEPT ![p] = @ + 1]
  /\ reload' = [reload EXCEPT ![p] = "starting"]
  /\ awaiting' = [awaiting EXCEPT ![p]["reload"] = NoInst]
  /\ UNCHANGED <<lease, boots, alive, handle, term, cancelReq, callbacks, ctx>>

(* startCollectors, and Reload returns.                                    *)
EndReload(p) ==
  /\ reload[p] = "starting"
  /\ reload' = [reload EXCEPT ![p] = "idle"]
  /\ \/ ~le[p] /\ StartAll(p, inst[p])
     \/ le[p] /\ StartPlainAndElect(p, inst[p])
     \/ le[p] /\ StartPlainOnly(p, inst[p])
  /\ UNCHANGED <<lease, boots, alive, le, inst, term, awaiting, cancelReq, starting,
                 isLeader>>

(* SIGTERM cancels the server's context.                                   *)
Signal(p) ==
  /\ alive[p]
  /\ p \in Operated
  /\ term[p] = "no"
  /\ term' = [term EXCEPT ![p] = "signalled"]
  /\ UNCHANGED <<lease, boots, alive, le, inst, handle, reload, awaiting, cancelReq,
                 callbacks, collectors>>

(* Shutdown's stopCollectors, which does not take s.mu.  The plain          *)
(* collectors that it stops after waiting for the electors are gone with   *)
(* the process: Exit stands for that too.                                  *)
BeginShutdown(p) ==
  /\ term[p] = "signalled"
  /\ term' = [term EXCEPT ![p] = "stopping"]
  /\ IF le[p]
     THEN TakeHandles(p, "shutdown") /\ UNCHANGED <<on, plainOn>>
     ELSE /\ on' = [on EXCEPT ![p] = @ \ {inst[p]}]
          /\ plainOn' = [plainOn EXCEPT ![p] = @ \ {inst[p]}]
          /\ UNCHANGED <<handle, awaiting, cancelReq>>
  /\ UNCHANGED <<lease, boots, alive, le, inst, reload, callbacks, ctx>>

(* The process is gone, and all it held in memory.                         *)
Gone(p) ==
  /\ alive' = [alive EXCEPT ![p] = FALSE]
  /\ le' = [le EXCEPT ![p] = FALSE]
  /\ inst' = [inst EXCEPT ![p] = NoInst]
  /\ handle' = [handle EXCEPT ![p] = NoInst]
  /\ reload' = [reload EXCEPT ![p] = "idle"]
  /\ term' = [term EXCEPT ![p] = "no"]
  /\ awaiting' = [awaiting EXCEPT ![p] = [t \in {"reload", "shutdown"} |-> NoInst]]
  /\ cancelReq' = [cancelReq EXCEPT ![p] = {}]
  /\ elector' = [elector EXCEPT ![p] = [g \in Inst |-> "none"]]
  /\ starting' = [starting EXCEPT ![p] = [g \in Inst |-> "none"]]
  /\ isLeader' = [isLeader EXCEPT ![p] = {}]
  /\ on' = [on EXCEPT ![p] = {}]
  /\ ctx' = [ctx EXCEPT ![p] = [i \in Inst |-> NoInst]]
  /\ plainOn' = [plainOn EXCEPT ![p] = {}]
  /\ UNCHANGED <<lease, boots>>

Exit(p) ==
  /\ term[p] = "stopping"
  /\ Awaited(p, "shutdown")
  /\ Gone(p)

Crash(p) == alive[p] /\ Gone(p)

-----------------------------------------------------------------------------
Elector(p, g) ==
  \/ Acquire(p, g)
  \/ ReplyLost(p, g)
  \/ Renew(p, g)
  \/ StopRenewing(p, g)
  \/ Release(p, g)
  \/ RunReturns(p, g)
  \/ OnStoppedLeadingFlag(p, g)
  \/ OnStoppedLeadingStop(p, g)

OnStartedLeading(p, g) == OnStartedLeadingFlag(p, g) \/ OnStartedLeadingStart(p, g)

Reload(p) == BeginReload(p) \/ (\E e \in Modes : Reinitialize(p, e)) \/ EndReload(p)

Shutdown(p) == Signal(p) \/ BeginShutdown(p) \/ Exit(p)

Next ==
  \/ Tick
  \/ \E p \in Pods, g \in Inst : Elector(p, g) \/ OnStartedLeading(p, g)
  \/ \E p \in Pods : \/ \E e \in Modes : Boot(p, e)
                     \/ Reload(p)
                     \/ Shutdown(p)
                     \/ Crash(p)

Spec == Init /\ [][Next]_vars

(* Goroutines that can run do run: the way out of renew and Run, the       *)
(* callbacks, Reload and Shutdown.  Time passes.  A campaigning elector    *)
(* that can take the Lease again and again is not always unlucky with its  *)
(* reply.  Nobody has to renew, crash, reload or send a signal.            *)
WindDown(p, g) ==
  \/ Cancelled(p, g) /\ StopRenewing(p, g)
  \/ Release(p, g)
  \/ RunReturns(p, g)
  \/ OnStoppedLeadingFlag(p, g)
  \/ OnStoppedLeadingStop(p, g)

Fairness ==
  /\ WF_vars(Tick)
  /\ \A p \in Pods, g \in Inst : /\ SF_vars(Acquire(p, g))
                                 /\ WF_vars(WindDown(p, g))
                                 /\ WF_vars(OnStartedLeading(p, g))
  /\ \A p \in Pods : /\ WF_vars((\E e \in Modes : Reinitialize(p, e)) \/ EndReload(p))
                     /\ WF_vars(BeginShutdown(p) \/ Exit(p))

FairSpec == Spec /\ Fairness

-----------------------------------------------------------------------------
(* The electors that renew the Lease.                                      *)
Leaders == {pg \in Pods \X Inst : Leads(pg[1], pg[2])}

(* What leader election promises: LeaderSlot, a slot taken only when free. *)
Slot == INSTANCE LeaderSlot WITH
  Candidates <- Pods \X Inst,
  Free <- <<NoPod, NoInst>>,
  slot <- IF Leaders = {} THEN <<NoPod, NoInst>> ELSE CHOOSE pg \in Leaders : TRUE

(* The same of the electors of one pod: the ones that replace each other   *)
(* when the configuration is reloaded or the process is started again.     *)
LeadersOf(p) == {g \in Inst : Leads(p, g)}
PodSlot(p) == INSTANCE LeaderSlot WITH
  Candidates <- Inst,
  Free <- NoInst,
  slot <- IF LeadersOf(p) = {} THEN NoInst ELSE CHOOSE g \in LeadersOf(p) : TRUE
ImplementsPodSlots == \A p \in Pods : PodSlot(p)!Spec
ImplementsSlot == Slot!Spec

(* No two electors renew at the same time - not the elector of a reloaded  *)
(* server and the one it replaced, which have the same identity and would  *)
(* both be taken for the holder, and not those of two pods, unless the     *)
(* configured durations leave no margin.                                   *)
LeaderUnique ==
  \A x, y \in Leaders : x = y \/ (x[1] # y[1] /\ ~TimingsLeaveMargin)

(* The instances that elector g started may collect although g does not    *)
(* lead, or leads no more: between the last renewal and OnStoppedLeading's *)
(* StopCollector, and after it for an OnStartedLeading that came later.    *)
OnItsWayOut(p, g) ==
  \/ elector[p][g] \in {"lost", "released", "stopping", "unflagged"}
  \/ starting[p][g] = "late"
  \/ Leads(p, g) /\ holder # p /\ ~TimingsLeaveMargin

(* Two pods collect under leadership at the same time only while the       *)
(* elector of one of them is on its way out: a leader's scrapes are joined *)
(* by those of no standby, and of no former leader once it stopped the     *)
(* collector.                                                              *)
OverlapOnlyAfterLostRenewal ==
  \A p, q \in Pods : \A i, j \in Inst :
    /\ p # q
    /\ Collecting(p, i) /\ ctx[p][i] # NoInst
    /\ Collecting(q, j) /\ ctx[q][j] # NoInst
    => OnItsWayOut(p, ctx[p][i]) \/ OnItsWayOut(q, ctx[q][j])

(* A reload of a process that goes on leaves nothing of the replaced       *)
(* instances running, whether the old and the new configuration use leader *)
(* election or not - with one exception: an instance that OnStartedLeading *)
(* started after its elector had stopped it.                               *)
OnlyCurrentInstanceRuns ==
  \A p \in Pods : term[p] = "no" =>
    /\ \A i \in on[p] :
         i = inst[p] \/ (ctx[p][i] # NoInst /\ starting[p][ctx[p][i]] = "late")
    /\ plainOn[p] \subseteq {inst[p]}

(* When Shutdown has nothing left to wait for and no Reload is in flight,  *)
(* no elector of the process is about to be killed before it released the  *)
(* Lease.                                                                  *)
NoElectorAbandoned ==
  \A p \in Pods : term[p] = "stopping" /\ Awaited(p, "shutdown") /\ reload[p] = "idle" =>
    \A g \in Inst : elector[p][g] \notin {"leading", "lost"}

(* A terminating pod ends: Shutdown waits for electors whose last act is a *)
(* callback into the registry.                                             *)
ShutdownEnds == \A p \in Operated : term[p] # "no" ~> term[p] = "no"

(* A campaigning elector does not wait for ever for a Lease nobody renews. *)
Campaigning(p) == \E g \in Inst : elector[p][g] = "acquiring"
StandbyTakesOver == \A p \in Pods : Campaigning(p) ~> (Leaders # {} \/ ~Campaigning(p))

(* "Leader election ensures only one instance collects metrics"            *)
(* (README.md:121).                                                        *)
OneInstanceCollects ==
  \A p, q \in Pods : \A i, j \in Inst :
    Collecting(p, i) /\ Collecting(q, j) => p = q

(* "Automatic failover when leader pod dies" (README.md:128): the pod that  *)
(* holds the Lease is dead and p is up - then somebody leads again, unless *)
(* p goes too.                                                             *)
Failover ==
  \A p \in Pods :
    alive[p] /\ (\E q \in Pods : holder = q /\ ~alive[q])
      ~> (~alive[p] \/ Leaders # {})
=============================================================================
