--------------------------- MODULE InformerHooks ---------------------------
(***************************************************************************)
(* The lifecycle hooks of the collectors that run informers, over the      *)
(* Start and Stop of the base collector, which call them outside its lock. *)
(* In the image pull, node and zombie collectors ("factory") OnStart makes *)
(* a new stopCh, runs the informer on it and waits on it for the sync;     *)
(* OnStop closes whatever stopCh is.  In the CRD collector ("crd") the     *)
(* informer keeps its own flag and channel, the wait is on the context,    *)
(* and a failed wait stops the informer as OnStop does; neither is locked. *)
(***************************************************************************)
EXTENDS Naturals, FiniteSets

CONSTANT MaxCalls   \* bound: calls of Start, and calls of Stop

ASSUME CallsAssumption == MaxCalls \in Nat

Calls == 1..MaxCalls
NilCh == MaxCalls + 1   \* a nil channel

VARIABLES
  hookStyle,    \* "factory" or "crd"
  hookStarted,  \* b.started
  hookCtx,      \* the Start whose context b.cancel cancels, 0: none
  cancelledCtx, \* the Starts whose contexts are cancelled
  startAt,      \* where each call of Start is
  stopAt,       \* where each call of Stop is
  hookStopCh,   \* the collector's (the informer's) channel: who made it, 0: first
  closedCh,     \* the channels that are closed
  informerUp,   \* crd: i.started
  informerCh,   \* the channel on which the informer of a Start runs, or NilCh
  waitCh,       \* factory: the channel on which a Start waits for the sync
  informerSync, \* the Starts whose informers have synced
  overtaken,    \* history: hooks ran in another order than their calls
  hookPanic     \* whether a closed or nil channel was closed

hookVars == <<hookStyle, hookStarted, hookCtx, cancelledCtx, startAt, stopAt,
              hookStopCh, closedCh, informerUp, informerCh, waitCh, informerSync, overtaken,
              hookPanic>>

HookTypeOK ==
  /\ hookStyle \in {"factory", "crd"}
  /\ hookStarted \in BOOLEAN /\ overtaken \in BOOLEAN /\ hookPanic \in BOOLEAN
  /\ informerUp \in BOOLEAN
  /\ hookCtx \in Calls \union {0} /\ cancelledCtx \subseteq Calls
  /\ startAt \in [Calls -> {"no", "entered", "made", "running", "waiting", "stopping", "closing",
                            "failing", "ended"}]
  /\ stopAt \in [Calls -> {"no", "entered", "closing", "ended"}]
  /\ hookStopCh \in Calls \union {0, NilCh}
  /\ closedCh \subseteq Calls \union {0}
  /\ informerCh \in [Calls -> Calls \union {0, NilCh}]
  /\ waitCh \in [Calls -> Calls \union {0, NilCh}]
  /\ informerSync \subseteq Calls

HookInit ==
  /\ hookStyle \in {"factory", "crd"}
  /\ hookStarted = FALSE /\ overtaken = FALSE /\ hookPanic = FALSE
  /\ hookCtx = 0 /\ cancelledCtx = {}
  /\ startAt = [k \in Calls |-> "no"]
  /\ stopAt = [k \in Calls |-> "no"]
  /\ hookStopCh = IF hookStyle = "factory" THEN 0 ELSE NilCh
  /\ closedCh = {}
  /\ informerUp = FALSE
  /\ informerCh = [k \in Calls |-> NilCh]
  /\ waitCh = [k \in Calls |-> NilCh]
  /\ informerSync = {}

InFlight(at) == {k \in Calls : at[k] \notin {"no", "ended"}}
HooksAtRest        == InFlight(startAt) = {} /\ InFlight(stopAt) = {}
Running(k)   == informerCh[k] # NilCh /\ informerCh[k] \notin closedCh

-----------------------------------------------------------------------------
(* The base collector. *)
BaseStart(k) ==
  /\ startAt[k] = "no" /\ \A j \in 1..(k - 1) : startAt[j] # "no"
  /\ ~hookStarted
  /\ hookStarted' = TRUE /\ hookCtx' = k
  /\ startAt' = [startAt EXCEPT ![k] = "entered"]
  /\ overtaken' = (overtaken \/ ~HooksAtRest)
  /\ UNCHANGED <<hookStyle, cancelledCtx, stopAt, hookStopCh, closedCh, informerUp,
                 informerCh, waitCh, informerSync, hookPanic>>

BaseStop(k) ==
  /\ stopAt[k] = "no" /\ \A j \in 1..(k - 1) : stopAt[j] # "no"
  /\ hookStarted
  /\ hookStarted' = FALSE
  /\ cancelledCtx' = cancelledCtx \union ({hookCtx} \ {0}) /\ hookCtx' = 0
  /\ stopAt' = [stopAt EXCEPT ![k] = "entered"]
  /\ overtaken' = (overtaken \/ \E j \in Calls : startAt[j] = "entered")
  /\ UNCHANGED <<hookStyle, startAt, hookStopCh, closedCh, informerUp, informerCh,
                 waitCh, informerSync, hookPanic>>

(* The rollback of a failed Start disarms whatever cycle there is. *)
BaseRollback(k) ==
  /\ startAt[k] = "failing"
  /\ hookStarted' = FALSE
  /\ cancelledCtx' = cancelledCtx \union ({hookCtx} \ {0}) /\ hookCtx' = 0
  /\ startAt' = [startAt EXCEPT ![k] = "ended"]
  /\ UNCHANGED <<hookStyle, stopAt, hookStopCh, closedCh, informerUp, informerCh,
                 waitCh, informerSync, overtaken, hookPanic>>

-----------------------------------------------------------------------------
(* OnStart. *)
BaseUnchanged == UNCHANGED <<hookStyle, hookStarted, hookCtx, cancelledCtx, overtaken>>

SlipMakeStopCh(k) ==
  /\ hookStyle = "factory" /\ startAt[k] = "entered"
  /\ startAt' = [startAt EXCEPT ![k] = "made"]
  /\ BaseUnchanged
  /\ UNCHANGED <<hookStopCh, stopAt, closedCh, informerUp, informerCh, waitCh, informerSync, hookPanic>>

MakeStopCh(k) ==
  /\ hookStyle = "factory" /\ startAt[k] = "entered"
  /\ hookStopCh' = k
  /\ startAt' = [startAt EXCEPT ![k] = "made"]
  /\ BaseUnchanged
  /\ UNCHANGED <<stopAt, closedCh, informerUp, informerCh, waitCh, informerSync, hookPanic>>

(* factory.Start and then WaitForCacheSync read the field again. *)
FactoryStart(k) ==
  /\ startAt[k] = "made"
  /\ informerCh' = [informerCh EXCEPT ![k] = hookStopCh]
  /\ startAt' = [startAt EXCEPT ![k] = "running"]
  /\ BaseUnchanged
  /\ UNCHANGED <<stopAt, hookStopCh, closedCh, informerUp, waitCh, informerSync, hookPanic>>

BeginWait(k) ==
  /\ startAt[k] = "running"
  /\ waitCh' = [waitCh EXCEPT ![k] = hookStopCh]
  /\ startAt' = [startAt EXCEPT ![k] = "waiting"]
  /\ BaseUnchanged
  /\ UNCHANGED <<stopAt, hookStopCh, closedCh, informerUp, informerCh, informerSync,
                 hookPanic>>

(* Informer.Start of the CRD collector refuses an informer that is up. *)
InformerStart(k) ==
  /\ hookStyle = "crd" /\ startAt[k] = "entered"
  /\ IF informerUp
     THEN /\ startAt' = [startAt EXCEPT ![k] = "failing"]
          /\ UNCHANGED <<hookStopCh, informerUp, informerCh>>
     ELSE /\ hookStopCh' = k /\ informerUp' = TRUE
          /\ informerCh' = [informerCh EXCEPT ![k] = k]
          /\ startAt' = [startAt EXCEPT ![k] = "waiting"]
  /\ BaseUnchanged
  /\ UNCHANGED <<stopAt, closedCh, waitCh, informerSync, hookPanic>>

InformerSyncs(k) ==
  /\ Running(k) /\ k \notin informerSync
  /\ informerSync' = informerSync \union {k}
  /\ BaseUnchanged
  /\ UNCHANGED <<startAt, stopAt, hookStopCh, closedCh, informerUp, informerCh, waitCh,
                 hookPanic>>

(* WaitForCacheSync: on its channel, or on the context. *)
WaitEnds(k) ==
  IF hookStyle = "factory" THEN waitCh[k] \in closedCh ELSE k \in cancelledCtx

WaitForCacheSync(k) ==
  /\ startAt[k] = "waiting"
  /\ \/ k \in informerSync /\ startAt' = [startAt EXCEPT ![k] = "ended"]
     \/ /\ WaitEnds(k)
        /\ startAt' = [startAt EXCEPT ![k] =
             IF hookStyle = "factory" THEN "failing" ELSE "stopping"]
  /\ BaseUnchanged
  /\ UNCHANGED <<stopAt, hookStopCh, closedCh, informerUp, informerCh, waitCh, informerSync, hookPanic>>

(* Closing a channel that is closed, or nil, panics. *)
CloseStopCh ==
  /\ hookPanic' = (hookPanic \/ hookStopCh \in closedCh \union {NilCh})
  /\ closedCh' = closedCh \union ({hookStopCh} \ {NilCh})

FactoryStop(k) ==
  /\ hookStyle = "factory" /\ stopAt[k] = "entered"
  /\ CloseStopCh
  /\ stopAt' = [stopAt EXCEPT ![k] = "ended"]
  /\ BaseUnchanged
  /\ UNCHANGED <<startAt, hookStopCh, informerUp, informerCh, waitCh, informerSync>>

(* Informer.Stop of the CRD collector, by OnStop and by a failed OnStart. *)
InformerStopChecks(k) ==
  /\ hookStyle = "crd"
  /\ \/ /\ stopAt[k] = "entered"
        /\ stopAt' = [stopAt EXCEPT ![k] = IF informerUp THEN "closing" ELSE "ended"]
        /\ UNCHANGED startAt
     \/ /\ startAt[k] = "stopping"
        /\ startAt' = [startAt EXCEPT ![k] = IF informerUp THEN "closing" ELSE "failing"]
        /\ UNCHANGED stopAt
  /\ BaseUnchanged
  /\ UNCHANGED <<hookStopCh, closedCh, informerUp, informerCh, waitCh, informerSync, hookPanic>>

InformerStop(k) ==
  /\ \/ /\ stopAt[k] = "closing"
        /\ stopAt' = [stopAt EXCEPT ![k] = "ended"] /\ UNCHANGED startAt
     \/ /\ startAt[k] = "closing"
        /\ startAt' = [startAt EXCEPT ![k] = "failing"] /\ UNCHANGED stopAt
  /\ CloseStopCh
  /\ hookStopCh' = NilCh /\ informerUp' = FALSE
  /\ BaseUnchanged
  /\ UNCHANGED <<informerCh, waitCh, informerSync>>

HookNext ==
  /\ ~hookPanic
  /\ \E k \in Calls :
       \/ BaseStart(k) \/ BaseStop(k) \/ BaseRollback(k)
       \/ MakeStopCh(k) \/ FactoryStart(k) \/ BeginWait(k)
       \/ InformerStart(k) \/ InformerSyncs(k)
       \/ WaitForCacheSync(k) \/ FactoryStop(k)
       \/ InformerStopChecks(k) \/ InformerStop(k)

HookSpec == HookInit /\ [][HookNext]_hookVars

-----------------------------------------------------------------------------
(* A stopped collector leaves no informer behind, whatever the sync of the
   Start that Stop interrupted does, and no hook closes a channel twice: as
   long as no Stop comes before the hook of its Start has made its channel, and
   no Start before the hooks of earlier calls have ended.  Only in the CRD
   collector OnStop and the OnStart it interrupts can meet in Informer.Stop and
   close the channel twice. *)
StopEndsInformers ==
  ~overtaken =>
    /\ HooksAtRest /\ ~hookStarted => \A k \in Calls : ~Running(k)
    /\ hookPanic => hookStyle = "crd"
=============================================================================
