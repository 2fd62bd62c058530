--------------------------- MODULE BaseCollector ---------------------------
(***************************************************************************)
(* base.BaseCollector (src/pkg/collector/base/base.go): the state machine  *)
(* every collector embeds.  Any number of goroutines call Start, Stop and  *)
(* Collect; a Start that succeeds leaves a poll-loop goroutine behind,     *)
(* which marks the collector ready when its first poll returns.            *)
(*                                                                         *)
(* One critical section of b.mu is one action; what the code does between  *)
(* two critical sections (the OnStart hook, a poll, the select of          *)
(* WaitReady) is interleaved with everything else.  A call that returns an *)
(* error before it changes anything (Start of a started collector, Stop of *)
(* a stopped one) leaves no step.                                          *)
(*                                                                         *)
(* The k-th Start that passes the started check creates the context, the   *)
(* readyCh and the stoppedCh of cycle k: the number k names all three.     *)
(***************************************************************************)
EXTENDS Naturals

CONSTANTS
  Scrapes,        \* goroutines that call Collect
  MaxCycles       \* bound: successful passes through Start's started check

ASSUME MaxCyclesAssumption == MaxCycles \in Nat \ {0}

Cycle == 1 .. MaxCycles
NoCycle == 0      \* a nil channel or context

VARIABLES
  waitOnCollect, \* b.waitReadyOnCollect, fixed when the collector is built
  cycle,        \* the cycle whose ctx and readyCh the struct holds
  started,      \* b.started
  ready,        \* b.ready
  stopCh,       \* the cycle whose stoppedCh (and cancel) the struct holds
  cancelled,    \* cycles whose context is done
  stopClosed,   \* cycles whose stoppedCh is closed
  readyClosed,  \* cycles whose readyCh is closed
  panicked,     \* a channel was closed twice: the process is gone
  starter,      \* the k-th Start, between its unlock and its return
  hookCtx,      \* the context that Start handed to the OnStart hook
  loop,         \* the poll loop that Start's hook left running
  scrape        \* what each Collect call holds outside the lock

starters == <<starter, hookCtx>>
channels == <<cancelled, stopClosed, readyClosed, panicked>>
vars == <<waitOnCollect, cycle, started, ready, stopCh, channels, starters,
          loop, scrape>>

-----------------------------------------------------------------------------
StarterState == {"none", "armed", "hook", "failed", "returned"}
LoopState == {"none", "polling", "polled", "looping", "ended"}
ScrapeState == {"idle", "waiting", "selecting", "emitting"}

(* A Collect call holds the channels it read under the lock only while it  *)
(* blocks in WaitReady's select.                                           *)
ScrapeRecord == [pc : ScrapeState, rch : Cycle \cup {NoCycle},
                 sch : Cycle \cup {NoCycle}]
AtPc(s) == [pc |-> s, rch |-> NoCycle, sch |-> NoCycle]

(* Type correctness of the variables.                                      *)
TypeOK ==
  /\ waitOnCollect \in BOOLEAN
  /\ cycle \in Cycle \cup {NoCycle}
  /\ started \in BOOLEAN
  /\ ready \in BOOLEAN
  /\ stopCh \in Cycle \cup {NoCycle}
  /\ cancelled \subseteq Cycle
  /\ stopClosed \subseteq Cycle
  /\ readyClosed \subseteq Cycle
  /\ panicked \in BOOLEAN
  /\ starter \in [Cycle -> StarterState]
  /\ hookCtx \in [Cycle -> Cycle \cup {NoCycle}]
  /\ loop \in [Cycle -> LoopState]
  /\ scrape \in [Scrapes -> ScrapeRecord]

Init ==
  /\ waitOnCollect \in BOOLEAN
  /\ cycle = NoCycle
  /\ started = FALSE
  /\ ready = FALSE
  /\ stopCh = NoCycle
  /\ cancelled = {}
  /\ stopClosed = {}
  /\ readyClosed = {}
  /\ panicked = FALSE
  /\ starter = [k \in Cycle |-> "none"]
  /\ hookCtx = [k \in Cycle |-> NoCycle]
  /\ loop = [k \in Cycle |-> "none"]
  /\ scrape = [w \in Scrapes |-> AtPc("idle")]

-----------------------------------------------------------------------------
(* Slips.  An operator named Slip... is not part of the specification: it  *)
(* is the definition that follows it with a plausible mistake, kept here   *)
(* to check that the properties below notice the mistake.                  *)

(* Slip: Start does not look at started.                                   *)
SlipStartUnchecked ==
  /\ ~panicked
  /\ cycle < MaxCycles
  /\ cycle' = cycle + 1
  /\ started' = TRUE
  /\ ready' = FALSE
  /\ stopCh' = cycle + 1
  /\ starter' = [starter EXCEPT ![cycle + 1] = "armed"]
  /\ UNCHANGED <<waitOnCollect, channels, hookCtx, loop, scrape>>

(* Start, up to its unlock: the only place that creates a cycle.           *)
Start ==
  /\ ~panicked
  /\ ~started
  /\ cycle < MaxCycles
  /\ cycle' = cycle + 1
  /\ started' = TRUE
  /\ ready' = FALSE
  /\ stopCh' = cycle + 1
  /\ starter' = [starter EXCEPT ![cycle + 1] = "armed"]
  /\ UNCHANGED <<waitOnCollect, channels, hookCtx, loop, scrape>>

(* lifecycle.OnStart(b.ctx): b.ctx is read after the unlock, so it is the  *)
(* context of whatever cycle is current by then.                           *)
EnterHook(k) ==
  /\ ~panicked
  /\ starter[k] = "armed"
  /\ starter' = [starter EXCEPT ![k] = "hook"]
  /\ hookCtx' = [hookCtx EXCEPT ![k] = cycle]
  /\ UNCHANGED <<waitOnCollect, cycle, started, ready, stopCh, channels, loop, scrape>>

(* The hook succeeds and leaves a goroutine that polls once and then calls *)
(* SetReady (a hook that calls SetReady itself does so as its last step).  *)
HookSucceeds(k) ==
  /\ ~panicked
  /\ starter[k] = "hook"
  /\ starter' = [starter EXCEPT ![k] = "returned"]
  /\ loop' = [loop EXCEPT ![k] = "polling"]
  /\ UNCHANGED <<waitOnCollect, cycle, started, ready, stopCh, channels, hookCtx, scrape>>

HookFails(k) ==
  /\ ~panicked
  /\ starter[k] = "hook"
  /\ starter' = [starter EXCEPT ![k] = "failed"]
  /\ UNCHANGED <<waitOnCollect, cycle, started, ready, stopCh, channels, hookCtx, loop, scrape>>

(* Slip: the stoppedCh is dropped without being closed.                    *)
SlipDisarmSilently ==
  /\ started' = FALSE
  /\ ready' = FALSE
  /\ stopCh' = NoCycle
  /\ cancelled' = cancelled \cup ({stopCh} \ {NoCycle})
  /\ UNCHANGED <<waitOnCollect, cycle, stopClosed, readyClosed, panicked, hookCtx,
                 loop, scrape>>

(* Slip: the channel and the cancel function are not compared with nil.    *)
SlipDisarmNil ==
  /\ started' = FALSE
  /\ ready' = FALSE
  /\ stopCh' = NoCycle
  /\ cancelled' = cancelled \cup {stopCh}
  /\ stopClosed' = stopClosed \cup {stopCh}
  /\ UNCHANGED <<waitOnCollect, cycle, readyClosed, panicked, hookCtx, loop, scrape>>

(* What Stop and the rollback of a failed Start do to the struct: cancel   *)
(* the context and close the stoppedCh it holds, if it holds any, and drop *)
(* both, so that nobody does it twice.                                     *)
Disarm ==
  /\ started' = FALSE
  /\ ready' = FALSE
  /\ stopCh' = NoCycle
  /\ cancelled' = cancelled \cup ({stopCh} \ {NoCycle})
  /\ stopClosed' = stopClosed \cup ({stopCh} \ {NoCycle})
  /\ UNCHANGED <<waitOnCollect, cycle, readyClosed, panicked, hookCtx, loop, scrape>>

(* Slip: the rollback forgets to cancel the context.                       *)
SlipRollbackKeepsContext(k) ==
  /\ ~panicked
  /\ starter[k] = "failed"
  /\ started' = FALSE
  /\ ready' = FALSE
  /\ stopCh' = NoCycle
  /\ stopClosed' = stopClosed \cup ({stopCh} \ {NoCycle})
  /\ starter' = [starter EXCEPT ![k] = "returned"]
  /\ UNCHANGED <<waitOnCollect, cycle, cancelled, readyClosed, panicked, hookCtx,
                 loop, scrape>>

(* The rollback does not check that the cycle it disarms is its own.       *)
Rollback(k) ==
  /\ ~panicked
  /\ starter[k] = "failed"
  /\ Disarm
  /\ starter' = [starter EXCEPT ![k] = "returned"]

Stop ==
  /\ ~panicked
  /\ started
  /\ Disarm
  /\ UNCHANGED starter

(* The context that Start's caller passed in is cancelled (leadership      *)
(* lost, server shutting down): the derived context is done with it.       *)
ParentCancel ==
  /\ ~panicked
  /\ cycle # NoCycle
  /\ cycle \notin cancelled
  /\ cancelled' = cancelled \cup {cycle}
  /\ UNCHANGED <<waitOnCollect, cycle, started, ready, stopCh, stopClosed, readyClosed,
                 panicked, starters, loop, scrape>>

-----------------------------------------------------------------------------
(* RunPollLoop: the first poll returns, with or without an error.          *)
FirstPollReturns(k) ==
  /\ ~panicked
  /\ loop[k] = "polling"
  /\ loop' = [loop EXCEPT ![k] = "polled"]
  /\ UNCHANGED <<waitOnCollect, cycle, started, ready, stopCh, channels, starters, scrape>>

(* SetReady closes the readyCh the struct holds when it runs, which need   *)
(* not be the one of the loop's own cycle.                                 *)
SetReady(k) ==
  /\ ~panicked
  /\ loop[k] = "polled"
  /\ loop' = [loop EXCEPT ![k] = "looping"]
  /\ ready' = TRUE
  /\ \/ ready /\ UNCHANGED <<readyClosed, panicked>>
     \/ /\ ~ready
        /\ cycle \notin readyClosed
        /\ readyClosed' = readyClosed \cup {cycle}
        /\ UNCHANGED panicked
     \/ /\ ~ready
        /\ cycle \in readyClosed
        /\ panicked' = TRUE
        /\ UNCHANGED readyClosed
  /\ UNCHANGED <<waitOnCollect, cycle, started, stopCh, cancelled, stopClosed, starters, scrape>>

(* The loop ends when the context it was given is done.                    *)
LoopEnds(k) ==
  /\ ~panicked
  /\ loop[k] = "looping"
  /\ hookCtx[k] \in cancelled
  /\ loop' = [loop EXCEPT ![k] = "ended"]
  /\ UNCHANGED <<waitOnCollect, cycle, started, ready, stopCh, channels, starters, scrape>>

-----------------------------------------------------------------------------
ScrapeStep(w, to) ==
  /\ ~panicked
  /\ scrape' = [scrape EXCEPT ![w] = to]
  /\ UNCHANGED <<waitOnCollect, cycle, started, ready, stopCh, channels, starters, loop>>

(* Collect: a stopped collector emits nothing; otherwise wait for          *)
(* readiness, or emit at once if it is there already.                      *)
Collect(w) ==
  /\ scrape[w].pc = "idle"
  /\ started
  /\ \/ waitOnCollect /\ ScrapeStep(w, AtPc("waiting"))
     \/ ~waitOnCollect /\ ready /\ ScrapeStep(w, AtPc("emitting"))

(* WaitReady, its locked part: the fast path, "not started", or a select   *)
(* on the channels held at this moment.                                    *)
WaitReady(w) ==
  /\ scrape[w].pc = "waiting"
  /\ \/ ready /\ ScrapeStep(w, AtPc("emitting"))
     \/ ~ready /\ stopCh = NoCycle /\ ScrapeStep(w, AtPc("idle"))
     \/ /\ ~ready
        /\ stopCh # NoCycle
        /\ ScrapeStep(w, [pc |-> "selecting", rch |-> cycle, sch |-> stopCh])

(* Slip: the select treats a closed stoppedCh like a closed readyCh.       *)
SlipWake(w) ==
  /\ scrape[w].pc = "selecting"
  /\ \/ scrape[w].rch \in readyClosed
     \/ scrape[w].sch \in stopClosed
  /\ ScrapeStep(w, AtPc("emitting"))

(* The select returns through a closed channel.                            *)
Wake(w) ==
  /\ scrape[w].pc = "selecting"
  /\ \/ scrape[w].rch \in readyClosed /\ ScrapeStep(w, AtPc("emitting"))
     \/ scrape[w].sch \in stopClosed /\ ScrapeStep(w, AtPc("idle"))

(* The select returns through the waitReadyTimeout.                        *)
Timeout(w) ==
  /\ scrape[w].pc = "selecting"
  /\ ScrapeStep(w, AtPc("idle"))

(* lifecycle.OnCollect writes the metrics and Collect returns.             *)
OnCollect(w) ==
  /\ scrape[w].pc = "emitting"
  /\ ScrapeStep(w, AtPc("idle"))

-----------------------------------------------------------------------------
StartCall(k) == EnterHook(k) \/ HookSucceeds(k) \/ HookFails(k) \/ Rollback(k)
PollLoop(k) == FirstPollReturns(k) \/ SetReady(k) \/ LoopEnds(k)
ScrapeCall(w) == Collect(w) \/ WaitReady(w) \/ Wake(w) \/ Timeout(w) \/ OnCollect(w)

Next ==
  \/ Start
  \/ Stop
  \/ ParentCancel
  \/ \E k \in Cycle : StartCall(k) \/ PollLoop(k)
  \/ \E w \in Scrapes : ScrapeCall(w)

Spec == Init /\ [][Next]_vars

(* Goroutines that can run do run: the rollback of a failed start, the     *)
(* loop that has polled, the scrape that was woken.  Hooks and polls owe   *)
(* nothing - some hooks wait for a cache on their own stopCh, whatever     *)
(* their context says -, and the timeout is not relied upon.  Nobody has   *)
(* to call Start, Stop or Collect.                                         *)
Fairness ==
  /\ \A k \in Cycle : WF_vars(Rollback(k)) /\ WF_vars(SetReady(k))
  /\ \A w \in Scrapes : WF_vars(WaitReady(w) \/ Wake(w) \/ OnCollect(w))

FairSpec == Spec /\ Fairness

-----------------------------------------------------------------------------
(* At most one context is live, and it is the one a later Stop cancels: no *)
(* interleaving of Start, Stop, rollbacks and late hooks leaves a poll     *)
(* loop behind whose context nobody can cancel any more.                   *)
LiveContextIsStoppable ==
  \A k \in 1 .. cycle : k \notin cancelled => started /\ k = cycle /\ k = stopCh

(* A Collect blocked in WaitReady's select waits for channels somebody     *)
(* will close: those of the current cycle, or closed ones.  A Stop, a      *)
(* failed start or a restart never strands it until its timeout.           *)
NoStrandedWaiter ==
  \A w \in Scrapes :
    scrape[w].pc = "selecting" =>
      \/ scrape[w].sch \in stopClosed
      \/ started /\ scrape[w].sch = stopCh /\ scrape[w].rch = cycle

(* Metrics are written only after some poll of this collector returned:    *)
(* neither the fast path nor a readyCh lets a scrape through before.       *)
EmitAfterFirstPoll ==
  \A w \in Scrapes :
    scrape[w].pc = "emitting" => \E k \in Cycle : loop[k] \in {"looping", "ended"}

(* "Once ready, the collector cannot become not-ready again (except        *)
(* through Stop/Start cycle)" (base.go:233): ready falls only in a step     *)
(* that leaves the collector stopped, or starts a stopped one.             *)
ReadyFallsWithItsCycle ==
  [][ready /\ ~ready' => \/ ~started'
                         \/ ~started /\ cycle' = cycle + 1]_vars

(* What a Collect call waits for in WaitReady is decided: the collector    *)
(* became ready or was stopped, or the hook of the awaited cycle failed,   *)
(* or its first poll is over.                                              *)
Decided(w) ==
  /\ scrape[w].pc = "selecting"
  /\ \/ ready
     \/ ~started
     \/ starter[scrape[w].rch] = "failed"
     \/ loop[scrape[w].rch] = "polled"

(* Collect then returns without the help of waitReadyTimeout, although     *)
(* Stop, late rollbacks and late SetReady calls of other cycles exchange   *)
(* the struct's channels meanwhile.  The timeout is there for a hook or a  *)
(* poll that does not return.                                              *)
DecidedWaitEnds ==
  \A w \in Scrapes : Decided(w) ~> (scrape[w].pc = "idle" \/ panicked)

(* "Only set ready once per Start cycle" (base.go:238): SetReady never     *)
(* closes a readyCh that is closed already.                                *)
ReadyChClosedOnce == ~panicked
=============================================================================
