------------------------ MODULE BaseCollectorProofs ------------------------
(***************************************************************************)
(* What TLAPS proves of BaseCollector, for every set of scrapes and every  *)
(* number of cycles.                                                       *)
(*                                                                         *)
(* The invariants are not inductive one by one.  What ties them together   *)
(* is that the struct holds a stoppedCh exactly while it is started, that  *)
(* it is then the one of the current cycle, and that every other cycle has *)
(* been disarmed: its context is done and its stoppedCh closed.            *)
(***************************************************************************)
EXTENDS BaseCollector, TLAPS

(* Only the current cycle of a started collector is armed.                 *)
ArmedIsCurrent ==
  /\ started => stopCh = cycle /\ cycle # NoCycle
  /\ ~started => stopCh = NoCycle
  /\ \A k \in 1 .. cycle : k \notin cancelled => started /\ k = cycle
  /\ \A k \in 1 .. cycle : k \notin stopClosed => started /\ k = cycle

(* A waiter holds the two channels of one cycle that existed.              *)
WaiterHoldsOneCycle ==
  \A w \in Scrapes :
    scrape[w].pc = "selecting" =>
      /\ scrape[w].sch \in 1 .. cycle
      /\ scrape[w].rch = scrape[w].sch

(* A Start call has the number of a cycle that was begun, and leaves a loop *)
(* only when it returns.                                                   *)
CallsBelongToCycles ==
  \A k \in Cycle : /\ starter[k] # "none" => k \in 1 .. cycle
                   /\ loop[k] # "none" => starter[k] = "returned"

SomePollReturned == \E k \in Cycle : loop[k] \in {"looping", "ended"}

(* Readiness is announced by a poll loop that has polled.                  *)
ReadyAfterPoll ==
  /\ ready \/ readyClosed # {} => SomePollReturned
  /\ \A w \in Scrapes : scrape[w].pc = "emitting" => SomePollReturned

IInv ==
  /\ TypeOK
  /\ CallsBelongToCycles
  /\ ArmedIsCurrent
  /\ WaiterHoldsOneCycle
  /\ ReadyAfterPoll

-----------------------------------------------------------------------------
USE DEF Cycle, NoCycle

LEMMA InitType == Init => TypeOK
<1> SUFFICES ASSUME Init PROVE TypeOK
  OBVIOUS
<1> USE MaxCyclesAssumption DEF Init
<1>1. scrape \in [Scrapes -> ScrapeRecord]
  BY DEF AtPc, ScrapeRecord, ScrapeState
<1>2. /\ starter \in [Cycle -> StarterState]
      /\ hookCtx \in [Cycle -> Cycle \cup {NoCycle}]
      /\ loop \in [Cycle -> LoopState]
  BY DEF StarterState, LoopState
<1> QED
  BY <1>1, <1>2 DEF TypeOK

LEMMA NextType == TypeOK /\ CallsBelongToCycles /\ [Next]_vars => TypeOK'
<1> SUFFICES ASSUME TypeOK, CallsBelongToCycles, [Next]_vars PROVE TypeOK'
  OBVIOUS
<1> USE MaxCyclesAssumption DEF TypeOK, channels, starters, StarterState, LoopState
<1>1. CASE Start
  <2>1. cycle + 1 \in Cycle
    BY <1>1 DEF Start
  <2>2. starter' \in [Cycle -> StarterState]
    BY <1>1, <2>1 DEF Start
  <2> QED
    BY <1>1, <2>1, <2>2 DEF Start
<1>2. CASE Stop
  BY <1>2 DEF Stop, Disarm
<1>3. CASE ParentCancel
  BY <1>3 DEF ParentCancel
<1>4. ASSUME NEW k \in Cycle, StartCall(k) PROVE TypeOK'
  <2>1. starter' \in [Cycle -> StarterState]
    BY <1>4 DEF StartCall, EnterHook, HookSucceeds, HookFails, Rollback
  <2>2. loop' \in [Cycle -> LoopState] /\ hookCtx' \in [Cycle -> Cycle \cup {NoCycle}]
    BY <1>4 DEF StartCall, EnterHook, HookSucceeds, HookFails, Rollback, Disarm
  <2>3. CASE Rollback(k)
    BY <2>1, <2>2, <2>3 DEF Rollback, Disarm
  <2>4. CASE ~Rollback(k)
    BY <1>4, <2>1, <2>2, <2>4 DEF StartCall, EnterHook, HookSucceeds, HookFails
  <2> QED
    BY <2>3, <2>4
<1>5. ASSUME NEW k \in Cycle, PollLoop(k) PROVE TypeOK'
  <2>1. loop' \in [Cycle -> LoopState]
    BY <1>5 DEF PollLoop, FirstPollReturns, SetReady, LoopEnds
  <2>2. loop[k] # "none"
    BY <1>5 DEF PollLoop, FirstPollReturns, SetReady, LoopEnds
  <2>3. cycle \in Cycle
    BY <1>5, <2>2 DEF CallsBelongToCycles
  <2>4. CASE SetReady(k)
    <3>1. readyClosed' \subseteq Cycle /\ panicked' \in BOOLEAN
      BY <2>3, <2>4 DEF SetReady
    <3> QED
      BY <2>1, <2>4, <3>1 DEF SetReady
  <2>5. CASE ~SetReady(k)
    BY <1>5, <2>1, <2>5 DEF PollLoop, FirstPollReturns, LoopEnds
  <2> QED
    BY <2>4, <2>5
<1>6. ASSUME NEW w \in Scrapes, ScrapeCall(w) PROVE TypeOK'
  <2>1. PICK to : ScrapeStep(w, to) /\ to \in ScrapeRecord
    <3>1. \A s \in ScrapeState : AtPc(s) \in ScrapeRecord
      BY DEF AtPc, ScrapeRecord
    <3>2. \A c, d \in Cycle \cup {NoCycle} :
             [pc |-> "selecting", rch |-> c, sch |-> d] \in ScrapeRecord
      BY DEF ScrapeRecord, ScrapeState
    <3>3. cycle \in Cycle \cup {NoCycle} /\ stopCh \in Cycle \cup {NoCycle}
      OBVIOUS
    <3>4. \A s \in {"idle", "waiting", "emitting"} : s \in ScrapeState
      BY DEF ScrapeState
    <3> QED
      BY <1>6, <3>1, <3>2, <3>3, <3>4 DEF ScrapeCall, Collect, WaitReady, Wake, Timeout,
         OnCollect
  <2> QED
    BY <2>1 DEF ScrapeStep
<1>7. CASE UNCHANGED vars
  BY <1>7 DEF vars
<1> QED
  BY <1>1, <1>2, <1>3, <1>4, <1>5, <1>6, <1>7 DEF Next

-----------------------------------------------------------------------------
LEMMA InitInv == Init => IInv
<1> SUFFICES ASSUME Init PROVE IInv
  OBVIOUS
<1>1. TypeOK
  BY InitType
<1>2. CallsBelongToCycles
  BY DEF Init, CallsBelongToCycles
<1>3. ArmedIsCurrent /\ WaiterHoldsOneCycle /\ ReadyAfterPoll
  BY DEF Init, ArmedIsCurrent, WaiterHoldsOneCycle, ReadyAfterPoll, AtPc
<1> QED
  BY <1>1, <1>2, <1>3 DEF IInv

LEMMA StepCalls == IInv /\ [Next]_vars => CallsBelongToCycles'
<1> SUFFICES ASSUME IInv, [Next]_vars PROVE CallsBelongToCycles'
  OBVIOUS
<1> USE MaxCyclesAssumption DEF IInv, TypeOK, CallsBelongToCycles, channels, starters
<1>1. CASE Start
  BY <1>1 DEF Start
<1>2. CASE Stop
  BY <1>2 DEF Stop, Disarm
<1>3. CASE ParentCancel
  BY <1>3 DEF ParentCancel
<1>4. ASSUME NEW k \in Cycle, StartCall(k) PROVE CallsBelongToCycles'
  BY <1>4 DEF StartCall, EnterHook, HookSucceeds, HookFails, Rollback, Disarm
<1>5. ASSUME NEW k \in Cycle, PollLoop(k) PROVE CallsBelongToCycles'
  BY <1>5 DEF PollLoop, FirstPollReturns, SetReady, LoopEnds
<1>6. ASSUME NEW w \in Scrapes, ScrapeCall(w) PROVE CallsBelongToCycles'
  BY <1>6 DEF ScrapeCall, Collect, WaitReady, Wake, Timeout, OnCollect, ScrapeStep
<1>7. CASE UNCHANGED vars
  BY <1>7 DEF vars
<1> QED
  BY <1>1, <1>2, <1>3, <1>4, <1>5, <1>6, <1>7 DEF Next

LEMMA StepArmed == IInv /\ [Next]_vars => ArmedIsCurrent'
<1> SUFFICES ASSUME IInv, [Next]_vars PROVE ArmedIsCurrent'
  OBVIOUS
<1> USE MaxCyclesAssumption DEF IInv, TypeOK, ArmedIsCurrent, channels, starters
<1>1. CASE Start
  BY <1>1 DEF Start
<1>2. CASE Stop
  BY <1>2 DEF Stop, Disarm
<1>3. CASE ParentCancel
  BY <1>3 DEF ParentCancel
<1>4. ASSUME NEW k \in Cycle, StartCall(k) PROVE ArmedIsCurrent'
  BY <1>4 DEF StartCall, EnterHook, HookSucceeds, HookFails, Rollback, Disarm
<1>5. ASSUME NEW k \in Cycle, PollLoop(k) PROVE ArmedIsCurrent'
  BY <1>5 DEF PollLoop, FirstPollReturns, SetReady, LoopEnds
<1>6. ASSUME NEW w \in Scrapes, ScrapeCall(w) PROVE ArmedIsCurrent'
  BY <1>6 DEF ScrapeCall, Collect, WaitReady, Wake, Timeout, OnCollect, ScrapeStep
<1>7. CASE UNCHANGED vars
  BY <1>7 DEF vars
<1> QED
  BY <1>1, <1>2, <1>3, <1>4, <1>5, <1>6, <1>7 DEF Next

LEMMA StepWaiter == IInv /\ [Next]_vars => WaiterHoldsOneCycle'
<1> SUFFICES ASSUME IInv, [Next]_vars PROVE WaiterHoldsOneCycle'
  OBVIOUS
<1> USE MaxCyclesAssumption DEF IInv, TypeOK, WaiterHoldsOneCycle, channels, starters,
        ScrapeRecord
<1>1. CASE Start
  BY <1>1 DEF Start
<1>2. CASE Stop
  BY <1>2 DEF Stop, Disarm
<1>3. CASE ParentCancel
  BY <1>3 DEF ParentCancel
<1>4. ASSUME NEW k \in Cycle, StartCall(k) PROVE WaiterHoldsOneCycle'
  BY <1>4 DEF StartCall, EnterHook, HookSucceeds, HookFails, Rollback, Disarm
<1>5. ASSUME NEW k \in Cycle, PollLoop(k) PROVE WaiterHoldsOneCycle'
  BY <1>5 DEF PollLoop, FirstPollReturns, SetReady, LoopEnds
<1>6. ASSUME NEW w \in Scrapes, ScrapeCall(w) PROVE WaiterHoldsOneCycle'
  BY <1>6 DEF ScrapeCall, Collect, WaitReady, Wake, Timeout, OnCollect, ScrapeStep,
     AtPc, ArmedIsCurrent
<1>7. CASE UNCHANGED vars
  BY <1>7 DEF vars
<1> QED
  BY <1>1, <1>2, <1>3, <1>4, <1>5, <1>6, <1>7 DEF Next

LEMMA StepReady == IInv /\ [Next]_vars => ReadyAfterPoll'
<1> SUFFICES ASSUME IInv, [Next]_vars PROVE ReadyAfterPoll'
  OBVIOUS
<1> USE DEF IInv, TypeOK, SomePollReturned, channels, starters
<1>1. CASE Start
  BY <1>1 DEF Start, ReadyAfterPoll
<1>2. CASE Stop
  BY <1>2 DEF Stop, Disarm, ReadyAfterPoll
<1>3. CASE ParentCancel
  BY <1>3 DEF ParentCancel, ReadyAfterPoll
<1>4. ASSUME NEW k \in Cycle, StartCall(k) PROVE ReadyAfterPoll'
  <2>1. SomePollReturned => SomePollReturned'
    <3>1. CASE HookSucceeds(k)
      BY <3>1 DEF HookSucceeds, CallsBelongToCycles
    <3>2. CASE ~HookSucceeds(k)
      BY <1>4, <3>2 DEF StartCall, EnterHook, HookFails, Rollback, Disarm
    <3> QED
      BY <3>1, <3>2
  <2>2. readyClosed' = readyClosed /\ scrape' = scrape
    BY <1>4 DEF StartCall, EnterHook, HookSucceeds, HookFails, Rollback, Disarm
  <2>3. ready' => ready
    <3>1. CASE Rollback(k)
      BY <3>1 DEF Rollback, Disarm
    <3>2. CASE ~Rollback(k)
      BY <1>4, <3>2 DEF StartCall, EnterHook, HookSucceeds, HookFails
    <3> QED
      BY <3>1, <3>2
  <2> QED
    BY <2>1, <2>2, <2>3 DEF ReadyAfterPoll
<1>5. ASSUME NEW k \in Cycle, PollLoop(k) PROVE ReadyAfterPoll'
  <2>1. scrape' = scrape
    BY <1>5 DEF PollLoop, FirstPollReturns, SetReady, LoopEnds
  <2>2. CASE SetReady(k)
    <3>1. loop'[k] = "looping"
      BY <2>2 DEF SetReady
    <3> QED
      BY <2>1, <3>1 DEF ReadyAfterPoll
  <2>3. CASE ~SetReady(k)
    <3>1. SomePollReturned => SomePollReturned'
      BY <1>5, <2>3 DEF PollLoop, FirstPollReturns, LoopEnds
    <3>2. ready' = ready /\ readyClosed' = readyClosed
      BY <1>5, <2>3 DEF PollLoop, FirstPollReturns, LoopEnds
    <3> QED
      BY <2>1, <3>1, <3>2 DEF ReadyAfterPoll
  <2> QED
    BY <2>2, <2>3
<1>6. ASSUME NEW w \in Scrapes, ScrapeCall(w) PROVE ReadyAfterPoll'
  <2>1. /\ ready' = ready /\ readyClosed' = readyClosed
        /\ SomePollReturned' <=> SomePollReturned
    BY <1>6 DEF ScrapeCall, Collect, WaitReady, Wake, Timeout, OnCollect, ScrapeStep
  <2>2. \A v \in Scrapes : v # w => scrape'[v] = scrape[v]
    BY <1>6 DEF ScrapeCall, Collect, WaitReady, Wake, Timeout, OnCollect, ScrapeStep
  <2>3. scrape'[w].pc = "emitting" => ready \/ readyClosed # {}
    BY <1>6 DEF ScrapeCall, Collect, WaitReady, Wake, Timeout, OnCollect, ScrapeStep,
       AtPc
  <2> QED
    BY <2>1, <2>2, <2>3 DEF ReadyAfterPoll
<1>7. CASE UNCHANGED vars
  BY <1>7 DEF vars, ReadyAfterPoll
<1> QED
  BY <1>1, <1>2, <1>3, <1>4, <1>5, <1>6, <1>7 DEF Next

LEMMA Inductive == Spec => []IInv
<1>1. IInv /\ [Next]_vars => IInv'
  BY NextType, StepCalls, StepArmed, StepWaiter, StepReady DEF IInv
<1> QED
  BY <1>1, InitInv, PTL DEF Spec

(* Type correctness: every variable keeps the type of the Go field or      *)
(* channel it stands for.                                                  *)
THEOREM TypeCorrect == Spec => []TypeOK
<1>1. IInv => TypeOK
  BY DEF IInv
<1> QED
  BY <1>1, Inductive, PTL

(* No interleaving of Start, Stop, rollbacks and late hooks leaves a poll  *)
(* loop whose context no later Stop cancels (base.go:145-175, 195-207).    *)
THEOREM LiveContext == Spec => []LiveContextIsStoppable
<1>1. IInv => LiveContextIsStoppable
  BY DEF IInv, ArmedIsCurrent, LiveContextIsStoppable
<1> QED
  BY <1>1, Inductive, PTL

(* A scrape blocked in WaitReady is never left with channels nobody will   *)
(* close (base.go:261-287 against the closes in Stop and the rollback).    *)
THEOREM NoStranded == Spec => []NoStrandedWaiter
<1>1. IInv => NoStrandedWaiter
  BY DEF IInv, ArmedIsCurrent, WaiterHoldsOneCycle, NoStrandedWaiter
<1> QED
  BY <1>1, Inductive, PTL

(* OnCollect runs only after some poll of the collector has returned       *)
(* (base.go:416-448 against RunPollLoop).                                  *)
THEOREM EmitAfterPoll == Spec => []EmitAfterFirstPoll
<1>1. IInv => EmitAfterFirstPoll
  BY DEF IInv, ReadyAfterPoll, SomePollReturned, EmitAfterFirstPoll
<1> QED
  BY <1>1, Inductive, PTL

(* Ready falls only when the collector stops or begins a new cycle         *)
(* (base.go:233).                                                          *)
THEOREM ReadyFalls == Spec => ReadyFallsWithItsCycle
<1>1. ASSUME Next
      PROVE  ready /\ ~ready' => \/ ~started'
                                 \/ ~started /\ cycle' = cycle + 1
  <2>1. ASSUME NEW k \in Cycle, StartCall(k) PROVE (ready' <=> ready) \/ ~started'
    <3>1. CASE Rollback(k)
      BY <3>1 DEF Rollback, Disarm
    <3>2. CASE ~Rollback(k)
      BY <2>1, <3>2 DEF StartCall, EnterHook, HookSucceeds, HookFails
    <3> QED
      BY <3>1, <3>2
  <2>2. ASSUME NEW k \in Cycle, PollLoop(k) PROVE ready' \/ (ready' <=> ready)
    BY <2>2 DEF PollLoop, FirstPollReturns, SetReady, LoopEnds
  <2>3. ASSUME NEW w \in Scrapes, ScrapeCall(w) PROVE ready' <=> ready
    BY <2>3 DEF ScrapeCall, Collect, WaitReady, Wake, Timeout, OnCollect, ScrapeStep
  <2> QED
    BY <1>1, <2>1, <2>2, <2>3 DEF Next, Start, Stop, Disarm, ParentCancel
<1> QED
  BY <1>1, PTL DEF Spec, ReadyFallsWithItsCycle
=============================================================================
