---------------------------- MODULE DatabasePoll ----------------------------
(***************************************************************************)
(* The database collector's poll pipeline (src/pkg/collector/database):    *)
(* pollLoop starts the secret cache and polls.  A poll makes one task of   *)
(* every credential secret in the cache; per database type a dispatcher    *)
(* launches a worker per task; workers take a slot of the type's           *)
(* semaphore, check the database and send its status; a closer closes the  *)
(* channel when the dispatchers have returned; the poll collects statuses  *)
(* until then and publishes them.                                          *)
(*                                                                         *)
(* A task is the database it checks: statuses are keyed by namespace and   *)
(* name, and so are credential secrets.  What a check finds is left out:   *)
(* whether a status was published is what the properties are about.        *)
(*                                                                         *)
(* Operators named Slip... are mistakes the properties must notice, each   *)
(* in place of the definition that follows it.                             *)
(***************************************************************************)
EXTENDS Naturals, FiniteSets

CONSTANTS
  Databases,      \* credential secrets
  Types,          \* database types
  TypeOf,         \* the type whose selector a secret matches
  Limit,          \* checks in flight per type, from the configuration
  MaxPolls        \* bound: polls of one poll loop

ASSUME TypeOfAssumption == TypeOf \in [Databases -> Types]
ASSUME MaxPollsAssumption == MaxPolls \in Nat \ {0}
(* The configuration is not checked: a limit may be 0.                     *)
ASSUME LimitAssumption == Limit \in [Types -> Nat]

Poll == 1 .. MaxPolls

VARIABLES
  ctxDone,     \* the poll loop's context is cancelled
  loop,        \* what pollLoop is doing
  poll,        \* number of the latest poll
  tasks,       \* the tasks each poll collected
  pending,     \* those its dispatchers have not reached
  dispatcher,  \* processTasksWithConcurrency, per poll and type
  worker,      \* the goroutine of each task
  statusChan,  \* statuses in each poll's channel
  closed,      \* polls whose statusChan is closed
  statusMap,   \* statuses the poll has collected
  published,   \* c.dbConnectivity: whose status it holds
  panicked     \* a worker sent on a closed channel: the process is gone

pipeline == <<pending, dispatcher, worker, statusChan, closed, panicked>>
results == <<statusMap, published>>
vars == <<ctxDone, loop, poll, tasks, pipeline, results>>

LoopState == {"syncing", "waiting", "polling", "ended"}
DispatcherState == {"none", "launching", "waiting", "returned"}
WorkerState == {"none", "queued", "checking", "checked", "sent", "done"}

(* Type correctness of the variables.                                      *)
TypeOK ==
  /\ ctxDone \in BOOLEAN
  /\ loop \in LoopState
  /\ poll \in 0 .. MaxPolls
  /\ tasks \in [Poll -> SUBSET Databases]
  /\ pending \in [Poll -> SUBSET Databases]
  /\ dispatcher \in [Poll -> [Types -> DispatcherState]]
  /\ worker \in [Poll -> [Databases -> WorkerState]]
  /\ statusChan \in [Poll -> SUBSET Databases]
  /\ closed \subseteq Poll
  /\ statusMap \subseteq Databases
  /\ published \subseteq Databases
  /\ panicked \in BOOLEAN

Init ==
  /\ ctxDone = FALSE
  /\ loop = "syncing"
  /\ poll = 0
  /\ tasks = [n \in Poll |-> {}]
  /\ pending = [n \in Poll |-> {}]
  /\ dispatcher = [n \in Poll |-> [dt \in Types |-> "none"]]
  /\ worker = [n \in Poll |-> [d \in Databases |-> "none"]]
  /\ statusChan = [n \in Poll |-> {}]
  /\ closed = {}
  /\ statusMap = {}
  /\ published = {}
  /\ panicked = FALSE

-----------------------------------------------------------------------------
(* The collector is stopped, or its leadership ends.                       *)
Cancel ==
  /\ ~ctxDone
  /\ ctxDone' = TRUE
  /\ UNCHANGED <<loop, poll, tasks, pipeline, results>>

(* secretCache.Start returns: it waits on its own stopCh for the informers *)
(* to sync, not on the context.                                            *)
CacheSynced ==
  /\ loop = "syncing"
  /\ loop' = "waiting"
  /\ UNCHANGED <<ctxDone, poll, tasks, pipeline, results>>

InType(ds, dt) == {d \in ds : TypeOf[d] = dt}

(* Poll collects its tasks, ds being the credential secrets in the cache   *)
(* by then, and starts a dispatcher for each type that has some.  The      *)
(* first poll does not look at the context, and neither does the select    *)
(* when a tick is due.                                                     *)
BeginPoll(ds) ==
  /\ loop = "waiting"
  /\ poll < MaxPolls
  /\ loop' = "polling"
  /\ poll' = poll + 1
  /\ tasks' = [tasks EXCEPT ![poll + 1] = ds]
  /\ pending' = [pending EXCEPT ![poll + 1] = ds]
  /\ dispatcher' = [dispatcher EXCEPT ![poll + 1] =
       [dt \in Types |-> IF InType(ds, dt) = {} THEN "none" ELSE "launching"]]
  /\ statusMap' = {}
  /\ UNCHANGED <<ctxDone, worker, statusChan, closed, published, panicked>>

EndLoop ==
  /\ loop = "waiting"
  /\ poll > 0
  /\ ctxDone
  /\ loop' = "ended"
  /\ UNCHANGED <<ctxDone, poll, tasks, pipeline, results>>

-----------------------------------------------------------------------------
(* The dispatcher of a type, processTasksWithConcurrency.                  *)
Dispatcher(n, dt, to) ==
  /\ dispatcher' = [dispatcher EXCEPT ![n][dt] = to]
  /\ UNCHANGED <<ctxDone, loop, poll, tasks, statusChan, closed, results, panicked>>

Launch(n, d) ==
  /\ dispatcher[n][TypeOf[d]] = "launching"
  /\ d \in pending[n]
  /\ ~ctxDone
  /\ pending' = [pending EXCEPT ![n] = @ \ {d}]
  /\ worker' = [worker EXCEPT ![n][d] = "queued"]
  /\ Dispatcher(n, TypeOf[d], "launching")

(* Slip: it waits for the workers, those it did not launch included.       *)
SlipGiveUp(n, dt) ==
  /\ dispatcher[n][dt] = "launching"
  /\ InType(pending[n], dt) # {}
  /\ ctxDone
  /\ Dispatcher(n, dt, "waiting")
  /\ UNCHANGED <<pending, worker>>

(* The context is done before all workers were launched: return at once,   *)
(* without waiting for the ones that were.                                 *)
GiveUp(n, dt) ==
  /\ dispatcher[n][dt] = "launching"
  /\ InType(pending[n], dt) # {}
  /\ ctxDone
  /\ Dispatcher(n, dt, "returned")
  /\ UNCHANGED <<pending, worker>>

AllLaunched(n, dt) ==
  /\ dispatcher[n][dt] = "launching"
  /\ InType(pending[n], dt) = {}
  /\ Dispatcher(n, dt, "waiting")
  /\ UNCHANGED <<pending, worker>>

(* Slip: wg.Wait is left out.                                              *)
SlipWaited(n, dt) ==
  /\ dispatcher[n][dt] = "waiting"
  /\ Dispatcher(n, dt, "returned")
  /\ UNCHANGED <<pending, worker>>

Waited(n, dt) ==
  /\ dispatcher[n][dt] = "waiting"
  /\ \A d \in InType(tasks[n], dt) : worker[n][d] = "done"
  /\ Dispatcher(n, dt, "returned")
  /\ UNCHANGED <<pending, worker>>

-----------------------------------------------------------------------------
(* A worker.  It gives its slot back only after it sent the status.        *)
WorkerStep(n, d, to) ==
  /\ worker' = [worker EXCEPT ![n][d] = to]
  /\ UNCHANGED <<ctxDone, loop, poll, tasks, pending, dispatcher, closed, results>>

(* Slip: the slot is not given back.                                       *)
SlipInFlight(dt) ==
  {nd \in Poll \X Databases :
     TypeOf[nd[2]] = dt /\ worker[nd[1]][nd[2]] \in {"checking", "checked", "sent", "done"}}

InFlight(dt) ==
  {nd \in Poll \X Databases :
     TypeOf[nd[2]] = dt /\ worker[nd[1]][nd[2]] \in {"checking", "checked", "sent"}}
SlotsTaken(n, dt) == Cardinality({nd \in InFlight(dt) : nd[1] = n})

(* Slip: the semaphore is one larger than the limit.                       *)
SlipAcquireSlot(n, d) ==
  /\ worker[n][d] = "queued"
  /\ SlotsTaken(n, TypeOf[d]) <= Limit[TypeOf[d]]
  /\ WorkerStep(n, d, "checking")
  /\ UNCHANGED <<statusChan, panicked>>

(* The semaphore is made anew by each processTasksWithConcurrency.         *)
AcquireSlot(n, d) ==
  /\ worker[n][d] = "queued"
  /\ SlotsTaken(n, TypeOf[d]) < Limit[TypeOf[d]]
  /\ WorkerStep(n, d, "checking")
  /\ UNCHANGED <<statusChan, panicked>>

(* checkDatabaseConnectivity returns: its preflight and connection attempt *)
(* are bounded by the check timeout and the context.                       *)
Check(n, d) ==
  /\ worker[n][d] = "checking"
  /\ WorkerStep(n, d, "checked")
  /\ UNCHANGED <<statusChan, panicked>>

(* The channel's buffer has room for every task of the poll.               *)
Send(n, d) ==
  /\ worker[n][d] = "checked"
  /\ WorkerStep(n, d, "sent")
  /\ \/ n \notin closed
        /\ statusChan' = [statusChan EXCEPT ![n] = @ \cup {d}]
        /\ UNCHANGED panicked
     \/ n \in closed
        /\ panicked' = TRUE
        /\ UNCHANGED statusChan

(* The deferred receive from the semaphore, and wg.Done.                   *)
ReleaseSlot(n, d) ==
  /\ worker[n][d] = "sent"
  /\ WorkerStep(n, d, "done")
  /\ UNCHANGED <<statusChan, panicked>>

-----------------------------------------------------------------------------
(* The closer: all dispatchers of the poll have returned.                  *)
CloseChan(n) ==
  /\ n <= poll
  /\ n \notin closed
  /\ \A dt \in Types : dispatcher[n][dt] \in {"none", "returned"}
  /\ closed' = closed \cup {n}
  /\ UNCHANGED <<ctxDone, loop, poll, tasks, pending, dispatcher, worker,
                 statusChan, results, panicked>>

(* Slip: statuses are keyed by the type of the database.                   *)
SlipReceive(d) ==
  /\ loop = "polling"
  /\ d \in statusChan[poll]
  /\ statusChan' = [statusChan EXCEPT ![poll] = @ \ {d}]
  /\ statusMap' = statusMap \cup {TypeOf[d]}
  /\ UNCHANGED <<ctxDone, loop, poll, tasks, pending, dispatcher, worker, closed,
                 published, panicked>>

(* The range loop of the poll takes a status out of the channel.           *)
Receive(d) ==
  /\ loop = "polling"
  /\ d \in statusChan[poll]
  /\ statusChan' = [statusChan EXCEPT ![poll] = @ \ {d}]
  /\ statusMap' = statusMap \cup {d}
  /\ UNCHANGED <<ctxDone, loop, poll, tasks, pending, dispatcher, worker, closed,
                 published, panicked>>

(* The range loop ends when the channel is closed and empty.               *)
Drained == poll \in closed /\ statusChan[poll] = {}

(* The new statuses and their statistics replace the old ones, under c.mu. *)
Publish ==
  /\ loop = "polling"
  /\ Drained
  /\ loop' = "waiting"
  /\ published' = statusMap
  /\ UNCHANGED <<ctxDone, poll, tasks, pipeline, statusMap>>

-----------------------------------------------------------------------------
PollLoop ==
  \/ CacheSynced
  \/ \E ds \in SUBSET Databases : BeginPoll(ds)
  \/ \E d \in Databases : Receive(d)
  \/ Publish
  \/ EndLoop

DispatcherNext(n, dt) == GiveUp(n, dt) \/ AllLaunched(n, dt) \/ Waited(n, dt)

WorkerNext(n, d) == AcquireSlot(n, d) \/ Check(n, d) \/ Send(n, d) \/ ReleaseSlot(n, d)

Next ==
  /\ ~panicked
  /\ \/ Cancel
     \/ PollLoop
     \/ \E n \in Poll : \/ CloseChan(n)
                        \/ \E dt \in Types : DispatcherNext(n, dt)
                        \/ \E d \in Databases : Launch(n, d) \/ WorkerNext(n, d)

Spec == Init /\ [][Next]_vars

(* As long as some goroutine of the pipeline can run, one of them does.    *)
(* That is enough, since none of them repeats a step within a poll.        *)
(* Checks return within their timeout; the first poll follows the cache's  *)
(* start.  The informers owe nothing, and no tick has to come.             *)
PipelineStep ==
  /\ ~panicked
  /\ \/ poll = 0 /\ \E ds \in SUBSET Databases : BeginPoll(ds)
     \/ \E d \in Databases : Receive(d)
     \/ Publish
     \/ EndLoop
     \/ \E n \in Poll : \/ CloseChan(n)
                        \/ \E dt \in Types : DispatcherNext(n, dt)
                        \/ \E d \in Databases : Launch(n, d) \/ WorkerNext(n, d)

Fairness == WF_vars(PipelineStep)

FairSpec == Spec /\ Fairness

-----------------------------------------------------------------------------
(* A poll nobody cancelled publishes a status for every database it found  *)
(* and for no other, however its workers interleave: a database is not     *)
(* lost because its worker is slow, and one whose secret is gone does not  *)
(* linger.                                                                 *)
PublishedIsComplete ==
  loop = "waiting" /\ poll > 0 /\ ~ctxDone => published = tasks[poll]

(* No more checks of a type are in flight than its limit allows - counted  *)
(* over all polls, the workers a cancelled poll left behind included.      *)
WithinConcurrency ==
  \A dt \in Types : Cardinality(InFlight(dt)) <= Limit[dt]

(* A worker of a type whose limit is 0: its semaphore has no buffer, and   *)
(* nobody receives from it before a worker has sent.                       *)
Starved ==
  loop = "polling" /\ \E d \in Databases : /\ worker[poll][d] = "queued"
                                          /\ Limit[TypeOf[d]] = 0

(* A poll comes to its end: dispatchers, workers, the closer and the       *)
(* collecting loop never wait for each other in a circle.  Only a limit of *)
(* 0 keeps it from ending.                                                 *)
PollEnds == loop = "polling" ~> (loop # "polling" \/ panicked \/ Starved)

(* A cancelled poll loop whose cache has synced ends, unless it polls a    *)
(* type whose limit is 0.                                                  *)
LoopEnds ==
  ctxDone /\ loop # "syncing" ~> (loop = "ended" \/ panicked \/ Starved)

(* "Wait for all processing to complete" (database.go:369): no worker      *)
(* sends a status after the channel was closed.                            *)
NoSendAfterClose == ~panicked
=============================================================================
