------------------------- MODULE DatabasePollProofs -------------------------
(***************************************************************************)
(* What TLAPS proves of DatabasePoll, for every set of databases and       *)
(* types, every limit and every number of polls: a poll nobody cancelled   *)
(* publishes exactly the databases it found, no more checks of a type are  *)
(* in flight than its limit, over all polls, the goroutines of a poll      *)
(* never all wait for each other, and none panics before a cancellation.   *)
(*                                                                         *)
(* The argument follows a task down the pipeline: it is pending, or has a  *)
(* worker; a worker that sent has its status in the channel or in the map; *)
(* a dispatcher that returned has left no task of its type behind.         *)
(***************************************************************************)
EXTENDS DatabasePoll, FiniteSetTheorems, TLAPS

(* A poll that has not begun has left no trace.                            *)
FuturePolls ==
  \A n \in Poll : n > poll =>
    /\ tasks[n] = {} /\ pending[n] = {} /\ statusChan[n] = {}
    /\ n \notin closed
    /\ \A d \in Databases : worker[n][d] = "none"
    /\ \A dt \in Types : dispatcher[n][dt] = "none"

(* A task is pending or has a worker, and nothing else has one.            *)
TasksPlaced ==
  \A n \in Poll :
    /\ pending[n] \subseteq tasks[n]
    /\ statusChan[n] \subseteq tasks[n]
    /\ \A d \in Databases : worker[n][d] = "none" <=> d \notin tasks[n] \ pending[n]

(* What dispatchers leave behind, as long as nobody cancels them.          *)
DispatchersDone ==
  ~ctxDone =>
    \A n \in Poll : n <= poll =>
      \A dt \in Types :
        /\ dispatcher[n][dt] = "none" => InType(tasks[n], dt) = {}
        /\ dispatcher[n][dt] \in {"waiting", "returned"} => InType(pending[n], dt) = {}
        /\ dispatcher[n][dt] = "returned" =>
             \A d \in InType(tasks[n], dt) : worker[n][d] = "done"

ClosedAfterDispatchers ==
  \A n \in closed : \A dt \in Types : dispatcher[n][dt] \in {"none", "returned"}

(* A status that was sent is on its way to the map, or there.              *)
StatusesDelivered ==
  /\ poll = 0 => loop # "polling"
  /\ loop = "syncing" => poll = 0
  /\ loop = "polling" =>
       /\ statusMap \subseteq tasks[poll]
       /\ ~ctxDone => \A d \in Databases :
            worker[poll][d] \in {"sent", "done"} => d \in statusChan[poll] \cup statusMap

IInv ==
  /\ TypeOK
  /\ FuturePolls
  /\ TasksPlaced
  /\ DispatchersDone
  /\ ClosedAfterDispatchers
  /\ StatusesDelivered
  /\ PublishedIsComplete
-----------------------------------------------------------------------------
USE TypeOfAssumption, MaxPollsAssumption, LimitAssumption
    DEF Poll, pipeline, results, LoopState, DispatcherState, WorkerState, InType

(* The type of every variable is kept.                                     *)
LEMMA NextTypeOK == IInv /\ [Next]_vars => TypeOK'
<1> SUFFICES ASSUME IInv, [Next]_vars PROVE TypeOK'
  OBVIOUS
<1> USE DEF IInv, TypeOK
<1>1. CASE Cancel
  BY <1>1 DEF Cancel
<1>2. CASE CacheSynced
  BY <1>2 DEF CacheSynced
<1>3. ASSUME NEW ds \in SUBSET Databases, BeginPoll(ds) PROVE TypeOK'
  BY <1>3 DEF BeginPoll
<1>4. ASSUME NEW d \in Databases, Receive(d) PROVE TypeOK'
  BY <1>4 DEF Receive
<1>5. CASE Publish
  BY <1>5 DEF Publish, Drained
<1>6. CASE EndLoop
  BY <1>6 DEF EndLoop
<1>7. ASSUME NEW n \in Poll, CloseChan(n) PROVE TypeOK'
  BY <1>7 DEF CloseChan
<1>8. ASSUME NEW n \in Poll, NEW dt \in Types, GiveUp(n, dt) PROVE TypeOK'
  BY <1>8 DEF GiveUp, Dispatcher
<1>9. ASSUME NEW n \in Poll, NEW dt \in Types, AllLaunched(n, dt) PROVE TypeOK'
  BY <1>9 DEF AllLaunched, Dispatcher
<1>10. ASSUME NEW n \in Poll, NEW dt \in Types, Waited(n, dt) PROVE TypeOK'
  BY <1>10 DEF Waited, Dispatcher
<1>11. ASSUME NEW n \in Poll, NEW d \in Databases, Launch(n, d) PROVE TypeOK'
  BY <1>11 DEF Launch, Dispatcher
<1>12. ASSUME NEW n \in Poll, NEW d \in Databases, AcquireSlot(n, d)
       PROVE  TypeOK'
  BY <1>12 DEF AcquireSlot, WorkerStep
<1>13. ASSUME NEW n \in Poll, NEW d \in Databases, Check(n, d) PROVE TypeOK'
  BY <1>13 DEF Check, WorkerStep
<1>14. ASSUME NEW n \in Poll, NEW d \in Databases, Send(n, d) PROVE TypeOK'
  <2>1. worker' \in [Poll -> [Databases -> WorkerState]]
    BY <1>14 DEF Send, WorkerStep
  <2>2. statusChan' \in [Poll -> SUBSET Databases] /\ panicked' \in BOOLEAN
    <3>1. CASE n \notin closed
      BY <1>14, <3>1 DEF Send
    <3>2. CASE n \in closed
      BY <1>14, <3>2 DEF Send
    <3> QED  BY <3>1, <3>2
  <2> QED  BY <1>14, <2>1, <2>2 DEF Send, WorkerStep
<1>15. ASSUME NEW n \in Poll, NEW d \in Databases, ReleaseSlot(n, d)
       PROVE  TypeOK'
  BY <1>15 DEF ReleaseSlot, WorkerStep
<1>16. CASE UNCHANGED vars
  BY <1>16 DEF vars
<1> QED
  BY <1>1, <1>2, <1>3, <1>4, <1>5, <1>6, <1>7, <1>8, <1>9, <1>10,
     <1>11, <1>12, <1>13, <1>14, <1>15, <1>16
     DEF Next, PollLoop, DispatcherNext, WorkerNext

(* Only BeginPoll reaches a poll that had not begun.                       *)
LEMMA NextFuturePolls == IInv /\ [Next]_vars => FuturePolls'
<1> SUFFICES ASSUME IInv, [Next]_vars PROVE FuturePolls'
  OBVIOUS
<1> USE DEF IInv, TypeOK, FuturePolls
<1>1. CASE Cancel
  BY <1>1 DEF Cancel
<1>2. CASE CacheSynced
  BY <1>2 DEF CacheSynced
<1>3. ASSUME NEW ds \in SUBSET Databases, BeginPoll(ds) PROVE FuturePolls'
  BY <1>3 DEF BeginPoll
<1>4. ASSUME NEW d \in Databases, Receive(d) PROVE FuturePolls'
  BY <1>4 DEF Receive
<1>5. CASE Publish
  BY <1>5 DEF Publish, Drained
<1>6. CASE EndLoop
  BY <1>6 DEF EndLoop
<1>7. ASSUME NEW n \in Poll, CloseChan(n) PROVE FuturePolls'
  BY <1>7 DEF CloseChan
<1>8. ASSUME NEW n \in Poll, NEW dt \in Types, GiveUp(n, dt) PROVE FuturePolls'
  BY <1>8 DEF GiveUp, Dispatcher
<1>9. ASSUME NEW n \in Poll, NEW dt \in Types, AllLaunched(n, dt)
      PROVE  FuturePolls'
  BY <1>9 DEF AllLaunched, Dispatcher
<1>10. ASSUME NEW n \in Poll, NEW dt \in Types, Waited(n, dt) PROVE FuturePolls'
  BY <1>10 DEF Waited, Dispatcher
<1>11. ASSUME NEW n \in Poll, NEW d \in Databases, Launch(n, d)
       PROVE  FuturePolls'
  BY <1>11 DEF Launch, Dispatcher
<1>12. ASSUME NEW n \in Poll, NEW d \in Databases, AcquireSlot(n, d)
       PROVE  FuturePolls'
  BY <1>12 DEF AcquireSlot, WorkerStep
<1>13. ASSUME NEW n \in Poll, NEW d \in Databases, Check(n, d)
       PROVE  FuturePolls'
  BY <1>13 DEF Check, WorkerStep
<1>14. ASSUME NEW n \in Poll, NEW d \in Databases, Send(n, d) PROVE FuturePolls'
  BY <1>14 DEF Send, WorkerStep
<1>15. ASSUME NEW n \in Poll, NEW d \in Databases, ReleaseSlot(n, d)
       PROVE  FuturePolls'
  BY <1>15 DEF ReleaseSlot, WorkerStep
<1>16. CASE UNCHANGED vars
  BY <1>16 DEF vars
<1> QED
  BY <1>1, <1>2, <1>3, <1>4, <1>5, <1>6, <1>7, <1>8, <1>9, <1>10,
     <1>11, <1>12, <1>13, <1>14, <1>15, <1>16
     DEF Next, PollLoop, DispatcherNext, WorkerNext

(* BeginPoll places every task as pending, Launch moves one to its worker. *)
LEMMA NextTasksPlaced == IInv /\ [Next]_vars => TasksPlaced'
<1> SUFFICES ASSUME IInv, [Next]_vars PROVE TasksPlaced'
  OBVIOUS
<1> USE DEF IInv, TypeOK, TasksPlaced, FuturePolls
<1>1. CASE Cancel
  BY <1>1 DEF Cancel
<1>2. CASE CacheSynced
  BY <1>2 DEF CacheSynced
<1>3. ASSUME NEW ds \in SUBSET Databases, BeginPoll(ds) PROVE TasksPlaced'
  BY <1>3 DEF BeginPoll
<1>4. ASSUME NEW d \in Databases, Receive(d) PROVE TasksPlaced'
  BY <1>4 DEF Receive
<1>5. CASE Publish
  BY <1>5 DEF Publish, Drained
<1>6. CASE EndLoop
  BY <1>6 DEF EndLoop
<1>7. ASSUME NEW n \in Poll, CloseChan(n) PROVE TasksPlaced'
  BY <1>7 DEF CloseChan
<1>8. ASSUME NEW n \in Poll, NEW dt \in Types, GiveUp(n, dt) PROVE TasksPlaced'
  BY <1>8 DEF GiveUp, Dispatcher
<1>9. ASSUME NEW n \in Poll, NEW dt \in Types, AllLaunched(n, dt)
      PROVE  TasksPlaced'
  BY <1>9 DEF AllLaunched, Dispatcher
<1>10. ASSUME NEW n \in Poll, NEW dt \in Types, Waited(n, dt) PROVE TasksPlaced'
  BY <1>10 DEF Waited, Dispatcher
<1>11. ASSUME NEW n \in Poll, NEW d \in Databases, Launch(n, d)
       PROVE  TasksPlaced'
  BY <1>11 DEF Launch, Dispatcher
<1>12. ASSUME NEW n \in Poll, NEW d \in Databases, AcquireSlot(n, d)
       PROVE  TasksPlaced'
  BY <1>12 DEF AcquireSlot, WorkerStep
<1>13. ASSUME NEW n \in Poll, NEW d \in Databases, Check(n, d)
       PROVE  TasksPlaced'
  BY <1>13 DEF Check, WorkerStep
<1>14. ASSUME NEW n \in Poll, NEW d \in Databases, Send(n, d) PROVE TasksPlaced'
  BY <1>14 DEF Send, WorkerStep
<1>15. ASSUME NEW n \in Poll, NEW d \in Databases, ReleaseSlot(n, d)
       PROVE  TasksPlaced'
  BY <1>15 DEF ReleaseSlot, WorkerStep
<1>16. CASE UNCHANGED vars
  BY <1>16 DEF vars
<1> QED
  BY <1>1, <1>2, <1>3, <1>4, <1>5, <1>6, <1>7, <1>8, <1>9, <1>10,
     <1>11, <1>12, <1>13, <1>14, <1>15, <1>16
     DEF Next, PollLoop, DispatcherNext, WorkerNext

(* A dispatcher nobody cancelled goes on only when no task is pending, and *)
(* returns only when its workers are done.                                 *)
LEMMA NextDispatchersDone == IInv /\ [Next]_vars => DispatchersDone'
<1> SUFFICES ASSUME IInv, [Next]_vars PROVE DispatchersDone'
  OBVIOUS
<1> USE DEF IInv, TypeOK, DispatchersDone, FuturePolls, TasksPlaced
<1>1. CASE Cancel
  BY <1>1 DEF Cancel
<1>2. CASE CacheSynced
  BY <1>2 DEF CacheSynced
<1>3. ASSUME NEW ds \in SUBSET Databases, BeginPoll(ds) PROVE DispatchersDone'
  BY <1>3 DEF BeginPoll
<1>4. ASSUME NEW d \in Databases, Receive(d) PROVE DispatchersDone'
  BY <1>4 DEF Receive
<1>5. CASE Publish
  BY <1>5 DEF Publish, Drained
<1>6. CASE EndLoop
  BY <1>6 DEF EndLoop
<1>7. ASSUME NEW n \in Poll, CloseChan(n) PROVE DispatchersDone'
  BY <1>7 DEF CloseChan
<1>8. ASSUME NEW n \in Poll, NEW dt \in Types, GiveUp(n, dt)
      PROVE  DispatchersDone'
  BY <1>8 DEF GiveUp, Dispatcher
<1>9. ASSUME NEW n \in Poll, NEW dt \in Types, AllLaunched(n, dt)
      PROVE  DispatchersDone'
  <2>1. UNCHANGED <<ctxDone, poll, tasks, pending, worker>>
    BY <1>9 DEF AllLaunched, Dispatcher
  <2>2. \A m \in Poll, t \in Types :
          dispatcher'[m][t] = IF m = n /\ t = dt THEN "waiting" ELSE dispatcher[m][t]
    BY <1>9 DEF AllLaunched, Dispatcher
  <2>3. InType(pending[n], dt) = {}
    BY <1>9 DEF AllLaunched
  <2>4. SUFFICES ASSUME ~ctxDone, NEW m \in Poll, m <= poll, NEW t \in Types
                 PROVE  /\ dispatcher'[m][t] = "none" => InType(tasks[m], t) = {}
                        /\ dispatcher'[m][t] \in {"waiting", "returned"} => InType(pending[m], t) = {}
                        /\ dispatcher'[m][t] = "returned" =>
                             \A d \in InType(tasks[m], t) : worker[m][d] = "done"
    BY <2>1
  <2>5. CASE m = n /\ t = dt
    BY <2>2, <2>3, <2>4, <2>5
  <2>6. CASE ~(m = n /\ t = dt)
    BY <2>2, <2>4, <2>6
  <2> QED  BY <2>5, <2>6
<1>10. ASSUME NEW n \in Poll, NEW dt \in Types, Waited(n, dt)
       PROVE  DispatchersDone'
  <2>1. UNCHANGED <<ctxDone, poll, tasks, pending, worker>>
    BY <1>10 DEF Waited, Dispatcher
  <2>2. \A m \in Poll, t \in Types :
          dispatcher'[m][t] = IF m = n /\ t = dt THEN "returned" ELSE dispatcher[m][t]
    BY <1>10 DEF Waited, Dispatcher
  <2>3. dispatcher[n][dt] = "waiting" /\ \A d \in InType(tasks[n], dt) : worker[n][d] = "done"
    BY <1>10 DEF Waited
  <2>4. SUFFICES ASSUME ~ctxDone, NEW m \in Poll, m <= poll, NEW t \in Types
                 PROVE  /\ dispatcher'[m][t] = "none" => InType(tasks[m], t) = {}
                        /\ dispatcher'[m][t] \in {"waiting", "returned"} => InType(pending[m], t) = {}
                        /\ dispatcher'[m][t] = "returned" =>
                             \A d \in InType(tasks[m], t) : worker[m][d] = "done"
    BY <2>1
  <2>5. CASE m = n /\ t = dt
    BY <2>2, <2>3, <2>4, <2>5
  <2>6. CASE ~(m = n /\ t = dt)
    BY <2>2, <2>4, <2>6
  <2> QED  BY <2>5, <2>6
<1>11. ASSUME NEW n \in Poll, NEW d \in Databases, Launch(n, d)
       PROVE  DispatchersDone'
  BY <1>11 DEF Launch, Dispatcher
<1>12. ASSUME NEW n \in Poll, NEW d \in Databases, AcquireSlot(n, d)
       PROVE  DispatchersDone'
  BY <1>12 DEF AcquireSlot, WorkerStep
<1>13. ASSUME NEW n \in Poll, NEW d \in Databases, Check(n, d)
       PROVE  DispatchersDone'
  BY <1>13 DEF Check, WorkerStep
<1>14. ASSUME NEW n \in Poll, NEW d \in Databases, Send(n, d)
       PROVE  DispatchersDone'
  BY <1>14 DEF Send, WorkerStep
<1>15. ASSUME NEW n \in Poll, NEW d \in Databases, ReleaseSlot(n, d)
       PROVE  DispatchersDone'
  BY <1>15 DEF ReleaseSlot, WorkerStep
<1>16. CASE UNCHANGED vars
  BY <1>16 DEF vars
<1> QED
  BY <1>1, <1>2, <1>3, <1>4, <1>5, <1>6, <1>7, <1>8, <1>9, <1>10,
     <1>11, <1>12, <1>13, <1>14, <1>15, <1>16
     DEF Next, PollLoop, DispatcherNext, WorkerNext

(* CloseChan waits for the dispatchers, which never start again.           *)
LEMMA NextClosedAfterDispatchers == IInv /\ [Next]_vars => ClosedAfterDispatchers'
<1> SUFFICES ASSUME IInv, [Next]_vars PROVE ClosedAfterDispatchers'
  OBVIOUS
<1> USE DEF IInv, TypeOK, FuturePolls, ClosedAfterDispatchers
<1>1. CASE Cancel
  BY <1>1 DEF Cancel
<1>2. CASE CacheSynced
  BY <1>2 DEF CacheSynced
<1>3. ASSUME NEW ds \in SUBSET Databases, BeginPoll(ds)
      PROVE  ClosedAfterDispatchers'
  BY <1>3 DEF BeginPoll
<1>4. ASSUME NEW d \in Databases, Receive(d) PROVE ClosedAfterDispatchers'
  BY <1>4 DEF Receive
<1>5. CASE Publish
  BY <1>5 DEF Publish, Drained
<1>6. CASE EndLoop
  BY <1>6 DEF EndLoop
<1>7. ASSUME NEW n \in Poll, CloseChan(n) PROVE ClosedAfterDispatchers'
  BY <1>7 DEF CloseChan
<1>8. ASSUME NEW n \in Poll, NEW dt \in Types, GiveUp(n, dt)
      PROVE  ClosedAfterDispatchers'
  BY <1>8 DEF GiveUp, Dispatcher
<1>9. ASSUME NEW n \in Poll, NEW dt \in Types, AllLaunched(n, dt)
      PROVE  ClosedAfterDispatchers'
  BY <1>9 DEF AllLaunched, Dispatcher
<1>10. ASSUME NEW n \in Poll, NEW dt \in Types, Waited(n, dt)
       PROVE  ClosedAfterDispatchers'
  BY <1>10 DEF Waited, Dispatcher
<1>11. ASSUME NEW n \in Poll, NEW d \in Databases, Launch(n, d)
       PROVE  ClosedAfterDispatchers'
  BY <1>11 DEF Launch, Dispatcher
<1>12. ASSUME NEW n \in Poll, NEW d \in Databases, AcquireSlot(n, d)
       PROVE  ClosedAfterDispatchers'
  BY <1>12 DEF AcquireSlot, WorkerStep
<1>13. ASSUME NEW n \in Poll, NEW d \in Databases, Check(n, d)
       PROVE  ClosedAfterDispatchers'
  BY <1>13 DEF Check, WorkerStep
<1>14. ASSUME NEW n \in Poll, NEW d \in Databases, Send(n, d)
       PROVE  ClosedAfterDispatchers'
  BY <1>14 DEF Send, WorkerStep
<1>15. ASSUME NEW n \in Poll, NEW d \in Databases, ReleaseSlot(n, d)
       PROVE  ClosedAfterDispatchers'
  BY <1>15 DEF ReleaseSlot, WorkerStep
<1>16. CASE UNCHANGED vars
  BY <1>16 DEF vars
<1> QED
  BY <1>1, <1>2, <1>3, <1>4, <1>5, <1>6, <1>7, <1>8, <1>9, <1>10,
     <1>11, <1>12, <1>13, <1>14, <1>15, <1>16
     DEF Next, PollLoop, DispatcherNext, WorkerNext

(* A send to an open channel adds the status; Receive moves it to the map. *)
LEMMA NextStatusesDelivered == IInv /\ [Next]_vars => StatusesDelivered'
<1> SUFFICES ASSUME IInv, [Next]_vars PROVE StatusesDelivered'
  OBVIOUS
<1> USE DEF IInv, TypeOK, FuturePolls, TasksPlaced, DispatchersDone,
            ClosedAfterDispatchers, StatusesDelivered
<1>1. CASE Cancel
  BY <1>1 DEF Cancel
<1>2. CASE CacheSynced
  BY <1>2 DEF CacheSynced
<1>3. ASSUME NEW ds \in SUBSET Databases, BeginPoll(ds) PROVE StatusesDelivered'
  BY <1>3 DEF BeginPoll
<1>4. ASSUME NEW d \in Databases, Receive(d) PROVE StatusesDelivered'
  BY <1>4 DEF Receive
<1>5. CASE Publish
  BY <1>5 DEF Publish, Drained
<1>6. CASE EndLoop
  BY <1>6 DEF EndLoop
<1>7. ASSUME NEW n \in Poll, CloseChan(n) PROVE StatusesDelivered'
  BY <1>7 DEF CloseChan
<1>8. ASSUME NEW n \in Poll, NEW dt \in Types, GiveUp(n, dt)
      PROVE  StatusesDelivered'
  BY <1>8 DEF GiveUp, Dispatcher
<1>9. ASSUME NEW n \in Poll, NEW dt \in Types, AllLaunched(n, dt)
      PROVE  StatusesDelivered'
  BY <1>9 DEF AllLaunched, Dispatcher
<1>10. ASSUME NEW n \in Poll, NEW dt \in Types, Waited(n, dt)
       PROVE  StatusesDelivered'
  BY <1>10 DEF Waited, Dispatcher
<1>11. ASSUME NEW n \in Poll, NEW d \in Databases, Launch(n, d)
       PROVE  StatusesDelivered'
  BY <1>11 DEF Launch, Dispatcher
<1>12. ASSUME NEW n \in Poll, NEW d \in Databases, AcquireSlot(n, d)
       PROVE  StatusesDelivered'
  BY <1>12 DEF AcquireSlot, WorkerStep
<1>13. ASSUME NEW n \in Poll, NEW d \in Databases, Check(n, d)
       PROVE  StatusesDelivered'
  BY <1>13 DEF Check, WorkerStep
<1>14. ASSUME NEW n \in Poll, NEW d \in Databases, Send(n, d)
       PROVE  StatusesDelivered'
  <2>1. UNCHANGED <<ctxDone, loop, poll, tasks, dispatcher, closed, statusMap>>
    BY <1>14 DEF Send, WorkerStep
  <2>2. \A m \in Poll, e \in Databases :
          worker'[m][e] = IF m = n /\ e = d THEN "sent" ELSE worker[m][e]
    BY <1>14 DEF Send, WorkerStep
  <2>3. n \notin closed =>
          d \in statusChan'[n] /\ \A m \in Poll : statusChan[m] \subseteq statusChan'[m]
    BY <1>14 DEF Send
  <2>4. n \in closed => statusChan' = statusChan
    BY <1>14 DEF Send
  <2>5. SUFFICES ASSUME loop = "polling", ~ctxDone, NEW e \in Databases,
                        worker'[poll][e] \in {"sent", "done"}
                 PROVE  e \in statusChan'[poll] \cup statusMap
    BY <2>1
  <2>6. poll \in Poll
    BY <2>5
  <2>7. CASE poll = n /\ e = d
    <3>1. worker[n][d] = "checked"
      BY <1>14 DEF Send
    <3>2. n \notin closed
      BY <2>5, <2>6, <2>7, <3>1
    <3> QED  BY <2>3, <2>6, <2>7, <3>2
  <2>8. CASE ~(poll = n /\ e = d)
    BY <2>2, <2>3, <2>4, <2>5, <2>6, <2>8
  <2> QED  BY <2>7, <2>8
<1>15. ASSUME NEW n \in Poll, NEW d \in Databases, ReleaseSlot(n, d)
       PROVE  StatusesDelivered'
  BY <1>15 DEF ReleaseSlot, WorkerStep
<1>16. CASE UNCHANGED vars
  BY <1>16 DEF vars
<1> QED
  BY <1>1, <1>2, <1>3, <1>4, <1>5, <1>6, <1>7, <1>8, <1>9, <1>10,
     <1>11, <1>12, <1>13, <1>14, <1>15, <1>16
     DEF Next, PollLoop, DispatcherNext, WorkerNext

(* Publish finds the channel closed and empty: the dispatchers have        *)
(* returned, so every worker has sent, and every status is in the map.     *)
LEMMA NextPublishedIsComplete == IInv /\ [Next]_vars => PublishedIsComplete'
<1> SUFFICES ASSUME IInv, [Next]_vars PROVE PublishedIsComplete'
  OBVIOUS
<1> USE DEF IInv, TypeOK, TasksPlaced, DispatchersDone, ClosedAfterDispatchers,
            StatusesDelivered, PublishedIsComplete
<1>1. CASE Cancel
  BY <1>1 DEF Cancel
<1>2. CASE CacheSynced
  BY <1>2 DEF CacheSynced
<1>3. ASSUME NEW ds \in SUBSET Databases, BeginPoll(ds)
      PROVE  PublishedIsComplete'
  BY <1>3 DEF BeginPoll
<1>4. ASSUME NEW d \in Databases, Receive(d) PROVE PublishedIsComplete'
  BY <1>4 DEF Receive
<1>5. CASE Publish
  <2>1. SUFFICES ASSUME poll > 0, ~ctxDone  PROVE published' = tasks[poll]
    BY <1>5 DEF Publish
  <2>2. /\ loop = "polling" /\ published' = statusMap
        /\ poll \in Poll /\ poll \in closed /\ statusChan[poll] = {}
    BY <1>5, <2>1 DEF Publish, Drained
  <2>3. ASSUME NEW d \in tasks[poll]  PROVE d \in statusMap
    <3>1. d \in InType(tasks[poll], TypeOf[d]) /\ TypeOf[d] \in Types /\ d \in Databases
      BY <2>2, <2>3
    <3>2. dispatcher[poll][TypeOf[d]] = "returned"
      BY <2>1, <2>2, <3>1
    <3>3. worker[poll][d] = "done"
      BY <2>1, <2>2, <3>1, <3>2
    <3> QED  BY <2>1, <2>2, <3>1, <3>3
  <2>4. statusMap \subseteq tasks[poll]
    BY <2>2
  <2>5. tasks[poll] \subseteq statusMap
    BY <2>3
  <2>6. statusMap = tasks[poll]
    BY ONLY <2>4, <2>5
  <2> QED  BY <2>2, <2>6
<1>6. CASE EndLoop
  BY <1>6 DEF EndLoop
<1>7. ASSUME NEW n \in Poll, CloseChan(n) PROVE PublishedIsComplete'
  BY <1>7 DEF CloseChan
<1>8. ASSUME NEW n \in Poll, NEW dt \in Types, GiveUp(n, dt)
      PROVE  PublishedIsComplete'
  BY <1>8 DEF GiveUp, Dispatcher
<1>9. ASSUME NEW n \in Poll, NEW dt \in Types, AllLaunched(n, dt)
      PROVE  PublishedIsComplete'
  BY <1>9 DEF AllLaunched, Dispatcher
<1>10. ASSUME NEW n \in Poll, NEW dt \in Types, Waited(n, dt)
       PROVE  PublishedIsComplete'
  BY <1>10 DEF Waited, Dispatcher
<1>11. ASSUME NEW n \in Poll, NEW d \in Databases, Launch(n, d)
       PROVE  PublishedIsComplete'
  BY <1>11 DEF Launch, Dispatcher
<1>12. ASSUME NEW n \in Poll, NEW d \in Databases, AcquireSlot(n, d)
       PROVE  PublishedIsComplete'
  BY <1>12 DEF AcquireSlot, WorkerStep
<1>13. ASSUME NEW n \in Poll, NEW d \in Databases, Check(n, d)
       PROVE  PublishedIsComplete'
  BY <1>13 DEF Check, WorkerStep
<1>14. ASSUME NEW n \in Poll, NEW d \in Databases, Send(n, d)
       PROVE  PublishedIsComplete'
  BY <1>14 DEF Send, WorkerStep
<1>15. ASSUME NEW n \in Poll, NEW d \in Databases, ReleaseSlot(n, d)
       PROVE  PublishedIsComplete'
  BY <1>15 DEF ReleaseSlot, WorkerStep
<1>16. CASE UNCHANGED vars
  BY <1>16 DEF vars
<1> QED
  BY <1>1, <1>2, <1>3, <1>4, <1>5, <1>6, <1>7, <1>8, <1>9, <1>10,
     <1>11, <1>12, <1>13, <1>14, <1>15, <1>16
     DEF Next, PollLoop, DispatcherNext, WorkerNext

(* Nothing runs at first.                                                  *)
LEMMA InitIInv == Init => IInv
<1> SUFFICES ASSUME Init PROVE IInv
  OBVIOUS
<1>1. TypeOK
  <2>1. dispatcher \in [Poll -> [Types -> DispatcherState]]
    <3>1. [dt \in Types |-> "none"] \in [Types -> DispatcherState]
      OBVIOUS
    <3> QED  BY <3>1 DEF Init
  <2>2. worker \in [Poll -> [Databases -> WorkerState]]
    <3>1. [d \in Databases |-> "none"] \in [Databases -> WorkerState]
      OBVIOUS
    <3> QED  BY <3>1 DEF Init
  <2>3. tasks \in [Poll -> SUBSET Databases] /\ pending \in [Poll -> SUBSET Databases]
    BY DEF Init
  <2>4. statusChan \in [Poll -> SUBSET Databases] /\ closed \subseteq Poll
    BY DEF Init
  <2>5. poll \in 0 .. MaxPolls /\ loop \in LoopState
    BY DEF Init
  <2>6. /\ ctxDone \in BOOLEAN /\ panicked \in BOOLEAN
        /\ statusMap \subseteq Databases /\ published \subseteq Databases
    BY DEF Init
  <2> QED  BY ONLY <2>1, <2>2, <2>3, <2>4, <2>5, <2>6 DEF TypeOK
<1>2. FuturePolls /\ TasksPlaced
  BY DEF Init, FuturePolls, TasksPlaced
<1>3. DispatchersDone /\ ClosedAfterDispatchers
  BY DEF Init, DispatchersDone, ClosedAfterDispatchers
<1>4. StatusesDelivered /\ PublishedIsComplete
  BY DEF Init, StatusesDelivered, PublishedIsComplete
<1> QED
  BY <1>1, <1>2, <1>3, <1>4 DEF IInv

(* Every step of the pipeline keeps the inductive invariant.               *)
LEMMA NextIInv == IInv /\ [Next]_vars => IInv'
  BY NextTypeOK, NextFuturePolls, NextTasksPlaced, NextDispatchersDone,
     NextClosedAfterDispatchers, NextStatusesDelivered, NextPublishedIsComplete
     DEF IInv

-----------------------------------------------------------------------------
(* The inductive invariant holds in every behaviour.                       *)
LEMMA Inductive == Spec => []IInv
  BY InitIInv, NextIInv, PTL DEF Spec

(* Type correctness.                                                       *)
THEOREM TypeCorrect == Spec => []TypeOK
<1>1. IInv => TypeOK
  BY DEF IInv
<1> QED
  BY <1>1, Inductive, PTL

(* A poll nobody cancelled publishes the databases it found, all of them   *)
(* and no other (database.go:344-383, 386-445), for any number of          *)
(* databases and types and any limits.                                     *)
THEOREM CompletePolls == Spec => []PublishedIsComplete
<1>1. IInv => PublishedIsComplete
  BY DEF IInv
<1> QED
  BY <1>1, Inductive, PTL

-----------------------------------------------------------------------------
(* The concurrency limit.  The semaphore of a poll bounds the workers of   *)
(* that poll; the limit holds over all polls because workers are launched  *)
(* only while nobody has cancelled, and then those of every earlier poll   *)
(* are done.                                                               *)
Busy == {"queued", "checking", "checked", "sent"}
Slots(n, dt) == {nd \in InFlight(dt) : nd[1] = n}

PastPollsClosed ==
  \A n \in Poll : (n < poll \/ (n = poll /\ loop # "polling")) => n \in closed

OneBusyPoll ==
  \A m, n \in Poll : \A d, e \in Databases :
    worker[m][d] \in Busy /\ worker[n][e] \in Busy => m = n

SlotsBounded ==
  \A n \in Poll : \A dt \in Types :
    IsFiniteSet(Slots(n, dt)) /\ Cardinality(Slots(n, dt)) <= Limit[dt]

SInv == PastPollsClosed /\ OneBusyPoll /\ SlotsBounded

(* A poll is over only when its channel is closed.                         *)
LEMMA NextPastPollsClosed ==
  IInv /\ PastPollsClosed /\ [Next]_vars => PastPollsClosed'
<1> SUFFICES ASSUME IInv, PastPollsClosed, [Next]_vars PROVE PastPollsClosed'
  OBVIOUS
<1> USE DEF IInv, TypeOK, PastPollsClosed, StatusesDelivered
<1>1. ASSUME NEW ds \in SUBSET Databases, BeginPoll(ds) PROVE PastPollsClosed'
  BY <1>1 DEF BeginPoll
<1>2. CASE Publish
  BY <1>2 DEF Publish, Drained
<1>3. ASSUME NEW n \in Poll, CloseChan(n) PROVE PastPollsClosed'
  BY <1>3 DEF CloseChan
<1>4. CASE CacheSynced
  BY <1>4 DEF CacheSynced
<1>5. CASE EndLoop
  BY <1>5 DEF EndLoop
<1>6. CASE UNCHANGED <<poll, loop, closed>>
  BY <1>6
<1>7. Cancel \/ (\E d \in Databases : Receive(d)) => UNCHANGED <<poll, loop, closed>>
  BY DEF Cancel, Receive
<1>8. ASSUME NEW n \in Poll, NEW dt \in Types, DispatcherNext(n, dt)
      PROVE  UNCHANGED <<poll, loop, closed>>
  BY <1>8 DEF DispatcherNext, GiveUp, AllLaunched, Waited, Dispatcher
<1>9. ASSUME NEW n \in Poll, NEW d \in Databases, Launch(n, d) \/ WorkerNext(n, d)
      PROVE  UNCHANGED <<poll, loop, closed>>
  BY <1>9 DEF Launch, Dispatcher, WorkerNext, AcquireSlot, Check, Send, ReleaseSlot,
              WorkerStep
<1> QED
  BY <1>1, <1>2, <1>3, <1>4, <1>5, <1>6, <1>7, <1>8, <1>9 DEF Next, PollLoop, vars

(* While nobody has cancelled, only the latest poll has workers that are   *)
(* not done, and those only while it lasts.                                *)
LEMMA OnlyLatestBusy ==
  ASSUME IInv, PastPollsClosed, ~ctxDone,
         NEW n \in Poll, NEW d \in Databases, worker[n][d] \in Busy
  PROVE  n = poll /\ loop = "polling"
<1>1. n <= poll
  BY DEF IInv, FuturePolls, Busy, TypeOK
<1>2. d \in tasks[n]
  BY DEF IInv, TasksPlaced, Busy, TypeOK
<1>3. SUFFICES ASSUME n \in closed PROVE FALSE
  BY <1>1 DEF PastPollsClosed, IInv, TypeOK
<1>4. dispatcher[n][TypeOf[d]] \in {"none", "returned"}
  BY <1>3 DEF IInv, ClosedAfterDispatchers
<1>5. d \in InType(tasks[n], TypeOf[d])
  BY <1>2
<1>6. dispatcher[n][TypeOf[d]] = "returned"
  BY <1>1, <1>4, <1>5 DEF IInv, DispatchersDone
<1>7. worker[n][d] = "done"
  BY <1>1, <1>5, <1>6 DEF IInv, DispatchersDone
<1> QED
  BY <1>7 DEF Busy

(* What each step does to the workers.                                     *)
LEMMA WorkerSteps ==
  ASSUME IInv, [Next]_vars
  PROVE  \/ UNCHANGED worker
         \/ \E n \in Poll : \E d \in Databases :
              \/ Launch(n, d)
              \/ AcquireSlot(n, d)
              \/ Check(n, d) \/ Send(n, d)
              \/ ReleaseSlot(n, d)
<1>1. Cancel \/ PollLoop => UNCHANGED worker
  BY DEF Cancel, PollLoop, CacheSynced, BeginPoll, Receive, Publish, EndLoop
<1>2. ASSUME NEW n \in Poll, CloseChan(n) PROVE UNCHANGED worker
  BY <1>2 DEF CloseChan
<1>3. ASSUME NEW n \in Poll, NEW dt \in Types, DispatcherNext(n, dt)
      PROVE  UNCHANGED worker
  BY <1>3 DEF DispatcherNext, GiveUp, AllLaunched, Waited
<1> QED
  BY <1>1, <1>2, <1>3 DEF Next, WorkerNext, vars

(* A worker that is launched meets none of an earlier poll.                *)
LEMMA NextOneBusyPoll ==
  IInv /\ SInv /\ [Next]_vars => OneBusyPoll'
<1> SUFFICES ASSUME IInv, SInv, [Next]_vars PROVE OneBusyPoll'
  OBVIOUS
<1> USE DEF SInv
<1>t. worker \in [Poll -> [Databases -> WorkerState]]
  BY DEF IInv, TypeOK
<1>1. CASE UNCHANGED worker
  BY <1>1 DEF OneBusyPoll
<1>2. ASSUME NEW n \in Poll, NEW d \in Databases, Launch(n, d) PROVE OneBusyPoll'
  <2>1. ~ctxDone /\ worker' = [worker EXCEPT ![n][d] = "queued"]
    BY <1>2 DEF Launch
  <2>2. n <= poll
    BY <1>2 DEF Launch, IInv, FuturePolls, TypeOK
  <2>3. n = poll
    <3>1. SUFFICES ASSUME n \in closed PROVE FALSE
      BY <2>2 DEF PastPollsClosed, IInv, TypeOK
    <3> QED  BY <1>2, <3>1 DEF IInv, ClosedAfterDispatchers, Launch
  <2>4. ASSUME NEW m \in Poll, NEW e \in Databases, worker'[m][e] \in Busy
        PROVE  m = poll
    <3>1. CASE m = n /\ e = d
      BY <2>3, <3>1
    <3>2. CASE ~(m = n /\ e = d)
      <4>1. worker[m][e] \in Busy
        BY <2>1, <2>4, <3>2, <1>t
      <4> QED  BY <2>1, <4>1, OnlyLatestBusy
    <3> QED  BY <3>1, <3>2
  <2> QED  BY <2>4 DEF OneBusyPoll
<1>3. ASSUME NEW n \in Poll, NEW d \in Databases,
             AcquireSlot(n, d) \/ Check(n, d) \/ Send(n, d) \/ ReleaseSlot(n, d)
      PROVE  OneBusyPoll'
  <2>1. worker[n][d] \in Busy
    BY <1>3 DEF AcquireSlot, Check, Send, ReleaseSlot, Busy
  <2>2. PICK to \in WorkerState : worker' = [worker EXCEPT ![n][d] = to]
    BY <1>3 DEF AcquireSlot, Check, Send, ReleaseSlot, WorkerStep
  <2>3. ASSUME NEW m \in Poll, NEW e \in Databases, worker'[m][e] \in Busy
        PROVE  worker[m][e] \in Busy
    BY <2>1, <2>2, <2>3, <1>t
  <2> QED  BY <2>3 DEF OneBusyPoll
<1> QED
  BY <1>1, <1>2, <1>3, WorkerSteps

(* The semaphore of a poll and type bounds the slots that are taken.       *)
LEMMA NextSlotsBounded ==
  IInv /\ SInv /\ [Next]_vars => SlotsBounded'
<1> SUFFICES ASSUME IInv, SInv, [Next]_vars,
                    NEW m \in Poll, NEW dt \in Types
             PROVE  IsFiniteSet(Slots(m, dt)') /\ Cardinality(Slots(m, dt)') <= Limit[dt]
  BY DEF SlotsBounded
<1> DEFINE Old == Slots(m, dt)
<1>t. worker \in [Poll -> [Databases -> WorkerState]]
  BY DEF IInv, TypeOK
<1>o. IsFiniteSet(Old) /\ Cardinality(Old) \in Nat /\ Cardinality(Old) <= Limit[dt]
  BY FS_CardinalityType DEF SInv, SlotsBounded
<1>m. \A nd : nd \in Old <=> /\ nd \in Poll \X Databases /\ TypeOf[nd[2]] = dt /\ nd[1] = m
                             /\ worker[nd[1]][nd[2]] \in {"checking", "checked", "sent"}
  BY DEF Slots, InFlight
<1>p. \A nd : nd \in Old' <=> /\ nd \in Poll \X Databases /\ TypeOf[nd[2]] = dt /\ nd[1] = m
                              /\ worker'[nd[1]][nd[2]] \in {"checking", "checked", "sent"}
  BY DEF Slots, InFlight
<1> HIDE DEF Old
<1>1. CASE Old' = Old
  BY <1>1, <1>o DEF Old
<1>2. CASE UNCHANGED worker
  <2>1. Old' = Old
    BY <1>2, <1>m, <1>p
  <2> QED  BY <1>1, <2>1
<1>3. ASSUME NEW n \in Poll, NEW d \in Databases, Launch(n, d)
      PROVE  Old' = Old
  <2>1. worker[n][d] = "none"
    BY <1>3 DEF Launch, IInv, TasksPlaced, TypeOK
  <2>2. worker' = [worker EXCEPT ![n][d] = "queued"]
    BY <1>3 DEF Launch
  <2> QED  BY <1>m, <1>p, <1>t, <2>1, <2>2
<1>4. ASSUME NEW n \in Poll, NEW d \in Databases, Check(n, d) \/ Send(n, d)
      PROVE  Old' = Old
  <2>1. /\ worker[n][d] \in {"checking", "checked"}
        /\ \E to \in {"checked", "sent"} : worker' = [worker EXCEPT ![n][d] = to]
    BY <1>4 DEF Check, Send, WorkerStep
  <2>2. PICK to \in {"checked", "sent"} : worker' = [worker EXCEPT ![n][d] = to]
    BY <2>1
  <2>3. \A k \in Poll, e \in Databases :
          worker'[k][e] = IF k = n /\ e = d THEN to ELSE worker[k][e]
    BY <2>2, <1>t
  <2>4. \A k \in Poll, e \in Databases :
          worker'[k][e] \in {"checking", "checked", "sent"}
            <=> worker[k][e] \in {"checking", "checked", "sent"}
    BY <2>1, <2>3
  <2>5. ASSUME NEW nd PROVE nd \in Old' <=> nd \in Old
    <3>1. CASE nd \in Poll \X Databases
      <4>1. nd[1] \in Poll /\ nd[2] \in Databases
        BY <3>1
      <4> QED  BY <1>m, <1>p, <2>4, <4>1
    <3>2. CASE nd \notin Poll \X Databases
      BY <1>m, <1>p, <3>2
    <3> QED  BY <3>1, <3>2
  <2> QED  BY <2>5
<1>5. ASSUME NEW n \in Poll, NEW d \in Databases, AcquireSlot(n, d)
      PROVE  IsFiniteSet(Old') /\ Cardinality(Old') <= Limit[dt]
  <2>1. worker[n][d] = "queued" /\ worker' = [worker EXCEPT ![n][d] = "checking"]
    BY <1>5 DEF AcquireSlot, WorkerStep
  <2>2. CASE n = m /\ TypeOf[d] = dt
    <3>a. \A k \in Poll, e \in Databases :
            worker'[k][e] = IF k = n /\ e = d THEN "checking" ELSE worker[k][e]
      BY <2>1, <1>t
    <3>b. <<n, d>> \notin Old
      BY <1>m, <2>1
    <3>c. ASSUME NEW nd PROVE nd \in Old' <=> nd \in Old \/ nd = <<n, d>>
      <4>1. CASE nd \in Poll \X Databases
        <5>1. /\ nd[1] \in Poll /\ nd[2] \in Databases
              /\ nd = <<n, d>> <=> nd[1] = n /\ nd[2] = d
          BY <4>1
        <5> QED  BY <1>m, <1>p, <2>2, <3>a, <4>1, <5>1
      <4>2. CASE nd \notin Poll \X Databases
        BY <1>m, <1>p, <4>2
      <4> QED  BY <4>1, <4>2
    <3>1. Old' = Old \cup {<<n, d>>} /\ <<n, d>> \notin Old
      BY <3>b, <3>c
    <3>2. Cardinality(Old) < Limit[dt]
      BY <1>5, <2>2 DEF AcquireSlot, SlotsTaken, Old, Slots
    <3>3. IsFiniteSet(Old \cup {<<n, d>>})
          /\ Cardinality(Old \cup {<<n, d>>}) = Cardinality(Old) + 1
      BY <1>o, <3>1, FS_AddElement
    <3> QED  BY <1>o, <3>1, <3>2, <3>3
  <2>3. CASE ~(n = m /\ TypeOf[d] = dt)
    <3>1. Old' = Old
      BY <1>m, <1>p, <1>t, <2>1, <2>3
    <3> QED  BY <1>o, <3>1
  <2> QED  BY <2>2, <2>3
<1>6. ASSUME NEW n \in Poll, NEW d \in Databases, ReleaseSlot(n, d)
      PROVE  IsFiniteSet(Old') /\ Cardinality(Old') <= Limit[dt]
  <2>1. worker' = [worker EXCEPT ![n][d] = "done"]
    BY <1>6 DEF ReleaseSlot, WorkerStep
  <2>2. Old' \subseteq Old
    BY <1>m, <1>p, <1>t, <2>1
  <2>3. IsFiniteSet(Old') /\ Cardinality(Old') <= Cardinality(Old)
    BY <1>o, <2>2, FS_Subset
  <2>4. Cardinality(Old') \in Nat
    BY <2>3, FS_CardinalityType
  <2> QED  BY <1>o, <2>3, <2>4
<1> QED
  BY <1>1, <1>2, <1>3, <1>4, <1>5, <1>6, WorkerSteps DEF Old

(* Nothing is in flight at first.                                          *)
LEMMA InitSInv == Init => SInv
<1> SUFFICES ASSUME Init PROVE SInv
  OBVIOUS
<1>1. PastPollsClosed /\ OneBusyPoll
  BY DEF Init, PastPollsClosed, OneBusyPoll, Busy
<1>2. ASSUME NEW n \in Poll, NEW dt \in Types PROVE Slots(n, dt) = {}
  BY DEF Init, Slots, InFlight
<1>3. SlotsBounded
  BY <1>2, FS_EmptySet DEF SlotsBounded
<1> QED
  BY <1>1, <1>3 DEF SInv

(* All workers in flight are of one poll, whose semaphore has the limit.   *)
LEMMA SlotsSuffice == IInv /\ SInv => WithinConcurrency
<1> SUFFICES ASSUME IInv, SInv, NEW dt \in Types
             PROVE  Cardinality(InFlight(dt)) <= Limit[dt]
  BY DEF WithinConcurrency
<1>1. CASE InFlight(dt) = {}
  BY <1>1, FS_EmptySet
<1>2. CASE InFlight(dt) # {}
  <2>1. PICK x \in InFlight(dt) : TRUE
    BY <1>2
  <2>2. x[1] \in Poll /\ x[2] \in Databases /\ worker[x[1]][x[2]] \in Busy
    BY <2>1 DEF InFlight, Busy
  <2>3. \A y \in InFlight(dt) : y[1] = x[1]
    BY <2>2 DEF SInv, OneBusyPoll, InFlight, Busy
  <2>4. InFlight(dt) = Slots(x[1], dt)
    BY <2>3 DEF Slots
  <2> QED  BY <2>2, <2>4 DEF SInv, SlotsBounded
<1> QED
  BY <1>1, <1>2

(* No more checks of a type are in flight than its limit allows, over all  *)
(* polls (database.go:397-440), for any number of databases and polls and  *)
(* any limits.                                                             *)
THEOREM ConcurrencyBounded == Spec => []WithinConcurrency
<1>1. IInv /\ SInv /\ [Next]_vars => SInv'
  BY NextPastPollsClosed, NextOneBusyPoll, NextSlotsBounded DEF SInv
<1> QED
  BY <1>1, InitSInv, Inductive, SlotsSuffice, PTL DEF Spec
-----------------------------------------------------------------------------
(* The process panics, when a worker sends on a closed channel, only after *)
(* the poll loop was cancelled: a dispatcher that nobody cancels waits for *)
(* all its workers.                                                        *)
PanicNeedsCancel == panicked => ctxDone

(* A dispatcher that waits has launched all its workers.                   *)
WaitersLaunchedAll ==
  \A n \in Poll, dt \in Types :
    dispatcher[n][dt] = "waiting" => InType(pending[n], dt) = {}

(* As long as a poll is under way some goroutine of its pipeline can go    *)
(* on, or it starves for a limit of 0.  These are the guards of Receive,   *)
(* Publish and CloseChan; of Launch, GiveUp and AllLaunched; of Waited; of *)
(* Check, Send and ReleaseSlot; and of AcquireSlot.                        *)
SomeoneGoesOn ==
  loop = "polling" /\ ~Starved =>
    \/ statusChan[poll] # {}
    \/ Drained
    \/ poll \notin closed /\ \A dt \in Types : dispatcher[poll][dt] \in {"none", "returned"}
    \/ \E dt \in Types : dispatcher[poll][dt] = "launching"
    \/ \E dt \in Types : /\ dispatcher[poll][dt] = "waiting"
                         /\ \A d \in InType(tasks[poll], dt) : worker[poll][d] = "done"
    \/ \E d \in Databases : worker[poll][d] \in {"checking", "checked", "sent"}
    \/ \E d \in Databases : /\ worker[poll][d] = "queued"
                            /\ SlotsTaken(poll, TypeOf[d]) < Limit[TypeOf[d]]

(* A worker that sends on a closed channel was left behind.                *)
LEMMA NextPanicNeedsCancel ==
  IInv /\ PanicNeedsCancel /\ [Next]_vars => PanicNeedsCancel'
<1> SUFFICES ASSUME IInv, PanicNeedsCancel, [Next]_vars, panicked' PROVE ctxDone'
  BY DEF PanicNeedsCancel
<1>1. CASE panicked
  <2>1. UNCHANGED vars
    BY <1>1 DEF Next
  <2> QED  BY <1>1, <2>1 DEF PanicNeedsCancel, vars
<1>2. CASE ~panicked
  <2>a. Cancel \/ PollLoop => UNCHANGED panicked
    BY DEF PollLoop, Cancel, CacheSynced, BeginPoll, Receive, Publish, EndLoop
  <2>b. \A n \in Poll : CloseChan(n) => UNCHANGED panicked
    BY DEF CloseChan
  <2>c. \A n \in Poll, dt \in Types : DispatcherNext(n, dt) => UNCHANGED panicked
    BY DEF DispatcherNext, GiveUp, AllLaunched, Waited, Dispatcher
  <2>d. \A n \in Poll, d \in Databases : Launch(n, d) => UNCHANGED panicked
    BY DEF Launch, Dispatcher
  <2>e. \A n \in Poll, d \in Databases :
          AcquireSlot(n, d) \/ Check(n, d) \/ ReleaseSlot(n, d) => UNCHANGED panicked
    BY DEF AcquireSlot, Check, ReleaseSlot
  <2>f. \A n \in Poll, d \in Databases : Send(n, d) => n \in closed \/ UNCHANGED panicked
    BY DEF Send
  <2>1. PICK n \in Poll, d \in Databases : Send(n, d) /\ n \in closed
    BY <1>2, <2>a, <2>b, <2>c, <2>d, <2>e, <2>f DEF Next, vars, WorkerNext
  <2>2. worker[n][d] = "checked" /\ ctxDone' = ctxDone
    BY <2>1 DEF Send, WorkerStep
  <2>3. d \in tasks[n] /\ n <= poll
    BY <2>2 DEF IInv, TypeOK, TasksPlaced, FuturePolls
  <2>4. dispatcher[n][TypeOf[d]] \in {"none", "returned"} /\ TypeOf[d] \in Types
    BY <2>1 DEF IInv, ClosedAfterDispatchers
  <2>5. ~ctxDone => worker[n][d] = "done" \/ d \notin tasks[n]
    BY <2>3, <2>4 DEF IInv, DispatchersDone
  <2> QED  BY <2>2, <2>3, <2>5 DEF IInv, TypeOK
<1> QED
  BY <1>1, <1>2

(* Only AllLaunched begins a wait, and nothing becomes pending during it.  *)
LEMMA NextWaitersLaunchedAll ==
  IInv /\ WaitersLaunchedAll /\ [Next]_vars => WaitersLaunchedAll'
<1> SUFFICES ASSUME IInv, WaitersLaunchedAll, [Next]_vars PROVE WaitersLaunchedAll'
  OBVIOUS
<1> USE DEF IInv, TypeOK, WaitersLaunchedAll
<1>1. CASE UNCHANGED <<pending, dispatcher>>
  BY <1>1
<1>2. ASSUME NEW ds \in SUBSET Databases, BeginPoll(ds) PROVE WaitersLaunchedAll'
  <2>1. poll + 1 \in Poll
    BY <1>2 DEF BeginPoll
  <2>2. ASSUME NEW n \in Poll, n # poll + 1
        PROVE  dispatcher'[n] = dispatcher[n] /\ pending'[n] = pending[n]
    BY <1>2, <2>2 DEF BeginPoll
  <2>3. dispatcher'[poll + 1] =
          [dt \in Types |-> IF InType(ds, dt) = {} THEN "none" ELSE "launching"]
    BY <1>2, <2>1 DEF BeginPoll
  <2>4. \A dt \in Types : dispatcher'[poll + 1][dt] # "waiting"
    BY <2>3
  <2>5. ASSUME NEW n \in Poll, NEW dt \in Types, dispatcher'[n][dt] = "waiting"
        PROVE  InType(pending'[n], dt) = {}
    <3>1. n # poll + 1
      BY <2>4, <2>5
    <3>2. dispatcher[n][dt] = "waiting" /\ pending'[n] = pending[n]
      BY <2>2, <2>5, <3>1
    <3> QED  BY <3>2
  <2> QED  BY <2>5
<1>3. ASSUME NEW n \in Poll, NEW dt \in Types, GiveUp(n, dt) \/ AllLaunched(n, dt) \/ Waited(n, dt)
      PROVE  WaitersLaunchedAll'
  <2>1. UNCHANGED pending
    BY <1>3 DEF GiveUp, AllLaunched, Waited
  <2>2. PICK to \in {"waiting", "returned"} :
          /\ dispatcher' = [dispatcher EXCEPT ![n][dt] = to]
          /\ to = "waiting" => InType(pending[n], dt) = {}
    BY <1>3 DEF GiveUp, AllLaunched, Waited, Dispatcher
  <2>3. \A m \in Poll, t \in Types :
          dispatcher'[m][t] = IF m = n /\ t = dt THEN to ELSE dispatcher[m][t]
    BY <2>2
  <2> QED  BY <2>1, <2>2, <2>3
<1>4. ASSUME NEW n \in Poll, NEW d \in Databases, Launch(n, d) PROVE WaitersLaunchedAll'
  <2>1. \A m \in Poll : pending'[m] \subseteq pending[m]
    BY <1>4 DEF Launch
  <2>2. \A m \in Poll, t \in Types : dispatcher'[m][t] = "waiting" => dispatcher[m][t] = "waiting"
    BY <1>4 DEF Launch, Dispatcher
  <2> QED  BY <2>1, <2>2
<1> QED
  BY <1>1, <1>2, <1>3, <1>4
     DEF Next, vars, pipeline, PollLoop, DispatcherNext, WorkerNext, Cancel, CacheSynced, Receive,
         Publish, EndLoop, CloseChan, AcquireSlot, Check, Send, ReleaseSlot, WorkerStep

(* Who waits, waits for one that goes on: a dispatcher for a worker, and   *)
(* a worker for a slot that another one has, of the same poll.             *)
LEMMA NobodyWaitsInVain == IInv /\ WaitersLaunchedAll => SomeoneGoesOn
<1> SUFFICES ASSUME IInv, WaitersLaunchedAll, loop = "polling", ~Starved, ~SomeoneGoesOn
             PROVE  FALSE
  BY DEF SomeoneGoesOn
<1>1. poll \in Poll
  BY DEF IInv, TypeOK, StatusesDelivered
<1>2. dispatcher[poll] \in [Types -> DispatcherState] /\ worker[poll] \in [Databases -> WorkerState]
  BY <1>1 DEF IInv, TypeOK
<1>3. poll \notin closed
  BY DEF SomeoneGoesOn, Drained
<1>4. PICK dt \in Types : dispatcher[poll][dt] \notin {"none", "returned"}
  BY <1>3 DEF SomeoneGoesOn
<1>5. dispatcher[poll][dt] # "launching"
  BY DEF SomeoneGoesOn
<1>6. dispatcher[poll][dt] = "waiting"
  BY <1>2, <1>4, <1>5 DEF DispatcherState
<1>7. PICK d \in InType(tasks[poll], dt) : worker[poll][d] # "done"
  BY <1>6 DEF SomeoneGoesOn
<1>8. d \in Databases /\ TypeOf[d] = dt /\ d \in tasks[poll] /\ d \notin pending[poll]
  BY <1>1, <1>6, <1>7 DEF IInv, TypeOK, InType, WaitersLaunchedAll
<1>9. \A e \in Databases : worker[poll][e] \notin {"checking", "checked", "sent"}
  BY DEF SomeoneGoesOn
<1>10. worker[poll][d] = "queued"
  BY <1>1, <1>2, <1>7, <1>8, <1>9 DEF IInv, TasksPlaced, WorkerState
<1>11. {nd \in InFlight(dt) : nd[1] = poll} = {}
  BY <1>9 DEF InFlight
<1>12. SlotsTaken(poll, dt) = 0
  BY <1>11, FS_EmptySet DEF SlotsTaken
<1>13. Limit[dt] \in Nat \ {0}
  BY <1>8, <1>10, LimitAssumption DEF Starved
<1>14. SlotsTaken(poll, TypeOf[d]) < Limit[TypeOf[d]]
  BY <1>8, <1>12, <1>13
<1> QED
  BY <1>8, <1>10, <1>14 DEF SomeoneGoesOn

(* With any databases and types, and whenever the loop is cancelled, the   *)
(* goroutines of a poll never all wait for each other: the dispatchers for *)
(* their workers, the workers for a slot, the closer for the dispatchers   *)
(* and the loop for the closer (database.go:369-440).  With limits of 0    *)
(* allowed, a poll in which nobody can go on has a worker of such a type.  *)
(* PollEnds adds that the poll ends, which needs fairness.                 *)
THEOREM PollsNeverStick == Spec => []SomeoneGoesOn
<1>1. Init => WaitersLaunchedAll
  BY DEF Init, WaitersLaunchedAll
<1> QED
  BY <1>1, NextWaitersLaunchedAll, Inductive, NobodyWaitsInVain, PTL DEF Spec

(* For any databases, types, limits and polls: no worker sends on a closed *)
(* channel before the collector is stopped or loses its leadership.        *)
(* After that one may, as the run database_poll_panic shows                *)
(* (database.go:369 and 406).                                              *)
THEOREM PanicsNeedCancel == Spec => []PanicNeedsCancel
<1>1. Init => PanicNeedsCancel
  BY DEF Init, PanicNeedsCancel
<1> QED
  BY <1>1, NextPanicNeedsCancel, Inductive, PTL DEF Spec
=============================================================================
