----------------------------- MODULE ThreadPool -----------------------------
(***************************************************************************)
(* The thread pool of the platform layer.  Its workers share a mutex, a    *)
(* condition variable and a queue of tasks; an elastic pool starts another *)
(* thread whenever it counts fewer idle workers than queued tasks.  Tasks  *)
(* of a query pipeline wait for one another, so a task that is never given *)
(* a thread would stop the query.                                          *)
(***************************************************************************)
EXTENDS Integers, Sequences, FiniteSets

CONSTANTS Threads,   \* the threads the operating system can give
          Initial,   \* those the constructor starts
          Tasks,     \* the tasks of the clients
          Needs,     \* the tasks each task waits for
          Elastic    \* grow when idle workers are short

ASSUME ThreadPoolAssumption ==
  /\ IsFiniteSet(Threads) /\ Initial \subseteq Threads
  /\ Needs \in [Tasks -> SUBSET Tasks]
  /\ Elastic \in BOOLEAN

\* Tasks that wait for nobody.
Independent == [x \in Tasks |-> {}]

VARIABLES pc,           \* where each thread is
          task,         \* the task each thread last took
          tasks,        \* the queue
          idleWorkers,  \* the atomic counter, changed under m
          m,            \* the holder of the mutex, {} or a singleton
          unnotified,   \* enqueues whose notify_all is still to come
          terminate,    \* the atomic flag of the destructor
          owner,        \* where the thread running the destructor is
          enqueued, done

vars == <<pc, task, tasks, idleWorkers, m, unnotified, terminate, owner, enqueued, done>>

Locations == {"none", "start", "check", "block", "asleep", "woken", "take", "run", "exit"}

\* Threads counted by idleWorkers.
Counted == {t \in Threads : pc[t] \in {"check", "block", "asleep", "woken", "take"}}

\* Threads that are not running a task: those counted, and those that will
\* count themselves before they look at the queue.
Free == {t \in Threads : pc[t] = "start"} \cup Counted

Goto(t, l) == pc' = [pc EXCEPT ![t] = l]

Init ==
  /\ pc = [t \in Threads |-> IF t \in Initial THEN "start" ELSE "none"]
  /\ task = [t \in Threads |-> {}]
  /\ tasks = <<>>
  /\ idleWorkers = 0
  /\ m = {}
  /\ unnotified = 0
  /\ terminate = FALSE
  /\ owner = "using"
  /\ enqueued = {}
  /\ done = {}

-----------------------------------------------------------------------------
(* The loop of a worker: cv.wait evaluates its predicate under the mutex,
   and gives the mutex up only when it blocks. *)

Lock(t) ==
  /\ pc[t] = "start"
  /\ m = {}
  /\ m' = {t}
  /\ idleWorkers' = idleWorkers + 1
  /\ Goto(t, "check")
  /\ UNCHANGED <<task, tasks, unnotified, terminate, owner, enqueued, done>>

\* As Check, with the mutex given up before the thread sleeps.
CheckUnlocked(t) ==
  /\ pc[t] = "check"
  /\ LET go == terminate \/ tasks # <<>> IN
     /\ Goto(t, IF go THEN "take" ELSE "block")
     /\ m' = IF go THEN m ELSE {}
  /\ UNCHANGED <<task, tasks, idleWorkers, unnotified, terminate, owner, enqueued, done>>

Check(t) ==
  /\ pc[t] = "check"
  /\ Goto(t, IF terminate \/ tasks # <<>> THEN "take" ELSE "block")
  /\ UNCHANGED <<task, tasks, idleWorkers, m, unnotified, terminate, owner, enqueued, done>>

Block(t) ==
  /\ pc[t] = "block"
  /\ m' = {}
  /\ Goto(t, "asleep")
  /\ UNCHANGED <<task, tasks, idleWorkers, unnotified, terminate, owner, enqueued, done>>

Relock(t) ==
  /\ pc[t] = "woken"
  /\ m = {}
  /\ m' = {t}
  /\ Goto(t, "check")
  /\ UNCHANGED <<task, tasks, idleWorkers, unnotified, terminate, owner, enqueued, done>>

\* As Take, but leaving as soon as the pool terminates.
TakeTerminated(t) ==
  /\ pc[t] = "take"
  /\ idleWorkers' = idleWorkers - 1
  /\ m' = {}
  /\ IF terminate \/ tasks = <<>>
     THEN Goto(t, "exit") /\ UNCHANGED <<task, tasks>>
     ELSE /\ task' = [task EXCEPT ![t] = {Head(tasks)}]
          /\ tasks' = Tail(tasks)
          /\ Goto(t, "run")
  /\ UNCHANGED <<unnotified, terminate, owner, enqueued, done>>

\* The thread leaves only when there is nothing left to do.
Take(t) ==
  /\ pc[t] = "take"
  /\ idleWorkers' = idleWorkers - 1
  /\ m' = {}
  /\ IF terminate /\ tasks = <<>>
     THEN Goto(t, "exit") /\ UNCHANGED <<task, tasks>>
     ELSE /\ task' = [task EXCEPT ![t] = {Head(tasks)}]
          /\ tasks' = Tail(tasks)
          /\ Goto(t, "run")
  /\ UNCHANGED <<unnotified, terminate, owner, enqueued, done>>

\* task() returns once the tasks it waits for are done.
Finish(t) ==
  /\ pc[t] = "run"
  /\ \A x \in task[t] : Needs[x] \subseteq done
  /\ done' = done \cup task[t]
  /\ Goto(t, "start")
  /\ UNCHANGED <<task, tasks, idleWorkers, m, unnotified, terminate, owner, enqueued>>

Wake == [t \in Threads |-> IF pc[t] = "asleep" THEN "woken" ELSE pc[t]]

\* Condition variables may wake up for no reason.
SpuriousWakeup(t) ==
  /\ pc[t] = "asleep"
  /\ Goto(t, "woken")
  /\ UNCHANGED <<task, tasks, idleWorkers, m, unnotified, terminate, owner, enqueued, done>>

-----------------------------------------------------------------------------
(* Clients, and the owner of the pool *)

\* As enqueue, growing only when no worker at all is idle.
enqueueNoneIdle(x) ==
  /\ owner = "using"
  /\ x \notin enqueued
  /\ m = {}
  /\ tasks' = Append(tasks, x)
  /\ enqueued' = enqueued \cup {x}
  /\ IF Elastic /\ idleWorkers = 0
     THEN \E t \in Threads : pc[t] = "none" /\ Goto(t, "start")
     ELSE UNCHANGED pc
  /\ unnotified' = unnotified + 1
  /\ UNCHANGED <<task, idleWorkers, m, terminate, owner, done>>

\* The part of enqueue under the mutex, addThread included.
enqueue(x) ==
  /\ owner = "using"
  /\ x \notin enqueued
  /\ m = {}
  /\ tasks' = Append(tasks, x)
  /\ enqueued' = enqueued \cup {x}
  /\ IF Elastic /\ idleWorkers < Len(tasks) + 1
     THEN \E t \in Threads : pc[t] = "none" /\ Goto(t, "start")
     ELSE UNCHANGED pc
  /\ unnotified' = unnotified + 1
  /\ UNCHANGED <<task, idleWorkers, m, terminate, owner, done>>

\* The notify_all that ends enqueue, without the mutex.
Notify ==
  /\ unnotified > 0
  /\ unnotified' = unnotified - 1
  /\ pc' = Wake
  /\ UNCHANGED <<task, tasks, idleWorkers, m, terminate, owner, enqueued, done>>

\* ~ThreadPool: terminate is set without the mutex ...
Destroy ==
  /\ owner = "using" /\ unnotified = 0
  /\ terminate' = TRUE
  /\ owner' = "notify"
  /\ UNCHANGED <<pc, task, tasks, idleWorkers, m, unnotified, enqueued, done>>

DestroyNotify ==
  /\ owner = "notify"
  /\ pc' = Wake
  /\ owner' = "join"
  /\ UNCHANGED <<task, tasks, idleWorkers, m, unnotified, terminate, enqueued, done>>

\* ... and every thread is joined.
Join ==
  /\ owner = "join"
  /\ \A t \in Threads : pc[t] \in {"none", "exit"}
  /\ owner' = "gone"
  /\ UNCHANGED <<pc, task, tasks, idleWorkers, m, unnotified, terminate, enqueued, done>>

-----------------------------------------------------------------------------
WorkerStep(t) == Lock(t) \/ Check(t) \/ Block(t) \/ Relock(t) \/ Take(t) \/ Finish(t)

OwnerStep == DestroyNotify \/ Join

Next ==
  \/ \E t \in Threads : WorkerStep(t) \/ SpuriousWakeup(t)
  \/ \E x \in Tasks : enqueue(x)
  \/ Notify \/ Destroy \/ OwnerStep

Spec == Init /\ [][Next]_vars

\* Threads keep running, and none of them is kept from the mutex for ever.
\* Nobody is obliged to enqueue or to destroy the pool.
FairSpec ==
  /\ Spec
  /\ \A t \in Threads : SF_vars(Lock(t)) /\ SF_vars(Relock(t))
  /\ \A t \in Threads : WF_vars(Check(t) \/ Block(t) \/ Take(t) \/ Finish(t))
  /\ WF_vars(Notify) /\ WF_vars(OwnerStep)

-----------------------------------------------------------------------------
(* Properties *)

\* Every thread is at a place of its loop, and at most one of them holds the
\* mutex, exactly while its code runs inside the scope of the lock.
TypeOK ==
  /\ pc \in [Threads -> Locations]
  /\ task \in [Threads -> SUBSET Tasks]
  /\ tasks \in Seq(Tasks)
  /\ idleWorkers \in Int
  /\ m = {t \in Threads : pc[t] \in {"check", "block", "take"}}
  /\ \A s, t \in m : s = t
  /\ unnotified \in Nat
  /\ owner \in {"using", "notify", "join", "gone"}
  /\ terminate \in BOOLEAN /\ (terminate <=> owner # "using")
  /\ done \subseteq Tasks /\ enqueued \subseteq Tasks

\* An elastic pool never has more queued tasks than threads that are free to
\* take them, although enqueue only compares idleWorkers with tasks.size():
\* idleWorkers still counts workers that were woken and have not taken their
\* task, and misses threads that are starting or returning from a task.
EnoughThreads ==
  Elastic => Len(tasks) <= Cardinality(Free)

\* Once the notify_all of every enqueue is out, no worker sleeps while a task
\* waits: a worker that found the queue empty keeps the mutex until it sleeps.
NoSleepOverTasks ==
  tasks # <<>> /\ unnotified = 0 => \A t \in Threads : pc[t] # "asleep"

\* The destructor joins the workers only after they emptied the queue: every
\* task accepted by enqueue has run when it returns.
NothingDropped ==
  owner = "gone" => tasks = <<>> /\ done = enqueued

\* Tasks of an elastic pool may wait for tasks enqueued after them: whatever
\* the order, once all are enqueued all of them run.
AllTasksRun == enqueued = Tasks ~> done = Tasks

\* "threadsafe initialization (and destruction)": the destructor returns.
DestructorReturns == terminate ~> owner = "gone"
=============================================================================
