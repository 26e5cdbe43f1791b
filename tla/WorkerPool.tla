----------------------------- MODULE WorkerPool -----------------------------
(***************************************************************************)
(* The life of the OLTP worker threads: creation, the pre-run barrier on a *)
(* condition variable, the transaction loop, the post-run barrier and the  *)
(* snapshot worker 0 takes behind it, pausing, hot-plugging and shutdown.  *)
(*                                                                         *)
(* The application is one thread that creates the initial workers (init)   *)
(* and then makes the calls of one script; a script is the sequence of     *)
(* pool calls of a program under apps/.                                    *)
(***************************************************************************)
EXTENDS Integers, Sequences, FiniteSets

CONSTANTS N,         \* number of workers init creates; their ids are 0..N-1
          Hot,       \* number of workers add_worker may create
          NumIters,  \* transactions per worker, 0 for no limit
          Scripts    \* sequences of "start", "snapshot", "add", "remove", "shutdown"

\* The calls of ch-export-data: a snapshot, and the shutdown without a start.
Export == { <<"snapshot", "shutdown">> }

VARIABLES app,          \* where the application thread is
          script,       \* calls it still makes
          created,      \* threads started so far
          size,         \* workers.size(): threads already in the map
          started,      \* start_workers has released the barrier
          pre_barrier, post_barrier,
          pc, state,    \* of each worker: location, WORKER_STATE
          terminate, pause,
          iters,        \* of each worker: num_txns, up to NumIters
          visit,        \* of each snapshotting thread: next worker pause() looks at
          early         \* a worker passed the pre-run barrier before start_workers

barriers == <<pre_barrier, post_barrier>>
threads == <<pc, state, iters, early>>
pool == <<created, size, started>>
vars == <<app, script, created, size, started, pre_barrier, post_barrier, pc, state,
          terminate, pause, iters, visit, early>>

Workers == 0..N + Hot - 1
HotPlugged == N..N + Hot - 1

Goto(i, l) == pc' = [pc EXCEPT ![i] = l]

Become(i, s) == state' = [state EXCEPT ![i] = s]

Init ==
  /\ app = "create"
  /\ script \in Scripts
  /\ created = 0 /\ size = 0 /\ started = FALSE
  /\ pre_barrier = 0 /\ post_barrier = 0
  /\ pc = [i \in Workers |-> "none"]
  /\ state = [i \in Workers |-> "READY"]
  /\ terminate = [i \in Workers |-> FALSE]
  /\ pause = [i \in Workers |-> FALSE]
  /\ iters = [i \in Workers |-> 0]
  /\ visit = [a \in {"app", "worker0"} |-> 0]
  /\ early = FALSE

-----------------------------------------------------------------------------
(* WorkerPool, called by the application *)

\* create_worker and add_worker start the thread first ...
SpawnThread ==
  /\ app \in {"create", "add"}
  /\ Goto(created, "spawned")
  /\ created' = created + 1
  /\ app' = IF app = "create" THEN "emplace" ELSE "emplaceHot"
  /\ UNCHANGED <<script, size, started, barriers, state, terminate, pause, iters, visit, early>>

\* ... and put it into the map afterwards.
Emplace ==
  /\ app \in {"emplace", "emplaceHot"}
  /\ size' = size + 1
  /\ app' = IF app = "emplaceHot" THEN "call" ELSE IF size + 1 < N THEN "create" ELSE "init"
  /\ UNCHANGED <<script, created, started, barriers, threads, terminate, pause, visit>>

\* init returns when every worker has loaded its data.
InitDone ==
  /\ app = "init"
  /\ pre_barrier = size
  /\ app' = "call"
  /\ UNCHANGED <<script, pool, barriers, threads, terminate, pause, visit>>

Call(name, l) ==
  /\ app = "call"
  /\ script # <<>> /\ Head(script) = name
  /\ script' = Tail(script)
  /\ app' = l

\* start_workers: the increment under pre_m ...
start_workers ==
  /\ Call("start", "notify")
  /\ pre_barrier = size
  /\ pre_barrier' = pre_barrier + 1
  /\ started' = TRUE
  /\ UNCHANGED <<created, size, post_barrier, threads, terminate, pause, visit>>

\* ... then notify_all.
NotifyAll ==
  /\ app = "notify"
  /\ pc' = [i \in Workers |-> IF pc[i] = "sleep" THEN "check" ELSE pc[i]]
  /\ app' = "call"
  /\ UNCHANGED <<script, pool, barriers, state, iters, early, terminate, pause, visit>>

add_worker ==
  /\ Call("add", "add")
  /\ created < N + Hot
  /\ UNCHANGED <<pool, barriers, threads, terminate, pause, visit>>

remove_worker ==
  /\ Call("remove", "call")
  /\ terminate' = [terminate EXCEPT ![created - 1] = TRUE]
  /\ UNCHANGED <<pool, barriers, threads, pause, visit>>

shutdown ==
  /\ Call("shutdown", "join")
  /\ terminate' = [i \in Workers |-> terminate[i] \/ i < size]
  /\ UNCHANGED <<pool, barriers, threads, pause, visit>>

\* shutdown joins every thread of the map and then clears it.
Join ==
  /\ app = "join"
  /\ \A i \in 0..size - 1 : pc[i] = "done"
  /\ app' = "done"
  /\ size' = 0
  /\ UNCHANGED <<script, created, started, barriers, threads, terminate, pause, visit>>

-----------------------------------------------------------------------------
(* TransactionManager::snapshot between WorkerPool::pause and resume, run by
   the application or by worker 0 *)

Where(a) == IF a = "app" THEN app ELSE pc[0]

Move(a, l) ==
  IF a = "app" THEN app' = l /\ UNCHANGED pc ELSE Goto(0, l) /\ UNCHANGED app

PauseAll(a) ==
  /\ \/ a = "app" /\ Call("snapshot", "pausing") /\ UNCHANGED pc
     \/ a = "worker0" /\ pc[0] = "gather" /\ post_barrier = size
        /\ Goto(0, "pausing") /\ UNCHANGED <<app, script>>
  /\ pause' = [i \in Workers |-> pause[i] \/ i < size]
  /\ visit' = [visit EXCEPT ![a] = 0]
  /\ UNCHANGED <<pool, barriers, state, iters, early, terminate>>

\* Mutant: pause() waits only for loading workers.
PausableLoading(i) == state[i] = "PRE_RUN" /\ ~terminate[i]

Pausable(i) == state[i] \in {"RUNNING", "PRE_RUN"} /\ ~terminate[i]

PauseSkip(a) ==
  /\ Where(a) = "pausing"
  /\ visit[a] < size /\ ~Pausable(visit[a])
  /\ visit' = [visit EXCEPT ![a] = @ + 1]
  /\ UNCHANGED <<app, script, pool, barriers, threads, terminate, pause>>

\* pause() waits for the worker to be PAUSED, a state no worker enters.
PauseBlocked(a) ==
  /\ Where(a) = "pausing"
  /\ visit[a] < size /\ Pausable(visit[a])
  /\ Move(a, "blocked")
  /\ UNCHANGED <<script, pool, barriers, state, iters, early, terminate, pause, visit>>

TakeSnapshot(a) ==
  /\ Where(a) = "pausing"
  /\ visit[a] = size
  /\ Move(a, "snapshot")
  /\ UNCHANGED <<script, pool, barriers, state, iters, early, terminate, pause, visit>>

Resume(a) ==
  /\ Where(a) = "snapshot"
  /\ pause' = [i \in Workers |-> pause[i] /\ ~(i < size)]
  /\ Move(a, IF a = "app" THEN "call" ELSE "gathered")
  /\ UNCHANGED <<script, pool, barriers, state, iters, early, terminate, visit>>

-----------------------------------------------------------------------------
(* Worker::run *)

Begin(i) ==
  /\ pc[i] = "spawned"
  /\ IF i \in HotPlugged
     THEN Goto(i, "loop") /\ Become(i, "RUNNING")
     ELSE Goto(i, "prerun") /\ Become(i, "PRE_RUN")
  /\ UNCHANGED <<app, script, pool, barriers, iters, early, terminate, pause, visit>>

PreRunDone(i) ==
  /\ pc[i] = "prerun"
  /\ Goto(i, "ready") /\ Become(i, "READY")
  /\ UNCHANGED <<app, script, pool, barriers, iters, early, terminate, pause, visit>>

\* The worker arrives, and runs an empty transaction before it waits.
ArrivePre(i) ==
  /\ pc[i] = "ready"
  /\ pre_barrier' = pre_barrier + 1
  /\ Goto(i, "check")
  /\ UNCHANGED <<app, script, pool, post_barrier, state, iters, early, terminate, pause, visit>>

\* The predicate of pre_cv.wait, evaluated under pre_m.
MayRun(i) == pre_barrier = size + 1 \/ terminate[i]

PassPre(i) ==
  /\ pc[i] = "check"
  /\ MayRun(i)
  /\ Goto(i, "loop") /\ Become(i, "RUNNING")
  /\ early' = (early \/ ~(started \/ terminate[i]))
  /\ UNCHANGED <<app, script, pool, barriers, iters, terminate, pause, visit>>

Sleep(i) ==
  /\ pc[i] = "check"
  /\ ~MayRun(i)
  /\ Goto(i, "sleep")
  /\ UNCHANGED <<app, script, pool, barriers, state, iters, early, terminate, pause, visit>>

\* Condition variables may wake up for no reason.
SpuriousWakeup(i) ==
  /\ pc[i] = "sleep"
  /\ Goto(i, "check")
  /\ UNCHANGED <<app, script, pool, barriers, state, iters, early, terminate, pause, visit>>

\* A transaction, unless the worker is told to stop or, which it refuses, to pause.
BeginTxn(i) ==
  /\ pc[i] = "loop" /\ ~terminate[i] /\ ~pause[i]
  /\ Goto(i, "txn")
  /\ UNCHANGED <<app, script, pool, barriers, state, iters, early, terminate, pause, visit>>

EndTxn(i) ==
  /\ pc[i] = "txn"
  /\ iters' = [iters EXCEPT ![i] = IF NumIters = 0 THEN 0 ELSE @ + 1]
  /\ Goto(i, IF iters'[i] = NumIters /\ NumIters > 0 THEN "finish" ELSE "loop")
  /\ UNCHANGED <<app, script, pool, barriers, state, early, terminate, pause, visit>>

PauseAssertion(i) ==
  /\ pc[i] = "loop" /\ ~terminate[i] /\ pause[i]
  /\ Goto(i, "failed")
  /\ UNCHANGED <<app, script, pool, barriers, state, iters, early, terminate, pause, visit>>

Stop(i) ==
  /\ pc[i] = "loop" /\ terminate[i]
  /\ Goto(i, "finish")
  /\ UNCHANGED <<app, script, pool, barriers, state, iters, early, terminate, pause, visit>>

Finish(i) ==
  /\ pc[i] = "finish"
  /\ IF i \in HotPlugged
     THEN Goto(i, "done") /\ Become(i, "TERMINATED")
     ELSE Goto(i, "post") /\ Become(i, "POST_RUN")
  /\ UNCHANGED <<app, script, pool, barriers, iters, early, terminate, pause, visit>>

ArrivePost(i) ==
  /\ pc[i] = "post"
  /\ post_barrier' = post_barrier + 1
  /\ Goto(i, IF i = 0 THEN "gather" ELSE "leave")
  /\ UNCHANGED <<app, script, pool, pre_barrier, state, iters, early, terminate, pause, visit>>

\* Worker 0 lets the others go once its snapshot is taken and synchronised.
ReleasePost ==
  /\ pc[0] = "gathered"
  /\ post_barrier' = post_barrier + 1
  /\ Goto(0, "leave")
  /\ UNCHANGED <<app, script, pool, pre_barrier, state, iters, early, terminate, pause, visit>>

LeavePost(i) ==
  /\ pc[i] = "leave"
  /\ post_barrier = size + 1
  /\ Goto(i, "done") /\ Become(i, "TERMINATED")
  /\ UNCHANGED <<app, script, pool, barriers, iters, early, terminate, pause, visit>>

-----------------------------------------------------------------------------
AppStep ==
  \/ SpawnThread \/ Emplace \/ InitDone
  \/ start_workers \/ NotifyAll \/ add_worker \/ remove_worker \/ shutdown \/ Join

SnapshotStep(a) ==
  \/ PauseAll(a) \/ PauseSkip(a) \/ PauseBlocked(a) \/ TakeSnapshot(a) \/ Resume(a)

WorkerStep(i) ==
  \/ Begin(i) \/ PreRunDone(i) \/ ArrivePre(i) \/ PassPre(i) \/ Sleep(i)
  \/ BeginTxn(i) \/ EndTxn(i) \/ PauseAssertion(i) \/ Stop(i) \/ Finish(i)
  \/ ArrivePost(i) \/ LeavePost(i)
  \/ i = 0 /\ ReleasePost

\* A failed assertion ends the process.
Failed == \E i \in Workers : pc[i] = "failed"

Next ==
  /\ ~Failed
  /\ \/ AppStep
     \/ \E a \in {"app", "worker0"} : SnapshotStep(a)
     \/ \E i \in Workers : WorkerStep(i) \/ SpuriousWakeup(i)

Spec == Init /\ [][Next]_vars

\* The operating system keeps running every thread; it need not wake anybody
\* up without a notification.
FairSpec ==
  /\ Spec
  /\ WF_vars(~Failed /\ AppStep)
  /\ \A a \in {"app", "worker0"} : WF_vars(~Failed /\ SnapshotStep(a))
  /\ \A i \in Workers : WF_vars(~Failed /\ WorkerStep(i))

-----------------------------------------------------------------------------
\* The types of the pool's and the workers' state.
TypeOK ==
  /\ created \in 0..N + Hot /\ size \in 0..created
  /\ pre_barrier \in 0..N + 1 /\ post_barrier \in 0..N + 1
  /\ state \in [Workers -> {"READY", "RUNNING", "PRE_RUN", "POST_RUN", "TERMINATED"}]
  /\ terminate \in [Workers -> BOOLEAN] /\ pause \in [Workers -> BOOLEAN]
  /\ iters \in [Workers -> 0..NumIters]
  /\ visit \in [{"app", "worker0"} -> 0..N + Hot]

\* No worker runs transactions before every worker of init has loaded its part
\* of the data, unless one slipped through the barrier during creation.
LoadedBeforeRunning ==
  (~early /\ \E i \in Workers : pc[i] \in {"loop", "txn"}) =>
    \A j \in 0..N - 1 : pc[j] \notin {"none", "spawned", "prerun", "ready"}

\* Even then the workers load in turn: a worker runs transactions only after every
\* worker of init with a smaller number has loaded its part, whether the barrier
\* held it or it slipped through.
LoadedInTurn ==
  \A i \in Workers, j \in 0..N - 1 :
    (pc[i] \in {"loop", "txn"} /\ j <= i) =>
      pc[j] \notin {"none", "spawned", "prerun", "ready"}

\* While a snapshot is taken no worker of init is inside a transaction, although
\* pause() looks at the workers one after the other and skips those that are
\* not running yet. It says nothing of workers added meanwhile, which pause() does
\* not wait for and which do run, nor of a pool whose barrier let a worker through
\* before the pool was complete: pause() does not see the workers yet to be created.
SnapshotQuiesced ==
  (~early /\ "snapshot" \in {app, pc[0]}) => \A i \in 0..N - 1 : pc[i] # "txn"

\* Once the application calls shutdown, all workers pass both barriers, worker
\* 0 takes its snapshot and every thread is joined.
ShutdownCompletes == (app = "join") ~> (app = "done")
=============================================================================
