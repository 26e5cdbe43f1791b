-------------------------- MODULE WorkerPoolProofs --------------------------
(***************************************************************************)
(* Proofs about WorkerPool for any number of workers and any sequence of   *)
(* calls an application may make: the data is loaded before anybody runs   *)
(* transactions on it, and a snapshot is taken of a quiet database.        *)
(***************************************************************************)
EXTENDS WorkerPool, FiniteSetTheorems, TLAPS

\* The time each prover has for a leaf.
USE SMTT(30), ZenonT(60)

Calls == {"start", "snapshot", "add", "remove", "shutdown"}

\* There is a worker, and the application makes calls of the pool.
ConstantsOK ==
  N \in Nat \ {0} /\ Hot \in Nat /\ NumIters \in Nat /\ Scripts \subseteq Seq(Calls)

\* bench-runner, the only application that removes workers, removes those it
\* has added.
RemovesAdded ==
  \A s \in Scripts : \A i \in 1..Len(s) :
    s[i] = "remove" => \E j \in 1..i - 1 : s[j] = "add"

\* The workers that init creates, and that init has not returned yet.
InitWorkers == 0..N - 1
Creating == app \in {"create", "emplace", "init"}

\* The locations of a worker before the pre-run barrier, at it, and behind the
\* count of the post-run barrier.
Loading == {"none", "spawned", "prerun", "ready"}
Waiting == {"check", "sleep"}
Past == {"gather", "pausing", "blocked", "snapshot", "gathered", "leave", "done"}
Locations ==
  Loading \cup Waiting \cup Past \cup {"loop", "txn", "failed", "finish", "post"}

Arrived == {i \in InitWorkers : pc[i] \notin Loading}
Posted == {i \in InitWorkers : pc[i] \in Past}

Types ==
  /\ app \in {"create", "emplace", "init", "call", "notify", "add", "emplaceHot",
              "join", "done", "pausing", "blocked", "snapshot"}
  /\ script \in Seq(Calls)
  /\ created \in Nat /\ size \in Nat
  /\ pre_barrier \in Nat /\ post_barrier \in Nat
  /\ pc \in [Workers -> Locations]
  /\ state \in [Workers -> {"READY", "RUNNING", "PRE_RUN", "POST_RUN", "TERMINATED"}]
  /\ terminate \in [Workers -> BOOLEAN] /\ pause \in [Workers -> BOOLEAN]
  /\ visit \in [{"app", "worker0"} -> Nat]
  /\ started \in BOOLEAN /\ early \in BOOLEAN

\* Threads are created in the order of their ids, and the map has them all but
\* for one that was just started; the map is cleared at the end.
Counted ==
  /\ created <= N + Hot
  /\ app \in {"emplace", "emplaceHot"} => created = size + 1
  /\ app \notin {"emplace", "emplaceHot", "done"} => created = size
  /\ Creating => created <= N
  /\ app = "create" => created < N
  /\ app = "init" => created = N
  /\ ~Creating => N <= created
  /\ app = "add" => created < N + Hot
  /\ app = "emplaceHot" => N < created
  /\ \A i \in Workers : pc[i] = "none" <=> created <= i

\* The pre-run barrier counts the workers that have loaded their data, until
\* start_workers adds one: init returns when all of them have.  Before that
\* nobody is told to stop, and nobody passes the barrier unless early.
Loaded ==
  /\ Creating => ~started /\ pre_barrier = Cardinality(Arrived)
  /\ Creating => \A i \in Workers : ~terminate[i]
  /\ Creating /\ ~early => \A i \in Workers : pc[i] \in Loading \cup Waiting
  /\ ~Creating => Arrived = InitWorkers

\* Before the application shuts the pool down, it stops added workers only.
Stopping ==
  /\ \A i \in 1..Len(script) : script[i] = "remove" =>
       N < created \/ app = "add" \/ \E j \in 1..i - 1 : script[j] = "add"
  /\ app \notin {"join", "done"} => \A i \in InitWorkers : ~terminate[i]

\* The post-run barrier counts the workers that are through with their
\* transactions, until worker 0 adds one: its snapshot waits for all of them.
Through ==
  /\ \A i \in Workers : pc[i] = "post" => i \in InitWorkers
  /\ post_barrier = Cardinality(Posted) + IF pc[0] \in {"leave", "done"} THEN 1 ELSE 0
  /\ ~early /\ pc[0] \in Past \ {"gather"} => Posted = InitWorkers
  /\ app = "done" => pc[0] = "done"

\* While the application takes a snapshot, the workers pause() went past stay
\* out of transactions: they are told to pause, or all are through.
Paused ==
  /\ \A i \in Workers : pc[i] \in {"loop", "txn"} => state[i] = "RUNNING"
  /\ ~early /\ app \in {"pausing", "snapshot"} =>
       \/ Posted = InitWorkers
       \/ \A i \in InitWorkers : /\ pause[i]
                                 /\ app = "snapshot" \/ i < visit["app"] => pc[i] # "txn"

\* What holds whatever the calls, and what holds if they remove added workers.
LoadInv == Types /\ Counted /\ Loaded
IInv == LoadInv /\ Stopping /\ Through /\ Paused

-----------------------------------------------------------------------------
\* The steps, one by one.
LEMMA Steps ==
  ASSUME Next
  PROVE  \/ SpawnThread \/ Emplace \/ InitDone \/ start_workers \/ NotifyAll
         \/ add_worker \/ remove_worker \/ shutdown \/ Join \/ ReleasePost
         \/ \E a \in {"app", "worker0"} :
              PauseAll(a) \/ PauseSkip(a) \/ PauseBlocked(a) \/ TakeSnapshot(a) \/ Resume(a)
         \/ \E i \in Workers :
              \/ Begin(i) \/ PreRunDone(i) \/ ArrivePre(i) \/ PassPre(i) \/ Sleep(i)
              \/ SpuriousWakeup(i) \/ BeginTxn(i) \/ EndTxn(i) \/ PauseAssertion(i)
              \/ Stop(i) \/ Finish(i) \/ ArrivePost(i) \/ LeavePost(i)
  BY DEF Next, AppStep, SnapshotStep, WorkerStep

\* Every field keeps its type.
LEMMA TypesStep ==
  ASSUME ConstantsOK, Types, Counted, Next
  PROVE  Types'
  <1> USE DEF Types, Calls, Locations, Loading, Waiting, Past, pool, barriers, threads, Goto, Become
  <1>0. 0 \in Workers
    BY DEF ConstantsOK, Workers
  <1>1. CASE SpawnThread
    <2>1. created \in Workers
      BY <1>1 DEF SpawnThread, Counted, Creating, ConstantsOK, Workers
    <2> QED BY <1>1, <2>1 DEF SpawnThread
  <1>2. CASE Emplace
    BY <1>2 DEF Emplace
  <1>3. CASE InitDone
    BY <1>3 DEF InitDone
  <1>4. CASE start_workers
    BY <1>4 DEF start_workers, Call
  <1>5. CASE NotifyAll
    BY <1>5 DEF NotifyAll
  <1>6. CASE add_worker
    BY <1>6 DEF add_worker, Call
  <1>7. CASE remove_worker
    <2>1. created - 1 \in Workers
      BY <1>7 DEF remove_worker, Call, Counted, Creating, ConstantsOK, Workers
    <2> QED BY <1>7, <2>1 DEF remove_worker, Call
  <1>8. CASE shutdown
    BY <1>8 DEF shutdown, Call
  <1>9. CASE Join
    BY <1>9 DEF Join
  <1>10. CASE ReleasePost
    BY <1>0, <1>10 DEF ReleasePost
  <1>11. ASSUME NEW a \in {"app", "worker0"}, PauseAll(a) PROVE Types'
    <2>1. script' \in Seq(Calls) /\ (app' = app \/ app' = "pausing")
      <3>1. \/ app' = "pausing" /\ script # <<>> /\ script' = Tail(script)
            \/ app' = app /\ script' = script
        BY <1>11 DEF PauseAll, Call
      <3>2. script # <<>> => Tail(script) \in Seq(Calls)
        OBVIOUS
      <3> QED BY <3>1, <3>2, Zenon
    <2>2. pc' \in [Workers -> Locations]
      BY <1>0, <1>11 DEF PauseAll, Call
    <2>3. pause' \in [Workers -> BOOLEAN] /\ visit' \in [{"app", "worker0"} -> Nat]
      BY <1>11 DEF PauseAll
    <2> QED BY <1>11, <2>1, <2>2, <2>3 DEF PauseAll
  <1>12. ASSUME NEW a \in {"app", "worker0"}, PauseSkip(a) PROVE Types'
    BY <1>0, <1>12 DEF PauseSkip, Where, Move
  <1>13. ASSUME NEW a \in {"app", "worker0"}, PauseBlocked(a) PROVE Types'
    BY <1>0, <1>13 DEF PauseBlocked, Where, Move
  <1>14. ASSUME NEW a \in {"app", "worker0"}, TakeSnapshot(a) PROVE Types'
    BY <1>0, <1>14 DEF TakeSnapshot, Where, Move
  <1>15. ASSUME NEW a \in {"app", "worker0"}, Resume(a) PROVE Types'
    BY <1>0, <1>15 DEF Resume, Where, Move
  <1>16. ASSUME NEW i \in Workers, Begin(i) PROVE Types'
    BY <1>16 DEF Begin
  <1>17. ASSUME NEW i \in Workers, PreRunDone(i) PROVE Types'
    BY <1>17 DEF PreRunDone
  <1>18. ASSUME NEW i \in Workers, ArrivePre(i) PROVE Types'
    BY <1>18 DEF ArrivePre
  <1>19. ASSUME NEW i \in Workers, PassPre(i) PROVE Types'
    BY <1>19 DEF PassPre
  <1>20. ASSUME NEW i \in Workers, Sleep(i) PROVE Types'
    BY <1>20 DEF Sleep
  <1>21. ASSUME NEW i \in Workers, SpuriousWakeup(i) PROVE Types'
    BY <1>21 DEF SpuriousWakeup
  <1>22. ASSUME NEW i \in Workers, BeginTxn(i) PROVE Types'
    BY <1>22 DEF BeginTxn
  <1>23. ASSUME NEW i \in Workers, EndTxn(i) PROVE Types'
    BY <1>23 DEF EndTxn
  <1>24. ASSUME NEW i \in Workers, PauseAssertion(i) PROVE Types'
    BY <1>24 DEF PauseAssertion
  <1>25. ASSUME NEW i \in Workers, Stop(i) PROVE Types'
    BY <1>25 DEF Stop
  <1>26. ASSUME NEW i \in Workers, Finish(i) PROVE Types'
    BY <1>26 DEF Finish
  <1>27. ASSUME NEW i \in Workers, ArrivePost(i) PROVE Types'
    BY <1>27 DEF ArrivePost
  <1>28. ASSUME NEW i \in Workers, LeavePost(i) PROVE Types'
    BY <1>28 DEF LeavePost
  <1> QED BY <1>1, <1>2, <1>3, <1>4, <1>5, <1>6, <1>7, <1>8, <1>9, <1>10, <1>11, <1>12, <1>13,
             <1>14, <1>15, <1>16, <1>17, <1>18, <1>19, <1>20, <1>21, <1>22, <1>23, <1>24, <1>25,
             <1>26, <1>27, <1>28, Steps, ZenonT(60)

\* The life of a worker thread, in one step: it is never unborn or loading again,
\* it leaves loading through the pre-run barrier only and, if init made it, comes
\* past the post-run barrier through its count only.
Lived(j) ==
  /\ pc'[j] = "none" => pc[j] = "none"
  /\ pc[j] = "none" /\ pc'[j] # "none" => j = created /\ app \in {"create", "add"}
  /\ pc[j] \notin Loading => pc'[j] \notin Loading
  /\ pc[j] \in Loading \ {"ready"} /\ j \in InitWorkers => pc'[j] \in Loading
  /\ pc[j] \in Past => pc'[j] \in Past
  /\ pc'[j] \in Past /\ j \in InitWorkers => pc[j] \in Past \cup {"post"}
  /\ pc'[j] = "txn" => pc[j] = "txn" \/ (pc[j] = "loop" /\ ~pause[j])
  /\ pc'[j] = "post" => pc[j] = "post" \/ j \in InitWorkers

LEMMA Lives ==
  ASSUME ConstantsOK, Types, Counted, Next
  PROVE  \A j \in Workers : Lived(j)
  <1> SUFFICES ASSUME NEW j \in Workers PROVE Lived(j)
    OBVIOUS
  <1> USE DEF Lived, Loading, Past, pool, barriers, threads, Goto
  <1>0. 0 \in Workers /\ pc \in [Workers -> Locations]
    BY DEF ConstantsOK, Workers, Types
  <1>1. CASE SpawnThread
    BY <1>0, <1>1 DEF SpawnThread, Counted, Creating, ConstantsOK, Workers, Types
  <1>2. CASE Emplace
    BY <1>0, <1>2 DEF Emplace
  <1>3. CASE InitDone
    BY <1>0, <1>3 DEF InitDone
  <1>4. CASE start_workers
    BY <1>0, <1>4 DEF start_workers, Call
  <1>5. CASE NotifyAll
    BY <1>0, <1>5 DEF NotifyAll
  <1>6. CASE add_worker
    BY <1>0, <1>6 DEF add_worker, Call
  <1>7. CASE remove_worker
    BY <1>0, <1>7 DEF remove_worker, Call
  <1>8. CASE shutdown
    BY <1>0, <1>8 DEF shutdown, Call
  <1>9. CASE Join
    BY <1>0, <1>9 DEF Join
  <1>10. CASE ReleasePost
    BY <1>0, <1>10 DEF ReleasePost
  <1>11. ASSUME NEW a \in {"app", "worker0"}, PauseAll(a) PROVE Lived(j)
    BY <1>0, <1>11 DEF PauseAll, Call
  <1>12. ASSUME NEW a \in {"app", "worker0"}, PauseSkip(a) PROVE Lived(j)
    BY <1>0, <1>12 DEF PauseSkip, Where, Move
  <1>13. ASSUME NEW a \in {"app", "worker0"}, PauseBlocked(a) PROVE Lived(j)
    BY <1>0, <1>13 DEF PauseBlocked, Where, Move
  <1>14. ASSUME NEW a \in {"app", "worker0"}, TakeSnapshot(a) PROVE Lived(j)
    BY <1>0, <1>14 DEF TakeSnapshot, Where, Move
  <1>15. ASSUME NEW a \in {"app", "worker0"}, Resume(a) PROVE Lived(j)
    BY <1>0, <1>15 DEF Resume, Where, Move
  <1>16. ASSUME NEW i \in Workers, Begin(i) PROVE Lived(j)
    BY <1>0, <1>16 DEF Begin, InitWorkers, HotPlugged, Workers, ConstantsOK
  <1>17. ASSUME NEW i \in Workers, PreRunDone(i) PROVE Lived(j)
    BY <1>0, <1>17 DEF PreRunDone
  <1>18. ASSUME NEW i \in Workers, ArrivePre(i) PROVE Lived(j)
    BY <1>0, <1>18 DEF ArrivePre
  <1>19. ASSUME NEW i \in Workers, PassPre(i) PROVE Lived(j)
    BY <1>0, <1>19 DEF PassPre
  <1>20. ASSUME NEW i \in Workers, Sleep(i) PROVE Lived(j)
    BY <1>0, <1>20 DEF Sleep
  <1>21. ASSUME NEW i \in Workers, SpuriousWakeup(i) PROVE Lived(j)
    BY <1>0, <1>21 DEF SpuriousWakeup
  <1>22. ASSUME NEW i \in Workers, BeginTxn(i) PROVE Lived(j)
    BY <1>0, <1>22 DEF BeginTxn
  <1>23. ASSUME NEW i \in Workers, EndTxn(i) PROVE Lived(j)
    BY <1>0, <1>23 DEF EndTxn
  <1>24. ASSUME NEW i \in Workers, PauseAssertion(i) PROVE Lived(j)
    BY <1>0, <1>24 DEF PauseAssertion
  <1>25. ASSUME NEW i \in Workers, Stop(i) PROVE Lived(j)
    BY <1>0, <1>25 DEF Stop
  <1>26. ASSUME NEW i \in Workers, Finish(i) PROVE Lived(j)
    BY <1>0, <1>26 DEF Finish, InitWorkers, HotPlugged, Workers, ConstantsOK
  <1>27. ASSUME NEW i \in Workers, ArrivePost(i) PROVE Lived(j)
    BY <1>0, <1>27 DEF ArrivePost
  <1>28. ASSUME NEW i \in Workers, LeavePost(i) PROVE Lived(j)
    BY <1>0, <1>28 DEF LeavePost
  <1> QED BY <1>1, <1>2, <1>3, <1>4, <1>5, <1>6, <1>7, <1>8, <1>9, <1>10, <1>11, <1>12, <1>13,
             <1>14, <1>15, <1>16, <1>17, <1>18, <1>19, <1>20, <1>21, <1>22, <1>23, <1>24, <1>25,
             <1>26, <1>27, <1>28, Steps, ZenonT(60)

\* Threads stay counted: create_worker, add_worker and the clearing of the map are
\* the only steps that count them.
LEMMA CountedStep ==
  ASSUME ConstantsOK, Types, Counted, Next
  PROVE  Counted'
  <1> USE DEF Counted, Creating, pool, barriers, threads, Goto
  <1>0. /\ 0 \in Workers /\ pc \in [Workers -> Locations]
        /\ created \in Nat /\ size \in Nat /\ N \in Nat \ {0} /\ Hot \in Nat
    BY DEF ConstantsOK, Workers, Types
  <1>1. CASE SpawnThread
    BY <1>0, <1>1 DEF SpawnThread, Workers
  <1>2. CASE Emplace
    BY <1>0, <1>2 DEF Emplace
  <1>3. CASE InitDone
    BY <1>0, <1>3 DEF InitDone
  <1>4. CASE start_workers
    BY <1>0, <1>4 DEF start_workers, Call
  <1>5. CASE NotifyAll
    BY <1>0, <1>5 DEF NotifyAll
  <1>6. CASE add_worker
    BY <1>0, <1>6 DEF add_worker, Call
  <1>7. CASE remove_worker
    BY <1>0, <1>7 DEF remove_worker, Call
  <1>8. CASE shutdown
    BY <1>0, <1>8 DEF shutdown, Call
  <1>9. CASE Join
    BY <1>0, <1>9 DEF Join
  <1>10. CASE ReleasePost
    BY <1>0, <1>10 DEF ReleasePost
  <1>11. ASSUME NEW a \in {"app", "worker0"}, PauseAll(a) PROVE Counted'
    BY <1>0, <1>11 DEF PauseAll, Call
  <1>12. ASSUME NEW a \in {"app", "worker0"}, PauseSkip(a) PROVE Counted'
    BY <1>0, <1>12 DEF PauseSkip, Where, Move
  <1>13. ASSUME NEW a \in {"app", "worker0"}, PauseBlocked(a) PROVE Counted'
    BY <1>0, <1>13 DEF PauseBlocked, Where, Move
  <1>14. ASSUME NEW a \in {"app", "worker0"}, TakeSnapshot(a) PROVE Counted'
    BY <1>0, <1>14 DEF TakeSnapshot, Where, Move
  <1>15. ASSUME NEW a \in {"app", "worker0"}, Resume(a) PROVE Counted'
    BY <1>0, <1>15 DEF Resume, Where, Move
  <1>16. ASSUME NEW i \in Workers, Begin(i) PROVE Counted'
    BY <1>0, <1>16 DEF Begin
  <1>17. ASSUME NEW i \in Workers, PreRunDone(i) PROVE Counted'
    BY <1>0, <1>17 DEF PreRunDone
  <1>18. ASSUME NEW i \in Workers, ArrivePre(i) PROVE Counted'
    BY <1>0, <1>18 DEF ArrivePre
  <1>19. ASSUME NEW i \in Workers, PassPre(i) PROVE Counted'
    BY <1>0, <1>19 DEF PassPre
  <1>20. ASSUME NEW i \in Workers, Sleep(i) PROVE Counted'
    BY <1>0, <1>20 DEF Sleep
  <1>21. ASSUME NEW i \in Workers, SpuriousWakeup(i) PROVE Counted'
    BY <1>0, <1>21 DEF SpuriousWakeup
  <1>22. ASSUME NEW i \in Workers, BeginTxn(i) PROVE Counted'
    BY <1>0, <1>22 DEF BeginTxn
  <1>23. ASSUME NEW i \in Workers, EndTxn(i) PROVE Counted'
    BY <1>0, <1>23 DEF EndTxn
  <1>24. ASSUME NEW i \in Workers, PauseAssertion(i) PROVE Counted'
    BY <1>0, <1>24 DEF PauseAssertion
  <1>25. ASSUME NEW i \in Workers, Stop(i) PROVE Counted'
    BY <1>0, <1>25 DEF Stop
  <1>26. ASSUME NEW i \in Workers, Finish(i) PROVE Counted'
    BY <1>0, <1>26 DEF Finish
  <1>27. ASSUME NEW i \in Workers, ArrivePost(i) PROVE Counted'
    BY <1>0, <1>27 DEF ArrivePost
  <1>28. ASSUME NEW i \in Workers, LeavePost(i) PROVE Counted'
    BY <1>0, <1>28 DEF LeavePost
  <1> QED BY <1>1, <1>2, <1>3, <1>4, <1>5, <1>6, <1>7, <1>8, <1>9, <1>10, <1>11, <1>12, <1>13,
             <1>14, <1>15, <1>16, <1>17, <1>18, <1>19, <1>20, <1>21, <1>22, <1>23, <1>24, <1>25,
             <1>26, <1>27, <1>28, Steps, ZenonT(60)

\* The steps that count at a barrier: a worker at a barrier stays there until it
\* is counted.
Counts ==
  /\ \A j \in Workers : pc[j] = "ready" /\ pc'[j] # pc[j] => ArrivePre(j)
  /\ \A j \in Workers : pc[j] = "post" /\ pc'[j] # pc[j] => ArrivePost(j)
  /\ pre_barrier' # pre_barrier => start_workers \/ \E j \in Workers : ArrivePre(j)
  /\ post_barrier' # post_barrier => ReleasePost \/ \E j \in Workers : ArrivePost(j)

LEMMA Barriers ==
  ASSUME ConstantsOK, Types, Counted, Next
  PROVE  Counts
  <1> USE DEF Counts, pool, barriers, threads, Goto
  <1>0. 0 \in Workers /\ pc \in [Workers -> Locations]
    BY DEF ConstantsOK, Workers, Types
  <1>1. CASE SpawnThread
    <2>1. created \in Workers /\ pc[created] = "none"
      BY <1>1 DEF SpawnThread, Counted, Creating, ConstantsOK, Workers, Types
    <2> QED BY <1>0, <1>1, <2>1 DEF SpawnThread
  <1>2. CASE Emplace
    BY <1>0, <1>2 DEF Emplace
  <1>3. CASE InitDone
    BY <1>0, <1>3 DEF InitDone
  <1>4. CASE start_workers
    <2>1. pc' = pc /\ post_barrier' = post_barrier
      BY <1>4 DEF start_workers
    <2> QED BY <1>4, <2>1
  <1>5. CASE NotifyAll
    BY <1>0, <1>5 DEF NotifyAll
  <1>6. CASE add_worker
    BY <1>0, <1>6 DEF add_worker, Call
  <1>7. CASE remove_worker
    BY <1>0, <1>7 DEF remove_worker, Call
  <1>8. CASE shutdown
    BY <1>0, <1>8 DEF shutdown, Call
  <1>9. CASE Join
    BY <1>0, <1>9 DEF Join
  <1>10. CASE ReleasePost
    <2>1. pc[0] = "gathered" /\ pc' = [pc EXCEPT ![0] = "leave"] /\ pre_barrier' = pre_barrier
      BY <1>10 DEF ReleasePost
    <2> QED BY <1>0, <1>10, <2>1
  <1>11. ASSUME NEW a \in {"app", "worker0"}, PauseAll(a) PROVE Counts
    BY <1>0, <1>11 DEF PauseAll, Call
  <1>12. ASSUME NEW a \in {"app", "worker0"}, PauseSkip(a) PROVE Counts
    BY <1>0, <1>12 DEF PauseSkip, Where, Move
  <1>13. ASSUME NEW a \in {"app", "worker0"}, PauseBlocked(a) PROVE Counts
    BY <1>0, <1>13 DEF PauseBlocked, Where, Move
  <1>14. ASSUME NEW a \in {"app", "worker0"}, TakeSnapshot(a) PROVE Counts
    BY <1>0, <1>14 DEF TakeSnapshot, Where, Move
  <1>15. ASSUME NEW a \in {"app", "worker0"}, Resume(a) PROVE Counts
    BY <1>0, <1>15 DEF Resume, Where, Move
  <1>16. ASSUME NEW i \in Workers, Begin(i) PROVE Counts
    BY <1>0, <1>16 DEF Begin
  <1>17. ASSUME NEW i \in Workers, PreRunDone(i) PROVE Counts
    BY <1>0, <1>17 DEF PreRunDone
  <1>18. ASSUME NEW i \in Workers, ArrivePre(i) PROVE Counts
    <2>1. pc[i] = "ready" /\ pc' = [pc EXCEPT ![i] = "check"] /\ post_barrier' = post_barrier
      BY <1>18 DEF ArrivePre
    <2>2. ASSUME NEW j \in Workers, j # i PROVE pc'[j] = pc[j]
      BY <1>0, <2>1, <2>2
    <2>3. pc[i] # "post"
      BY <2>1
    <2> QED BY <1>18, <2>1, <2>2, <2>3, Zenon
  <1>19. ASSUME NEW i \in Workers, PassPre(i) PROVE Counts
    BY <1>0, <1>19 DEF PassPre
  <1>20. ASSUME NEW i \in Workers, Sleep(i) PROVE Counts
    BY <1>0, <1>20 DEF Sleep
  <1>21. ASSUME NEW i \in Workers, SpuriousWakeup(i) PROVE Counts
    BY <1>0, <1>21 DEF SpuriousWakeup
  <1>22. ASSUME NEW i \in Workers, BeginTxn(i) PROVE Counts
    BY <1>0, <1>22 DEF BeginTxn
  <1>23. ASSUME NEW i \in Workers, EndTxn(i) PROVE Counts
    BY <1>0, <1>23 DEF EndTxn
  <1>24. ASSUME NEW i \in Workers, PauseAssertion(i) PROVE Counts
    BY <1>0, <1>24 DEF PauseAssertion
  <1>25. ASSUME NEW i \in Workers, Stop(i) PROVE Counts
    BY <1>0, <1>25 DEF Stop
  <1>26. ASSUME NEW i \in Workers, Finish(i) PROVE Counts
    BY <1>0, <1>26 DEF Finish
  <1>27. ASSUME NEW i \in Workers, ArrivePost(i) PROVE Counts
    <2>1. /\ pc[i] = "post" /\ pc' = [pc EXCEPT ![i] = IF i = 0 THEN "gather" ELSE "leave"]
          /\ pre_barrier' = pre_barrier
      BY <1>27 DEF ArrivePost
    <2>2. ASSUME NEW j \in Workers, j # i PROVE pc'[j] = pc[j]
      BY <1>0, <2>1, <2>2
    <2>3. pc[i] # "ready"
      BY <2>1
    <2> QED BY <1>27, <2>1, <2>2, <2>3, Zenon
  <1>28. ASSUME NEW i \in Workers, LeavePost(i) PROVE Counts
    BY <1>0, <1>28 DEF LeavePost
  <1> QED BY <1>1, <1>2, <1>3, <1>4, <1>5, <1>6, <1>7, <1>8, <1>9, <1>10, <1>11, <1>12, <1>13,
             <1>14, <1>15, <1>16, <1>17, <1>18, <1>19, <1>20, <1>21, <1>22, <1>23, <1>24, <1>25,
             <1>26, <1>27, <1>28, Steps, ZenonT(60)

\* The workers of init are finitely many; if as many of them are in a set of
\* them as there are, all are.
LEMMA AllWorkers ==
  ASSUME ConstantsOK
  PROVE  /\ IsFiniteSet(InitWorkers) /\ 0 \in InitWorkers /\ InitWorkers \subseteq Workers
         /\ \A S \in SUBSET InitWorkers :
              /\ IsFiniteSet(S) /\ Cardinality(S) \in Nat
              /\ N <= Cardinality(S) => S = InitWorkers
              /\ \A i \in InitWorkers \ S : Cardinality(S \cup {i}) = Cardinality(S) + 1
  <1>0. N \in Nat \ {0} /\ Hot \in Nat
    BY DEF ConstantsOK
  <1>1. IsFiniteSet(InitWorkers) /\ Cardinality(InitWorkers) = N
    BY <1>0, FS_Interval DEF InitWorkers
  <1>2. 0 \in InitWorkers /\ InitWorkers \subseteq Workers
    BY <1>0 DEF InitWorkers, Workers
  <1>3. ASSUME NEW S \in SUBSET InitWorkers
        PROVE  /\ IsFiniteSet(S) /\ Cardinality(S) \in Nat
               /\ N <= Cardinality(S) => S = InitWorkers
               /\ \A i \in InitWorkers \ S : Cardinality(S \cup {i}) = Cardinality(S) + 1
    <2>1. /\ IsFiniteSet(S) /\ Cardinality(S) <= N
          /\ Cardinality(S) = N => S = InitWorkers
      BY <1>1, FS_Subset
    <2>2. Cardinality(S) \in Nat
      BY <2>1, FS_CardinalityType
    <2>3. ASSUME NEW i \in InitWorkers \ S PROVE Cardinality(S \cup {i}) = Cardinality(S) + 1
      BY <2>1, FS_AddElement
    <2>4. N <= Cardinality(S) => Cardinality(S) = N
      BY <1>0, <2>1, <2>2
    <2> QED BY <2>1, <2>2, <2>3, <2>4
  <1> QED BY <1>1, <1>2, <1>3

\* A worker that is past a barrier's count stays past it, and only the step that
\* counts a worker adds it.
LEMMA Grow ==
  ASSUME ConstantsOK, Types, Counted, Next
  PROVE  /\ Arrived \subseteq Arrived' /\ Posted \subseteq Posted'
         /\ \A j \in Arrived' : j \in Arrived \/ ArrivePre(j)
         /\ \A j \in Posted' : j \in Posted \/ ArrivePost(j)
  <1>0. InitWorkers \subseteq Workers
    BY AllWorkers
  <1>1. Arrived \subseteq Arrived' /\ Posted \subseteq Posted'
    BY <1>0, Lives DEF Lived, Arrived, Posted, InitWorkers
  <1>2. ASSUME NEW j \in Arrived', j \notin Arrived PROVE ArrivePre(j)
    <2>1. j \in InitWorkers /\ pc[j] \in Loading /\ pc'[j] \notin Loading
      BY <1>2 DEF Arrived, InitWorkers
    <2>2. pc[j] = "ready" /\ pc'[j] # pc[j]
      BY <1>0, <2>1, Lives DEF Lived
    <2> QED BY <1>0, <2>1, <2>2, Barriers DEF Counts
  <1>3. ASSUME NEW j \in Posted', j \notin Posted PROVE ArrivePost(j)
    <2>1. j \in InitWorkers /\ pc[j] \notin Past /\ pc'[j] \in Past
      BY <1>3 DEF Posted, InitWorkers
    <2>2. pc[j] = "post" /\ pc'[j] # pc[j]
      BY <1>0, <2>1, Lives DEF Lived, Past
    <2> QED BY <1>0, <2>1, <2>2, Barriers DEF Counts
  <1> QED BY <1>1, <1>2, <1>3

\* What the application does to the pool while init runs and at the end.
Called ==
  /\ Creating' => Creating
  /\ Creating /\ ~Creating' => InitDone
  /\ Creating => started' = started /\ terminate' = terminate
  /\ app' = "done" => app = "done" \/ Join
  /\ early => early'

LEMMA Application ==
  ASSUME Types, Next
  PROVE  Called
  <1> USE DEF Called, Creating, pool, barriers, threads
  <1>1. CASE SpawnThread
    BY <1>1 DEF SpawnThread
  <1>2. CASE Emplace
    BY <1>2 DEF Emplace
  <1>3. CASE InitDone
    <2>1. app' = "call" /\ UNCHANGED <<started, terminate, early>>
      BY <1>3 DEF InitDone
    <2> QED BY <1>3, <2>1
  <1>4. CASE start_workers
    BY <1>4 DEF start_workers, Call
  <1>5. CASE NotifyAll
    BY <1>5 DEF NotifyAll
  <1>6. CASE add_worker
    BY <1>6 DEF add_worker, Call
  <1>7. CASE remove_worker
    BY <1>7 DEF remove_worker, Call
  <1>8. CASE shutdown
    BY <1>8 DEF shutdown, Call
  <1>9. CASE Join
    <2>1. app = "join" /\ app' = "done" /\ UNCHANGED <<started, terminate, early>>
      BY <1>9 DEF Join
    <2> QED BY <1>9, <2>1
  <1>10. CASE ReleasePost
    BY <1>10 DEF ReleasePost
  <1>11. ASSUME NEW a \in {"app", "worker0"}, PauseAll(a) PROVE Called
    BY <1>11 DEF PauseAll, Call
  <1>12. ASSUME NEW a \in {"app", "worker0"}, PauseSkip(a) PROVE Called
    BY <1>12 DEF PauseSkip, Where, Move
  <1>13. ASSUME NEW a \in {"app", "worker0"}, PauseBlocked(a) PROVE Called
    BY <1>13 DEF PauseBlocked, Where, Move
  <1>14. ASSUME NEW a \in {"app", "worker0"}, TakeSnapshot(a) PROVE Called
    BY <1>14 DEF TakeSnapshot, Where, Move
  <1>15. ASSUME NEW a \in {"app", "worker0"}, Resume(a) PROVE Called
    BY <1>15 DEF Resume, Where, Move
  <1>16. ASSUME NEW i \in Workers, Begin(i) PROVE Called
    BY <1>16 DEF Begin
  <1>17. ASSUME NEW i \in Workers, PreRunDone(i) PROVE Called
    BY <1>17 DEF PreRunDone
  <1>18. ASSUME NEW i \in Workers, ArrivePre(i) PROVE Called
    BY <1>18 DEF ArrivePre
  <1>19. ASSUME NEW i \in Workers, PassPre(i) PROVE Called
    BY <1>19 DEF PassPre, Types
  <1>20. ASSUME NEW i \in Workers, Sleep(i) PROVE Called
    BY <1>20 DEF Sleep
  <1>21. ASSUME NEW i \in Workers, SpuriousWakeup(i) PROVE Called
    BY <1>21 DEF SpuriousWakeup
  <1>22. ASSUME NEW i \in Workers, BeginTxn(i) PROVE Called
    BY <1>22 DEF BeginTxn
  <1>23. ASSUME NEW i \in Workers, EndTxn(i) PROVE Called
    BY <1>23 DEF EndTxn
  <1>24. ASSUME NEW i \in Workers, PauseAssertion(i) PROVE Called
    BY <1>24 DEF PauseAssertion
  <1>25. ASSUME NEW i \in Workers, Stop(i) PROVE Called
    BY <1>25 DEF Stop
  <1>26. ASSUME NEW i \in Workers, Finish(i) PROVE Called
    BY <1>26 DEF Finish
  <1>27. ASSUME NEW i \in Workers, ArrivePost(i) PROVE Called
    BY <1>27 DEF ArrivePost
  <1>28. ASSUME NEW i \in Workers, LeavePost(i) PROVE Called
    BY <1>28 DEF LeavePost
  <1> QED BY <1>1, <1>2, <1>3, <1>4, <1>5, <1>6, <1>7, <1>8, <1>9, <1>10, <1>11, <1>12, <1>13,
             <1>14, <1>15, <1>16, <1>17, <1>18, <1>19, <1>20, <1>21, <1>22, <1>23, <1>24, <1>25,
             <1>26, <1>27, <1>28, Steps, ZenonT(60)

\* While init runs, nobody passes the pre-run barrier unless early.
LEMMA NobodyPasses ==
  ASSUME ConstantsOK, Types, Counted, Loaded, Next, Creating, ~early'
  PROVE  \A j \in Workers : pc'[j] \in Loading \cup Waiting
  <1> SUFFICES ASSUME NEW j \in Workers PROVE pc'[j] \in Loading \cup Waiting
    OBVIOUS
  <1> USE DEF Loading, Waiting, Creating, pool, barriers, threads, Goto
  <1>0. /\ 0 \in Workers /\ pc \in [Workers -> Locations]
        /\ \A k \in Workers : pc[k] \in Loading \cup Waiting
    BY Application DEF ConstantsOK, Workers, Types, Loaded, Called
  <1>1. CASE SpawnThread
    BY <1>0, <1>1 DEF SpawnThread, Counted, Workers, ConstantsOK, Types
  <1>2. CASE Emplace
    BY <1>0, <1>2 DEF Emplace
  <1>3. CASE InitDone
    BY <1>0, <1>3 DEF InitDone
  <1>4. CASE start_workers
    BY <1>0, <1>4 DEF start_workers, Call
  <1>5. CASE NotifyAll
    BY <1>0, <1>5 DEF NotifyAll
  <1>6. CASE add_worker
    BY <1>0, <1>6 DEF add_worker, Call
  <1>7. CASE remove_worker
    BY <1>0, <1>7 DEF remove_worker, Call
  <1>8. CASE shutdown
    BY <1>0, <1>8 DEF shutdown, Call
  <1>9. CASE Join
    BY <1>0, <1>9 DEF Join
  <1>10. CASE ReleasePost
    BY <1>0, <1>10 DEF ReleasePost
  <1>11. ASSUME NEW a \in {"app", "worker0"}, PauseAll(a) PROVE pc'[j] \in Loading \cup Waiting
    BY <1>0, <1>11 DEF PauseAll, Call
  <1>12. ASSUME NEW a \in {"app", "worker0"}, PauseSkip(a) PROVE pc'[j] \in Loading \cup Waiting
    BY <1>0, <1>12 DEF PauseSkip, Where, Move
  <1>13. ASSUME NEW a \in {"app", "worker0"}, PauseBlocked(a) PROVE pc'[j] \in Loading \cup Waiting
    BY <1>0, <1>13 DEF PauseBlocked, Where, Move
  <1>14. ASSUME NEW a \in {"app", "worker0"}, TakeSnapshot(a) PROVE pc'[j] \in Loading \cup Waiting
    BY <1>0, <1>14 DEF TakeSnapshot, Where, Move
  <1>15. ASSUME NEW a \in {"app", "worker0"}, Resume(a) PROVE pc'[j] \in Loading \cup Waiting
    BY <1>0, <1>15 DEF Resume, Where, Move
  <1>16. ASSUME NEW i \in Workers, Begin(i) PROVE pc'[j] \in Loading \cup Waiting
    BY <1>0, <1>16 DEF Begin, Counted, HotPlugged, Types, ConstantsOK
  <1>17. ASSUME NEW i \in Workers, PreRunDone(i) PROVE pc'[j] \in Loading \cup Waiting
    BY <1>0, <1>17 DEF PreRunDone
  <1>18. ASSUME NEW i \in Workers, ArrivePre(i) PROVE pc'[j] \in Loading \cup Waiting
    BY <1>0, <1>18 DEF ArrivePre
  <1>19. ASSUME NEW i \in Workers, PassPre(i) PROVE pc'[j] \in Loading \cup Waiting
    BY <1>0, <1>19, ZenonT(60) DEF PassPre, Loaded
  <1>20. ASSUME NEW i \in Workers, Sleep(i) PROVE pc'[j] \in Loading \cup Waiting
    BY <1>0, <1>20 DEF Sleep
  <1>21. ASSUME NEW i \in Workers, SpuriousWakeup(i) PROVE pc'[j] \in Loading \cup Waiting
    BY <1>0, <1>21 DEF SpuriousWakeup
  <1>22. ASSUME NEW i \in Workers, BeginTxn(i) PROVE pc'[j] \in Loading \cup Waiting
    BY <1>0, <1>22 DEF BeginTxn
  <1>23. ASSUME NEW i \in Workers, EndTxn(i) PROVE pc'[j] \in Loading \cup Waiting
    BY <1>0, <1>23 DEF EndTxn
  <1>24. ASSUME NEW i \in Workers, PauseAssertion(i) PROVE pc'[j] \in Loading \cup Waiting
    BY <1>0, <1>24 DEF PauseAssertion
  <1>25. ASSUME NEW i \in Workers, Stop(i) PROVE pc'[j] \in Loading \cup Waiting
    BY <1>0, <1>25 DEF Stop
  <1>26. ASSUME NEW i \in Workers, Finish(i) PROVE pc'[j] \in Loading \cup Waiting
    BY <1>0, <1>26 DEF Finish
  <1>27. ASSUME NEW i \in Workers, ArrivePost(i) PROVE pc'[j] \in Loading \cup Waiting
    BY <1>0, <1>27 DEF ArrivePost
  <1>28. ASSUME NEW i \in Workers, LeavePost(i) PROVE pc'[j] \in Loading \cup Waiting
    BY <1>0, <1>28 DEF LeavePost
  <1> QED BY <1>1, <1>2, <1>3, <1>4, <1>5, <1>6, <1>7, <1>8, <1>9, <1>10, <1>11, <1>12, <1>13,
             <1>14, <1>15, <1>16, <1>17, <1>18, <1>19, <1>20, <1>21, <1>22, <1>23, <1>24, <1>25,
             <1>26, <1>27, <1>28, Steps, ZenonT(60)

\* The pre-run barrier stays the count of the loaded workers, and init returns
\* when they all are.
LEMMA LoadedStep ==
  ASSUME ConstantsOK, Types, Counted, Loaded, Next
  PROVE  Loaded'
  <1>1. Called /\ Counts
    BY Application, Barriers
  <1>2. Arrived \in SUBSET InitWorkers /\ Arrived' \in SUBSET InitWorkers
    BY DEF Arrived, InitWorkers
  <1>3. ASSUME Creating'
        PROVE  /\ ~started' /\ pre_barrier' = Cardinality(Arrived')
               /\ \A i \in Workers : ~terminate'[i]
    <2>0. Creating /\ ~started /\ pre_barrier = Cardinality(Arrived)
      BY <1>1, <1>3 DEF Called, Loaded
    <2>1. ~started' /\ \A i \in Workers : ~terminate'[i]
      BY <1>1, <2>0 DEF Called, Loaded
    <2>2. CASE \E i \in Workers : ArrivePre(i)
      <3> PICK i \in Workers : ArrivePre(i)
        BY <2>2
      <3>1. pc[i] = "ready" /\ pc' = [pc EXCEPT ![i] = "check"] /\ pre_barrier' = pre_barrier + 1
        BY DEF ArrivePre, Goto
      <3>2. i \in InitWorkers \ Arrived
        BY <2>0, <3>1 DEF Counted, Types, Workers, InitWorkers, Arrived, Loading, ConstantsOK
      <3>3. Arrived' = Arrived \cup {i}
        <4>1. i \in Arrived'
          BY <3>1, <3>2 DEF Arrived, InitWorkers, Loading, Types
        <4>2. ASSUME NEW j \in InitWorkers, j # i PROVE pc'[j] = pc[j]
          BY <3>1, <4>2, AllWorkers DEF Types
        <4> QED BY <4>1, <4>2, <1>2, <3>2 DEF Arrived, InitWorkers
      <3>4. Cardinality(Arrived') = Cardinality(Arrived) + 1
        BY <1>2, <3>2, <3>3, AllWorkers
      <3> QED BY <2>0, <2>1, <3>1, <3>4
    <2>3. CASE ~\E i \in Workers : ArrivePre(i)
      <3>1. Arrived' = Arrived
        <4>1. \A j \in Arrived' : j \in Workers
          BY <1>2, AllWorkers
        <4> QED BY <2>3, <4>1, Grow
      <3>2. ~start_workers
        BY <2>0 DEF start_workers, Call, Creating
      <3>3. pre_barrier' = pre_barrier
        BY <1>1, <2>3, <3>2 DEF Counts
      <3> QED BY <2>0, <2>1, <3>1, <3>3
    <2> QED BY <2>2, <2>3
  <1>4. ASSUME Creating', ~early' PROVE \A i \in Workers : pc'[i] \in Loading \cup Waiting
    BY <1>1, <1>4, NobodyPasses DEF Called
  <1>5. ASSUME ~Creating' PROVE Arrived' = InitWorkers
    <2>1. Arrived = InitWorkers
      <3>1. CASE ~Creating
        BY <3>1 DEF Loaded
      <3>2. CASE Creating
        <4>1. app = "init" /\ pre_barrier = size
          BY <1>1, <1>5, <3>2 DEF Called, InitDone
        <4>2. Cardinality(Arrived) = N
          BY <3>2, <4>1, ZenonT(60) DEF Loaded, Counted, Types
        <4> QED BY <1>2, <4>2, AllWorkers DEF ConstantsOK
      <3> QED BY <3>1, <3>2
    <2> QED BY <1>2, <2>1, Grow
  <1> QED BY <1>3, <1>4, <1>5 DEF Loaded, InitWorkers, Loading, Waiting

\* A call that removes a worker follows one that added it, so that nobody of
\* init is stopped before the pool is shut down.
LEMMA StoppingStep ==
  ASSUME ConstantsOK, Types, Counted, Stopping, Next
  PROVE  Stopping'
  <1>0. created \in Nat /\ created' \in Nat /\ script \in Seq(Calls) /\ N \in Nat
    BY TypesStep DEF Types, ConstantsOK
  <1> DEFINE Asked(name, l) ==
               /\ Call(name, l) /\ UNCHANGED created
               /\ name = "add" => l = "add"
               /\ name = "remove" => terminate' = [terminate EXCEPT ![created - 1] = TRUE]
               /\ name \notin {"remove", "shutdown"} => terminate' = terminate
               /\ name = "shutdown" => l = "join"
             Silent ==
               /\ UNCHANGED <<script, terminate>>
               /\ N < created => N < created'
               /\ app = "add" => app' = "add" \/ N < created'
               /\ app \in {"join", "done"} => app' \in {"join", "done"}
  <1>1. ASSUME NEW name, NEW l, Asked(name, l) PROVE Stopping'
    <2>1. /\ app = "call" /\ script # <<>> /\ script[1] = name
          /\ script' = Tail(script) /\ app' = l
      BY <1>0, <1>1 DEF Call
    <2>2. /\ Len(script) \in Nat \ {0} /\ Len(script') = Len(script) - 1
          /\ \A i \in 1..Len(script') : script'[i] = script[i + 1]
      BY <1>0, <2>1
    <2>3. ASSUME NEW i \in 1..Len(script'), script'[i] = "remove"
          PROVE  N < created' \/ app' = "add" \/ \E j \in 1..i - 1 : script'[j] = "add"
      <3>1. i + 1 \in 1..Len(script) /\ script[i + 1] = "remove"
        BY <2>2, <2>3
      <3>2. N < created' \/ \E j \in 1..(i + 1) - 1 : script[j] = "add"
        BY <1>1, <2>1, <3>1 DEF Stopping
      <3>3. ASSUME NEW j \in 1..(i + 1) - 1, script[j] = "add"
            PROVE  app' = "add" \/ \E k \in 1..i - 1 : script'[k] = "add"
        <4>1. CASE j = 1
          BY <1>1, <2>1, <3>3, <4>1
        <4>2. CASE j # 1
          <5>1. j - 1 \in 1..i - 1 /\ j - 1 \in 1..Len(script')
            BY <2>2, <4>2
          <5>2. script'[j - 1] = script[(j - 1) + 1]
            BY <2>2, <5>1
          <5> QED BY <3>3, <5>1, <5>2
        <4> QED BY <4>1, <4>2
      <3> QED BY <3>2, <3>3
    <2>4. ASSUME app' \notin {"join", "done"}, NEW i \in InitWorkers PROVE ~terminate'[i]
      <3>1. ~terminate[i] /\ name # "shutdown" /\ i \in Workers
        BY <1>1, <2>1, <2>4, AllWorkers DEF Stopping
      <3>2. CASE name = "remove"
        <4>1. 1 \in 1..Len(script) /\ ~\E j \in 1..1 - 1 : script[j] = "add"
          BY <2>2
        <4>2. N < created
          BY <2>1, <3>2, <4>1 DEF Stopping
        <4> QED BY <1>0, <1>1, <3>1, <3>2, <4>2 DEF InitWorkers, Types
      <3>3. CASE name # "remove"
        BY <1>1, <3>1, <3>3
      <3> QED BY <3>2, <3>3
    <2> QED BY <2>3, <2>4 DEF Stopping, InitWorkers
  <1>2. ASSUME Silent PROVE Stopping'
    <2>1. ASSUME NEW i \in 1..Len(script'), script'[i] = "remove"
          PROVE  N < created' \/ app' = "add" \/ \E j \in 1..i - 1 : script'[j] = "add"
      BY <1>2, <2>1 DEF Stopping
    <2>2. ASSUME app' \notin {"join", "done"}, NEW i \in InitWorkers PROVE ~terminate'[i]
      BY <1>2, <2>2 DEF Stopping
    <2> QED BY <2>1, <2>2 DEF Stopping, InitWorkers
  <1> USE DEF pool, barriers, threads
  <1>3. SpawnThread => Silent
    BY <1>0 DEF SpawnThread, Counted, Creating
  <1>4. Emplace => Silent
    BY DEF Emplace
  <1>5. InitDone => Silent
    BY DEF InitDone
  <1>6. NotifyAll => Silent
    BY DEF NotifyAll
  <1>7. Join => Silent
    BY DEF Join
  <1>8. ReleasePost => Silent
    BY DEF ReleasePost
  <1>9. start_workers => Asked("start", "notify")
    BY DEF start_workers
  <1>10. add_worker => Asked("add", "add")
    BY DEF add_worker
  <1>11. remove_worker => Asked("remove", "call")
    BY DEF remove_worker
  <1>12. shutdown => Asked("shutdown", "join")
    BY DEF shutdown
  <1>13. ASSUME NEW a \in {"app", "worker0"}, PauseAll(a)
         PROVE  Asked("snapshot", "pausing") \/ Silent
    BY <1>13 DEF PauseAll
  <1>14. ASSUME NEW a \in {"app", "worker0"}, PauseSkip(a) PROVE Silent
    BY <1>14 DEF PauseSkip, Where, Move
  <1>15. ASSUME NEW a \in {"app", "worker0"}, PauseBlocked(a) PROVE Silent
    BY <1>15 DEF PauseBlocked, Where, Move
  <1>16. ASSUME NEW a \in {"app", "worker0"}, TakeSnapshot(a) PROVE Silent
    BY <1>16 DEF TakeSnapshot, Where, Move
  <1>17. ASSUME NEW a \in {"app", "worker0"}, Resume(a) PROVE Silent
    BY <1>17 DEF Resume, Where, Move
  <1>18. ASSUME NEW i \in Workers, Begin(i) PROVE Silent
    BY <1>18 DEF Begin
  <1>19. ASSUME NEW i \in Workers, PreRunDone(i) PROVE Silent
    BY <1>19 DEF PreRunDone
  <1>20. ASSUME NEW i \in Workers, ArrivePre(i) PROVE Silent
    BY <1>20 DEF ArrivePre
  <1>21. ASSUME NEW i \in Workers, PassPre(i) PROVE Silent
    BY <1>21 DEF PassPre
  <1>22. ASSUME NEW i \in Workers, Sleep(i) PROVE Silent
    BY <1>22 DEF Sleep
  <1>23. ASSUME NEW i \in Workers, SpuriousWakeup(i) PROVE Silent
    BY <1>23 DEF SpuriousWakeup
  <1>24. ASSUME NEW i \in Workers, BeginTxn(i) PROVE Silent
    BY <1>24 DEF BeginTxn
  <1>25. ASSUME NEW i \in Workers, EndTxn(i) PROVE Silent
    BY <1>25 DEF EndTxn
  <1>26. ASSUME NEW i \in Workers, PauseAssertion(i) PROVE Silent
    BY <1>26 DEF PauseAssertion
  <1>27. ASSUME NEW i \in Workers, Stop(i) PROVE Silent
    BY <1>27 DEF Stop
  <1>28. ASSUME NEW i \in Workers, Finish(i) PROVE Silent
    BY <1>28 DEF Finish
  <1>29. ASSUME NEW i \in Workers, ArrivePost(i) PROVE Silent
    BY <1>29 DEF ArrivePost
  <1>30. ASSUME NEW i \in Workers, LeavePost(i) PROVE Silent
    BY <1>30 DEF LeavePost
  <1> HIDE DEF Asked, Silent
  <1> QED BY <1>1, <1>2, <1>3, <1>4, <1>5, <1>6, <1>7, <1>8, <1>9, <1>10, <1>11, <1>12, <1>13,
             <1>14, <1>15, <1>16, <1>17, <1>18, <1>19, <1>20, <1>21, <1>22, <1>23, <1>24, <1>25,
             <1>26, <1>27, <1>28, <1>29, <1>30, Steps, ZenonT(60)

\* What a step may do to worker 0, to the state of a running worker, and to
\* a snapshot the application takes.
Zeroth ==
  /\ ~ReleasePost => (pc'[0] \in {"leave", "done"} <=> pc[0] \in {"leave", "done"})
  /\ pc'[0] \in Past \ {"gather"} => pc[0] \in Past \ {"gather"} \/ PauseAll("worker0")
  /\ pc[0] = "done" => pc'[0] = "done"

LEMMA Worker0 ==
  ASSUME ConstantsOK, Types, Counted, Next
  PROVE  Zeroth
  <1> USE DEF Zeroth, Past, pool, barriers, threads, Goto
  <1>0. 0 \in Workers /\ 0 \notin HotPlugged /\ pc \in [Workers -> Locations]
    BY DEF ConstantsOK, Workers, HotPlugged, Types
  <1>1. CASE SpawnThread
    BY <1>0, <1>1 DEF SpawnThread, Counted, Creating, ConstantsOK, Workers, Types
  <1>2. CASE Emplace
    BY <1>0, <1>2 DEF Emplace
  <1>3. CASE InitDone
    BY <1>0, <1>3 DEF InitDone
  <1>4. CASE start_workers
    BY <1>0, <1>4 DEF start_workers, Call
  <1>5. CASE NotifyAll
    BY <1>0, <1>5 DEF NotifyAll
  <1>6. CASE add_worker
    BY <1>0, <1>6 DEF add_worker, Call
  <1>7. CASE remove_worker
    BY <1>0, <1>7 DEF remove_worker, Call
  <1>8. CASE shutdown
    BY <1>0, <1>8 DEF shutdown, Call
  <1>9. CASE Join
    BY <1>0, <1>9 DEF Join
  <1>10. CASE ReleasePost
    BY <1>0, <1>10 DEF ReleasePost
  <1>11. ASSUME NEW a \in {"app", "worker0"}, PauseAll(a) PROVE Zeroth
    BY <1>0, <1>11, ZenonT(60) DEF PauseAll, Call
  <1>12. ASSUME NEW a \in {"app", "worker0"}, PauseSkip(a) PROVE Zeroth
    BY <1>0, <1>12 DEF PauseSkip, Where, Move
  <1>13. ASSUME NEW a \in {"app", "worker0"}, PauseBlocked(a) PROVE Zeroth
    BY <1>0, <1>13 DEF PauseBlocked, Where, Move
  <1>14. ASSUME NEW a \in {"app", "worker0"}, TakeSnapshot(a) PROVE Zeroth
    BY <1>0, <1>14 DEF TakeSnapshot, Where, Move
  <1>15. ASSUME NEW a \in {"app", "worker0"}, Resume(a) PROVE Zeroth
    BY <1>0, <1>15 DEF Resume, Where, Move
  <1>16. ASSUME NEW i \in Workers, Begin(i) PROVE Zeroth
    BY <1>0, <1>16 DEF Begin
  <1>17. ASSUME NEW i \in Workers, PreRunDone(i) PROVE Zeroth
    BY <1>0, <1>17 DEF PreRunDone
  <1>18. ASSUME NEW i \in Workers, ArrivePre(i) PROVE Zeroth
    BY <1>0, <1>18 DEF ArrivePre
  <1>19. ASSUME NEW i \in Workers, PassPre(i) PROVE Zeroth
    BY <1>0, <1>19 DEF PassPre
  <1>20. ASSUME NEW i \in Workers, Sleep(i) PROVE Zeroth
    BY <1>0, <1>20 DEF Sleep
  <1>21. ASSUME NEW i \in Workers, SpuriousWakeup(i) PROVE Zeroth
    BY <1>0, <1>21 DEF SpuriousWakeup
  <1>22. ASSUME NEW i \in Workers, BeginTxn(i) PROVE Zeroth
    BY <1>0, <1>22 DEF BeginTxn
  <1>23. ASSUME NEW i \in Workers, EndTxn(i) PROVE Zeroth
    BY <1>0, <1>23 DEF EndTxn
  <1>24. ASSUME NEW i \in Workers, PauseAssertion(i) PROVE Zeroth
    BY <1>0, <1>24 DEF PauseAssertion
  <1>25. ASSUME NEW i \in Workers, Stop(i) PROVE Zeroth
    BY <1>0, <1>25 DEF Stop
  <1>26. ASSUME NEW i \in Workers, Finish(i) PROVE Zeroth
    BY <1>0, <1>26 DEF Finish
  <1>27. ASSUME NEW i \in Workers, ArrivePost(i) PROVE Zeroth
    BY <1>0, <1>27 DEF ArrivePost
  <1>28. ASSUME NEW i \in Workers, LeavePost(i) PROVE Zeroth
    BY <1>0, <1>28 DEF LeavePost
  <1> QED BY <1>1, <1>2, <1>3, <1>4, <1>5, <1>6, <1>7, <1>8, <1>9, <1>10, <1>11, <1>12, <1>13,
             <1>14, <1>15, <1>16, <1>17, <1>18, <1>19, <1>20, <1>21, <1>22, <1>23, <1>24, <1>25,
             <1>26, <1>27, <1>28, Steps, ZenonT(60)

Ran(j) == pc[j] \in {"loop", "txn"} => state[j] = "RUNNING"

LEMMA Running ==
  ASSUME ConstantsOK, Types, Counted, Next, \A j \in Workers : Ran(j)
  PROVE  \A j \in Workers : Ran(j)'
  <1> SUFFICES ASSUME NEW j \in Workers PROVE Ran(j)'
    OBVIOUS
  <1> USE DEF Ran, pool, barriers, threads, Goto, Become
  <1>0. /\ 0 \in Workers /\ pc \in [Workers -> Locations]
        /\ state \in [Workers -> {"READY", "RUNNING", "PRE_RUN", "POST_RUN", "TERMINATED"}]
        /\ Ran(j)
    BY DEF ConstantsOK, Workers, Types
  <1>1. CASE SpawnThread
    BY <1>0, <1>1 DEF SpawnThread, Counted, Creating, ConstantsOK, Workers, Types
  <1>2. CASE Emplace
    BY <1>0, <1>2 DEF Emplace
  <1>3. CASE InitDone
    BY <1>0, <1>3 DEF InitDone
  <1>4. CASE start_workers
    BY <1>0, <1>4 DEF start_workers, Call
  <1>5. CASE NotifyAll
    BY <1>0, <1>5 DEF NotifyAll
  <1>6. CASE add_worker
    BY <1>0, <1>6 DEF add_worker, Call
  <1>7. CASE remove_worker
    BY <1>0, <1>7 DEF remove_worker, Call
  <1>8. CASE shutdown
    BY <1>0, <1>8 DEF shutdown, Call
  <1>9. CASE Join
    BY <1>0, <1>9 DEF Join
  <1>10. CASE ReleasePost
    BY <1>0, <1>10 DEF ReleasePost
  <1>11. ASSUME NEW a \in {"app", "worker0"}, PauseAll(a) PROVE Ran(j)'
    BY <1>0, <1>11 DEF PauseAll, Call
  <1>12. ASSUME NEW a \in {"app", "worker0"}, PauseSkip(a) PROVE Ran(j)'
    BY <1>0, <1>12 DEF PauseSkip, Where, Move
  <1>13. ASSUME NEW a \in {"app", "worker0"}, PauseBlocked(a) PROVE Ran(j)'
    BY <1>0, <1>13 DEF PauseBlocked, Where, Move
  <1>14. ASSUME NEW a \in {"app", "worker0"}, TakeSnapshot(a) PROVE Ran(j)'
    BY <1>0, <1>14 DEF TakeSnapshot, Where, Move
  <1>15. ASSUME NEW a \in {"app", "worker0"}, Resume(a) PROVE Ran(j)'
    BY <1>0, <1>15 DEF Resume, Where, Move
  <1>16. ASSUME NEW i \in Workers, Begin(i) PROVE Ran(j)'
    BY <1>0, <1>16 DEF Begin
  <1>17. ASSUME NEW i \in Workers, PreRunDone(i) PROVE Ran(j)'
    BY <1>0, <1>17 DEF PreRunDone
  <1>18. ASSUME NEW i \in Workers, ArrivePre(i) PROVE Ran(j)'
    BY <1>0, <1>18 DEF ArrivePre
  <1>19. ASSUME NEW i \in Workers, PassPre(i) PROVE Ran(j)'
    BY <1>0, <1>19 DEF PassPre
  <1>20. ASSUME NEW i \in Workers, Sleep(i) PROVE Ran(j)'
    BY <1>0, <1>20 DEF Sleep
  <1>21. ASSUME NEW i \in Workers, SpuriousWakeup(i) PROVE Ran(j)'
    BY <1>0, <1>21 DEF SpuriousWakeup
  <1>22. ASSUME NEW i \in Workers, BeginTxn(i) PROVE Ran(j)'
    BY <1>0, <1>22 DEF BeginTxn
  <1>23. ASSUME NEW i \in Workers, EndTxn(i) PROVE Ran(j)'
    BY <1>0, <1>23 DEF EndTxn
  <1>24. ASSUME NEW i \in Workers, PauseAssertion(i) PROVE Ran(j)'
    BY <1>0, <1>24 DEF PauseAssertion
  <1>25. ASSUME NEW i \in Workers, Stop(i) PROVE Ran(j)'
    BY <1>0, <1>25 DEF Stop
  <1>26. ASSUME NEW i \in Workers, Finish(i) PROVE Ran(j)'
    BY <1>0, <1>26 DEF Finish
  <1>27. ASSUME NEW i \in Workers, ArrivePost(i) PROVE Ran(j)'
    BY <1>0, <1>27 DEF ArrivePost
  <1>28. ASSUME NEW i \in Workers, LeavePost(i) PROVE Ran(j)'
    BY <1>0, <1>28 DEF LeavePost
  <1> QED BY <1>1, <1>2, <1>3, <1>4, <1>5, <1>6, <1>7, <1>8, <1>9, <1>10, <1>11, <1>12, <1>13,
             <1>14, <1>15, <1>16, <1>17, <1>18, <1>19, <1>20, <1>21, <1>22, <1>23, <1>24, <1>25,
             <1>26, <1>27, <1>28, Steps, ZenonT(60)

Snapped ==
  app' \in {"pausing", "snapshot"} =>
    \/ PauseAll("app") \/ PauseSkip("app") \/ TakeSnapshot("app")
    \/ /\ app' = app /\ visit'["app"] = visit["app"]
       /\ pause' = pause \/ PauseAll("worker0") \/ Resume("worker0")

LEMMA Snapshots ==
  ASSUME Types, Next
  PROVE  Snapped
  <1> USE DEF Snapped, pool, barriers, threads
  <1>0. visit \in [{"app", "worker0"} -> Nat]
    BY DEF Types
  <1>1. CASE SpawnThread
    BY <1>0, <1>1 DEF SpawnThread
  <1>2. CASE Emplace
    BY <1>0, <1>2 DEF Emplace
  <1>3. CASE InitDone
    BY <1>0, <1>3 DEF InitDone
  <1>4. CASE start_workers
    BY <1>0, <1>4 DEF start_workers, Call
  <1>5. CASE NotifyAll
    BY <1>0, <1>5 DEF NotifyAll
  <1>6. CASE add_worker
    BY <1>0, <1>6 DEF add_worker, Call
  <1>7. CASE remove_worker
    BY <1>0, <1>7 DEF remove_worker, Call
  <1>8. CASE shutdown
    BY <1>0, <1>8 DEF shutdown, Call
  <1>9. CASE Join
    BY <1>0, <1>9 DEF Join
  <1>10. CASE ReleasePost
    BY <1>0, <1>10 DEF ReleasePost
  <1>11. ASSUME NEW a \in {"app", "worker0"}, PauseAll(a) PROVE Snapped
    BY <1>0, <1>11, ZenonT(60) DEF PauseAll, Call
  <1>12. ASSUME NEW a \in {"app", "worker0"}, PauseSkip(a) PROVE Snapped
    BY <1>0, <1>12, ZenonT(60) DEF PauseSkip, Where, Move
  <1>13. ASSUME NEW a \in {"app", "worker0"}, PauseBlocked(a) PROVE Snapped
    BY <1>0, <1>13 DEF PauseBlocked, Where, Move
  <1>14. ASSUME NEW a \in {"app", "worker0"}, TakeSnapshot(a) PROVE Snapped
    BY <1>0, <1>14 DEF TakeSnapshot, Where, Move
  <1>15. ASSUME NEW a \in {"app", "worker0"}, Resume(a) PROVE Snapped
    BY <1>0, <1>15 DEF Resume, Where, Move
  <1>16. ASSUME NEW i \in Workers, Begin(i) PROVE Snapped
    BY <1>0, <1>16 DEF Begin
  <1>17. ASSUME NEW i \in Workers, PreRunDone(i) PROVE Snapped
    BY <1>0, <1>17 DEF PreRunDone
  <1>18. ASSUME NEW i \in Workers, ArrivePre(i) PROVE Snapped
    BY <1>0, <1>18 DEF ArrivePre
  <1>19. ASSUME NEW i \in Workers, PassPre(i) PROVE Snapped
    BY <1>0, <1>19 DEF PassPre
  <1>20. ASSUME NEW i \in Workers, Sleep(i) PROVE Snapped
    BY <1>0, <1>20 DEF Sleep
  <1>21. ASSUME NEW i \in Workers, SpuriousWakeup(i) PROVE Snapped
    BY <1>0, <1>21 DEF SpuriousWakeup
  <1>22. ASSUME NEW i \in Workers, BeginTxn(i) PROVE Snapped
    BY <1>0, <1>22 DEF BeginTxn
  <1>23. ASSUME NEW i \in Workers, EndTxn(i) PROVE Snapped
    BY <1>0, <1>23 DEF EndTxn
  <1>24. ASSUME NEW i \in Workers, PauseAssertion(i) PROVE Snapped
    BY <1>0, <1>24 DEF PauseAssertion
  <1>25. ASSUME NEW i \in Workers, Stop(i) PROVE Snapped
    BY <1>0, <1>25 DEF Stop
  <1>26. ASSUME NEW i \in Workers, Finish(i) PROVE Snapped
    BY <1>0, <1>26 DEF Finish
  <1>27. ASSUME NEW i \in Workers, ArrivePost(i) PROVE Snapped
    BY <1>0, <1>27 DEF ArrivePost
  <1>28. ASSUME NEW i \in Workers, LeavePost(i) PROVE Snapped
    BY <1>0, <1>28 DEF LeavePost
  <1> QED BY <1>1, <1>2, <1>3, <1>4, <1>5, <1>6, <1>7, <1>8, <1>9, <1>10, <1>11, <1>12, <1>13,
             <1>14, <1>15, <1>16, <1>17, <1>18, <1>19, <1>20, <1>21, <1>22, <1>23, <1>24, <1>25,
             <1>26, <1>27, <1>28, Steps, ZenonT(60)

\* The post-run barrier stays the count of the workers that are through.
LEMMA ThroughStep ==
  ASSUME ConstantsOK, Types, Counted, Loaded, Through, Next
  PROVE  Through'
  <1> DEFINE Left == IF pc[0] \in {"leave", "done"} THEN 1 ELSE 0
  <1>0. /\ N \in Nat \ {0} /\ 0 \in InitWorkers /\ InitWorkers \subseteq Workers
        /\ Posted \in SUBSET InitWorkers /\ Posted' \in SUBSET InitWorkers
        /\ Posted \subseteq Posted' /\ Cardinality(Posted) \in Nat
    BY AllWorkers, Grow DEF Posted, InitWorkers, ConstantsOK
  <1>1. Called /\ Counts /\ Zeroth
    BY Application, Barriers, Worker0
  <1>2. \A i \in Workers : pc'[i] = "post" => i \in InitWorkers
    BY Lives DEF Through, Lived
  <1>3. post_barrier' = Cardinality(Posted') + Left'
    <2>0. post_barrier = Cardinality(Posted) + Left /\ post_barrier \in Nat
      BY DEF Through, Types
    <2>1. CASE \E i \in Workers : ArrivePost(i)
      <3> PICK i \in Workers : ArrivePost(i)
        BY <2>1
      <3>1. /\ pc[i] = "post" /\ post_barrier' = post_barrier + 1
            /\ pc' = [pc EXCEPT ![i] = IF i = 0 THEN "gather" ELSE "leave"]
        BY DEF ArrivePost, Goto
      <3>2. i \in InitWorkers \ Posted
        BY <3>1 DEF Through, Posted, Past
      <3>3. Posted' = Posted \cup {i}
        <4>1. i \in Posted'
          BY <3>1, <3>2 DEF Posted, InitWorkers, Past, Types
        <4>2. ASSUME NEW j \in InitWorkers, j # i PROVE pc'[j] = pc[j]
          BY <1>0, <3>1, <4>2 DEF Types
        <4> QED BY <4>1, <4>2, <1>0, <3>2 DEF Posted, InitWorkers
      <3>4. Cardinality(Posted') = Cardinality(Posted) + 1
        BY <1>0, <3>2, <3>3, AllWorkers
      <3>5. Left' = Left
        <4>1. CASE i = 0
          BY <3>1, <4>1 DEF Types
        <4>2. CASE i # 0
          BY <1>0, <3>1, <4>2 DEF Types
        <4> QED BY <4>1, <4>2
      <3> QED BY <1>0, <2>0, <3>1, <3>4, <3>5
    <2>2. CASE ~\E i \in Workers : ArrivePost(i)
      <3>1. Posted' = Posted
        BY <1>0, <2>2, Grow
      <3>2. CASE ReleasePost
        <4>1. pc[0] = "gathered" /\ pc'[0] = "leave" /\ post_barrier' = post_barrier + 1
          BY <1>0, <3>2 DEF ReleasePost, Goto, Types
        <4> QED BY <1>0, <2>0, <3>1, <4>1
      <3>3. CASE ~ReleasePost
        <4>1. post_barrier' = post_barrier
          BY <1>1, <2>2, <3>3 DEF Counts
        <4>2. Left' = Left
          BY <1>1, <3>3 DEF Zeroth
        <4> QED BY <2>0, <3>1, <4>1, <4>2
      <3> QED BY <3>2, <3>3
    <2> QED BY <2>1, <2>2
  <1>4. ASSUME ~early', pc'[0] \in Past \ {"gather"} PROVE Posted' = InitWorkers
    <2>0. ~early
      BY <1>1, <1>4 DEF Called
    <2>1. CASE pc[0] \in Past \ {"gather"}
      BY <1>0, <2>0, <2>1 DEF Through
    <2>2. CASE PauseAll("worker0")
      <3>1. pc[0] = "gather" /\ post_barrier = size
        BY <2>2 DEF PauseAll
      <3>2. ~Creating /\ app # "done"
        BY <1>0, <2>0, <3>1 DEF Loaded, Loading, Waiting, Through
      <3>3. N <= size
        BY <1>0, <3>2 DEF Counted, Types
      <3>4. post_barrier = Cardinality(Posted)
        BY <1>0, <3>1 DEF Through
      <3>5. Posted = InitWorkers
        BY <1>0, <3>1, <3>3, <3>4, AllWorkers
      <3> QED BY <1>0, <3>5
    <2> QED BY <1>1, <1>4, <2>1, <2>2 DEF Zeroth
  <1>5. ASSUME app' = "done" PROVE pc'[0] = "done"
    <2>1. CASE app = "done"
      BY <1>1, <2>1 DEF Through, Zeroth
    <2>2. CASE Join
      <3>1. app = "join" /\ \A i \in 0..size - 1 : pc[i] = "done"
        BY <2>2 DEF Join
      <3>2. N <= size /\ size \in Nat
        BY <1>0, <3>1 DEF Counted, Creating, Types
      <3> QED BY <1>0, <1>1, <3>1, <3>2 DEF Zeroth
    <2> QED BY <1>1, <1>5, <2>1, <2>2 DEF Called
  <1> QED BY <1>2, <1>3, <1>4, <1>5 DEF Through, InitWorkers, Past

\* A worker that pause() went past does not begin a transaction until resume().
LEMMA PausedStep ==
  ASSUME ConstantsOK, Types, Counted, Loaded, Stopping, Through, Paused, Next
  PROVE  Paused'
  <1> DEFINE Quiet(i) == pause[i] /\ (app = "snapshot" \/ i < visit["app"] => pc[i] # "txn")
  <1>0. /\ N \in Nat \ {0} /\ 0 \in InitWorkers /\ InitWorkers \subseteq Workers
        /\ Posted \in SUBSET InitWorkers /\ Posted' \in SUBSET InitWorkers
        /\ Posted \subseteq Posted'
    BY AllWorkers, Grow DEF Posted, InitWorkers, ConstantsOK
  <1>1. Called /\ Snapped /\ \A i \in InitWorkers : Lived(i)
    BY <1>0, Application, Snapshots, Lives
  <1>2. \A i \in Workers : Ran(i)
    BY DEF Paused, Ran
  <1>3. \A i \in Workers : Ran(i)'
    BY <1>2, Running
  <1>4. ASSUME ~early', app' \in {"pausing", "snapshot"}, Posted' # InitWorkers
        PROVE  \A i \in InitWorkers : Quiet(i)'
    <2>0. ~early /\ Posted # InitWorkers
      BY <1>0, <1>1, <1>4 DEF Called
    <2>1. app \in {"pausing", "snapshot"} => \A i \in InitWorkers : Quiet(i)
      BY <2>0 DEF Paused
    <2>2. CASE PauseAll("app")
      <3>1. /\ app = "call" /\ app' = "pausing" /\ visit'["app"] = 0
            /\ pause' = [i \in Workers |-> pause[i] \/ i < size]
        BY <2>2 DEF PauseAll, Call, Types
      <3>2. N <= size /\ size \in Nat
        BY <1>0, <3>1 DEF Counted, Creating, Types
      <3>3. ASSUME NEW i \in InitWorkers PROVE Quiet(i)'
        <4>1. i \in Workers /\ i < size /\ ~(i < 0)
          BY <1>0, <3>2 DEF InitWorkers
        <4>2. pause'[i]
          BY <3>1, <4>1, ZenonT(60)
        <4> QED BY <3>1, <4>1, <4>2
      <3> QED BY <3>3
    <2>3. CASE PauseSkip("app")
      <3>1. /\ app = "pausing" /\ app' = app /\ pause' = pause /\ pc' = pc
            /\ visit["app"] \in Nat /\ visit'["app"] = visit["app"] + 1
            /\ ~Pausable(visit["app"])
        BY <2>3 DEF PauseSkip, Where, Types, threads
      <3>2. ASSUME NEW i \in InitWorkers, i = visit["app"] PROVE pc[i] # "txn"
        BY <1>0, <1>2, <3>1, <3>2 DEF Stopping, Pausable, Ran
      <3>3. ASSUME NEW i \in InitWorkers PROVE Quiet(i)'
        <4>1. i < visit["app"] + 1 => i < visit["app"] \/ i = visit["app"]
          BY <3>1 DEF InitWorkers
        <4> QED BY <2>1, <3>1, <3>2, <4>1
      <3> QED BY <3>3
    <2>4. CASE TakeSnapshot("app")
      <3>1. app = "pausing" /\ visit["app"] = size /\ pc' = pc /\ pause' = pause
        BY <2>4 DEF TakeSnapshot, Where, Move
      <3>2. N <= size /\ size \in Nat
        BY <1>0, <3>1 DEF Counted, Creating, Types
      <3>3. \A i \in InitWorkers : i < visit["app"]
        BY <1>0, <3>1, <3>2 DEF InitWorkers
      <3> QED BY <2>1, <3>1, <3>3
    <2>5. CASE /\ app' = app /\ visit'["app"] = visit["app"]
               /\ pause' = pause \/ PauseAll("worker0") \/ Resume("worker0")
      <3>1. ~Resume("worker0")
        BY <2>0 DEF Resume, Where, Through, Past
      <3>2. \A i \in InitWorkers : pause[i] /\ pause'[i]
        BY <1>0, <1>4, <2>1, <2>5, <3>1, ZenonT(60) DEF PauseAll
      <3>3. ASSUME NEW i \in InitWorkers PROVE pc'[i] = "txn" => pc[i] = "txn"
        BY <1>1, <3>2 DEF Lived
      <3>4. ASSUME NEW i \in InitWorkers PROVE Quiet(i)'
        BY <1>4, <2>1, <2>5, <3>2, <3>3
      <3> QED BY <3>4
    <2> QED BY <1>1, <1>4, <2>2, <2>3, <2>4, <2>5 DEF Snapped
  <1> QED BY <1>3, <1>4 DEF Paused, Ran, InitWorkers

-----------------------------------------------------------------------------
\* Before the first thread is created.
LEMMA InitInv ==
  ASSUME ConstantsOK, Init
  PROVE  LoadInv /\ Through /\ Paused /\ (RemovesAdded => Stopping)
  <1>0. 0 \in InitWorkers /\ InitWorkers \subseteq Workers /\ N \in Nat \ {0} /\ Hot \in Nat
    BY AllWorkers DEF ConstantsOK
  <1>1. \A i \in Workers : pc[i] = "none" /\ ~terminate[i] /\ i \in Int /\ 0 <= i
    BY <1>0 DEF Init, Workers
  <1>2. Arrived = {} /\ Posted = {} /\ Cardinality({}) = 0
    BY <1>0, <1>1, FS_EmptySet DEF Arrived, Posted, Loading, Past
  <1>3. Types
    BY ZenonT(60) DEF Init, Types, ConstantsOK, Locations, Loading
  <1>4. Counted
    BY <1>0, <1>1 DEF Init, Counted, Creating
  <1>5. Loaded
    BY <1>1, <1>2 DEF Init, Loaded, Creating, Loading
  <1>6. RemovesAdded => Stopping
    BY <1>0, <1>1 DEF Init, Stopping, RemovesAdded
  <1>7. Through
    BY <1>0, <1>1, <1>2 DEF Init, Through, Past
  <1>8. Paused
    BY <1>1 DEF Init, Paused
  <1> QED BY <1>3, <1>4, <1>5, <1>6, <1>7, <1>8 DEF LoadInv

LEMMA NextLoadInv ==
  ASSUME ConstantsOK, LoadInv, [Next]_vars
  PROVE  LoadInv'
  <1>1. CASE Next
    BY <1>1, TypesStep, CountedStep, LoadedStep DEF LoadInv
  <1>2. CASE UNCHANGED vars
    BY <1>2 DEF LoadInv, Types, Counted, Loaded, Creating, Arrived, Posted, vars
  <1> QED BY <1>1, <1>2

LEMMA NextIInv ==
  ASSUME ConstantsOK, IInv, [Next]_vars
  PROVE  IInv'
  <1>0. LoadInv'
    BY NextLoadInv DEF IInv
  <1>1. CASE Next
    BY <1>0, <1>1, StoppingStep, ThroughStep, PausedStep DEF IInv, LoadInv
  <1>2. CASE UNCHANGED vars
    BY <1>0, <1>2 DEF IInv, Stopping, Through, Paused, Posted, vars
  <1> QED BY <1>1, <1>2

\* Worker::run passes the pre-run barrier only when start_workers or shutdown
\* let it, and WorkerPool::init waits for the barrier to count every worker: for
\* any number of workers and any calls, hot-plugged workers included, nobody
\* runs a transaction on data that is still being loaded.
THEOREM DataLoaded ==
  ASSUME ConstantsOK
  PROVE  Spec => []LoadedBeforeRunning
  <1>1. Init => LoadInv
    BY InitInv
  <1>2. LoadInv /\ [Next]_vars => LoadInv'
    BY NextLoadInv
  <1>3. LoadInv => LoadedBeforeRunning
    <2> SUFFICES ASSUME LoadInv, ~early, NEW i \in Workers, pc[i] \in {"loop", "txn"},
                        NEW j \in InitWorkers
                 PROVE  pc[j] \notin Loading
      BY DEF LoadedBeforeRunning, InitWorkers, Loading
    <2>1. ~Creating
      BY DEF LoadInv, Loaded, Loading, Waiting
    <2> QED BY <2>1 DEF LoadInv, Loaded, Arrived
  <1> QED BY <1>1, <1>2, <1>3, PTL DEF Spec

\* WorkerPool::pause looks at the workers one after the other and waits for
\* those that run; the snapshot of the application, or of worker 0 behind the
\* post-run barrier, still finds no worker of init inside a transaction.
THEOREM SnapshotsQuiet ==
  ASSUME ConstantsOK, RemovesAdded
  PROVE  Spec => []SnapshotQuiesced
  <1>1. Init => IInv
    BY InitInv DEF IInv
  <1>2. IInv /\ [Next]_vars => IInv'
    BY NextIInv
  <1>3. IInv => SnapshotQuiesced
    <2> SUFFICES ASSUME IInv, ~early, app = "snapshot" \/ pc[0] = "snapshot",
                        NEW i \in InitWorkers
                 PROVE  pc[i] # "txn"
      BY DEF SnapshotQuiesced, InitWorkers
    <2>1. CASE Posted = InitWorkers
      BY <2>1 DEF Posted, Past
    <2>2. CASE Posted # InitWorkers
      BY <2>2 DEF IInv, Paused, Through, Past
    <2> QED BY <2>1, <2>2
  <1> QED BY <1>1, <1>2, <1>3, PTL DEF Spec
=============================================================================
