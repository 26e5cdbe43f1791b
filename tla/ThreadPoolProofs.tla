-------------------------- MODULE ThreadPoolProofs --------------------------
(***************************************************************************)
(* Proofs about ThreadPool for any finite set of threads and any tasks, and*)
(* about AsyncQueue, the queue between the threads of a pipeline, for any  *)
(* number of producers and items and any size of the cache.                *)
(***************************************************************************)
EXTENDS ThreadPool, FiniteSetTheorems, SequenceTheorems, TLAPS

\* The time each prover has for a leaf.
USE SMTT(30), ZenonT(60)

\* The counter is exact: a thread is counted from the increment to the
\* decrement of its turn in the critical section.
IdleExact == idleWorkers = Cardinality(Counted)

\* What a thread inside the critical section found out stays true there.
Found ==
  /\ \A t \in Threads : pc[t] = "block" => tasks = <<>>
  /\ \A t \in Threads : pc[t] = "take" => terminate \/ tasks # <<>>

\* No task is lost: it is queued, running or done.
Accounted ==
  \A x \in enqueued :
     \/ x \in done
     \/ \E i \in 1..Len(tasks) : tasks[i] = x
     \/ \E t \in Threads : pc[t] = "run" /\ x \in task[t]

\* Only an accepted task is done.
OnlyEnqueued ==
  /\ \A i \in 1..Len(tasks) : tasks[i] \in enqueued
  /\ \A t \in Threads : task[t] \subseteq enqueued
  /\ done \subseteq enqueued

Joined == owner = "gone" => \A t \in Threads : pc[t] \in {"none", "exit"}

\* The inductive invariant.
IInv ==
  /\ TypeOK
  /\ IdleExact
  /\ Found
  /\ EnoughThreads
  /\ NoSleepOverTasks
  /\ Accounted
  /\ OnlyEnqueued
  /\ Joined

-----------------------------------------------------------------------------
\* Sets of threads are finite, and one member more or less is one more or less.
LEMMA ThreadSets ==
  ASSUME NEW S \in SUBSET Threads
  PROVE  /\ IsFiniteSet(S)
         /\ Cardinality(S) \in Nat
         /\ \A R \in SUBSET S : Cardinality(R) <= Cardinality(S)
         /\ \A t \in Threads \ S : Cardinality(S \cup {t}) = Cardinality(S) + 1
         /\ \A t \in S : Cardinality(S \ {t}) = Cardinality(S) - 1
  <1>1. IsFiniteSet(S)
    BY FS_Subset, ThreadPoolAssumption
  <1>2. Cardinality(S) \in Nat
    BY <1>1, FS_CardinalityType
  <1>3. \A R \in SUBSET S : Cardinality(R) <= Cardinality(S)
    BY <1>1, FS_Subset
  <1>4. \A t \in Threads \ S : Cardinality(S \cup {t}) = Cardinality(S) + 1
    BY <1>1, FS_AddElement
  <1>5. \A t \in S : Cardinality(S \ {t}) = Cardinality(S) - 1
    BY <1>1, FS_RemoveElement
  <1> QED BY <1>1, <1>2, <1>3, <1>4, <1>5

\* A new pool satisfies the invariant.
LEMMA InitIInv == Init => IInv
  <1> SUFFICES ASSUME Init PROVE IInv
    OBVIOUS
  <1>1. TypeOK
    <2>1. terminate \in BOOLEAN /\ (terminate <=> owner # "using")
      BY ZenonT(60) DEF Init
    <2>2. m = {t \in Threads : pc[t] \in {"check", "block", "take"}}
      BY DEF Init
    <2> QED BY <2>1, <2>2 DEF Init, TypeOK, Locations
  <1>2. Counted = {} /\ Cardinality({}) = 0
    BY FS_EmptySet DEF Init, Counted
  <1>3. EnoughThreads
    <2>1. Cardinality(Free) \in Nat
      BY ThreadSets DEF Free, Counted
    <2> QED BY <2>1 DEF Init, EnoughThreads
  <1> QED
    BY <1>1, <1>2, <1>3 DEF Init, IInv, IdleExact, Found, NoSleepOverTasks,
       Accounted, OnlyEnqueued, Joined

\* Every step preserves the types and the exclusion of the mutex.
LEMMA TypeStep == TypeOK /\ Found /\ [Next]_vars => TypeOK'
  <1> SUFFICES ASSUME TypeOK, Found, [Next]_vars PROVE TypeOK'
    OBVIOUS
  <1> USE DEF TypeOK, Locations, Goto
  <1>1. ASSUME NEW t \in Threads, Lock(t) PROVE TypeOK'
    BY <1>1 DEF Lock
  <1>2. ASSUME NEW t \in Threads, Check(t) PROVE TypeOK'
    BY <1>2 DEF Check
  <1>3. ASSUME NEW t \in Threads, Block(t) PROVE TypeOK'
    BY <1>3 DEF Block
  <1>4. ASSUME NEW t \in Threads, Relock(t) PROVE TypeOK'
    BY <1>4 DEF Relock
  <1>5. ASSUME NEW t \in Threads, Take(t) PROVE TypeOK'
    <2>1. m' = {s \in Threads : pc'[s] \in {"check", "block", "take"}}
      BY <1>5 DEF Take
    <2>2. CASE terminate /\ tasks = <<>>
      BY <1>5, <2>1, <2>2 DEF Take
    <2>3. CASE ~(terminate /\ tasks = <<>>)
      <3>1. tasks # <<>>
        BY <1>5, <2>3, ZenonT(60) DEF Take, Found
      <3>2. Head(tasks) \in Tasks /\ Tail(tasks) \in Seq(Tasks)
        BY <3>1
      <3>3. /\ task' = [task EXCEPT ![t] = {Head(tasks)}] /\ tasks' = Tail(tasks)
            /\ pc' = [pc EXCEPT ![t] = "run"]
        BY <1>5, <2>3 DEF Take
      <3>4. /\ task' \in [Threads -> SUBSET Tasks] /\ tasks' \in Seq(Tasks)
            /\ pc' \in [Threads -> Locations]
        BY <3>2, <3>3
      <3> QED BY <1>5, <2>1, <3>4 DEF Take
    <2> QED BY <2>2, <2>3
  <1>6. ASSUME NEW t \in Threads, Finish(t) PROVE TypeOK'
    BY <1>6 DEF Finish
  <1>7. ASSUME NEW t \in Threads, SpuriousWakeup(t) PROVE TypeOK'
    BY <1>7 DEF SpuriousWakeup
  <1>8. ASSUME NEW x \in Tasks, enqueue(x) PROVE TypeOK'
    <2>1. tasks' \in Seq(Tasks)
      BY <1>8 DEF enqueue
    <2>2. /\ pc' \in [Threads -> Locations]
          /\ m' = {s \in Threads : pc'[s] \in {"check", "block", "take"}}
      BY <1>8, SMTT(30) DEF enqueue
    <2> QED BY <1>8, <2>1, <2>2 DEF enqueue
  <1>9. CASE Notify
    BY <1>9 DEF Notify, Wake
  <1>10. CASE Destroy
    <2>1. terminate' \in BOOLEAN /\ (terminate' <=> owner' # "using")
      BY <1>10, ZenonT(60) DEF Destroy
    <2> QED BY <1>10, <2>1 DEF Destroy
  <1>11. CASE DestroyNotify
    BY <1>11 DEF DestroyNotify, Wake
  <1>12. CASE Join
    BY <1>12 DEF Join
  <1>13. CASE UNCHANGED vars
    BY <1>13 DEF vars
  <1> QED
    BY <1>1, <1>2, <1>3, <1>4, <1>5, <1>6, <1>7, <1>8, <1>9, <1>10, <1>11,
       <1>12, <1>13 DEF Next, WorkerStep, OwnerStep

\* Every step keeps the counter exact and leaves enough free threads.
LEMMA CountStep ==
  ASSUME TypeOK, TypeOK', Found, IdleExact, EnoughThreads, [Next]_vars
  PROVE  IdleExact' /\ EnoughThreads'
  <1> DEFINE Goal == IdleExact' /\ EnoughThreads'
  <1> SUFFICES Goal
    OBVIOUS
  <1>c. /\ Counted \in SUBSET Threads /\ Free \in SUBSET Threads
        /\ Counted \in SUBSET Free
    BY DEF Counted, Free
  <1>n. /\ Cardinality(Counted) \in Nat /\ Cardinality(Free) \in Nat
        /\ Cardinality(Counted) <= Cardinality(Free)
    BY <1>c, ThreadSets
  <1>l. Len(tasks) \in Nat
    BY DEF TypeOK
  <1> USE DEF Goto
  <1>s. ASSUME Counted' = Counted, Free' = Free, tasks' = tasks, idleWorkers' = idleWorkers
        PROVE  Goal
    BY <1>s DEF IdleExact, EnoughThreads
  <1>1. ASSUME NEW t \in Threads, Lock(t) PROVE Goal
    <2>1. Counted' = Counted \cup {t} /\ t \notin Counted /\ Free' = Free
      BY <1>1 DEF Lock, Counted, Free, TypeOK
    <2>2. Cardinality(Counted') = Cardinality(Counted) + 1
      BY <2>1, <1>c, ThreadSets
    <2> QED BY <1>1, <2>1, <2>2 DEF Lock, IdleExact, EnoughThreads
  <1>2. ASSUME NEW t \in Threads, Check(t) \/ Block(t) \/ Relock(t) \/ SpuriousWakeup(t) PROVE Goal
    <2>1. /\ pc[t] \in {"check", "block", "woken", "asleep"}
          /\ pc' = [pc EXCEPT ![t] = pc'[t]]
          /\ pc'[t] \in {"check", "take", "block", "woken", "asleep"}
          /\ tasks' = tasks /\ idleWorkers' = idleWorkers
      BY <1>2 DEF Check, Block, Relock, SpuriousWakeup, TypeOK
    <2>2. Counted' = Counted /\ Free' = Free
      BY <2>1 DEF Counted, Free, TypeOK
    <2> QED BY <2>1, <2>2, <1>s
  <1>3. ASSUME NEW t \in Threads, Take(t) PROVE Goal
    <2>1. /\ Counted' = Counted \ {t} /\ t \in Counted
          /\ Free' = Free \ {t} /\ t \in Free
      BY <1>3 DEF Take, Counted, Free, TypeOK
    <2>2. /\ Cardinality(Counted') = Cardinality(Counted) - 1
          /\ Cardinality(Free') = Cardinality(Free) - 1
      BY <2>1, <1>c, ThreadSets
    <2>3. IdleExact'
      BY <1>3, <2>2 DEF Take, IdleExact
    <2>4. CASE terminate /\ tasks = <<>>
      <3>1. Len(tasks') = 0
        BY <1>3, <2>4 DEF Take
      <3>2. Cardinality(Free') \in Nat
        BY <2>1, <1>c, ThreadSets
      <3> QED BY <3>1, <3>2, <2>3 DEF EnoughThreads
    <2>5. CASE ~(terminate /\ tasks = <<>>)
      <3>1. tasks # <<>>
        BY <1>3, <2>5, ZenonT(60) DEF Take, Found
      <3>2. tasks' = Tail(tasks)
        BY <1>3, <2>5 DEF Take
      <3>3. Len(tasks') = Len(tasks) - 1
        BY <3>1, <3>2 DEF TypeOK
      <3> QED BY <3>3, <2>2, <2>3, <1>n, <1>l DEF EnoughThreads
    <2> QED BY <2>4, <2>5
  <1>4. ASSUME NEW t \in Threads, Finish(t) PROVE Goal
    <2>1. Counted' = Counted /\ Free' = Free \cup {t} /\ t \notin Free
      BY <1>4 DEF Finish, Counted, Free, TypeOK
    <2>2. Cardinality(Free') = Cardinality(Free) + 1
      BY <2>1, <1>c, ThreadSets
    <2> QED BY <1>4, <2>1, <2>2, <1>n, <1>l DEF Finish, IdleExact, EnoughThreads
  <1>5. ASSUME NEW x \in Tasks, enqueue(x) PROVE Goal
    <2>1. Len(tasks') = Len(tasks) + 1
      BY <1>5 DEF enqueue, TypeOK
    <2>2. CASE Elastic /\ idleWorkers < Len(tasks) + 1
      <3>1. PICK t \in Threads : pc[t] = "none" /\ pc' = [pc EXCEPT ![t] = "start"]
        BY <1>5, <2>2 DEF enqueue
      <3>2. Counted' = Counted /\ Free' = Free \cup {t} /\ t \notin Free
        BY <3>1 DEF Counted, Free, TypeOK
      <3>3. Cardinality(Free') = Cardinality(Free) + 1
        BY <3>2, <1>c, ThreadSets
      <3> QED BY <1>5, <2>1, <3>2, <3>3, <1>n, <1>l DEF enqueue, IdleExact, EnoughThreads
    <2>3. CASE ~(Elastic /\ idleWorkers < Len(tasks) + 1)
      <3>1. pc' = pc /\ idleWorkers' = idleWorkers
        BY <1>5, <2>3 DEF enqueue
      <3>2. Counted' = Counted /\ Free' = Free
        BY <3>1 DEF Counted, Free
      <3>3. Elastic => Len(tasks) + 1 <= Cardinality(Counted)
        BY <2>3, <1>n, <1>l DEF IdleExact
      <3> QED BY <3>1, <3>2, <3>3, <2>1, <1>n, <1>l DEF IdleExact, EnoughThreads
    <2> QED BY <2>2, <2>3
  <1>6. CASE Notify \/ DestroyNotify
    <2>1. Counted' = Counted /\ Free' = Free
      BY <1>6 DEF Notify, DestroyNotify, Wake, Counted, Free, TypeOK
    <2> QED BY <1>6, <2>1, <1>s DEF Notify, DestroyNotify
  <1>7. CASE Destroy \/ Join \/ UNCHANGED vars
    <2>1. Counted' = Counted /\ Free' = Free
      BY <1>7, SMTT(30) DEF Destroy, Join, vars, Counted, Free
    <2> QED BY <1>7, <2>1, <1>s DEF Destroy, Join, vars
  <1> QED
    BY <1>1, <1>2, <1>3, <1>4, <1>5, <1>6, <1>7 DEF Next, WorkerStep, OwnerStep

\* Every step keeps track of the tasks, and lets no thread sleep over one.
LEMMA TaskStep ==
  ASSUME TypeOK, Found, NoSleepOverTasks, Accounted, OnlyEnqueued, Joined, [Next]_vars
  PROVE  Found' /\ NoSleepOverTasks' /\ Accounted' /\ OnlyEnqueued' /\ Joined'
  <1> DEFINE Goal == Found' /\ NoSleepOverTasks' /\ Accounted' /\ OnlyEnqueued' /\ Joined'
  <1> SUFFICES Goal
    OBVIOUS
  <1> USE DEF Goto, TypeOK
  <1> USE DEF Found, NoSleepOverTasks, Accounted, OnlyEnqueued, Joined
  <1>1. ASSUME NEW t \in Threads, Lock(t) PROVE Goal
    BY <1>1 DEF Lock
  <1>2. ASSUME NEW t \in Threads, Check(t) PROVE Goal
    BY <1>2 DEF Check
  <1>3. ASSUME NEW t \in Threads, Block(t) PROVE Goal
    BY <1>3 DEF Block
  <1>4. ASSUME NEW t \in Threads, Relock(t) PROVE Goal
    BY <1>4 DEF Relock
  <1>5. ASSUME NEW t \in Threads, Take(t) PROVE Goal
    <2>0. /\ \A s \in Threads : s # t => pc[s] \notin {"block", "take"} /\ pc'[s] = pc[s]
          /\ pc'[t] \in {"run", "exit"}
      BY <1>5 DEF Take
    <2>1. CASE terminate /\ tasks = <<>>
      BY <1>5, <2>0, <2>1 DEF Take
    <2>2. CASE ~(terminate /\ tasks = <<>>)
      <3>1. tasks # <<>>
        BY <1>5, <2>2, ZenonT(60) DEF Take
      <3>2. /\ task' = [task EXCEPT ![t] = {Head(tasks)}] /\ tasks' = Tail(tasks)
            /\ pc' = [pc EXCEPT ![t] = "run"]
        BY <1>5, <2>2 DEF Take
      <3>3. /\ Len(tasks') = Len(tasks) - 1 /\ Len(tasks) \in Nat \ {0}
            /\ \A i \in 1..Len(tasks') : tasks'[i] = tasks[i + 1]
            /\ Head(tasks) = tasks[1]
        BY <3>1, <3>2
      <3>4. Found' /\ NoSleepOverTasks' /\ Joined'
        BY <1>5, <2>0, <3>1, <3>2, SMTT(30) DEF Take
      <3>5. Accounted'
        <4> SUFFICES ASSUME NEW x \in enqueued, x \notin done,
                            NEW i \in 1..Len(tasks), tasks[i] = x
                     PROVE  \/ \E j \in 1..Len(tasks') : tasks'[j] = x
                            \/ x \in task'[t]
          BY <1>5, <3>2 DEF Take
        <4>1. CASE i = 1
          BY <4>1, <3>2, <3>3
        <4>2. CASE i # 1
          <5>1. i - 1 \in 1..Len(tasks') /\ tasks'[i - 1] = tasks[(i - 1) + 1]
            BY <4>2, <3>3
          <5> QED BY <5>1
        <4> QED BY <4>1, <4>2
      <3>6. OnlyEnqueued'
        <4>1. /\ \A i \in 1..Len(tasks') : i + 1 \in 1..Len(tasks)
              /\ 1 \in 1..Len(tasks)
          BY <3>3
        <4> QED BY <1>5, <3>2, <3>3, <4>1 DEF Take
      <3> QED BY <3>4, <3>5, <3>6
    <2> QED BY <2>1, <2>2
  <1>6. ASSUME NEW t \in Threads, Finish(t) PROVE Goal
    BY <1>6 DEF Finish
  <1>7. ASSUME NEW t \in Threads, SpuriousWakeup(t) PROVE Goal
    BY <1>7 DEF SpuriousWakeup
  <1>8. ASSUME NEW x \in Tasks, enqueue(x) PROVE Goal
    <2>1. /\ Len(tasks') = Len(tasks) + 1 /\ Len(tasks) \in Nat
          /\ \A i \in 1..Len(tasks) : tasks'[i] = tasks[i]
          /\ tasks'[Len(tasks) + 1] = x /\ tasks' # <<>>
      BY <1>8 DEF enqueue
    <2>2. /\ \A t \in Threads : pc'[t] = pc[t] \/ (pc[t] = "none" /\ pc'[t] = "start")
          /\ task' = task /\ done' = done /\ enqueued' = enqueued \cup {x}
          /\ \A t \in Threads : pc[t] \notin {"block", "take"}
          /\ unnotified' # 0 /\ owner' = "using"
      BY <1>8 DEF enqueue
    <2>3. Found' /\ NoSleepOverTasks' /\ Joined'
      BY <2>2
    <2>4. Accounted'
      <3>1. Len(tasks) + 1 \in 1..Len(tasks')
        BY <2>1
      <3>2. \A i \in 1..Len(tasks) : i \in 1..Len(tasks')
        BY <2>1
      <3>3. \E i \in 1..Len(tasks') : tasks'[i] = x
        BY <3>1, <2>1
      <3>4. ASSUME NEW y \in enqueued
            PROVE  \/ y \in done'
                   \/ \E i \in 1..Len(tasks') : tasks'[i] = y
                   \/ \E t \in Threads : pc'[t] = "run" /\ y \in task'[t]
        BY <3>2, <2>1, <2>2
      <3> QED BY <3>3, <3>4, <2>2
    <2>5. OnlyEnqueued'
      <3>1. \A i \in 1..Len(tasks') : i \in 1..Len(tasks) \/ i = Len(tasks) + 1
        BY <2>1
      <3> QED BY <3>1, <2>1, <2>2
    <2> QED BY <2>3, <2>4, <2>5
  <1>9. CASE Notify
    BY <1>9 DEF Notify, Wake
  <1>10. CASE Destroy
    BY <1>10 DEF Destroy
  <1>11. CASE DestroyNotify
    BY <1>11 DEF DestroyNotify, Wake
  <1>12. CASE Join
    BY <1>12 DEF Join
  <1>13. CASE UNCHANGED vars
    BY <1>13 DEF vars
  <1> QED
    BY <1>1, <1>2, <1>3, <1>4, <1>5, <1>6, <1>7, <1>8, <1>9, <1>10, <1>11,
       <1>12, <1>13, ZenonT(60) DEF Next, WorkerStep, OwnerStep

-----------------------------------------------------------------------------
\* IInv holds in every reachable state of the pool.
THEOREM Invariance == Spec => []IInv
  <1>1. IInv /\ [Next]_vars => IInv'
    BY TypeStep, CountStep, TaskStep DEF IInv
  <1> QED BY InitIInv, <1>1, PTL DEF Spec

\* The scope of the lock is exclusive and every variable has its type.
THEOREM Types == Spec => []TypeOK
  <1>1. IInv => TypeOK
    BY DEF IInv
  <1> QED BY Invariance, <1>1, PTL

\* The comparison under the lock in enqueue gives every queued task of an
\* elastic pool a free thread, however many threads and tasks there are.
THEOREM ElasticGrowth == Spec => []EnoughThreads
  <1>1. IInv => EnoughThreads
    BY DEF IInv
  <1> QED BY Invariance, <1>1, PTL

\* The notify_all of enqueue, sent without the mutex, reaches every worker
\* that could have missed the task.
THEOREM NoLostTask == Spec => []NoSleepOverTasks
  <1>1. IInv => NoSleepOverTasks
    BY DEF IInv
  <1> QED BY Invariance, <1>1, PTL

\* When the destructor of an elastic pool returns, every accepted task has
\* run: EnoughThreads leaves no task in the queue once no thread is free.
THEOREM DrainedWhenDestroyed ==
  ASSUME Elastic
  PROVE  Spec => []NothingDropped
  <1>1. ASSUME IInv, owner = "gone" PROVE tasks = <<>> /\ done = enqueued
    <2>1. \A t \in Threads : pc[t] \in {"none", "exit"}
      BY <1>1 DEF IInv, Joined
    <2>2. Free = {}
      BY <2>1 DEF Free, Counted
    <2>3. Cardinality(Free) = 0
      BY <2>2, FS_EmptySet
    <2>4. Len(tasks) <= 0 /\ tasks \in Seq(Tasks)
      BY <1>1, <2>3 DEF IInv, EnoughThreads, TypeOK
    <2>5. tasks = <<>> /\ Len(tasks) = 0
      BY <2>4
    <2>6. enqueued \subseteq done
      BY <1>1, <2>1, <2>5 DEF IInv, Accounted
    <2> QED BY <1>1, <2>5, <2>6, ZenonT(60) DEF IInv, OnlyEnqueued
  <1>2. IInv => NothingDropped
    BY <1>1 DEF NothingDropped
  <1> QED BY Invariance, <1>2, PTL
-----------------------------------------------------------------------------
(* The queue *)

CONSTANTS Producers, NumItems, CacheCap

VARIABLES data, cache, terminating, sent, notifying, consumer, closer, pushed, got

Q == INSTANCE AsyncQueue WITH unnotified <- notifying

SizesOK == NumItems \in Nat /\ CacheCap \in Nat

\* What is in the queue, in the order it will be popped.
Queued == Q!LastFirst(cache) \o data

\* Nothing is lost, duplicated or reordered between the pushes and the pops.
Fifo == pushed = got \o Queued

\* The inductive invariant.  The consumer leaves the cache only when it is
\* empty; after close() nothing is pushed, so that a queue found empty then
\* stays empty.
QInv ==
  /\ Q!TypeOK /\ pushed \in Seq(Q!Items) /\ got \in Seq(Q!Items)
  /\ terminating <=> closer # "open"
  /\ terminating => \A p \in Producers : sent[p] = NumItems
  /\ consumer # "pop" => cache = <<>>
  /\ consumer \in {"end", "done"} => terminating /\ data = <<>>
  /\ Fifo

-----------------------------------------------------------------------------
(* Facts about sequences *)

\* LastFirst keeps the length and turns the positions around.
LEMMA LastFirstProperties ==
  ASSUME NEW S, NEW s \in Seq(S)
  PROVE  /\ Q!LastFirst(s) \in Seq(S)
         /\ Len(Q!LastFirst(s)) = Len(s)
         /\ \A i \in 1..Len(s) : Q!LastFirst(s)[i] = s[Len(s) - i + 1]
  <1>1. Len(s) \in Nat /\ \A i \in 1..Len(s) : s[i] \in S
    BY ElementOfSeq, LenProperties
  <1>2. \A i \in 1..Len(s) : s[Len(s) - i + 1] \in S
    BY <1>1
  <1>3. Q!LastFirst(s) \in [1..Len(s) -> S]
    BY <1>2 DEF Q!LastFirst
  <1>4. Q!LastFirst(s) \in Seq(S)
    BY <1>1, <1>3, SeqDef
  <1>5. DOMAIN Q!LastFirst(s) = 1..Len(Q!LastFirst(s)) /\ Len(Q!LastFirst(s)) \in Nat
    BY <1>4, LenProperties
  <1>6. Len(Q!LastFirst(s)) = Len(s)
    BY <1>1, <1>3, <1>5
  <1> QED BY <1>4, <1>6 DEF Q!LastFirst

\* The empty cache reads as no items.
LEMMA LastFirstEmpty == Q!LastFirst(<<>>) = <<>>
  <1>1. <<>> \in Seq({}) /\ Len(<<>>) = 0
    BY EmptySeq
  <1>2. Q!LastFirst(<<>>) \in Seq({}) /\ Len(Q!LastFirst(<<>>)) = 0
    BY <1>1, LastFirstProperties, ZenonT(60)
  <1> QED BY <1>2, EmptySeq

\* A cache refilled with a reversed sequence reads as that sequence.
LEMMA LastFirstTwice ==
  ASSUME NEW S, NEW s \in Seq(S)
  PROVE  Q!LastFirst(Q!LastFirst(s)) = s
  <1> DEFINE r == Q!LastFirst(s)
  <1>1. r \in Seq(S) /\ Len(r) = Len(s) /\ \A i \in 1..Len(s) : r[i] = s[Len(s) - i + 1]
    BY LastFirstProperties
  <1> HIDE DEF r
  <1>2. /\ Q!LastFirst(r) \in Seq(S) /\ Len(Q!LastFirst(r)) = Len(r)
        /\ \A i \in 1..Len(r) : Q!LastFirst(r)[i] = r[Len(r) - i + 1]
    BY <1>1, LastFirstProperties
  <1>3. Len(s) \in Nat
    BY LenProperties
  <1>4. ASSUME NEW i \in 1..Len(s) PROVE Q!LastFirst(r)[i] = s[i]
    <2>1. Len(s) - i + 1 \in 1..Len(s) /\ Len(s) - (Len(s) - i + 1) + 1 = i
      BY <1>3
    <2>2. r[Len(s) - i + 1] = s[Len(s) - (Len(s) - i + 1) + 1]
      BY <1>1, <2>1
    <2> QED BY <1>1, <1>2, <2>1, <2>2
  <1>5. Q!LastFirst(r) = s
    BY <1>1, <1>2, <1>4, SeqEqual
  <1> QED BY <1>5 DEF r

\* A part of a sequence.
LEMMA PartOfSeq ==
  ASSUME NEW S, NEW s \in Seq(S), NEW j \in 1..Len(s) + 1, NEW k \in j - 1..Len(s)
  PROVE  /\ SubSeq(s, j, k) \in Seq(S) /\ Len(SubSeq(s, j, k)) = k - j + 1
         /\ \A i \in 1..k - j + 1 : SubSeq(s, j, k)[i] = s[j + i - 1]
  <1>1. Len(s) \in Nat /\ \A i \in 1..Len(s) : s[i] \in S
    BY ElementOfSeq, LenProperties
  <1>2. j \in Int /\ k \in Int /\ \A i \in j..k : s[i] \in S
    BY <1>1
  <1>3. /\ SubSeq(s, j, k) \in Seq(S) /\ Len(SubSeq(s, j, k)) = IF j <= k THEN k - j + 1 ELSE 0
        /\ \A i \in 1..k - j + 1 : SubSeq(s, j, k)[i] = s[j + i - 1]
    BY <1>2, SubSeqProperties
  <1>4. ~(j <= k) => k - j + 1 = 0
    BY <1>1
  <1> QED BY <1>3, <1>4

\* The last one of the cache is the first in the order of the queue.
LEMMA LastFirstPopped ==
  ASSUME NEW S, NEW s \in Seq(S), s # <<>>
  PROVE  /\ SubSeq(s, 1, Len(s) - 1) \in Seq(S) /\ Len(SubSeq(s, 1, Len(s) - 1)) = Len(s) - 1
         /\ s[Len(s)] \in S /\ Q!LastFirst(s) = <<s[Len(s)]>> \o Q!LastFirst(SubSeq(s, 1, Len(s) - 1))
  <1>1. Len(s) \in Nat \ {0}
    BY EmptySeq
  <1>2. \A i \in 1..Len(s) : s[i] \in S
    BY ElementOfSeq
  <1> DEFINE f == SubSeq(s, 1, Len(s) - 1)
             l == s[Len(s)]
  <1>4. f \in Seq(S) /\ Len(f) = Len(s) - 1 /\ \A i \in 1..Len(s) - 1 : f[i] = s[i]
    <2>1. 1 \in 1..Len(s) + 1 /\ Len(s) - 1 \in 1 - 1..Len(s) /\ (Len(s) - 1) - 1 + 1 = Len(s) - 1
      BY <1>1
    <2>2. /\ f \in Seq(S) /\ Len(f) = Len(s) - 1
          /\ \A i \in 1..Len(s) - 1 : f[i] = s[1 + i - 1]
      BY <2>1, PartOfSeq
    <2>3. \A i \in 1..Len(s) - 1 : 1 + i - 1 = i
      BY <1>1
    <2> QED BY <2>2, <2>3
  <1>5. l = s[Len(s)] /\ l \in S
    BY <1>1, <1>2
  <1> HIDE DEF f, l
  <1>6. /\ Q!LastFirst(s) \in Seq(S) /\ Len(Q!LastFirst(s)) = Len(s)
        /\ \A i \in 1..Len(s) : Q!LastFirst(s)[i] = s[Len(s) - i + 1]
    BY LastFirstProperties
  <1>7. /\ Q!LastFirst(f) \in Seq(S) /\ Len(Q!LastFirst(f)) = Len(f)
        /\ \A i \in 1..Len(f) : Q!LastFirst(f)[i] = f[Len(f) - i + 1]
    BY <1>4, LastFirstProperties
  <1>8. <<l>> \in Seq(S) /\ Len(<<l>>) = 1 /\ <<l>>[1] = l
    BY <1>5
  <1> DEFINE r == <<l>> \o Q!LastFirst(f)
  <1>9. /\ r \in Seq(S) /\ Len(r) = Len(s)
        /\ \A i \in 1..Len(s) : r[i] = IF i <= 1 THEN <<l>>[i] ELSE Q!LastFirst(f)[i - 1]
    <2>1. 1 + Len(Q!LastFirst(f)) = Len(s)
      BY <1>1, <1>4, <1>7
    <2> QED BY <1>7, <1>8, <2>1, ConcatProperties
  <1> HIDE DEF r
  <1>10. ASSUME NEW i \in 1..Len(s) PROVE Q!LastFirst(s)[i] = r[i]
    <2>1. CASE i = 1
      BY <1>1, <1>5, <1>6, <1>8, <1>9, <2>1, SMTT(30)
    <2>2. CASE i # 1
      <3>1. i - 1 \in 1..Len(f) /\ Len(f) - (i - 1) + 1 = Len(s) - i + 1
        BY <1>1, <1>4, <2>2
      <3>2. Len(s) - i + 1 \in 1..Len(s) - 1 /\ ~(i <= 1)
        BY <1>1, <2>2
      <3>3. r[i] = Q!LastFirst(f)[i - 1]
        BY <1>9, <3>2
      <3>4. Q!LastFirst(f)[i - 1] = f[Len(s) - i + 1]
        BY <1>7, <3>1
      <3> QED BY <1>4, <1>6, <3>2, <3>3, <3>4, ZenonT(60)
    <2> QED BY <2>1, <2>2
  <1>11. Q!LastFirst(s) = r
    BY <1>6, <1>9, <1>10, SeqEqual
  <1> QED BY <1>4, <1>5, <1>11 DEF f, l, r

\* What a refill takes from the queue it puts, in order, into the cache.
LEMMA RefillProperties ==
  ASSUME SizesOK, Q!TypeOK, data # <<>>, Q!Refill
  PROVE  /\ cache' \in Seq(Q!Items) /\ Len(cache') <= CacheCap /\ data' \in Seq(Q!Items)
         /\ Head(data) \in Q!Items /\ got' = Append(got, Head(data))
         /\ Queued' = Tail(data)
  <1> DEFINE n == IF Len(data) - 1 < CacheCap THEN Len(data) - 1 ELSE CacheCap
             c == SubSeq(data, 2, n + 1)
             d == SubSeq(data, n + 2, Len(data))
  <1>1. data \in Seq(Q!Items) /\ Len(data) \in Nat \ {0}
    BY EmptySeq DEF Q!TypeOK
  <1>2. n \in 0..Len(data) - 1 /\ n <= CacheCap
    BY <1>1 DEF SizesOK
  <1>3. cache' = Q!LastFirst(c) /\ data' = d /\ got' = Append(got, Head(data))
    BY DEF Q!Refill
  <1> HIDE DEF n
  <1>5. c \in Seq(Q!Items) /\ Len(c) = n
    <2>1. 2 \in 1..Len(data) + 1 /\ n + 1 \in 2 - 1..Len(data) /\ (n + 1) - 2 + 1 = n
      BY <1>1, <1>2
    <2> QED BY <1>1, <2>1, PartOfSeq
  <1>6. d \in Seq(Q!Items)
    <2>1. n + 2 \in 1..Len(data) + 1 /\ Len(data) \in (n + 2) - 1..Len(data)
      BY <1>1, <1>2
    <2> QED BY <1>1, <2>1, PartOfSeq
  <1>7. c \o d = Tail(data)
    <2>1. /\ 2 \in 1..Len(data) + 1 /\ n + 1 \in 2 - 1..Len(data) /\ Len(data) \in n + 1..Len(data)
          /\ (n + 1) + 1 = n + 2
      BY <1>1, <1>2
    <2>2. SubSeq(data, 2, n + 1) \o SubSeq(data, (n + 1) + 1, Len(data)) = SubSeq(data, 2, Len(data))
      BY <1>1, <2>1, ConcatAdjacentSubSeq, ZenonT(60)
    <2>3. Tail(data) = SubSeq(data, 2, Len(data))
      BY <1>1, TailIsSubSeq
    <2> QED BY <2>1, <2>2, <2>3, ZenonT(60)
  <1> HIDE DEF c, d
  <1>8. Q!LastFirst(c) \in Seq(Q!Items) /\ Len(Q!LastFirst(c)) = n /\ Q!LastFirst(Q!LastFirst(c)) = c
    BY <1>5, LastFirstProperties, LastFirstTwice
  <1>9. Queued' = Q!LastFirst(Q!LastFirst(c)) \o d
    BY <1>3 DEF Queued
  <1> QED BY <1>1, <1>2, <1>3, <1>6, <1>7, <1>8, <1>9, HeadTailProperties, SMTT(30)

\* The queue is in Seq(Items), and empty when cache and data are.
LEMMA QueuedType ==
  ASSUME Q!TypeOK
  PROVE  /\ Queued \in Seq(Q!Items) /\ (Queued = <<>> <=> Q!Drained)
         /\ cache = <<>> => Queued = data
  <1>1. Q!LastFirst(cache) \in Seq(Q!Items) /\ Len(Q!LastFirst(cache)) = Len(cache) /\ data \in Seq(Q!Items)
    BY LastFirstProperties DEF Q!TypeOK
  <1>2. Q!LastFirst(cache) = <<>> <=> cache = <<>>
    <2>1. Q!LastFirst(cache) = <<>> => Len(cache) = 0
      BY <1>1, EmptySeq
    <2>2. cache # <<>> => Len(cache) # 0
      BY EmptySeq DEF Q!TypeOK
    <2> QED BY <2>1, <2>2, LastFirstEmpty
  <1>3. Queued \in Seq(Q!Items)
    BY <1>1, ConcatProperties DEF Queued
  <1>4. Queued = <<>> <=> Q!LastFirst(cache) = <<>> /\ data = <<>>
    BY <1>1, ConcatEqualIffEmpty DEF Queued
  <1>5. cache = <<>> => Queued = data
    BY <1>1, LastFirstEmpty, ConcatEmptySeq DEF Queued
  <1> QED BY <1>2, <1>3, <1>4, <1>5 DEF Q!Drained

\* How the steps change the queue.
LEMMA PushEffect ==
  ASSUME SizesOK, Q!TypeOK, NEW p \in Producers, Q!push(p)
  PROVE  LET v == <<p, sent[p] + 1>>
         IN  /\ v \in Q!Items /\ sent' = [sent EXCEPT ![p] = sent[p] + 1]
             /\ data' = Append(data, v) /\ pushed' = Append(pushed, v)
             /\ Queued' = Append(Queued, v)
  <1> DEFINE v == <<p, sent[p] + 1>>
  <1>1. sent' = [sent EXCEPT ![p] = sent[p] + 1] /\ sent[p] < NumItems /\ cache' = cache
    BY DEF Q!push
  <1>2. sent'[p] = sent[p] + 1 /\ v \in Q!Items
    <2>1. sent[p] \in 0..NumItems
      BY DEF Q!TypeOK
    <2>2. sent[p] + 1 \in 1..NumItems
      BY <1>1, <2>1 DEF SizesOK
    <2> QED BY <1>1, <2>2 DEF Q!TypeOK, Q!Items
  <1>3. data' = Append(data, v) /\ pushed' = Append(pushed, v)
    BY <1>2 DEF Q!push
  <1> HIDE DEF v
  <1>4. Q!LastFirst(cache) \in Seq(Q!Items) /\ data \in Seq(Q!Items) /\ <<v>> \in Seq(Q!Items)
    BY <1>2, LastFirstProperties DEF Q!TypeOK
  <1>5. Append(data, v) = data \o <<v>>
    BY <1>2, <1>4, AppendIsConcat
  <1>6. Append(Q!LastFirst(cache) \o data, v) = (Q!LastFirst(cache) \o data) \o <<v>>
    BY <1>2, <1>4, AppendIsConcat, ConcatProperties
  <1>7. (Q!LastFirst(cache) \o data) \o <<v>> = Q!LastFirst(cache) \o (data \o <<v>>)
    BY <1>4, ConcatAssociative
  <1>8. Queued' = Append(Queued, v)
    BY <1>1, <1>3, <1>5, <1>6, <1>7, SMTT(30) DEF Queued
  <1> QED BY <1>1, <1>2, <1>3, <1>8 DEF v

\* pop() with items in the cache takes the oldest of all queued items.
LEMMA PopCachedEffect ==
  ASSUME SizesOK, Q!TypeOK, Q!PopCached
  PROVE  /\ cache' \in Seq(Q!Items) /\ Len(cache') <= CacheCap /\ cache[Len(cache)] \in Q!Items
         /\ got' = Append(got, cache[Len(cache)]) /\ Queued = <<cache[Len(cache)]>> \o Queued'
  <1>1. cache # <<>> /\ cache' = SubSeq(cache, 1, Len(cache) - 1) /\ got' = Append(got, cache[Len(cache)]) /\ data' = data
    BY DEF Q!PopCached
  <1>2. /\ cache' \in Seq(Q!Items) /\ Len(cache') = Len(cache) - 1 /\ cache[Len(cache)] \in Q!Items
        /\ Q!LastFirst(cache) = <<cache[Len(cache)]>> \o Q!LastFirst(cache')
    BY <1>1, LastFirstPopped, ZenonT(60) DEF Q!TypeOK
  <1>3. Len(cache') <= CacheCap
    <2>1. Len(cache) \in Nat /\ Len(cache) <= CacheCap
      BY LenProperties DEF Q!TypeOK
    <2> QED BY <1>2, <2>1 DEF SizesOK
  <1>4. /\ Q!LastFirst(cache') \in Seq(Q!Items) /\ data \in Seq(Q!Items) /\ <<cache[Len(cache)]>> \in Seq(Q!Items)
    BY <1>2, LastFirstProperties DEF Q!TypeOK
  <1>5. (<<cache[Len(cache)]>> \o Q!LastFirst(cache')) \o data = <<cache[Len(cache)]>> \o (Q!LastFirst(cache') \o data)
    BY <1>4, ConcatAssociative
  <1>6. Queued = <<cache[Len(cache)]>> \o Queued'
    BY <1>1, <1>2, <1>5 DEF Queued
  <1> QED BY <1>1, <1>2, <1>3, <1>6

\* The first of a queue, as concatenation and as head and tail.
LEMMA HeadTail ==
  ASSUME NEW S, NEW s \in Seq(S), s # <<>>
  PROVE  Head(s) \in S /\ Tail(s) \in Seq(S) /\ s = <<Head(s)>> \o Tail(s)
  <1>1. Head(s) \in S /\ Tail(s) \in Seq(S)
    BY HeadTailProperties
  <1>2. Len(s) \in Nat \ {0}
    BY EmptySeq
  <1>3. 1 \in 1..Len(s) /\ Len(s) \in 1..Len(s)
    BY <1>2
  <1>4. SubSeq(s, 1, Len(s)) = <<s[1]>> \o SubSeq(s, 1 + 1, Len(s))
    BY <1>3, SubSeqRecursiveFirst
  <1>5. SubSeq(s, 1, Len(s)) = s /\ Tail(s) = SubSeq(s, 2, Len(s)) /\ Head(s) = s[1]
    BY SubSeqFull, TailIsSubSeq
  <1> QED BY <1>1, <1>4, <1>5

\* Taking x from the front of the queue q leaves r.
LEMMA Popped ==
  ASSUME NEW S, NEW x \in S, NEW q \in Seq(S), NEW r \in Seq(S), q = <<x>> \o r, NEW g \in Seq(S)
  PROVE  q # <<>> /\ r = Tail(q) /\ Append(g, x) \in Seq(S) /\ g \o q = Append(g, x) \o r
  <1>1. <<x>> \in Seq(S) /\ Len(<<x>>) = 1 /\ <<x>>[1] = x
    OBVIOUS
  <1>2. /\ Len(q) = 1 + Len(r) /\ Len(r) \in Nat
        /\ \A i \in 1..1 + Len(r) : q[i] = IF i <= 1 THEN <<x>>[i] ELSE r[i - 1]
    BY <1>1, ConcatProperties, LenProperties
  <1>3. q # <<>>
    BY <1>2, EmptySeq
  <1>4. /\ Tail(q) \in Seq(S) /\ Len(Tail(q)) = Len(r)
        /\ \A i \in 1..Len(r) : Tail(q)[i] = q[i + 1]
    <2>1. /\ Tail(q) \in Seq(S) /\ Len(Tail(q)) = Len(q) - 1
          /\ \A i \in 1..Len(Tail(q)) : Tail(q)[i] = q[i + 1]
      BY <1>3, HeadTailProperties
    <2> QED BY <1>2, <2>1
  <1>5. \A i \in 1..Len(r) : i + 1 \in 1..1 + Len(r) /\ ~(i + 1 <= 1) /\ (i + 1) - 1 = i
    BY <1>2
  <1>6. \A i \in 1..Len(r) : Tail(q)[i] = r[i]
    <2> SUFFICES ASSUME NEW i \in 1..Len(r) PROVE Tail(q)[i] = r[i]
      OBVIOUS
    <2>1. q[i + 1] = r[(i + 1) - 1]
      BY <1>2, <1>5
    <2> QED BY <1>4, <1>5, <2>1
  <1>7. r = Tail(q)
    BY <1>4, <1>6, SeqEqual
  <1>8. Append(g, x) = g \o <<x>> /\ Append(g, x) \in Seq(S)
    BY AppendIsConcat, AppendProperties
  <1>9. (g \o <<x>>) \o r = g \o (<<x>> \o r)
    BY <1>1, ConcatAssociative
  <1> QED BY <1>3, <1>7, <1>8, <1>9, SMTT(30)

-----------------------------------------------------------------------------
(* The invariant *)

\* The empty queue satisfies the invariant.
LEMMA InitQInv == SizesOK /\ Q!Init => QInv
  <1> SUFFICES ASSUME SizesOK, Q!Init PROVE QInv
    OBVIOUS
  <1>1. <<>> \in Seq(Q!Items) /\ Len(<<>>) = 0
    BY EmptySeq
  <1>2. Q!TypeOK /\ pushed \in Seq(Q!Items) /\ got \in Seq(Q!Items)
    <2>1. data \in Seq(Q!Items) /\ cache \in Seq(Q!Items) /\ pushed \in Seq(Q!Items) /\ got \in Seq(Q!Items)
      BY <1>1 DEF Q!Init
    <2>2. Len(cache) <= CacheCap
      BY <1>1 DEF Q!Init, SizesOK
    <2>3. sent \in [Producers -> 0..NumItems]
      BY DEF Q!Init, SizesOK
    <2> QED BY <2>1, <2>2, <2>3, ZenonT(60) DEF Q!Init, Q!TypeOK
  <1>3. Queued = <<>>
    BY <1>2, QueuedType DEF Q!Init, Q!Drained
  <1>4. Fifo
    BY <1>2, <1>3, ConcatEmptySeq, SMTT(30) DEF Q!Init, Fifo
  <1> QED BY <1>2, <1>4 DEF Q!Init, QInv

\* Every push, close, refill and pop preserves the invariant.
LEMMA NextQInv == SizesOK /\ QInv /\ [Q!Next]_(Q!vars) => QInv'
  <1> SUFFICES ASSUME SizesOK, QInv, [Q!Next]_(Q!vars) PROVE QInv'
    OBVIOUS
  <1> USE DEF QInv
  <1>q. Queued \in Seq(Q!Items) /\ (Queued = <<>> <=> Q!Drained) /\ (cache = <<>> => Queued = data)
    BY QueuedType
  <1>1. ASSUME NEW p \in Producers, Q!push(p) PROVE QInv'
    <2> DEFINE v == <<p, sent[p] + 1>>
    <2>1. /\ v \in Q!Items /\ sent' = [sent EXCEPT ![p] = sent[p] + 1]
          /\ data' = Append(data, v) /\ pushed' = Append(pushed, v) /\ Queued' = Append(Queued, v)
      BY <1>1, PushEffect
    <2>2. /\ sent[p] < NumItems /\ notifying' = notifying \cup {p} /\ cache' = cache
          /\ terminating' = terminating /\ consumer' = consumer /\ closer' = closer /\ got' = got
      BY <1>1 DEF Q!push
    <2> HIDE DEF v
    <2>3. ~terminating
      <3>1. sent[p] \in 0..NumItems
        BY DEF Q!TypeOK
      <3> QED BY <2>2, <3>1 DEF SizesOK
    <2>4. data' \in Seq(Q!Items) /\ pushed' \in Seq(Q!Items)
      BY <2>1, AppendProperties DEF Q!TypeOK
    <2>5. sent' \in [Producers -> 0..NumItems]
      BY <2>1, <2>2 DEF Q!TypeOK, SizesOK
    <2>6. Q!TypeOK'
      BY <2>2, <2>4, <2>5, SMTT(30) DEF Q!TypeOK
    <2>7. Fifo'
      <3>1. <<v>> \in Seq(Q!Items)
        BY <2>1
      <3>2. Append(got \o Queued, v) = (got \o Queued) \o <<v>> /\ Append(Queued, v) = Queued \o <<v>>
        BY <1>q, <2>1, AppendIsConcat, ConcatProperties, SMTT(30)
      <3>3. (got \o Queued) \o <<v>> = got \o (Queued \o <<v>>)
        BY <1>q, <3>1, ConcatAssociative
      <3> QED BY <2>1, <2>2, <3>2, <3>3, ZenonT(60) DEF Fifo
    <2> QED BY <2>2, <2>3, <2>4, <2>6, <2>7, SMTT(30)
  <1>2. ASSUME NEW p \in Producers, Q!notify_one(p) PROVE QInv'
    <2>1. /\ notifying' \subseteq notifying /\ consumer' = Q!Waken(consumer)
          /\ UNCHANGED <<data, cache, terminating, sent, closer, pushed, got>>
      BY <1>2 DEF Q!notify_one
    <2>2. Q!TypeOK' /\ Fifo'
      BY <2>1 DEF Q!TypeOK, Q!Waken, Fifo, Queued
    <2> QED BY <2>1, <2>2 DEF Q!Waken
  <1>3. CASE Q!PopCached
    <2>1. /\ cache' \in Seq(Q!Items) /\ Len(cache') <= CacheCap /\ cache[Len(cache)] \in Q!Items
          /\ got' = Append(got, cache[Len(cache)]) /\ Queued = <<cache[Len(cache)]>> \o Queued'
      BY <1>3, PopCachedEffect
    <2>2. /\ consumer = "pop" /\ UNCHANGED <<data, terminating, sent, notifying, consumer, closer, pushed>>
      BY <1>3 DEF Q!PopCached
    <2>3. Q!TypeOK'
      BY <2>1, <2>2 DEF Q!TypeOK
    <2>4. Queued' \in Seq(Q!Items)
      <3>1. Q!LastFirst(cache') \in Seq(Q!Items) /\ data' \in Seq(Q!Items)
        BY <2>1, <2>2, LastFirstProperties, SMTT(30) DEF Q!TypeOK
      <3> QED BY <3>1, ConcatProperties DEF Queued
    <2>5. got' \in Seq(Q!Items) /\ got \o Queued = got' \o Queued'
      <3>1. PICK v \in Q!Items : got' = Append(got, v) /\ Queued = <<v>> \o Queued'
        BY <2>1, ZenonT(60)
      <3> QED BY <1>q, <2>4, <3>1, Popped, SMTT(30)
    <2> QED BY <2>2, <2>3, <2>5 DEF Fifo
  <1>4. CASE Q!PopLocked /\ data = <<>>
    <2>1. /\ consumer' = IF terminating THEN "end" ELSE "asleep"
          /\ UNCHANGED <<data, cache, got, terminating, sent, notifying, closer, pushed>>
          /\ cache = <<>>
      BY <1>4 DEF Q!PopLocked
    <2>2. Q!TypeOK' /\ Fifo'
      BY <2>1 DEF Q!TypeOK, Fifo, Queued
    <2> QED BY <1>4, <2>1, <2>2
  <1>5. CASE Q!PopLocked /\ data # <<>>
    <2>1. /\ Q!Refill /\ consumer' = "pop" /\ UNCHANGED <<terminating, sent, notifying, closer, pushed>>
          /\ cache = <<>> /\ consumer \in {"woken", "pop"}
      BY <1>5 DEF Q!PopLocked
    <2>2. /\ cache' \in Seq(Q!Items) /\ Len(cache') <= CacheCap /\ data' \in Seq(Q!Items)
          /\ Head(data) \in Q!Items /\ got' = Append(got, Head(data)) /\ Queued' = Tail(data)
      BY <1>5, <2>1, RefillProperties, SMTT(30)
    <2>3. Q!TypeOK'
      BY <2>1, <2>2 DEF Q!TypeOK
    <2>4. Tail(data) \in Seq(Q!Items) /\ data = <<Head(data)>> \o Tail(data)
      BY <1>5, HeadTail DEF Q!TypeOK
    <2>5. got' \in Seq(Q!Items) /\ got \o Queued = got' \o Queued'
      BY <1>q, <2>1, <2>2, <2>4, Popped, SMTT(30)
    <2> QED BY <2>1, <2>3, <2>5 DEF Fifo
  <1>6. CASE Q!PopEnd
    <2>1. /\ consumer = "end" /\ consumer' = "done" /\ closer' = Q!Waken(closer)
          /\ UNCHANGED <<data, cache, terminating, sent, notifying, pushed, got>>
      BY <1>6 DEF Q!PopEnd
    <2>2. Q!TypeOK' /\ Fifo'
      BY <2>1 DEF Q!TypeOK, Q!Waken, Fifo, Queued
    <2> QED BY <2>1, <2>2 DEF Q!Waken
  <1>7. CASE Q!close
    <2>1. /\ \A p \in Producers : sent[p] = NumItems
          /\ terminating' = TRUE /\ consumer' = Q!Waken(consumer) /\ closer' \in {"closed", "asleep"}
          /\ UNCHANGED <<data, cache, sent, notifying, pushed, got>>
      BY <1>7 DEF Q!close
    <2>2. Q!TypeOK' /\ Fifo'
      BY <2>1 DEF Q!TypeOK, Q!Waken, Fifo, Queued
    <2> QED BY <2>1, <2>2 DEF Q!Waken
  <1>8. CASE Q!CloseWoken
    <2>1. /\ closer = "woken" /\ closer' \in {"closed", "asleep"}
          /\ UNCHANGED <<data, cache, terminating, sent, notifying, consumer, pushed, got>>
      BY <1>8 DEF Q!CloseWoken
    <2>2. Q!TypeOK' /\ Fifo'
      BY <2>1 DEF Q!TypeOK, Fifo, Queued
    <2> QED BY <2>1, <2>2
  <1>9. CASE Q!SpuriousWakeup
    <2>1. /\ \/ consumer = "asleep" /\ consumer' = "woken" /\ closer' = closer
             \/ closer = "asleep" /\ closer' = "woken" /\ consumer' = consumer
          /\ UNCHANGED <<data, cache, terminating, sent, notifying, pushed, got>>
      BY <1>9 DEF Q!SpuriousWakeup
    <2>2. Q!TypeOK' /\ Fifo'
      BY <2>1 DEF Q!TypeOK, Fifo, Queued
    <2> QED BY <2>1, <2>2
  <1>10. CASE UNCHANGED Q!vars
    <2>1. Q!TypeOK' /\ Fifo'
      BY <1>10 DEF Q!vars, Q!TypeOK, Fifo, Queued
    <2> QED BY <1>10, <2>1 DEF Q!vars
  <1> QED BY <1>1, <1>2, <1>3, <1>4, <1>5, <1>6, <1>7, <1>8, <1>9, <1>10, ZenonT(60)
          DEF Q!Next, Q!Producing, Q!Consuming, Q!Closing

-----------------------------------------------------------------------------
(* The channel *)

\* A step of a producer or of the consumer sends, receives, closes or
\* stutters in the channel.
LEMMA StepQueue == SizesOK /\ QInv /\ [Q!Next]_(Q!vars) => [Q!Chan!Next]_(Q!Chan!chanVars)
  <1> SUFFICES ASSUME SizesOK, QInv, [Q!Next]_(Q!vars) PROVE [Q!Chan!Next]_(Q!Chan!chanVars)
    OBVIOUS
  <1> USE DEF QInv
  <1> DEFINE Same == UNCHANGED <<Queued, terminating, closer = "closed", consumer = "done">>
  <1>q. Queued \in Seq(Q!Items) /\ (Queued = <<>> <=> Q!Drained) /\ (cache = <<>> => Queued = data)
    BY QueuedType
  <1>s. Same => UNCHANGED Q!Chan!chanVars
    BY DEF Q!Chan!chanVars, Queued
  <1>1. ASSUME NEW p \in Producers, Q!push(p) PROVE Q!Chan!Next
    <2> DEFINE v == <<p, sent[p] + 1>>
    <2>1. v \in Q!Items /\ Queued' = Append(Queued, v)
      BY <1>1, PushEffect
    <2>2. sent[p] < NumItems /\ UNCHANGED <<terminating, consumer, closer>>
      BY <1>1 DEF Q!push
    <2>3. ~terminating
      <3>1. sent[p] \in 0..NumItems
        BY DEF Q!TypeOK
      <3> QED BY <2>2, <3>1 DEF SizesOK
    <2> HIDE DEF v
    <2>4. Q!Chan!Push(v)
      BY <2>1, <2>2, <2>3, SMTT(30) DEF Q!Chan!Push, Queued
    <2> QED BY <2>1, <2>4 DEF Q!Chan!Next
  <1>2. ASSUME NEW p \in Producers, Q!notify_one(p) PROVE Same
    BY <1>2 DEF Q!notify_one, Q!Waken, Queued
  <1>3. CASE Q!PopCached
    <2>1. cache[Len(cache)] \in Q!Items /\ Queued = <<cache[Len(cache)]>> \o Queued' /\ cache' \in Seq(Q!Items)
      BY <1>3, PopCachedEffect
    <2>2. UNCHANGED <<data, terminating, consumer, closer>>
      BY <1>3, SMTT(30) DEF Q!PopCached
    <2>3. Queued' \in Seq(Q!Items)
      <3>1. Q!LastFirst(cache') \in Seq(Q!Items) /\ data' \in Seq(Q!Items)
        BY <2>1, <2>2, LastFirstProperties, SMTT(30) DEF Q!TypeOK
      <3> QED BY <3>1, ConcatProperties DEF Queued
    <2>4. Queued # <<>> /\ Queued' = Tail(Queued)
      BY <1>q, <2>1, <2>3, Popped, SMTT(30)
    <2>5. Q!Chan!Pop
      BY <2>2, <2>4 DEF Q!Chan!Pop, Queued
    <2> QED BY <2>5 DEF Q!Chan!Next
  <1>4. CASE Q!PopLocked /\ data = <<>>
    <2>1. Same
      BY <1>4, ZenonT(60) DEF Q!PopLocked, Queued
    <2> QED BY <1>s, <2>1
  <1>5. CASE Q!PopLocked /\ data # <<>>
    <2>1. /\ Q!Refill /\ consumer' = "pop" /\ UNCHANGED <<terminating, closer>>
          /\ cache = <<>> /\ consumer \in {"woken", "pop"}
      BY <1>5 DEF Q!PopLocked
    <2>2. Queued' = Tail(data)
      BY <1>5, <2>1, RefillProperties
    <2>3. Q!Chan!Pop
      BY <1>5, <1>q, <2>1, <2>2, SMTT(30) DEF Q!Chan!Pop, Queued
    <2> QED BY <2>3 DEF Q!Chan!Next
  <1>6. CASE Q!PopEnd
    <2>1. /\ consumer = "end" /\ consumer' = "done" /\ closer' = Q!Waken(closer)
          /\ UNCHANGED <<data, cache, terminating>> /\ Queued = <<>> /\ terminating
      BY <1>6, <1>q DEF Q!PopEnd, Q!Drained
    <2>2. Q!Chan!End
      BY <2>1 DEF Q!Chan!End, Queued, Q!Waken
    <2> QED BY <2>2 DEF Q!Chan!Next
  <1>7. CASE Q!close
    <2>1. /\ closer = "open" /\ terminating' = TRUE /\ consumer' = Q!Waken(consumer)
          /\ closer' = IF Q!Drained THEN "closed" ELSE "asleep"
          /\ UNCHANGED <<data, cache>>
      BY <1>7 DEF Q!close
    <2>2. (closer' = "closed") \in {FALSE, Queued = <<>>}
      BY <1>q, <2>1, ZenonT(60)
    <2>3. Q!Chan!Close
      BY <2>1, <2>2, ZenonT(60) DEF Q!Chan!Close, Queued, Q!Waken
    <2> QED BY <2>3 DEF Q!Chan!Next
  <1>8. CASE Q!CloseWoken
    <2>1. /\ closer = "woken" /\ closer' = IF Q!Drained THEN "closed" ELSE "asleep"
          /\ UNCHANGED <<data, cache, terminating, consumer>>
      BY <1>8 DEF Q!CloseWoken
    <2>2. CASE Q!Drained
      <3>1. Q!Chan!Closed
        BY <1>q, <2>1, <2>2, SMTT(30) DEF Q!Chan!Closed, Queued
      <3> QED BY <3>1 DEF Q!Chan!Next
    <2>3. CASE ~Q!Drained
      <3>1. Same
        BY <2>1, <2>3, SMTT(30) DEF Queued
      <3> QED BY <1>s, <3>1
    <2> QED BY <2>2, <2>3
  <1>9. CASE Q!SpuriousWakeup
    <2>1. Same
      BY <1>9 DEF Q!SpuriousWakeup, Queued
    <2> QED BY <1>s, <2>1
  <1>10. CASE UNCHANGED Q!vars
    <2>1. Same
      BY <1>10 DEF Q!vars, Queued
    <2> QED BY <1>s, <2>1
  <1> QED BY <1>1, <1>2, <1>3, <1>4, <1>5, <1>6, <1>7, <1>8, <1>9, <1>10, <1>s, SMTT(30)
          DEF Q!Next, Q!Producing, Q!Consuming, Q!Closing

\* AsyncQueueSPSC, whatever its producers, items and cache: nothing pushed is
\* lost, popped twice or popped out of order.
THEOREM QueueFifo ==
  ASSUME SizesOK
  PROVE  Q!Spec => [](Q!TypeOK /\ Fifo)
  <1>1. QInv => Q!TypeOK /\ Fifo
    BY DEF QInv
  <1> QED BY <1>1, InitQInv, NextQInv, PTL DEF Q!Spec

\* push(), pop() and close(), with the cache, the notifications and the
\* wake-ups, are steps of a closable channel: close() returns, and pop()
\* reports the end, only when all that was pushed is out.
THEOREM ChannelRefinement ==
  ASSUME SizesOK
  PROVE  Q!Spec => Q!Chan!Spec
  <1>1. Q!Init => Q!Chan!Init
    <2> SUFFICES ASSUME Q!Init PROVE Q!Chan!Init
      OBVIOUS
    <2>1. Q!LastFirst(cache) \o data = <<>>
      <3>1. QInv
        BY InitQInv
      <3> QED BY <3>1, QueuedType DEF QInv, Queued, Q!Init, Q!Drained
    <2> QED BY <2>1 DEF Q!Init, Q!Chan!Init
  <1> QED BY <1>1, InitQInv, NextQInv, StepQueue, PTL DEF Q!Spec, Q!Chan!Spec
=============================================================================
