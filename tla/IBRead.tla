------------------------------- MODULE IBRead -------------------------------
(***************************************************************************)
(* Remote reads of an InfiniBand handler.  A read creates a promise and    *)
(* posts a work request; only every SignalEvery-th read, or a flush, asks  *)
(* for a completion, and the completion fulfils as many promises as its    *)
(* work request id says, in the order the promises were created.  A        *)
(* fulfilled promise gives the remote block back, RelBatch at a time.      *)
(***************************************************************************)
EXTENDS Integers, Sequences, FiniteSets, Functions

CONSTANTS Readers,     \* threads calling read()
          Quota,       \* reads of each
          SignalEvery, \* 64 in the code
          RelBatch     \* released blocks per message, 128 in the code

Flusher == "flusher"
None == 0

\* Every thread reads twice.
Twice == [t \in Readers |-> 2]

VARIABLES reads,     \* reads since the last signalled request
          promises,  \* read_promises: TRUE once published
          thr,       \* threads: pc, promise in hand, signalled count in hand, reads left
          posted,    \* requests posted: promise read (None: a flush) and count signalled
          landed,    \* promises whose data is here
          signalled, \* IBV_WC_RDMA_READ_cnt: promises covered by polled completions
          tasks,     \* fulfilment tasks on the thread pool: first promise and count
          released,  \* blocks waiting for a full release message
          freed      \* blocks the remote server got back

vars == <<reads, promises, thr, posted, landed, signalled, tasks, released, freed>>

Threads == Readers \cup {Flusher}
NumReads == SumFunction(Quota)

Init ==
  /\ reads = 0 /\ promises = <<>>
  /\ thr = [t \in Threads |-> [pc |-> "idle", promise |-> None, count |-> 0,
                               left |-> IF t = Flusher THEN 0 ELSE Quota[t]]]
  /\ posted = <<>> /\ landed = {} /\ signalled = 0 /\ tasks = {}
  /\ released = <<>> /\ freed = {}

\* read(), in the critical section of read_promises_m.
read(t) ==
  /\ thr[t].pc = "idle" /\ thr[t].left > 0
  /\ LET rid == reads + 1
         signal == rid % SignalEvery = 0
     IN /\ reads' = IF signal THEN 0 ELSE rid
        /\ thr' = [thr EXCEPT ![t] = [pc |-> "post", promise |-> Len(promises) + 1,
                                      count |-> IF signal THEN rid ELSE 0, left |-> @.left - 1]]
  /\ promises' = Append(promises, FALSE)
  /\ UNCHANGED <<posted, landed, signalled, tasks, released, freed>>

\* flush_read(), by the flusher or by a reader that waits: exchange(0) takes
\* the pending count under the lock.
flush_read(t) ==
  /\ thr[t].pc = "idle" /\ reads > 0
  /\ thr' = [thr EXCEPT ![t].pc = "post", ![t].promise = None, ![t].count = reads]
  /\ reads' = 0
  /\ UNCHANGED <<promises, posted, landed, signalled, tasks, released, freed>>

\* The request is posted after the lock was dropped.
post(t) ==
  /\ thr[t].pc = "post"
  /\ posted' = Append(posted, [promise |-> thr[t].promise, count |-> thr[t].count])
  /\ thr' = [thr EXCEPT ![t].pc = "idle", ![t].promise = None, ![t].count = 0]
  /\ UNCHANGED <<reads, promises, landed, signalled, tasks, released, freed>>

\* Requests complete in order; a signalled one is polled and its promises are
\* fulfilled by a task of the thread pool.
complete ==
  LET wr == Head(posted) IN
  /\ posted # <<>>
  /\ posted' = Tail(posted)
  /\ landed' = landed \cup ({wr.promise} \ {None})
  /\ IF wr.count = 0
       THEN UNCHANGED <<signalled, tasks>>
       ELSE /\ tasks' = tasks \cup {[start |-> signalled, count |-> wr.count]}
            /\ signalled' = signalled + wr.count
  /\ UNCHANGED <<reads, promises, thr, released, freed>>

\* release_buffer: a release message leaves with every RelBatch-th block.
release_buffer(blocks) ==
  LET all == released \o blocks
      sent == Len(all) - (Len(all) % RelBatch)
  IN /\ released' = SubSeq(all, sent + 1, Len(all))
     /\ freed' = freed \cup {all[i] : i \in 1 .. sent}

fulfilOne(k) ==
  /\ promises' = [promises EXCEPT ![k.start + 1] = TRUE]
  /\ tasks' = tasks \ {k}
  /\ release_buffer([i \in 1 .. k.count |-> k.start + i])
  /\ UNCHANGED <<reads, thr, posted, landed, signalled>>

\* The task publishes its promises and releases the blocks they were read from.
fulfil(k) ==
  /\ promises' = [p \in 1 .. Len(promises) |-> promises[p] \/ p \in k.start + 1 .. k.start + k.count]
  /\ tasks' = tasks \ {k}
  /\ release_buffer([i \in 1 .. k.count |-> k.start + i])
  /\ UNCHANGED <<reads, thr, posted, landed, signalled>>

Next == \/ \E t \in Readers : read(t)
        \/ \E t \in Threads : flush_read(t) \/ post(t)
        \/ complete \/ \E k \in tasks : fulfil(k)

Spec == Init /\ [][Next]_vars

\* The flusher flushes every 10 ms, posted requests complete and tasks run.
FairSpec == /\ Spec /\ WF_vars(complete) /\ WF_vars(\E k \in tasks : fulfil(k))
            /\ WF_vars(flush_read(Flusher))
            /\ \A t \in Readers : WF_vars(read(t))
            /\ \A t \in Threads : WF_vars(post(t))

----------------------------------------------------------------------------
\* Properties.

\* Promises are accounted for: pending ones, those a thread is about to signal,
\* those posted and those polled add up to the promises created, so that a
\* completion never fulfils a promise that does not exist.
PromisesCounted ==
  LET Sum(f, S) == IF S = {} THEN 0
                   ELSE Cardinality(UNION {{x} \X (1 .. f[x]) : x \in S})
  IN Len(promises) = reads + signalled
       + Sum([t \in Threads |-> thr[t].count], Threads)
       + Sum([i \in 1 .. Len(posted) |-> posted[i].count], 1 .. Len(posted))

\* A remote block goes back to its server only when the promise that read it
\* has been published, however completions and release messages interleave.
FreedAfterPublish == \A p \in freed \cup {released[i] : i \in 1 .. Len(released)} : p <= Len(promises) /\ promises[p]

\* Every read is eventually published: the flusher signals the tail that no
\* read signals.
ReadsFinish == <>[](Len(promises) = NumReads /\ \A p \in 1 .. NumReads : promises[p])

\* "Wait on the subscription to block until the results are ready"
\* (infiniband-handler.hpp:269): a published promise has its data.
ResultsReady == \A p \in 1 .. Len(promises) : promises[p] => p \in landed
=============================================================================
