----------------------------- MODULE MCPlatform -----------------------------
(***************************************************************************)
(* The threads and queues everything else runs on: the thread pool, the    *)
(* queue between pipelines, the OLTP worker pool under the call orders of  *)
(* the applications, the blocks of a GPU, the memory of the OLTP engine's  *)
(* versions, and the transactions of TPC-C.  The components share no state, *)
(* so that a behaviour exercises one of them.                              *)
(***************************************************************************)
EXTENDS ThreadPool

CONSTANTS a,      \* a task
          p1, p2, \* producers of the queue
          u1, u2  \* threads that take blocks of a GPU

\* A pipeline: one task waits for all the others.
Pipeline == [x \in Tasks |-> IF x = a THEN Tasks \ {a} ELSE {}]

\* bench-runner: start, wait, shut down.  ch-bench: a first snapshot before it.
Benchmarks == { <<"start", "shutdown">>, <<"snapshot", "start", "shutdown">> }

\* bench-runner with elastic workers, and with a snapshot while they run.
ElasticScripts ==
  { <<"start", "add", "remove", "shutdown">>,
    <<"snapshot", "start", "add", "shutdown">>,
    <<"start", "snapshot", "shutdown">> }

AllScripts == Benchmarks \cup ElasticScripts

VARIABLE pick \* the component a behaviour exercises; the others stay as they start

VARIABLES q_data, q_cache, q_terminating, q_sent, q_unnotified, q_consumer, q_closer,
          q_pushed, q_got

q_vars == <<q_data, q_cache, q_terminating, q_sent, q_unnotified, q_consumer, q_closer,
            q_pushed, q_got>>

Q == INSTANCE AsyncQueue WITH
  Producers <- {p1, p2}, NumItems <- 3, CacheCap <- 2, data <- q_data,
  cache <- q_cache, terminating <- q_terminating, sent <- q_sent,
  unnotified <- q_unnotified, consumer <- q_consumer, closer <- q_closer,
  pushed <- q_pushed, got <- q_got

VARIABLES wp_app, wp_script, wp_created, wp_size, wp_started, wp_pre_barrier,
          wp_post_barrier, wp_pc, wp_state, wp_terminate, wp_pause, wp_iters, wp_visit,
          wp_early

wp_vars == <<wp_app, wp_script, wp_created, wp_size, wp_started, wp_pre_barrier,
             wp_post_barrier, wp_pc, wp_state, wp_terminate, wp_pause, wp_iters,
             wp_visit, wp_early>>

W == INSTANCE WorkerPool WITH
  N <- 2, Hot <- 1, NumIters <- 1, Scripts <- AllScripts, app <- wp_app,
  script <- wp_script, created <- wp_created, size <- wp_size, started <- wp_started,
  pre_barrier <- wp_pre_barrier, post_barrier <- wp_post_barrier, pc <- wp_pc,
  state <- wp_state, terminate <- wp_terminate, pause <- wp_pause, iters <- wp_iters,
  visit <- wp_visit, early <- wp_early

VARIABLES ws_app, ws_script, ws_created, ws_size, ws_started, ws_pre_barrier,
          ws_post_barrier, ws_pc, ws_state, ws_terminate, ws_pause, ws_iters, ws_visit,
          ws_early

ws_vars == <<ws_app, ws_script, ws_created, ws_size, ws_started, ws_pre_barrier,
             ws_post_barrier, ws_pc, ws_state, ws_terminate, ws_pause, ws_iters,
             ws_visit, ws_early>>

V == INSTANCE WorkerPool WITH
  N <- 3, Hot <- 0, NumIters <- 0, Scripts <- Benchmarks, app <- ws_app,
  script <- ws_script, created <- ws_created, size <- ws_size, started <- ws_started,
  pre_barrier <- ws_pre_barrier, post_barrier <- ws_post_barrier, pc <- ws_pc,
  state <- ws_state, terminate <- ws_terminate, pause <- ws_pause, iters <- ws_iters,
  visit <- ws_visit, early <- ws_early

VARIABLES bm_pool, bm_stack, bm_stage, bm_kernels, bm_user, bm_manager, bm_destroyer,
          bm_terminating, bm_overlapped

bm_vars == <<bm_pool, bm_stack, bm_stage, bm_kernels, bm_user, bm_manager,
             bm_destroyer, bm_terminating, bm_overlapped>>

B == INSTANCE BufferManager WITH
  Users <- {u1, u2}, MaxHeld <- 9, NumBlocks <- 12, StageSize <- 4, Keep <- 5,
  pool <- bm_pool, stack <- bm_stack, stage <- bm_stage, kernels <- bm_kernels,
  user <- bm_user, manager <- bm_manager, destroyer <- bm_destroyer,
  terminating <- bm_terminating, overlapped <- bm_overlapped

VARIABLES dp_ver_data_cursor, dp_touched, dp_ptr, dp_remaining_slack, dp_pc, dp_want,
          dp_inside, dp_ready, dp_resetting, dp_chunks, dp_failed, dp_oversized,
          dp_raced

dp_vars == <<dp_ver_data_cursor, dp_touched, dp_ptr, dp_remaining_slack, dp_pc,
             dp_want, dp_inside, dp_ready, dp_resetting, dp_chunks, dp_failed,
             dp_oversized, dp_raced>>

D == INSTANCE DeltaPartition WITH
  Threads <- {1, 2}, Sizes <- {2, 4}, InitSize <- 1, slack_size <- 3, Capacity <- 6,
  MaxDebt <- 0, ver_data_cursor <- dp_ver_data_cursor, touched <- dp_touched,
  ptr <- dp_ptr, remaining_slack <- dp_remaining_slack, pc <- dp_pc, want <- dp_want,
  inside <- dp_inside, ready <- dp_ready, resetting <- dp_resetting,
  chunks <- dp_chunks, failed <- dp_failed, oversized <- dp_oversized,
  raced <- dp_raced

VARIABLES tc_total_order, tc_db, tc_locks, tc_orders, tc_new_orders, tc_order_lines,
          tc_clock, tc_pc, tc_q, tc_ts, tc_ol_number, tc_o_id, tc_booked, tc_overtaken

tc_vars == <<tc_total_order, tc_db, tc_locks, tc_orders, tc_new_orders, tc_order_lines,
             tc_clock, tc_pc, tc_q, tc_ts, tc_ol_number, tc_o_id, tc_booked,
             tc_overtaken>>

C == INSTANCE TPCC WITH
  Workers <- {0, 1, 2}, num_warehouse <- 2, TpchOrders <- {0, 1, 4},
  TPCC_NDIST_PER_WH <- 1, TPCC_NCUST_PER_DIST <- 1, TPCC_MAX_ITEMS <- 2,
  TPCC_MAX_OL_PER_ORDER <- 1,
  Mix <- {"NEW_ORDER", "PAYMENT", "ORDER_STATUS", "DELIVERY", "STOCK_LEVEL"},
  tpcc_dist_txns <- TRUE, index_on_order_tbl <- TRUE, Quantities <- {4},
  Amounts <- {1}, MinLines <- 1, MaxTxns <- 2, total_order <- tc_total_order,
  db <- tc_db, locks <- tc_locks, orders <- tc_orders, new_orders <- tc_new_orders,
  order_lines <- tc_order_lines, clock <- tc_clock, pc <- tc_pc, q <- tc_q,
  ts <- tc_ts, ol_number <- tc_ol_number, o_id <- tc_o_id, booked <- tc_booked,
  overtaken <- tc_overtaken

sumVars == <<pick, vars, q_vars, wp_vars, ws_vars, bm_vars, dp_vars, tc_vars>>

SumInit ==
  /\ pick \in {"threads", "queue", "workers", "shutdown", "buffers", "partition",
               "tpcc"}
  /\ Init /\ Q!Init /\ W!Init /\ V!Init /\ B!Init /\ D!Init /\ C!Init
  /\ pick # "workers" => wp_script = <<"start", "shutdown">>
  /\ pick # "shutdown" => ws_script = <<"start", "shutdown">>
  /\ pick # "tpcc" => tc_total_order = 0

ThreadsRuns ==
  /\ pick = "threads" /\ Next
  /\ UNCHANGED <<pick, q_vars, wp_vars, ws_vars, bm_vars, dp_vars, tc_vars>>

QueueRuns ==
  /\ pick = "queue" /\ Q!Next
  /\ UNCHANGED <<pick, vars, wp_vars, ws_vars, bm_vars, dp_vars, tc_vars>>

WorkersRuns ==
  /\ pick = "workers" /\ W!Next
  /\ UNCHANGED <<pick, vars, q_vars, ws_vars, bm_vars, dp_vars, tc_vars>>

ShutdownRuns ==
  /\ pick = "shutdown" /\ V!Next
  /\ UNCHANGED <<pick, vars, q_vars, wp_vars, bm_vars, dp_vars, tc_vars>>

BuffersRuns ==
  /\ pick = "buffers" /\ B!Next
  /\ UNCHANGED <<pick, vars, q_vars, wp_vars, ws_vars, dp_vars, tc_vars>>

PartitionRuns ==
  /\ pick = "partition" /\ D!Next
  /\ UNCHANGED <<pick, vars, q_vars, wp_vars, ws_vars, bm_vars, tc_vars>>

TpccRuns ==
  /\ pick = "tpcc" /\ C!Next
  /\ UNCHANGED <<pick, vars, q_vars, wp_vars, ws_vars, bm_vars, dp_vars>>

SumNext == ThreadsRuns \/ QueueRuns \/ WorkersRuns \/ ShutdownRuns \/ BuffersRuns \/ PartitionRuns \/ TpccRuns

\* The fairness of the component that runs, as its module states it.
SumSpec ==
  /\ SumInit /\ [][SumNext]_sumVars
  /\ \A t \in Threads : SF_vars(pick = "threads" /\ Lock(t))
  /\ \A t \in Threads : SF_vars(pick = "threads" /\ Relock(t))
  /\ \A t \in Threads : WF_vars(pick = "threads" /\ (Check(t) \/ Block(t) \/ Take(t) \/ Finish(t)))
  /\ WF_vars(pick = "threads" /\ Notify)
  /\ WF_vars(pick = "threads" /\ OwnerStep)
  /\ \A p \in {p1, p2} : WF_q_vars(pick = "queue" /\ (Q!push(p) \/ Q!notify_one(p)))
  /\ WF_q_vars(pick = "queue" /\ Q!Consuming)
  /\ WF_q_vars(pick = "queue" /\ Q!Closing)
  /\ WF_ws_vars(pick = "shutdown" /\ ~V!Failed /\ V!AppStep)
  /\ \A a0 \in {"app", "worker0"} : WF_ws_vars(pick = "shutdown" /\ ~V!Failed /\ V!SnapshotStep(a0))
  /\ \A i \in V!Workers : WF_ws_vars(pick = "shutdown" /\ ~V!Failed /\ V!WorkerStep(i))
  /\ WF_bm_vars(pick = "buffers" /\ ~bm_overlapped /\ B!KernelStep)
  /\ WF_bm_vars(pick = "buffers" /\ ~bm_overlapped /\ B!ManagerStep)
  /\ \A u \in {u1, u2} : WF_bm_vars(pick = "buffers" /\ ~bm_overlapped /\ (B!launchRelease(u) \/ B!retryTrim(u)))

-----------------------------------------------------------------------------
\* The queue with its cache, its two condition variables and its closing
\* handshake is a closable FIFO channel (async_containers.hpp:129-203): nothing
\* is lost or reordered, and close() returns when everything was popped.
ImplementsChannel ==
  /\ Q!ImplementsChannel

\* A worker runs transactions only after the workers created before it have loaded
\* their data. When no worker slipped through the barrier while the pool was being
\* created, it waits for all of init, and no snapshot is taken while a worker of init
\* runs; a worker added later may run then (worker.cpp:38-135, worker-pool.cpp:346-375).
WorkersInPhase ==
  /\ W!TypeOK
  /\ W!LoadedInTurn
  /\ W!LoadedBeforeRunning
  /\ W!SnapshotQuiesced

\* As long as no refill met an overflow or another in the staging array, which
\* nothing prevents, the blocks of a GPU are neither lost nor handed out twice; its
\* pool outgrows keep_threshold by one refill at most, which is more than destroy()
\* asserts (buffer-manager.cu:98-133, 622, 703-747).
BlocksConserved ==
  /\ B!BufferTypeOK
  /\ B!BlocksConserved
  /\ B!PoolBounded

\* The versions handed out from a partition of a delta store since its last reset lie
\* apart and in its memory, unless one was larger than a slab or a thread was set up
\* during a reset (delta_storage.cpp:389-425, delta_storage.hpp:238-253).
VersionsApart ==
  /\ D!VersionsApart

\* The ids drawn in a district follow one another, each for one order with all its
\* lines, unless an older transaction wrote to the district after a younger one; with
\* the orders loaded they are complete, and lookups succeed, just when as many orders
\* were loaded as d_next_o_id says (txn.cpp:130-478, tpcc_64.cpp:673, 773-779).
OrdersConsistent ==
  /\ C!OrdersConsistent

\* A stock row records what the orders sold of it, unless an older transaction wrote
\* it after a younger one (txn.cpp:209-239).
StockBooked ==
  /\ C!StockBooked

\* The thread pool runs every task, both sides of the queue finish, shutdown
\* joins the workers of the benchmarks, and a GPU's pool is refilled as long as no two
\* transfers met in its staging array; the end of destroy() is not promised.
EveryoneFinishes ==
  /\ (pick = "threads" => AllTasksRun)
  /\ (pick = "queue" => Q!BothSidesFinish)
  /\ (pick = "shutdown" => V!ShutdownCompletes)
  /\ (pick = "buffers" => B!PoolRefilled)
=============================================================================
