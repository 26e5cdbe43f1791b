----------------------------- MODULE MCExchange -----------------------------
(***************************************************************************)
(* Data exchange between the pipelines of a query: router, scale-out       *)
(* router, memory moves, and the InfiniBand connection underneath.  The    *)
(* components share no state, so that a behaviour exercises one of them.   *)
(***************************************************************************)
EXTENDS Router, TLC

CONSTANTS p1, p2, \* producers of the router
          w1,     \* the thread that writes to the connection
          r1, r2, \* the threads that read through it
          MoveBlocks,     \* blocks of the memory moves
          ScaleOutTuples  \* tuples per server and query of the scale-out router

\* One producer routes more tuples than a target has buffers.
RouterQuota == (p1 :> 2) @@ (p2 :> 1)
ReaderQuota == (r1 :> 2) @@ (r2 :> 1)

VARIABLE pick \* the component a behaviour exercises; the others stay as they start

VARIABLES so_main, so_firer, so_receiver, so_free, so_fifo, so_closed, so_sub, so_wire,
          so_blocks, so_consumed

so_vars == <<so_main, so_firer, so_receiver, so_free, so_fifo, so_closed, so_sub,
             so_wire, so_blocks, so_consumed>>

S == INSTANCE RouterScaleOut WITH
  Slack <- 1, PerRound <- ScaleOutTuples, Rounds <- 2, main <- so_main,
  firer <- so_firer, receiver <- so_receiver, free <- so_free, fifo <- so_fifo,
  closed <- so_closed, sub <- so_sub, wire <- so_wire, blocks <- so_blocks,
  consumed <- so_consumed

VARIABLES mm_mode, mm_refs, mm_content, mm_issued, mm_pending, mm_idle, mm_tran,
          mm_cache, mm_main, mm_catcher, mm_seen

mm_vars == <<mm_mode, mm_refs, mm_content, mm_issued, mm_pending, mm_idle, mm_tran,
             mm_cache, mm_main, mm_catcher, mm_seen>>

M == INSTANCE MemMove WITH
  Blocks <- MoveBlocks, NumTargets <- 3, NumaNodes <- 2, Slack <- 2, NumInputs <- 2,
  mode <- mm_mode, refs <- mm_refs, content <- mm_content, issued <- mm_issued,
  pending <- mm_pending, idle <- mm_idle, tran <- mm_tran, cache <- mm_cache,
  main <- mm_main, catcher <- mm_catcher, seen <- mm_seen

VARIABLES ib_lock, ib_thr, ib_batch, ib_actual, ib_pend, ib_requested, ib_requests,
          ib_toB, ib_toA, ib_promises, ib_completed, ib_grants, ib_offered, ib_nextBuf,
          ib_mem, ib_written, ib_published, ib_silent, ib_said, ib_bye, ib_polling

ib_vars == <<ib_lock, ib_thr, ib_batch, ib_actual, ib_pend, ib_requested, ib_requests,
             ib_toB, ib_toA, ib_promises, ib_completed, ib_grants, ib_offered,
             ib_nextBuf, ib_mem, ib_written, ib_published, ib_silent, ib_said, ib_bye,
             ib_polling>>

I == INSTANCE InfiniBand WITH
  Writers <- {w1}, NumWrites <- 3, BuffNum <- 5, Pack <- 2, lock <- ib_lock,
  thr <- ib_thr, batch <- ib_batch, actual <- ib_actual, pend <- ib_pend,
  requested <- ib_requested, requests <- ib_requests, toB <- ib_toB, toA <- ib_toA,
  promises <- ib_promises, completed <- ib_completed, grants <- ib_grants,
  offered <- ib_offered, nextBuf <- ib_nextBuf, mem <- ib_mem, written <- ib_written,
  published <- ib_published, silent <- ib_silent, said <- ib_said, bye <- ib_bye,
  polling <- ib_polling

VARIABLES rd_reads, rd_promises, rd_thr, rd_posted, rd_landed, rd_signalled, rd_tasks,
          rd_released, rd_freed

rd_vars == <<rd_reads, rd_promises, rd_thr, rd_posted, rd_landed, rd_signalled,
             rd_tasks, rd_released, rd_freed>>

R == INSTANCE IBRead WITH
  Readers <- {r1, r2}, Quota <- ReaderQuota, SignalEvery <- 3, RelBatch <- 2,
  reads <- rd_reads, promises <- rd_promises, thr <- rd_thr, posted <- rd_posted,
  landed <- rd_landed, signalled <- rd_signalled, tasks <- rd_tasks,
  released <- rd_released, freed <- rd_freed

sumVars == <<pick, vars, so_vars, mm_vars, ib_vars, rd_vars>>

SumInit ==
  /\ pick \in {"router", "scaleout", "memmove", "infiniband", "ibread"}
  /\ Init /\ S!Init /\ M!Init /\ I!Init /\ R!Init
  /\ pick # "memmove" => mm_mode = "move"

RouterRuns ==
  /\ pick = "router" /\ Next
  /\ UNCHANGED <<pick, so_vars, mm_vars, ib_vars, rd_vars>>

ScaleoutRuns ==
  /\ pick = "scaleout" /\ S!Next
  /\ UNCHANGED <<pick, vars, mm_vars, ib_vars, rd_vars>>

MemmoveRuns ==
  /\ pick = "memmove" /\ M!Next
  /\ UNCHANGED <<pick, vars, so_vars, ib_vars, rd_vars>>

InfinibandRuns ==
  /\ pick = "infiniband" /\ I!Next
  /\ UNCHANGED <<pick, vars, so_vars, mm_vars, rd_vars>>

IbreadRuns ==
  /\ pick = "ibread" /\ R!Next
  /\ UNCHANGED <<pick, vars, so_vars, mm_vars, ib_vars>>

SumNext == RouterRuns \/ ScaleoutRuns \/ MemmoveRuns \/ InfinibandRuns \/ IbreadRuns

\* The fairness of the component that runs, as its module states it.
SumSpec ==
  /\ SumInit /\ [][SumNext]_sumVars
  /\ \A p \in Producers : WF_vars(pick = "router" /\ ProducerStep(p))
  /\ \A t \in Targets : WF_vars(pick = "router" /\ FireStep(t))
  /\ \A s \in S!Servers : WF_so_vars(pick = "scaleout" /\ S!MainStep(s))
  /\ \A s \in S!Servers : WF_so_vars(pick = "scaleout" /\ S!ReceiverStep(s))
  /\ \A s \in S!Servers : WF_so_vars(pick = "scaleout" /\ S!FirerStep(s))
  /\ \A s \in S!Servers : WF_so_vars(pick = "scaleout" /\ S!Publish(s))
  /\ WF_mm_vars(pick = "memmove" /\ M!MainStep)
  /\ WF_mm_vars(pick = "memmove" /\ M!CatchStep)
  /\ \A st \in M!Streams : WF_mm_vars(pick = "memmove" /\ M!Copy(st))
  /\ \A t \in I!Threads : WF_ib_vars(pick = "infiniband" /\ I!WriterStep(t))
  /\ WF_ib_vars(pick = "infiniband" /\ \E k \in I!Kinds : I!write(w1, k))
  /\ WF_ib_vars(pick = "infiniband" /\ I!request_buffers_unsafe)
  /\ WF_ib_vars(pick = "infiniband" /\ I!landData)
  /\ WF_ib_vars(pick = "infiniband" /\ I!PollA)
  /\ WF_ib_vars(pick = "infiniband" /\ I!PollB)
  /\ WF_ib_vars(pick = "infiniband" /\ I!GrantStep)
  /\ \A s \in {"A", "B"} : WF_ib_vars(pick = "infiniband" /\ I!disconnect(s))
  /\ WF_rd_vars(pick = "ibread" /\ R!complete)
  /\ WF_rd_vars(pick = "ibread" /\ \E k \in rd_tasks : R!fulfil(k))
  /\ WF_rd_vars(pick = "ibread" /\ R!flush_read(R!Flusher))
  /\ \A t \in {r1, r2} : WF_rd_vars(pick = "ibread" /\ R!read(t))
  /\ \A t \in R!Threads : WF_rd_vars(pick = "ibread" /\ R!post(t))

-----------------------------------------------------------------------------
\* The components' state has its types: ring tickets are even and in range,
\* buffers stay with their target, credits and work units stay in their sets.
ExchangeTypeOK ==
  /\ RouterTypeOK
  /\ S!ScaleOutTypeOK
  /\ M!MemMoveTypeOK
  /\ I!InfiniBandTypeOK

\* Two servers that close a scale-out router agree on where a query ends: the
\* control messages follow all the data they announce, and a query leaves no
\* message, buffer or count to the next one (router-scaleout.cpp:71-190).
ServersInStep ==
  /\ S!ControlInOrder
  /\ S!RoundLeavesNothing

\* A memory move never copies from or into a block that was given back, its
\* consumer runs after the copy, and a finished move keeps no block
\* (mem-move-device.cpp:203-469, mem-broadcast-device.cpp:43-93).
BlocksMovedSafely ==
  /\ M!NoCopyOfFreeBlock
  /\ M!ConsumerSeesInput
  /\ M!NothingKept

\* Both ends of a connection agree on the blocks offered for writes: none is
\* written twice or forgotten (infiniband-handler.cpp:298-348, 724-744).
OffersAgree ==
  /\ I!OffersAgree

\* Notifications are published in the order of the writes and after their data
\* landed; a silent write completes only when it landed
\* (infiniband-handler.cpp:226-255, 349-393).
WritesPublished ==
  /\ I!PublishedInOrder
  /\ I!SilentLanded

\* Completions never fulfil a promise that does not exist, and a remote block
\* goes back only after the promise that read it is published
\* (infiniband-handler.cpp:256-270, 463-541, 685-722).
ReadsAccounted ==
  /\ R!PromisesCounted
  /\ R!FreedAfterPublish

\* The router and the scale-out router are exchanges: every routed tuple is
\* consumed exactly once and none is under way when the last close returns.
ImplementExchange ==
  /\ Abstract!Spec
  /\ S!ImplementsExchange

\* Every close returns: of the router's producers, of both scale-out servers,
\* of a memory move; reads are published; a connection drains, except that a receiver
\* who leaves early may strand a writer with silent writes to announce.
ExchangesFinish ==
  /\ (pick = "router" => CloseReturns)
  /\ (pick = "scaleout" => S!BothServersClose)
  /\ (pick = "memmove" => M!CloseReturns)
  /\ (pick = "infiniband" => I!ConnectionDrains)
  /\ (pick = "ibread" => R!ReadsFinish)
=============================================================================
