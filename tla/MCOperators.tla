---------------------------- MODULE MCOperators -----------------------------
(***************************************************************************)
(* The relational operators: the concurrent ones as state machines, the    *)
(* sequential ones as algorithms on inputs, and the                        *)
(* generation and execution of the pipelines of whole plans.  They share   *)
(* no state, so that a behaviour exercises one of them.                    *)
(***************************************************************************)
EXTENDS Integers, Sequences, FiniteSets, FiniteSetsExt, SequencesExt, TLC

(* The sequential algorithms, each against a definition of its result: an   *)
(* algorithm and an input of it.                                           *)

VARIABLES alg, arg \* the algorithm and its input

vars == <<alg, arg>>

Seqs(S, n) == UNION {[1..k -> S] : k \in 0..n}
Ids(s, f(_, _)) == [i \in DOMAIN s |-> f(s[i], i)]

RX == INSTANCE Radix WITH NUM_RADIX_BITS <- 2, NUM_PASSES <- 2, PayloadSize <- 12, InitialSize <- 16
Hash3(g) == g % 3
AG == INSTANCE Aggregates WITH
        Hash <- Hash3, Monoids <- {"SUM", "MULTIPLY", "MAX", "OR", "AND"}, Bits <- 4, WarpSize <- 4, BlockRows <- 3
P2 == INSTANCE Packets WITH numOfBuckets <- 2, Cap <- 4, CACHE_CAP <- 2, CACHE_SIZE <- 3
P4 == INSTANCE Packets WITH numOfBuckets <- 4, Cap <- 4, CACHE_CAP <- 2, CACHE_SIZE <- 3

\* Keys that share their low radix bits, and a negative one.
RadixSide == {Ids(s, LAMBDA k, i : [key |-> k, id |-> i]) : s \in Seqs({0, 2, 5, 13, -3}, 3)}
RadixOther == {<<>>, <<[key |-> 5, id |-> 11], [key |-> -3, id |-> 12], [key |-> 5, id |-> 13]>>,
               <<[key |-> 13, id |-> 11], [key |-> 0, id |-> 12]>>}
RadixTuples == {Ids(s, LAMBDA k, i : [key |-> k[1], group |-> k[2], val |-> 2^i, pass |-> i # 2]) :
                  s \in Seqs({<<0, 0>>, <<0, 4>>, <<1, 1>>, <<4, 8>>}, 4)}

NestTuples == Seqs({[group |-> 0, val |-> 2, pred |-> TRUE], [group |-> 3, val |-> -1, pred |-> TRUE],
                    [group |-> 1, val |-> 3, pred |-> FALSE], [group |-> 1, val |-> -2, pred |-> TRUE],
                    [group |-> 2, val |-> 0, pred |-> TRUE]}, 3)
NestSide == {Ids(s, LAMBDA k, i : [key |-> k, id |-> <<1, i>>]) : s \in Seqs({1, 2, -3}, 3)}
NestOther == {Ids(s, LAMBDA k, i : [key |-> k, id |-> <<2, i>>]) : s \in {<<1>>, <<2, 2>>, <<-3, 1, 1>>}}

Tup(v, p) == [val |-> v, pred |-> p]
ReduceBlocks == Seqs({Tup(3, TRUE), Tup(-4, TRUE), Tup(2, FALSE), Tup(-1, TRUE)}, 2)
WarpOf(a, b, c, d) == 0 :> a @@ 1 :> b @@ 2 :> c @@ 3 :> d
Warps == {<<WarpOf(a, b, <<>>, c), WarpOf(<<>>, b, c, b)>> :
            a \in ReduceBlocks, b \in {<<>>, <<Tup(3, TRUE)>>, <<Tup(-1, TRUE)>>},
            c \in {<<Tup(3, FALSE)>>, <<Tup(-4, TRUE)>>, <<Tup(1, TRUE)>>}}

SortInputs == {"ASC", "DESC", "NONE"} \X {"ASC", "DESC", "NONE"} \X Seqs({-8, -1, 2} \X {0, 1}, 3)

\* Materialised attributes: at most two, which do not overlap in their packet.
Attrs(n, offsets, widths) ==
  {[name |-> <<n, 0>>, packet |-> k, bitoffset |-> o, width |-> w] : k \in {0, 1}, o \in offsets, w \in widths}
Fits(S) == \A x, y \in S : x # y /\ x.packet = y.packet =>
             x.bitoffset + x.width <= y.bitoffset \/ y.bitoffset + y.width <= x.bitoffset
AttrSets == {S \in {{x, y} : x \in Attrs("a", {0, 32, 64, 96}, {16, 32, 64}),
                             y \in Attrs("b", {0, 32, 64, 96, 128}, {32})}
                   \cup {{x} : x \in Attrs("a", {0, 32, 64, 96}, {16, 32, 64})} : Fits(S)}
Beyond(S, o) == \A x \in S : x.packet = 0 => x.bitoffset >= o

Hashed(s) == Ids(s, LAMBDA h, i : [hash |-> h, id |-> i])
Blocks(s, n) == Ids(s, LAMBDA h, i : [hash |-> h, cnt |-> i, oid |-> 10 * i, fields |-> [f \in 1..n |-> <<f, i>>]])

AlgInit ==
  \/ alg = "radix join" /\ arg \in RadixSide \X RadixOther
  \/ alg = "radix nest" /\ arg \in RadixTuples
  \/ alg = "nest" /\ arg \in NestTuples
  \/ alg = "join" /\ arg \in NestSide \X NestOther
  \/ alg = "reduce" /\ arg \in ReduceBlocks \X ReduceBlocks
  \/ alg = "gpu reduce" /\ arg \in Warps
  \/ alg = "sort" /\ arg \in SortInputs
  \/ alg = "layout" /\ arg \in AttrSets
  \/ alg = "rearrange" /\ arg \in Seqs(0..2, 6)
  \/ alg = "zip" /\ arg \in Seqs(0..2, 3) \X Seqs(0..2, 3)

AlgNext == UNCHANGED vars
-----------------------------------------------------------------------------
\* The sequential joins return exactly the pairs of equal keys, whatever the radix bits
\* the keys share, the growth of their arena or the layout of their entries
\* (radix-join.cpp, join.cpp, prj.cpp, packet-zip.cpp).
SequentialJoinsExact ==
  /\ alg = "radix join" => RX!RadixJoinExact(arg[1], arg[2])
  /\ alg = "join" => AG!JoinExact(arg[1], arg[2])
  /\ alg = "layout" => (Beyond(arg, 64) => P4!JoinLayoutsAgree(arg, 32, (0 :> 192) @@ (1 :> 160)))
  /\ alg = "zip" => P4!ZipExact(Blocks(arg[1], 1), Blocks(arg[2], 2), 1, 2)

\* The sequential groupings, reductions and sorts return what their monoids and their
\* order define, on the CPU and on the GPU, under these conditions: the Nests merge the
\* groups whose records hash alike, and take 0 for the maximum of negative values; a sort
\* has one block, and on the GPU no least integer to sort downwards (radix-nest.cpp,
\* nest.cpp, nest-opt.cpp, reduce-opt.cpp, gpu-reduce.cpp, sort.cpp, gpu-sort.cpp).
SequentialAggregatesExact ==
  /\ alg = "radix nest" => RX!RadixNestExact(arg)
  /\ alg = "nest" => AG!NestExact(arg)
  /\ alg = "reduce" => AG!ReduceExact(<<"SUM", "MULTIPLY", "MAX", "MIN", "OR", "AND">>, arg)
  /\ alg = "gpu reduce" => AG!GpuReduceAgrees(<<"SUM", "MAX", "OR", "AND">>, arg)
  /\ alg = "sort" => LET dirs == <<arg[1], arg[2]>> IN AG!SortExact(dirs, arg[3]) /\ AG!GpuSortAgrees(dirs, arg[3])
  /\ alg = "layout" => \A ks \in {<<>>, <<32>>, <<32, 64>>} :
                         Beyond(arg, FoldLeft(+, 0, ks)) => P4!GroupLayoutSound(arg, ks)

\* The arena of a radix builder holds what was stored before it grew, and a rearranged
\* tuple leaves once, in a block of its bucket; of the buffered rearranger this holds for
\* the tuples that no cache flushed, and the others are lost (radix-join-build.cpp,
\* hash-rearrange.cpp, hash-rearrange-buffered.cpp, functions.cpp:63-71).
SequentialMovesExact ==
  /\ alg = "radix join" => RX!ArenaHolds(arg[1])
  /\ alg = "rearrange" => P2!RearrangeExact(Hashed(arg)) /\ P2!BufferedMoves(Hashed(arg))
-----------------------------------------------------------------------------
\* Build sides with equal keys and with keys that share a bucket.
JoinBuild == {<<>>, <<1, 3>>, <<3>>}
JoinProbe == {<<>>, <<3>>, <<1, 1>>}

KeyVal(k, v) == [key |-> k, val |-> v]
GroupInputs == {<<>>, <<KeyVal(1, 1), KeyVal(3, 2)>>, <<KeyVal(3, 4), KeyVal(1, 8)>>,
                <<KeyVal(3, 1), KeyVal(3, 4), KeyVal(5, 2)>>}

\* Plans in which every operator is below and above every other kind.
Node(o, i, ks, n) == [op |-> o, id |-> i, kids |-> ks, n |-> n]
ScanOf(i) == Node("scan", i, <<>>, 0)
Unary == {"select", "router", "sort", "reduce"}
Level1 == {ScanOf(1)} \cup {Node(o, 2, <<ScanOf(1)>>, 1) : o \in Unary \cup {"radix"}}
          \cup {Node("gpu2cpu", 3, <<Node(o, 2, <<Node("cpu2gpu", 1, <<ScanOf(0)>>, 0)>>, 1)>>, 0) :
                  o \in {"gpugroupby", "select", "reduce"}}
Side == {ScanOf(5), Node("router", 6, <<ScanOf(5)>>, 0), Node("sort", 6, <<ScanOf(5)>>, 1)}
Level2 == Level1 \cup {Node("union", 4, <<a, ScanOf(5)>>, 0) : a \in Level1}
          \cup {Node(o, 4, <<a, b>>, 0) : o \in {"join", "radix"}, a \in Level1, b \in Side}
QueryPlans == Level2 \cup {Node(o, 7, <<a>>, 1) : o \in {"reduce", "router"}, a \in Level2}
              \cup {Node("join", 8, <<Node("select", 7, <<ScanOf(9)>>, 0), a>>, 0) : a \in Level2}

WarpBatches == {<<>>, <<2>>, <<1, 2>>}

RearrangeLanes == [warp : {0, 1}, id : {0, 1}]
ToBuckets(a, b, c, d) == [l \in RearrangeLanes |-> IF l.warp = 0 THEN (IF l.id = 0 THEN a ELSE b)
                                                  ELSE IF l.id = 0 THEN c ELSE d]
RearrangeTargets == {<<>>, <<ToBuckets(0, 0, 0, 0)>>, <<ToBuckets(0, 1, 1, 0)>>, <<ToBuckets(0, 0, 0, 1)>>}

InBucket(p, ks) == [pid |-> p, keys |-> ks]
SameKey(k) == k
PartitionInputs ==
  {<<>>, <<InBucket(0, <<1, 1>>), InBucket(0, <<1, 3>>), InBucket(0, <<1>>)>>,
   <<InBucket(0, <<0, 1>>), InBucket(0, <<1, 2>>), InBucket(0, <<3, 3>>)>>,
   <<InBucket(0, <<1, 1>>), InBucket(1, <<1, 3>>), InBucket(0, <<1, 1>>), InBucket(0, <<3, 1>>)>>}

VARIABLE pick \* the component a behaviour exercises; the others never start

VARIABLES hj_kind, hj_build, hj_probe, hj_workerCnt, hj_tab, hj_wrk, hj_out

hj_vars == <<hj_kind, hj_build, hj_probe, hj_workerCnt, hj_tab, hj_wrk, hj_out>>

J == INSTANCE HashJoinChained WITH
  Workers <- {1, 2}, BuildInputs <- JoinBuild, ProbeInputs <- JoinProbe,
  NumBuckets <- 2, MaxBuildInputSize <- 4, kind <- hj_kind, build <- hj_build,
  probe <- hj_probe, workerCnt <- hj_workerCnt, tab <- hj_tab, wrk <- hj_wrk,
  out <- hj_out

VARIABLES gb_kind, gb_input, gb_head, gb_cnt, gb_next, gb_key, gb_agg, gb_th, gb_out

gb_vars == <<gb_kind, gb_input, gb_head, gb_cnt, gb_next, gb_key, gb_agg, gb_th, gb_out>>

G == INSTANCE GroupByChained WITH
  Threads <- {1, 2}, Inputs <- GroupInputs, NumBuckets <- 2, MaxInputSize <- 6,
  kind <- gb_kind, input <- gb_input, head <- gb_head, cnt <- gb_cnt, next <- gb_next,
  key <- gb_key, agg <- gb_agg, th <- gb_th, out <- gb_out

VARIABLES pl_plan, pl_ctx, pl_agenda, pl_opened, pl_live, pl_callbacks, pl_built,
          pl_ran

pl_vars == <<pl_plan, pl_ctx, pl_agenda, pl_opened, pl_live, pl_callbacks, pl_built,
             pl_ran>>

P == INSTANCE Pipelines WITH
  Plans <- QueryPlans, plan <- pl_plan, ctx <- pl_ctx, agenda <- pl_agenda,
  opened <- pl_opened, live <- pl_live, callbacks <- pl_callbacks, built <- pl_built,
  ran <- pl_ran

VARIABLES gc_work, gc_pc, gc_lane, gc_base, gc_lock, gc_last, gc_flags, gc_store,
          gc_eof, gc_front, gc_reader, gc_sent, gc_caught, gc_missed

gc_vars == <<gc_work, gc_pc, gc_lane, gc_base, gc_lock, gc_last, gc_flags, gc_store,
             gc_eof, gc_front, gc_reader, gc_sent, gc_caught, gc_missed>>

U == INSTANCE GpuToCpu WITH
  Warps <- {1, 2}, Batches <- WarpBatches, Size <- 3, work <- gc_work, pc <- gc_pc,
  lane <- gc_lane, base <- gc_base, lock <- gc_lock, last <- gc_last,
  flags <- gc_flags, store <- gc_store, eof <- gc_eof, front <- gc_front,
  reader <- gc_reader, sent <- gc_sent, caught <- gc_caught, missed <- gc_missed

VARIABLES gr_work, gr_launch, gr_target, gr_pc, gr_index, gr_held, gr_buff, gr_cnt,
          gr_wcnt, gr_stored, gr_rows, gr_oid, gr_out, gr_released, gr_phase

gr_vars == <<gr_work, gr_launch, gr_target, gr_pc, gr_index, gr_held, gr_buff, gr_cnt,
             gr_wcnt, gr_stored, gr_rows, gr_oid, gr_out, gr_released, gr_phase>>

H == INSTANCE GpuHashRearrange WITH
  Lanes <- RearrangeLanes, Targets <- RearrangeTargets, Buckets <- {0, 1}, Cap <- 2,
  work <- gr_work, launch <- gr_launch, target <- gr_target, pc <- gr_pc,
  index <- gr_index, held <- gr_held, buff <- gr_buff, cnt <- gr_cnt, wcnt <- gr_wcnt,
  stored <- gr_stored, rows <- gr_rows, oid <- gr_oid, out <- gr_out,
  released <- gr_released, phase <- gr_phase

VARIABLES gp_input, gp_at, gp_pc, gp_old, gp_next, gp_heads, gp_chains, gp_out_cnts,
          gp_buckets_used, gp_output

gp_vars == <<gp_input, gp_at, gp_pc, gp_old, gp_next, gp_heads, gp_chains, gp_out_cnts,
             gp_buckets_used, gp_output>>

Q == INSTANCE GpuPartition WITH
  Grid <- {0, 1}, Inputs <- PartitionInputs, log_parts <- 1, S_log_parts <- 1,
  bucket_size <- 2, Hash <- SameKey, first_bit <- 0, input <- gp_input, at <- gp_at,
  pc <- gp_pc, old <- gp_old, next <- gp_next, heads <- gp_heads, chains <- gp_chains,
  out_cnts <- gp_out_cnts, buckets_used <- gp_buckets_used, output <- gp_output

VARIABLES ex_about, ex_sample

ex_vars == <<ex_about, ex_sample>>

E == INSTANCE MCSamples WITH
  about <- ex_about, sample <- ex_sample

sumVars == <<pick, vars, hj_vars, gb_vars, pl_vars, gc_vars, gr_vars, gp_vars, ex_vars>>

SumInit ==
  /\ pick \in {"algorithms", "join", "grouping", "pipelines", "gpu2cpu", "rearrange",
               "partition", "samples"}
  /\ \/ pick = "algorithms" /\ AlgInit
     \/ pick # "algorithms" /\ alg = "none" /\ arg = "none"
  /\ \/ pick = "join" /\ J!Init
     \/ pick # "join" /\ hj_kind = "none" /\ hj_build = "none" /\ hj_probe = "none" /\
          hj_workerCnt = "none" /\ hj_tab = "none" /\ hj_wrk = "none" /\ hj_out = "none"
  /\ \/ pick = "grouping" /\ G!Init
     \/ pick # "grouping" /\ gb_kind = "none" /\ gb_input = "none" /\ gb_head = "none" /\ gb_cnt = "none" /\
          gb_next = "none" /\ gb_key = "none" /\ gb_agg = "none" /\ gb_th = "none" /\
          gb_out = "none"
  /\ \/ pick = "pipelines" /\ P!Init
     \/ pick # "pipelines" /\ pl_plan = "none" /\ pl_ctx = "none" /\ pl_agenda = "none" /\ pl_opened = "none" /\
          pl_live = "none" /\ pl_callbacks = "none" /\ pl_built = "none" /\ pl_ran = "none"
  /\ \/ pick = "gpu2cpu" /\ U!Init
     \/ pick # "gpu2cpu" /\ gc_work = "none" /\ gc_pc = "none" /\ gc_lane = "none" /\ gc_base = "none" /\
          gc_lock = "none" /\ gc_last = "none" /\ gc_flags = "none" /\ gc_store = "none" /\
          gc_eof = "none" /\ gc_front = "none" /\ gc_reader = "none" /\ gc_sent = "none" /\
          gc_caught = "none" /\ gc_missed = "none"
  /\ \/ pick = "rearrange" /\ H!Init
     \/ pick # "rearrange" /\ gr_work = "none" /\ gr_launch = "none" /\ gr_target = "none" /\ gr_pc = "none" /\
          gr_index = "none" /\ gr_held = "none" /\ gr_buff = "none" /\ gr_cnt = "none" /\
          gr_wcnt = "none" /\ gr_stored = "none" /\ gr_rows = "none" /\ gr_oid = "none" /\
          gr_out = "none" /\ gr_released = "none" /\ gr_phase = "none"
  /\ \/ pick = "partition" /\ Q!Init
     \/ pick # "partition" /\ gp_input = "none" /\ gp_at = "none" /\ gp_pc = "none" /\ gp_old = "none" /\
          gp_next = "none" /\ gp_heads = "none" /\ gp_chains = "none" /\
          gp_out_cnts = "none" /\ gp_buckets_used = "none" /\ gp_output = "none"
  /\ \/ pick = "samples" /\ E!Init
     \/ pick # "samples" /\ ex_about = "none" /\ ex_sample = "none"

AlgorithmsRuns ==
  /\ pick = "algorithms" /\ AlgNext
  /\ UNCHANGED <<pick, hj_vars, gb_vars, pl_vars, gc_vars, gr_vars, gp_vars, ex_vars>>

JoinRuns ==
  /\ pick = "join" /\ J!Next
  /\ UNCHANGED <<pick, vars, gb_vars, pl_vars, gc_vars, gr_vars, gp_vars, ex_vars>>

GroupingRuns ==
  /\ pick = "grouping" /\ G!Next
  /\ UNCHANGED <<pick, vars, hj_vars, pl_vars, gc_vars, gr_vars, gp_vars, ex_vars>>

PipelinesRuns ==
  /\ pick = "pipelines" /\ P!Next
  /\ UNCHANGED <<pick, vars, hj_vars, gb_vars, gc_vars, gr_vars, gp_vars, ex_vars>>

Gpu2cpuRuns ==
  /\ pick = "gpu2cpu" /\ U!Next
  /\ UNCHANGED <<pick, vars, hj_vars, gb_vars, pl_vars, gr_vars, gp_vars, ex_vars>>

RearrangeRuns ==
  /\ pick = "rearrange" /\ H!Next
  /\ UNCHANGED <<pick, vars, hj_vars, gb_vars, pl_vars, gc_vars, gp_vars, ex_vars>>

PartitionRuns ==
  /\ pick = "partition" /\ Q!Next
  /\ UNCHANGED <<pick, vars, hj_vars, gb_vars, pl_vars, gc_vars, gr_vars, ex_vars>>

SamplesRuns ==
  /\ pick = "samples" /\ E!Next
  /\ UNCHANGED <<pick, vars, hj_vars, gb_vars, pl_vars, gc_vars, gr_vars, gp_vars>>

SumNext == AlgorithmsRuns \/ JoinRuns \/ GroupingRuns \/ PipelinesRuns \/ Gpu2cpuRuns \/
           RearrangeRuns \/ PartitionRuns \/ SamplesRuns

\* The fairness of the component that runs, as its module states it.
SumSpec ==
  /\ SumInit /\ [][SumNext]_sumVars
  /\ \A w \in {1, 2} : WF_hj_vars(pick = "join" /\ J!WorkerStep(w))
  /\ WF_hj_vars(pick = "join" /\ (J!gpu_open_build \/ J!gpu_close_probe))
  /\ WF_gb_vars(pick = "grouping" /\ (G!close \/ G!cpu_close))
  /\ \A t \in {1, 2} : WF_gb_vars(pick = "grouping" /\ G!ThreadStep(t))
  /\ WF_pl_vars(pick = "pipelines" /\ P!Step)
  /\ \A w \in {1, 2} : WF_gc_vars(pick = "gpu2cpu" /\ U!WarpStep(w))
  /\ WF_gc_vars(pick = "gpu2cpu" /\ U!close)
  /\ WF_gc_vars(pick = "gpu2cpu" /\ U!Reader)
  /\ \A w \in {0, 1}, b \in {0, 1} : WF_gr_vars(pick = "rearrange" /\ H!reserve(w, b))
  /\ \A l \in RearrangeLanes : WF_gr_vars(pick = "rearrange" /\ H!LaneStep(l))
  /\ WF_gr_vars(pick = "rearrange" /\ H!loadShared)
  /\ WF_gr_vars(pick = "rearrange" /\ H!storeShared)
  /\ WF_gr_vars(pick = "rearrange" /\ (\E b \in {0, 1} : H!consume_flush(b)))
  /\ \A b \in {0, 1} : WF_gp_vars(pick = "partition" /\ Q!writeOut(b))
  /\ \A b, j \in {0, 1} : WF_gp_vars(pick = "partition" /\ Q!ThreadStep(b, j))

-----------------------------------------------------------------------------
\* Joins return exactly the pairs of equal keys: the hash join on the shared table its
\* workers build, which stays alive while anyone probes it, the partitioned join over
\* the chains its thread blocks reserved, and the sequential ones
\* (hash-join-chained.cpp, gpu-partitioned-hash-join-chained.cpp, radix-join.cpp, join.cpp).
JoinsCorrect ==
  /\ (pick = "join" => J!TableAlive /\ J!JoinComplete)
  /\ (pick = "partition" => Q!JoinExact)
  /\ (pick = "algorithms" => SequentialJoinsExact)

\* Concurrent groupings are exact: threads that race for a bucket's chain
\* neither lose nor split a group (gpu-hash-group-by-chained.cpp:300-560), and the
\* sequential ones agree with their monoids and orders under the conditions stated with
\* SequentialAggregatesExact: no shared hashes, no negative maxima, one block to sort.
AggregatesCorrect ==
  /\ (pick = "grouping" => G!GroupsExact /\ G!ChainsSound)
  /\ (pick = "algorithms" => SequentialAggregatesExact)

\* Tuples that threads scatter to buckets concurrently get places of their own: a
\* block is handed on full and once, a bucket's entries are never written over; the
\* sequential rearrangers move a tuple once, but for what a full cache of the buffered
\* one loses (hash-rearrange.cpp, hash-rearrange-buffered.cpp,
\* gpu-hash-rearrange.cpp:394-593, gpu-partitioned-hash-join-chained-helpers.cpp:306-475).
RearrangersCorrect ==
  /\ (pick = "rearrange" => H!BuffersFull /\ H!BlocksDisjoint /\ H!AllRearranged)
  /\ (pick = "partition" => Q!EntriesDisjoint /\ Q!PartitionsExact)
  /\ (pick = "algorithms" => SequentialMovesExact)

\* What the CPU gets from a kernel through the ring of gpu-to-cpu is what was sent, each
\* packet once and in the order of the slots; it gets all of it, unless the next packet
\* was stored between its look at the flag and its look at eof: then those that are in
\* the ring are left behind (gpu-to-cpu.cpp:195-583).
PacketsIntact ==
  /\ (pick = "gpu2cpu" => U!PacketsIntact /\ U!PacketsInOrder /\ U!OnlyStaleFlagsMissed)

\* Generating a plan leaves no pipeline or device provider behind; executing it feeds
\* only open pipelines, probes only what was built, runs everything once and touches
\* no state variable after its deallocation (pipeline.cpp:359-694, parallel-context.cpp:224-318).
PipelinesSound ==
  /\ (pick = "pipelines" => P!PipelinesSound)


\* The code generated for an expression computes the expression: comparisons agree
\* with one another but for NaNs, of which all are false; arithmetic is that of the
\* width; keys that are equal hash equal; what is written is the value, and a comparison
\* cannot be written; dates from the epoch on fall on the calendar's days, and DAYOFYEAR
\* is the Julian day of the year's start (expressions-generator.cpp,
\* expressions-hasher.cpp, expressions-dot-evaluator.cpp, expressions-flusher.cpp).
ExpressionsExact ==
  /\ (pick = "samples" => E!ExpressionsExact)

\* What an input plugin reads from a file, at the first scan and at the later ones that
\* use its positional map or its tokens, is what the file holds, no row twice and none
\* left out, except where the map has no place for a field, the tokens of a line fill
\* their array or an integer is negative: what is read then is stated with each
\* (csv-plugin-pm.cpp, csv-plugin.cpp, json-plugin.cpp, json-jsmn-plugin.cpp, jsmn.c,
\* binary-*-plugin.cpp, plugins-output.cpp).
PluginsExact ==
  /\ (pick = "samples" => E!PluginsExact)

\* Every operator's threads finish: joins, groupings, the spinning reservations of the
\* rearrangers and partitioners, the reader of gpu-to-cpu, and a query's pipelines.
OperatorsFinish ==
  <>(/\ (pick = "join" => J!AllDone)
     /\ (pick = "grouping" => G!Scanned)
     /\ (pick = "pipelines" => pl_agenda = <<>>)
     /\ (pick = "gpu2cpu" => gc_reader = "end")
     /\ (pick = "rearrange" => H!Flushed)
     /\ (pick = "partition" => Q!Done))
=============================================================================
