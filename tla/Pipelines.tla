----------------------------- MODULE Pipelines -----------------------------
(***************************************************************************)
(* How a plan becomes pipelines and how the pipelines run.  An operator's  *)
(* produce() works on the ParallelContext: a stack of pipelines being      *)
(* generated, a list of finished ones, a stack of device providers and the *)
(* leaf flag of the latest setGlobalFunction.  A PreparedStatement then    *)
(* opens, consumes and closes the leaf pipelines one after another, and a  *)
(* pipeline opens, feeds and closes the ones below it.  produce(n, up, c)  *)
(* returns the context after plan node n whose output goes to the sides    *)
(* `up'; the actions below run the pipelines.  A plan node is              *)
(* [op, id, kids, n], n its number of accumulators.                        *)
(***************************************************************************)
EXTENDS Integers, FiniteSets, Sequences, SequencesExt

CONSTANT Plans  \* the query plans, as nodes [op, id, kids, n]

VARIABLES plan, ctx,  \* the plan and the ParallelContext after prepare()
          agenda,     \* the calls still to make
          opened,     \* the open pipelines
          live,       \* the initialised state variables
          callbacks,  \* how often each operator's open and close callbacks ran
          built,      \* the hash tables whose build has been closed
          ran         \* the operator sides that ran, in order

-----------------------------------------------------------------------------
(* ParallelContext *)

Gen(dev, sub) == [dev |-> dev, sub |-> sub, next |-> 0, entries |-> <<>>, body |-> <<>>]

pushDeviceProvider(c, dev) == [c EXCEPT !.factories = Append(@, dev)]

popDeviceProvider(c) == [c EXCEPT !.factories = Front(@)]

pushPipeline(c, copyStateFrom) ==
    LET g == Len(c.pip) + 1
    IN  [c EXCEPT !.pip = Append(@, Gen(Last(c.factories), copyStateFrom)),
                  !.generators = Append(@, g)]

\* A slip: finished pipelines are put in front of the list.
popPipelineFirst(c) ==
    [c EXCEPT !.pipelines = <<[pip |-> Last(c.generators), leaf |-> c.leafgen]>> \o @,
              !.generators = Front(@)]

\* leafgen is never popped: a finished pipeline takes the flag of the latest
\* setGlobalFunction, whichever pipeline that was called for.
popPipeline(c) ==
    [c EXCEPT !.pipelines = Append(@, [pip |-> Last(c.generators), leaf |-> c.leafgen]),
              !.generators = Front(@)]

removeLatestPipeline(c) == [c EXCEPT !.pipelines = Front(@)]

Latest(c) == Last(c.pipelines).pip

\* The pipeline just finished becomes one that its operator runs by itself.
Detach(c) == removeLatestPipeline(popPipeline(c))

Detached(c) == Latest(popPipeline(c))

setChainedPipeline(c, p) == [c EXCEPT !.pip[Last(c.generators)].next = p]

register(c, entry) ==
    [c EXCEPT !.pip[Last(c.generators)].entries = Append(@, entry)]

appendStateVars(c, vars) ==
    [c EXCEPT !.pip[Last(c.generators)].entries = @ \o vars]

\* What the generated function does for one tuple, from the side that
\* produces it up to the next pipeline breaker.
setGlobalFunction(c, leaf, body) ==
    [c EXCEPT !.pip[Last(c.generators)].body = body, !.leafgen = leaf]

getPipelines(c) ==
    LET leaves == SelectSeq(c.pipelines, LAMBDA p : p.leaf)
    IN  [i \in 1..Len(leaves) |-> leaves[i].pip]

-----------------------------------------------------------------------------
(* State variables and registered callbacks, in the order of open_var and close_var *)

Callback(op, id, pip) == [k |-> "callback", op |-> op, id |-> id, pip |-> pip, producers |-> 1]

\* flush: the variables whose contents the deinit hands to subpipeline_consume.
StateVar(v, flush) == [k |-> "var", v |-> v, flush |-> flush]

Side(op, id, dev) == [op |-> op, id |-> id, dev |-> dev, pip |-> 0, uses |-> <<>>]

Into(op, id, dev, pip) == [Side(op, id, dev) EXCEPT !.pip = pip]

Using(op, id, dev, vars) == [Side(op, id, dev) EXCEPT !.uses = vars]

Acc(id, i) == <<id, i>>

Accs(n) == [i \in 1..n.n |-> Acc(n.id, i)]

\* Reduce::resetAccumulator: the first accumulator's deinit flushes them all.
resetAccumulators(n) ==
    [i \in 1..n.n |-> StateVar(Acc(n.id, i), IF i = 1 THEN Accs(n) ELSE <<>>)]

\* Sort: the counter's deinit flushes the buffer, which it declares before.
sortVars(n) == <<StateVar(Acc(n.id, 1), <<>>), StateVar(Acc(n.id, 2), <<Acc(n.id, 1), Acc(n.id, 2)>>)>>

RECURSIVE getDeviceType(_)
getDeviceType(n) ==
    CASE n.op = "scan" -> "CPU"
      [] n.op = "cpu2gpu" -> "GPU"
      [] n.op = "gpu2cpu" -> "CPU"
      [] OTHER -> getDeviceType(n.kids[1])

-----------------------------------------------------------------------------
(* produce() of each operator *)

RECURSIVE produce(_, _, _), produceChildren(_, _, _)

SelectProduce(n, up, c) ==
    produce(n.kids[1], <<Side("select", n.id, getDeviceType(n))>> \o up, c)

ScanProduce(n, up, c) == setGlobalFunction(c, TRUE, <<Side("scan", n.id, "CPU")>> \o up)

\* The catch pipeline unpacks a buffer and hands its tuple to the parent.
generate_catch(n, dev) == Side("catch", n.id, dev)

\* The child's tuple is packed into a buffer that goes to the catch pipeline.
RouterConsume(n, dev, catch_pip) == Into("router", n.id, dev, catch_pip)

\* Router, MemMoveDevice, MemBroadcastDevice: the catch side is a pipeline
\* that the operator's threads run; the child's pipeline registers open and close.
RouterProduce(n, up, c) ==
    LET dev == getDeviceType(n)
        caught == setGlobalFunction(c, FALSE, <<generate_catch(n, dev)>> \o up)
        below == register(pushPipeline(Detach(caught), 0),
                          Callback("router", n.id, Detached(caught)))
    IN  produce(n.kids[1], <<RouterConsume(n, dev, Detached(caught))>>, below)

\* Reduce, GpuReduce, Sort, HashGroupByChained: what reads the state is a
\* sub-pipeline of the pipeline that fills it.
BreakerProduce(n, up, c, vars) ==
    LET dev == getDeviceType(n)
        flushed == setGlobalFunction(c, FALSE, <<Using("flush", n.id, dev, <<>>)>> \o up)
        below == appendStateVars(pushPipeline(Detach(flushed), Detached(flushed)), vars)
    IN  produce(n.kids[1], <<Using("fill", n.id, dev, [i \in 1..Len(vars) |-> vars[i].v])>>, below)

\* The build pipeline is generated on top of the one the probe side goes to.
HashJoinProduce(n, up, c) ==
    LET dev == getDeviceType(n)
        build == produce(n.kids[1], <<Side("build", n.id, dev)>>,
                         register(pushPipeline(c, 0), Callback("build", n.id, 0)))
        probe == register(popPipeline(build), Callback("probe", n.id, 0))
    IN  produce(n.kids[2], <<Side("probe", n.id, dev)>> \o up, probe)

GpuGroupByProduce(n, up, c) ==
    LET probe_gen == Last(c.generators)
        dev == getDeviceType(n)
        build == produce(n.kids[1], <<Side("build", n.id, dev)>>,
                         register(pushPipeline(c, 0), Callback("scan", n.id, probe_gen)))
    IN  setGlobalFunction(popPipeline(build), FALSE, <<Side("probe", n.id, dev)>> \o up)

\* RadixJoin, the GPU partitioned join and (with one child) the radix Nest:
\* the join itself is chained after the pipeline of the last child.
RadixProduce(n, up, c) ==
    LET dev == getDeviceType(n)
        joined == setGlobalFunction(c, FALSE, <<Side("probe", n.id, dev)>> \o up)
        flush_pip == Detached(joined)
        Child(i, d) == produce(n.kids[i], <<Side("build", n.id, dev)>>, d)
        first == pushPipeline(Detach(joined), 0)
    IN  IF Len(n.kids) = 1
        THEN Child(1, setChainedPipeline(register(first, Callback("build", n.id, 0)), flush_pip))
        ELSE LET right == pushPipeline(popPipeline(Child(1, register(first, Callback("side", n.id, 0)))), 0)
             IN  Child(2, setChainedPipeline(register(right, Callback("build", n.id, 0)), flush_pip))

produceChildren(n, i, d) ==
    IF i > Len(n.kids) THEN d
    ELSE LET catch_pip == d.union[n.id]
             below == register(pushPipeline(popPipeline(d), 0),
                               [Callback("router", n.id, catch_pip) EXCEPT !.producers = Len(n.kids)])
         IN  produceChildren(n, i + 1,
                 produce(n.kids[i], <<RouterConsume(n, getDeviceType(n), catch_pip)>>, below))

UnionAllProduce(n, up, c) ==
    LET dev == getDeviceType(n)
        caught == setGlobalFunction(c, FALSE, <<generate_catch(n, dev)>> \o up)
    IN  produceChildren(n, 1, [caught EXCEPT !.union[n.id] = Last(c.generators)])

generateGpuSide(n) == Side("catch", n.id, "GPU")

\* The CPU side launches the GPU pipeline's kernel with the tuple and its state.
CpuToGpuConsume(n, gpu_pip) == Into("launch", n.id, "CPU", gpu_pip)

CpuToGpuProduce(n, up, c) ==
    LET gpu == setGlobalFunction(c, FALSE, <<generateGpuSide(n)>> \o up)
        gpu_pip == Detached(gpu)
        below == register(pushPipeline(pushDeviceProvider(Detach(gpu), "CPU"), gpu_pip),
                          Callback("stream", n.id, 0))
    IN  popDeviceProvider(produce(n.kids[1], <<CpuToGpuConsume(n, gpu_pip)>>, below))

GpuToCpuProduce(n, up, c) ==
    LET cpu == setGlobalFunction(c, FALSE, <<generate_catch(n, "CPU")>> \o up)
        cpu_pip == Detached(cpu)
        below == register(pushPipeline(pushDeviceProvider(Detach(cpu), "GPU"), 0),
                          Callback("router", n.id, cpu_pip))
    IN  popDeviceProvider(produce(n.kids[1], <<RouterConsume(n, "GPU", cpu_pip)>>, below))

produce(n, up, c) ==
    CASE n.op = "scan" -> ScanProduce(n, up, c)
      [] n.op = "select" -> SelectProduce(n, up, c)
      [] n.op = "router" -> RouterProduce(n, up, c)
      [] n.op = "reduce" -> BreakerProduce(n, up, c, resetAccumulators(n))
      [] n.op = "sort" -> BreakerProduce(n, up, c, sortVars(n))
      [] n.op = "join" -> HashJoinProduce(n, up, c)
      [] n.op = "gpugroupby" -> GpuGroupByProduce(n, up, c)
      [] n.op = "radix" -> RadixProduce(n, up, c)
      [] n.op = "union" -> UnionAllProduce(n, up, c)
      [] n.op = "cpu2gpu" -> CpuToGpuProduce(n, up, c)
      [] n.op = "gpu2cpu" -> GpuToCpuProduce(n, up, c)

\* RelBuilder::prepare; the context starts with one pipeline of its root device.
NewContext ==
    pushPipeline([pip |-> <<>>, generators |-> <<>>, pipelines |-> <<>>, leafgen |-> FALSE,
                  factories |-> <<"CPU">>, union |-> [i \in 0..9 |-> 0]], 0)

compileAndLoad(c) == pushPipeline(popPipeline(c), 0)

prepare(root) == compileAndLoad(produce(root, <<Side("sink", 0, "CPU")>>, NewContext))

-----------------------------------------------------------------------------
(* Running them: the agenda holds the calls still to make, the next one first *)

vars == <<plan, ctx, agenda, opened, live, callbacks, built, ran>>

Do(items) == agenda' = items \o Tail(agenda)

\* getPipeline: the one opener, and the one closer, handle the sub-pipeline.
Openers(p) == IF ctx.pip[p].sub # 0 THEN <<<<"open", ctx.pip[p].sub>>>> ELSE <<>>

Closers(p) == IF ctx.pip[p].sub # 0 THEN <<<<"close", ctx.pip[p].sub>>>> ELSE <<>>

\* open: the sub-pipeline first, then the initialisers in the order they were registered.
open(p) ==
    /\ agenda[1] = <<"open", p>>
    /\ Do(Openers(p)
          \o [i \in 1..Len(ctx.pip[p].entries) |-> <<"init", p, ctx.pip[p].entries[i]>>]
          \o <<<<"opened", p>>>>)
    /\ UNCHANGED <<plan, ctx, opened, live, callbacks, built, ran>>

Opened(p) ==
    /\ agenda[1] = <<"opened", p>>
    /\ opened' = opened \union {p}
    /\ Do(<<>>)
    /\ UNCHANGED <<plan, ctx, live, callbacks, built, ran>>

\* A state variable's initialiser, or a callback of registerOpen.  The first
\* producer of a Router to open starts the worker that opens the catch pipeline.
init(p, e) ==
    /\ agenda[1] = <<"init", p, e>>
    /\ IF e.k = "var"
       THEN live' = live \union {e.v} /\ UNCHANGED callbacks
       ELSE callbacks' = [callbacks EXCEPT ![e.op][e.id].opens = @ + 1] /\ UNCHANGED live
    /\ Do(IF e.k = "callback" /\ e.op = "router" /\ callbacks[e.op][e.id].opens = 0
          THEN <<<<"open", e.pip>>>> ELSE <<>>)
    /\ UNCHANGED <<plan, ctx, opened, built, ran>>

\* The generated function: every side in turn, each into the pipeline it feeds.
consume(p) ==
    /\ agenda[1] = <<"consume", p>>
    /\ Do([i \in 1..Len(ctx.pip[p].body) |-> <<"run", p, ctx.pip[p].body[i]>>])
    /\ UNCHANGED <<plan, ctx, opened, live, callbacks, built, ran>>

runSide(p, s) ==
    /\ agenda[1] = <<"run", p, s>>
    /\ ran' = Append(ran, <<s.op, s.id>>)
    /\ Do(IF s.pip # 0 THEN <<<<"consume", s.pip>>>> ELSE <<>>)
    /\ UNCHANGED <<plan, ctx, opened, live, callbacks, built>>

\* close: the deinitialisers from the last to the first, then the sub-pipeline,
\* then the chained pipeline is opened, run and closed.
Deinits(p) == Reverse([i \in 1..Len(ctx.pip[p].entries) |-> <<"deinit", p, ctx.pip[p].entries[i]>>])

Run(p) == <<<<"open", p>>, <<"consume", p>>, <<"close", p>>>>

close(p) ==
    /\ agenda[1] = <<"close", p>>
    /\ opened' = opened \ {p}
    /\ Do(Deinits(p)
          \o Closers(p)
          \o (IF ctx.pip[p].next # 0 THEN Run(ctx.pip[p].next) ELSE <<>>))
    /\ UNCHANGED <<plan, ctx, live, callbacks, built, ran>>

\* A variable's deinit first hands what it flushes to subpipeline_consume.
deinitVar(p, e) ==
    /\ agenda[1] = <<"deinit", p, e>> /\ e.k = "var"
    /\ Do((IF e.flush # <<>> THEN <<<<"flush", p, e.flush>>>> ELSE <<>>) \o <<<<"free", p, e.v>>>>)
    /\ UNCHANGED <<plan, ctx, opened, live, callbacks, built, ran>>

subpipeline_consume(p, vs) ==
    /\ agenda[1] = <<"flush", p, vs>>
    /\ Do(<<<<"consume", ctx.pip[p].sub>>>>)
    /\ UNCHANGED <<plan, ctx, opened, live, callbacks, built, ran>>

deallocateStateVar(p, v) ==
    /\ agenda[1] = <<"free", p, v>>
    /\ live' = live \ {v}
    /\ Do(<<>>)
    /\ UNCHANGED <<plan, ctx, opened, callbacks, built, ran>>

\* A callback of registerClose: the last producer of a Router joins its worker,
\* a GPU group-by runs its scan, a build side ends its hash table.
deinitCallback(p, e) ==
    /\ agenda[1] = <<"deinit", p, e>> /\ e.k = "callback"
    /\ callbacks' = [callbacks EXCEPT ![e.op][e.id].closes = @ + 1]
    /\ built' = IF e.op \in {"build", "scan"} THEN built \union {e.id} ELSE built
    /\ Do(CASE e.op = "scan" -> Run(e.pip)
            [] e.op = "router" /\ callbacks[e.op][e.id].closes + 1 = e.producers -> <<<<"close", e.pip>>>>
            [] OTHER -> <<>>)
    /\ UNCHANGED <<plan, ctx, opened, live, ran>>

Step ==
    /\ agenda # <<>>
    /\ \/ \E p \in {agenda[1][2]} : open(p) \/ Opened(p) \/ consume(p) \/ close(p)
       \/ \E p \in {agenda[1][2]}, e \in {agenda[1][Len(agenda[1])]} :
              \/ init(p, e) \/ runSide(p, e) \/ deinitVar(p, e)
              \/ deinitCallback(p, e) \/ subpipeline_consume(p, e) \/ deallocateStateVar(p, e)

\* PreparedStatement::execute runs the leaf pipelines one after another.
RECURSIVE execute(_)
execute(pips) == IF pips = <<>> THEN <<>> ELSE Run(Head(pips)) \o execute(Tail(pips))

Start(pl) ==
    /\ plan = pl
    /\ ctx = prepare(pl)
    /\ agenda = execute(getPipelines(ctx))
    /\ opened = {} /\ live = {} /\ built = {} /\ ran = <<>>
    /\ callbacks = [op \in {"router", "build", "probe", "side", "scan", "stream"} |->
                       [id \in 0..9 |-> [opens |-> 0, closes |-> 0]]]

Init == \E pl \in Plans : Start(pl)

Next == Step

Spec == Init /\ [][Next]_vars /\ WF_vars(Step)

-----------------------------------------------------------------------------
\* How many times a node hands its output to its consumer in this abstraction.
RECURSIVE Outputs(_), Nodes(_)
Outputs(n) ==
    CASE n.op = "union" -> SumFunction([i \in DOMAIN n.kids |-> Outputs(n.kids[i])])
      [] n.op \in {"select", "router", "cpu2gpu", "gpu2cpu"} -> Outputs(n.kids[1])
      [] n.op = "join" -> Outputs(n.kids[2])
      [] OTHER -> 1

Nodes(n) == {n} \union UNION {Nodes(n.kids[i]) : i \in DOMAIN n.kids}

Count(e) == Cardinality({i \in DOMAIN ran : ran[i] = e})

\* produce() leaves no generator and no device provider behind
\* (compileAndLoad asserts "Leftover pipelines!"), and every side of every
\* operator is compiled for the device getDeviceType() promises.
GenerationBalanced ==
    /\ Len(ctx.generators) = 1 /\ ctx.factories = <<"CPU">>
    /\ \A p \in DOMAIN ctx.pip : \A i \in DOMAIN ctx.pip[p].body :
           ctx.pip[p].body[i].op # "sink" => ctx.pip[p].body[i].dev = ctx.pip[p].dev

\* A pipeline is fed only while it is open, nothing is opened twice, and at
\* the end of the query everything opened has been closed.
FedWhileOpen ==
    /\ agenda # <<>> /\ agenda[1][1] \in {"consume", "close"} => agenda[1][2] \in opened
    /\ agenda # <<>> /\ agenda[1][1] = "open" => agenda[1][2] \notin opened
    /\ agenda = <<>> => opened = {} /\ live = {}

\* A hash table is probed only after the pipelines that build it have been
\* closed, and it is not built again afterwards: leaf pipelines run in the
\* order popPipeline finished them, so produce() must finish builds first.
BuiltBeforeProbed ==
    agenda # <<>> /\ agenda[1][1] = "run" =>
        /\ agenda[1][3].op = "probe" => agenda[1][3].id \in built /\ Count(<<"build", agenda[1][3].id>>) > 0
        /\ agenda[1][3].op = "build" => agenda[1][3].id \notin built

\* Every scan runs once and every row set it yields reaches the root: a leaf
\* pipeline left out of getPipelines, or one run twice, changes the counts.
EverythingRunsOnce ==
    agenda = <<>> =>
        /\ \A n \in Nodes(plan) : n.op = "scan" => Count(<<"scan", n.id>>) = 1
        /\ Count(<<"sink", 0>>) = Outputs(plan)

\* A state variable is used only between its init and its deinit.
UsesLive ==
    /\ agenda # <<>> /\ agenda[1][1] = "run" => Range(agenda[1][3].uses) \subseteq live
    /\ agenda # <<>> /\ agenda[1][1] = "flush" => Range(agenda[1][3]) \subseteq live

PipelinesSound ==
    GenerationBalanced /\ FedWhileOpen /\ BuiltBeforeProbed /\ EverythingRunsOnce /\ UsesLive

=============================================================================
