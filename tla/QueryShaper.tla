---------------------------- MODULE QueryShaper -----------------------------
(***************************************************************************)
(* Query plans, and how the query shapers spread a query over the cores,   *)
(* the GPUs and the servers.                                               *)
(***************************************************************************)
EXTENDS Naturals, Sequences, SequencesExt

(***************************************************************************)
(* The vocabulary of query plans: a plan is the sequence of the calls of a *)
(* RelBuilder chain, each call a record, the build side of a join a plan   *)
(* inside its record.  What an expression computes is left out: an         *)
(* expression is the name it is registered under and the attributes it     *)
(* reads.                                                                  *)
(***************************************************************************)

\* arg["n"]; arg[..].as(rel, n) of the attributes `of`; an expression that is
\* registered under no name; a RecordConstruction used as a composite key.
A(n)          == [kind |-> "attr", name |-> n, of |-> <<n>>, parts |-> <<>>]
As(n, of)     == [kind |-> "as", name |-> n, of |-> of, parts |-> <<>>]
E(of)         == [kind |-> "expr", name |-> "", of |-> of, parts |-> <<>>]
Key(n, parts) == [kind |-> "key", name |-> n, of |-> <<>>, parts |-> parts]

\* Leaves.
scan(table, attrs)     == [op |-> "scan", table |-> table, as |-> table, attrs |-> attrs, packed |-> TRUE]
scanAs(id, table, attrs) == [scan(table, attrs) EXCEPT !.as = id]

\* Tuple at a time operators.
unpack            == [op |-> "unpack", exprs |-> <<>>]
pack              == [op |-> "pack", exprs |-> <<>>]
packOnly(exprs)   == [op |-> "pack", exprs |-> exprs]
isPacked          == [op |-> "isPacked"]
filter(of)        == [op |-> "filter", of |-> of, hint |-> FALSE]
filterHinted(of)  == [op |-> "filter", of |-> of, hint |-> TRUE]
project(exprs)    == [op |-> "project", exprs |-> exprs]
reduce(aggs)      == [op |-> "reduce", aggs |-> aggs]
groupby(ks, aggs) == [op |-> "groupby", ks |-> ks, aggs |-> aggs]
sort(exprs, dirs) == [op |-> "sort", exprs |-> exprs, dirs |-> dirs]
unnest(of)        == [op |-> "unnest", of |-> of]
print(exprs)      == [op |-> "print", exprs |-> exprs]
printAll          == [op |-> "print", exprs |-> <<>>]
update(exprs)     == [op |-> "update", exprs |-> exprs]
hintRowCount      == [op |-> "hintRowCount", half |-> FALSE]
hintHalf          == [op |-> "hintRowCount", half |-> TRUE]

\* Joins: the table sized by the caller, or by the hints of the build side.
join(build, bk, pk)       == [op |-> "join", build |-> build, bk |-> bk, pk |-> pk, hint |-> FALSE]
joinHinted(build, bk, pk) == [op |-> "join", build |-> build, bk |-> bk, pk |-> pk, hint |-> TRUE]

\* Distribution.
router(n)          == [op |-> "router", n |-> n, to |-> "any"]
routerHash(n)      == [op |-> "router", n |-> n, to |-> "target"]
memmove(dev)       == [op |-> "memmove", dev |-> dev]
membrdcst(n)       == [op |-> "membrdcst", n |-> n]
to_gpu             == [op |-> "to_gpu"]
to_cpu             == [op |-> "to_cpu"]
router_scaleout(n, to) == [op |-> "router_scaleout", n |-> n, to |-> to]
memmove_scaleout       == [op |-> "memmove_scaleout"]
membrdcst_scaleout(n)  == [op |-> "membrdcst_scaleout", n |-> n]
split(n, i, to)        == [op |-> "split", n |-> n, i |-> i, to |-> to]
unionAll(others)       == [op |-> "unionAll", others |-> others]

\* Bloom filters.
bloomfilter_build(a, id)  == [op |-> "bloomfilter_build", a |-> a, id |-> id]
bloomfilter_probe(a, id)  == [op |-> "bloomfilter_probe", a |-> a, id |-> id]
bloomfilter_repack(a, id) == [op |-> "bloomfilter_repack", a |-> a, id |-> id]

\* The i-th build side that a query shaper hands to the query's lambda.
build(i) == <<[op |-> "build", i |-> i]>>

(***************************************************************************)
(* The query shapers: how a query given as one probe pipeline, its build   *)
(* sides and what follows is spread over the cores, the GPUs and the       *)
(* servers.  A query is a record: probe and builds are scans made through  *)
(* the shaper, pipe is what its lambda applies to the distributed probe    *)
(* (with build(i) for the i-th distributed build side), top is what        *)
(* follows the call of parallel.  A shaper is a record of its virtual      *)
(* methods' answers; e is the cluster.                                     *)
(***************************************************************************)

getDefaultDOP(e, dev) == IF dev = "CPU" THEN e.cores ELSE e.gpus
\* All servers have the same cores, and StorageDOPFactor its default of 1.
getDOP(e, m) == getDefaultDOP(e, m.dev)
When(c, steps) == IF c THEN steps ELSE <<>>

---------------------------------------------------------------------------
(* The classes *)

QueryShaperBase == [hints |-> FALSE, scaleout |-> FALSE, dev |-> "GPU", doMove |-> TRUE,
                    inter |-> "none", intra |-> "none", moreMoves |-> FALSE, morsel |-> FALSE,
                    half |-> FALSE, hybrid |-> "no"]
InputPrefixQueryShaper == [QueryShaperBase EXCEPT !.hints = TRUE]
GPUOnlySingleServer == InputPrefixQueryShaper
LazyGPUOnlySingleServer == [GPUOnlySingleServer EXCEPT !.doMove = FALSE, !.moreMoves = TRUE]
CPUOnlySingleServer == [InputPrefixQueryShaper EXCEPT !.dev = "CPU"]
CPUOnlySingleServerMorsel == [CPUOnlySingleServer EXCEPT !.morsel = TRUE]
GPUOnlyHalfFile == [InputPrefixQueryShaper EXCEPT !.half = TRUE]
CPUOnlyHalfFile == [GPUOnlyHalfFile EXCEPT !.dev = "CPU"]
HybridSingleServer == [InputPrefixQueryShaper EXCEPT !.hybrid = "eager"]
LazyHybridSingleServer == [InputPrefixQueryShaper EXCEPT !.hybrid = "lazy"]
HybridSingleServerMorsel == [HybridSingleServer EXCEPT !.morsel = TRUE]
LazyHybridSingleServerMorsel == [LazyHybridSingleServer EXCEPT !.morsel = TRUE]

ScaleOutQueryShaper == [InputPrefixQueryShaper EXCEPT !.scaleout = TRUE, !.dev = "CPU",
                                                      !.inter = "self move", !.intra = "router"]
CPUOnlyNoShuffle == ScaleOutQueryShaper
CPUOnlyShuffleAll == [ScaleOutQueryShaper EXCEPT !.inter = "next move"]
GPUOnlyShuffleAll == [CPUOnlyShuffleAll EXCEPT !.dev = "GPU", !.intra = "router move", !.moreMoves = TRUE]
CPUOnlyShuffleAllCorrectPlan == [ScaleOutQueryShaper EXCEPT !.inter = "next", !.intra = "router pull"]
GPUOnlyShuffleAllCorrectPlan == [CPUOnlyShuffleAllCorrectPlan EXCEPT !.dev = "GPU", !.moreMoves = TRUE]
LazyGPUNoShuffle == [CPUOnlyNoShuffle EXCEPT !.dev = "GPU", !.doMove = FALSE, !.moreMoves = TRUE]
GPUOnlyLocalAllCorrectPlan == [GPUOnlyShuffleAllCorrectPlan EXCEPT !.inter = "self"]
LazyGPUOnlyLocalAllCorrectPlan == [GPUOnlyLocalAllCorrectPlan EXCEPT !.intra = "router"]

---------------------------------------------------------------------------
(* Scans *)

\* GPUOnlyHalfFile reads half of lineorder and halves its hint.
shapedScan(m, s) ==
  CASE ~m.hints -> <<s>>
    [] m.half /\ s.table = "lineorder" -> <<s, hintHalf>>
    [] OTHER -> <<s, hintRowCount>>

\* The scans of an input, those of joins made before the distribution too.
RECURSIVE throughShaper(_, _)
throughShaper(m, input) ==
  FoldLeft(LAMBDA a, s : a \o CASE s.op = "scan" -> shapedScan(m, s)
                                [] s.op = "join" -> <<[s EXCEPT !.build = throughShaper(m, @)]>>
                                [] OTHER -> <<s>>, <<>>, input)

---------------------------------------------------------------------------
(* Distribution *)

distribute_local_build(e, m, input) ==
  input \o <<membrdcst(getDOP(e, m)), routerHash(getDOP(e, m))>> \o When(m.dev = "GPU", <<to_gpu>>)

distribute_morsel_build(e, m, input) == input \o <<router(getDOP(e, m)), memmove(m.dev)>>

distribute_build(e, m, input) ==
  CASE m.morsel -> distribute_morsel_build(e, m, input)
    [] m.scaleout -> distribute_local_build(e, m, input \o <<membrdcst_scaleout(e.servers),
                                                             router_scaleout(e.servers, "target")>>)
    [] OTHER -> distribute_local_build(e, m, input)

distribute_probe_interserver(e, m, input) ==
  input \o CASE m.inter = "self move" -> <<router_scaleout(e.servers, "self"), memmove_scaleout>>
             [] m.inter = "next move" -> <<router_scaleout(e.servers, "next"), memmove_scaleout>>
             [] OTHER -> <<router_scaleout(e.servers, m.inter)>>

distribute_probe_intraserver(e, m, input) ==
  input \o <<router(getDOP(e, m))>>
        \o When(m.intra = "router move" /\ m.doMove, <<memmove(m.dev)>>)
        \o When(m.intra = "router pull", <<memmove_scaleout>>)
        \o When(m.dev = "GPU", <<to_gpu>>)

distribute_probe(e, m, input) ==
  IF m.scaleout THEN distribute_probe_intraserver(e, m, distribute_probe_interserver(e, m, input))
  ELSE input \o <<router(getDOP(e, m))>> \o When(m.doMove, <<memmove(m.dev)>>) \o When(m.dev = "GPU", <<to_gpu>>)

collect_unpacked(e, m, input) ==
  input \o When(m.dev = "GPU", <<to_cpu>>) \o <<router(1)>>
        \o When(m.scaleout, <<router_scaleout(e.servers, "first")>>)

collect_packed(e, m, input) ==
  collect_unpacked(e, m, input) \o (IF m.scaleout THEN <<memmove_scaleout>> ELSE <<memmove("CPU")>>)
                                \o When(m.moreMoves, <<memmove("CPU")>>)

\* isPacked of a pipeline: whether it packed its tuples after it unpacked them.
Repacked(input) == LET moves == SelectSeq(input, LAMBDA s : s.op \in {"pack", "unpack"})
                   IN  moves # <<>> /\ Last(moves).op = "pack"
collect(e, m, input) ==
  LET asked == Append(input, isPacked)
  IN  IF Repacked(input) THEN collect_packed(e, m, asked) ELSE collect_unpacked(e, m, asked)

---------------------------------------------------------------------------
(* parallel *)

\* The query's lambda applied to a probe and its build sides.
pathBuilder(q, probe, builds) ==
  probe \o [i \in DOMAIN q.pipe |->
              IF q.pipe[i].op # "join" THEN q.pipe[i]
              ELSE [q.pipe[i] EXCEPT !.build = builds[@[1].i] \o Tail(@)]]

parallelOne(e, m, q, probe, builds) ==
  LET distributed == [i \in DOMAIN builds |-> distribute_build(e, m, builds[i])]
  IN  collect(e, m, pathBuilder(q, distribute_probe(e, m, probe), distributed))

\* The hybrid shapers: the build sides broadcast to a CPU and a GPU
\* alternative, the probe split among the two, the results united.
parallelHybrid(e, m, q, probe, builds) ==
  LET cpu == IF m.morsel THEN CPUOnlySingleServerMorsel ELSE CPUOnlySingleServer
      gpu == IF m.hybrid = "lazy" THEN LazyGPUOnlySingleServer ELSE GPUOnlySingleServer
      Half(i) == [k \in DOMAIN builds |-> builds[k] \o <<membrdcst(2), split(2, i, "target")>>]
      Branch(s, i) == parallelOne(e, s, q, Append(probe, split(2, i, "any")), Half(i))
  IN  Branch(gpu, 0) \o <<unionAll(<<Branch(cpu, 1)>>), router(1)>>

parallel(e, m, q) ==
  LET probe  == throughShaper(m, q.probe)
      builds == [i \in DOMAIN q.builds |-> throughShaper(m, q.builds[i])]
  IN  IF m.hybrid = "no" THEN parallelOne(e, m, q, probe, builds) ELSE parallelHybrid(e, m, q, probe, builds)

shaped(e, m, q) == parallel(e, m, q) \o q.top
unshaped(q) == pathBuilder(q, q.probe, q.builds) \o q.top
=============================================================================
