----------------------------- MODULE RelBuilder -----------------------------
(***************************************************************************)
(* What a chain of RelBuilder calls builds and what the plan then computes *)
(* on a cluster.  A relation carries the row type and the traits of its    *)
(* root operator (device, degree of parallelism, replication, servers,     *)
(* packed) and the rows its streams produce.  Every row has a place        *)
(* <<server, stream>> and the base rows it comes from, so that a lost, a   *)
(* duplicated or a misplaced row shows in the result.  An assertion or an  *)
(* exception of the builder ends the chain (err).                          *)
(***************************************************************************)
EXTENDS QueryShaper, Integers, FiniteSets, SequencesExt

CONSTANTS TableRows,   \* rows of every table
          Third,       \* columns whose value repeats with the row number modulo 3
          BlockRows,   \* rows of a block: a table of one block lies on one server
          MaxStreams   \* bound: a plan that asks for more streams gets these

Concat(ss) == FoldLeft(LAMBDA a, b : a \o b, <<>>, ss)
Listed(S)  == FoldSet(LAMBDA x, s : Append(s, x), <<>>, S)

---------------------------------------------------------------------------
(* Row types *)

Positional == [n \in {"$0", "$1", "$2", "$3", "$4", "$5", "$6", "$7", "$8", "$9", "$10", "$11", "$12"} |->
               CHOOSE i \in 0 .. 12 : n = (<<"$0", "$1", "$2", "$3", "$4", "$5", "$6", "$7", "$8", "$9",
                                            "$10", "$11", "$12">>)[i + 1]]

\* expression_t::operator[]: by name, the last of that name, else by position.
Find(attrs, n) ==
  LET Named == {i \in DOMAIN attrs : attrs[i].name = n}
  IN  IF Named # {} THEN CHOOSE i \in Named : \A j \in Named : j <= i
      ELSE IF n \in DOMAIN Positional /\ Positional[n] < Len(attrs) THEN Positional[n] + 1
      ELSE 0

Known(attrs, of) == \A i \in DOMAIN of : Find(attrs, of[i]) # 0
Got(attrs, n) == attrs[Find(attrs, n)]

\* The attribute an expression registers: a plain projection keeps the name of
\* the attribute it resolved to, .as gives a new one.
Registered(attrs, x) ==
  IF x.kind = "attr" THEN Got(attrs, x.name)
  ELSE [name |-> x.name,
        src  |-> UNION {Got(attrs, x.of[i]).src : i \in DOMAIN x.of},
        agg  |-> \E i \in DOMAIN x.of : Got(attrs, x.of[i]).agg,
        blk  |-> \E i \in DOMAIN x.of : Got(attrs, x.of[i]).blk]

Resolves(attrs, x) ==
  IF x.kind = "key" THEN \A i \in DOMAIN x.parts : Known(attrs, x.parts[i].of)
  ELSE Known(attrs, x.of)
Isregistered(x) == x.kind # "expr" /\ x.name # ""

ToOutput(attrs, xs) == [i \in DOMAIN xs |-> Registered(attrs, xs[i])]
Blocks(attrs)       == SelectSeq(attrs, LAMBDA a : a.blk)
Except(attrs, n)    == SelectSeq(attrs, LAMBDA a : a.name # n)
Blocked(attrs, b)   == [i \in DOMAIN attrs |-> [attrs[i] EXCEPT !.blk = b]]

Failed(r, how)   == [r EXCEPT !.err = how]
Require(c, how, r, res) == IF c THEN res ELSE Failed(r, how)

---------------------------------------------------------------------------
(* Values *)

Cell(col, row) == IF col \in Third THEN row % 3 ELSE row \div 2
SumOf(f, S) == FoldLeft(LAMBDA a, x : a + f[x], 0, Listed(S))

\* The value of an attribute in a row: an aggregate depends on all the base
\* rows merged so far, any other attribute on its columns.
Val(a, w) ==
  IF a.agg THEN Len(w.from)
  ELSE SumOf([p \in a.src |-> Cell(p[2], (CHOOSE q \in w.from[1] : q[1] = p[1])[2])], a.src)

Vals(as, w) == [i \in DOMAIN as |-> Val(as[i], w)]
Passes(as, w) == \E i \in DOMAIN as : Val(as[i], w) # 1
KeyAttrs(attrs, x) ==
  IF x.kind = "key" THEN ToOutput(attrs, x.parts) ELSE <<Registered(attrs, x)>>

---------------------------------------------------------------------------
(* Traits and rows, operator by operator *)

\* Scan: one stream on a CPU; getDOPServers is a constant.
Scan(e, s) ==
  LET n == TableRows[s.table]
      Home(i) == IF n <= BlockRows THEN 0 ELSE i % e.servers
  IN  [attrs |-> [i \in DOMAIN s.attrs |-> [name |-> s.attrs[i], src |-> {<<s.as, s.attrs[i]>>},
                                            agg |-> FALSE, blk |-> s.packed]],
       dev |-> "CPU", dop |-> 1, servers |-> 2, rep |-> "UNIQUE",
       packed |-> IF s.packed THEN "yes" ELSE "no",
       rows |-> [i \in 1 .. n |-> [at |-> <<Home(i - 1), 0>>, from |-> <<{<<s.as, i - 1>>}>>, tgt |-> 0]],
       size |-> <<0, 0>>, hinted |-> n, fits |-> TRUE, err |-> "none"]

\* hintRowCount of a shaper's row hint: of the server's share of the table.
HintRowCount(e, r, s) ==
  [r EXCEPT !.size = IF s.half THEN <<r.hinted, 2>>
                     ELSE IF r.hinted <= BlockRows THEN <<r.hinted, 1>> ELSE <<r.hinted, e.servers>>]

Times(size, n, d) == <<size[1] * n, size[2] * d>>

\* A stream of [0, n): where a row goes that no expression directs.
Chosen(e, i, n) == CASE e.pick = "spread" -> i % n [] e.pick = "first" -> 0 [] OTHER -> n - 1

\* memmove, to_gpu: only the block attributes cross.
OnlyBlocks(r, res) == Require(Blocks(r.attrs) # <<>>, "assert", r, [res EXCEPT !.attrs = Blocks(r.attrs)])
MemMove(r) == Require(r.packed = "yes", "assert", r, OnlyBlocks(r, r))
CpuToGpu(r) == Require(r.dev = "CPU", "assert", r, OnlyBlocks(r, [r EXCEPT !.dev = "GPU"]))
GpuToCpu(r) == Require(r.dev = "GPU", "assert", r, [r EXCEPT !.dev = "CPU"])

BroadcastTarget == [name |-> "__broadcastTarget", src |-> {}, agg |-> FALSE, blk |-> FALSE]
Copies(rows, n) == Concat([i \in DOMAIN rows |-> [t \in 1 .. n |-> [rows[i] EXCEPT !.tgt = t - 1]]])

\* membrdcst: every block once for each target.
MemBroadcast(r, n) ==
  OnlyBlocks(r, [r EXCEPT !.rep = "BRDCST", !.rows = Copies(r.rows, n), !.size = Times(@, n, 1)])
WithTarget(r) == IF r.err = "none" THEN [r EXCEPT !.attrs = Append(@, BroadcastTarget)] ELSE r

HasTarget(r) == Find(r.attrs, "__broadcastTarget") # 0
StreamOf(e, to, w, i, n) == IF to = "target" THEN w.tgt % n ELSE Chosen(e, i, n)

Bounded(n) == IF n > MaxStreams THEN MaxStreams ELSE n

\* router: hash based on the broadcast target, or wherever the policy chooses.
Router(e, r, s) ==
  Require(s.to = "any" \/ HasTarget(r), "throw", r,
    [r EXCEPT !.attrs = IF s.to = "any" THEN @ ELSE Except(@, "__broadcastTarget"),
              !.dop   = Bounded(s.n),
              !.size  = Times(@, r.dop, Bounded(s.n)),
              !.rows  = [i \in DOMAIN r.rows |->
                         [r.rows[i] EXCEPT !.at[2] = StreamOf(e, s.to, r.rows[i], i, Bounded(s.n))]]])

\* split: the i-th alternative keeps its share of the rows.
Split(e, r, s) ==
  LET idx == Listed({i \in DOMAIN r.rows : StreamOf(e, s.to, r.rows[i], i, s.n) = s.i})
  IN  Require(s.to = "any" \/ HasTarget(r), "throw", r,
        [r EXCEPT !.attrs = IF s.to = "any" THEN @ ELSE Except(@, "__broadcastTarget"),
                  !.rep   = "UNIQUE",
                  !.rows  = [k \in DOMAIN idx |-> r.rows[idx[k]]]])

\* unionAll: a router with one producer for each child.
UnionAll(r, others) ==
  LET all == <<r>> \o others
      Agree(f) == Cardinality({all[i][f] : i \in DOMAIN all}) = 1
  IN  IF \E i \in DOMAIN all : all[i].err # "none" THEN Failed(r, "assert")
      ELSE Require(Agree("dev") /\ Agree("dop") /\ Agree("packed"), "assert", r,
             [r EXCEPT !.rows = Concat([i \in DOMAIN all |-> all[i].rows]), !.size = <<0, 0>>,
                       !.fits = \A i \in DOMAIN all : all[i].fits])

\* router_scaleout: to the server an expression names, one stream there.
RouterScaleOut(r, s) ==
  LET Server(w) == CASE s.to = "target" -> w.tgt
                     [] s.to = "self"   -> w.at[1]
                     [] s.to = "next"   -> w.at[1] + 1
                     [] OTHER           -> 0
  IN  Require(s.to # "target" \/ HasTarget(r), "throw", r,
        [r EXCEPT !.attrs = Except(@, "__broadcastTarget"),
                  !.dop = 1, !.servers = s.n, !.rep = "UNIQUE",
                  !.size = Times(@, r.servers, s.n),
                  !.rows = [i \in DOMAIN r.rows |->
                            [r.rows[i] EXCEPT !.at = <<Server(r.rows[i]) % s.n, 0>>]]])

MemBroadcastScaleOut(r, n) ==
  OnlyBlocks(r, [r EXCEPT !.rep = "BRDCST", !.rows = Copies(r.rows, n), !.size = Times(@, r.servers, 1)])

Outputs(r, xs, how, res) ==
  IF \E i \in DOMAIN xs : ~Resolves(r.attrs, xs[i]) THEN Failed(r, "throw")
  ELSE Require(\A i \in DOMAIN xs : Isregistered(xs[i]), how, r, res)

\* BlockToTuples: asked whether it is packed, it asserts that its child is.
BlockToTuples(r, s) ==
  Outputs(r, s.exprs, "throw",
    [r EXCEPT !.attrs  = Blocked(IF s.exprs = <<>> THEN @ ELSE ToOutput(@, s.exprs), FALSE),
              !.packed = IF @ = "yes" THEN "no" ELSE "fails"])

\* HashRearrange and GpuHashRearrange: asked whether it is packed, it asserts that its
\* child is not.
Pack(r, s) ==
  Outputs(r, s.exprs, "throw",
    [r EXCEPT !.attrs = Blocked(IF s.exprs = <<>> THEN @ ELSE ToOutput(@, s.exprs), TRUE),
              !.packed = IF @ = "no" THEN "yes" ELSE "fails", !.size = <<0, 0>>])

\* collect() asks its input.
AskPacked(r) == Require(r.packed # "fails", "assert", r, r)

\* The selectivity a hint states is a literal about the data of the benchmark; it is
\* e.hint times that of the model's rows.
Selectivity(e, s, rows, kept) ==
  IF s.hint /\ rows # <<>> THEN <<Len(kept) * e.hint[1], Len(rows) * e.hint[2]>> ELSE <<1, 1>>

Select(e, r, s) ==
  LET as   == [i \in DOMAIN s.of |-> Got(r.attrs, s.of[i])]
      kept == SelectSeq(r.rows, LAMBDA w : Passes(as, w))
      sel  == Selectivity(e, s, r.rows, kept)
  IN  IF ~Known(r.attrs, s.of) THEN Failed(r, "throw")
      ELSE [r EXCEPT !.rows = kept, !.size = Times(@, sel[1], sel[2])]

Project(r, s) ==
  Require(s.exprs # <<>>, "assert", r, Outputs(r, s.exprs, "throw", [r EXCEPT !.attrs = ToOutput(@, s.exprs)]))

Aggregates(attrs, xs) == [i \in DOMAIN xs |-> [Registered(attrs, xs[i]) EXCEPT !.agg = TRUE, !.blk = FALSE]]
Streams(e, r) == {<<v, i>> : v \in 0 .. e.servers - 1, i \in 0 .. r.dop - 1}
Merged(ws) == Concat([i \in DOMAIN ws |-> ws[i].from])

\* Reduce, GpuReduce: every stream closes with one row, of an empty input too.
Reduce(e, r, s) ==
  Outputs(r, s.aggs, "throw",
    [r EXCEPT !.attrs = Aggregates(@, s.aggs), !.size = <<0, 0>>,
              !.rows  = LET ps == Listed(Streams(e, r))
                        IN  [k \in DOMAIN ps |->
                             [at |-> ps[k], tgt |-> 0,
                              from |-> Merged(SelectSeq(r.rows, LAMBDA w : w.at = ps[k]))]]])

\* HashGroupByChained, GpuHashGroupByChained: one table for each stream.
GroupBy(r, s) ==
  LET ks == ToOutput(r.attrs, s.ks)
      Of(w) == <<w.at, Vals(ks, w)>>
      gs == Listed({Of(r.rows[i]) : i \in DOMAIN r.rows})
  IN  Outputs(r, s.ks \o s.aggs, "throw",
        [r EXCEPT !.attrs = Blocked(ks, FALSE) \o Aggregates(@, s.aggs), !.size = <<0, 0>>,
                  !.rows  = [k \in DOMAIN gs |->
                             [at |-> gs[k][1], tgt |-> 0,
                              from |-> Merged(SelectSeq(r.rows, LAMBDA w : Of(w) = gs[k]))]]])

\* Sort of each stream; on a CPU the sorted record is unpacked and projected.
Sort(r, s) ==
  IF r.packed = "fails" THEN Failed(r, "assert")
  ELSE IF r.packed = "yes" \/ Len(s.exprs) # s.dirs THEN Failed(r, "throw")
  ELSE Outputs(r, s.exprs, "throw",
         [r EXCEPT !.attrs = ToOutput(@, s.exprs), !.size = <<0, 0>>,
                   !.packed = IF r.dev = "CPU" THEN "fails" ELSE @])

\* print: the listed expressions, which must have names.
Flush(r, s) == Require(s.exprs # <<>> \/ r.attrs # <<>>, "assert", r, Outputs(r, s.exprs, "assert", r))

\* Unnest: the elements of a nested collection, one for each row here.
Unnest(r, s) ==
  Require(Known(r.attrs, s.of), "throw", r, [r EXCEPT !.size = <<0, 0>>])

---------------------------------------------------------------------------
(* Joins *)

\* The packets of one side: its attributes except the key.
Payload(attrs, x) == SelectSeq(attrs, LAMBDA a : x.kind = "key" \/ a # Registered(attrs, x))
KeyOutput(attrs, x) ==
  IF x.kind # "key" THEN <<Registered(attrs, x)>>
  ELSE <<[name |-> x.name, src |-> UNION {a.src : a \in {KeyAttrs(attrs, x)[i] : i \in DOMAIN x.parts}},
          agg |-> FALSE, blk |-> FALSE]>> \o KeyAttrs(attrs, x)

Product(b, w) ==
  [w EXCEPT !.from = Concat([i \in DOMAIN b.from |-> [j \in DOMAIN w.from |-> b.from[i] \union w.from[j]]])]

PerStream(b, r) == b.rep = "BRDCST" \/ r.dop = 1
TableOf(b, r, at) == IF PerStream(b, r) THEN at ELSE <<at[1]>>

\* join with hints: expected() * 1.1, times the streams of a shared table.
Expected(b, r) == IF PerStream(b, r) THEN b.size ELSE Times(b.size, b.dop, 1)
Fits(b, r) ==
  \A t \in {TableOf(b, r, b.rows[i].at) : i \in DOMAIN b.rows} :
     LET n == Cardinality({i \in DOMAIN b.rows : TableOf(b, r, b.rows[i].at) = t})
     IN  n <= (11 * Expected(b, r)[1]) \div (10 * Expected(b, r)[2])

HashJoin(r, b, s) ==
  LET bks == KeyAttrs(b.attrs, s.bk)
      pks == KeyAttrs(r.attrs, s.pk)
      Matches(w) == SelectSeq(b.rows, LAMBDA v : /\ TableOf(b, r, v.at) = TableOf(b, r, w.at)
                                                 /\ Vals(bks, v) = Vals(pks, w))
      Joined(w)  == LET m == Matches(w) IN [k \in DOMAIN m |-> Product(m[k], w)]
  IN  CASE b.err # "none" -> Failed(r, b.err)
        [] ~(Resolves(b.attrs, s.bk) /\ Resolves(r.attrs, s.pk)) -> Failed(r, "throw")
        [] ~(Isregistered(s.bk) /\ Isregistered(s.pk)) -> Failed(r, "throw")
        [] s.hint /\ b.size[2] = 0 -> Failed(r, "throw")
        [] \/ b.dev # r.dev \/ b.dop # r.dop \/ b.servers # r.servers
           \/ r.dev = "GPU" /\ ~PerStream(b, r) -> Failed(r, "assert")
        [] OTHER ->
             [r EXCEPT !.attrs = Payload(b.attrs, s.bk) \o Payload(r.attrs, s.pk)
                                 \o KeyOutput(b.attrs, s.bk) \o KeyOutput(r.attrs, s.pk),
                       !.packed = IF b.packed = @ THEN @ ELSE "fails",
                       !.rows   = Concat([i \in DOMAIN r.rows |-> Joined(r.rows[i])]),
                       !.size   = <<0, 0>>,
                       !.fits   = @ /\ b.fits /\ (s.hint => Fits(b, r))]

---------------------------------------------------------------------------
(* Bloom filters: a registry of filters by id and NUMA node *)

Node(e, w) == <<w.at[1], w.at[2] % e.nodes>>

\* setBloomFilter replaces the filter of the node: the last stream of a node
\* decides what the filter holds.
Built(e, r, s) ==
  LET Nodes == {<<v, i % e.nodes>> : v \in {0}, i \in 0 .. r.dop - 1}
      LastOf(k) == CHOOSE i \in 0 .. r.dop - 1 :
                    i % e.nodes = k[2] /\ \A j \in 0 .. r.dop - 1 : j % e.nodes = k[2] => j <= i
  IN  {[id |-> s.id, node |-> k,
        vals |-> {Val(Got(r.attrs, s.a), r.rows[i]) :
                    i \in {x \in DOMAIN r.rows : r.rows[x].at = <<k[1], LastOf(k)>>}}] : k \in Nodes}

\* getBloomFilter asserts that the node has the filter; the repacking probe
\* may also let rows through that a vector does not mask.
BloomProbe(e, r, s, blooms) ==
  LET Of(k) == {b \in blooms : b.id = s.id /\ b.node = k}
      Streamed == {<<0, i % e.nodes>> : i \in 0 .. r.dop - 1}
      Hit(w) == e.fp \/ \E b \in Of(Node(e, w)) : Val(Got(r.attrs, s.a), w) \in b.vals
  IN  IF ~Known(r.attrs, <<s.a>>) THEN Failed(r, "throw")
      ELSE Require(\A k \in Streamed : Of(k) # {}, "assert", r,
             [r EXCEPT !.rows = SelectSeq(@, Hit), !.size = <<0, 0>>])

---------------------------------------------------------------------------
(* The chain *)

RECURSIVE eval(_, _, _)
RECURSIVE Blooms(_, _)

Apply(e, r, s, blooms) ==
  CASE s.op = "scan" -> Scan(e, s)
    [] r.err # "none" -> r
    [] s.op = "hintRowCount" -> HintRowCount(e, r, s)
    [] s.op \in {"memmove"} -> MemMove(r)
    [] s.op = "memmove_scaleout" -> OnlyBlocks(r, r)
    [] s.op = "membrdcst" -> WithTarget(MemBroadcast(r, s.n))
    [] s.op = "membrdcst_scaleout" -> WithTarget(MemBroadcastScaleOut(r, s.n))
    [] s.op = "router" -> Router(e, r, s)
    [] s.op = "router_scaleout" -> RouterScaleOut(r, s)
    [] s.op = "to_gpu" -> CpuToGpu(r)
    [] s.op = "to_cpu" -> GpuToCpu(r)
    [] s.op = "split" -> Split(e, r, s)
    [] s.op = "unionAll" -> UnionAll(r, [i \in DOMAIN s.others |-> eval(e, s.others[i], blooms)])
    [] s.op = "isPacked" -> AskPacked(r)
    [] s.op = "unpack" -> BlockToTuples(r, s)
    [] s.op = "pack" -> Pack(r, s)
    [] s.op = "filter" -> Select(e, r, s)
    [] s.op = "project" -> Project(r, s)
    [] s.op = "reduce" -> Reduce(e, r, s)
    [] s.op = "groupby" -> GroupBy(r, s)
    [] s.op = "sort" -> Sort(r, s)
    [] s.op = "unnest" -> Unnest(r, s)
    [] s.op \in {"print", "update"} -> Flush(r, s)
    [] s.op = "join" -> HashJoin(r, eval(e, s.build, blooms), s)
    [] s.op = "bloomfilter_build" -> Require(Known(r.attrs, <<s.a>>), "throw", r, [r EXCEPT !.size = <<0, 0>>])
    [] OTHER -> BloomProbe(e, r, s, blooms)

Empty == [attrs |-> <<>>, err |-> "none"]

\* One step after the other, split in halves.
RECURSIVE Run(_, _, _, _)
Run(e, r, steps, blooms) ==
  LET n == Len(steps)
  IN  CASE n = 0 -> r
        [] n = 1 -> Apply(e, r, steps[1], blooms)
        [] OTHER -> CHOOSE last \in {Run(e, first, SubSeq(steps, n \div 2 + 1, n), blooms) :
                                     first \in {Run(e, r, SubSeq(steps, 1, n \div 2), blooms)}} : TRUE
Upto(e, plan, k, blooms) == Run(e, Empty, SubSeq(plan, 1, k), blooms)

\* Joins produce their build side first: by the time a probe looks up a filter,
\* the build sides further up the chain have run.
eval(e, plan, blooms) == Upto(e, plan, Len(plan), blooms)
Blooms(e, plan) ==
  UNION {CASE plan[i].op = "bloomfilter_build" ->
                LET r == Upto(e, plan, i, {}) IN IF r.err = "none" THEN Built(e, r, plan[i]) ELSE {}
           [] plan[i].op = "join" -> Blooms(e, plan[i].build)
           [] OTHER -> {} : i \in DOMAIN plan}

---------------------------------------------------------------------------
(* What a plan promises *)

Distribution == {"memmove", "memmove_scaleout", "membrdcst", "membrdcst_scaleout", "router", "router_scaleout",
                 "to_gpu", "to_cpu", "split", "unionAll", "pack", "unpack", "isPacked", "hintRowCount",
                 "bloomfilter_build", "bloomfilter_probe", "bloomfilter_repack"}

\* The query without its distribution, in one stream of one server.
RECURSIVE Logical(_)
Logical(plan) ==
  LET own == SelectSeq(plan, LAMBDA s : s.op \notin Distribution)
  IN  [i \in DOMAIN own |->
         CASE own[i].op = "join" -> [own[i] EXCEPT !.build = Logical(@), !.hint = FALSE]
           [] own[i].op = "scan" -> [own[i] EXCEPT !.packed = FALSE]
           [] OTHER -> own[i]]

Alone(e) == [e EXCEPT !.servers = 1, !.pick = "first"]
BagOf(s) == [x \in {s[i] : i \in DOMAIN s} |-> Cardinality({i \in DOMAIN s : s[i] = x})]
ResultAt(r, v) == BagOf([i \in DOMAIN SelectSeq(r.rows, LAMBDA w : w.at[1] = v) |->
                         BagOf(SelectSeq(r.rows, LAMBDA w : w.at[1] = v)[i].from)])

\* How often a server's result uses this combination of base rows.
Uses(r, v, x) == SumOf([i \in DOMAIN r.rows |->
                        IF r.rows[i].at[1] = v THEN Cardinality({k \in DOMAIN r.rows[i].from : r.rows[i].from[k] = x}) ELSE 0],
                       DOMAIN r.rows)
Combinations(r) == UNION {ToSet(r.rows[i].from) : i \in DOMAIN r.rows}
=============================================================================
