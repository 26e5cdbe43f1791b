----------------------------- MODULE Aggregates -----------------------------
(***************************************************************************)
(* Grouping and joining over the catalog's multimaps, reducing and sorting. *)
(***************************************************************************)
EXTENDS Integers, Sequences, SequencesExt, FiniteSetsExt

CONSTANTS Hash(_),    \* the hash of a grouping record
          Monoids,    \* the accumulators opt::Nest is asked for
          Bits,       \* the width of an integer
          WarpSize,   \* lanes of a warp, a power of two
          BlockRows   \* the records one block of a sort has room for

(***************************************************************************)
(* The operators that keep their tuples in the catalog's multimaps: Nest    *)
(* (one SUM per group), opt::Nest (several accumulators per group) and      *)
(* Join, with the helpers the generated code calls to insert and to probe.  *)
(*                                                                         *)
(* A multimap is a sequence of [key, value] entries ordered by key; entries *)
(* of one key keep the order of their insertion.  Nest and opt::Nest key    *)
(* theirs with the hash of the grouping record and never compare the record *)
(* itself: Hash is a parameter, so that two records may share a hash.       *)
(***************************************************************************)

----------------------------------------------------------------------------
(* The multimaps of the catalog.                                           *)

\* upper_bound(key): how many entries have a key not above this one.
UpperBound(HT, key) == Len(SelectSeq(HT, LAMBDA e : e.key <= key))

\* insertToHT: a copy of the payload goes behind its key's entries.
insertToHT(HT, key, value) ==
  LET n == UpperBound(HT, key)
  IN  SubSeq(HT, 1, n) \o <<[key |-> key, value |-> value]>>
        \o SubSeq(HT, n + 1, Len(HT))

NULL == [null |-> TRUE]

\* probeHT: the payloads of a key, and a null that ends them.
probeHT(HT, key) ==
  LET hits == SelectSeq(HT, LAMBDA e : e.key = key)
  IN  Append([i \in 1 .. Len(hits) |-> hits[i].value], NULL)

\* getMetadataHT: every key once, in order, with its number of entries, and
\* an entry of size 0 that ends them.  The loop jumps with upper_bound.
getMetadataHT(HT) ==
  LET RECURSIVE from(_)
      from(i) ==
        IF i > Len(HT) THEN <<[bucketSize |-> 0]>>
        ELSE LET next == UpperBound(HT, HT[i].key) + 1
             IN  <<[hashKey |-> HT[i].key, bucketSize |-> next - i]>> \o from(next)
  IN  from(1)

\* The integer tables of Join are keyed with the join key itself.
insertIntKeyToHT(HT, key, value) == insertToHT(HT, key, value)
probeIntHT(HT, key) == probeHT(HT, key)

----------------------------------------------------------------------------
(* The accumulators: a tuple counts only when it satisfies the predicate.   *)

generateSum(acc, t) == IF t.pred THEN acc + t.val ELSE acc
generateMul(acc, t) == IF t.pred THEN acc * t.val ELSE acc
generateMax(acc, t) == IF t.pred /\ t.val > acc THEN t.val ELSE acc
generateOr(acc, t) == IF t.pred THEN acc \/ t.val > 0 ELSE acc
generateAnd(acc, t) == IF t.pred THEN acc /\ t.val > 0 ELSE acc

\* The maximum starts from the zero of the naturals.
resetAccumulator(m) ==
  CASE m = "SUM" -> 0 [] m = "MULTIPLY" -> 1 [] m = "MAX" -> 0
    [] m = "OR" -> FALSE [] m = "AND" -> TRUE

Accumulate(m, acc, t) ==
  CASE m = "SUM" -> generateSum(acc, t) [] m = "MULTIPLY" -> generateMul(acc, t)
    [] m = "MAX" -> generateMax(acc, t) [] m = "OR" -> generateOr(acc, t)
    [] m = "AND" -> generateAnd(acc, t)

----------------------------------------------------------------------------
(* Both Nests: insert every tuple under its hash, then walk the keys.       *)

generateInsert(HT, t) == insertToHT(HT, Hash(t.group), t)
optInsert(HT, t) == insertToHT(HT, Hash(t.group), t)

\* The inner loop runs over as many bindings as the bucket's size says.
Bucket(HT, meta) == SubSeq(probeHT(HT, meta.hashKey), 1, meta.bucketSize)

\* The group handed to the parent: its number, its accumulators, and the
\* fields of the tuple the loop visited last.
Group(ms, bucket, bucketNo) ==
  [oid    |-> bucketNo,
   aggr   |-> [m \in ms |->
                FoldLeft(LAMBDA acc, t : Accumulate(m, acc, t), resetAccumulator(m), bucket)],
   fields |-> Last(bucket)]

\* The outer loop runs until a bucket of size 0.
Walk(ms, HT) ==
  LET meta == getMetadataHT(HT)
      RECURSIVE from(_)
      from(i) == IF meta[i + 1].bucketSize = 0 THEN <<>>
                 ELSE <<Group(ms, Bucket(HT, meta[i + 1]), i)>> \o from(i + 1)
  IN  from(0)

\* Nest sums one expression; opt::Nest computes all its accumulators.
generateProbe(HT) == Walk({"SUM"}, HT)
optProbe(HT) == Walk(Monoids, HT)

Nest(tuples) == generateProbe(FoldLeft(generateInsert, <<>>, tuples))
optNest(tuples) == optProbe(FoldLeft(optInsert, <<>>, tuples))

----------------------------------------------------------------------------
(* Join: the left child fills the table, the right child probes it.         *)

consumeLeft(HT, t) == insertIntKeyToHT(HT, t.key, t)

\* The loop over the matches stops at the null.
consumeRight(HT, t) ==
  LET found == probeIntHT(HT, t.key)
      end   == CHOOSE i \in 1 .. Len(found) : /\ found[i] = NULL
                                              /\ \A j \in 1 .. i - 1 : found[j] # NULL
  IN  [i \in 1 .. end - 1 |-> <<found[i], t>>]

Join(left, right) ==
  LET HT == FoldLeft(consumeLeft, <<>>, left)
  IN  FoldLeft(LAMBDA out, t : out \o consumeRight(HT, t), <<>>, right)

----------------------------------------------------------------------------
(* What they promise.                                                      *)

\* What an accumulator of opt::Nest should be over the tuples at these places, and the
\* maximum it is: that starts from 0, and so is wrong when all the values are negative.
NestMeaning(m, tuples, places) ==
  LET Passing == {i \in places : tuples[i].pred}
      Val(i)  == tuples[i].val
  IN  CASE m = "SUM" -> MapThenSumSet(Val, Passing)
        [] m = "MULTIPLY" -> FoldSet(LAMBDA i, p : p * Val(i), 1, Passing)
        [] m = "MAX" -> IF \E i \in Passing : Val(i) >= 0 THEN Max({Val(i) : i \in Passing}) ELSE 0
        [] m = "OR" -> \E i \in Passing : Val(i) > 0
        [] m = "AND" -> \A i \in Passing : Val(i) > 0

\* A grouping record that shares its hash with no other record of the input gets one
\* row, with the monoids' results over exactly its tuples, whatever the order of arrival
\* (the maximum as above). Records that share a hash are merged into one row, which
\* carries the fields of one of them and the results over all of them: the tables are
\* keyed with the hash and nothing compares the records. Nest and opt::Nest agree.
NestExact(tuples) ==
  LET out      == optNest(tuples)
      Groups   == {tuples[i].group : i \in DOMAIN tuples}
      Alike(g) == {h \in Groups : Hash(h) = Hash(g)}
      Of(G)    == {i \in DOMAIN tuples : tuples[i].group \in G}
      Rows(G)  == {k \in DOMAIN out : out[k].fields.group \in G}
      Right(k, G) == \A m \in Monoids : out[k].aggr[m] = NestMeaning(m, tuples, Of(G))
  IN  /\ \A g \in Groups : Cardinality(Rows(Alike(g))) = 1
      /\ \A g \in Groups : Alike(g) = {g} => \A k \in Rows({g}) : Right(k, {g})
      /\ \A k \in DOMAIN out : /\ out[k].oid = k - 1
                               /\ out[k].fields \in {tuples[i] : i \in DOMAIN tuples}
                               /\ Right(k, Alike(out[k].fields.group))
      /\ [k \in DOMAIN out |-> out[k].aggr["SUM"]]
           = [k \in DOMAIN out |-> Nest(tuples)[k].aggr["SUM"]]

\* Join hands on every pair of tuples with equal keys, and each pair once.
JoinExact(left, right) ==
  LET out == Join(left, right)
      Times(l, r) == Cardinality({k \in DOMAIN out : out[k] = <<l, r>>})
  IN  \A i \in DOMAIN left, j \in DOMAIN right :
        Times(left[i], right[j]) = (IF left[i].key = right[j].key THEN 1 ELSE 0)

(***************************************************************************)
(* opt::Reduce and GpuReduce: a list of accumulators over all the tuples    *)
(* that satisfy the predicate, and the monoids they are computed with.      *)
(*                                                                         *)
(* On the CPU a call of the pipeline loads every accumulator from its state *)
(* variable when it enters, updates the copy tuple by tuple, and stores it  *)
(* back when it leaves; the accumulators reach the parent when the pipeline *)
(* closes.  On the GPU every lane starts a call from the identity, a warp   *)
(* combines its lanes with butterfly shuffles, and its first lane adds the  *)
(* result to the state variable with an atomic update.  Integers have Bits  *)
(* bits.                                                                   *)
(***************************************************************************)

MinInt == -(2 ^ (Bits - 1))
MaxInt == 2 ^ (Bits - 1) - 1
Wrap(n) == ((n - MinInt) % (2 ^ Bits)) + MinInt

Logical == {"OR", "AND"}

\* getIdentityElementIfSimple: what an accumulator starts from.
getIdentityElementIfSimple(m) ==
  CASE m = "SUM" -> 0 [] m = "MULTIPLY" -> 1
    [] m = "MAX" -> MinInt [] m = "MIN" -> MaxInt
    [] m = "OR" -> FALSE [] m = "AND" -> TRUE

\* toExpression: the accumulator combined with a value.
toExpression(m, lhs, rhs) ==
  CASE m = "SUM" -> Wrap(lhs + rhs) [] m = "MULTIPLY" -> Wrap(lhs * rhs)
    [] m = "MAX" -> Max({lhs, rhs}) [] m = "MIN" -> Min({lhs, rhs})
    [] m = "OR" -> lhs \/ rhs [] m = "AND" -> lhs /\ rhs

\* The value of a tuple an accumulator takes: a number, or a test on it.
Value(m, t) == IF m \in Logical THEN t.val > 0 ELSE t.val

----------------------------------------------------------------------------
(* opt::Reduce.  aggs is the sequence of monoids.                           *)

reduce_resetAccumulator(aggs) == [i \in DOMAIN aggs |-> getIdentityElementIfSimple(aggs[i])]

\* One tuple: every accumulator, when the predicate holds.
Tuple(aggs, accs, t) ==
  IF t.pred THEN [i \in DOMAIN aggs |-> toExpression(aggs[i], accs[i], Value(aggs[i], t))]
  ELSE accs

\* One call of the generated function, over a block of tuples.
reduce_consume(aggs, state, block) ==
  FoldLeft(LAMBDA accs, t : Tuple(aggs, accs, t), state, block)

\* The flush pipeline hands the accumulators on in the order of the list.
generate_flush(aggs, state) == [i \in DOMAIN aggs |-> state[i]]

Reduce(aggs, blocks) ==
  generate_flush(aggs, FoldLeft(LAMBDA s, b : reduce_consume(aggs, s, b), reduce_resetAccumulator(aggs), blocks))

----------------------------------------------------------------------------
(* GpuReduce.  A warp's input gives every lane its tuples.                  *)

Lanes == 0 .. WarpSize - 1

\* Monoid::get: the monoids with a device version.
Monoid_get(m) == m \in {"MAX", "MIN", "SUM", "OR", "AND"}

\* The accumulators GpuReduce::reduce_consume generates code for.
Supported(m) == m \in {"SUM", "MULTIPLY", "MAX", "OR", "AND"} /\ Monoid_get(m)

Partner(l, i) == IF (l \div i) % 2 = 0 THEN l + i ELSE l - i

\* createWarpAggregateToAll: rounds of distance WarpSize / 2, ..., 2, 1; the
\* logical monoids take any and all over the warp.
createWarpAggregateToAll(m, vals) ==
  LET RECURSIVE shuffle(_, _)
      shuffle(v, i) ==
        IF i = 0 THEN v
        ELSE shuffle([l \in Lanes |-> toExpression(m, v[l], v[Partner(l, i)])], i \div 2)
      any == \E l \in Lanes : vals[l]
      all == \A l \in Lanes : vals[l]
  IN  CASE m = "OR" -> [l \in Lanes |-> any]
        [] m = "AND" -> [l \in Lanes |-> all]
        [] OTHER -> shuffle(vals, WarpSize \div 2)

\* createAtomicUpdate: or and and store only the value that decides.
createAtomicUpdate(m, acc, val) ==
  CASE m = "OR" -> IF val THEN TRUE ELSE acc
    [] m = "AND" -> IF val THEN acc ELSE FALSE
    [] OTHER -> toExpression(m, acc, val)

\* GpuReduce::reduce_consume and generate: one accumulator, one call by one warp.
gpuGenerate(m, acc, warp) ==
  LET lane(l) == FoldLeft(LAMBDA a, t : IF t.pred THEN toExpression(m, a, Value(m, t)) ELSE a,
                          getIdentityElementIfSimple(m), warp[l])
  IN  createAtomicUpdate(m, acc, createWarpAggregateToAll(m, [l \in Lanes |-> lane(l)])[0])

reduce_gpuConsume(aggs, state, warp) == [i \in DOMAIN aggs |-> gpuGenerate(aggs[i], state[i], warp)]

GpuReduce(aggs, warps) ==
  generate_flush(aggs, FoldLeft(LAMBDA s, w : reduce_gpuConsume(aggs, s, w), reduce_resetAccumulator(aggs), warps))

----------------------------------------------------------------------------
(* What they promise.                                                      *)

\* What an accumulator means: over the integers of Bits bits, whatever the
\* order, the sum or product modulo 2^Bits, the greatest, the least.
Meaning(m, tuples) ==
  LET Passing == {i \in DOMAIN tuples : tuples[i].pred}
      Val(i)  == tuples[i].val
  IN  CASE m = "SUM" -> Wrap(MapThenSumSet(Val, Passing))
        [] m = "MULTIPLY" -> Wrap(FoldSet(LAMBDA i, p : p * Val(i), 1, Passing))
        [] m = "MAX" -> Max({MinInt} \cup {Val(i) : i \in Passing})
        [] m = "MIN" -> Min({MaxInt} \cup {Val(i) : i \in Passing})
        [] m = "OR" -> \E i \in Passing : Val(i) > 0
        [] m = "AND" -> \A i \in Passing : Val(i) > 0

\* However the tuples are cut into calls, the CPU's accumulators mean what
\* they say: nothing of an earlier call is lost or counted again.
ReduceExact(aggs, blocks) ==
  Reduce(aggs, blocks) = [i \in DOMAIN aggs |-> Meaning(aggs[i], FlattenSeq(blocks))]

\* The shuffles count every lane once: the GPU's accumulators over the lanes of
\* all the warps agree with the CPU's over the same tuples.
GpuReduceAgrees(aggs, warps) ==
  LET lanes(w) == FlattenSeq([l \in 1 .. WarpSize |-> w[l - 1]])
      all      == FlattenSeq([w \in DOMAIN warps |-> lanes(warps[w])])
  IN  (\A i \in DOMAIN aggs : Supported(aggs[i]))
        => GpuReduce(aggs, warps) = Reduce(aggs, <<all>>)

(***************************************************************************)
(* Sort and GpuSort.  Both write the order-by record of every tuple into    *)
(* one block and sort the block when the pipeline closes.  Sort calls qsort *)
(* with a comparison generated from the directions; GpuSort negates the     *)
(* attributes it sorts in descending order when it writes them and then     *)
(* sorts the records ascending.  Integers have Bits bits.                   *)
(***************************************************************************)

Negated(n) == IF n = MinInt THEN MinInt ELSE -n

\* sort_consume: the record goes to the next place of the block, which nobody
\* compares with the block's size.  A record past the end is lost to the block.
sort_consume(buf, rec) == [mem |-> IF buf.cnt < BlockRows THEN Append(buf.mem, rec) ELSE buf.mem,
                      cnt |-> buf.cnt + 1]

Fill(recs) == FoldLeft(sort_consume, [mem |-> <<>>, cnt |-> 0], recs)

\* The generated comparison: the first attribute with a direction in which the
\* records differ decides.
cmp(dirs, a, b) ==
  LET Differ == {i \in DOMAIN dirs : dirs[i] # "NONE" /\ a[i] # b[i]}
      i      == Min(Differ)
  IN  CASE Differ = {} -> 0
        [] Differ # {} /\ dirs[i] = "DESC" -> IF b[i] > a[i] THEN 1 ELSE -1
        [] OTHER -> IF a[i] > b[i] THEN 1 ELSE -1

\* qsort: some order of the records in which no neighbours are inverted.
qsort(dirs, recs) ==
  LET Sorted(p) == \A i \in 1 .. Len(recs) - 1 : cmp(dirs, recs[p[i]], recs[p[i + 1]]) <= 0
      Perms     == {p \in [DOMAIN recs -> DOMAIN recs] : \A i, j \in DOMAIN recs : p[i] = p[j] => i = j}
      perm      == CHOOSE p \in Perms : Sorted(p)
  IN  [i \in DOMAIN recs |-> recs[perm[i]]]

\* call_sort, then flush_sorted: the block and its count, to the parent once.
call_sort(dirs, buf) == [mem |-> qsort(dirs, buf.mem), cnt |-> buf.cnt]
flush_sorted(buf) == SubSeq(buf.mem, 1, buf.cnt)
Sort(dirs, recs) == flush_sorted(call_sort(dirs, Fill(recs)))

\* buildSortOutputExpression of GpuSort.
gpuRecord(dirs, rec) == [i \in DOMAIN rec |-> IF dirs[i] = "DESC" THEN Negated(rec[i]) ELSE rec[i]]

\* GpuSort: every thread takes a place with an atomic add; the device sort
\* orders by all the attributes, ascending.
sort_gpuConsume(dirs, buf, rec) == sort_consume(buf, gpuRecord(dirs, rec))
gpuCall_sort(dirs, buf) ==
  [mem |-> qsort([i \in DOMAIN dirs |-> "ASC"], buf.mem), cnt |-> buf.cnt]
GpuSort(dirs, recs) ==
  flush_sorted(gpuCall_sort(dirs, FoldLeft(LAMBDA b, r : sort_gpuConsume(dirs, b, r),
                                           [mem |-> <<>>, cnt |-> 0], recs)))

----------------------------------------------------------------------------

\* As long as the records fit into the one block, which nothing tests, they come out as
\* a permutation of the input in which every record precedes those that come later in
\* the requested order; attributes without a direction do not count.
SortExact(dirs, recs) ==
  LET out == Sort(dirs, recs)
      Before(a, b) == \E i \in DOMAIN dirs :
                        /\ \A j \in 1 .. i - 1 : dirs[j] = "NONE" \/ a[j] = b[j]
                        /\ \/ dirs[i] = "ASC" /\ a[i] < b[i]
                           \/ dirs[i] = "DESC" /\ a[i] > b[i]
  IN  Len(recs) <= BlockRows =>
        /\ \A r \in ToSet(recs) \cup ToSet(out) :
             Cardinality({i \in DOMAIN out : out[i] = r}) = Cardinality({i \in DOMAIN recs : recs[i] = r})
        /\ \A i, j \in DOMAIN out : i < j => ~Before(out[j], out[i])

\* As long as they fit, and no attribute sorted downwards is the least integer, which is
\* its own negation, the device returns the CPU's order for directions in which NONE
\* stands for ASC: unlike Sort, it orders by the attributes without a direction too.
GpuSortAgrees(dirs, recs) ==
  LET given == [i \in DOMAIN dirs |-> IF dirs[i] = "NONE" THEN "ASC" ELSE dirs[i]]
      out   == GpuSort(dirs, recs)
  IN  (/\ Len(recs) <= BlockRows
       /\ \A k \in DOMAIN recs, i \in DOMAIN dirs : dirs[i] = "DESC" => recs[k][i] # MinInt)
        => [k \in DOMAIN out |-> gpuRecord(dirs, out[k])] = Sort(given, recs)
=============================================================================
