------------------------------- MODULE Radix -------------------------------
(***************************************************************************)
(* The radix operators: the two-pass partitioning and the bucket-chaining  *)
(* tables of the platform library, the builders that materialise an input, *)
(* the join of two partitioned inputs and the grouping of one.             *)
(*                                                                         *)
(* A hash-table entry is a record [key, payload]; for the grouping the key *)
(* is the hash of the grouping attributes, so that two different groups    *)
(* may share it, and the payload holds the attributes themselves.          *)
(***************************************************************************)
EXTENDS Integers, Sequences, FiniteSets, FiniteSetsExt, SequencesExt

CONSTANTS NUM_RADIX_BITS, NUM_PASSES,
          PayloadSize,    \* bytes of a materialised payload
          InitialSize     \* bytes the builder first asks for

Clusters == 0 .. 2 ^ NUM_RADIX_BITS - 1

\* F(0), ..., F(n - 1), one behind the other.
Concatenated(F(_), n) ==
  LET RECURSIVE upTo(_)
      upTo(k) == IF k = 0 THEN <<>> ELSE upTo(k - 1) \o F(k - 1)
  IN  upTo(n)

\* The radix of a key: D bits from bit R on. \div rounds down, so that this is
\* what the mask and the shift compute on a two's complement key.
HASH_BIT_MODULO(key, R, D) == (key \div 2 ^ R) % 2 ^ D

\* One pass: the tuples of every cluster are counted, the clusters placed one behind
\* the other, and every tuple copied to the next free place of its cluster.
radix_cluster_nopadding(tuples, R, D) ==
  LET cluster(c) == SelectSeq(tuples, LAMBDA t : HASH_BIT_MODULO(t.key, R, D) = c)
  IN  Concatenated(cluster, 2 ^ D)

\* The two passes, on the low and then on the high half of the radix bits, and the
\* number of tuples in every cluster.
partitionHT(tuples) ==
  LET low  == NUM_RADIX_BITS \div NUM_PASSES
      out  == radix_cluster_nopadding(
                radix_cluster_nopadding(tuples, 0, low), low, NUM_RADIX_BITS - low)
  IN  [tuples |-> out,
       counts |-> [c \in Clusters |->
                     Cardinality({i \in DOMAIN out :
                                    out[i].key % 2 ^ NUM_RADIX_BITS = c})]]

\* The smallest power of two that is at least v, v > 0.
NEXT_POW_2(v) == Min({n \in {2 ^ e : e \in 0 .. v} : n >= v})

\* The chained table over one cluster: bucket[b] is the last tuple of bucket b and
\* next[i] the tuple of the same bucket before i; positions count from 1, and 0 ends
\* a chain. The buckets use the bits above the radix bits.
bucket_chaining_prepare(tuples) ==
  LET bits   == CHOOSE e \in 0 .. Len(tuples) : 2 ^ e = NEXT_POW_2(Len(tuples))
      idx(i) == HASH_BIT_MODULO(tuples[i].key, NUM_RADIX_BITS, bits)
  IN  [bits   |-> bits,
       bucket |-> [b \in 0 .. 2 ^ bits - 1 |->
                     Max({0} \cup {i \in DOMAIN tuples : idx(i) = b})],
       next   |-> [i \in DOMAIN tuples |->
                     Max({0} \cup {j \in 1 .. i - 1 : idx(j) = idx(i)})]]

\* The positions a probe with this key visits, in the order it does.
RECURSIVE Follow(_, _)
Follow(ht, hit) ==
  IF hit = 0 THEN <<>> ELSE <<hit>> \o Follow(ht, ht.next[hit])

Hits(ht, key) == Follow(ht, ht.bucket[HASH_BIT_MODULO(key, NUM_RADIX_BITS, ht.bits)])

\* The tuples of cluster c in a partitioned input: the clusters lie one behind the
\* other, in the order of their numbers.
RECURSIVE Start(_, _)
Start(counts, c) == IF c = 0 THEN 0 ELSE Start(counts, c - 1) + counts[c - 1]

Cluster(part, c) ==
  SubSeq(part.tuples, Start(part.counts, c) + 1,
                      Start(part.counts, c) + part.counts[c])

-----------------------------------------------------------------------------
(* RadixJoinBuild: the payloads go to one arena and the entries to another; *)
(* an entry points to its payload by the offset.                            *)

NewBuild ==
  [size |-> InitialSize, offset |-> 0, relation |-> <<>>,
   kvSize |-> InitialSize, entries |-> <<>>]

KVBytes == 16

\* One tuple: either memory is doubled, once, when this tuple would fill it; the
\* payload goes to the end of the relation and the entry points at it.
consume(b, t) ==
  LET after == b.offset + PayloadSize
      kv    == (Len(b.entries) + 1) * KVBytes
  IN  [size     |-> IF after >= b.size THEN 2 * b.size ELSE b.size,
       offset   |-> after,
       relation |-> Append(b.relation, t),
       kvSize   |-> IF kv >= b.kvSize THEN 2 * b.kvSize ELSE b.kvSize,
       entries  |-> Append(b.entries, [key |-> t.key, at |-> b.offset])]

Build(tuples) == FoldLeft(consume, NewBuild, tuples)

\* The payload an entry points at.
Payload(build, entry) == build.relation[entry.at \div PayloadSize + 1]

-----------------------------------------------------------------------------
(* RadixJoin::runRadix: a cluster that either side leaves empty is skipped, *)
(* the others are joined through the chained table of the left side.        *)

\* The entries a probe with this key finds in the table over cluster r.
Matches(ht, r, key) == SelectSeq(Hits(ht, key), LAMBDA hit : r[hit].key = key)

\* The pairs of entries that cluster r of the left and s of the right side give.
JoinCluster(r, s) ==
  IF r = <<>> \/ s = <<>> THEN <<>>
  ELSE LET ht       == bucket_chaining_prepare(r)
           probe(j) == LET found == Matches(ht, r, s[j + 1].key)
                       IN  [k \in DOMAIN found |-> <<r[found[k]], s[j + 1]>>]
       IN  Concatenated(probe, Len(s))

\* The pairs of payloads handed to the parent.
runRadix(left, right) ==
  LET relR == Build(left)
      relS == Build(right)
      R    == partitionHT(relR.entries)
      S    == partitionHT(relS.entries)
      cluster(c) == JoinCluster(Cluster(R, c), Cluster(S, c))
      pairs      == Concatenated(cluster, 2 ^ NUM_RADIX_BITS)
  IN  [k \in DOMAIN pairs |-> <<Payload(relR, pairs[k][1]), Payload(relS, pairs[k][2])>>]

\* The stand-alone join of the library only counts the matches.
RJStepwise(left, right) ==
  LET R == partitionHT(left)
      S == partitionHT(right)
  IN  MapThenSumSet(LAMBDA c : Len(JoinCluster(Cluster(R, c), Cluster(S, c))), Clusters)

-----------------------------------------------------------------------------
(* radix::Nest. A tuple is [key, group, val, pass]: the hash, the grouping  *)
(* attribute, the aggregated value, and whether the predicate holds.        *)

\* The partitioning and the chained table are the ones above, instantiated for 64-bit
\* hashes.
partitionAggHT(tuples) == partitionHT(tuples)
bucket_chaining_agg_prepare(tuples) == bucket_chaining_prepare(tuples)

\* The bindings of the attributes that were materialised.
reconstructResults(rel, entry) == Payload(rel, entry)

\* Accumulators start at the identity of their monoid, here a sum.
resetAccumulator == 0

\* An equal hit is marked, and accumulated when the predicate holds for it.
Accumulate(g, hit, tuple) ==
  [marked |-> g.marked \cup {hit},
   sum    |-> IF tuple.pass THEN g.sum + tuple.val ELSE g.sum,
   shown  |-> tuple.group]

\* The probe for the group of tuple j. shown is what the bindings handed to the
\* parent hold: they are rebuilt for every hit that is not marked yet, equal or not.
Gather(rel, ht, r, marked, j) ==
  LET own == reconstructResults(rel, r[j])
      visit(g, hit) ==
        LET tuple == reconstructResults(rel, r[hit])
        IN  IF hit \in g.marked THEN g
            ELSE IF tuple.group # own.group THEN [g EXCEPT !.shown = tuple.group]
            ELSE Accumulate(g, hit, tuple)
  IN  FoldLeft(visit, [marked |-> marked, sum |-> resetAccumulator, shown |-> own.group],
               Hits(ht, r[j].key))

\* The loop over the cluster: gather, hand on, and move to the next tuple that no
\* group has taken.
RECURSIVE Groups(_, _, _, _, _)
Groups(rel, ht, r, marked, j) ==
  IF j > Len(r) THEN <<>>
  ELSE LET g == Gather(rel, ht, r, marked, j)
           k == Min({i \in j .. Len(r) + 1 : i \notin g.marked})
       IN  <<[group |-> g.shown, sum |-> g.sum]>> \o Groups(rel, ht, r, g.marked, k)

probeHT(tuples) ==
  LET rel == Build(tuples)
      R   == partitionAggHT(rel.entries)
      cluster(c) == LET r == Cluster(R, c)
                    IN  IF r = <<>> THEN <<>>
                        ELSE Groups(rel, bucket_chaining_agg_prepare(r), r, {}, 1)
  IN  Concatenated(cluster, 2 ^ NUM_RADIX_BITS)

-----------------------------------------------------------------------------
\* Every payload a builder stores lies inside the arena as it was when it was written
\* and at the end, and so do the entries: doubling once is always enough.
ArenaHolds(tuples) ==
  \A n \in 0 .. Len(tuples) :
    LET b == Build(SubSeq(tuples, 1, n))
    IN  /\ b.offset <= b.size /\ Len(b.entries) * KVBytes <= b.kvSize
        /\ \A i, j \in DOMAIN b.entries :
             i < j => b.entries[i].at + PayloadSize <= b.entries[j].at

\* The partitioned join returns every pair of tuples with equal keys, once, and the
\* stand-alone join counts as many: the clusters of both sides start where the counts
\* say, which needs the second pass to keep the order of the first, and no chain
\* leaves out or repeats a tuple of its bucket.
RadixJoinExact(left, right) ==
  LET pairs == {<<left[i], right[j]>> :
                  <<i, j>> \in {<<i, j>> \in (DOMAIN left) \X (DOMAIN right) :
                                  left[i].key = right[j].key}}
      out   == runRadix(left, right)
  IN  /\ ToSet(out) = pairs /\ Len(out) = Cardinality(pairs)
      /\ RJStepwise(left, right) = Len(out)

\* The grouping returns one group for every value of the grouping attribute, and its
\* aggregate covers exactly the group's tuples that pass, whatever values the hash
\* maps together: the marks keep a tuple from being taken twice. The bindings it is
\* handed on with are its own, although the probe also rebuilds them for hits of other
\* groups: a chain runs backwards, the tuples before the probing one are all marked,
\* and so its own hit is the last one rebuilt.
RadixNestExact(tuples) ==
  LET out    == probeHT(tuples)
      groups == {tuples[i].group : i \in DOMAIN tuples}
      sum(g) == MapThenSumSet(LAMBDA i : tuples[i].val,
                  {i \in DOMAIN tuples : tuples[i].group = g /\ tuples[i].pass})
  IN  /\ Len(out) = Cardinality(groups)
      /\ {<<out[i].group, out[i].sum>> : i \in DOMAIN out} = {<<g, sum(g)>> : g \in groups}

=============================================================================
