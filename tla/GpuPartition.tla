---------------------------- MODULE GpuPartition ----------------------------
(***************************************************************************)
(* HashPartitioner and GpuPartitionedHashJoinChained: the kernel           *)
(* build_partitions scatters the tuples of one radix pass into chains of   *)
(* buckets of bucket_size entries.  Several thread blocks take buckets of  *)
(* the input; in a block one thread per partition reserves the entries of  *)
(* that partition.  heads[p] packs the last used index and the current     *)
(* bucket of partition p in one word: a thread adds its count; the one     *)
(* that passes the end of the bucket links a new one and replaces the      *)
(* word, and a thread that finds the index past the end tries again.       *)
(* The operators at the end are the kernels that follow: the chains are    *)
(* cut into groups for the join, and the join loop works group by group.   *)
(***************************************************************************)
EXTENDS Integers, FiniteSets, Sequences, SequencesExt, TLC

CONSTANTS Grid,          \* the thread blocks, 0..gridDim-1
          Inputs,        \* sequences of input buckets [pid, keys]
          log_parts, S_log_parts, bucket_size,
          Hash(_), first_bit

parts == 2^log_parts
Parts == 0..parts - 1
All == 0..2^(S_log_parts + log_parts) - 1
FAKE == 1000             \* the bucket number 1 << 18 that init_metadata gives every head

VARIABLES input, at,     \* the input; block -> the input bucket it works on
          pc,            \* block -> partition -> "add", "min", "link", "swap", "done"
          old,           \* block -> partition -> the word its fetch-and-add returned
          next,          \* block -> partition -> the bucket for what does not fit
          heads, chains, out_cnts, buckets_used, output

blockVars == <<at, pc, old, next>>
vars == <<input, blockVars, heads, chains, out_cnts, buckets_used, output>>

Target(key) == (Hash(key) \div 2^first_bit) % parts

\* init_metadata: the first parts buckets belong to the partitions; a head that says its
\* last index is that of a full bucket, so that the first tuple switches to bucket p.
Init ==
    /\ input \in Inputs
    /\ at = [b \in Grid |-> b + 1]
    /\ pc = [b \in Grid |-> [j \in Parts |-> "add"]]
    /\ old = [b \in Grid |-> [j \in Parts |-> [cnt |-> 0, bucket |-> 0]]]
    /\ next = [b \in Grid |-> [j \in Parts |-> 0]]
    /\ heads = [p \in All |-> [cnt |-> bucket_size - 1, bucket |-> FAKE]]
    /\ chains = [k \in {} |-> 0]
    /\ out_cnts = [p \in All |-> 0]
    /\ buckets_used = Cardinality(All)
    /\ output = [k \in {} |-> 0]

Busy(b) == at[b] <= Len(input)
Pid(b) == input[at[b]].pid * parts
\* The local histogram.
Count(b, j) == Len(SelectSeq(input[at[b]].keys, LAMBDA k : Target(k) = j))

\* A partition without tuples in this bucket is skipped; the others add their count to the
\* head.
fetchAdd(b, j) ==
    /\ Busy(b) /\ pc[b][j] = "add" /\ Count(b, j) > 0
    /\ LET p == Pid(b) + j
       IN /\ old' = [old EXCEPT ![b][j] = heads[p]]
          /\ heads' = [heads EXCEPT ![p].cnt = @ + Count(b, j)]
    /\ pc' = [pc EXCEPT ![b][j] = "min"]
    /\ UNCHANGED <<input, at, next, chains, out_cnts, buckets_used, output>>

\* atomicMin keeps the word of a locked head from overflowing; then the thread looks at
\* what it added to: a full bucket means try again.
atomicMin(b, j) ==
    /\ pc[b][j] = "min"
    /\ LET p == Pid(b) + j
           o == old[b][j]
           fills == o.cnt + Count(b, j) >= bucket_size
       IN /\ heads' = [heads EXCEPT ![p] = IF @.cnt >= 2 * bucket_size THEN [cnt |-> 2 * bucket_size, bucket |-> 0] ELSE @]
          /\ pc' = [pc EXCEPT ![b][j] = IF o.cnt >= bucket_size THEN "add" ELSE IF fills THEN "link" ELSE "done"]
          /\ next' = [next EXCEPT ![b][j] = o.bucket]
    /\ UNCHANGED <<input, at, old, chains, out_cnts, buckets_used, output>>

\* The bucket was filled: a new one is taken and chained, or the partition's own first one.
link(b, j) ==
    /\ pc[b][j] = "link"
    /\ IF old[b][j].bucket # FAKE
       THEN /\ next' = [next EXCEPT ![b][j] = buckets_used]
            /\ buckets_used' = buckets_used + 1
            /\ chains' = [k \in DOMAIN chains \cup {old[b][j].bucket} |->
                            IF k = old[b][j].bucket THEN buckets_used ELSE chains[k]]
       ELSE next' = [next EXCEPT ![b][j] = Pid(b) + j] /\ UNCHANGED <<buckets_used, chains>>
    /\ pc' = [pc EXCEPT ![b][j] = "swap"]
    /\ UNCHANGED <<input, at, old, heads, out_cnts, output>>

\* A slip: the new head says the whole count went to the new bucket.
exchangeAll(b, j) ==
    /\ pc[b][j] = "swap"
    /\ heads' = [heads EXCEPT ![Pid(b) + j] = [cnt |-> Count(b, j), bucket |-> next[b][j]]]
    /\ pc' = [pc EXCEPT ![b][j] = "done"]
    /\ UNCHANGED <<input, at, old, next, chains, out_cnts, buckets_used, output>>

\* The head is replaced, which also unlocks it.
exchange(b, j) ==
    /\ pc[b][j] = "swap"
    /\ heads' = [heads EXCEPT ![Pid(b) + j] =
                    [cnt |-> old[b][j].cnt + Count(b, j) - bucket_size, bucket |-> next[b][j]]]
    /\ pc' = [pc EXCEPT ![b][j] = "done"]
    /\ UNCHANGED <<input, at, old, next, chains, out_cnts, buckets_used, output>>

\* Entry c (counted from 1) of partition j goes c places after the old last index; past the
\* end of the bucket it goes to the next one.
Position(b, j, c) ==
    LET i == old[b][j].cnt + c
    IN  IF i >= bucket_size THEN <<next[b][j], i % bucket_size>> ELSE <<old[b][j].bucket, i>>

\* After syncthreads the block shuffles its tuples and writes them to their entries, and
\* goes on with its next input bucket.  (The threads added the counts to out_cnts, which
\* only later kernels read.)
writeOut(b) ==
    /\ Busy(b) /\ \A j \in Parts : Count(b, j) = 0 \/ pc[b][j] = "done"
    /\ LET keys == input[at[b]].keys
           rank(i) == Cardinality({h \in 1..i : Target(keys[h]) = Target(keys[i])})
           dest(i) == Position(b, Target(keys[i]), rank(i))
           cells == {dest(i) : i \in DOMAIN keys}
       IN /\ output' = [x \in DOMAIN output \cup cells |->
                          IF x \in cells THEN LET i == CHOOSE i \in DOMAIN keys : dest(i) = x IN <<at[b], i>>
                          ELSE output[x]]
          /\ out_cnts' = [p \in All |-> out_cnts[p] + IF p \in {Pid(b) + j : j \in Parts} THEN Count(b, p - Pid(b)) ELSE 0]
    /\ at' = [at EXCEPT ![b] = @ + Cardinality(Grid)]
    /\ pc' = [pc EXCEPT ![b] = [j \in Parts |-> "add"]]
    /\ UNCHANGED <<input, old, next, heads, chains, buckets_used>>

ThreadStep(b, j) == fetchAdd(b, j) \/ atomicMin(b, j) \/ link(b, j) \/ exchange(b, j)
Done == \A b \in Grid : ~Busy(b)

Next == \/ \E b \in Grid, j \in Parts : ThreadStep(b, j)
        \/ \E b \in Grid : writeOut(b)
        \/ Done /\ UNCHANGED vars

\* Every thread block of the grid makes progress.
Spec == /\ Init /\ [][Next]_vars
        /\ \A b \in Grid : WF_vars(writeOut(b)) /\ \A j \in Parts : WF_vars(ThreadStep(b, j))
----------------------------------------------------------------------------
\* The kernels that follow work on the partitioned relation [chains, cnts, used, cell].
Partitioned == [chains |-> [k \in 0..buckets_used - 1 |-> IF k \in DOMAIN chains THEN chains[k] ELSE 0],
                cnts |-> out_cnts, used |-> buckets_used,
                cell |-> [x \in DOMAIN output |-> [key |-> input[output[x][1]].keys[output[x][2]], id |-> output[x]]]]

Least(a, b) == IF a < b THEN a ELSE b

\* compute_bucket_info: partition and number of entries of every bucket of a chain.
RECURSIVE ChainInfo(_, _, _, _)
ChainInfo(d, p, cur, cnt) ==
    IF cnt <= 0 THEN <<>>
    ELSE <<[bucket |-> cur, pid |-> p, cnt |-> Least(cnt, bucket_size)]>>
         \o ChainInfo(d, p, d.chains[cur], cnt - bucket_size)
compute_bucket_info(d) == [p \in All |-> ChainInfo(d, p, p, d.cnts[p])]

\* decompose_chains: a chain longer than `threshold' entries is cut, and bucket_info names
\* the first bucket of every group; 0 marks the other buckets of a group.
RECURSIVE Cut(_, _, _, _, _, _)
Cut(g, p, cur, cnt, cutoff, threshold) ==
    IF cnt <= 0 THEN g
    ELSE LET rest == cnt - bucket_size
             nxt == g.chains[cur]
             cut == cutoff + bucket_size >= threshold /\ rest > 0
             new == [g EXCEPT !.info = IF cut THEN (nxt :> [pid |-> p, cnt |-> Least(rest, threshold)]) @@ @
                                       ELSE IF nxt # 0 THEN (nxt :> [pid |-> 0, cnt |-> 0]) @@ @ ELSE @,
                              !.chains[cur] = IF cut THEN 0 ELSE @]
         IN  Cut(new, p, nxt, rest, IF cut THEN 0 ELSE cutoff + bucket_size, threshold)

RECURSIVE CutAll(_, _, _, _)
CutAll(g, d, p, threshold) ==
    IF p \notin All THEN g
    ELSE LET c == Cut(g, p, p, d.cnts[p], 0, threshold)
         IN  CutAll([c EXCEPT !.info = (p :> [pid |-> p, cnt |-> Least(d.cnts[p], threshold)]) @@ @], d, p + 1, threshold)
decompose_chains(d, threshold) == CutAll([info |-> [k \in {} |-> 0], chains |-> d.chains], d, 0, threshold)

\* The entries of a chain, `n' of them from bucket cur on (the block loops of
\* generate_build and generate_probe).
RECURSIVE Entries(_, _, _, _)
Entries(d, ch, cur, n) ==
    IF n <= 0 THEN <<>>
    ELSE [i \in 1..Least(n, bucket_size) |-> d.cell[<<cur, i - 1>>]] \o Entries(d, ch, ch[cur], n - bucket_size)

\* generate_build: the partition's build side in a chained table in shared memory.
joinHash(key) == (Hash(key) \div 2^log_parts) % 2
generate_build(d, p) ==
    LET es == Entries(d, d.chains, p, d.cnts[p])
    IN  [h \in 0..1 |-> SelectSeq(es, LAMBDA e : joinHash(e.key) = h)]

\* generate_probe: every entry of the group follows the chain of its hash.
generate_probe(d, ch, cur, n, table) ==
    LET es == Entries(d, ch, cur, n)
    IN  UNION {{<<es[i].id, m.id>> : m \in {x \in ToSet(table[joinHash(es[i].key)]) : x.key = es[i].key}} : i \in DOMAIN es}

\* generate_joinloop: for every bucket that starts a group.
generate_joinloop(build, probe, threshold) ==
    LET g == decompose_chains(probe, threshold)
        groups == {k \in DOMAIN g.info : g.info[k] # [pid |-> 0, cnt |-> 0]}
    IN  UNION {generate_probe(probe, g.chains, k, g.info[k].cnt, generate_build(build, g.info[k].pid)) : k \in groups}

----------------------------------------------------------------------------
Tuples(p) == {<<n, i>> \in (1..Len(input)) \X (1..bucket_size) :
                /\ i \in DOMAIN input[n].keys
                /\ input[n].pid * parts + Target(input[n].keys[i]) = p}

\* When the kernel ended, the chain of every partition holds each of its tuples once, in
\* buckets that are full but for the last, and no bucket is shared.
PartitionsExact ==
    Done => LET d == Partitioned
                info == compute_bucket_info(d)
                held(p) == {output[x] : x \in {y \in DOMAIN output : \E i \in DOMAIN info[p] : info[p][i].bucket = y[1] /\ y[2] < info[p][i].cnt}}
                used(p) == {info[p][i].bucket : i \in DOMAIN info[p]}
            IN  /\ \A p \in All : held(p) = Tuples(p) /\ d.cnts[p] = Cardinality(Tuples(p))
                /\ \A p, q \in All : p # q => used(p) \cap used(q) = {}

\* Reservations never overlap: no entry of a partition is ever written over, so at all
\* times its entries are as many as the counts of the buckets that were worked off.
EntriesDisjoint == \A p \in All : out_cnts[p] = Cardinality({x \in DOMAIN output : output[x] \in Tuples(p)})

\* Joined with itself, the partitioned relation gives exactly the pairs of equal keys of
\* each partition, however its chains are cut into groups.
JoinExact ==
    Done => LET d == Partitioned
                ids == UNION {Tuples(p) : p \in All}
            IN  generate_joinloop(d, d, 2 * bucket_size) =
                {<<x, y>> \in ids \X ids :
                    /\ input[x[1]].keys[x[2]] = input[y[1]].keys[y[2]]
                    /\ input[x[1]].pid = input[y[1]].pid}

=============================================================================
