------------------------------ MODULE Packets -------------------------------
(***************************************************************************)
(* How tuples and blocks are laid out and moved between operators: the     *)
(* packets of hash-table entries, the blocks of the rearrangers, and the   *)
(* alignment of the partitions of two inputs.                              *)
(***************************************************************************)
EXTENDS Integers, Sequences, SequencesExt, FiniteSets, FiniteSetsExt

CONSTANTS numOfBuckets, Cap, CACHE_CAP, \* of the rearrangers
          CACHE_SIZE                   \* of ZipCollect

(***************************************************************************)
(* The layout of hash-table entries: every materialised expression has a   *)
(* packet and a bit offset in it; a packet becomes a packed struct, padded *)
(* where expressions leave a gap, and code addresses an expression by its  *)
(* index in that struct (packind). The chained join computes the layout    *)
(* twice, for the code that builds and for the code that probes.           *)
(*                                                                         *)
(* An expression is [name, packet, bitoffset, width].                      *)
(***************************************************************************)

In(exprs, p) == {e \in exprs : e.packet = p}

ByOffset(exprs) == SetToSortSeq(exprs, LAMBDA a, b : a.bitoffset < b.bitoffset)

\* One expression of a packet: a padding element first, when it does not start where
\* the previous one ends. A struct is the sequence of the widths of its elements.
Place(s, e) ==
  LET padded == IF e.bitoffset = s.bindex THEN s.body
                ELSE Append(s.body, e.bitoffset - s.bindex)
  IN  [body    |-> Append(padded, e.width),
       bindex  |-> e.bitoffset + e.width,
       packind |-> [n \in DOMAIN s.packind \cup {e.name} |->
                      IF n = e.name THEN Len(padded) ELSE s.packind[n]]]

Packet(exprs) ==
  FoldLeft(Place, [body |-> <<>>, bindex |-> 0, packind |-> <<>>], ByOffset(exprs))

\* A packet of the given width, filled up at its end.
Filled(s, width) ==
  [s EXCEPT !.body = IF width > s.bindex THEN Append(@, width - s.bindex) ELSE @]

Next(w)   == [name |-> <<"next", 0>>, packet |-> 0, bitoffset |-> 0, width |-> w]
Key(off, w) == [name |-> <<"key", 1>>, packet |-> 0, bitoffset |-> off, width |-> w]

\* The join: the chain's next index and the key lead packet 0 of what is built; the
\* entry for next is then dropped, and the layout is computed again for the probe.
buildHashTableFormat(exprs, keyWidth, widths) ==
  [p \in DOMAIN widths |->
     Filled(Packet(In(exprs \cup {Next(32), Key(32, keyWidth)}, p)), widths[p])]

probeHashTableFormat(exprs, keyWidth, widths) ==
  [p \in DOMAIN widths |-> Filled(Packet(In(exprs \cup {Key(32, keyWidth)}, p)), widths[p])]

\* The grouping: next has a packet of its own, packet 0; the keys come to lie one
\* behind the other in packet 1, and the packets of the aggregates move up by one.
\* Every packet is filled up to a power of two.
next_power_of_2(v) == Min({n \in {2 ^ e : e \in 0 .. 10} : n >= v})

KeyExprs(keyWidths) ==
  {[name |-> <<"key", i>>, packet |-> 0,
    bitoffset |-> FoldLeft(+, 0, SubSeq(keyWidths, 1, i - 1)), width |-> keyWidths[i]]
     : i \in DOMAIN keyWidths}

prepareDescription(aggs, keyWidths) ==
  LET exprs == {Next(32)} \cup {[e EXCEPT !.packet = @ + 1]
                                  : e \in aggs \cup KeyExprs(keyWidths)}
      last  == Max({e.packet : e \in exprs})
  IN  [p \in 0 .. last |->
         LET s == Packet(In(exprs, p))
         IN  IF s.bindex = 0 THEN s ELSE Filled(s, next_power_of_2(s.bindex))]

-----------------------------------------------------------------------------
\* Where element i of a struct starts.
Offset(s, i) == FoldLeft(+, 0, SubSeq(s.body, 1, i))

\* Every expression is addressed where its bit offset says, in an element as wide as
\* it is, and no two expressions share a bit.
AddressedRight(layout, exprs) ==
  \A e \in exprs :
    LET s == layout[e.packet] IN
      /\ Offset(s, s.packind[e.name]) = e.bitoffset
      /\ s.body[s.packind[e.name] + 1] = e.width

\* The probing code of a chained join addresses every expression, and the key, where
\* the building code put them, although it lays the packet out without the entry for
\* next; the packets have the same size, so that both find entry i at the same place.
JoinLayoutsAgree(exprs, keyWidth, widths) ==
  LET build == buildHashTableFormat(exprs, keyWidth, widths)
      probe == probeHashTableFormat(exprs, keyWidth, widths)
      all   == exprs \cup {Key(32, keyWidth)}
  IN  /\ AddressedRight(build, all) /\ AddressedRight(probe, all)
      /\ \A p \in DOMAIN widths : Offset(build[p], Len(build[p].body)) = widths[p]
      /\ \A p \in DOMAIN widths : Offset(probe[p], Len(probe[p].body)) = widths[p]

\* In a grouping's entries every key and aggregate is addressed at its own offset, next
\* is the first element of packet 0 and alone in it, as the chain-following code takes
\* it to be, and no packet straddles its alignment.
GroupLayoutSound(aggs, keyWidths) ==
  LET l == prepareDescription(aggs, keyWidths)
      moved == {[e EXCEPT !.packet = @ + 1] : e \in aggs \cup KeyExprs(keyWidths)}
  IN  /\ AddressedRight(l, moved)
      /\ l[0].packind = [n \in {<<"next", 0>>} |-> 0] /\ l[0].body = <<32>>
      /\ \A p \in DOMAIN l : LET w == Offset(l[p], Len(l[p].body))
                             IN  w = 0 \/ w = next_power_of_2(w)

(***************************************************************************)
(* HashRearrange and HashRearrangeBuffered: tuples are split by the hash   *)
(* of a key over `numOfBuckets' blocks of `Cap' rows; a full block goes to *)
(* the parent with its row count and the oid of its first row, what is     *)
(* left follows when the pipeline closes.  The buffered variant collects   *)
(* the tuples of a bucket in a small cache of CACHE_CAP entries first.     *)
(* A tuple is [hash, id]; Junk is the content of memory nobody wrote.      *)
(***************************************************************************)

Buckets == 0..numOfBuckets - 1
Junk == [hash |-> 0, id |-> 0]
Fresh(n) == [i \in 0..n - 1 |-> Junk]

\* open(): buffers, counters and oid of the pipeline's state.  `project' is the
\* value of the hashProject attribute a block carries.
open ==
    [blk |-> [b \in Buckets |-> Fresh(Cap)], indx |-> [b \in Buckets |-> 0], oid |-> 0, out |-> <<>>,
     cache |-> Fresh(CACHE_CAP * numOfBuckets), cache_cnt |-> [b \in Buckets |-> b * CACHE_CAP]]

\* A block reaches the parent: count, first oid and hashProject are bound to it.
yield(s, b, n, project) ==
    [s EXCEPT !.out = Append(@, [bucket |-> b, project |-> project, cnt |-> n, oid |-> s.oid, rows |-> s.blk[b]]),
              !.oid = @ + n]

\* The full block is handed on and replaced by a new one.
propagate(s, b, project) ==
    [yield(s, b, Cap, project) EXCEPT !.blk[b] = Fresh(Cap), !.indx[b] = 0]

\* One tuple stored in its bucket's block; the block is full after its last index.
put(s, b, t) ==
    LET stored == [s EXCEPT !.blk[b] = (s.indx[b] :> t) @@ @]
    IN  IF s.indx[b] >= Cap - 1 THEN propagate(stored, b, b) ELSE [stored EXCEPT !.indx[b] = @ + 1]

Target(t) == t.hash % numOfBuckets

consume(s, t) == put(s, Target(t), t)

\* The flush function of close(): every bucket's block, the empty ones too.
consume_flush(s) == FoldLeft(LAMBDA x, b : yield(x, b, x.indx[b], b), s, [i \in 1..numOfBuckets |-> i - 1])

HashRearrange(tuples) == consume_flush(FoldLeft(consume, open, tuples)).out

----------------------------------------------------------------------------
\* nonTemporalCopy(out, in, n): the intrinsic's first argument is the value, so it
\* stores *out at in; the caller passes the block as `out' and the cache as `in'.
nonTemporalCopy(s, b) ==
    LET line == b * CACHE_CAP..b * CACHE_CAP + CACHE_CAP - 1
        block(i) == s.indx[b] + i - b * CACHE_CAP
    IN  [s EXCEPT !.cache = [i \in line |-> IF block(i) < Cap THEN s.blk[b][block(i)] ELSE Junk] @@ @]

\* The full cache is flushed into the block CACHE_CAP rows at a time; the block is
\* propagated as full when the next flush would pass its last index.
flushCache(s, b, project) ==
    LET reset == [nonTemporalCopy(s, b) EXCEPT !.cache_cnt[b] = CACHE_CAP * b, !.indx[b] = @ + CACHE_CAP]
    IN  IF s.indx[b] + CACHE_CAP >= Cap - 1 THEN propagate(reset, b, project) ELSE reset

\* consume() of the buffered variant: hashProject is bound before the hash is
\* reduced to a bucket number.
bufferedConsume(s, t) ==
    LET b == Target(t)
        stored == [s EXCEPT !.cache = (s.cache_cnt[b] :> t) @@ @]
    IN  IF s.cache_cnt[b] % CACHE_CAP >= CACHE_CAP - 1
        THEN flushCache(stored, b, t.hash)
        ELSE [stored EXCEPT !.cache_cnt[b] = @ + 1]

\* consume_flush1: what is left in the caches goes to the blocks one by one.
consume_flush1(s) ==
    FoldLeft(LAMBDA x, b : FoldLeft(LAMBDA y, i : put(y, b, y.cache[b * CACHE_CAP + i - 1]), x,
                                    [i \in 1..x.cache_cnt[b] - b * CACHE_CAP |-> i]),
             s, [i \in 1..numOfBuckets |-> i - 1])

HashRearrangeBuffered(tuples) == consume_flush(consume_flush1(FoldLeft(bufferedConsume, open, tuples))).out

----------------------------------------------------------------------------
Rows(block) == {<<block.bucket, block.rows[i]>> : i \in 0..block.cnt - 1}
Delivered(out) == UNION {Rows(out[k]) : k \in DOMAIN out}
RECURSIVE Total(_)
Total(out) == IF out = <<>> THEN 0 ELSE Head(out).cnt + Total(Tail(out))

Numbered(out) ==
    \A k \in DOMAIN out : /\ out[k].oid = Total(SubSeq(out, 1, k - 1))
                          /\ out[k].cnt \in 0..Cap

\* HashRearrange delivers every tuple once, in a block of its own bucket, in blocks that
\* hold what their count says and whose oids neither overlap nor leave a gap.
RearrangeExact(tuples) ==
    LET out == HashRearrange(tuples)
    IN  /\ Delivered(out) = {<<Target(tuples[i]), tuples[i]>> : i \in DOMAIN tuples}
        /\ Total(out) = Len(tuples)
        /\ Numbered(out)
        /\ \A k \in DOMAIN out : out[k].project = out[k].bucket

\* The tuples of a bucket that its cache still holds at the end: those behind the last
\* CACHE_CAP of them that filled it.
Cached(tuples, b) ==
    LET mine == SelectSeq(tuples, LAMBDA t : Target(t) = b)
    IN  {mine[i] : i \in (Len(mine) \div CACHE_CAP) * CACHE_CAP + 1..Len(mine)}

\* The buffered variant delivers as many rows per bucket, numbered the same way. Of the
\* tuples it delivers those that a cache never flushed, each in a block of its bucket;
\* the tuples of a cache that filled up are lost, because nonTemporalCopy copies the
\* block over the cache, and their rows hold what the block held before.
BufferedMoves(tuples) ==
    LET out == HashRearrangeBuffered(tuples)
        count(o, b) == Total(SelectSeq(o, LAMBDA blk : blk.bucket = b))
    IN  /\ Numbered(out)
        /\ \A b \in Buckets : count(out, b) = count(HashRearrange(tuples), b)
        /\ {r \in Delivered(out) : r[2] # Junk} = UNION {{b} \X Cached(tuples, b) : b \in Buckets}

(***************************************************************************)
(* ZipCollect, ZipInitiate and ZipForward, which align the partitions of   *)
(* two inputs for a co-partitioned join.  ZipCollect keeps the blocks of   *)
(* each input in a cache, chained per partition, and then sends one packet *)
(* per partition; ZipInitiate notes the partitions it is sent and, when    *)
(* they all arrived, forwards for each of them the left blocks, then the   *)
(* right blocks, and lets the join work on what was forwarded.             *)
(* A block is [hash, cnt, oid, fields]: fields are the block's columns.    *)
(***************************************************************************)

Partitions == 0..numOfBuckets - 1
NIL == -1

\* open_cache_left/right: no block cached, every chain empty.
open_cache_left == [heads |-> [p \in Partitions |-> NIL], sizes |-> <<>>, oids |-> <<>>, blocks |-> <<>>,
                    chains |-> <<>>, offset |-> 0]
open_cache_right == open_cache_left

\* generate_cache_left/right: size, oid and the columns of the block are stored at the next
\* offset (the columns one after another at offset times their number), and the block becomes
\* the head of the chain of its partition.
generate_cache_left(c, b) ==
    LET target == b.hash % numOfBuckets
    IN  [heads |-> [c.heads EXCEPT ![target] = c.offset], sizes |-> Append(c.sizes, b.cnt),
         oids |-> Append(c.oids, b.oid), blocks |-> c.blocks \o b.fields,
         chains |-> Append(c.chains, c.heads[target]), offset |-> c.offset + 1]

generate_cache_right(c, b) ==
    LET target == b.hash % numOfBuckets
    IN  [heads |-> [c.heads EXCEPT ![target] = c.offset], sizes |-> Append(c.sizes, b.cnt),
         oids |-> Append(c.oids, b.oid), blocks |-> c.blocks \o b.fields,
         chains |-> Append(c.chains, c.heads[target]), offset |-> c.offset + 1]

\* ZipCollect::generate_send, once both inputs are cached: one packet per partition, the
\* partition being both its target and its splitter.
collectSend == [i \in 1..numOfBuckets |-> i - 1]

\* ZipInitiate::open_cache and consume: the partition a packet is about is noted.
open_cache == [cnt |-> 0, partitions |-> <<>>]
initiateConsume(z, target) == [cnt |-> z.cnt + 1, partitions |-> Append(z.partitions, target)]

\* A launch pipeline (generate_send of ZipInitiate): its loop runs once, for the partition
\* ctrl() left in partition_fwd.
initiateSend(fwd) == <<fwd>>

\* ZipForward::consume: the chain of the target is walked from its head to -1; every block
\* goes on with its count, oid and columns.
Forward(c, nf) ==
    LET RECURSIVE Walk(_)
        Walk(cur) == IF cur = NIL THEN <<>>
                     ELSE <<[cnt |-> c.sizes[cur + 1], oid |-> c.oids[cur + 1],
                             fields |-> SubSeq(c.blocks, cur * nf + 1, cur * nf + nf)]>> \o Walk(c.chains[cur + 1])
    IN  [p \in Partitions |-> Walk(c.heads[p])]

\* ZipInitiate::ctrl: the number of noted partitions is read before partition_ptr, which
\* held it, is reused to pass each partition to the launch pipelines.
ctrl(z, left, right) ==
    [i \in 1..z.cnt |->
        LET fwd == z.partitions[i]
        IN  [part |-> fwd, left |-> left[initiateSend(fwd)[1]], right |-> right[initiateSend(fwd)[1]]]]

ZipAll(left, right, nfl, nfr) ==
    LET l == FoldLeft(generate_cache_left, open_cache_left, left)
        r == FoldLeft(generate_cache_right, open_cache_right, right)
        z == FoldLeft(initiateConsume, open_cache, collectSend)
    IN  ctrl(z, Forward(l, nfl), Forward(r, nfr))

----------------------------------------------------------------------------
Bare(b) == [cnt |-> b.cnt, oid |-> b.oid, fields |-> b.fields]
Part(blocks, p) == Reverse(SelectSeq(blocks, LAMBDA b : b.hash % numOfBuckets = p))

\* Every partition is joined exactly once, with exactly the blocks of both inputs that hash
\* to it, each with its own count, oid and columns, the latest block first.
ZipExact(left, right, nfl, nfr) ==
    LET z == ZipAll(left, right, nfl, nfr)
        same(s, p, blocks) == LET want == Part(blocks, p)
                              IN  Len(s) = Len(want) /\ \A i \in DOMAIN want : s[i] = Bare(want[i])
    IN  Len(left) <= CACHE_SIZE /\ Len(right) <= CACHE_SIZE =>
            /\ [i \in DOMAIN z |-> z[i].part] = collectSend
            /\ \A i \in DOMAIN z : same(z[i].left, z[i].part, left) /\ same(z[i].right, z[i].part, right)
=============================================================================
