---------------------------- MODULE GroupByChained ----------------------------
(***************************************************************************)
(* Grouping with a table of chains.  Every tuple looks for its group along *)
(* the chain of its bucket and appends an entry when the chain ends        *)
(* without one.  The threads of a GPU kernel share the table, take its     *)
(* steps one by one and link with compare-and-swap ("gpu"); a thread whose *)
(* entry lost the race marks it by a next that is its own index, and the   *)
(* scan skips it.  A CPU worker has a table of its own ("cpu"): nobody     *)
(* comes between the steps of a tuple, and one action takes them all.      *)
(***************************************************************************)
EXTENDS Integers, Sequences, FiniteSets, FiniteSetsExt

CONSTANTS Threads,     \* threads of the kernel, 1 .. n
          Inputs,      \* sequences of [key, val] a thread may consume
          NumBuckets,  \* 1 << hash_bits
          MaxInputSize \* entries of the table

VARIABLES kind,  \* "gpu" or "cpu"
          input, \* the tuples of each thread
          head, cnt, next, key, agg, \* the table
          th,    \* threads: step, position, index, written, current
          out    \* what the scan handed to the parent: <<key, aggregate>>

vars == <<kind, input, head, cnt, next, key, agg, th, out>>
table == <<head, cnt, next, key, agg>>

EOC == -1
Slots == 0 .. MaxInputSize - 1
Hash(k) == k % NumBuckets
Idle == [pc |-> "init", pos |-> 1, idx |-> EOC, written |-> FALSE, current |-> EOC]

\* The counter is zero and every head ends its chain; entries are not initialized.
open ==
  /\ head = [b \in 0 .. NumBuckets - 1 |-> EOC] /\ cnt = 0
  /\ next = [i \in Slots |-> -2] /\ key = [i \in Slots |-> -2] /\ agg = [i \in Slots |-> 0]

\* The heads are a state variable that is set to -1 when it is made.
cpu_open == open

Init ==
  /\ kind \in {"gpu", "cpu"} /\ input \in [Threads -> Inputs]
  /\ kind = "cpu" => \A t \in Threads \ {1} : input[t] = <<>>
  /\ IF kind = "gpu" THEN open ELSE cpu_open
  /\ th = [t \in Threads |-> Idle]
  /\ out = <<>>

Tuple(t) == input[t][th[t].pos]
NextTuple(t) == th' = [th EXCEPT ![t] = [Idle EXCEPT !.pos = th[t].pos + 1]]

\* current = head[hash(key)]
loadHead(t) ==
  LET h == head[Hash(Tuple(t).key)] IN
  /\ kind = "gpu" /\ th[t].pc = "init" /\ th[t].pos <= Len(input[t])
  /\ th' = [th EXCEPT ![t].pc = IF h = EOC THEN "newHead" ELSE "follow", ![t].current = h]
  /\ UNCHANGED <<kind, input, table, out>>

\* Reserve an entry and store the tuple in it; next ends the chain.
prepareHashTableEntry(t) ==
  /\ cnt' = cnt + 1
  /\ next' = [next EXCEPT ![cnt] = EOC]
  /\ key' = [key EXCEPT ![cnt] = Tuple(t).key]
  /\ agg' = [agg EXCEPT ![cnt] = Tuple(t).val]

setHead(t) ==
  /\ th[t].pc = "newHead"
  /\ prepareHashTableEntry(t)
  /\ th' = [th EXCEPT ![t].pc = "casHead", ![t].idx = cnt, ![t].written = TRUE]
  /\ UNCHANGED <<kind, input, head, out>>

\* current = CAS(head, EOC, idx); done when it was empty.
casHead(t) ==
  LET b == Hash(Tuple(t).key) IN
  /\ th[t].pc = "casHead"
  /\ IF head[b] = EOC
       THEN head' = [head EXCEPT ![b] = th[t].idx] /\ NextTuple(t)
       ELSE /\ th' = [th EXCEPT ![t].pc = "follow", ![t].current = head[b]]
            /\ UNCHANGED head
  /\ UNCHANGED <<kind, input, cnt, next, key, agg, out>>

bucketFoundKept(t) ==
  /\ th[t].pc = "follow" /\ key[th[t].current] = Tuple(t).key
  /\ agg' = [agg EXCEPT ![th[t].current] = @ + Tuple(t).val]
  /\ NextTuple(t)
  /\ UNCHANGED <<kind, input, head, cnt, next, key, out>>

\* The group exists: aggregate atomically, and disown an entry already written.
bucketFound(t) ==
  /\ th[t].pc = "follow" /\ key[th[t].current] = Tuple(t).key
  /\ agg' = [agg EXCEPT ![th[t].current] = @ + Tuple(t).val]
  /\ next' = IF th[t].written THEN [next EXCEPT ![th[t].idx] = th[t].idx] ELSE next
  /\ NextTuple(t)
  /\ UNCHANGED <<kind, input, head, cnt, key, out>>

\* Another key: move on, or prepare to append at the end of the chain.
contFollow(t) ==
  /\ th[t].pc = "follow" /\ key[th[t].current] # Tuple(t).key
  /\ th' = IF next[th[t].current] # EOC
             THEN [th EXCEPT ![t].current = next[th[t].current]]
             ELSE [th EXCEPT ![t].pc = IF th[t].written THEN "link" ELSE "newTail"]
  /\ UNCHANGED <<kind, input, table, out>>

endFound(t) ==
  /\ th[t].pc = "newTail"
  /\ prepareHashTableEntry(t)
  /\ th' = [th EXCEPT ![t].pc = "link", ![t].idx = cnt, ![t].written = TRUE]
  /\ UNCHANGED <<kind, input, head, out>>

\* new_next = CAS(next[current], EOC, idx): go on along the chain when another
\* thread appended first.
linkTail(t) ==
  LET c == th[t].current IN
  /\ th[t].pc = "link"
  /\ IF next[c] = EOC
       THEN next' = [next EXCEPT ![c] = th[t].idx] /\ NextTuple(t)
       ELSE /\ th' = [th EXCEPT ![t].pc = "follow", ![t].current = next[c]]
            /\ UNCHANGED next
  /\ UNCHANGED <<kind, input, head, cnt, key, agg, out>>

\* The entry of the chain that holds this key, or the last entry of the chain.
cpuFollow(k) ==
  LET RECURSIVE follow(_)
      follow(i) == IF key[i] = k \/ next[i] = EOC THEN i ELSE follow(next[i])
  IN  follow(head[Hash(k)])

CpuTuple(t) == kind = "cpu" /\ th[t].pc = "init" /\ th[t].pos <= Len(input[t])

cpuSetHead(t) ==
  LET b == Hash(Tuple(t).key) IN
  /\ CpuTuple(t) /\ head[b] = EOC
  /\ prepareHashTableEntry(t)
  /\ head' = [head EXCEPT ![b] = cnt]
  /\ NextTuple(t)
  /\ UNCHANGED <<kind, input, out>>

cpuBucketFound(t) ==
  /\ CpuTuple(t) /\ head[Hash(Tuple(t).key)] # EOC
  /\ LET i == cpuFollow(Tuple(t).key) IN
       /\ key[i] = Tuple(t).key
       /\ agg' = [agg EXCEPT ![i] = @ + Tuple(t).val]
  /\ NextTuple(t)
  /\ UNCHANGED <<kind, input, head, cnt, next, key, out>>

cpuEndFound(t) ==
  /\ CpuTuple(t) /\ head[Hash(Tuple(t).key)] # EOC
  /\ LET i == cpuFollow(Tuple(t).key) IN
       /\ key[i] # Tuple(t).key
       /\ next' = [next EXCEPT ![i] = cnt, ![cnt] = EOC]
  /\ cnt' = cnt + 1
  /\ key' = [key EXCEPT ![cnt] = Tuple(t).key]
  /\ agg' = [agg EXCEPT ![cnt] = Tuple(t).val]
  /\ NextTuple(t)
  /\ UNCHANGED <<kind, input, head, out>>

Consumed == \A t \in Threads : th[t].pc = "init" /\ th[t].pos > Len(input[t])

\* close launches the kernel that scans, whose threads take the entries in strides.
close ==
  /\ kind = "gpu" /\ Consumed
  /\ th' = [t \in Threads |-> [th[t] EXCEPT !.pc = "scan", !.idx = t - 1]]
  /\ UNCHANGED <<kind, input, table, out>>

\* The destructor of the heads calls the pipeline that scans, with one thread.
cpu_close ==
  /\ kind = "cpu" /\ Consumed
  /\ th' = [t \in Threads |-> [th[t] EXCEPT !.pc = "scan", !.idx = IF t = 1 THEN 0 ELSE cnt]]
  /\ UNCHANGED <<kind, input, table, out>>

threadNum == IF kind = "gpu" THEN Cardinality(Threads) ELSE 1

\* generate_scan: entries whose next is their own index are not groups.
generate_scan(t) ==
  LET i == th[t].idx IN
  /\ th[t].pc = "scan" /\ i < cnt
  /\ out' = IF next[i] # i THEN Append(out, <<key[i], agg[i]>>) ELSE out
  /\ th' = [th EXCEPT ![t].idx = @ + threadNum]
  /\ UNCHANGED <<kind, input, table>>

ThreadStep(t) ==
  \/ loadHead(t) \/ setHead(t) \/ casHead(t) \/ bucketFound(t) \/ contFollow(t)
  \/ endFound(t) \/ linkTail(t) \/ generate_scan(t)
  \/ cpuSetHead(t) \/ cpuBucketFound(t) \/ cpuEndFound(t)

Scanned == \A t \in Threads : th[t].pc = "scan" /\ th[t].idx >= cnt

Next == (\E t \in Threads : ThreadStep(t)) \/ close \/ cpu_close \/ (Scanned /\ UNCHANGED vars)

Spec == Init /\ [][Next]_vars /\ WF_vars(close \/ cpu_close)
        /\ \A t \in Threads : WF_vars(ThreadStep(t))

----------------------------------------------------------------------------
Keys == UNION {{input[t][i].key : i \in 1 .. Len(input[t])} : t \in Threads}
Total(k) == MapThenSumSet(LAMBDA p : IF p[2] <= Len(input[p[1]]) /\ input[p[1]][p[2]].key = k
                                       THEN input[p[1]][p[2]].val ELSE 0,
                          Threads \X Slots \ {<<t, 0>> : t \in Threads})

\* When the scan is over the parent has got every group once, with the total of
\* all its tuples: no tuple is aggregated into an entry that lost the race, and
\* no two entries of a key survive it (gpu-hash-group-by-chained.cpp:161-432).
GroupsExact ==
  Scanned => /\ {out[i] : i \in 1 .. Len(out)} = {<<k, Total(k)>> : k \in Keys}
             /\ Len(out) = Cardinality(Keys)

\* The chains stay acyclic and never run into an entry that is marked as lost
\* or belongs to another bucket; a tuple takes at most one entry.
ChainsSound ==
  /\ cnt <= MapThenSumSet(LAMBDA t : Len(input[t]), Threads)
  /\ \A i \in Slots : (i < cnt /\ next[i] \notin {EOC, i}) =>
       next[i] \in 0 .. cnt - 1 /\ next[next[i]] # next[i] /\ Hash(key[next[i]]) = Hash(key[i])
  /\ \A b \in DOMAIN head : head[b] # EOC => next[head[b]] # head[b]

=============================================================================
