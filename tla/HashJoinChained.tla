--------------------------- MODULE HashJoinChained ---------------------------
(***************************************************************************)
(* The non-partitioned hash join: a table of chains is built by one        *)
(* pipeline and probed by the next.  Three variants share the generated    *)
(* code: "chained" gives every worker a table of its own, "morsel" shares  *)
(* one table between the workers' pipelines and counts them, "gpu" shares  *)
(* the table of a group between the threads of a kernel.                   *)
(***************************************************************************)
EXTENDS Integers, Sequences, FiniteSets, Bags

CONSTANTS Workers,           \* instances of the pipelines (or GPU threads)
          BuildInputs,       \* the sequences of keys a worker may build from
          ProbeInputs,       \* the sequences of keys a worker may probe with
          NumBuckets,        \* 1 << hash_bits
          MaxBuildInputSize  \* entries of a table

VARIABLES kind,      \* which of the three variants runs
          build,     \* the keys each worker builds from
          probe,     \* the keys each worker probes with
          workerCnt, \* workerCnt of HashJoinChainedMorsel
          tab,       \* the tables: memory, heads, counter and entries
          wrk,       \* the workers: step, position in the input, index, chain pointer
          out        \* the joined pairs handed to the parent

vars == <<kind, build, probe, workerCnt, tab, wrk, out>>
input == <<kind, build, probe>>

EOC == -1
Hash(k) == k % NumBuckets
Tables == Workers \cup {0}
Conf(w) == IF kind = "chained" THEN w ELSE 0 \* confs[pip->getGroup()] or confs[0]
NoEntry == [next |-> -2, key |-> -2, id |-> <<0, 0>>] \* memory nobody wrote
Fresh == [mem |-> "live", head |-> [b \in 0 .. NumBuckets - 1 |-> EOC], cnt |-> 0,
          entry |-> [i \in 0 .. MaxBuildInputSize - 1 |-> NoEntry]]

Init ==
  /\ kind \in {"chained", "morsel", "gpu"}
  /\ build \in [Workers -> BuildInputs] /\ probe \in [Workers -> ProbeInputs]
  /\ workerCnt = 0
  /\ tab = [t \in Tables |-> [Fresh EXCEPT !.mem = "none"]]
  /\ wrk = [w \in Workers |-> [pc |-> "open", pos |-> 0, idx |-> 0, cur |-> EOC]]
  /\ out = EmptyBag

Goto(w, pc) == wrk' = [wrk EXCEPT ![w].pc = pc]

----------------------------------------------------------------------------
\* The build pipeline.

open_build(w) ==
  /\ kind = "chained" /\ wrk[w].pc = "open" /\ Goto(w, "build")
  /\ tab' = [tab EXCEPT ![w] = Fresh]
  /\ UNCHANGED <<input, workerCnt, out>>

\* Under init_lock: the first worker allocates the table.
morsel_open_build(w) ==
  /\ kind = "morsel" /\ wrk[w].pc = "open" /\ Goto(w, "build")
  /\ workerCnt' = workerCnt + 1
  /\ tab' = IF workerCnt = 0 THEN [tab EXCEPT ![0] = Fresh] ELSE tab
  /\ UNCHANGED <<input, out>>

\* The group's only pipeline opens once, before the kernel's threads run.
gpu_open_build ==
  /\ kind = "gpu" /\ \A w \in Workers : wrk[w].pc = "open"
  /\ wrk' = [w \in Workers |-> [wrk[w] EXCEPT !.pc = "build"]]
  /\ tab' = [tab EXCEPT ![0] = Fresh]
  /\ UNCHANGED <<input, workerCnt, out>>

\* index = cnt++, one atomic step where the table is shared.
nextIndex(w) ==
  LET t == Conf(w) IN
  /\ wrk[w].pc = "build" /\ wrk[w].pos < Len(build[w])
  /\ wrk' = [wrk EXCEPT ![w].pc = "link", ![w].pos = @ + 1, ![w].idx = tab[t].cnt]
  /\ tab' = [tab EXCEPT ![t].cnt = @ + 1]
  /\ UNCHANGED <<input, workerCnt, out>>

\* old_head = exchange(head[hash(key)], index).
replaceHead(w) ==
  LET t == Conf(w)
      b == Hash(build[w][wrk[w].pos])
  IN
  /\ wrk[w].pc = "link"
  /\ wrk' = [wrk EXCEPT ![w].pc = "store", ![w].cur = tab[t].head[b]]
  /\ tab' = [tab EXCEPT ![t].head[b] = wrk[w].idx]
  /\ UNCHANGED <<input, workerCnt, out>>

\* generate_build: the entry, whose next is the old head, is stored after the
\* head already points to it.
generate_build(w) ==
  /\ wrk[w].pc = "store"
  /\ Goto(w, "build")
  /\ tab' = [tab EXCEPT ![Conf(w)].entry[wrk[w].idx] =
                          [next |-> wrk[w].cur, key |-> build[w][wrk[w].pos], id |-> <<w, wrk[w].pos>>]]
  /\ UNCHANGED <<input, workerCnt, out>>

close_build(w) ==
  /\ wrk[w].pc = "build" /\ wrk[w].pos = Len(build[w])
  /\ wrk' = [wrk EXCEPT ![w].pc = "built", ![w].pos = 0]
  /\ UNCHANGED <<input, workerCnt, tab, out>>

----------------------------------------------------------------------------
\* The probe pipeline, which produce_ puts after the build pipeline.

openProbeEarly(w) ==
  /\ wrk[w].pc = "built"
  /\ Goto(w, "probe")
  /\ UNCHANGED <<input, workerCnt, tab, out>>

open_probe(w) ==
  /\ wrk[w].pc = "built"
  /\ \A v \in Workers : wrk[v].pc \notin {"open", "build", "link", "store"}
  /\ Goto(w, "probe")
  /\ UNCHANGED <<input, workerCnt, tab, out>>

\* current = head[hash(key)]
generate_probe(w) ==
  /\ wrk[w].pc = "probe" /\ wrk[w].pos < Len(probe[w])
  /\ wrk' = [wrk EXCEPT ![w].pc = "follow", ![w].pos = @ + 1,
                        ![w].cur = tab[Conf(w)].head[Hash(probe[w][wrk[w].pos + 1])]]
  /\ UNCHANGED <<input, workerCnt, tab, out>>

\* One round of the chain: the pointer moves on before the parent consumes.
chainFollow(w) ==
  LET e == tab[Conf(w)].entry[wrk[w].cur] IN
  /\ wrk[w].pc = "follow" /\ wrk[w].cur # EOC
  /\ wrk' = [wrk EXCEPT ![w].cur = e.next]
  /\ out' = IF e.key = probe[w][wrk[w].pos] THEN out (+) SetToBag({<<e.id, <<w, wrk[w].pos>>>>}) ELSE out
  /\ UNCHANGED <<input, workerCnt, tab>>

chainEnd(w) ==
  /\ wrk[w].pc = "follow" /\ wrk[w].cur = EOC
  /\ Goto(w, "probe")
  /\ UNCHANGED <<input, workerCnt, tab, out>>

Probed(w) == wrk[w].pc = "probe" /\ wrk[w].pos = Len(probe[w])
Free(t) == tab' = [tab EXCEPT ![t].mem = IF @ = "live" THEN "freed" ELSE "freed twice"]

close_probe(w) ==
  /\ kind = "chained" /\ Probed(w)
  /\ Free(w)
  /\ Goto(w, "done") /\ UNCHANGED <<input, workerCnt, out>>

\* Under init_lock: the last worker frees.
morsel_close_probe(w) ==
  /\ kind = "morsel" /\ Probed(w)
  /\ workerCnt' = workerCnt - 1
  /\ IF workerCnt = 1 THEN Free(0) ELSE UNCHANGED tab
  /\ Goto(w, "done") /\ UNCHANGED <<input, out>>

gpu_close_probe ==
  /\ kind = "gpu" /\ \A w \in Workers : Probed(w)
  /\ Free(0)
  /\ wrk' = [w \in Workers |-> [wrk[w] EXCEPT !.pc = "done"]]
  /\ UNCHANGED <<input, workerCnt, out>>

WorkerStep(w) ==
  \/ open_build(w) \/ morsel_open_build(w) \/ nextIndex(w) \/ replaceHead(w) \/ generate_build(w)
  \/ close_build(w) \/ open_probe(w) \/ generate_probe(w) \/ chainFollow(w) \/ chainEnd(w)
  \/ close_probe(w) \/ morsel_close_probe(w)

AllDone == \A w \in Workers : wrk[w].pc = "done"

Next ==
  \/ \E w \in Workers : WorkerStep(w)
  \/ gpu_open_build \/ gpu_close_probe
  \/ AllDone /\ UNCHANGED vars

Spec == Init /\ [][Next]_vars /\ \A w \in Workers : WF_vars(WorkerStep(w))

----------------------------------------------------------------------------
Using(w) == wrk[w].pc \in {"build", "link", "store", "built", "probe", "follow"}

\* The table a worker uses is allocated and not yet freed, no memory is freed
\* twice, and a chain is followed only over entries that were written: the head
\* published before its entry (hash-join-chained.cpp:273-318) is never met by a
\* probe, whatever the workers' order and whoever frees (morsel, :112-129).
TableAlive ==
  /\ \A w \in Workers : Using(w) => tab[Conf(w)].mem = "live"
  /\ \A t \in Tables : tab[t].mem # "freed twice" /\ tab[t].cnt <= MaxBuildInputSize
  /\ \A w \in Workers : (wrk[w].pc = "follow" /\ wrk[w].cur # EOC) => tab[Conf(w)].entry[wrk[w].cur] # NoEntry

Positions(s) == {<<w, i>> \in Workers \X (1 .. MaxBuildInputSize) : i <= Len(s[w])}

\* When every worker is done the parent has got every pair of a build and a
\* probe tuple with equal keys exactly once, of one worker where the tables are
\* separate and of any two where they share one, and all memory is freed.
JoinComplete ==
  AllDone =>
    /\ out = SetToBag({<<b, p>> \in Positions(build) \X Positions(probe) :
                         /\ build[b[1]][b[2]] = probe[p[1]][p[2]]
                         /\ kind = "chained" => b[1] = p[1]})
    /\ \A t \in Tables : tab[t].mem \in {"none", "freed"}

=============================================================================
