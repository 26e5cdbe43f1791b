----------------------------- MODULE OneShotGC -----------------------------
(***************************************************************************)
(* Transactions over multi-versioned records whose old versions live in    *)
(* circular delta stores: TransactionManager::executeFullQueue, the        *)
(* transaction table of each worker, the registration of workers with the  *)
(* stores, MV2PL locking, version creation, chain traversal and the        *)
(* one-shot collection of a store.                                         *)
(*                                                                         *)
(* A store appears here as ReclaimableStore describes it: entering waits   *)
(* for a collection to end, a collection excludes everybody inside.        *)
(***************************************************************************)
EXTENDS Integers, Sequences, FiniteSets

CONSTANTS Workers,    \* the worker threads
          Keys,       \* the primary keys
          Loaded,     \* keys loaded before the workers start
          NumDeltas,  \* num_delta_storages
          EpochLen,   \* 2^delta_switch_bit start times share a store
          TagMod,     \* tags a pointer can tell apart
          Programs,   \* stored procedures: [ro : BOOLEAN, ops : Seq([type, key])]
          MaxTs,      \* bound on start times
          NoOne       \* nobody holds the lock, latch or store

ASSUME ConstantsAssumption ==
  /\ IsFiniteSet(Workers) /\ NoOne \notin Workers
  /\ Loaded \subseteq Keys
  /\ NumDeltas \in Nat \ {0} /\ EpochLen \in Nat \ {0}
  /\ TagMod \in Nat \ {0} /\ MaxTs \in Nat

\* The procedures registered as read-only (the scans of the benchmarks) update
\* nothing.
ASSUME ProgramsAssumption ==
  /\ Programs \subseteq [ro : BOOLEAN,
                         ops : Seq([type : {"lookup", "update", "insert"}, key : Keys])]
  /\ \A p \in Programs : p.ro => \A i \in 1..Len(p.ops) : p.ops[i].type # "update"

VARIABLES gen,         \* next start time
          pc, txn,     \* of each worker: location, running transaction
          op, hop,     \* of each worker: operation, position in a version chain
          cur,         \* of each worker: current_delta_id, -1 for none
          min_active,  \* of each worker: the transaction table's atomic
          inside,      \* of each store: the registered workers
          epoch,       \* of each store and worker: max_active_epoch
          owner,       \* of each store: the collecting worker
          age,         \* of each store: number of resets; the tag is age % TagMod
          gc,          \* of each worker: stores to collect, scan so far, where to go on
          rec,         \* the records, with their version chains
          lock, latch, \* of each record
          exposed      \* workers passed over by a scan between the draw of their
                       \* start time and its publication

txnVars == <<gen, txn, cur, min_active>>
storeVars == <<inside, epoch, owner, age>>
recVars == <<rec, lock, latch>>
vars == <<gen, pc, txn, op, hop, cur, min_active, inside, epoch, owner, age, gc,
          rec, lock, latch, exposed>>

Deltas == 0..NumDeltas - 1

UINT64_MAX == MaxTs + 1

get_delta_ver(ts) == (ts \div EpochLen) % NumDeltas

Goto(w, l) == pc' = [pc EXCEPT ![w] = l]

Ops(w) == txn[w].ops

NoGC == [stores |-> <<>>, todo |-> {}, min |-> UINT64_MAX, then |-> "idle"]

Init ==
  /\ gen = 1
  /\ pc = [w \in Workers |-> "idle"]
  /\ txn = [w \in Workers |-> [ts |-> 0, ro |-> TRUE, ops |-> <<>>]]
  /\ op = [w \in Workers |-> 1]
  /\ hop = [w \in Workers |-> 0]
  /\ cur = [w \in Workers |-> -1]
  /\ min_active = [w \in Workers |-> UINT64_MAX]
  /\ inside = [d \in Deltas |-> {}]
  /\ epoch = [d \in Deltas |-> [w \in Workers |-> 0]]
  /\ owner = [d \in Deltas |-> NoOne]
  /\ age = [d \in Deltas |-> 1]
  /\ gc = [w \in Workers |-> NoGC]
  /\ rec = [k \in Loaded |-> [t_min |-> 0, born |-> 0, chain |-> <<>>]]
  /\ lock = [k \in Keys |-> NoOne]
  /\ latch = [k \in Keys |-> NoOne]
  /\ exposed = {}

-----------------------------------------------------------------------------
(* ThreadLocal_TransactionTable::beginTxn: the start time is drawn, and only
   then published for the collectors. *)

getTxn(w, p) ==
  /\ pc[w] = "idle"
  /\ gen <= MaxTs
  /\ txn' = [txn EXCEPT ![w] = [ts |-> gen, ro |-> p.ro, ops |-> p.ops]]
  /\ gen' = gen + 1
  /\ Goto(w, "publish")
  /\ UNCHANGED <<op, hop, cur, min_active, storeVars, gc, recVars, exposed>>

\* Mutant: beginTxn does not publish the start time.
publishForgotten(w) ==
  /\ pc[w] = "publish"
  /\ Goto(w, "register")
  /\ UNCHANGED <<txnVars, op, hop, storeVars, gc, recVars, exposed>>

publish(w) ==
  /\ pc[w] = "publish"
  /\ min_active' = [min_active EXCEPT ![w] = txn[w].ts]
  /\ Goto(w, "register")
  /\ UNCHANGED <<gen, txn, op, hop, cur, storeVars, gc, recVars, exposed>>

-----------------------------------------------------------------------------
(* The registration of executeFullQueue *)

\* decrement_reader: the last worker to leave collects, then goes on at l.
Leave(w, d, l) ==
  /\ inside' = [inside EXCEPT ![d] = @ \ {w}]
  /\ IF inside[d] = {w}
     THEN /\ gc' = [gc EXCEPT ![w] = [NoGC EXCEPT !.stores = <<d>>, !.then = l]]
          /\ Goto(w, "gc")
     ELSE UNCHANGED gc /\ Goto(w, l)

\* A read-only transaction of a registered worker deregisters it.
remove_active_txn(w) ==
  /\ pc[w] = "register"
  /\ txn[w].ro /\ cur[w] # -1
  /\ Leave(w, cur[w], "lock")
  /\ cur' = [cur EXCEPT ![w] = -1]
  /\ UNCHANGED <<gen, txn, op, hop, min_active, epoch, owner, age, recVars, exposed>>

first_time(w) ==
  /\ pc[w] = "register"
  /\ cur[w] = -1
  /\ cur' = [cur EXCEPT ![w] = get_delta_ver(txn[w].ts)]
  /\ Goto(w, "enter")
  /\ UNCHANGED <<gen, txn, op, hop, min_active, storeVars, gc, recVars, exposed>>

switch_delta(w) ==
  /\ pc[w] = "register"
  /\ ~txn[w].ro
  /\ cur[w] \notin {-1, get_delta_ver(txn[w].ts)}
  /\ Leave(w, cur[w], "enter")
  /\ cur' = [cur EXCEPT ![w] = get_delta_ver(txn[w].ts)]
  /\ UNCHANGED <<gen, txn, op, hop, min_active, epoch, owner, age, recVars, exposed>>

\* Mutant: staying in a store does not move the worker's epoch.
update_delta_epochForgotten(w) ==
  /\ pc[w] = "register"
  /\ ~txn[w].ro
  /\ cur[w] = get_delta_ver(txn[w].ts)
  /\ Goto(w, "lock")
  /\ UNCHANGED <<txnVars, op, hop, storeVars, gc, recVars, exposed>>

update_delta_epoch(w) ==
  /\ pc[w] = "register"
  /\ ~txn[w].ro
  /\ cur[w] = get_delta_ver(txn[w].ts)
  /\ epoch' = [epoch EXCEPT ![cur[w]][w] = txn[w].ts]
  /\ Goto(w, "lock")
  /\ UNCHANGED <<txnVars, op, hop, inside, owner, age, gc, recVars, exposed>>

\* Mutant: increment_reader without raising max_active_epoch.
enterUnraised(w) ==
  /\ pc[w] = "enter"
  /\ owner[cur[w]] = NoOne
  /\ inside' = [inside EXCEPT ![cur[w]] = @ \cup {w}]
  /\ Goto(w, "lock")
  /\ UNCHANGED <<txnVars, op, hop, epoch, owner, age, gc, recVars, exposed>>

\* increment_reader of the current store.
enter(w) ==
  /\ pc[w] = "enter"
  /\ owner[cur[w]] = NoOne
  /\ inside' = [inside EXCEPT ![cur[w]] = @ \cup {w}]
  /\ epoch' = [epoch EXCEPT ![cur[w]][w] = IF @ < txn[w].ts THEN txn[w].ts ELSE @]
  /\ Goto(w, "lock")
  /\ UNCHANGED <<txnVars, op, hop, owner, age, gc, recVars, exposed>>

-----------------------------------------------------------------------------
(* The stored procedure: MV2PL as YCSB::exec_txn uses it.  A first loop over
   the operations tries the write locks of the updates; one failure releases
   them and aborts. *)

Key(w) == Ops(w)[op[w]].key

At(w, l, type) == pc[w] = l /\ op[w] <= Len(Ops(w)) /\ Ops(w)[op[w]].type = type

\* The keys of the updates before the current operation.
Acquired(w) == {Ops(w)[i].key : i \in {j \in 1..op[w] - 1 : Ops(w)[j].type = "update"}}

try_lock(w) ==
  /\ \/ /\ At(w, "lock", "update")
        /\ lock[Key(w)] = NoOne
        /\ lock' = [lock EXCEPT ![Key(w)] = w]
     \/ (At(w, "lock", "lookup") \/ At(w, "lock", "insert")) /\ UNCHANGED lock
  /\ op' = [op EXCEPT ![w] = @ + 1]
  /\ UNCHANGED <<txnVars, pc, hop, storeVars, gc, rec, latch, exposed>>

\* Mutant: an abort unlocks every record of the transaction, acquired or not.
release_locksAll(w) ==
  /\ At(w, "lock", "update")
  /\ lock[Key(w)] # NoOne
  /\ lock' = [k \in Keys |-> IF \E i \in 1..Len(Ops(w)) : Ops(w)[i] = [type |-> "update", key |-> k]
                             THEN NoOne ELSE lock[k]]
  /\ Goto(w, "end")
  /\ UNCHANGED <<txnVars, op, hop, storeVars, gc, rec, latch, exposed>>

release_locks(w) ==
  /\ At(w, "lock", "update")
  /\ lock[Key(w)] # NoOne
  /\ lock' = [k \in Keys |-> IF k \in Acquired(w) THEN NoOne ELSE lock[k]]
  /\ Goto(w, "end")
  /\ UNCHANGED <<txnVars, op, hop, storeVars, gc, rec, latch, exposed>>

all_locked(w) ==
  /\ pc[w] = "lock"
  /\ op[w] > Len(Ops(w))
  /\ op' = [op EXCEPT ![w] = 1]
  /\ Goto(w, "exec")
  /\ UNCHANGED <<txnVars, hop, storeVars, gc, recVars, exposed>>

is_readable(t_min, w) == t_min <= txn[w].ts

\* The memory a version pointer refers to still holds that version.
Live(ver) == ver.age = age[ver.delta]

\* What a reader finds at a version pointer: the version, or, once the store
\* has been reset, a failed tag check or recycled memory; both end the process.
Pointer(w, i) ==
  IF i <= Len(rec[Key(w)].chain) /\ Live(rec[Key(w)].chain[i])
  THEN Goto(w, "walk") /\ latch' = [latch EXCEPT ![Key(w)] = w]
                       /\ hop' = [hop EXCEPT ![w] = i]
  ELSE Goto(w, "crashed") /\ UNCHANGED <<latch, hop>>

\* getIndexedRecord: the main record if it is readable, else the chain.
lookup(w) ==
  /\ At(w, "exec", "lookup")
  /\ Key(w) \in DOMAIN rec
  /\ latch[Key(w)] = NoOne
  /\ IF is_readable(rec[Key(w)].t_min, w)
     THEN op' = [op EXCEPT ![w] = @ + 1] /\ UNCHANGED <<pc, hop, latch>>
     ELSE Pointer(w, 1) /\ UNCHANGED op
  /\ UNCHANGED <<txnVars, storeVars, gc, rec, lock, exposed>>

\* The workloads look up only keys they know of.
lookup_absent(w) ==
  /\ At(w, "exec", "lookup")
  /\ Key(w) \notin DOMAIN rec
  /\ op' = [op EXCEPT ![w] = @ + 1]
  /\ UNCHANGED <<txnVars, pc, hop, storeVars, gc, recVars, exposed>>

\* get_readable_ver, one version per step, under the latch of the record.
walk(w) ==
  /\ pc[w] = "walk"
  /\ IF is_readable(rec[Key(w)].chain[hop[w]].t_min, w)
     THEN /\ latch' = [latch EXCEPT ![Key(w)] = NoOne]
          /\ op' = [op EXCEPT ![w] = @ + 1]
          /\ hop' = [hop EXCEPT ![w] = 0]
          /\ Goto(w, "exec")
     ELSE Pointer(w, hop[w] + 1) /\ UNCHANGED op
  /\ UNCHANGED <<txnVars, storeVars, gc, rec, lock, exposed>>

\* isValid: the tags agree, which they also do TagMod resets later.
isValid(ver) == (ver.age - age[ver.delta]) % TagMod = 0

\* create_versions: the old head is linked only if its tag is still valid.
create_versions(w, r) ==
  <<[t_min |-> r.t_min, delta |-> get_delta_ver(txn[w].ts), age |-> age[get_delta_ver(txn[w].ts)]]>>
    \o (IF r.chain # <<>> /\ isValid(r.chain[1]) THEN r.chain ELSE <<>>)

\* updateRecord under the latch, and the early release of the write lock.
update(w) ==
  /\ At(w, "exec", "update")
  /\ latch[Key(w)] = NoOne
  /\ rec' = [rec EXCEPT ![Key(w)] =
       [@ EXCEPT !.t_min = txn[w].ts, !.chain = create_versions(w, rec[Key(w)])]]
  /\ lock' = [lock EXCEPT ![Key(w)] = NoOne]
  /\ op' = [op EXCEPT ![w] = @ + 1]
  /\ UNCHANGED <<txnVars, pc, hop, storeVars, gc, latch, exposed>>

insert(w) ==
  /\ At(w, "exec", "insert")
  /\ rec' = IF Key(w) \in DOMAIN rec THEN rec
            ELSE [k \in DOMAIN rec \cup {Key(w)} |->
                    IF k = Key(w) THEN [t_min |-> txn[w].ts, born |-> txn[w].ts, chain |-> <<>>]
                                  ELSE rec[k]]
  /\ op' = [op EXCEPT ![w] = @ + 1]
  /\ UNCHANGED <<txnVars, pc, hop, storeVars, gc, lock, latch, exposed>>

ops_done(w) ==
  /\ pc[w] = "exec"
  /\ op[w] > Len(Ops(w))
  /\ Goto(w, "end")
  /\ UNCHANGED <<txnVars, op, hop, storeVars, gc, recVars, exposed>>

-----------------------------------------------------------------------------
(* endTxn; a read-only transaction then tries to collect every store. *)

endTxn(w) ==
  /\ pc[w] = "end"
  /\ min_active' = [min_active EXCEPT ![w] = UINT64_MAX]
  /\ txn' = [txn EXCEPT ![w] = [ts |-> 0, ro |-> TRUE, ops |-> <<>>]]
  /\ op' = [op EXCEPT ![w] = 1]
  /\ exposed' = exposed \ {w}
  /\ IF txn[w].ro
     THEN /\ gc' = [gc EXCEPT ![w] = [NoGC EXCEPT !.stores = [i \in 1..NumDeltas |-> i - 1]]]
          /\ Goto(w, "gc")
     ELSE UNCHANGED gc /\ Goto(w, "idle")
  /\ UNCHANGED <<gen, hop, cur, storeVars, recVars>>

-----------------------------------------------------------------------------
(* CircularDeltaStore::GC on the first of the worker's stores to collect *)

Store(w) == Head(gc[w].stores)

NextStore(w) ==
  IF Len(gc[w].stores) = 1
  THEN gc' = [gc EXCEPT ![w] = NoGC] /\ Goto(w, gc[w].then)
  ELSE /\ gc' = [gc EXCEPT ![w] = [NoGC EXCEPT !.stores = Tail(gc[w].stores), !.then = gc[w].then]]
       /\ Goto(w, "gc")

GcAcquire(w) ==
  /\ pc[w] = "gc"
  /\ owner[Store(w)] = NoOne /\ inside[Store(w)] = {}
  /\ owner' = [owner EXCEPT ![Store(w)] = w]
  /\ gc' = [gc EXCEPT ![w].todo = Workers]
  /\ Goto(w, "scan")
  /\ UNCHANGED <<txnVars, op, hop, inside, epoch, age, recVars, exposed>>

\* The exchange fails, spuriously too.
GcSkip(w) ==
  /\ pc[w] = "gc"
  /\ NextStore(w)
  /\ UNCHANGED <<txnVars, op, hop, storeVars, recVars, exposed>>

\* One iteration of get_min_activeTxn over the registered tables.
GcScan(w, v) ==
  /\ pc[w] = "scan"
  /\ v \in gc[w].todo
  /\ gc' = [gc EXCEPT ![w].todo = @ \ {v},
                      ![w].min = IF min_active[v] < @ THEN min_active[v] ELSE @]
  /\ exposed' = IF pc[v] = "publish" THEN exposed \cup {v} ELSE exposed
  /\ UNCHANGED <<txnVars, pc, op, hop, storeVars, recVars>>

\* Mutant: the collection does not give the store back.
GcFinishKeep(w) ==
  /\ pc[w] = "scan"
  /\ gc[w].todo = {}
  /\ age' = IF \A v \in Workers : gc[w].min > epoch[Store(w)][v]
            THEN [age EXCEPT ![Store(w)] = @ + 1] ELSE age
  /\ NextStore(w)
  /\ UNCHANGED <<txnVars, op, hop, inside, epoch, owner, recVars, exposed>>

\* impl_gc_simple's verdict, the reset and the release.
GcFinish(w) ==
  /\ pc[w] = "scan"
  /\ gc[w].todo = {}
  /\ age' = IF \A v \in Workers : gc[w].min > epoch[Store(w)][v]
            THEN [age EXCEPT ![Store(w)] = @ + 1] ELSE age
  /\ owner' = [owner EXCEPT ![Store(w)] = NoOne]
  /\ NextStore(w)
  /\ UNCHANGED <<txnVars, op, hop, inside, epoch, recVars, exposed>>

-----------------------------------------------------------------------------
\* The steps of one worker inside executeFullQueue.
Step(w) ==
  \/ publish(w)
  \/ remove_active_txn(w) \/ first_time(w) \/ switch_delta(w)
  \/ update_delta_epoch(w) \/ enter(w)
  \/ try_lock(w) \/ release_locks(w) \/ all_locked(w)
  \/ lookup(w) \/ lookup_absent(w) \/ walk(w) \/ update(w) \/ insert(w)
  \/ ops_done(w) \/ endTxn(w)
  \/ GcAcquire(w) \/ GcSkip(w) \/ (\E v \in Workers : GcScan(w, v)) \/ GcFinish(w)

\* A failed read ends the process.
Crashed == \E w \in Workers : pc[w] = "crashed"

Next ==
  /\ ~Crashed
  /\ \E w \in Workers : (\E p \in Programs : getTxn(w, p)) \/ Step(w)

Spec == Init /\ [][Next]_vars

\* The operating system keeps running every thread.
FairSpec == Spec /\ \A w \in Workers : WF_vars(~Crashed /\ Step(w))

-----------------------------------------------------------------------------

\* A transaction the collectors can see, and have never overlooked.
Protected(w) == min_active[w] = txn[w].ts /\ w \notin exposed

\* From the record, through live versions only, a transaction starting at ts
\* reaches one that it may read.
Reaches(r, ts) ==
  \/ r.t_min <= ts
  \/ \E n \in 1..Len(r.chain) :
       r.chain[n].t_min <= ts /\ \A i \in 1..n : Live(r.chain[i])

\* No collection frees a version some transaction still needs: every protected
\* transaction can reach its version of every record that is as old as it is,
\* whatever happens between two hops of its walk.
NeededVersionsLive ==
  \A w \in Workers : Protected(w) =>
    \A k \in DOMAIN rec : rec[k].born <= txn[w].ts => Reaches(rec[k], txn[w].ts)

\* So its reads never fail: the fatal tag check of get_readable_version and
\* the assertion on the version it returns concern only transactions that a
\* collector overlooked, or records inserted after they started.
OnlyOverlookedFail ==
  \A w \in Workers :
    pc[w] = "crashed" => w \in exposed \/ rec[Key(w)].born > txn[w].ts

\* The comparison of impl_gc_simple with max_active_epoch is enough because a
\* store never holds the version made by a writer younger than its epochs.
LiveVersionsCovered ==
  \A k \in DOMAIN rec : \A i \in 1..Len(rec[k].chain) :
    LET ver == rec[k].chain[i]
        writer == IF i = 1 THEN rec[k].t_min ELSE rec[k].chain[i - 1].t_min
    IN  Live(ver) => \E w \in Workers : writer <= epoch[ver.delta][w]

\* A transaction past its lock phase still holds the write lock of every
\* update it has not yet made: neither the abort of another transaction nor
\* an early release frees it.
PendingUpdatesLocked ==
  \A w \in Workers : pc[w] \in {"exec", "walk"} =>
    \A i \in op[w]..Len(Ops(w)) :
      Ops(w)[i].type = "update" => lock[Ops(w)[i].key] = w

\* Every transaction that drew a start time ends: spinning on a store under
\* collection, on latches and try-locks never blocks all progress.
TxnsEnd == \A w \in Workers : pc[w] = "publish" ~> (pc[w] = "idle" \/ Crashed)

\* The fatal check of get_readable_version on the head of the list, taken at
\* its word: no reader meets a list whose delta tag no longer verifies.
TagsVerify == \A w \in Workers : pc[w] # "crashed"

\* "we know the list itself is N2O order".
NewestToOldest ==
  \A k \in DOMAIN rec :
    LET writers == <<rec[k].t_min>> \o [i \in DOMAIN rec[k].chain |-> rec[k].chain[i].t_min]
    IN  \A i \in 1..Len(writers) - 1 : writers[i] > writers[i + 1]
=============================================================================
