-------------------------- MODULE OneShotGCProofs ---------------------------
(***************************************************************************)
(* OneShotGC for any number of workers, records, stores and start times:   *)
(* the one-shot collection frees no version that a transaction it could    *)
(* see still needs.                                                        *)
(***************************************************************************)
EXTENDS OneShotGCInvariant

\* The time each prover has for a leaf.
USE SMTT(30), ZenonT(60)

-----------------------------------------------------------------------------
(* Versions *)

\* Only updates and inserts change records, and only the end of a collection
\* resets a store.
LEMMA RecordSteps ==
  ASSUME NEW w \in Workers, (\E p \in Programs : getTxn(w, p)) \/ Step(w)
  PROVE  /\ rec' = rec \/ update(w) \/ insert(w)
         /\ age' = age \/ GcFinish(w)
         /\ gen' = gen \/ gen' = gen + 1
  <1> USE DEF Goto, txnVars, storeVars, recVars
  <1>1. rec' = rec \/ update(w) \/ insert(w)
    BY ZenonT(60) DEF Step, getTxn, publish, remove_active_txn, first_time, switch_delta,
       update_delta_epoch, enter, try_lock, release_locks, all_locked, lookup, lookup_absent,
       walk, ops_done, endTxn, GcAcquire, GcSkip, GcScan, GcFinish
  <1>2. age' = age \/ GcFinish(w)
    BY ZenonT(60) DEF Step, getTxn, publish, remove_active_txn, first_time, switch_delta,
       update_delta_epoch, enter, try_lock, release_locks, all_locked, lookup, lookup_absent,
       walk, update, insert, ops_done, endTxn, GcAcquire, GcSkip, GcScan
  <1>3. gen' = gen \/ gen' = gen + 1
    BY ZenonT(60) DEF Step, getTxn, publish, remove_active_txn, first_time, switch_delta,
       update_delta_epoch, enter, try_lock, release_locks, all_locked, lookup, lookup_absent,
       walk, update, insert, ops_done, endTxn, GcAcquire, GcSkip, GcScan, GcFinish
  <1> QED BY <1>1, <1>2, <1>3

\* Clocks, ages and epochs never go back.
LEMMA Monotone ==
  ASSUME TypeOK, TypeOK', Published, Registered, NEW w \in Workers,
         (\E p \in Programs : getTxn(w, p)) \/ Step(w)
  PROVE  /\ gen <= gen'
         /\ \A d \in Deltas : age[d] <= age'[d]
         /\ \A d \in Deltas, u \in Workers : epoch[d][u] <= epoch'[d][u]
  <1> USE DEF Goto, txnVars, storeVars, recVars
  <1>1. gen <= gen'
    <2>1. gen \in Nat
      BY ConstantsAssumption DEF TypeOK
    <2>2. gen' = gen \/ gen' = gen + 1
      BY RecordSteps
    <2> QED BY <2>1, <2>2
  <1>2. \A d \in Deltas : age[d] <= age'[d]
    <2>1. CASE age' = age
      BY <2>1 DEF TypeOK
    <2>2. CASE GcFinish(w)
      <3>1. age' = age \/ age' = [age EXCEPT ![Store(w)] = age[Store(w)] + 1]
        BY <2>2, ZenonT(60) DEF GcFinish
      <3>2. CASE age' = [age EXCEPT ![Store(w)] = age[Store(w)] + 1]
        BY <3>2 DEF TypeOK
      <3> QED BY <2>1, <3>1, <3>2
    <2> QED BY <2>1, <2>2, RecordSteps
  <1>3. ASSUME NEW d \in Deltas, NEW u \in Workers PROVE epoch[d][u] <= epoch'[d][u]
    <2>0. epoch[d][u] \in Nat /\ txn[w].ts \in Nat
      BY DEF TypeOK, Transactions
    <2>1. CASE enter(w)
      <3> DEFINE t == IF epoch[cur[w]][w] < txn[w].ts THEN txn[w].ts ELSE epoch[cur[w]][w]
      <3>1. epoch' = [epoch EXCEPT ![cur[w]][w] = t]
        BY <2>1 DEF enter
      <3>2. cur[w] = d /\ u = w => epoch[d][u] <= t
        BY <2>0
      <3> HIDE DEF t
      <3>3. epoch'[d][u] = IF cur[w] = d /\ u = w THEN t ELSE epoch[d][u]
        BY <3>1 DEF TypeOK
      <3> QED BY <2>0, <3>2, <3>3
    <2>2. CASE update_delta_epoch(w)
      <3>1. pc[w] = "register" /\ epoch' = [epoch EXCEPT ![cur[w]][w] = txn[w].ts]
        BY <2>2 DEF update_delta_epoch
      <3>2. epoch[d][w] <= txn[w].ts
        BY <3>1 DEF Published, PublishedBy, Location
      <3>3. epoch'[d][u] = IF cur[w] = d /\ u = w THEN txn[w].ts ELSE epoch[d][u]
        BY <3>1 DEF TypeOK
      <3> QED BY <2>0, <3>2, <3>3
    <2>3. CASE ~enter(w) /\ ~update_delta_epoch(w)
      <3>1. epoch' = epoch
        BY <2>3, ZenonT(60) DEF Step, getTxn, publish, remove_active_txn, first_time, switch_delta,
           try_lock, release_locks, all_locked, lookup, lookup_absent,
           walk, update, insert, ops_done, endTxn, GcAcquire, GcSkip, GcScan, GcFinish
      <3>2. \A x \in Nat : x <= x
        OBVIOUS
      <3> QED BY <2>0, <3>1, <3>2, ZenonT(60)
    <2> QED BY <2>1, <2>2, <2>3, ZenonT(60)
  <1> QED BY <1>1, <1>2, <1>3

\* What an update does to its record: the transaction becomes the writer, and
\* is inside the store it puts the old version into.
LEMMA UpdateEffect ==
  ASSUME TypeOK, Published, Registered, ReadOnly, NEW w \in Workers, update(w)
  PROVE  LET k == Key(w)
             d == get_delta_ver(txn[w].ts)
         IN  /\ DOMAIN rec' = DOMAIN rec
             /\ \A j \in DOMAIN rec : j # k => rec'[j] = rec[j]
             /\ k \in DOMAIN rec =>
                  /\ rec'[k].t_min = txn[w].ts /\ rec'[k].born = rec[k].born
                  /\ rec'[k].chain = create_versions(w, rec[k])
             /\ txn[w].ts < gen /\ txn[w].ts <= epoch[d][w]
             /\ txn' = txn /\ age' = age /\ epoch' = epoch /\ gen' = gen /\ exposed' = exposed
  <1> DEFINE k == Key(w)
             new == [rec[k] EXCEPT !.t_min = txn[w].ts, !.chain = create_versions(w, rec[k])]
  <1>1. rec' = [rec EXCEPT ![k] = new]
    BY DEF update
  <1>2. k \in DOMAIN rec => rec[k] \in Records
    BY DEF TypeOK
  <1>3. k \in DOMAIN rec =>
          /\ new.t_min = txn[w].ts /\ new.born = rec[k].born
          /\ new.chain = create_versions(w, rec[k])
    BY <1>2 DEF Records
  <1> HIDE DEF new
  <1>4. /\ DOMAIN rec' = DOMAIN rec
        /\ \A j \in DOMAIN rec : j # k => rec'[j] = rec[j]
        /\ k \in DOMAIN rec => rec'[k] = new
    BY <1>1 DEF TypeOK
  <1>5. txn[w].ts < gen
    BY DEF Published, PublishedBy
  <1>6. Location(w) = "exec" /\ ~txn[w].ro
    <2>1. op[w] \in 1..Len(Ops(w)) /\ Ops(w)[op[w]].type = "update" /\ pc[w] = "exec"
      BY DEF update, At, TypeOK, Ops, Transactions
    <2> QED BY <2>1 DEF ReadOnly, Location
  <1>7. txn[w].ts <= epoch[get_delta_ver(txn[w].ts)][w]
    BY <1>6 DEF Registered, RegisteredBy
  <1>8. txn' = txn /\ age' = age /\ epoch' = epoch /\ gen' = gen /\ exposed' = exposed
    BY DEF update, txnVars, storeVars
  <1> QED BY <1>3, <1>4, <1>5, <1>7, <1>8, ZenonT(60)

\* An insert adds a record without versions, or changes nothing.
LEMMA InsertEffect ==
  ASSUME TypeOK, Published, NEW w \in Workers, insert(w)
  PROVE  /\ DOMAIN rec' \subseteq DOMAIN rec \cup {Key(w)}
         /\ \A j \in DOMAIN rec : j \in DOMAIN rec' /\ rec'[j] = rec[j]
         /\ \A j \in DOMAIN rec' \ DOMAIN rec :
              rec'[j] = [t_min |-> txn[w].ts, born |-> txn[w].ts, chain |-> <<>>]
         /\ txn[w].ts < gen
         /\ txn' = txn /\ age' = age /\ epoch' = epoch /\ gen' = gen /\ exposed' = exposed
  <1>1. txn[w].ts < gen
    BY DEF Published, PublishedBy
  <1>2. txn' = txn /\ age' = age /\ epoch' = epoch /\ gen' = gen /\ exposed' = exposed
    BY DEF insert, txnVars, storeVars
  <1>3. CASE Key(w) \in DOMAIN rec
    BY <1>1, <1>2, <1>3 DEF insert
  <1>4. CASE Key(w) \notin DOMAIN rec
    BY <1>1, <1>2, <1>4 DEF insert
  <1> QED BY <1>3, <1>4

\* An inserted record has no old versions.
LEMMA InsertedAlone ==
  ASSUME TypeOK, Published, NEW w \in Workers, insert(w)
  PROVE  \A j \in DOMAIN rec' \ DOMAIN rec : rec'[j].chain = <<>>
  BY InsertEffect

\* The versions of a record, as the steps below need them.
LEMMA RecordTypes ==
  ASSUME TypeOK
  PROVE  \A k \in DOMAIN rec :
           /\ rec[k].t_min \in Nat /\ rec[k].born \in Nat /\ rec[k].chain \in Seq(Versions)
           /\ Len(rec[k].chain) \in Nat
           /\ \A i \in 1..Len(rec[k].chain) :
                /\ rec[k].chain[i].t_min \in Nat /\ rec[k].chain[i].delta \in Deltas
                /\ rec[k].chain[i].age \in Nat /\ age[rec[k].chain[i].delta] \in Nat
  <1> SUFFICES ASSUME NEW k \in DOMAIN rec
               PROVE  /\ rec[k].t_min \in Nat /\ rec[k].born \in Nat /\ rec[k].chain \in Seq(Versions)
                      /\ Len(rec[k].chain) \in Nat
                      /\ \A i \in 1..Len(rec[k].chain) :
                           /\ rec[k].chain[i].t_min \in Nat /\ rec[k].chain[i].delta \in Deltas
                           /\ rec[k].chain[i].age \in Nat /\ age[rec[k].chain[i].delta] \in Nat
    OBVIOUS
  <1>1. rec[k] \in Records
    BY DEF TypeOK
  <1>2. rec[k].t_min \in Nat /\ rec[k].born \in Nat /\ rec[k].chain \in Seq(Versions)
    BY <1>1 DEF Records
  <1>3. \A i \in 1..Len(rec[k].chain) : rec[k].chain[i] \in Versions
    BY <1>2, ElementOfSeq, ZenonT(60)
  <1>4. \A v \in Versions : v.t_min \in Nat /\ v.delta \in Deltas /\ v.age \in Nat
    BY DEF Versions
  <1>5. Len(rec[k].chain) \in Nat
    BY <1>2, LenProperties
  <1>6. \A d \in Deltas : age[d] \in Nat
    BY DEF TypeOK
  <1> QED BY <1>2, <1>3, <1>4, <1>5, <1>6

\* Updates make versions of the past only, and a reset only ages them.
LEMMA VersionsStep ==
  ASSUME TypeOK, TypeOK', Published, Registered, ReadOnly, VersionsPast, NEW w \in Workers,
         (\E p \in Programs : getTxn(w, p)) \/ Step(w)
  PROVE  VersionsPast'
  <1>m. /\ gen \in Nat /\ gen' \in Nat /\ gen <= gen'
        /\ \A d \in Deltas : age[d] \in Nat /\ age'[d] \in Nat /\ age[d] <= age'[d]
    <2>1. gen \in Nat /\ gen' \in Nat
      BY ConstantsAssumption DEF TypeOK
    <2>2. \A d \in Deltas : age[d] \in Nat
      BY DEF TypeOK
    <2>3. \A d \in Deltas : age'[d] \in Nat
      BY DEF TypeOK
    <2> QED BY <2>1, <2>2, <2>3, Monotone
  <1>t. \A k \in DOMAIN rec : \A i \in 1..Len(rec[k].chain) :
          /\ rec[k].t_min \in Nat
          /\ rec[k].chain[i].delta \in Deltas /\ rec[k].chain[i].age \in Nat
    BY RecordTypes
  <1>s. ASSUME NEW k \in DOMAIN rec
        PROVE  /\ rec[k].t_min < gen'
               /\ \A i \in 1..Len(rec[k].chain) : rec[k].chain[i].age <= age'[rec[k].chain[i].delta]
    <2>1. rec[k].t_min \in Nat
      BY RecordTypes
    <2>2. rec[k].t_min < gen'
      BY <1>m, <2>1 DEF VersionsPast
    <2>3. ASSUME NEW i \in 1..Len(rec[k].chain)
          PROVE  rec[k].chain[i].age <= age'[rec[k].chain[i].delta]
      <3>1. rec[k].chain[i].age <= age[rec[k].chain[i].delta]
        BY DEF VersionsPast
      <3> QED BY <1>m, <1>t, <3>1
    <2> QED BY <2>2, <2>3
  <1>1. CASE rec' = rec
    BY <1>1, <1>s DEF VersionsPast
  <1>2. CASE update(w)
    <2> DEFINE k == Key(w)
               c == create_versions(w, rec[k])
    <2>1. /\ DOMAIN rec' = DOMAIN rec
          /\ \A j \in DOMAIN rec : j # k => rec'[j] = rec[j]
          /\ k \in DOMAIN rec => rec'[k].t_min = txn[w].ts /\ rec'[k].chain = c
          /\ txn[w].ts < gen /\ age' = age /\ gen' = gen
      BY <1>2, UpdateEffect, ZenonT(60)
    <2>2. ASSUME k \in DOMAIN rec
          PROVE  \A i \in 1..Len(c) : c[i].age <= age'[c[i].delta]
      <3>1. rec[k] \in Records
        BY <2>2 DEF TypeOK
      <3>2. /\ get_delta_ver(txn[w].ts) \in Deltas /\ c \in Seq(Versions)
            /\ c[1] = [t_min |-> rec[k].t_min, delta |-> get_delta_ver(txn[w].ts),
                       age |-> age[get_delta_ver(txn[w].ts)]]
            /\ \A i \in 2..Len(c) : i - 1 \in 1..Len(rec[k].chain) /\ c[i] = rec[k].chain[i - 1]
        BY <3>1, NewChain, ZenonT(60)
      <3> HIDE DEF c, k
      <3>3. c[1].age <= age'[c[1].delta]
        BY <1>m, <2>1, <3>2
      <3>4. ASSUME NEW i \in 2..Len(c) PROVE c[i].age <= age'[c[i].delta]
        BY <1>s, <2>2, <3>2, ZenonT(60)
      <3>5. Len(c) \in Nat
        BY <3>2, LenProperties, ZenonT(60)
      <3> QED BY <3>3, <3>4, <3>5
    <2> HIDE DEF c, k
    <2> QED BY <1>s, <2>1, <2>2, ZenonT(60) DEF VersionsPast
  <1>3. CASE insert(w)
    <2>1. /\ \A j \in DOMAIN rec : rec'[j] = rec[j]
          /\ \A j \in DOMAIN rec' \ DOMAIN rec :
               rec'[j] = [t_min |-> txn[w].ts, born |-> txn[w].ts, chain |-> <<>>]
          /\ txn[w].ts < gen /\ age' = age /\ gen' = gen
      BY <1>3, InsertEffect, ZenonT(60)
    <2> SUFFICES ASSUME NEW j \in DOMAIN rec'
                 PROVE  /\ rec'[j].t_min < gen'
                        /\ \A i \in 1..Len(rec'[j].chain) :
                             rec'[j].chain[i].age <= age'[rec'[j].chain[i].delta]
      BY ZenonT(60) DEF VersionsPast
    <2>2. CASE j \in DOMAIN rec
      BY <1>s, <2>1, <2>2, ZenonT(60)
    <2>3. CASE j \notin DOMAIN rec
      <3>1. rec'[j].t_min = txn[w].ts /\ rec'[j].chain = <<>>
        BY <2>1, <2>3
      <3>2. Len(rec'[j].chain) = 0
        BY <3>1, EmptySeq
      <3> QED BY <2>1, <3>1, <3>2
    <2> QED BY <2>2, <2>3, ZenonT(60)
  <1> QED BY <1>1, <1>2, <1>3, RecordSteps

\* LiveVersionsCovered, in terms of writers.
Covered(r, i) == \E u \in Workers : Writer(r, i) <= epoch[r.chain[i].delta][u]

\* What LiveVersionsCovered says of each version in a chain.
LEMMA CoveredDef ==
  LiveVersionsCovered <=>
    \A k \in DOMAIN rec : \A i \in 1..Len(rec[k].chain) :
      Live(rec[k].chain[i]) => Covered(rec[k], i)
  BY ZenonT(60) DEF LiveVersionsCovered, Covered, Writer

\* The epoch of a store covers the versions that updates add to it.
LEMMA CoveredStep ==
  ASSUME TypeOK, TypeOK', Published, Registered, ReadOnly, VersionsPast, LiveVersionsCovered,
         NEW w \in Workers, (\E p \in Programs : getTxn(w, p)) \/ Step(w)
  PROVE  LiveVersionsCovered'
  <1>m. \A d \in Deltas : /\ age[d] \in Nat /\ age'[d] \in Nat /\ age[d] <= age'[d]
                          /\ \A u \in Workers : /\ epoch[d][u] \in Nat /\ epoch'[d][u] \in Nat
                                                /\ epoch[d][u] <= epoch'[d][u]
    <2>2. \A d \in Deltas : age[d] \in Nat /\ \A u \in Workers : epoch[d][u] \in Nat
      BY DEF TypeOK
    <2>3. \A d \in Deltas : age'[d] \in Nat /\ \A u \in Workers : epoch'[d][u] \in Nat
      BY DEF TypeOK
    <2> QED BY <2>2, <2>3, Monotone
  <1>w. \A k \in DOMAIN rec : \A i \in 1..Len(rec[k].chain) : Writer(rec[k], i) \in Nat
    BY RecordTypes DEF Writer
  \* A version that is still live was live and covered.
  <1>s. ASSUME NEW k \in DOMAIN rec, NEW i \in 1..Len(rec[k].chain),
               rec[k].chain[i].age = age'[rec[k].chain[i].delta]
        PROVE  \E u \in Workers : Writer(rec[k], i) <= epoch'[rec[k].chain[i].delta][u]
    <2>1. /\ rec[k].chain[i].delta \in Deltas /\ rec[k].chain[i].age \in Nat
          /\ rec[k].chain[i].age <= age[rec[k].chain[i].delta]
      BY RecordTypes, ZenonT(60) DEF VersionsPast
    <2>2. Live(rec[k].chain[i])
      BY <1>m, <1>s, <2>1 DEF Live
    <2>3. PICK u \in Workers : Writer(rec[k], i) <= epoch[rec[k].chain[i].delta][u]
      BY <2>2, CoveredDef, ZenonT(60) DEF Covered
    <2>4. /\ Writer(rec[k], i) \in Nat
          /\ epoch[rec[k].chain[i].delta][u] \in Nat /\ epoch'[rec[k].chain[i].delta][u] \in Nat
          /\ epoch[rec[k].chain[i].delta][u] <= epoch'[rec[k].chain[i].delta][u]
      BY <1>m, <1>w, <2>1, ZenonT(60)
    <2> QED BY <2>3, <2>4, AtMostTransitive, ZenonT(60)
  <1> SUFFICES ASSUME NEW k \in DOMAIN rec', NEW i \in 1..Len(rec'[k].chain),
                      rec'[k].chain[i].age = age'[rec'[k].chain[i].delta]
               PROVE  \E u \in Workers : Writer(rec'[k], i) <= epoch'[rec'[k].chain[i].delta][u]
    BY ZenonT(60) DEF LiveVersionsCovered, Live, Writer
  <1>1. CASE k \in DOMAIN rec /\ rec'[k] = rec[k]
    BY <1>1, <1>s, ZenonT(60)
  <1>2. CASE update(w) /\ k = Key(w)
    <2> DEFINE c == create_versions(w, rec[k])
               d == get_delta_ver(txn[w].ts)
    <2>1. /\ k \in DOMAIN rec /\ rec'[k].t_min = txn[w].ts /\ rec'[k].chain = c
          /\ txn[w].ts <= epoch[d][w] /\ age' = age /\ epoch' = epoch
      BY <1>2, UpdateEffect, ZenonT(60)
    <2>2. rec[k] \in Records
      BY <2>1 DEF TypeOK
    <2>3. /\ d \in Deltas /\ c \in Seq(Versions)
          /\ c[1] = [t_min |-> rec[k].t_min, delta |-> d, age |-> age[d]]
          /\ \A j \in 2..Len(c) : j - 1 \in 1..Len(rec[k].chain) /\ c[j] = rec[k].chain[j - 1]
      BY <2>2, NewChain, ZenonT(60)
    <2>4. Len(c) \in Nat
      BY <2>3, LenProperties, ZenonT(60)
    <2> HIDE DEF c, d
    <2>5. CASE i = 1
      BY <2>1, <2>3, <2>5 DEF Writer
    <2>6. CASE i # 1
      <3>1. i \in 2..Len(c) /\ i - 1 \in 1..Len(rec[k].chain) /\ c[i] = rec[k].chain[i - 1]
        BY <2>1, <2>3, <2>4, <2>6
      <3>2. Writer(rec'[k], i) = Writer(rec[k], i - 1)
        <4>1. Writer(rec'[k], i) = c[i - 1].t_min
          BY <2>1, <2>6 DEF Writer
        <4>2. CASE i = 2
          BY <2>3, <4>1, <4>2 DEF Writer
        <4>3. CASE i # 2
          <5>1. i - 1 \in 2..Len(c) /\ i - 1 # 1
            BY <2>4, <3>1, <4>3
          <5>2. c[i - 1] = rec[k].chain[i - 1 - 1]
            BY <2>3, <5>1
          <5> QED BY <4>1, <5>1, <5>2 DEF Writer
        <4> QED BY <4>2, <4>3, ZenonT(60)
      <3>3. \E u \in Workers : Writer(rec[k], i - 1) <= epoch'[rec[k].chain[i - 1].delta][u]
        BY <1>s, <2>1, <3>1, ZenonT(60)
      <3> QED BY <2>1, <3>1, <3>2, <3>3, ZenonT(60)
    <2> QED BY <2>5, <2>6
  <1>3. CASE insert(w) /\ k \notin DOMAIN rec
    <2>1. rec'[k].chain = <<>>
      BY <1>3, InsertedAlone, ZenonT(60)
    <2>2. Len(rec'[k].chain) = 0
      BY <2>1, EmptySeq, ZenonT(60)
    <2> QED BY <2>2
  <1> QED BY <1>1, <1>2, <1>3, RecordSteps, UpdateEffect, InsertEffect, ZenonT(60)

\* Neither an update nor the reset of a store takes away the version that
\* a transaction seen by the scans has to read.
LEMMA ServedStep ==
  ASSUME TypeOK, TypeOK', Published, Registered, Collecting, ReadOnly, ScansSound, VersionsPast,
         LiveVersionsCovered, Served,
         NEW w \in Workers, (\E p \in Programs : getTxn(w, p)) \/ Step(w)
  PROVE  Served'
  <1> SUFFICES ASSUME NEW v \in Workers, Seen(v)', NEW k \in DOMAIN rec',
                      rec'[k].born <= txn'[v].ts
               PROVE  Walks(rec[k], txn[v].ts)'
    BY ZenonT(60) DEF Served
  <1> DEFINE ts == txn[v].ts
  <1>n. ts \in Nat
    BY DEF TypeOK, Transactions
  \* A new transaction reads the newest versions.
  <1>1. CASE v = w /\ txn'[v].ts = gen /\ \E p \in Programs : getTxn(w, p)
    <2>1. rec' = rec
      BY <1>1, ZenonT(60) DEF getTxn, recVars
    <2>2. rec[k].t_min < gen /\ rec[k].t_min \in Nat /\ gen \in Nat
      <3>1. gen \in Nat
        BY ConstantsAssumption DEF TypeOK
      <3> QED BY <2>1, <3>1, RecordTypes, ZenonT(60) DEF VersionsPast
    <2>3. rec'[k].t_min <= txn'[v].ts
      BY <1>1, <2>1, <2>2, BelowAtMost, ZenonT(60)
    <2> QED BY <2>3, ZenonT(60) DEF Walks
  <1>2. CASE Seen(v) /\ txn'[v] = txn[v]
    <2>s. ASSUME k \in DOMAIN rec, rec[k].born <= ts PROVE Walks(rec[k], ts)
      BY <1>2, <2>s, ZenonT(60) DEF Served
    <2>1. ASSUME k \in DOMAIN rec, rec'[k] = rec[k], age' = age PROVE Walks(rec[k], txn[v].ts)'
      <3>1. Walks(rec[k], ts)
        BY <1>2, <2>1, <2>s, ZenonT(60)
      <3> QED BY <1>2, <2>1, <3>1, ZenonT(60) DEF Walks, Live, Writer
    <2>2. CASE update(w) /\ k = Key(w)
      <3> DEFINE c == create_versions(w, rec[k])
                 d == get_delta_ver(txn[w].ts)
                 r == rec[k]
      <3>1. /\ k \in DOMAIN rec /\ rec'[k].t_min = txn[w].ts /\ rec'[k].chain = c
            /\ rec'[k].born = rec[k].born /\ age' = age
        BY <2>2, UpdateEffect, ZenonT(60)
      <3>2. r \in Records
        BY <3>1 DEF TypeOK
      <3>3. /\ d \in Deltas /\ c \in Seq(Versions) /\ c # <<>>
            /\ c[1].t_min = r.t_min /\ c[1].delta = d /\ c[1].age = age[d]
        BY <3>2, NewChain, ZenonT(60)
      <3>r. (r.chain # <<>> /\ Live(r.chain[1])) =>
              Len(c) = Len(r.chain) + 1 /\ \A i \in 1..Len(r.chain) : c[i + 1] = r.chain[i]
        BY <3>2, NewChain, ZenonT(60)
      <3>4. Len(c) \in Nat /\ Len(c) # 0
        BY <3>3, LenProperties, EmptySeq, ZenonT(60)
      <3>5. Walks(r, ts)
        BY <1>2, <2>s, <3>1, ZenonT(60)
      <3>t. txn[w].ts \in Nat /\ r.t_min \in Nat /\ Len(r.chain) \in Nat
        <4>1. txn[w].ts \in Nat
          BY DEF TypeOK, Transactions
        <4> QED BY <3>1, <4>1, RecordTypes, ZenonT(60)
      <3>l. \A ver : Live(ver)' <=> ver.age = age[ver.delta]
        BY <3>1, ZenonT(60) DEF Live
      <3> HIDE DEF c, d, r
      <3>e. c[1].t_min = r.t_min /\ c[1].age = age[c[1].delta]
        BY <3>3, ZenonT(60)
      <3>6. CASE txn[w].ts <= ts
        BY <1>2, <3>1, <3>6, ZenonT(60) DEF Walks
      <3>7. CASE ~(txn[w].ts <= ts) /\ r.t_min <= ts
        <4>1. 1 \in 1..Len(rec'[k].chain) /\ rec'[k].chain[1].t_min <= txn'[v].ts
          <5>1. 1 \in 1..Len(c)
            BY <3>4, OneOf, ZenonT(60)
          <5> QED BY <1>2, <3>1, <3>7, <3>e, <5>1, ZenonT(60)
        <4>2. \A i \in 1..1 : rec'[k].chain[i].age = age[rec'[k].chain[i].delta]
          BY <3>1, <3>e
        <4>3. \A i \in 1..1 : txn'[v].ts < Writer(rec[k], i)'
          BY <1>2, <1>n, <3>1, <3>t, <3>7 DEF Writer
        <4> QED BY <3>l, <4>1, <4>2, <4>3, ZenonT(60) DEF Walks
      <3>8. CASE ~(txn[w].ts <= ts) /\ ~(r.t_min <= ts)
        <4>1. PICK n \in 1..Len(r.chain) :
                /\ r.chain[n].t_min <= ts
                /\ \A i \in 1..n : Live(r.chain[i]) /\ ts < Writer(r, i)
          BY <3>5, <3>8, ZenonT(60) DEF Walks
        <4>2. r.chain # <<>> /\ Live(r.chain[1])
          <5>1. 1 \in 1..n /\ Len(r.chain) # 0
            BY <3>t
          <5> QED BY <4>1, <5>1, EmptySeq
        <4>3. Len(c) = Len(r.chain) + 1 /\ \A i \in 1..Len(r.chain) : c[i + 1] = r.chain[i]
          BY <3>r, <4>2, ZenonT(60)
        <4>4. n + 1 \in 1..Len(rec'[k].chain) /\ rec'[k].chain[n + 1].t_min <= txn'[v].ts
          BY <1>2, <3>1, <3>t, <4>1, <4>3
        <4>5. ASSUME NEW i \in 1..n + 1
              PROVE  /\ rec'[k].chain[i].age = age[rec'[k].chain[i].delta]
                     /\ txn'[v].ts < Writer(rec[k], i)'
          <5>1. CASE i = 1
            <6>1. Writer(rec[k], i)' = txn[w].ts
              BY <3>1, <5>1, ZenonT(60) DEF Writer
            <6>2. rec'[k].chain[i].age = age[rec'[k].chain[i].delta]
              BY <3>1, <3>e, <5>1, ZenonT(60)
            <6>3. txn'[v].ts < txn[w].ts
              BY <1>2, <1>n, <3>t, <3>8
            <6> QED BY <6>1, <6>2, <6>3, ZenonT(60)
          <5>2. CASE i # 1
            <6>0. i - 1 \in 1..n /\ i - 1 \in 1..Len(r.chain) /\ (i - 1) + 1 = i
              BY <3>t, <5>2
            <6>1. i - 1 \in 1..n /\ i - 1 \in 1..Len(r.chain) /\ c[i] = r.chain[i - 1]
              <7>1. c[(i - 1) + 1] = r.chain[i - 1]
                BY <4>3, <6>0
              <7> QED BY <6>0, <7>1
            <6>2. rec'[k].chain[i].age = age[rec'[k].chain[i].delta]
              BY <3>1, <4>1, <6>1 DEF Live
            <6>3. Writer(rec[k], i)' = c[i - 1].t_min
              BY <3>1, <5>2, ZenonT(60) DEF Writer
            <6>4. CASE i = 2
              <7>1. i - 1 = 1 /\ c[1].t_min = r.t_min
                BY <3>3, <6>4
              <7>2. Writer(rec[k], i)' = r.t_min
                BY <6>3, <7>1, ZenonT(60)
              <7> QED BY <1>2, <1>n, <3>t, <3>8, <6>2, <7>2
            <6>5. CASE i # 2
              <7>1. i - 1 # 1 /\ i - 2 \in 1..Len(r.chain) /\ c[i - 1] = r.chain[i - 2]
                <8>1. i - 1 # 1 /\ i - 2 \in 1..Len(r.chain) /\ (i - 2) + 1 = i - 1
                  BY <3>t, <5>2, <6>0, <6>5
                <8>2. c[(i - 2) + 1] = r.chain[i - 2]
                  BY <4>3, <8>1
                <8> QED BY <8>1, <8>2
              <7>2. Writer(r, i - 1) = r.chain[i - 2].t_min
                BY <7>1 DEF Writer
              <7> QED BY <1>2, <4>1, <6>1, <6>2, <6>3, <7>1, <7>2
            <6> QED BY <6>2, <6>4, <6>5, ZenonT(60)
          <5> QED BY <5>1, <5>2, ZenonT(60)
        <4> QED BY <3>l, <4>4, <4>5, ZenonT(60) DEF Walks
      <3> QED BY <3>6, <3>7, <3>8, ZenonT(60)
    <2>3. CASE insert(w) /\ k \notin DOMAIN rec
      <3>1. rec'[k] = [t_min |-> txn[w].ts, born |-> txn[w].ts, chain |-> <<>>]
        BY <2>3, InsertEffect, ZenonT(60)
      <3>2. rec'[k].t_min <= txn'[v].ts
        BY <3>1
      <3> QED BY <3>2 DEF Walks
    \* A reset store has no version that the transaction walks over.
    <2>4. CASE GcFinish(w)
      <3>1. /\ rec' = rec /\ txn' = txn /\ pc[w] = "scan" /\ gc[w].todo = {}
            /\ age' = IF \A u \in Workers : gc[w].min > epoch[Store(w)][u]
                      THEN [age EXCEPT ![Store(w)] = age[Store(w)] + 1] ELSE age
        BY <2>4, ZenonT(60) DEF GcFinish, recVars, txnVars
      <3>2. CASE age' = age
        BY <2>1, <3>1, <3>2, ZenonT(60)
      <3>3. CASE age' # age
        <4>1. /\ \A u \in Workers : gc[w].min > epoch[Store(w)][u]
              /\ age' = [age EXCEPT ![Store(w)] = age[Store(w)] + 1]
          BY <3>1, <3>3, ZenonT(60)
        <4>2. gc[w].min \in Nat /\ Store(w) \in Deltas /\ \A u \in Workers : epoch[Store(w)][u] \in Nat
          <5>1. gc[w] \in Collections /\ gc[w].stores # <<>>
            BY <3>1 DEF TypeOK, Published, PublishedBy
          <5>2. Store(w) \in Deltas
            BY <5>1, StoresLeft, ZenonT(60) DEF Store, Collections
          <5> QED BY <5>1, <5>2 DEF TypeOK, Collections
        <4>3. \A u \in Workers : epoch[Store(w)][u] < ts
          <5>1. gc[w].min <= ts \/ \A u \in Workers : epoch[Store(w)][u] < ts
            BY <1>2, <3>1, ZenonT(60) DEF ScansSound
          <5>2. ASSUME gc[w].min <= ts, NEW u \in Workers PROVE epoch[Store(w)][u] < ts
            <6> DEFINE e == epoch[Store(w)][u]
                       m == gc[w].min
            <6>1. m \in Nat /\ e \in Nat /\ m > e /\ m <= ts
              BY <4>1, <4>2, <5>2, ZenonT(60)
            <6> HIDE DEF e, m
            <6>2. e < ts
              BY <1>n, <6>1
            <6> QED BY <6>2, ZenonT(60) DEF e
          <5> QED BY <5>1, <5>2, ZenonT(60)
        <4>4. Walks(rec[k], ts)
          BY <1>2, <2>s, <3>1, ZenonT(60)
        <4>5. CASE rec[k].t_min <= ts
          BY <3>1, <4>5, ZenonT(60) DEF Walks
        <4>6. CASE ~(rec[k].t_min <= ts)
          <5>1. PICK n \in 1..Len(rec[k].chain) :
                  /\ rec[k].chain[n].t_min <= ts
                  /\ \A i \in 1..n : Live(rec[k].chain[i]) /\ ts < Writer(rec[k], i)
            BY <4>4, <4>6, ZenonT(60) DEF Walks
          <5>2. ASSUME NEW i \in 1..n
                PROVE  rec[k].chain[i].age = age'[rec[k].chain[i].delta]
            <6>1. i \in 1..Len(rec[k].chain) /\ Live(rec[k].chain[i]) /\ ts < Writer(rec[k], i)
              <7>1. Len(rec[k].chain) \in Nat
                BY <3>1, RecordTypes, ZenonT(60)
              <7>2. i \in 1..Len(rec[k].chain)
                BY <7>1
              <7> QED BY <5>1, <7>2, ZenonT(60)
            <6>2. PICK u \in Workers : Writer(rec[k], i) <= epoch[rec[k].chain[i].delta][u]
              BY <3>1, <6>1, CoveredDef, ZenonT(60) DEF Covered
            <6>3. rec[k].chain[i].delta \in Deltas /\ Writer(rec[k], i) \in Nat
              <7>1. rec[k].chain[i].delta \in Deltas /\ rec[k].t_min \in Nat
                BY <3>1, <6>1, RecordTypes, ZenonT(60)
              <7>2. CASE i = 1
                BY <7>1, <7>2, ZenonT(60) DEF Writer
              <7>3. CASE i # 1
                <8>1. Len(rec[k].chain) \in Nat
                  BY <3>1, RecordTypes, ZenonT(60)
                <8>2. i - 1 \in 1..Len(rec[k].chain)
                  BY <7>3, <8>1
                <8>3. rec[k].chain[i - 1].t_min \in Nat
                  BY <3>1, <8>2, RecordTypes, ZenonT(60)
                <8> QED BY <7>1, <7>3, <8>3, ZenonT(60) DEF Writer
              <7> QED BY <7>2, <7>3, ZenonT(60)
            <6>4. rec[k].chain[i].delta # Store(w)
              <7>1. ASSUME rec[k].chain[i].delta = Store(w) PROVE FALSE
                <8> DEFINE e == epoch[Store(w)][u]
                           x == Writer(rec[k], i)
                <8>1. e \in Nat /\ x \in Nat /\ e < ts /\ ts < x /\ x <= e
                  BY <4>2, <4>3, <6>1, <6>2, <6>3, <7>1, ZenonT(60)
                <8> HIDE DEF e, x
                <8> QED BY <1>n, <8>1
              <7> QED BY <7>1, ZenonT(60)
            <6> QED BY <4>1, <6>1, <6>3, <6>4, ZenonT(60) DEF Live, TypeOK
          <5>3. \A i \in 1..n : Live(rec[k].chain[i])' /\ txn'[v].ts < Writer(rec[k], i)'
            BY <1>2, <3>1, <5>1, <5>2, ZenonT(60) DEF Live, Writer
          <5>4. n \in 1..Len(rec'[k].chain) /\ rec'[k].chain[n].t_min <= txn'[v].ts
            BY <1>2, <3>1, <5>1, ZenonT(60)
          <5> QED BY <5>3, <5>4, ZenonT(60) DEF Walks
        <4> QED BY <4>5, <4>6, ZenonT(60)
      <3> QED BY <3>2, <3>3, ZenonT(60)
    <2>5. (update(w) \/ insert(w)) => age' = age
      BY UpdateEffect, InsertEffect, ZenonT(60)
    <2> QED BY <2>1, <2>2, <2>3, <2>4, <2>5, RecordSteps, UpdateEffect, InsertEffect, ZenonT(60)
  <1> QED BY <1>1, <1>2, SeenStep, ZenonT(60)

-----------------------------------------------------------------------------
(* Walks along the chains *)

\* Only the reads latch, walk and fail.
LEMMA ReadSteps ==
  ASSUME TypeOK, NEW w \in Workers, (\E p \in Programs : getTxn(w, p)) \/ Step(w)
  PROVE  /\ latch' = latch \/ lookup(w) \/ walk(w)
         /\ pc'[w] \in {"walk", "crashed"} => lookup(w) \/ walk(w)
  <1> USE DEF Goto, txnVars, storeVars, recVars
  <1>1. latch' = latch \/ lookup(w) \/ walk(w)
    BY ZenonT(60) DEF Step, getTxn, publish, remove_active_txn, first_time, switch_delta,
       update_delta_epoch, enter, try_lock, release_locks, all_locked, lookup_absent,
       update, insert, ops_done, endTxn, GcAcquire, GcSkip, GcScan, GcFinish
  <1> DEFINE Safe == pc'[w] \notin {"walk", "crashed"}
  <1>2. ASSUME NEW p \in Programs, getTxn(w, p) PROVE Safe
    BY <1>2 DEF getTxn, TypeOK
  <1>3. CASE publish(w) \/ first_time(w) \/ update_delta_epoch(w) \/ enter(w)
    <2>1. Safe
      BY <1>3, ZenonT(60) DEF publish, first_time, update_delta_epoch, enter, TypeOK
    <2> QED BY <1>1, <2>1
  <1>4. CASE remove_active_txn(w) \/ switch_delta(w)
    <2>1. Safe
      BY <1>4 DEF remove_active_txn, switch_delta, Leave, TypeOK
    <2> QED BY <1>1, <2>1
  <1>5. CASE try_lock(w) \/ release_locks(w) \/ all_locked(w)
    <2>1. Safe
      BY <1>5, ZenonT(60) DEF try_lock, release_locks, all_locked, At, TypeOK
    <2> QED BY <1>1, <2>1
  <1>6. CASE lookup_absent(w) \/ update(w) \/ insert(w) \/ ops_done(w)
    <2>1. Safe
      BY <1>6 DEF lookup_absent, update, insert, ops_done, At, TypeOK
    <2> QED BY <1>1, <2>1
  <1>7. CASE endTxn(w) \/ GcAcquire(w) \/ \E v \in Workers : GcScan(w, v)
    <2>1. Safe
      <3>1. (pc[w] = "scan" /\ pc' = pc) \/ pc' = [pc EXCEPT ![w] = "gc"]
            \/ pc' = [pc EXCEPT ![w] = "idle"] \/ pc' = [pc EXCEPT ![w] = "scan"]
        BY <1>7, ZenonT(60) DEF endTxn, GcAcquire, GcScan
      <3> QED BY <3>1 DEF TypeOK
    <2> QED BY <1>1, <2>1
  <1>8. CASE GcSkip(w) \/ GcFinish(w)
    <2>1. gc[w].then \notin {"walk", "crashed"}
      BY ZenonT(60) DEF TypeOK, Collections
    <2>2. NextStore(w)
      BY <1>8 DEF GcSkip, GcFinish
    <2>3. Safe
      BY <2>1, <2>2 DEF NextStore, TypeOK
    <2> QED BY <1>1, <2>3
  <1> QED BY <1>1, <1>2, <1>3, <1>4, <1>5, <1>6, <1>7, <1>8, ZenonT(60) DEF Step

\* What a read does: it ends, or is at a live version of its chain with the
\* latch, or fails at a pointer that it could not follow.
LEMMA ReadEffect ==
  ASSUME TypeOK, Walking, NEW w \in Workers, lookup(w) \/ walk(w)
  PROVE  LET k == Key(w)
             h == IF pc[w] = "walk" THEN hop[w] ELSE 0
         IN  /\ txn' = txn /\ rec' = rec /\ lock' = lock /\ age' = age /\ exposed' = exposed
             /\ pc[w] \in {"exec", "walk"} /\ op[w] <= Len(Ops(w)) /\ k \in DOMAIN rec
             /\ latch[k] \in {NoOne, w} /\ \A j \in Keys : j # k => latch'[j] = latch[j]
             /\ \/ pc'[w] = "exec" /\ op'[w] = op[w] + 1
                \/ /\ op' = op /\ txn[w].ts < rec[k].t_min
                   /\ h \in 0..Len(rec[k].chain)
                   /\ \A i \in 1..h : txn[w].ts < rec[k].chain[i].t_min
                   /\ IF h + 1 <= Len(rec[k].chain) /\ Live(rec[k].chain[h + 1])
                      THEN pc'[w] = "walk" /\ latch'[k] = w /\ hop'[w] = h + 1
                      ELSE pc'[w] = "crashed"
  <1> USE DEF Goto, txnVars, storeVars, recVars
  <1> DEFINE k == Key(w)
  <1>t. ASSUME k \in DOMAIN rec
        PROVE  /\ txn[w].ts \in Nat /\ rec[k].t_min \in Nat /\ Len(rec[k].chain) \in Nat
               /\ \A i \in 1..Len(rec[k].chain) : rec[k].chain[i].t_min \in Nat
    <2>1. txn[w].ts \in Nat
      BY DEF TypeOK, Transactions
    <2> QED BY <1>t, <2>1, RecordTypes, ZenonT(60)
  <1>k. k \in DOMAIN rec => k \in Keys
    BY DEF TypeOK
  <1>p. ASSUME NEW i, Pointer(w, i), k \in DOMAIN rec
        PROVE  /\ \A j \in Keys : j # k => latch'[j] = latch[j]
               /\ IF i <= Len(rec[k].chain) /\ Live(rec[k].chain[i])
                  THEN pc'[w] = "walk" /\ latch'[k] = w /\ hop'[w] = i
                  ELSE pc'[w] = "crashed"
    BY <1>p, <1>k DEF Pointer, TypeOK
  <1>1. CASE lookup(w)
    <2>1. /\ txn' = txn /\ rec' = rec /\ lock' = lock /\ age' = age /\ exposed' = exposed
          /\ pc[w] = "exec" /\ op[w] <= Len(Ops(w)) /\ k \in DOMAIN rec /\ latch[k] = NoOne
      BY <1>1, ZenonT(60) DEF lookup, At
    <2>2. CASE is_readable(rec[k].t_min, w)
      <3>1. op' = [op EXCEPT ![w] = op[w] + 1] /\ pc' = pc /\ latch' = latch
        BY <1>1, <2>2, ZenonT(60) DEF lookup
      <3>2. pc'[w] = "exec" /\ op'[w] = op[w] + 1
        BY <2>1, <3>1 DEF TypeOK
      <3> QED BY <2>1, <3>1, <3>2, ZenonT(60)
    <2>3. CASE ~is_readable(rec[k].t_min, w)
      <3>1. Pointer(w, 1) /\ op' = op
        BY <1>1, <2>3, ZenonT(60) DEF lookup
      <3>t. txn[w].ts \in Nat /\ rec[k].t_min \in Nat /\ Len(rec[k].chain) \in Nat
        BY <1>t, <2>1, ZenonT(60)
      <3>2. txn[w].ts < rec[k].t_min
        BY <2>3, <3>t DEF is_readable
      <3>3. /\ \A j \in Keys : j # k => latch'[j] = latch[j]
            /\ IF 1 <= Len(rec[k].chain) /\ Live(rec[k].chain[1])
               THEN pc'[w] = "walk" /\ latch'[k] = w /\ hop'[w] = 1
               ELSE pc'[w] = "crashed"
        BY <1>p, <2>1, <3>1, ZenonT(60)
      <3>4. 0 \in 0..Len(rec[k].chain) /\ 0 + 1 = 1 /\ \A i \in 1..0 : FALSE
        BY <3>t
      <3> QED BY <2>1, <3>1, <3>2, <3>3, <3>4
    <2> QED BY <2>2, <2>3, ZenonT(60)
  <1>2. CASE walk(w)
    <2>1. /\ txn' = txn /\ rec' = rec /\ lock' = lock /\ age' = age /\ exposed' = exposed
          /\ pc[w] = "walk"
      BY <1>2, ZenonT(60) DEF walk
    <2>2. /\ op[w] <= Len(Ops(w)) /\ k \in DOMAIN rec /\ latch[k] = w
          /\ hop[w] \in 1..Len(rec[k].chain) /\ txn[w].ts < rec[k].t_min
          /\ \A i \in 1..hop[w] - 1 : txn[w].ts < rec[k].chain[i].t_min
      BY <2>1, ZenonT(60) DEF Walking
    <2>3. CASE is_readable(rec[k].chain[hop[w]].t_min, w)
      <3>1. /\ op' = [op EXCEPT ![w] = op[w] + 1] /\ pc' = [pc EXCEPT ![w] = "exec"]
            /\ latch' = [latch EXCEPT ![k] = NoOne]
        BY <1>2, <2>3, ZenonT(60) DEF walk
      <3>2. /\ pc'[w] = "exec" /\ op'[w] = op[w] + 1
            /\ \A j \in Keys : j # k => latch'[j] = latch[j]
        BY <3>1 DEF TypeOK
      <3> QED BY <2>1, <2>2, <3>2, ZenonT(60)
    <2>4. CASE ~is_readable(rec[k].chain[hop[w]].t_min, w)
      <3>1. Pointer(w, hop[w] + 1) /\ op' = op
        BY <1>2, <2>4, ZenonT(60) DEF walk
      <3>2. txn[w].ts < rec[k].chain[hop[w]].t_min
        BY <1>t, <2>2, <2>4 DEF is_readable
      <3>3. hop[w] \in 0..Len(rec[k].chain) /\ \A i \in 1..hop[w] : txn[w].ts < rec[k].chain[i].t_min
        BY <1>t, <2>2, <3>2
      <3> QED BY <1>p, <2>1, <2>2, <3>1, <3>3, ZenonT(60)
    <2> QED BY <2>3, <2>4, ZenonT(60)
  <1> QED BY <1>1, <1>2, ZenonT(60)

\* A served transaction can follow the pointer after all that it cannot read.
LEMMA PointerLive ==
  ASSUME TypeOK, NEW k \in DOMAIN rec, NEW ts \in Nat, Walks(rec[k], ts), ts < rec[k].t_min,
         NEW h \in 0..Len(rec[k].chain), \A i \in 1..h : ts < rec[k].chain[i].t_min
  PROVE  h + 1 <= Len(rec[k].chain) /\ Live(rec[k].chain[h + 1])
  <1>1. /\ rec[k].t_min \in Nat /\ Len(rec[k].chain) \in Nat
        /\ \A i \in 1..Len(rec[k].chain) : rec[k].chain[i].t_min \in Nat
    BY RecordTypes
  <1>2. PICK n \in 1..Len(rec[k].chain) :
          rec[k].chain[n].t_min <= ts /\ \A i \in 1..n : Live(rec[k].chain[i])
    BY <1>1 DEF Walks
  <1>3. ~(n \in 1..h)
    BY <1>1, <1>2
  <1>4. h + 1 \in 1..n
    BY <1>1, <1>3
  <1> QED BY <1>1, <1>2, <1>4

\* A reader in the middle of a chain keeps its latch, and its record does
\* not change under it.
LEMMA WalkingStep ==
  ASSUME TypeOK, TypeOK', Published, Registered, ReadOnly, Walking,
         NEW w \in Workers, (\E p \in Programs : getTxn(w, p)) \/ Step(w)
  PROVE  Walking'
  <1> SUFFICES ASSUME NEW v \in Workers, pc'[v] = "walk"
               PROVE  /\ op'[v] <= Len(Ops(v)') /\ Key(v)' \in DOMAIN rec' /\ latch'[Key(v)'] = v
                      /\ hop'[v] \in 1..Len(rec'[Key(v)'].chain)
                      /\ txn'[v].ts < rec'[Key(v)'].t_min
                      /\ \A i \in 1..hop'[v] - 1 : txn'[v].ts < rec'[Key(v)'].chain[i].t_min
    BY ZenonT(60) DEF Walking
  <1> DEFINE k == Key(v)
  <1>1. CASE v = w
    <2>1. lookup(w) \/ walk(w)
      BY <1>1, ReadSteps
    <2> DEFINE h == IF pc[w] = "walk" THEN hop[w] ELSE 0
    <2>2. /\ txn' = txn /\ rec' = rec /\ op[w] <= Len(Ops(w)) /\ k \in DOMAIN rec
          /\ op' = op /\ txn[w].ts < rec[k].t_min /\ h \in 0..Len(rec[k].chain)
          /\ \A i \in 1..h : txn[w].ts < rec[k].chain[i].t_min
          /\ h + 1 <= Len(rec[k].chain) /\ latch'[k] = w /\ hop'[w] = h + 1
      BY <1>1, <2>1, ReadEffect, ZenonT(60)
    <2>3. Key(v)' = k /\ Ops(v)' = Ops(v)
      BY <2>2, ZenonT(60) DEF Key, Ops
    <2>4. Len(rec[k].chain) \in Nat
      BY <2>2, RecordTypes, ZenonT(60)
    <2> HIDE DEF h, k
    <2>5. hop'[v] \in 1..Len(rec[k].chain) /\ hop'[v] - 1 = h
      BY <1>1, <2>2, <2>4
    <2> QED BY <1>1, <2>2, <2>3, <2>5, ZenonT(60)
  <1>2. CASE v # w
    <2>1. pc[v] = "walk" /\ txn'[v] = txn[v] /\ op'[v] = op[v] /\ hop'[v] = hop[v]
      BY <1>2, OwnState, ZenonT(60) DEF Frame
    <2>2. Key(v)' = k /\ Ops(v)' = Ops(v)
      BY <2>1 DEF Key, Ops
    <2>3. /\ op[v] <= Len(Ops(v)) /\ k \in DOMAIN rec /\ latch[k] = v
          /\ hop[v] \in 1..Len(rec[k].chain)
          /\ txn[v].ts < rec[k].t_min
          /\ \A i \in 1..hop[v] - 1 : txn[v].ts < rec[k].chain[i].t_min
      BY <2>1, ZenonT(60) DEF Walking
    <2>4. k \in Keys /\ v # NoOne
      BY <2>3, ConstantsAssumption DEF TypeOK
    <2>5. latch'[k] = v
      <3>1. CASE latch' = latch
        BY <2>3, <3>1
      <3>2. CASE lookup(w) \/ walk(w)
        <4>1. Key(w) # k /\ \A j \in Keys : j # Key(w) => latch'[j] = latch[j]
          <5>1. latch[Key(w)] \in {w, NoOne} /\ \A j \in Keys : j # Key(w) => latch'[j] = latch[j]
            BY <3>2, ReadEffect, ZenonT(60)
          <5> QED BY <1>2, <2>3, <2>4, <5>1, ZenonT(60)
        <4> QED BY <2>3, <2>4, <4>1
      <3> QED BY <3>1, <3>2, ReadSteps
    <2>6. k \in DOMAIN rec' /\ rec'[k] = rec[k]
      <3>1. CASE rec' = rec
        BY <2>3, <3>1, ZenonT(60)
      <3>2. CASE update(w)
        <4>1. Key(w) # k
          BY <2>3, <2>4, <3>2 DEF update
        <4> QED BY <2>3, <3>2, <4>1, UpdateEffect, ZenonT(60)
      <3>3. CASE insert(w)
        BY <2>3, <3>3, InsertEffect, ZenonT(60)
      <3> QED BY <3>1, <3>2, <3>3, RecordSteps
    <2> HIDE DEF k
    <2> QED BY <2>1, <2>2, <2>3, <2>5, <2>6, ZenonT(60)
  <1> QED BY <1>1, <1>2, ZenonT(60)

\* A read fails only if its transaction was overlooked, or is too old for the
\* record.
LEMMA FailStep ==
  ASSUME TypeOK, Published, Walking, Served, ~Crashed,
         NEW w \in Workers, (\E p \in Programs : getTxn(w, p)) \/ Step(w)
  PROVE  OnlyOverlookedFail'
  <1> SUFFICES ASSUME NEW v \in Workers, pc'[v] = "crashed", v \notin exposed'
               PROVE  rec'[Key(v)'].born > txn'[v].ts
    BY DEF OnlyOverlookedFail
  <1>1. v = w
    BY OwnState, ZenonT(60) DEF Frame, Crashed
  <1>2. lookup(w) \/ walk(w)
    BY <1>1, ReadSteps
  <1> DEFINE h == IF pc[w] = "walk" THEN hop[w] ELSE 0
             k == Key(w)
  <1>3. /\ txn' = txn /\ rec' = rec /\ exposed' = exposed /\ pc[w] \in {"exec", "walk"}
        /\ k \in DOMAIN rec /\ op' = op /\ txn[w].ts < rec[k].t_min
        /\ h \in 0..Len(rec[k].chain)
        /\ \A i \in 1..h : txn[w].ts < rec[k].chain[i].t_min
        /\ ~(h + 1 <= Len(rec[k].chain) /\ Live(rec[k].chain[h + 1]))
    BY <1>1, <1>2, ReadEffect, ZenonT(60)
  <1>4. Key(v)' = k
    BY <1>1, <1>3, ZenonT(60) DEF Key, Ops
  <1>5. Seen(w)
    BY <1>1, <1>3, ZenonT(60) DEF Seen, Published, PublishedBy, Location
  <1>6. txn[w].ts \in Nat
    BY DEF TypeOK, Transactions
  <1>7. rec[k].born \in Nat
    BY <1>3, RecordTypes, ZenonT(60)
  <1> HIDE DEF h, k
  <1>8. ~Walks(rec[k], txn[w].ts)
    BY <1>3, <1>6, PointerLive, ZenonT(60)
  <1>9. ~(rec[k].born <= txn[w].ts)
    BY <1>3, <1>5, <1>8, ZenonT(60) DEF Served
  <1> QED BY <1>1, <1>3, <1>4, <1>6, <1>7, <1>9

-----------------------------------------------------------------------------
(* Locks *)

\* Only the lock phase and the updates change locks.
LEMMA LockSteps ==
  ASSUME NEW w \in Workers, (\E p \in Programs : getTxn(w, p)) \/ Step(w)
  PROVE  lock' = lock \/ try_lock(w) \/ release_locks(w) \/ update(w)
  BY ZenonT(60) DEF Step, getTxn, publish, remove_active_txn, first_time, switch_delta,
     update_delta_epoch, enter, all_locked, lookup, lookup_absent,
     walk, insert, ops_done, endTxn, GcAcquire, GcSkip, GcScan, GcFinish, recVars

\* The operations of a transaction.
LEMMA OperationTypes ==
  ASSUME TypeOK
  PROVE  \A w \in Workers : /\ op[w] \in Nat \ {0} /\ Len(Ops(w)) \in Nat
                            /\ \A i \in 1..Len(Ops(w)) : Ops(w)[i].key \in Keys
  <1> SUFFICES ASSUME NEW w \in Workers
               PROVE  /\ op[w] \in Nat \ {0} /\ Len(Ops(w)) \in Nat
                      /\ \A i \in 1..Len(Ops(w)) : Ops(w)[i].key \in Keys
    OBVIOUS
  <1>1. Ops(w) \in Seq(Operations)
    BY DEF TypeOK, Transactions, Ops
  <1>2. Len(Ops(w)) \in Nat
    BY <1>1, LenProperties
  <1>3. \A i \in 1..Len(Ops(w)) : Ops(w)[i] \in Operations
    BY <1>1, ElementOfSeq
  <1>4. \A o \in Operations : o.key \in Keys
    BY DEF Operations
  <1> QED BY <1>2, <1>3, <1>4 DEF TypeOK

\* A step of one transaction changes no lock that another holds.
LEMMA ForeignLocks ==
  ASSUME TypeOK, Locked, NEW w \in Workers, (\E p \in Programs : getTxn(w, p)) \/ Step(w),
         NEW v \in Workers \ {w}, NEW k \in Keys, lock[k] = v
  PROVE  lock'[k] = v
  <1>0. v # NoOne
    BY ConstantsAssumption
  <1>1. CASE try_lock(w)
    BY <1>0, <1>1 DEF try_lock, TypeOK
  <1>2. CASE release_locks(w)
    <2>1. /\ pc[w] = "lock" /\ op[w] <= Len(Ops(w))
          /\ lock' = [j \in Keys |-> IF j \in Acquired(w) THEN NoOne ELSE lock[j]]
      BY <1>2, ZenonT(60) DEF release_locks, At
    <2>2. ASSUME k \in Acquired(w) PROVE FALSE
      <3>1. PICK i \in 1..op[w] - 1 : Ops(w)[i].type = "update" /\ k = Ops(w)[i].key
        BY <2>2 DEF Acquired
      <3>2. i \in 1..Len(Ops(w)) /\ i < op[w]
        BY <2>1, OperationTypes
      <3>3. Holds(w, i)
        BY <2>1, <3>1, <3>2 DEF Holds
      <3>4. lock[k] = w
        BY <3>1, <3>2, <3>3, ZenonT(60) DEF Locked
      <3> QED BY <3>4, ZenonT(60)
    <2> QED BY <2>1, <2>2, ZenonT(60)
  <1>3. CASE update(w)
    <2>1. /\ pc[w] = "exec" /\ op[w] <= Len(Ops(w)) /\ Ops(w)[op[w]].type = "update"
          /\ lock' = [lock EXCEPT ![Key(w)] = NoOne]
      BY <1>3 DEF update, At
    <2>2. op[w] \in 1..Len(Ops(w)) /\ op[w] <= op[w]
      BY <2>1, OperationTypes
    <2>3. Holds(w, op[w])
      BY <2>1, <2>2, ZenonT(60) DEF Holds
    <2>4. lock[Key(w)] = w
      BY <2>2, <2>3, ZenonT(60) DEF Locked, Key
    <2> QED BY <2>1, <2>4 DEF TypeOK
  <1> QED BY <1>1, <1>2, <1>3, LockSteps

\* Outside its operations a transaction is at the first one.
LEMMA FirstOperation ==
  ASSUME TypeOK, Locked, NEW w \in Workers, (\E p \in Programs : getTxn(w, p)) \/ Step(w),
         pc[w] \notin {"lock", "exec", "walk"}
  PROVE  op'[w] = 1 /\ pc'[w] \notin {"exec", "walk"}
  <1> USE DEF Goto, txnVars, storeVars, recVars
  <1>o. pc[w] \notin {"end", "crashed"} => op[w] = 1
    BY DEF Locked
  <1>1. ASSUME NEW p \in Programs, getTxn(w, p) PROVE op'[w] = 1 /\ pc'[w] \notin {"exec", "walk"}
    BY <1>1, <1>o, ZenonT(60) DEF getTxn, TypeOK
  <1>2. CASE publish(w) \/ first_time(w) \/ update_delta_epoch(w) \/ enter(w)
    BY <1>2, <1>o, ZenonT(60) DEF publish, first_time, update_delta_epoch, enter, TypeOK
  <1>3. CASE remove_active_txn(w) \/ switch_delta(w)
    BY <1>3, <1>o DEF remove_active_txn, switch_delta, Leave, TypeOK
  <1>4. CASE endTxn(w)
    BY <1>4 DEF endTxn, TypeOK
  <1>5. CASE GcAcquire(w) \/ \E v \in Workers : GcScan(w, v)
    <2>1. op' = op /\ pc[w] \in {"gc", "scan"} /\ (pc' = pc \/ pc' = [pc EXCEPT ![w] = "scan"])
      BY <1>5, ZenonT(60) DEF GcAcquire, GcScan
    <2> QED BY <1>o, <2>1 DEF TypeOK
  <1>6. CASE GcSkip(w) \/ GcFinish(w)
    <2>1. gc[w].then \notin {"exec", "walk"}
      BY ZenonT(60) DEF TypeOK, Collections
    <2>2. NextStore(w) /\ op' = op /\ pc[w] \in {"gc", "scan"}
      BY <1>6, ZenonT(60) DEF GcSkip, GcFinish
    <2>3. pc'[w] \notin {"exec", "walk"}
      BY <2>1, <2>2 DEF NextStore, TypeOK
    <2> QED BY <1>o, <2>2, <2>3, ZenonT(60)
  <1> QED BY <1>1, <1>2, <1>3, <1>4, <1>5, <1>6 DEF Step, try_lock, release_locks, all_locked,
         lookup, lookup_absent, walk, update, insert, ops_done, At

\* What a transaction holds after a step over its operations it held before,
\* except for the lock it has just taken.
LEMMA HeldBefore ==
  ASSUME TypeOK, Locked, Walking,
         NEW w \in Workers, Step(w), pc[w] \in {"lock", "exec", "walk"}
  PROVE  /\ txn' = txn
         /\ pc'[w] \in {"lock", "exec", "walk", "end", "crashed"}
         /\ pc'[w] = "walk" => Ops(w)[op'[w]].type = "lookup"
         /\ \A i \in 1..Len(Ops(w)) : Holds(w, i)' =>
              \/ Holds(w, i) /\ ~(update(w) /\ i = op[w])
              \/ try_lock(w) /\ At(w, "lock", "update") /\ i = op[w]
  <1> USE DEF Goto, txnVars, storeVars, recVars
  <1>t. op[w] \in Nat \ {0} /\ Len(Ops(w)) \in Nat
    BY OperationTypes
  <1>1. CASE try_lock(w)
    <2>1. txn' = txn /\ pc' = pc /\ pc[w] = "lock" /\ op'[w] = op[w] + 1
      BY <1>1 DEF try_lock, At, TypeOK
    <2>o. Ops(w)' = Ops(w)
      BY <2>1, ZenonT(60) DEF Ops
    <2>2. ASSUME NEW i \in 1..Len(Ops(w)), Holds(w, i)', ~At(w, "lock", "update")
          PROVE  i # op[w]
      <3>1. Ops(w)[i].type = "update"
        BY <2>2, <2>o, ZenonT(60) DEF Holds
      <3>2. i = op[w] => op[w] <= Len(Ops(w))
        BY <1>t
      <3> QED BY <2>1, <2>2, <3>1, <3>2, ZenonT(60) DEF At
    <2>3. ASSUME NEW i \in 1..Len(Ops(w)), Holds(w, i)', i # op[w] PROVE Holds(w, i)
      <3>1. i < op[w] + 1 => i < op[w]
        BY <1>t, <2>3
      <3> QED BY <2>1, <2>3, <2>o, <3>1, ZenonT(60) DEF Holds
    <2>4. ~update(w)
      BY <2>1 DEF update, At
    <2> QED BY <1>1, <2>1, <2>2, <2>3, <2>4, ZenonT(60)
  <1>2. CASE release_locks(w) \/ ops_done(w)
    <2>1. txn' = txn /\ pc'[w] = "end"
      BY <1>2 DEF release_locks, ops_done, TypeOK
    <2> QED BY <2>1, ZenonT(60) DEF Holds
  <1>3. CASE all_locked(w)
    <2>1. txn' = txn /\ pc[w] = "lock" /\ op[w] > Len(Ops(w)) /\ pc'[w] = "exec" /\ op'[w] = 1
      BY <1>3 DEF all_locked, TypeOK
    <2>o. Ops(w)' = Ops(w)
      BY <2>1, ZenonT(60) DEF Ops
    <2>2. ASSUME NEW i \in 1..Len(Ops(w)), Holds(w, i)' PROVE Holds(w, i) /\ i # op[w]
      <3>1. i < op[w] /\ i # op[w]
        BY <1>t, <2>1, PastTheEnd, ZenonT(60)
      <3> QED BY <2>1, <2>2, <2>o, <3>1, ZenonT(60) DEF Holds
    <2> QED BY <2>1, <2>2, ZenonT(60)
  <1>4. CASE lookup(w) \/ walk(w)
    <2>1. /\ txn' = txn /\ pc[w] \in {"exec", "walk"}
          /\ \/ pc'[w] = "exec" /\ op'[w] = op[w] + 1
             \/ op' = op /\ pc'[w] \in {"walk", "crashed"}
      BY <1>4, ReadEffect, ZenonT(60)
    <2>2. Ops(w)[op[w]].type = "lookup"
      BY <1>4, ZenonT(60) DEF lookup, walk, At, Locked
    <2>o. Ops(w)' = Ops(w)
      BY <2>1, ZenonT(60) DEF Ops
    <2>3. ASSUME NEW i \in 1..Len(Ops(w)), Holds(w, i)' PROVE Holds(w, i)
      <3>1. op[w] + 1 <= i => op[w] <= i
        BY <1>t
      <3> QED BY <2>1, <2>3, <2>o, <3>1, ZenonT(60) DEF Holds
    <2>4. ~update(w)
      BY <2>2 DEF update, At
    <2> QED BY <2>1, <2>2, <2>3, <2>4, ZenonT(60)
  <1>5. CASE lookup_absent(w) \/ insert(w) \/ update(w)
    <2>1. txn' = txn /\ pc[w] = "exec" /\ pc' = pc /\ op'[w] = op[w] + 1
      BY <1>5 DEF lookup_absent, insert, update, At, TypeOK
    <2>o. Ops(w)' = Ops(w)
      BY <2>1, ZenonT(60) DEF Ops
    <2>2. ASSUME NEW i \in 1..Len(Ops(w)), Holds(w, i)' PROVE Holds(w, i) /\ i # op[w]
      <3>1. op[w] + 1 <= i => op[w] <= i /\ i # op[w]
        BY <1>t
      <3> QED BY <2>1, <2>2, <2>o, <3>1, ZenonT(60) DEF Holds
    <2> QED BY <2>1, <2>2, ZenonT(60)
  <1> QED BY <1>1, <1>2, <1>3, <1>4, <1>5, ZenonT(60) DEF Step, publish, remove_active_txn, first_time,
         switch_delta, update_delta_epoch, enter, endTxn, GcAcquire, GcSkip, GcScan, GcFinish

\* Locking, updating and aborting keep the locks of a transaction with it
\* until it has updated or released each record.
LEMMA LockedStep ==
  ASSUME TypeOK, TypeOK', Published, Walking, Locked,
         NEW w \in Workers, (\E p \in Programs : getTxn(w, p)) \/ Step(w)
  PROVE  Locked'
  <1> SUFFICES ASSUME NEW v \in Workers
               PROVE  /\ pc'[v] \notin {"lock", "exec", "walk", "end", "crashed"} => op'[v] = 1
                      /\ pc'[v] = "walk" => Ops(v)'[op'[v]].type = "lookup"
                      /\ \A i \in 1..Len(Ops(v)') : Holds(v, i)' =>
                           /\ lock'[Ops(v)'[i].key] = v
                           /\ \A j \in 1..Len(Ops(v)') : Holds(v, j)' /\ Ops(v)'[i].key = Ops(v)'[j].key
                                => i = j
    BY ZenonT(60) DEF Locked
  <1>1. CASE v # w
    <2>1. pc'[v] = pc[v] /\ txn'[v] = txn[v] /\ op'[v] = op[v] /\ Ops(v)' = Ops(v)
      BY <1>1, OwnState, ZenonT(60) DEF Frame, Ops
    <2>2. \A i : Holds(v, i)' <=> Holds(v, i)
      BY <2>1, ZenonT(60) DEF Holds
    <2>3. ASSUME NEW i \in 1..Len(Ops(v)), Holds(v, i) PROVE lock'[Ops(v)[i].key] = v
      <3>1. Ops(v)[i].key \in Keys /\ lock[Ops(v)[i].key] = v
        BY <2>3, OperationTypes, ZenonT(60) DEF Locked
      <3> QED BY <1>1, <3>1, ForeignLocks, ZenonT(60)
    <2>4. /\ pc[v] \notin {"lock", "exec", "walk", "end", "crashed"} => op[v] = 1
          /\ pc[v] = "walk" => Ops(v)[op[v]].type = "lookup"
      BY ZenonT(60) DEF Locked
    <2>5. ASSUME NEW i \in 1..Len(Ops(v)), NEW j \in 1..Len(Ops(v)), Holds(v, i), Holds(v, j),
                 Ops(v)[i].key = Ops(v)[j].key
          PROVE  i = j
      BY <2>5, ZenonT(60) DEF Locked
    <2> QED BY <2>1, <2>2, <2>3, <2>4, <2>5, ZenonT(60)
  <1>2. CASE v = w /\ pc[w] \notin {"lock", "exec", "walk"}
    <2>1. op'[w] = 1 /\ pc'[w] \notin {"exec", "walk"}
      BY <1>2, FirstOperation
    <2>2. \A i : ~Holds(w, i)'
      BY <2>1 DEF Holds
    <2> QED BY <1>2, <2>1, <2>2, ZenonT(60)
  <1>3. CASE v = w /\ pc[w] \in {"lock", "exec", "walk"}
    <2>0. Step(w)
      BY <1>3 DEF getTxn
    <2>1. /\ txn' = txn
          /\ pc'[w] \in {"lock", "exec", "walk", "end", "crashed"}
          /\ pc'[w] = "walk" => Ops(w)[op'[w]].type = "lookup"
          /\ \A i \in 1..Len(Ops(w)) : Holds(w, i)' =>
               \/ Holds(w, i) /\ ~(update(w) /\ i = op[w])
               \/ try_lock(w) /\ At(w, "lock", "update") /\ i = op[w]
      BY <1>3, <2>0, HeldBefore, ZenonT(60)
    <2>2. Ops(w)' = Ops(w)
      BY <2>1, ZenonT(60) DEF Ops
    <2>n. w # NoOne
      BY ConstantsAssumption
    <2>k. /\ \A i \in 1..Len(Ops(w)) : Holds(w, i) => lock[Ops(w)[i].key] = w
          /\ \A i, j \in 1..Len(Ops(w)) : Holds(w, i) /\ Holds(w, j) /\ Ops(w)[i].key = Ops(w)[j].key
               => i = j
      <3>1. ASSUME NEW i \in 1..Len(Ops(w)), Holds(w, i) PROVE lock[Ops(w)[i].key] = w
        BY <3>1, ZenonT(60) DEF Locked
      <3>2. ASSUME NEW i \in 1..Len(Ops(w)), NEW j \in 1..Len(Ops(w)), Holds(w, i), Holds(w, j),
                   Ops(w)[i].key = Ops(w)[j].key
            PROVE  i = j
        BY <3>2, ZenonT(60) DEF Locked
      <3> QED BY <3>1, <3>2, ZenonT(60)
    <2>g. /\ pc'[v] \notin {"lock", "exec", "walk", "end", "crashed"} => op'[v] = 1
          /\ pc'[v] = "walk" => Ops(v)'[op'[v]].type = "lookup"
      BY <1>3, <2>1, <2>2, ZenonT(60)
    <2> SUFFICES /\ \A i \in 1..Len(Ops(w)) : Holds(w, i)' => lock'[Ops(w)[i].key] = w
                 /\ \A i, j \in 1..Len(Ops(w)) :
                      Holds(w, i)' /\ Holds(w, j)' /\ Ops(w)[i].key = Ops(w)[j].key => i = j
      BY <1>3, <2>2, <2>g, ZenonT(60)
    <2>3. CASE try_lock(w)
      <3>1. \/ At(w, "lock", "update") /\ lock[Key(w)] = NoOne /\ lock' = [lock EXCEPT ![Key(w)] = w]
            \/ ~At(w, "lock", "update") /\ lock' = lock
        BY <2>3, ZenonT(60) DEF try_lock, At
      <3>2. CASE ~At(w, "lock", "update") /\ lock' = lock
        BY <2>1, <2>k, <3>2, ZenonT(60)
      <3>3. CASE /\ At(w, "lock", "update") /\ lock[Key(w)] = NoOne
                 /\ lock' = [lock EXCEPT ![Key(w)] = w]
        <4>1. \A i \in 1..Len(Ops(w)) : Holds(w, i) =>
                lock[Ops(w)[i].key] = w /\ Ops(w)[i].key # Key(w)
          BY <2>n, <2>k, <3>3, ZenonT(60)
        <4>2. \A i \in 1..Len(Ops(w)) : Holds(w, i)' =>
                Holds(w, i) \/ (Ops(w)[i].key = Key(w) /\ i = op[w])
          <5> SUFFICES ASSUME NEW i \in 1..Len(Ops(w)), Holds(w, i)'
                       PROVE  Holds(w, i) \/ (Ops(w)[i].key = Key(w) /\ i = op[w])
            OBVIOUS
          <5>1. Holds(w, i) \/ i = op[w]
            BY <2>1, ZenonT(60)
          <5>2. i = op[w] => Ops(w)[i].key = Key(w)
            BY DEF Key
          <5> QED BY <5>1, <5>2
        <4>3. \A i \in 1..Len(Ops(w)) : Holds(w, i)' => lock'[Ops(w)[i].key] = w
          <5>1. \A i \in 1..Len(Ops(w)) : Ops(w)[i].key \in Keys
            BY OperationTypes
          <5> QED BY <3>3, <4>1, <4>2, <5>1 DEF TypeOK
        <4>4. \A i, j \in 1..Len(Ops(w)) : Holds(w, i)' /\ Holds(w, j)' /\ Ops(w)[i].key = Ops(w)[j].key =>
                i = j
          BY <2>k, <4>1, <4>2, ZenonT(60)
        <4> QED BY <4>3, <4>4, ZenonT(60)
      <3> QED BY <3>1, <3>2, <3>3, ZenonT(60)
    <2>4. CASE update(w)
      <3>1. /\ pc[w] = "exec" /\ op[w] <= Len(Ops(w)) /\ Ops(w)[op[w]].type = "update"
            /\ lock' = [lock EXCEPT ![Key(w)] = NoOne]
        BY <2>4 DEF update, At
      <3>2. op[w] \in 1..Len(Ops(w)) /\ op[w] <= op[w]
        BY <3>1, OperationTypes
      <3>3. Holds(w, op[w])
        BY <3>1, <3>2 DEF Holds
      <3>4. \A i \in 1..Len(Ops(w)) : Holds(w, i)' => Holds(w, i) /\ i # op[w]
        BY <2>1, <2>4, <3>1, ZenonT(60) DEF At
      <3>5. \A i \in 1..Len(Ops(w)) : Holds(w, i)' => Ops(w)[i].key # Key(w)
        BY <2>k, <3>2, <3>3, <3>4, ZenonT(60) DEF Key
      <3>6. \A i \in 1..Len(Ops(w)) : Holds(w, i)' => lock'[Ops(w)[i].key] = w
        <4>1. \A i \in 1..Len(Ops(w)) : Ops(w)[i].key \in Keys
          BY OperationTypes
        <4> QED BY <2>k, <3>1, <3>4, <3>5, <4>1, ZenonT(60) DEF TypeOK
      <3>7. \A i, j \in 1..Len(Ops(w)) : Holds(w, i)' /\ Holds(w, j)' /\ Ops(w)[i].key = Ops(w)[j].key =>
              i = j
        BY <2>k, <3>4, ZenonT(60)
      <3> QED BY <3>6, <3>7, ZenonT(60)
    <2>5. CASE release_locks(w)
      <3>1. pc'[w] = "end"
        BY <2>5 DEF release_locks, Goto, TypeOK
      <3>2. \A i : ~Holds(w, i)'
        BY <3>1 DEF Holds
      <3> QED BY <3>2, ZenonT(60)
    <2>6. CASE lock' = lock /\ ~try_lock(w)
      BY <2>1, <2>6, <2>k, ZenonT(60)
    <2> QED BY <2>3, <2>4, <2>5, <2>6, LockSteps, ZenonT(60)
  <1> QED BY <1>1, <1>2, <1>3, ZenonT(60)

\* A transaction marked read-only keeps a program without updates.
LEMMA ReadOnlyStep ==
  ASSUME TypeOK, ReadOnly, NEW w \in Workers, (\E p \in Programs : getTxn(w, p)) \/ Step(w)
  PROVE  ReadOnly'
  <1> USE DEF Goto, txnVars, storeVars, recVars
  <1>1. ASSUME NEW p \in Programs, getTxn(w, p) PROVE ReadOnly'
    <2>1. txn' = [txn EXCEPT ![w] = [ts |-> gen, ro |-> p.ro, ops |-> p.ops]]
      BY <1>1 DEF getTxn
    <2>2. txn'[w].ro = p.ro /\ txn'[w].ops = p.ops /\ \A v \in Workers \ {w} : txn'[v] = txn[v]
      BY <2>1 DEF TypeOK
    <2>3. p.ro => \A i \in 1..Len(p.ops) : p.ops[i].type # "update"
      BY ProgramsAssumption
    <2>4. \A v \in Workers \ {w} : txn[v].ro => \A i \in 1..Len(txn[v].ops) : txn[v].ops[i].type # "update"
      BY DEF ReadOnly, Ops
    <2> QED BY <2>2, <2>3, <2>4, ZenonT(60) DEF ReadOnly, Ops
  <1>2. CASE endTxn(w)
    <2>1. txn' = [txn EXCEPT ![w] = [ts |-> 0, ro |-> TRUE, ops |-> <<>>]]
      BY <1>2 DEF endTxn
    <2>2. txn'[w].ops = <<>> /\ \A v \in Workers \ {w} : txn'[v] = txn[v]
      BY <2>1 DEF TypeOK
    <2>3. Len(txn'[w].ops) = 0
      BY <2>2, EmptySeq, ZenonT(60)
    <2>4. \A v \in Workers \ {w} : txn[v].ro => \A i \in 1..Len(txn[v].ops) : txn[v].ops[i].type # "update"
      BY DEF ReadOnly, Ops
    <2> QED BY <2>2, <2>3, <2>4 DEF ReadOnly, Ops
  <1>3. CASE txn' = txn
    BY <1>3, ZenonT(60) DEF ReadOnly, Ops
  <1> QED BY <1>1, <1>2, <1>3, ZenonT(60) DEF Step, publish, remove_active_txn, first_time, switch_delta,
       update_delta_epoch, enter, try_lock, release_locks, all_locked, lookup, lookup_absent,
       walk, update, insert, ops_done, GcAcquire, GcSkip, GcScan, GcFinish

-----------------------------------------------------------------------------
(* The theorems *)

\* The freshly loaded tables satisfy the invariant.
LEMMA InitIInv == Init => IInv
  <1> SUFFICES ASSUME Init PROVE IInv
    OBVIOUS
  <1>1. TypeOK
    BY InitType
  <1>2. Published
    <2>1. \A w \in Workers : /\ pc[w] = "idle" /\ txn[w].ts = 0 /\ min_active[w] = UINT64_MAX
                             /\ \A d \in Deltas : epoch[d][w] = 0
      BY DEF Init
    <2>2. gen = 1
      BY DEF Init
    <2> QED BY <2>1, <2>2 DEF Published, PublishedBy, Location
  <1>3. Registered
    <2>1. \A w \in Workers : pc[w] = "idle" /\ cur[w] = -1
      BY DEF Init
    <2>2. \A d \in Deltas : inside[d] = {} /\ d # -1
      BY ConstantsAssumption DEF Init, Deltas
    <2> QED BY <2>1, <2>2 DEF Registered, RegisteredBy, Location
  <1>4. Collecting /\ ScansSound /\ Walking /\ OnlyOverlookedFail
    <2>1. \A w \in Workers : pc[w] = "idle"
      BY ZenonT(60) DEF Init
    <2>2. \A d \in Deltas : owner[d] = NoOne
      BY DEF Init
    <2> QED BY <2>1, <2>2, ZenonT(60) DEF Collecting, ScansSound, Walking, OnlyOverlookedFail
  <1>5. VersionsPast /\ LiveVersionsCovered
    <2>1. \A k \in DOMAIN rec : rec[k].t_min = 0 /\ rec[k].chain = <<>>
      BY DEF Init
    <2>2. \A k \in DOMAIN rec : Len(rec[k].chain) = 0
      BY <2>1, EmptySeq, ZenonT(60)
    <2>3. gen = 1
      BY DEF Init
    <2> QED BY <2>1, <2>2, <2>3 DEF VersionsPast, LiveVersionsCovered
  <1>6. Served
    <2>1. \A w \in Workers : txn[w].ts = 0
      BY DEF Init
    <2> QED BY <2>1, ZenonT(60) DEF Served, Seen
  <1>7. Locked /\ ReadOnly
    <2>1. \A w \in Workers : pc[w] = "idle" /\ op[w] = 1 /\ Ops(w) = <<>>
      BY DEF Init, Ops
    <2>2. \A w \in Workers : Len(Ops(w)) = 0
      BY <2>1, EmptySeq, ZenonT(60)
    <2> QED BY <2>1, <2>2 DEF Locked, ReadOnly, Holds
  <1> QED BY <1>1, <1>2, <1>3, <1>4, <1>5, <1>6, <1>7 DEF IInv

\* The invariant is inductive.
LEMMA NextIInv == IInv /\ [Next]_vars => IInv'
  <1> SUFFICES ASSUME IInv, [Next]_vars PROVE IInv'
    OBVIOUS
  <1> USE DEF IInv
  <1>1. CASE Next
    <2>1. PICK w \in Workers : (\E p \in Programs : getTxn(w, p)) \/ Step(w)
      BY <1>1 DEF Next
    <2>2. ~Crashed
      BY <1>1 DEF Next
    <2>3. TypeOK'
      BY TypeStep
    <2>4. Published' /\ Registered' /\ Collecting' /\ ScansSound'
      BY <2>1, <2>3, PublishedStep, RegisteredStep, CollectingStep, ScansStep
    <2>5. VersionsPast' /\ LiveVersionsCovered' /\ Served'
      BY <2>1, <2>3, VersionsStep, CoveredStep, ServedStep
    <2>6. Walking' /\ Locked' /\ ReadOnly' /\ OnlyOverlookedFail'
      BY <2>1, <2>2, <2>3, WalkingStep, LockedStep, ReadOnlyStep, FailStep
    <2> QED BY <2>3, <2>4, <2>5, <2>6
  <1>2. CASE UNCHANGED vars
    <2> USE <1>2 DEF vars
    <2>1. TypeOK'
      BY ZenonT(60) DEF TypeOK
    <2>2. Published' /\ Registered'
      <3>1. Published'
        BY ZenonT(60) DEF Published, PublishedBy, Location
      <3>2. Registered'
        BY ZenonT(60) DEF Registered, RegisteredBy, Location
      <3> QED BY <3>1, <3>2, ZenonT(60)
    <2>3. Collecting' /\ ScansSound'
      BY ZenonT(60) DEF Collecting, ScansSound, Seen, Store
    <2>4. VersionsPast' /\ LiveVersionsCovered'
      <3>1. VersionsPast'
        BY ZenonT(60) DEF VersionsPast
      <3>2. LiveVersionsCovered'
        BY DEF LiveVersionsCovered, Live
      <3> QED BY <3>1, <3>2, ZenonT(60)
    <2>5. Served'
      BY DEF Served, Seen, Walks, Live, Writer
    <2>6. Walking' /\ OnlyOverlookedFail'
      BY ZenonT(60) DEF Walking, OnlyOverlookedFail, Key, Ops
    <2>7. Locked'
      <3>1. \A w \in Workers : Ops(w)' = Ops(w)
        BY DEF Ops
      <3>2. \A w \in Workers : \A i : Holds(w, i)' <=> Holds(w, i)
        BY <3>1, ZenonT(60) DEF Holds
      <3>3. pc' = pc /\ op' = op /\ lock' = lock
        OBVIOUS
      <3> SUFFICES ASSUME NEW w \in Workers
                   PROVE  /\ pc'[w] \notin {"lock", "exec", "walk", "end", "crashed"} => op'[w] = 1
                          /\ pc'[w] = "walk" => Ops(w)'[op'[w]].type = "lookup"
                          /\ \A i \in 1..Len(Ops(w)') : Holds(w, i)' =>
                               /\ lock'[Ops(w)'[i].key] = w
                               /\ \A j \in 1..Len(Ops(w)') :
                                    Holds(w, j)' /\ Ops(w)'[i].key = Ops(w)'[j].key => i = j
        BY ZenonT(60) DEF Locked
      <3>4. /\ pc[w] \notin {"lock", "exec", "walk", "end", "crashed"} => op[w] = 1
            /\ pc[w] = "walk" => Ops(w)[op[w]].type = "lookup"
        BY ZenonT(60) DEF Locked
      <3>5. ASSUME NEW i \in 1..Len(Ops(w)), Holds(w, i)
            PROVE  /\ lock[Ops(w)[i].key] = w
                   /\ \A j \in 1..Len(Ops(w)) :
                        Holds(w, j) /\ Ops(w)[i].key = Ops(w)[j].key => i = j
        BY <3>5, ZenonT(60) DEF Locked
      <3> HIDE <1>2
      <3> QED BY <3>1, <3>2, <3>3, <3>4, <3>5, ZenonT(60)
    <2>8. ReadOnly'
      BY ZenonT(60) DEF ReadOnly, Ops
    <2> QED BY <2>1, <2>2, <2>3, <2>4, <2>5, <2>6, <2>7, <2>8
  <1> QED BY <1>1, <1>2

\* The invariant holds for any workers, records, stores and stored procedures.
THEOREM Invariance == Spec => []IInv
  BY InitIInv, NextIInv, PTL DEF Spec

\* No collection of CircularDeltaStore::GC frees a version that a transaction
\* still needs, if its start time was in the table when the collector scanned
\* it, or drawn after that.
THEOREM NeededVersionsKept == Spec => []NeededVersionsLive
  <1>1. ASSUME IInv PROVE NeededVersionsLive
    <2> SUFFICES ASSUME NEW w \in Workers, Protected(w), NEW k \in DOMAIN rec,
                        rec[k].born <= txn[w].ts
                 PROVE  Reaches(rec[k], txn[w].ts)
      BY DEF NeededVersionsLive
    <2>1. txn[w].ts # 0
      BY <1>1, ConstantsAssumption DEF IInv, Published, PublishedBy, Protected, UINT64_MAX
    <2>2. Walks(rec[k], txn[w].ts)
      BY <1>1, <2>1, ZenonT(60) DEF IInv, Served, Seen, Protected
    <2> QED BY <2>2, ZenonT(60) DEF Walks, Reaches
  <1> QED BY <1>1, Invariance, PTL

\* The fatal checks of get_readable_version fail only for a transaction that a
\* collector overlooked between the draw of its start time and its
\* publication, or for a record inserted after it started.
THEOREM ReadsSucceed == Spec => []OnlyOverlookedFail
  <1>1. IInv => OnlyOverlookedFail
    BY DEF IInv
  <1> QED BY <1>1, Invariance, PTL

\* A live version in a store was made by a transaction that is not younger
\* than the store's max_active_epoch, which impl_gc_simple compares with.
THEOREM EpochsCover == Spec => []LiveVersionsCovered
  <1>1. IInv => LiveVersionsCovered
    BY DEF IInv
  <1> QED BY <1>1, Invariance, PTL

\* MV2PL: a transaction that executes has the write lock of each update that
\* it has still to make.
THEOREM UpdatesLocked == Spec => []PendingUpdatesLocked
  <1>1. ASSUME IInv PROVE PendingUpdatesLocked
    <2> SUFFICES ASSUME NEW w \in Workers, pc[w] \in {"exec", "walk"},
                        NEW i \in op[w]..Len(Ops(w)), Ops(w)[i].type = "update"
                 PROVE  lock[Ops(w)[i].key] = w
      BY DEF PendingUpdatesLocked
    <2>1. i \in 1..Len(Ops(w)) /\ op[w] <= i
      BY <1>1, OperationTypes DEF IInv
    <2>2. Holds(w, i)
      BY <2>1 DEF Holds
    <2> QED BY <1>1, <2>1, <2>2, ZenonT(60) DEF IInv, Locked
  <1> QED BY <1>1, Invariance, PTL

=============================================================================
