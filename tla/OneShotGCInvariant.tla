-------------------------- MODULE OneShotGCInvariant ------------------------
(***************************************************************************)
(* OneShotGC for any number of workers, records, stores and start times:   *)
(* the inductive invariant, and that the steps preserve the part of it     *)
(* about tables, stores and the scans of the collectors.                   *)
(***************************************************************************)
EXTENDS OneShotGC, TLAPS

\* The time each prover has for a leaf.
USE SMTT(30), ZenonT(60)

Operations == [type : {"lookup", "update", "insert"}, key : Keys]
Transactions == [ts : 0..MaxTs, ro : BOOLEAN, ops : Seq(Operations)]
Versions == [t_min : Nat, delta : Deltas, age : Nat]
Records == [t_min : Nat, born : Nat, chain : Seq(Versions)]
Collections == [stores : Seq(Deltas), todo : SUBSET Workers, min : Nat,
                then : {"idle", "lock", "enter"}]
Locations == {"idle", "publish", "register", "enter", "lock", "exec", "walk",
              "end", "gc", "scan", "crashed"}

TypeOK ==
  /\ gen \in 1..MaxTs + 1
  /\ pc \in [Workers -> Locations]
  /\ txn \in [Workers -> Transactions]
  /\ op \in [Workers -> Nat \ {0}] /\ hop \in [Workers -> Nat]
  /\ cur \in [Workers -> Deltas \cup {-1}]
  /\ min_active \in [Workers -> Nat]
  /\ inside \in [Deltas -> SUBSET Workers]
  /\ epoch \in [Deltas -> [Workers -> Nat]]
  /\ owner \in [Deltas -> Workers \cup {NoOne}]
  /\ age \in [Deltas -> Nat]
  /\ gc \in [Workers -> Collections]
  /\ DOMAIN rec \subseteq Keys /\ rec \in [DOMAIN rec -> Records]
  /\ lock \in [Keys -> Workers \cup {NoOne}]
  /\ latch \in [Keys -> Workers \cup {NoOne}]
  /\ exposed \subseteq Workers

\* Facts about numbers, stated once so that the long steps need no arithmetic.
LEMMA AtMostTransitive == \A a, b, c \in Nat : a <= b /\ b <= c => a <= c
  OBVIOUS

\* What is below is at most.
LEMMA BelowAtMost == \A a, b \in Nat : a < b => a <= b
  OBVIOUS

\* A sequence that is not empty has a first place.
LEMMA OneOf == \A n \in Nat : n # 0 => 1 \in 1..n
  OBVIOUS

\* A place of a sequence is before one past its end.
LEMMA PastTheEnd == \A n, m \in Nat : m > n => \A i \in 1..n : i < m /\ i # m
  OBVIOUS

\* Where the worker is, or goes on after the collections it is busy with.
Location(w) == IF pc[w] \in {"gc", "scan"} THEN gc[w].then ELSE pc[w]

\* A worker has a transaction unless it is idle, the transaction is in its
\* table unless it is being published, and start times and epochs have been
\* drawn: the ones a worker put into a store are not after its transaction.
PublishedBy(w) ==
  /\ pc[w] \in {"gc", "scan"} => gc[w].stores # <<>>
  /\ txn[w].ts = 0 <=> Location(w) = "idle"
  /\ min_active[w] = IF txn[w].ts = 0 \/ pc[w] = "publish" THEN UINT64_MAX ELSE txn[w].ts
  /\ txn[w].ts < gen
  /\ \A d \in Deltas : /\ epoch[d][w] < gen
                       /\ txn[w].ts # 0 => epoch[d][w] <= txn[w].ts
Published == \A w \in Workers : PublishedBy(w)

\* A worker is inside its current store and no other, unless it is about to
\* enter it; a writer past its registration is inside the store of its start
\* time, which its epoch there is not before.
RegisteredBy(w) ==
  /\ \A d \in Deltas : w \in inside[d] <=> cur[w] = d /\ Location(w) # "enter"
  /\ Location(w) = "enter" => cur[w] = get_delta_ver(txn[w].ts)
  /\ (Location(w) \in {"lock", "exec", "walk", "end"} /\ ~txn[w].ro) =>
       /\ cur[w] = get_delta_ver(txn[w].ts)
       /\ txn[w].ts <= epoch[cur[w]][w]
Registered == \A w \in Workers : RegisteredBy(w)

\* The owner of a store is scanning the tables for it, with nobody inside.
Collecting ==
  /\ \A d \in Deltas : owner[d] # NoOne =>
       pc[owner[d]] = "scan" /\ Store(owner[d]) = d /\ inside[d] = {}
  /\ \A w \in Workers : pc[w] = "scan" => owner[Store(w)] = w

\* A transaction, from the draw of its start time, that no scan passed over.
Seen(w) == txn[w].ts # 0 /\ w \notin exposed

\* A scan that is past the table of a transaction knows that it is active, or
\* was there before it started, and then all epochs of the store are older.
ScansSound ==
  \A c, v \in Workers :
    (pc[c] = "scan" /\ v \notin gc[c].todo /\ Seen(v)) =>
      \/ gc[c].min <= txn[v].ts
      \/ \A u \in Workers : epoch[Store(c)][u] < txn[v].ts

\* The start time of the transaction that made the i-th version of r.
Writer(r, i) == IF i = 1 THEN r.t_min ELSE r.chain[i - 1].t_min

\* Versions are of the past.
VersionsPast ==
  \A k \in DOMAIN rec :
    /\ rec[k].t_min < gen
    /\ \A i \in 1..Len(rec[k].chain) : rec[k].chain[i].age <= age[rec[k].chain[i].delta]

\* As Reaches, telling the first readable version: the writers of all that are
\* walked past, and of itself, are younger than ts.
Walks(r, ts) ==
  \/ r.t_min <= ts
  \/ \E n \in 1..Len(r.chain) :
       /\ r.chain[n].t_min <= ts
       /\ \A i \in 1..n : Live(r.chain[i]) /\ ts < Writer(r, i)

Served ==
  \A w \in Workers : Seen(w) =>
    \A k \in DOMAIN rec : rec[k].born <= txn[w].ts => Walks(rec[k], txn[w].ts)

\* A walking reader holds the latch of its record, and cannot read what it has
\* walked past.
Walking ==
  \A w \in Workers : pc[w] = "walk" =>
    /\ op[w] <= Len(Ops(w)) /\ Key(w) \in DOMAIN rec /\ latch[Key(w)] = w
    /\ hop[w] \in 1..Len(rec[Key(w)].chain)
    /\ txn[w].ts < rec[Key(w)].t_min
    /\ \A i \in 1..hop[w] - 1 : txn[w].ts < rec[Key(w)].chain[i].t_min

\* The updates of a transaction that it has locked, and not yet released.
Holds(w, i) ==
  /\ i \in 1..Len(Ops(w)) /\ Ops(w)[i].type = "update"
  /\ \/ pc[w] = "lock" /\ i < op[w]
     \/ pc[w] \in {"exec", "walk"} /\ op[w] <= i

\* They are of different records, locked by it.
Locked ==
  \A w \in Workers :
    /\ pc[w] \notin {"lock", "exec", "walk", "end", "crashed"} => op[w] = 1
    /\ pc[w] = "walk" => Ops(w)[op[w]].type = "lookup"
    /\ \A i \in 1..Len(Ops(w)) : Holds(w, i) =>
         /\ lock[Ops(w)[i].key] = w
         /\ \A j \in 1..Len(Ops(w)) : Holds(w, j) /\ Ops(w)[i].key = Ops(w)[j].key => i = j

\* Read-only transactions update nothing.
ReadOnly ==
  \A w \in Workers : txn[w].ro => \A i \in 1..Len(Ops(w)) : Ops(w)[i].type # "update"

\* The inductive invariant.
IInv ==
  /\ TypeOK
  /\ Published /\ Registered /\ Collecting
  /\ ScansSound /\ VersionsPast /\ LiveVersionsCovered /\ Served
  /\ Walking /\ Locked /\ ReadOnly
  /\ OnlyOverlookedFail

-----------------------------------------------------------------------------
(* Facts about the operators *)

\* What the sequences of operations, versions and stores are made of.
LEMMA ElementOfSeq ==
  ASSUME NEW S, NEW s \in Seq(S), NEW n \in 1..Len(s)
  PROVE  s[n] \in S
  OBVIOUS

\* The length of a chain, a program or a list of stores is a number.
LEMMA LenProperties ==
  ASSUME NEW S, NEW s \in Seq(S)
  PROVE  Len(s) \in Nat
  OBVIOUS

\* Such a sequence is empty when its length is zero.
LEMMA EmptySeq ==
  ASSUME NEW S
  PROVE  /\ <<>> \in Seq(S)
         /\ \A s \in Seq(S) : s = <<>> <=> Len(s) = 0
  OBVIOUS

\* The first store of a non-empty list, and the stores after it.
LEMMA HeadTailProperties ==
  ASSUME NEW S, NEW s \in Seq(S), s # <<>>
  PROVE  Head(s) \in S /\ Tail(s) \in Seq(S)
  OBVIOUS

\* A start time belongs to a store.
LEMMA DeltaOfTs == \A t \in Nat : get_delta_ver(t) \in Deltas
  <1> SUFFICES ASSUME NEW t \in Nat PROVE get_delta_ver(t) \in Deltas
    OBVIOUS
  <1>1. t \div EpochLen \in Int
    BY ConstantsAssumption
  <1>2. \A x \in Int : x % NumDeltas \in 0..NumDeltas - 1
    BY ConstantsAssumption
  <1> QED BY <1>1, <1>2 DEF get_delta_ver, Deltas

\* A collector has a store, and after it the others it still has to collect.
LEMMA StoresLeft ==
  ASSUME NEW s \in Seq(Deltas), s # <<>>
  PROVE  /\ Head(s) \in Deltas
         /\ Len(s) # 1 => Tail(s) \in Seq(Deltas) /\ Tail(s) # <<>>
  <1>1. Len(s) \in Nat \ {0} /\ Len(<<>>) = 0
    BY EmptySeq
  <1>2. Head(s) \in Deltas /\ Tail(s) \in Seq(Deltas) /\ Len(Tail(s)) = Len(s) - 1
    BY HeadTailProperties
  <1>3. Len(s) # 1 => Len(Tail(s)) # Len(<<>>)
    BY <1>1, <1>2
  <1> QED BY <1>2, <1>3, ZenonT(60)

\* The chain of an updated record: the new version, live, then the old chain
\* if its head was live, for the tag of a live version is valid.
LEMMA NewChain ==
  ASSUME TypeOK, NEW w \in Workers, NEW r \in Records
  PROVE  LET d == get_delta_ver(txn[w].ts)
             c == create_versions(w, r)
         IN  /\ d \in Deltas /\ c \in Seq(Versions) /\ c # <<>>
             /\ c[1] = [t_min |-> r.t_min, delta |-> d, age |-> age[d]]
             /\ c[1].t_min = r.t_min /\ c[1].delta = d /\ c[1].age = age[d]
             /\ \A i \in 2..Len(c) : i - 1 \in 1..Len(r.chain) /\ c[i] = r.chain[i - 1]
             /\ (r.chain # <<>> /\ Live(r.chain[1])) =>
                  Len(c) = Len(r.chain) + 1 /\ \A i \in 1..Len(r.chain) : c[i + 1] = r.chain[i]
  <1> DEFINE d == get_delta_ver(txn[w].ts)
             v == [t_min |-> r.t_min, delta |-> d, age |-> age[d]]
             tail == IF r.chain # <<>> /\ isValid(r.chain[1]) THEN r.chain ELSE <<>>
             c == <<v>> \o tail
  <1>1. d \in Deltas
    BY DeltaOfTs DEF TypeOK, Transactions
  <1>2. v \in Versions
    BY <1>1 DEF TypeOK, Versions, Records
  <1>3. tail \in Seq(Versions)
    BY DEF Records
  <1>4. create_versions(w, r) = c
    BY DEF create_versions
  <1>v. v.t_min = r.t_min /\ v.delta = d /\ v.age = age[d]
    OBVIOUS
  <1> HIDE DEF v, tail
  <1>5. /\ c \in Seq(Versions) /\ Len(c) = Len(tail) + 1 /\ c[1] = v
        /\ \A i \in 2..Len(c) : c[i] = tail[i - 1]
    BY <1>2, <1>3
  <1>6. \A i \in 2..Len(c) : i - 1 \in 1..Len(r.chain) /\ c[i] = r.chain[i - 1]
    BY <1>3, <1>5 DEF tail
  <1>7. ASSUME r.chain # <<>>, Live(r.chain[1])
        PROVE  tail = r.chain
    <2>1. r.chain[1] \in Versions
      BY <1>7 DEF Records
    <2>2. r.chain[1].age - age[r.chain[1].delta] = 0
      BY <2>1, <1>7 DEF Live, Versions, TypeOK
    <2>3. 0 % TagMod = 0
      BY ConstantsAssumption
    <2> QED BY <1>7, <2>2, <2>3 DEF tail, isValid
  <1>8. (r.chain # <<>> /\ Live(r.chain[1])) =>
          Len(c) = Len(r.chain) + 1 /\ \A i \in 1..Len(r.chain) : c[i + 1] = r.chain[i]
    BY <1>3, <1>5, <1>7 DEF Records
  <1>9. c # <<>>
    BY <1>5, <1>3
  <1>10. c[1].t_min = r.t_min /\ c[1].delta = d /\ c[1].age = age[d]
    BY <1>5, <1>v, ZenonT(60)
  <1> QED BY <1>1, <1>4, <1>5, <1>6, <1>8, <1>9, <1>10, ZenonT(60) DEF v

-----------------------------------------------------------------------------
(* Every step preserves the types *)

\* The types hold of the freshly loaded tables.
LEMMA InitType == Init => TypeOK
  <1> SUFFICES ASSUME Init PROVE TypeOK
    OBVIOUS
  <1>1. [ts |-> 0, ro |-> TRUE, ops |-> <<>>] \in Transactions
    BY ConstantsAssumption DEF Transactions
  <1>2. NoGC \in Collections
    BY ConstantsAssumption DEF NoGC, Collections, UINT64_MAX
  <1>3. [t_min |-> 0, born |-> 0, chain |-> <<>>] \in Records
    BY DEF Records
  <1> QED
    BY <1>1, <1>2, <1>3, ConstantsAssumption DEF Init, TypeOK, Locations, UINT64_MAX

\* What a worker collects next.
LEMMA NextStoreType ==
  ASSUME TypeOK, Published, NEW w \in Workers, pc[w] \in {"gc", "scan"}, NextStore(w)
  PROVE  /\ gc' \in [Workers -> Collections]
         /\ pc' \in [Workers -> Locations]
         /\ pc'[w] = "gc" => gc'[w].stores # <<>>
         /\ pc'[w] \in {"gc", "idle", "lock", "enter"}
         /\ (IF pc'[w] = "gc" THEN gc'[w].then ELSE pc'[w]) = gc[w].then
         /\ \A v \in Workers \ {w} : pc'[v] = pc[v] /\ gc'[v] = gc[v]
  <1>1. gc[w] \in Collections /\ gc[w].stores \in Seq(Deltas) /\ gc[w].stores # <<>>
    BY DEF TypeOK, Published, PublishedBy, Collections
  <1>2. NoGC \in Collections
    BY ConstantsAssumption DEF NoGC, Collections, UINT64_MAX
  <1>3. CASE Len(gc[w].stores) = 1
    <2>1. gc' = [gc EXCEPT ![w] = NoGC] /\ pc' = [pc EXCEPT ![w] = gc[w].then]
      BY <1>3 DEF NextStore, Goto
    <2> QED BY <1>1, <1>2, <2>1, ZenonT(60) DEF TypeOK, Collections, Locations
  <1>4. CASE Len(gc[w].stores) # 1
    <2> DEFINE new == [NoGC EXCEPT !.stores = Tail(gc[w].stores), !.then = gc[w].then]
    <2>1. gc' = [gc EXCEPT ![w] = new] /\ pc' = [pc EXCEPT ![w] = "gc"]
      BY <1>4 DEF NextStore, Goto
    <2>2. Tail(gc[w].stores) \in Seq(Deltas) /\ Tail(gc[w].stores) # <<>>
      BY <1>1, <1>4, StoresLeft
    <2>3. new \in Collections /\ new.stores # <<>> /\ new.then = gc[w].then
      BY <1>1, <1>2, <2>2, ZenonT(60) DEF NoGC, Collections
    <2> HIDE DEF new
    <2> QED BY <1>1, <2>1, <2>3 DEF TypeOK, Locations
  <1> QED BY <1>3, <1>4

\* Every step of a transaction or a collector preserves the types.
LEMMA TypeStep ==
  ASSUME TypeOK, Published, Registered, [Next]_vars
  PROVE  TypeOK'
  <1> USE DEF Goto, txnVars, storeVars, recVars
  <1>p. {"idle", "publish", "register", "enter", "lock", "exec", "walk", "end", "gc",
         "scan", "crashed"} = Locations
    BY DEF Locations
  <1>g. NoGC \in Collections
    BY ConstantsAssumption DEF NoGC, Collections, UINT64_MAX
  <1>n. [ts |-> 0, ro |-> TRUE, ops |-> <<>>] \in Transactions
    BY ConstantsAssumption DEF Transactions
  <1>1. ASSUME NEW w \in Workers, NEW p \in Programs, getTxn(w, p) PROVE TypeOK'
    <2>1. p \in [ro : BOOLEAN, ops : Seq(Operations)]
      BY ProgramsAssumption, ZenonT(60) DEF Operations
    <2>2. gen \in 0..MaxTs
      BY <1>1, ConstantsAssumption DEF TypeOK, getTxn
    <2>3. [ts |-> gen, ro |-> p.ro, ops |-> p.ops] \in Transactions
      BY <2>1, <2>2 DEF Transactions
    <2> QED BY <1>1, <1>p, <2>3, ConstantsAssumption DEF TypeOK, getTxn
  <1>2. ASSUME NEW w \in Workers, publish(w) PROVE TypeOK'
    <2>1. txn[w].ts \in Nat
      BY DEF TypeOK, Transactions
    <2> QED BY <1>2, <1>p, <2>1 DEF TypeOK, publish
  <1>l. ASSUME NEW w \in Workers, NEW d \in Deltas, NEW l \in {"lock", "enter"}, Leave(w, d, l)
        PROVE  /\ inside' \in [Deltas -> SUBSET Workers]
               /\ gc' \in [Workers -> Collections]
               /\ pc' \in [Workers -> Locations]
    <2> DEFINE s == <<d>>
    <2>1. s \in Seq(Deltas)
      OBVIOUS
    <2> HIDE DEF s
    <2>2. [NoGC EXCEPT !.stores = s, !.then = l] \in Collections
      BY <1>g, <2>1, ZenonT(60) DEF Collections, NoGC
    <2> QED BY <1>l, <1>p, <2>2, ZenonT(60) DEF TypeOK, Leave, s
  <1>d. ASSUME NEW w \in Workers PROVE get_delta_ver(txn[w].ts) \in Deltas
    BY DeltaOfTs DEF TypeOK, Transactions
  <1>3. ASSUME NEW w \in Workers, remove_active_txn(w) PROVE TypeOK'
    <2>1. cur[w] \in Deltas
      BY <1>3 DEF TypeOK, remove_active_txn
    <2> QED BY <1>3, <1>l, <2>1 DEF TypeOK, remove_active_txn
  <1>4. ASSUME NEW w \in Workers, first_time(w) PROVE TypeOK'
    BY <1>4, <1>d, <1>p DEF TypeOK, first_time
  <1>5. ASSUME NEW w \in Workers, switch_delta(w) PROVE TypeOK'
    <2>1. cur[w] \in Deltas
      BY <1>5 DEF TypeOK, switch_delta
    <2> QED BY <1>5, <1>l, <1>d, <2>1 DEF TypeOK, switch_delta
  <1>6. ASSUME NEW w \in Workers, update_delta_epoch(w) PROVE TypeOK'
    <2>1. txn[w].ts \in Nat
      BY DEF TypeOK, Transactions
    <2> QED BY <1>6, <1>p, <2>1, ZenonT(60) DEF TypeOK, update_delta_epoch
  <1>7. ASSUME NEW w \in Workers, enter(w) PROVE TypeOK'
    <2>1. txn[w].ts \in Nat
      BY DEF TypeOK, Transactions
    <2> QED BY <1>7, <1>p, <2>1, ZenonT(60) DEF TypeOK, enter
  <1>8. ASSUME NEW w \in Workers, try_lock(w) PROVE TypeOK'
    BY <1>8 DEF TypeOK, try_lock
  <1>9. ASSUME NEW w \in Workers, release_locks(w) PROVE TypeOK'
    BY <1>9, <1>p DEF TypeOK, release_locks
  <1>10. ASSUME NEW w \in Workers, all_locked(w) \/ ops_done(w) PROVE TypeOK'
    <2>1. pc' \in [Workers -> Locations]
      BY <1>10, <1>p, ZenonT(60) DEF TypeOK, all_locked, ops_done
    <2>2. op' \in [Workers -> Nat \ {0}]
      BY <1>10 DEF TypeOK, all_locked, ops_done
    <2> QED BY <1>10, <2>1, <2>2 DEF TypeOK, all_locked, ops_done
  <1>11. ASSUME NEW w \in Workers, lookup(w) \/ lookup_absent(w) \/ walk(w) PROVE TypeOK'
    <2>1. ASSUME NEW i \in Nat, Pointer(w, i)
          PROVE  /\ pc' \in [Workers -> Locations] /\ hop' \in [Workers -> Nat]
                 /\ latch' \in [Keys -> Workers \cup {NoOne}]
      BY <2>1, <1>p, ZenonT(60) DEF TypeOK, Pointer
    <2>2. /\ pc' \in [Workers -> Locations] /\ hop' \in [Workers -> Nat]
          /\ latch' \in [Keys -> Workers \cup {NoOne}] /\ op' \in [Workers -> Nat \ {0}]
      <3>1. hop[w] + 1 \in Nat
        BY DEF TypeOK
      <3>2. CASE lookup(w)
        <4>1. CASE Pointer(w, 1) /\ UNCHANGED op
          BY <2>1, <4>1 DEF TypeOK
        <4>2. CASE op' = [op EXCEPT ![w] = op[w] + 1] /\ UNCHANGED <<pc, hop, latch>>
          BY <4>2 DEF TypeOK
        <4> QED BY <3>2, <4>1, <4>2 DEF lookup
      <3>3. CASE lookup_absent(w)
        BY <3>3 DEF TypeOK, lookup_absent
      <3>4. CASE walk(w)
        <4>1. CASE Pointer(w, hop[w] + 1) /\ UNCHANGED op
          BY <2>1, <3>1, <4>1 DEF TypeOK
        <4>2. CASE /\ latch' = [latch EXCEPT ![Key(w)] = NoOne]
                   /\ op' = [op EXCEPT ![w] = op[w] + 1]
                   /\ hop' = [hop EXCEPT ![w] = 0]
                   /\ Goto(w, "exec")
          <5>1. pc' \in [Workers -> Locations] /\ hop' \in [Workers -> Nat]
            BY <4>2, <1>p DEF TypeOK
          <5>2. op' \in [Workers -> Nat \ {0}]
            BY <4>2 DEF TypeOK
          <5>3. latch' \in [Keys -> Workers \cup {NoOne}]
            BY <4>2, ZenonT(60) DEF TypeOK
          <5> QED BY <5>1, <5>2, <5>3
        <4> QED BY <3>4, <4>1, <4>2 DEF walk
      <3> QED BY <1>11, <3>2, <3>3, <3>4
    <2>3. UNCHANGED <<gen, txn, cur, min_active, inside, epoch, owner, age, gc, rec, lock, exposed>>
      BY <1>11 DEF lookup, lookup_absent, walk
    <2> QED BY <2>2, <2>3 DEF TypeOK
  <1>12. ASSUME NEW w \in Workers, update(w) PROVE TypeOK'
    <2> DEFINE k == Key(w)
               new == [rec[k] EXCEPT !.t_min = txn[w].ts, !.chain = create_versions(w, rec[k])]
    <2>1. ASSUME k \in DOMAIN rec PROVE new \in Records
      <3>1. rec[k] \in Records /\ txn[w].ts \in Nat
        BY <2>1 DEF TypeOK, Transactions
      <3>2. create_versions(w, rec[k]) \in Seq(Versions)
        BY <3>1, NewChain, ZenonT(60)
      <3> QED BY <3>1, <3>2, ZenonT(60) DEF Records
    <2>2. rec' = [rec EXCEPT ![k] = new]
      BY <1>12 DEF update
    <2> HIDE DEF k, new
    <2>3. DOMAIN rec' = DOMAIN rec /\ rec' \in [DOMAIN rec -> Records]
      BY <2>1, <2>2, ZenonT(60) DEF TypeOK
    <2> QED BY <1>12, <2>3 DEF TypeOK, update
  <1>13. ASSUME NEW w \in Workers, insert(w) PROVE TypeOK'
    <2>o. txn[w].ops \in Seq(Operations) /\ op[w] \in 1..Len(txn[w].ops)
      BY <1>13 DEF insert, At, Ops, TypeOK, Transactions
    <2>p. txn[w].ops[op[w]] \in Operations
      BY <2>o, ElementOfSeq
    <2>1. Key(w) \in Keys
      BY <2>p DEF Key, Ops, Operations
    <2>2. [t_min |-> txn[w].ts, born |-> txn[w].ts, chain |-> <<>>] \in Records
      BY DEF TypeOK, Transactions, Records
    <2>3. DOMAIN rec' \subseteq Keys /\ rec' \in [DOMAIN rec' -> Records]
      BY <1>13, <2>1, <2>2 DEF TypeOK, insert
    <2> QED BY <1>13, <2>3 DEF TypeOK, insert
  <1>14. ASSUME NEW w \in Workers, endTxn(w) PROVE TypeOK'
    <2>1. [i \in 1..NumDeltas |-> i - 1] \in Seq(Deltas)
      BY ConstantsAssumption DEF Deltas
    <2>2. [NoGC EXCEPT !.stores = [i \in 1..NumDeltas |-> i - 1]] \in Collections
      BY <1>g, <2>1, ZenonT(60) DEF Collections, NoGC
    <2>3. gc' \in [Workers -> Collections] /\ pc' \in [Workers -> Locations]
      BY <1>14, <1>p, <2>2, ZenonT(60) DEF TypeOK, endTxn
    <2>4. /\ txn' \in [Workers -> Transactions] /\ op' \in [Workers -> Nat \ {0}]
          /\ exposed' \subseteq Workers
      BY <1>14, <1>n DEF TypeOK, endTxn
    <2>5. min_active' \in [Workers -> Nat]
      BY <1>14, ConstantsAssumption DEF TypeOK, endTxn, UINT64_MAX
    <2> QED BY <1>14, <2>3, <2>4, <2>5 DEF TypeOK, endTxn
  <1>15. ASSUME NEW w \in Workers, GcAcquire(w) PROVE TypeOK'
    <2>0. gc[w] \in Collections
      BY DEF TypeOK
    <2>1. [gc[w] EXCEPT !.todo = Workers] \in Collections
      BY <2>0 DEF Collections
    <2>2. gc' = [gc EXCEPT ![w] = [gc[w] EXCEPT !.todo = Workers]]
      BY <1>15 DEF GcAcquire
    <2>3. gc' \in [Workers -> Collections] /\ owner' \in [Deltas -> Workers \cup {NoOne}]
      BY <1>15, <2>1, <2>2, ZenonT(60) DEF TypeOK, GcAcquire
    <2> QED BY <1>15, <1>p, <2>3 DEF TypeOK, GcAcquire
  <1>16. ASSUME NEW w \in Workers, GcSkip(w) PROVE TypeOK'
    BY <1>16, NextStoreType DEF TypeOK, GcSkip
  <1>17. ASSUME NEW w \in Workers, NEW v \in Workers, GcScan(w, v) PROVE TypeOK'
    <2> DEFINE min == IF min_active[v] < gc[w].min THEN min_active[v] ELSE gc[w].min
               new == [gc[w] EXCEPT !.todo = gc[w].todo \ {v}, !.min = min]
    <2>1. gc[w] \in Collections /\ min_active[v] \in Nat
      BY DEF TypeOK
    <2>2. min \in Nat /\ gc[w].todo \ {v} \in SUBSET Workers
      BY <2>1 DEF Collections
    <2>3. gc' = [gc EXCEPT ![w] = new]
      BY <1>17, <2>1, ZenonT(60) DEF GcScan, TypeOK, Collections
    <2> HIDE DEF min
    <2>4. new \in Collections
      BY <2>1, <2>2, ZenonT(60) DEF Collections
    <2> HIDE DEF new
    <2>5. gc' \in [Workers -> Collections]
      BY <2>3, <2>4 DEF TypeOK
    <2>6. exposed' \subseteq Workers
      BY <1>17 DEF TypeOK, GcScan
    <2> QED BY <1>17, <2>5, <2>6 DEF TypeOK, GcScan
  <1>18. ASSUME NEW w \in Workers, GcFinish(w) PROVE TypeOK'
    <2>0. \/ age' = age
          \/ age' = [age EXCEPT ![Store(w)] = age[Store(w)] + 1]
      BY <1>18 DEF GcFinish
    <2>1. age' \in [Deltas -> Nat]
      BY <2>0 DEF TypeOK
    <2>2. owner' \in [Deltas -> Workers \cup {NoOne}]
      BY <1>18, ZenonT(60) DEF TypeOK, GcFinish
    <2>3. gc' \in [Workers -> Collections] /\ pc' \in [Workers -> Locations]
      BY <1>18, NextStoreType DEF GcFinish
    <2> QED BY <1>18, <2>1, <2>2, <2>3 DEF TypeOK, GcFinish
  <1>19. CASE UNCHANGED vars
    BY <1>19 DEF vars, TypeOK
  <1> QED
    BY <1>1, <1>2, <1>3, <1>4, <1>5, <1>6, <1>7, <1>8, <1>9, <1>10, <1>11, <1>12,
       <1>13, <1>14, <1>15, <1>16, <1>17, <1>18, <1>19 DEF Next, Step

-----------------------------------------------------------------------------
(* Whose state a step changes *)

\* The step of a worker leaves what belongs to the others alone.
Frame(w) ==
  \A v \in Workers \ {w} :
    /\ pc'[v] = pc[v] /\ txn'[v] = txn[v] /\ op'[v] = op[v] /\ hop'[v] = hop[v]
    /\ cur'[v] = cur[v] /\ min_active'[v] = min_active[v] /\ gc'[v] = gc[v]
    /\ \A d \in Deltas : epoch'[d][v] = epoch[d][v] /\ (v \in inside'[d] <=> v \in inside[d])

\* A step of a worker changes the transaction and the program counter of
\* no other worker.
LEMMA OwnState ==
  ASSUME TypeOK, Published, NEW w \in Workers,
         (\E p \in Programs : getTxn(w, p)) \/ Step(w)
  PROVE  Frame(w)
  <1> USE DEF Goto, txnVars, storeVars, recVars
  <1>l. ASSUME NEW d, NEW l, Leave(w, d, l)
        PROVE  /\ \A v \in Workers \ {w} : pc'[v] = pc[v] /\ gc'[v] = gc[v]
               /\ \A v \in Workers \ {w}, e \in Deltas : v \in inside'[e] <=> v \in inside[e]
    BY <1>l DEF Leave, TypeOK
  <1>p. ASSUME NEW i, Pointer(w, i)
        PROVE  \A v \in Workers \ {w} : pc'[v] = pc[v] /\ hop'[v] = hop[v]
    BY <1>p DEF Pointer, TypeOK
  <1>1. ASSUME NEW p \in Programs, getTxn(w, p) PROVE Frame(w)
    BY <1>1 DEF getTxn, TypeOK, Frame
  <1>2. CASE publish(w) \/ first_time(w)
    BY <1>2 DEF publish, first_time, TypeOK, Frame
  <1>3. CASE remove_active_txn(w) \/ switch_delta(w)
    BY <1>3, <1>l DEF remove_active_txn, switch_delta, TypeOK, Frame
  <1>4. CASE update_delta_epoch(w) \/ enter(w)
    <2>0. \E t : epoch' = [epoch EXCEPT ![cur[w]][w] = t]
      <3>1. CASE update_delta_epoch(w)
        BY <3>1, ZenonT(60) DEF update_delta_epoch
      <3>2. CASE enter(w)
        <4> DEFINE t == IF epoch[cur[w]][w] < txn[w].ts THEN txn[w].ts ELSE epoch[cur[w]][w]
        <4>1. epoch' = [epoch EXCEPT ![cur[w]][w] = t]
          BY <3>2 DEF enter
        <4> QED BY <4>1, ZenonT(60)
      <3> QED BY <1>4, <3>1, <3>2, ZenonT(60)
    <2>1. \A v \in Workers \ {w}, d \in Deltas : epoch'[d][v] = epoch[d][v]
      <3>1. PICK t : epoch' = [epoch EXCEPT ![cur[w]][w] = t]
        BY <2>0, ZenonT(60)
      <3> QED BY <3>1 DEF TypeOK
    <2>2. \A v \in Workers \ {w}, d \in Deltas : v \in inside'[d] <=> v \in inside[d]
      BY <1>4 DEF update_delta_epoch, enter, TypeOK
    <2> QED BY <1>4, <2>1, <2>2 DEF update_delta_epoch, enter, TypeOK, Frame
  <1>5. CASE try_lock(w) \/ release_locks(w) \/ all_locked(w)
    BY <1>5 DEF try_lock, release_locks, all_locked, TypeOK, Frame
  <1>6. CASE lookup(w) \/ lookup_absent(w) \/ walk(w)
    BY <1>6, <1>p DEF lookup, lookup_absent, walk, TypeOK, Frame
  <1>7. CASE update(w) \/ insert(w) \/ ops_done(w)
    BY <1>7 DEF update, insert, ops_done, TypeOK, Frame
  <1>8. CASE endTxn(w)
    BY <1>8 DEF endTxn, TypeOK, Frame
  <1>9. CASE GcAcquire(w) \/ (\E v \in Workers : GcScan(w, v))
    BY <1>9, ZenonT(60) DEF GcAcquire, GcScan, TypeOK, Frame
  <1>10. CASE GcSkip(w) \/ GcFinish(w)
    <2>1. \A v \in Workers \ {w} : pc'[v] = pc[v] /\ gc'[v] = gc[v]
      BY <1>10, NextStoreType DEF GcSkip, GcFinish
    <2> QED BY <1>10, <2>1, ZenonT(60) DEF GcSkip, GcFinish, Frame
  <1> QED
    BY <1>1, <1>2, <1>3, <1>4, <1>5, <1>6, <1>7, <1>8, <1>9, <1>10 DEF Step

\* Leaving a store: the worker goes on at l, after a collection if it was the
\* last one inside.
LEMMA LeaveOwn ==
  ASSUME TypeOK, NEW w \in Workers, NEW d \in Deltas, NEW l \in {"lock", "enter"}, Leave(w, d, l)
  PROVE  /\ pc'[w] \in {"gc", l}
         /\ pc'[w] = "gc" => gc'[w].stores # <<>> /\ gc'[w].then = l
         /\ inside' = [inside EXCEPT ![d] = inside[d] \ {w}]
  <1>1. CASE inside[d] = {w}
    <2> DEFINE s == <<d>>
               new == [NoGC EXCEPT !.stores = s, !.then = l]
    <2>1. s # <<>>
      OBVIOUS
    <2>2. gc' = [gc EXCEPT ![w] = new] /\ pc' = [pc EXCEPT ![w] = "gc"]
      BY <1>1 DEF Leave, Goto
    <2> HIDE DEF s
    <2>3. new.stores = s /\ new.then = l
      BY DEF NoGC
    <2> HIDE DEF new
    <2>4. gc'[w] = new /\ pc'[w] = "gc"
      BY <2>2 DEF TypeOK
    <2> QED BY <2>1, <2>3, <2>4 DEF Leave
  <1>2. CASE inside[d] # {w}
    BY <1>2 DEF Leave, Goto, TypeOK
  <1> QED BY <1>1, <1>2

\* A scan changes neither the stores of the collector nor where it goes on.
LEMMA ScanOwn ==
  ASSUME TypeOK, NEW w \in Workers, GcAcquire(w) \/ (\E v \in Workers : GcScan(w, v))
  PROVE  gc'[w].stores = gc[w].stores /\ gc'[w].then = gc[w].then
  <1>1. gc[w] \in Collections
    BY DEF TypeOK
  <1>2. CASE GcAcquire(w)
    <2>1. gc'[w] = [gc[w] EXCEPT !.todo = Workers]
      BY <1>2 DEF GcAcquire, TypeOK
    <2> QED BY <1>1, <2>1 DEF Collections
  <1>3. ASSUME NEW v \in Workers, GcScan(w, v)
        PROVE  gc'[w].stores = gc[w].stores /\ gc'[w].then = gc[w].then
    <2>1. PICK t, m : gc'[w] = [gc[w] EXCEPT !.todo = t, !.min = m]
      BY <1>1, <1>3, ZenonT(60) DEF GcScan, TypeOK, Collections
    <2> QED BY <1>1, <2>1 DEF Collections
  <1> QED BY <1>2, <1>3

\* What a worker has entered in the table of active transactions stays in
\* agreement with where it is.
LEMMA PublishedStep ==
  ASSUME TypeOK, TypeOK', Published, Registered, NEW w \in Workers,
         (\E p \in Programs : getTxn(w, p)) \/ Step(w)
  PROVE  Published'
  <1>f. Frame(w)
    BY OwnState
  <1>g. gen \in Nat /\ gen' \in Nat /\ gen <= gen'
    <2>1. gen \in Nat /\ gen' \in Nat
      BY ConstantsAssumption DEF TypeOK
    <2>2. gen' = gen \/ gen' = gen + 1
      BY ZenonT(60) DEF Step, getTxn, publish, remove_active_txn, first_time, switch_delta,
         update_delta_epoch, enter, try_lock, release_locks, all_locked, lookup, lookup_absent,
         walk, update, insert, ops_done, endTxn, GcAcquire, GcSkip, GcScan, GcFinish, txnVars
    <2> QED BY <2>1, <2>2
  <1>n. \A v \in Workers, d \in Deltas :
          txn[v].ts \in Nat /\ epoch[d][v] \in Nat /\ txn'[v].ts \in Nat /\ epoch'[d][v] \in Nat
    <2>1. \A v \in Workers : txn[v] \in Transactions /\ txn'[v] \in Transactions
      BY DEF TypeOK
    <2>2. \A t \in Transactions : t.ts \in Nat
      BY DEF Transactions
    <2>3. \A v \in Workers, d \in Deltas : epoch[d][v] \in Nat
      BY DEF TypeOK
    <2>4. \A v \in Workers, d \in Deltas : epoch'[d][v] \in Nat
      BY DEF TypeOK
    <2> QED BY <2>1, <2>2, <2>3, <2>4
  <1>o. \A v \in Workers \ {w} : PublishedBy(v)'
    <2> SUFFICES ASSUME NEW v \in Workers \ {w} PROVE PublishedBy(v)'
      OBVIOUS
    <2>1. PublishedBy(v)
      BY DEF Published
    <2>2. Location(v)' = Location(v)
      BY <1>f DEF Frame, Location
    <2>3. /\ pc'[v] = pc[v] /\ gc'[v] = gc[v] /\ txn'[v] = txn[v] /\ min_active'[v] = min_active[v]
          /\ \A d \in Deltas : epoch'[d][v] = epoch[d][v]
      BY <1>f DEF Frame
    <2>0. txn[v].ts < gen /\ \A d \in Deltas : epoch[d][v] < gen
      BY <2>1 DEF PublishedBy
    <2>4. txn[v].ts < gen' /\ \A d \in Deltas : epoch[d][v] < gen'
      <3>1. txn[v].ts < gen'
        BY <1>g, <1>n, <2>0, ConstantsAssumption DEF Deltas
      <3>2. ASSUME NEW d \in Deltas PROVE epoch[d][v] < gen'
        BY <1>g, <1>n, <2>0
      <3> QED BY <3>1, <3>2
    <2> QED BY <2>1, <2>2, <2>3, <2>4 DEF PublishedBy, UINT64_MAX
  <1>w. PublishedBy(w)
    BY DEF Published
  <1> SUFFICES PublishedBy(w)'
    BY <1>o DEF Published
  <1> USE DEF Goto, txnVars, storeVars, recVars
  <1>u. UINT64_MAX \in Nat /\ UINT64_MAX # 0 /\ UINT64_MAX' = UINT64_MAX
    BY ConstantsAssumption DEF UINT64_MAX
  \* The steps between registration and end, which keep transaction and epochs.
  <1>k. ASSUME txn'[w] = txn[w], min_active'[w] = min_active[w], gen' = gen,
               \A d \in Deltas : epoch'[d][w] = epoch[d][w],
               pc[w] # "publish", pc'[w] # "publish",
               Location(w)' # "idle" <=> Location(w) # "idle",
               pc'[w] \in {"gc", "scan"} => gc'[w].stores # <<>>
        PROVE  PublishedBy(w)'
    BY <1>k, <1>w DEF PublishedBy, UINT64_MAX
  <1>1. ASSUME NEW p \in Programs, getTxn(w, p) PROVE PublishedBy(w)'
    <2>1. pc[w] = "idle" /\ pc'[w] = "publish" /\ txn'[w].ts = gen /\ gen' = gen + 1
      BY <1>1 DEF getTxn, TypeOK
    <2>2. txn[w].ts = 0 /\ Location(w)' = "publish" /\ gen # 0
      BY <1>w, <2>1, ConstantsAssumption DEF PublishedBy, Location, TypeOK
    <2>3. min_active'[w] = min_active[w] /\ \A d \in Deltas : epoch'[d][w] = epoch[d][w]
      BY <1>1 DEF getTxn
    <2> QED BY <1>w, <1>g, <1>n, <2>1, <2>2, <2>3 DEF PublishedBy, UINT64_MAX
  <1>2. CASE publish(w)
    <2>1. /\ pc[w] = "publish" /\ pc'[w] = "register" /\ min_active'[w] = txn[w].ts
          /\ gen' = gen /\ txn' = txn /\ epoch' = epoch
      BY <1>2 DEF publish, TypeOK
    <2>2. txn[w].ts # 0 /\ Location(w)' = "register"
      BY <1>w, <2>1 DEF PublishedBy, Location
    <2> QED BY <1>w, <2>1, <2>2 DEF PublishedBy
  <1>3. CASE remove_active_txn(w) \/ switch_delta(w)
    <2>1. PICK l \in {"lock", "enter"} : Leave(w, cur[w], l)
      BY <1>3 DEF remove_active_txn, switch_delta
    <2>2. cur[w] \in Deltas
      BY <1>3 DEF remove_active_txn, switch_delta, TypeOK
    <2>3. pc'[w] \in {"gc", l} /\ (pc'[w] = "gc" => gc'[w].stores # <<>> /\ gc'[w].then = l)
      BY <2>1, <2>2, LeaveOwn
    <2>4. pc[w] = "register" /\ UNCHANGED <<gen, txn, min_active, epoch>>
      BY <1>3, ZenonT(60) DEF remove_active_txn, switch_delta
    <2>5. Location(w)' # "idle" /\ Location(w) # "idle"
      BY <2>3, <2>4 DEF Location
    <2> QED BY <1>k, <2>3, <2>4, <2>5
  <1>4. CASE first_time(w)
    BY <1>4, <1>k DEF first_time, Location, TypeOK
  <1>5. CASE update_delta_epoch(w) \/ enter(w)
    <2>1. /\ pc[w] \in {"register", "enter"} /\ pc'[w] = "lock"
          /\ UNCHANGED <<gen, txn, min_active>>
      BY <1>5 DEF update_delta_epoch, enter, TypeOK
    <2>2. Location(w)' = "lock" /\ Location(w) # "idle"
      BY <2>1 DEF Location
    <2>3. \A d \in Deltas : epoch'[d][w] \in {epoch[d][w], txn[w].ts}
      <3>1. CASE update_delta_epoch(w)
        BY <3>1 DEF update_delta_epoch, TypeOK
      <3>2. CASE enter(w)
        <4> DEFINE t == IF epoch[cur[w]][w] < txn[w].ts THEN txn[w].ts ELSE epoch[cur[w]][w]
        <4>1. epoch' = [epoch EXCEPT ![cur[w]][w] = t]
          BY <3>2 DEF enter
        <4>2. t \in {epoch[cur[w]][w], txn[w].ts}
          OBVIOUS
        <4> HIDE DEF t
        <4> QED BY <4>1, <4>2 DEF TypeOK
      <3> QED BY <1>5, <3>1, <3>2
    <2> QED BY <1>w, <1>n, <2>1, <2>2, <2>3 DEF PublishedBy, UINT64_MAX
  <1>6. CASE try_lock(w) \/ release_locks(w) \/ all_locked(w) \/ lookup_absent(w)
             \/ update(w) \/ insert(w) \/ ops_done(w)
    <2>1. /\ pc[w] \in {"lock", "exec"} /\ pc'[w] \in {"lock", "exec", "end"}
          /\ UNCHANGED <<gen, txn, min_active, epoch>>
      BY <1>6 DEF try_lock, release_locks, all_locked, lookup_absent, update, insert, ops_done, At, TypeOK
    <2> QED BY <1>k, <2>1 DEF Location
  <1>7. CASE lookup(w) \/ walk(w)
    <2>1. /\ pc[w] \in {"exec", "walk"} /\ pc'[w] \in {"exec", "walk", "crashed"}
          /\ UNCHANGED <<gen, txn, min_active, epoch>>
      BY <1>7, ZenonT(60) DEF lookup, walk, Pointer, At, TypeOK
    <2> QED BY <1>k, <2>1 DEF Location
  <1>8. CASE endTxn(w)
    <2> DEFINE s == [i \in 1..NumDeltas |-> i - 1]
               new == [NoGC EXCEPT !.stores = s]
    <2>1. s # <<>>
      <3>1. s \in Seq(Int) /\ Len(s) = NumDeltas
        BY ConstantsAssumption
      <3> QED BY <3>1, ConstantsAssumption
    <2>2. /\ txn'[w].ts = 0 /\ min_active'[w] = UINT64_MAX
          /\ \/ pc'[w] = "gc" /\ gc'[w] = new
             \/ pc'[w] = "idle"
      BY <1>8 DEF endTxn, TypeOK
    <2>3. gen' = gen /\ epoch' = epoch
      BY <1>8 DEF endTxn
    <2> HIDE DEF s
    <2>4. new.stores = s /\ new.then = "idle"
      BY DEF NoGC
    <2> HIDE DEF new
    <2>5. Location(w)' = "idle" /\ pc'[w] # "scan"
      BY <2>2, <2>4 DEF Location
    <2>6. gen # 0
      BY ConstantsAssumption DEF TypeOK
    <2> QED BY <1>w, <1>g, <2>1, <2>2, <2>3, <2>4, <2>5, <2>6 DEF PublishedBy, UINT64_MAX
  <1>9. CASE GcAcquire(w) \/ (\E v \in Workers : GcScan(w, v))
    <2>1. /\ pc[w] \in {"gc", "scan"} /\ pc'[w] = "scan" /\ UNCHANGED <<gen, txn, min_active, epoch>>
      BY <1>9, ZenonT(60) DEF GcAcquire, GcScan, TypeOK
    <2>2. gc'[w].stores = gc[w].stores /\ gc'[w].then = gc[w].then
      BY <1>9, ScanOwn
    <2> QED BY <1>k, <1>w, <2>1, <2>2 DEF Location, PublishedBy
  <1>10. CASE GcSkip(w) \/ GcFinish(w)
    <2>1. pc[w] \in {"gc", "scan"} /\ NextStore(w) /\ UNCHANGED <<gen, txn, min_active, epoch>>
      BY <1>10, ZenonT(60) DEF GcSkip, GcFinish
    <2>2. /\ pc'[w] = "gc" => gc'[w].stores # <<>>
          /\ pc'[w] \in {"gc", "idle", "lock", "enter"}
          /\ (IF pc'[w] = "gc" THEN gc'[w].then ELSE pc'[w]) = gc[w].then
      BY <2>1, NextStoreType
    <2> QED BY <1>k, <2>1, <2>2, ZenonT(60) DEF Location
  <1> QED
    BY <1>1, <1>2, <1>3, <1>4, <1>5, <1>6, <1>7, <1>8, <1>9, <1>10 DEF Step

\* A transaction stays registered in its store from enter to leave.
LEMMA RegisteredStep ==
  ASSUME TypeOK, TypeOK', Published, Registered, NEW w \in Workers,
         (\E p \in Programs : getTxn(w, p)) \/ Step(w)
  PROVE  Registered'
  <1>f. Frame(w)
    BY OwnState
  <1>o. \A v \in Workers \ {w} : RegisteredBy(v)'
    <2> SUFFICES ASSUME NEW v \in Workers \ {w} PROVE RegisteredBy(v)'
      OBVIOUS
    <2>1. RegisteredBy(v) /\ cur[v] \in Deltas \cup {-1}
      BY DEF Registered, TypeOK
    <2>2. Location(v)' = Location(v)
      BY <1>f DEF Frame, Location
    <2>3. /\ txn'[v] = txn[v] /\ cur'[v] = cur[v]
          /\ \A d \in Deltas : epoch'[d][v] = epoch[d][v] /\ (v \in inside'[d] <=> v \in inside[d])
      BY <1>f DEF Frame
    <2>4. get_delta_ver(txn[v].ts) \in Deltas
      BY DeltaOfTs DEF TypeOK, Transactions
    <2>5. get_delta_ver(txn[v].ts)' = get_delta_ver(txn[v].ts)
      BY <2>3 DEF get_delta_ver
    <2> QED BY <2>1, <2>2, <2>3, <2>4, <2>5 DEF RegisteredBy
  <1>w. RegisteredBy(w) /\ PublishedBy(w)
    BY DEF Registered, Published
  <1> SUFFICES RegisteredBy(w)'
    BY <1>o DEF Registered
  <1> USE DEF Goto, txnVars, storeVars, recVars
  <1>d. /\ get_delta_ver(txn[w].ts) \in Deltas /\ txn[w].ts \in Nat
        /\ txn'[w] = txn[w] => get_delta_ver(txn[w].ts)' = get_delta_ver(txn[w].ts)
    <2>1. txn[w].ts \in Nat
      BY DEF TypeOK, Transactions
    <2>2. txn'[w] = txn[w] => get_delta_ver(txn[w].ts)' = get_delta_ver(txn[w].ts)
      BY DEF get_delta_ver
    <2> QED BY <2>1, <2>2, DeltaOfTs
  <1>c. cur[w] \in Deltas \cup {-1} /\ -1 \notin Deltas
    BY DEF TypeOK, Deltas
  \* The steps that keep the worker registered as it is.
  <1>k. ASSUME UNCHANGED <<cur, epoch, inside>>, txn'[w] = txn[w],
               Location(w)' = "enter" <=> Location(w) = "enter",
               Location(w)' \in {"lock", "exec", "walk", "end"} =>
                 Location(w) \in {"lock", "exec", "walk", "end"}
        PROVE  RegisteredBy(w)'
    BY <1>k, <1>w, <1>d DEF RegisteredBy
  <1>1. ASSUME NEW p \in Programs, getTxn(w, p) PROVE RegisteredBy(w)'
    <2>1. /\ pc[w] = "idle" /\ pc'[w] = "publish" /\ UNCHANGED <<cur, epoch, inside>>
      BY <1>1 DEF getTxn, TypeOK
    <2>2. Location(w)' = "publish" /\ Location(w) = "idle"
      BY <2>1, ZenonT(60) DEF Location
    <2> QED BY <1>w, <2>1, <2>2 DEF RegisteredBy
  <1>2. CASE publish(w)
    <2>1. /\ pc[w] = "publish" /\ pc'[w] = "register" /\ UNCHANGED <<cur, epoch, inside, txn>>
      BY <1>2 DEF publish, TypeOK
    <2> QED BY <1>k, <2>1, ZenonT(60) DEF Location
  <1>3. ASSUME NEW l \in {"lock", "enter"}, Leave(w, cur[w], l), cur[w] \in Deltas,
               pc[w] = "register", txn' = txn,
               IF l = "lock" THEN txn[w].ro /\ cur'[w] = -1
                             ELSE cur'[w] = get_delta_ver(txn[w].ts)
        PROVE  RegisteredBy(w)'
    <2>1. /\ pc'[w] \in {"gc", l} /\ (pc'[w] = "gc" => gc'[w].then = l)
          /\ inside' = [inside EXCEPT ![cur[w]] = inside[cur[w]] \ {w}]
      BY <1>3, LeaveOwn
    <2>2. Location(w)' = l /\ Location(w) = "register"
      BY <1>3, <2>1 DEF Location
    <2>3. \A d \in Deltas : w \notin inside'[d]
      BY <1>w, <1>3, <2>1, <2>2 DEF RegisteredBy, TypeOK
    <2> QED BY <1>3, <1>d, <1>c, <2>2, <2>3 DEF RegisteredBy
  <1>4. CASE remove_active_txn(w)
    BY <1>3, <1>4, <1>c DEF remove_active_txn, TypeOK
  <1>5. CASE switch_delta(w)
    BY <1>3, <1>5, <1>c DEF switch_delta, TypeOK
  <1>6. CASE first_time(w)
    <2>1. /\ pc[w] = "register" /\ pc'[w] = "enter" /\ UNCHANGED <<inside, txn>>
          /\ cur[w] = -1 /\ cur'[w] = get_delta_ver(txn[w].ts)
      BY <1>6 DEF first_time, TypeOK
    <2>2. Location(w)' = "enter"
      BY <2>1 DEF Location
    <2> QED BY <1>w, <1>c, <1>d, <2>1, <2>2, ZenonT(60) DEF RegisteredBy
  <1>7. CASE update_delta_epoch(w)
    <2>1. /\ pc[w] = "register" /\ pc'[w] = "lock" /\ UNCHANGED <<inside, txn, cur>>
          /\ cur[w] = get_delta_ver(txn[w].ts)
          /\ epoch' = [epoch EXCEPT ![cur[w]][w] = txn[w].ts]
      BY <1>7 DEF update_delta_epoch, TypeOK
    <2>2. Location(w)' = "lock" /\ Location(w) = "register"
      BY <2>1 DEF Location
    <2>3. epoch'[cur[w]][w] = txn[w].ts
      BY <1>d, <2>1 DEF TypeOK
    <2> QED BY <1>w, <1>d, <2>1, <2>2, <2>3 DEF RegisteredBy
  <1>8. CASE enter(w)
    <2> DEFINE t == IF epoch[cur[w]][w] < txn[w].ts THEN txn[w].ts ELSE epoch[cur[w]][w]
    <2>1. /\ pc[w] = "enter" /\ pc'[w] = "lock" /\ UNCHANGED <<txn, cur>>
          /\ inside' = [inside EXCEPT ![cur[w]] = inside[cur[w]] \cup {w}]
          /\ epoch' = [epoch EXCEPT ![cur[w]][w] = t]
      BY <1>8 DEF enter, TypeOK
    <2>2. Location(w)' = "lock" /\ Location(w) = "enter"
      BY <2>1 DEF Location
    <2>3. cur[w] = get_delta_ver(txn[w].ts) /\ \A d \in Deltas : w \notin inside[d]
      BY <1>w, <2>2 DEF RegisteredBy
    <2>4. txn[w].ts <= t
      BY <2>3, <1>d DEF TypeOK
    <2> HIDE DEF t
    <2>5. epoch'[cur[w]][w] = t
      BY <1>d, <2>1, <2>3 DEF TypeOK
    <2>6. \A d \in Deltas : w \in inside'[d] <=> cur[w] = d
      BY <1>d, <2>1, <2>3 DEF TypeOK
    <2> QED BY <1>d, <2>1, <2>2, <2>3, <2>4, <2>5, <2>6 DEF RegisteredBy
  <1>9. CASE try_lock(w) \/ release_locks(w) \/ all_locked(w) \/ lookup_absent(w)
             \/ update(w) \/ insert(w) \/ ops_done(w)
    <2>1. /\ pc[w] \in {"lock", "exec"} /\ pc'[w] \in {"lock", "exec", "end"}
          /\ UNCHANGED <<cur, epoch, inside, txn>>
      BY <1>9 DEF try_lock, release_locks, all_locked, lookup_absent, update, insert, ops_done, At, TypeOK
    <2> QED BY <1>k, <2>1 DEF Location
  <1>10. CASE lookup(w) \/ walk(w)
    <2>1. /\ pc[w] \in {"exec", "walk"} /\ pc'[w] \in {"exec", "walk", "crashed"}
          /\ UNCHANGED <<cur, epoch, inside, txn>>
      BY <1>10 DEF lookup, walk, Pointer, At, TypeOK
    <2> QED BY <1>k, <2>1 DEF Location
  <1>11. CASE endTxn(w)
    <2>1. /\ pc[w] = "end" /\ txn'[w].ro = TRUE /\ UNCHANGED <<cur, epoch, inside>>
      BY <1>11 DEF endTxn, TypeOK
    <2> DEFINE new == [NoGC EXCEPT !.stores = [i \in 1..NumDeltas |-> i - 1]]
    <2>2. new.then = "idle"
      BY DEF NoGC
    <2>3. \/ pc'[w] = "gc" /\ gc'[w] = new
          \/ pc'[w] = "idle"
      BY <1>11 DEF endTxn, TypeOK
    <2> HIDE DEF new
    <2>4. Location(w)' = "idle" /\ Location(w) = "end"
      BY <2>1, <2>2, <2>3, ZenonT(60) DEF Location
    <2> QED BY <1>w, <2>1, <2>4 DEF RegisteredBy
  <1>12. CASE GcAcquire(w) \/ (\E v \in Workers : GcScan(w, v))
    <2>1. /\ pc[w] \in {"gc", "scan"} /\ pc'[w] = "scan" /\ UNCHANGED <<cur, epoch, inside, txn>>
      BY <1>12, ZenonT(60) DEF GcAcquire, GcScan, TypeOK
    <2>2. gc'[w].then = gc[w].then
      BY <1>12, ScanOwn
    <2> QED BY <1>k, <2>1, <2>2, ZenonT(60) DEF Location
  <1>13. CASE GcSkip(w) \/ GcFinish(w)
    <2>1. pc[w] \in {"gc", "scan"} /\ NextStore(w) /\ UNCHANGED <<cur, epoch, inside, txn>>
      BY <1>13 DEF GcSkip, GcFinish
    <2>2. /\ pc'[w] \in {"gc", "idle", "lock", "enter"}
          /\ (IF pc'[w] = "gc" THEN gc'[w].then ELSE pc'[w]) = gc[w].then
      BY <2>1, NextStoreType
    <2> QED BY <1>k, <2>1, <2>2 DEF Location
  <1> QED
    BY <1>1, <1>2, <1>4, <1>5, <1>6, <1>7, <1>8, <1>9, <1>10, <1>11, <1>12, <1>13 DEF Step

\* The steps outside of a collection leave the stores' owners alone.  Only
\* entering a store adds a worker to it.
LEMMA OutsideSteps ==
  ASSUME TypeOK, NEW w \in Workers,
         (\E p \in Programs : getTxn(w, p)) \/ Step(w), pc[w] \notin {"gc", "scan"}
  PROVE  /\ owner' = owner /\ age' = age /\ pc'[w] # "scan"
         /\ \/ \A d \in Deltas : inside'[d] \subseteq inside[d]
            \/ enter(w)
  <1> USE DEF Goto, txnVars, storeVars, recVars
  <1>1. ASSUME NEW p \in Programs, getTxn(w, p)
        PROVE  owner' = owner /\ age' = age /\ pc'[w] # "scan" /\ inside' = inside
    BY <1>1 DEF getTxn, TypeOK
  <1>2. ASSUME publish(w) \/ first_time(w) \/ update_delta_epoch(w)
        PROVE  owner' = owner /\ age' = age /\ pc'[w] # "scan" /\ inside' = inside
    BY <1>2 DEF publish, first_time, update_delta_epoch, TypeOK
  <1>3. ASSUME remove_active_txn(w) \/ switch_delta(w)
        PROVE  /\ owner' = owner /\ age' = age /\ pc'[w] # "scan"
               /\ \A d \in Deltas : inside'[d] \subseteq inside[d]
    <2>1. PICK l \in {"lock", "enter"} : Leave(w, cur[w], l)
      BY <1>3, ZenonT(60) DEF remove_active_txn, switch_delta
    <2>2. cur[w] \in Deltas
      BY <1>3 DEF remove_active_txn, switch_delta, TypeOK
    <2>3. pc'[w] # "scan" /\ inside' = [inside EXCEPT ![cur[w]] = inside[cur[w]] \ {w}]
      BY <2>1, <2>2, LeaveOwn
    <2>4. owner' = owner /\ age' = age
      BY <1>3, ZenonT(60) DEF remove_active_txn, switch_delta
    <2> QED BY <2>2, <2>3, <2>4 DEF TypeOK
  <1>4. ASSUME enter(w)
        PROVE  owner' = owner /\ age' = age /\ pc'[w] # "scan"
    BY <1>4 DEF enter, TypeOK
  <1>5. ASSUME try_lock(w) \/ release_locks(w) \/ all_locked(w) \/ lookup_absent(w)
               \/ update(w) \/ insert(w) \/ ops_done(w)
        PROVE  owner' = owner /\ age' = age /\ pc'[w] # "scan" /\ inside' = inside
    <2>1. UNCHANGED <<owner, age, inside>>
      BY <1>5 DEF try_lock, release_locks, all_locked, lookup_absent, update, insert, ops_done
    <2>2. pc'[w] # "scan"
      BY <1>5 DEF try_lock, release_locks, all_locked, lookup_absent, update, insert, ops_done, TypeOK
    <2> QED BY <2>1, <2>2
  <1>6. ASSUME lookup(w) \/ walk(w)
        PROVE  owner' = owner /\ age' = age /\ pc'[w] # "scan" /\ inside' = inside
    BY <1>6 DEF lookup, walk, Pointer, TypeOK
  <1>7. ASSUME endTxn(w)
        PROVE  owner' = owner /\ age' = age /\ pc'[w] # "scan" /\ inside' = inside
    BY <1>7 DEF endTxn, TypeOK
  <1>8. ~GcAcquire(w) /\ ~GcSkip(w) /\ (\A v \in Workers : ~GcScan(w, v)) /\ ~GcFinish(w)
    BY DEF GcAcquire, GcSkip, GcScan, GcFinish
  <1> QED
    BY <1>1, <1>2, <1>3, <1>4, <1>5, <1>6, <1>7, <1>8, ZenonT(60) DEF Step

\* A store that is being collected keeps its owner and stays empty of
\* workers.
LEMMA CollectingStep ==
  ASSUME TypeOK, TypeOK', Published, Registered, Collecting, NEW w \in Workers,
         (\E p \in Programs : getTxn(w, p)) \/ Step(w)
  PROVE  Collecting'
  <1> USE DEF Goto, txnVars, storeVars, recVars
  <1>f. \A v \in Workers \ {w} : pc'[v] = pc[v] /\ Store(v)' = Store(v)
    BY OwnState, ZenonT(60) DEF Frame, Store
  <1>t. /\ \A d \in Deltas : owner[d] # NoOne => owner[d] \in Workers
        /\ \A v \in Workers : pc[v] = "scan" => Store(v) \in Deltas
    <2>1. ASSUME NEW v \in Workers, pc[v] = "scan" PROVE Store(v) \in Deltas
      <3>1. gc[v] \in Collections /\ gc[v].stores # <<>>
        BY <2>1 DEF TypeOK, Published, PublishedBy
      <3> QED BY <3>1, StoresLeft, ZenonT(60) DEF Store, Collections
    <2> QED BY <2>1 DEF TypeOK
  <1>1. CASE pc[w] \notin {"gc", "scan"}
    <2>1. owner' = owner /\ pc'[w] # "scan"
      BY <1>1, OutsideSteps
    <2>2. ASSUME NEW d \in Deltas, owner[d] # NoOne
          PROVE  pc'[owner[d]] = "scan" /\ Head(gc'[owner[d]].stores) = d /\ inside'[d] = {}
      <3>1. owner[d] \in Workers /\ pc[owner[d]] = "scan" /\ Store(owner[d]) = d /\ inside[d] = {}
        BY <1>t, <2>2 DEF Collecting
      <3>2. owner[d] \in Workers \ {w}
        BY <1>1, <3>1
      <3>3. CASE inside'[d] \subseteq inside[d]
        BY <1>f, <3>1, <3>2, <3>3 DEF Store
      <3>4. CASE enter(w)
        <4>1. cur[w] # d /\ inside' = [inside EXCEPT ![cur[w]] = inside[cur[w]] \cup {w}]
          BY <2>2, <3>4 DEF enter
        <4>2. inside'[d] = inside[d]
          BY <4>1 DEF TypeOK
        <4> QED BY <1>f, <3>1, <3>2, <4>2 DEF Store
      <3> QED BY <1>1, <3>3, <3>4, OutsideSteps, ZenonT(60)
    <2>3. ASSUME NEW v \in Workers, pc'[v] = "scan" PROVE owner'[Store(v)'] = v
      BY <1>f, <2>1, <2>3 DEF Collecting
    <2>4. \A d \in Deltas : owner'[d] # NoOne =>
            pc'[owner'[d]] = "scan" /\ Head(gc'[owner'[d]].stores) = d /\ inside'[d] = {}
      BY <2>1, <2>2
    <2> QED BY <2>3, <2>4, ZenonT(60) DEF Collecting, Store
  <1>2. CASE GcAcquire(w)
    <2>1. /\ pc[w] = "gc" /\ pc'[w] = "scan" /\ inside' = inside /\ inside[Store(w)] = {}
          /\ owner[Store(w)] = NoOne /\ owner' = [owner EXCEPT ![Store(w)] = w]
      BY <1>2 DEF GcAcquire, TypeOK
    <2>2. Store(w)' = Store(w)
      BY <1>2, ScanOwn DEF Store
    <2>3. Store(w) \in Deltas
      BY <2>1, StoresLeft DEF TypeOK, Published, PublishedBy, Collections, Store
    <2>4. \A d \in Deltas : owner'[d] = IF d = Store(w) THEN w ELSE owner[d]
      BY <2>1, <2>3 DEF TypeOK
    <2>5. ASSUME NEW d \in Deltas, owner'[d] # NoOne
          PROVE  pc'[owner'[d]] = "scan" /\ Head(gc'[owner'[d]].stores) = d /\ inside'[d] = {}
      <3>1. CASE d = Store(w)
        BY <2>1, <2>2, <2>4, <3>1 DEF Store
      <3>2. CASE d # Store(w)
        <4>1. owner'[d] = owner[d] /\ owner[d] \in Workers
          BY <1>t, <2>4, <2>5, <3>2
        <4>2. pc[owner[d]] = "scan" /\ Store(owner[d]) = d /\ inside[d] = {}
          BY <2>5, <4>1 DEF Collecting
        <4>3. owner[d] \in Workers \ {w}
          BY <2>1, <4>1, <4>2
        <4> QED BY <1>f, <2>1, <4>1, <4>2, <4>3 DEF Store
      <3> QED BY <3>1, <3>2
    <2>6. ASSUME NEW v \in Workers, pc'[v] = "scan" PROVE owner'[Store(v)'] = v
      <3>1. CASE v = w
        BY <2>2, <2>3, <2>4, <3>1
      <3>2. CASE v # w
        <4>1. pc[v] = "scan" /\ Store(v)' = Store(v) /\ Store(v) \in Deltas /\ owner[Store(v)] = v
          BY <1>f, <1>t, <2>6, <3>2 DEF Collecting
        <4>2. Store(v) # Store(w)
          BY <2>1, <4>1, ConstantsAssumption
        <4> QED BY <2>4, <4>1, <4>2
      <3> QED BY <3>1, <3>2
    <2> QED BY <2>5, <2>6 DEF Collecting, Store
  <1>3. ASSUME NEW v \in Workers, GcScan(w, v) PROVE Collecting'
    <2>1. pc' = pc /\ owner' = owner /\ inside' = inside
      BY <1>3 DEF GcScan
    <2>2. \A u \in Workers : Store(u)' = Store(u)
      BY <1>3, <1>f, ScanOwn DEF Store
    <2> QED BY <1>t, <2>1, <2>2 DEF Collecting
  <1>4. CASE GcSkip(w)
    <2>1. pc[w] = "gc" /\ owner' = owner /\ inside' = inside /\ NextStore(w)
      BY <1>4 DEF GcSkip
    <2>2. pc'[w] # "scan"
      BY <2>1, NextStoreType
    <2>3. ASSUME NEW d \in Deltas, owner'[d] # NoOne
          PROVE  pc'[owner'[d]] = "scan" /\ Head(gc'[owner'[d]].stores) = d /\ inside'[d] = {}
      <3>1. owner[d] \in Workers /\ pc[owner[d]] = "scan" /\ Store(owner[d]) = d /\ inside[d] = {}
        BY <1>t, <2>1, <2>3 DEF Collecting
      <3>2. owner[d] \in Workers \ {w}
        BY <2>1, <3>1
      <3> QED BY <1>f, <2>1, <3>1, <3>2 DEF Store
    <2>4. ASSUME NEW v \in Workers, pc'[v] = "scan" PROVE owner'[Store(v)'] = v
      BY <1>f, <2>1, <2>2, <2>4 DEF Collecting
    <2> QED BY <2>3, <2>4 DEF Collecting, Store
  <1>5. CASE GcFinish(w)
    <2>1. /\ pc[w] = "scan" /\ inside' = inside /\ NextStore(w)
          /\ owner' = [owner EXCEPT ![Store(w)] = NoOne]
      BY <1>5 DEF GcFinish
    <2>2. pc'[w] # "scan"
      BY <2>1, NextStoreType
    <2>3. Store(w) \in Deltas /\ \A d \in Deltas : owner'[d] = IF d = Store(w) THEN NoOne ELSE owner[d]
      BY <1>t, <2>1 DEF TypeOK
    <2>4. ASSUME NEW d \in Deltas, owner'[d] # NoOne
          PROVE  pc'[owner'[d]] = "scan" /\ Head(gc'[owner'[d]].stores) = d /\ inside'[d] = {}
      <3>1. d # Store(w) /\ owner'[d] = owner[d]
        BY <2>3, <2>4
      <3>2. owner[d] \in Workers /\ pc[owner[d]] = "scan" /\ Store(owner[d]) = d /\ inside[d] = {}
        BY <1>t, <2>4, <3>1 DEF Collecting
      <3>3. owner[d] \in Workers \ {w}
        BY <3>1, <3>2
      <3> QED BY <1>f, <2>1, <3>1, <3>2, <3>3 DEF Store
    <2>5. ASSUME NEW v \in Workers, pc'[v] = "scan" PROVE owner'[Store(v)'] = v
      <3>1. v \in Workers \ {w} /\ pc[v] = "scan" /\ Store(v)' = Store(v) /\ owner[Store(v)] = v
        BY <1>f, <2>2, <2>5 DEF Collecting
      <3>2. Store(v) # Store(w)
        BY <2>1, <3>1 DEF Collecting
      <3> QED BY <1>t, <2>3, <3>1, <3>2
    <2> QED BY <2>4, <2>5 DEF Collecting, Store
  <1>6. CASE pc[w] \in {"gc", "scan"}
    <2>1. GcAcquire(w) \/ GcSkip(w) \/ (\E v \in Workers : GcScan(w, v)) \/ GcFinish(w)
      BY <1>6, ZenonT(60) DEF Step, getTxn, publish, remove_active_txn, first_time, switch_delta,
         update_delta_epoch, enter, try_lock, release_locks, all_locked, lookup, lookup_absent,
         walk, update, insert, ops_done, endTxn, At
    <2> QED BY <1>2, <1>3, <1>4, <1>5, <2>1
  <1> QED BY <1>1, <1>6

-----------------------------------------------------------------------------
(* What a scan knows *)

\* The epochs of a store under collection do not move: nobody is inside to
\* raise its own, and nobody can enter.
LEMMA EpochsFrozen ==
  ASSUME TypeOK, Published, Registered, Collecting, NEW w \in Workers,
         (\E p \in Programs : getTxn(w, p)) \/ Step(w),
         NEW d \in Deltas, owner[d] # NoOne
  PROVE  epoch'[d] = epoch[d]
  <1> USE DEF Goto, txnVars, storeVars, recVars
  <1>1. CASE enter(w)
    <2>1. cur[w] # d /\ \E t : epoch' = [epoch EXCEPT ![cur[w]] = t]
      BY <1>1, ZenonT(60) DEF enter
    <2> QED BY <2>1 DEF TypeOK
  <1>2. CASE update_delta_epoch(w)
    <2>1. pc[w] = "register" /\ \E t : epoch' = [epoch EXCEPT ![cur[w]] = t]
      BY <1>2, ZenonT(60) DEF update_delta_epoch
    <2>2. cur[w] = d => w \in inside[d]
      BY <2>1, ZenonT(60) DEF Registered, RegisteredBy, Location
    <2>3. cur[w] # d
      BY <2>2 DEF Collecting
    <2> QED BY <2>1, <2>3 DEF TypeOK
  <1>3. CASE ~enter(w) /\ ~update_delta_epoch(w)
    <2>1. epoch' = epoch
      BY <1>3, ZenonT(60) DEF Step, getTxn, publish, remove_active_txn, first_time, switch_delta,
         try_lock, release_locks, all_locked, lookup, lookup_absent,
         walk, update, insert, ops_done, endTxn, GcAcquire, GcSkip, GcScan, GcFinish
    <2> QED BY <2>1
  <1> QED BY <1>1, <1>2, <1>3

\* A transaction that no scan has passed over was so before the step, unless
\* the step is the draw of its start time.
LEMMA SeenStep ==
  ASSUME TypeOK, Published, NEW w \in Workers,
         (\E p \in Programs : getTxn(w, p)) \/ Step(w),
         NEW v \in Workers, Seen(v)'
  PROVE  \/ Seen(v) /\ txn'[v] = txn[v]
         \/ v = w /\ txn'[v].ts = gen /\ \E p \in Programs : getTxn(w, p)
  <1> USE DEF Goto, txnVars, storeVars, recVars
  <1>1. ASSUME NEW p \in Programs, getTxn(w, p)
        PROVE  \/ Seen(v) /\ txn'[v] = txn[v]
               \/ v = w /\ txn'[v].ts = gen
    <2>1. exposed' = exposed /\ txn' = [txn EXCEPT ![w] = [ts |-> gen, ro |-> p.ro, ops |-> p.ops]]
      BY <1>1 DEF getTxn
    <2> QED BY <2>1 DEF Seen, TypeOK
  <1>2. CASE endTxn(w)
    <2>1. /\ exposed' = exposed \ {w}
          /\ txn' = [txn EXCEPT ![w] = [ts |-> 0, ro |-> TRUE, ops |-> <<>>]]
      BY <1>2 DEF endTxn
    <2>2. v # w
      BY <2>1 DEF Seen, TypeOK
    <2> QED BY <2>1, <2>2 DEF Seen, TypeOK
  <1>3. CASE Step(w) /\ ~endTxn(w)
    <2>1. txn' = txn
      BY <1>3, ZenonT(60) DEF Step, publish, remove_active_txn, first_time, switch_delta,
         update_delta_epoch, enter, try_lock, release_locks, all_locked, lookup, lookup_absent,
         walk, update, insert, ops_done, GcAcquire, GcSkip, GcScan, GcFinish
    <2>2. exposed \subseteq exposed'
      BY <1>3, ZenonT(60) DEF Step, publish, remove_active_txn, first_time, switch_delta,
         update_delta_epoch, enter, try_lock, release_locks, all_locked, lookup, lookup_absent,
         walk, update, insert, ops_done, GcAcquire, GcSkip, GcScan, GcFinish
    <2> QED BY <2>1, <2>2 DEF Seen
  <1> QED BY <1>1, <1>2, <1>3

\* A scan that goes on to the next table keeps knowing what it has seen.
LEMMA ScansStep ==
  ASSUME TypeOK, TypeOK', Published, Registered, Collecting, ScansSound, NEW w \in Workers,
         (\E p \in Programs : getTxn(w, p)) \/ Step(w)
  PROVE  ScansSound'
  <1> USE DEF Goto, txnVars, storeVars, recVars
  <1> SUFFICES ASSUME NEW c \in Workers, NEW v \in Workers,
                      pc'[c] = "scan", v \notin gc'[c].todo, Seen(v)'
               PROVE  \/ gc'[c].min <= txn'[v].ts
                      \/ \A u \in Workers : epoch'[Store(c)'][u] < txn'[v].ts
    BY ZenonT(60) DEF ScansSound
  <1>1. CASE c # w
    <2>1. pc[c] = "scan" /\ gc'[c] = gc[c] /\ Store(c)' = Store(c)
      BY <1>1, OwnState DEF Frame, Store
    <2>2. Store(c) \in Deltas /\ owner[Store(c)] # NoOne
      <3>1. gc[c] \in Collections /\ gc[c].stores # <<>>
        BY <2>1, ZenonT(60) DEF TypeOK, Published, PublishedBy
      <3>2. Store(c) \in Deltas
        BY <3>1, StoresLeft, ZenonT(60) DEF Store, Collections
      <3> QED BY <2>1, <3>2, ConstantsAssumption DEF Collecting
    <2>3. epoch'[Store(c)] = epoch[Store(c)]
      BY <2>2, EpochsFrozen
    <2>4. CASE Seen(v) /\ txn'[v] = txn[v]
      BY <2>1, <2>3, <2>4, ZenonT(60) DEF ScansSound
    <2>5. CASE txn'[v].ts = gen
      BY <2>1, <2>2, <2>3, <2>5 DEF Published, PublishedBy
    <2> QED BY <2>4, <2>5, SeenStep
  <1>2. CASE c = w
    <2>1. PICK x \in Workers : GcScan(w, x)
      <3>1. ~GcAcquire(w)
        <4>1. GcAcquire(w) => gc'[w] = [gc[w] EXCEPT !.todo = Workers] /\ gc[w] \in Collections
          BY DEF GcAcquire, TypeOK
        <4>2. GcAcquire(w) => gc'[w].todo = Workers
          BY <4>1 DEF Collections
        <4> QED BY <1>2, <4>2
      <3>2. ~GcSkip(w) /\ ~GcFinish(w)
        <4>1. GcSkip(w) \/ GcFinish(w) => pc[w] \in {"gc", "scan"} /\ NextStore(w)
          BY ZenonT(60) DEF GcSkip, GcFinish
        <4> QED BY <1>2, <4>1, NextStoreType
      <3>3. pc[w] \in {"gc", "scan"}
        BY <1>2, OutsideSteps
      <3>4. GcAcquire(w) \/ GcSkip(w) \/ (\E y \in Workers : GcScan(w, y)) \/ GcFinish(w)
        BY <3>3, ZenonT(60) DEF Step, getTxn, publish, remove_active_txn, first_time, switch_delta,
           update_delta_epoch, enter, try_lock, release_locks, all_locked, lookup, lookup_absent,
           walk, update, insert, ops_done, endTxn, At
      <3> QED BY <3>1, <3>2, <3>4, ZenonT(60)
    <2> DEFINE m == IF min_active[x] < gc[w].min THEN min_active[x] ELSE gc[w].min
    <2>2. gc[w] \in Collections /\ min_active[x] \in Nat /\ gc[w].min \in Nat
      BY ZenonT(60) DEF TypeOK, Collections
    <2>3. gc'[w] = [gc[w] EXCEPT !.todo = gc[w].todo \ {x}, !.min = m]
      BY <2>1, <2>2 DEF GcScan, TypeOK, Collections
    <2>4. gc'[w].todo = gc[w].todo \ {x} /\ gc'[w].min = m
      BY <2>2, <2>3 DEF Collections
    <2>5. m <= gc[w].min /\ m <= min_active[x] /\ m \in Nat
      BY <2>2
    <2> HIDE DEF m
    <2>6. /\ pc' = pc /\ txn' = txn /\ epoch' = epoch /\ Store(w)' = Store(w)
          /\ exposed' = IF pc[x] = "publish" THEN exposed \cup {x} ELSE exposed
      BY <2>1, ScanOwn, ZenonT(60) DEF GcScan, Store
    <2>7. Seen(v) /\ (v = x => pc[x] # "publish") /\ txn[v].ts \in Nat
      <3>1. txn[v].ts \in Nat
        BY DEF TypeOK, Transactions
      <3>2. Seen(v) /\ (v = x => pc[x] # "publish")
        BY <2>6 DEF Seen
      <3> QED BY <3>1, <3>2
    <2>8. CASE v = x
      <3>1. min_active[x] = txn[v].ts
        BY <2>7, <2>8 DEF Published, PublishedBy, Seen
      <3> QED BY <1>2, <2>4, <2>5, <2>6, <3>1
    <2>9. CASE v # x
      <3>1. v \notin gc[w].todo /\ pc[w] = "scan"
        BY <1>2, <2>4, <2>6, <2>9
      <3>2. gc[w].min <= txn[v].ts \/ \A u \in Workers : epoch[Store(w)][u] < txn[v].ts
        BY <2>7, <3>1 DEF ScansSound
      <3>3. gc[w].min <= txn[v].ts => m <= txn[v].ts
        BY <2>2, <2>5, <2>7
      <3> QED BY <1>2, <2>4, <2>6, <3>2, <3>3
    <2> QED BY <2>8, <2>9
  <1> QED BY <1>1, <1>2
=============================================================================
