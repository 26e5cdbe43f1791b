---------------------- MODULE CircularDeltaStoreProofs ----------------------
(***************************************************************************)
(* Proofs about CircularDeltaStore for any finite set of workers, and about*)
(* the memory of its partitions for any set of threads.                    *)
(***************************************************************************)
EXTENDS CircularDeltaStore, FiniteSetTheorems, TLAPS

\* The time each prover has for a leaf.
USE SMTT(30), ZenonT(60)

\* Where a worker is tells whether its increment counts: a spinning or
\* retrying worker is not registered, one about to raise its epoch is, and
\* during a collection the forgotten increments belong to spinning workers.
Placement ==
  /\ \A t \in Workers : pc[t] \in {"spin", "retry"} => t \notin registered
  /\ \A t \in Workers : pc[t] = "raise" => t \in registered
  /\ Collectors # {} => \A t \in hits : pc[t] = "spin"

\* A registered worker past the raise has its start time in the store.
EpochOfTs ==
  /\ \A t \in Workers : epoch[t] <= ts[t]
  /\ \A t \in registered : pc[t] # "raise" => epoch[t] = ts[t]

\* The inductive invariant.
IInv ==
  /\ TypeOK
  /\ CollectionExclusive
  /\ ReadersCount
  /\ Placement
  /\ EpochOfTs
  /\ EpochCoversVersions

-----------------------------------------------------------------------------
\* Cardinalities of subsets of the finite set of workers: adding or removing
\* one member changes them by one, and only the empty set has none.
LEMMA WorkerSets ==
  ASSUME NEW S \in SUBSET Workers
  PROVE  /\ IsFiniteSet(S)
         /\ Cardinality(S) \in Nat
         /\ Cardinality(S) <= Cardinality(Workers)
         /\ Cardinality(S) = 0 <=> S = {}
         /\ \A t \in Workers \ S : Cardinality(S \cup {t}) = Cardinality(S) + 1
         /\ \A t \in S : Cardinality(S \ {t}) = Cardinality(S) - 1
  <1>1. IsFiniteSet(S) /\ Cardinality(S) <= Cardinality(Workers)
    BY FS_Subset, WorkersFinite
  <1>2. Cardinality(S) \in Nat
    BY <1>1, FS_CardinalityType
  <1>3. Cardinality(S) = 0 <=> S = {}
    BY <1>1, FS_EmptySet
  <1>4. \A t \in Workers \ S : Cardinality(S \cup {t}) = Cardinality(S) + 1
    BY <1>1, FS_AddElement
  <1>5. \A t \in S : Cardinality(S \ {t}) = Cardinality(S) - 1
    BY <1>1, FS_RemoveElement
  <1> QED BY <1>1, <1>2, <1>3, <1>4, <1>5

\* The sign of the counter tells whether the store is being collected, and a
\* counter of zero that nobody is registered.
LEMMA SignOfReaders ==
  ASSUME TypeOK, ReadersCount
  PROVE  /\ readers < 0 <=> Collectors # {}
         /\ readers = 0 => registered = {}
  <1>1. Cardinality(registered) \in Nat /\ (Cardinality(registered) = 0 <=> registered = {})
    BY WorkerSets DEF TypeOK
  <1>2. Cardinality(hits) \in Nat /\ Cardinality(hits) <= Cardinality(Workers)
    BY WorkerSets DEF TypeOK
  <1>3. Cardinality(Workers) \in Nat
    BY WorkersFinite, FS_CardinalityType
  <1>4. INT64_MIN + Cardinality(hits) < 0
    BY <1>2, <1>3, Int64MinAssumption
  <1> QED BY <1>1, <1>4, <1>2, Int64MinAssumption DEF ReadersCount

-----------------------------------------------------------------------------
\* A new store, with nobody registered, satisfies the invariant.
LEMMA InitIInv == Init => IInv
  <1> SUFFICES ASSUME Init PROVE IInv
    OBVIOUS
  <1>1. Collectors = {}
    BY DEF Init, Collectors, Collecting
  <1>2. TypeOK
    BY BoundsAssumption DEF Init, TypeOK, Ts, Locations
  <1>3. Cardinality({}) = 0
    BY FS_EmptySet
  <1> QED
    BY <1>1, <1>2, <1>3 DEF Init, IInv, CollectionExclusive, ReadersCount,
       Placement, EpochOfTs, EpochCoversVersions

\* Every step preserves the types.
LEMMA TypeStep == TypeOK /\ [Next]_vars => TypeOK'
  <1> SUFFICES ASSUME TypeOK, [Next]_vars PROVE TypeOK'
    OBVIOUS
  <1> USE BoundsAssumption, Int64MinAssumption DEF TypeOK, Ts, Locations, Goto
  <1>1. ASSUME NEW t \in Workers, NEW e \in Ts, increment_reader(t, e) PROVE TypeOK'
    BY <1>1 DEF increment_reader, FetchAdd
  <1>2. ASSUME NEW t \in Workers, NEW e \in Ts, update_active_epoch(t, e) PROVE TypeOK'
    BY <1>2 DEF update_active_epoch
  <1>3. ASSUME NEW t \in Workers, SpinExit(t) PROVE TypeOK'
    BY <1>3 DEF SpinExit
  <1>4. ASSUME NEW t \in Workers, Retry(t) PROVE TypeOK'
    BY <1>4 DEF Retry, FetchAdd
  <1>5. ASSUME NEW t \in Workers, RaiseEpoch(t) PROVE TypeOK'
    BY <1>5 DEF RaiseEpoch
  <1>6. ASSUME NEW t \in Workers, allocate(t) PROVE TypeOK'
    BY <1>6, Zenon DEF allocate
  <1>7. ASSUME NEW t \in Workers, decrement_reader(t) PROVE TypeOK'
    BY <1>7 DEF decrement_reader
  <1>8. ASSUME NEW t \in Workers, try_GC(t) \/ GcAcquire(t) \/ GcSkip(t) PROVE TypeOK'
    BY <1>8, Zenon DEF try_GC, GcAcquire, GcSkip
  <1>9. ASSUME NEW t \in Workers, NEW m \in 0..MaxTs + 1, get_min_activeTxn(t, m) PROVE TypeOK'
    BY <1>9 DEF get_min_activeTxn
  <1>10. ASSUME NEW t \in Workers, GcDecide(t) PROVE TypeOK'
    <2>1. (tag + 1) % TagMod \in 0..TagMod - 1
      OBVIOUS
    <2>2. /\ tag' \in 0..TagMod - 1
          /\ versions' \subseteq Ts
      BY <1>10, <2>1, Zenon DEF GcDecide
    <2> QED BY <1>10, <2>2 DEF GcDecide
  <1>11. ASSUME NEW t \in Workers, GcRelease(t) PROVE TypeOK'
    BY <1>11 DEF GcRelease
  <1>12. CASE UNCHANGED vars
    BY <1>12 DEF vars
  <1> QED
    BY <1>1, <1>2, <1>3, <1>4, <1>5, <1>6, <1>7, <1>8, <1>9, <1>10, <1>11,
       <1>12 DEF Next

\* Every step preserves the part of the invariant about the counter.
LEMMA CounterStep ==
  ASSUME TypeOK, CollectionExclusive, ReadersCount, Placement, [Next]_vars, TypeOK'
  PROVE  CollectionExclusive' /\ ReadersCount' /\ Placement'
  <1> DEFINE Goal == CollectionExclusive' /\ ReadersCount' /\ Placement'
  <1>s. /\ readers < 0 <=> Collectors # {}
        /\ readers = 0 => registered = {}
    BY SignOfReaders
  <1>c. /\ \A t \in Workers \ registered :
             Cardinality(registered \cup {t}) = Cardinality(registered) + 1
        /\ \A t \in registered :
             Cardinality(registered \ {t}) = Cardinality(registered) - 1
        /\ \A t \in Workers \ hits : Cardinality(hits \cup {t}) = Cardinality(hits) + 1
        /\ Cardinality(registered) \in Nat /\ Cardinality(hits) \in Nat
    BY WorkerSets DEF TypeOK
  <1>e. Cardinality({}) = 0
    BY FS_EmptySet
  <1> SUFFICES Goal
    OBVIOUS
  <1> USE DEF Goto
  <1>f. ASSUME NEW t \in Workers, FetchAdd(t), pc[t] \in {"idle", "retry"}, t \notin registered
        PROVE  Goal
    <2>1. CASE readers < 0
      <3>1. t \notin hits
        BY <1>s, <1>f, <2>1 DEF Placement
      <3>2. Collectors' = Collectors
        BY <1>f, <2>1 DEF FetchAdd, Collectors, Collecting, TypeOK
      <3>3. Cardinality(hits') = Cardinality(hits) + 1 /\ registered' = registered
        BY <1>f, <2>1, <3>1, <1>c DEF FetchAdd
      <3>4. ReadersCount'
        BY <1>f, <2>1, <1>s, <1>c, <3>2, <3>3, Int64MinAssumption DEF FetchAdd, ReadersCount
      <3>5. CollectionExclusive'
        BY <3>2, <3>3 DEF CollectionExclusive
      <3>6. Placement'
        BY <1>f, <2>1, <1>s, <3>2 DEF FetchAdd, Placement, TypeOK
      <3> QED BY <3>4, <3>5, <3>6
    <2>2. CASE ~(readers < 0)
      <3>1. Collectors = {}
        BY <1>s, <2>2
      <3>2. Collectors' = {}
        BY <1>f, <2>2, <3>1 DEF FetchAdd, Collectors, Collecting, TypeOK
      <3>3. Cardinality(registered') = Cardinality(registered) + 1
        BY <1>f, <2>2, <1>c DEF FetchAdd
      <3>4. ReadersCount'
        BY <1>f, <2>2, <1>c, <3>1, <3>2, <3>3 DEF FetchAdd, ReadersCount
      <3>5. CollectionExclusive'
        BY <3>2 DEF CollectionExclusive
      <3>6. Placement'
        BY <1>f, <2>2, <3>2 DEF FetchAdd, Placement, TypeOK
      <3> QED BY <3>4, <3>5, <3>6
    <2> QED BY <2>1, <2>2
  <1>1. ASSUME NEW t \in Workers, NEW e \in Ts, increment_reader(t, e) PROVE Goal
    BY <1>1, <1>f DEF increment_reader
  <1>2. ASSUME NEW t \in Workers, Retry(t) PROVE Goal
    BY <1>2, <1>f DEF Retry, Placement
  <1>3. ASSUME NEW t \in Workers, SpinExit(t) PROVE Goal
    <2>1. Collectors = {} /\ Collectors' = {}
      BY <1>3, <1>s DEF SpinExit, Collectors, Collecting, TypeOK
    <2> QED
      BY <1>3, <2>1 DEF SpinExit, CollectionExclusive, ReadersCount, Placement, TypeOK
  <1>4. ASSUME NEW t \in Workers, pc[t] \in {"idle", "raise", "gc"},
               pc' = pc \/ pc' = [pc EXCEPT ![t] = "idle"] \/ pc' = [pc EXCEPT ![t] = "gc"],
               UNCHANGED <<readers, registered, hits>>
        PROVE  Goal
    <2>1. Collectors' = Collectors
      BY <1>4 DEF Collectors, Collecting, TypeOK
    <2> QED BY <1>4, <2>1 DEF CollectionExclusive, ReadersCount, Placement, TypeOK
  <1>5. ASSUME NEW t \in Workers, decrement_reader(t) PROVE Goal
    <2>1. Collectors = {}
      BY <1>5 DEF decrement_reader, CollectionExclusive
    <2>2. Collectors' = {}
      BY <1>5, <2>1 DEF decrement_reader, Collectors, Collecting, TypeOK
    <2>3. Cardinality(registered') = Cardinality(registered) - 1
      BY <1>5, <1>c DEF decrement_reader
    <2> QED
      BY <1>5, <1>c, <2>1, <2>2, <2>3
      DEF decrement_reader, CollectionExclusive, ReadersCount, Placement, TypeOK
  <1>6. ASSUME NEW t \in Workers, GcAcquire(t) PROVE Goal
    <2>1. Collectors = {} /\ registered = {}
      BY <1>6, <1>s DEF GcAcquire
    <2>2. Collectors' = {t}
      BY <1>6, <2>1 DEF GcAcquire, Collectors, Collecting, TypeOK
    <2> QED
      BY <1>6, <1>e, <2>1, <2>2, Int64MinAssumption
      DEF GcAcquire, CollectionExclusive, ReadersCount, Placement, TypeOK
  <1>7. ASSUME NEW t \in Workers, pc[t] \in {"scan", "decide"},
               pc' = [pc EXCEPT ![t] = "decide"] \/ pc' = [pc EXCEPT ![t] = "unlock"],
               UNCHANGED <<readers, registered, hits>>
        PROVE  Goal
    <2>1. Collectors' = Collectors
      BY <1>7 DEF Collectors, Collecting, TypeOK
    <2> QED BY <1>7, <2>1 DEF CollectionExclusive, ReadersCount, Placement, TypeOK
  <1>8. ASSUME NEW t \in Workers, GcRelease(t) PROVE Goal
    <2>1. Collectors = {t} /\ registered = {}
      BY <1>8 DEF GcRelease, CollectionExclusive, Collectors, Collecting
    <2>2. Collectors' = {}
      BY <1>8, <2>1 DEF GcRelease, Collectors, Collecting, TypeOK
    <2> QED
      BY <1>8, <1>e, <2>1, <2>2
      DEF GcRelease, CollectionExclusive, ReadersCount, Placement, TypeOK
  <1>9. CASE UNCHANGED vars
    BY <1>9 DEF vars, CollectionExclusive, ReadersCount, Placement, Collectors
  <1>10. ASSUME NEW t \in Workers, NEW e \in Ts, update_active_epoch(t, e) PROVE Goal
    BY <1>10, <1>4 DEF update_active_epoch
  <1>11. ASSUME NEW t \in Workers, RaiseEpoch(t) \/ allocate(t) \/ try_GC(t) \/ GcSkip(t)
         PROVE  Goal
    BY <1>11, <1>4 DEF RaiseEpoch, allocate, try_GC, GcSkip
  <1>12. ASSUME NEW t \in Workers, NEW m \in 0..MaxTs + 1, get_min_activeTxn(t, m) PROVE Goal
    BY <1>12, <1>7, Zenon DEF get_min_activeTxn
  <1>13. ASSUME NEW t \in Workers, GcDecide(t) PROVE Goal
    BY <1>13, <1>7, Zenon DEF GcDecide
  <1> QED
    BY <1>1, <1>2, <1>3, <1>5, <1>6, <1>8, <1>9, <1>10, <1>11, <1>12, <1>13 DEF Next

\* Every step preserves the part of the invariant about epochs and versions:
\* epochs only grow, and a version is written under the epoch of its writer.
LEMMA EpochStep ==
  ASSUME TypeOK, Placement, EpochOfTs, EpochCoversVersions, [Next]_vars, TypeOK'
  PROVE  EpochOfTs' /\ EpochCoversVersions'
  <1> DEFINE Goal == EpochOfTs' /\ EpochCoversVersions'
  <1> SUFFICES Goal
    OBVIOUS
  <1> USE DEF TypeOK, Ts, Goto
  <1>1. ASSUME NEW t \in Workers, NEW e \in Ts, increment_reader(t, e) PROVE Goal
    BY <1>1 DEF increment_reader, FetchAdd, EpochOfTs, EpochCoversVersions
  <1>2. ASSUME NEW t \in Workers, Retry(t) PROVE Goal
    BY <1>2 DEF Retry, FetchAdd, EpochOfTs, EpochCoversVersions
  <1>3. ASSUME NEW t \in Workers, NEW e \in Ts, update_active_epoch(t, e) PROVE Goal
    <2>1. /\ epoch[t] <= e
          /\ epoch' = [epoch EXCEPT ![t] = e]
          /\ UNCHANGED <<versions, pc, registered>>
          /\ ts' = [ts EXCEPT ![t] = e]
      BY <1>3 DEF update_active_epoch, EpochOfTs
    <2>2. \A u \in Workers : epoch[u] <= epoch'[u]
      BY <2>1
    <2>3. EpochCoversVersions'
      BY <2>1, <2>2 DEF EpochCoversVersions
    <2>4. EpochOfTs'
      BY <2>1 DEF EpochOfTs
    <2> QED BY <2>3, <2>4
  <1>4. ASSUME NEW t \in Workers, RaiseEpoch(t) PROVE Goal
    <2>0. epoch[t] <= ts[t] /\ (~(epoch[t] < ts[t]) => epoch[t] = ts[t])
      BY DEF EpochOfTs
    <2>1. /\ epoch' = [epoch EXCEPT ![t] = ts[t]]
          /\ epoch[t] <= ts[t]
          /\ UNCHANGED <<versions, ts, registered>>
          /\ pc' = [pc EXCEPT ![t] = "idle"]
      BY <1>4, <2>0, Zenon DEF RaiseEpoch
    <2>2. \A u \in Workers : epoch[u] <= epoch'[u]
      BY <2>1
    <2>3. EpochCoversVersions'
      BY <2>1, <2>2 DEF EpochCoversVersions
    <2>4. EpochOfTs'
      BY <2>1 DEF EpochOfTs
    <2> QED BY <2>3, <2>4
  <1>5. ASSUME NEW t \in Workers, allocate(t) PROVE Goal
    <2>1. ts[t] = epoch[t]
      BY <1>5 DEF allocate, EpochOfTs
    <2> QED BY <1>5, <2>1 DEF allocate, EpochOfTs, EpochCoversVersions
  <1>6. ASSUME NEW t \in Workers,
               SpinExit(t) \/ decrement_reader(t) \/ try_GC(t) \/ GcAcquire(t) \/ GcSkip(t)
        PROVE  Goal
    BY <1>6 DEF SpinExit, decrement_reader, try_GC, GcAcquire, GcSkip, EpochOfTs,
                EpochCoversVersions
  <1>7. ASSUME NEW t \in Workers, NEW m \in 0..MaxTs + 1, get_min_activeTxn(t, m) PROVE Goal
    BY <1>7 DEF get_min_activeTxn, EpochOfTs, EpochCoversVersions
  <1>8. ASSUME NEW t \in Workers, GcDecide(t) \/ GcRelease(t) PROVE Goal
    BY <1>8 DEF GcDecide, GcRelease, EpochOfTs, EpochCoversVersions
  <1>9. CASE UNCHANGED vars
    BY <1>9 DEF vars, EpochOfTs, EpochCoversVersions
  <1> QED
    BY <1>1, <1>2, <1>3, <1>4, <1>5, <1>6, <1>7, <1>8, <1>9 DEF Next

\* Every access of the counter by a worker or a collector preserves the
\* invariant.
LEMMA StepIInv == IInv /\ [Next]_vars => IInv'
  BY TypeStep, CounterStep, EpochStep DEF IInv

\* The invariant holds in every reachable state of the store.
THEOREM Invariance == Spec => []IInv
  BY InitIInv, StepIInv, PTL DEF Spec

\* Whatever the workers do, each is at a location of the protocol, its epoch
\* and its start time are times handed out, and the tag stays in its range
\* (delta_storage.hpp:118-143, delta_storage.cpp:306-346).
THEOREM TypeCorrect == Spec => []TypeOK
  <1>1. IInv => TypeOK
    BY DEF IInv
  <1> QED BY <1>1, Invariance, PTL

-----------------------------------------------------------------------------
\* For any number of workers, a collection between the exchange of GC() and
\* its store of zero excludes registered workers and other collections.
THEOREM StoreExclusive == Spec => []CollectionExclusive
  <1>1. IInv => CollectionExclusive
    BY DEF IInv
  <1> QED BY <1>1, Invariance, PTL

\* For any number of workers, increments that meet a collection are forgotten
\* exactly once: the counter always counts the registered workers.
THEOREM CounterExact == Spec => []ReadersCount
  <1>1. IInv => ReadersCount
    BY DEF IInv
  <1> QED BY <1>1, Invariance, PTL

\* The epochs a collection compares with are never behind the versions.
THEOREM EpochsCover == Spec => []EpochCoversVersions
  <1>1. IInv => EpochCoversVersions
    BY DEF IInv
  <1> QED BY <1>1, Invariance, PTL

\* impl_gc_simple resets the store only when every version in it was written
\* before the oldest transaction it saw, and nobody is registered.
THEOREM ResetSafe == Spec => ResetOnlyUnneeded
  <1> DEFINE Lost == versions \ versions' # {}
             Unneeded == registered = {} /\ \A v \in versions : v < gcMin
  <1>1. IInv /\ [Next]_vars => [Lost => Unneeded]_vars
    <2> SUFFICES ASSUME IInv, Next, Lost PROVE Unneeded
      BY DEF vars
    <2> USE DEF Goto
    <2>1. PICK t \in Workers : GcDecide(t) /\ AboveMaxActiveEpoch(gcMin)
      BY DEF Next, increment_reader, update_active_epoch, SpinExit, Retry,
             RaiseEpoch, allocate, decrement_reader, try_GC, GcAcquire, GcSkip,
             get_min_activeTxn, GcDecide, GcRelease
    <2>2. registered = {}
      BY <2>1 DEF GcDecide, IInv, CollectionExclusive, Collectors, Collecting
    <2>3. \A v \in versions : v < gcMin
      BY <2>1 DEF AboveMaxActiveEpoch, IInv, EpochCoversVersions, TypeOK, Ts
    <2> QED BY <2>2, <2>3
  <1> QED BY <1>1, Invariance, PTL DEF Spec, ResetOnlyUnneeded

-----------------------------------------------------------------------------
\* Every step of the store is a step of the abstract store or changes nothing
\* its callers can see.
LEMMA StepImplements == IInv /\ [Next]_vars => [Abstract!Next]_(Abstract!vars)
  <1> DEFINE Same == UNCHANGED <<registered, Collectors, versions>>
             Goal == Abstract!Next \/ Same
  <1> SUFFICES ASSUME IInv, [Next]_vars PROVE Goal
    BY DEF Abstract!vars
  <1> USE DEF Goto
  <1>s. /\ readers < 0 <=> Collectors # {}
        /\ readers = 0 => registered = {}
    BY SignOfReaders DEF IInv
  <1>t. TypeOK
    BY DEF IInv
  <1>f. ASSUME NEW t \in Workers, FetchAdd(t), t \notin registered,
               pc[t] \in {"idle", "retry"}, UNCHANGED versions
        PROVE  Goal
    <2>1. Collectors' = Collectors
      BY <1>f, <1>t DEF FetchAdd, Collectors, Collecting, TypeOK
    <2>2. CASE readers < 0
      BY <1>f, <2>1, <2>2 DEF FetchAdd
    <2>3. CASE ~(readers < 0)
      <3>1. Abstract!Enter(t)
        BY <1>f, <1>s, <2>1, <2>3 DEF FetchAdd, Abstract!Enter
      <3> QED BY <3>1 DEF Abstract!Next
    <2> QED BY <2>2, <2>3
  <1>1. ASSUME NEW t \in Workers, NEW e \in Ts, increment_reader(t, e) PROVE Goal
    BY <1>1, <1>f DEF increment_reader
  <1>2. ASSUME NEW t \in Workers, Retry(t) PROVE Goal
    BY <1>2, <1>f DEF Retry, IInv, Placement
  <1>3. ASSUME NEW t \in Workers,
               SpinExit(t) \/ RaiseEpoch(t) \/ try_GC(t) \/ GcSkip(t)
        PROVE  Goal
    <2>1. Collectors' = Collectors
      BY <1>3, <1>t DEF SpinExit, RaiseEpoch, try_GC, GcSkip, Collectors, Collecting, TypeOK
    <2> QED BY <1>3, <2>1 DEF SpinExit, RaiseEpoch, try_GC, GcSkip
  <1>4. ASSUME NEW t \in Workers, NEW e \in Ts, update_active_epoch(t, e) PROVE Goal
    BY <1>4 DEF update_active_epoch, Collectors
  <1>5. ASSUME NEW t \in Workers, allocate(t) PROVE Goal
    <2>1. ts[t] \in Ts
      BY <1>t DEF TypeOK
    <2>2. Abstract!Store(t)
      BY <1>5, <2>1 DEF allocate, Abstract!Store, Collectors
    <2> QED BY <2>2 DEF Abstract!Next
  <1>6. ASSUME NEW t \in Workers, decrement_reader(t) PROVE Goal
    <2>1. Collectors' = Collectors
      BY <1>6, <1>t DEF decrement_reader, Collectors, Collecting, TypeOK
    <2>2. Abstract!Leave(t)
      BY <1>6, <2>1 DEF decrement_reader, Abstract!Leave
    <2> QED BY <2>2 DEF Abstract!Next
  <1>7. ASSUME NEW t \in Workers, GcAcquire(t) PROVE Goal
    <2>1. Collectors = {} /\ registered = {}
      BY <1>7, <1>s DEF GcAcquire
    <2>2. Collectors' = {t}
      BY <1>7, <1>t, <2>1 DEF GcAcquire, Collectors, Collecting, TypeOK
    <2>3. Abstract!StartReclaim(t)
      BY <1>7, <2>1, <2>2 DEF GcAcquire, Abstract!StartReclaim
    <2> QED BY <2>3 DEF Abstract!Next
  <1>8. ASSUME NEW t \in Workers, NEW m \in 0..MaxTs + 1, get_min_activeTxn(t, m) PROVE Goal
    BY <1>8, <1>t DEF get_min_activeTxn, Collectors, Collecting, TypeOK
  <1>9. ASSUME NEW t \in Workers, GcDecide(t) PROVE Goal
    <2>1. Collectors' = Collectors /\ t \in Collectors
      BY <1>9, <1>t DEF GcDecide, Collectors, Collecting, TypeOK
    <2>2. Abstract!Discard(t) \/ Same
      BY <1>9, <2>1 DEF GcDecide, Abstract!Discard
    <2> QED BY <2>2 DEF Abstract!Next
  <1>10. ASSUME NEW t \in Workers, GcRelease(t) PROVE Goal
    <2>1. Collectors = {t}
      BY <1>10 DEF GcRelease, IInv, CollectionExclusive, Collectors, Collecting
    <2>2. Collectors' = {}
      BY <1>10, <1>t, <2>1 DEF GcRelease, Collectors, Collecting, TypeOK
    <2>3. Abstract!EndReclaim(t)
      BY <1>10, <2>1, <2>2 DEF GcRelease, Abstract!EndReclaim
    <2> QED BY <2>3 DEF Abstract!Next
  <1>11. CASE UNCHANGED vars
    BY <1>11 DEF vars, Collectors
  <1> QED
    BY <1>1, <1>2, <1>3, <1>4, <1>5, <1>6, <1>7, <1>8, <1>9, <1>10, <1>11 DEF Next

\* The counter protocol implements the store in which a thread simply waits
\* for the reclamation to end, for any number of workers.
THEOREM StoreRefinement == Spec => ImplementsStore
  <1>1. Init => Abstract!Init
    BY DEF Init, Abstract!Init, Collectors, Collecting
  <1> QED
    BY <1>1, StepImplements, Invariance, PTL DEF Spec, ImplementsStore, Abstract!Spec
-----------------------------------------------------------------------------
(* The memory of a partition of the store *)

CONSTANTS Threads, Sizes, InitSize, slack_size, Capacity, MaxDebt

VARIABLES ver_data_cursor, touched, ptr, remaining_slack, step, want, inside, ready, resetting, chunks,
          failed, oversized, raced

P == INSTANCE DeltaPartition WITH pc <- step

\* A slab that begins inside a memory of whole slabs ends inside of it: the assertion
\* in getVersionDataChunk_ThreadLocal2 is enough.
LEMMA SlabFits ==
  ASSUME NEW s \in Nat \ {0}, NEW j \in Nat, NEW k \in Nat, j * s < k * s
  PROVE  j * s + s <= k * s /\ j * s + s = (j + 1) * s
  <1>1. CASE k <= j
    <2>1. PICK d \in Nat : j = k + d BY <1>1
    <2>2. j * s = k * s + d * s BY <2>1
    <2>3. d * s \in Nat /\ k * s \in Nat /\ j * s \in Nat OBVIOUS
    <2> QED BY <2>2, <2>3
  <1>2. CASE j < k
    <2>1. PICK d \in Nat : k = j + 1 + d BY <1>2
    <2>2. k * s = j * s + s + d * s BY <2>1
    <2>3. d * s \in Nat /\ k * s \in Nat /\ j * s \in Nat OBVIOUS
    <2> QED BY <2>2, <2>3
  <1> QED BY <1>1, <1>2

\* The invariant holds when the partition is created.
LEMMA InitInv ==
  ASSUME P!ConstantsOK, P!Init
  PROVE  P!Inv
  <1>1. P!Types
    <2>1. 0 = 0 * slack_size BY DEF P!ConstantsOK
    <2> QED BY <2>1 DEF P!ConstantsOK, P!Init, P!Types, P!Locations
  <1>2. P!Exclusive /\ P!Sized /\ P!Tiled /\ P!ChunksDisjoint /\ P!ChunksInMemory
    BY DEF P!ConstantsOK, P!Init, P!Exclusive, P!Sized, P!Tiled, P!ChunksDisjoint, P!ChunksInMemory, P!Setting
  <1>3. ver_data_cursor <= Capacity
    <2>1. PICK k \in Nat : Capacity = k * slack_size BY Zenon DEF P!ConstantsOK
    <2>2. k * slack_size >= 0 BY DEF P!ConstantsOK
    <2> QED BY <2>1, <2>2 DEF P!Init
  <1> QED BY <1>1, <1>2, <1>3 DEF P!Inv, P!Safe

\* Every step keeps the types.
LEMMA TypesNext ==
  ASSUME P!ConstantsOK, P!Types, [P!Next]_(P!vars)
  PROVE  P!Types'
  <1> USE DEF P!Types, P!shared
  <1>1. ASSUME NEW t \in Threads, P!initSlackCache(t) PROVE P!Types'
    BY <1>1 DEF P!initSlackCache, P!Locations
  <1>2. ASSUME NEW t \in Threads, P!inserted(t) PROVE P!Types'
    BY <1>2 DEF P!inserted, P!Locations
  <1>3. ASSUME NEW t \in Threads, NEW sz \in Sizes, P!allocate(t, sz) PROVE P!Types'
    BY <1>3 DEF P!allocate, P!Locations, P!ConstantsOK
  <1>4. ASSUME NEW t \in Threads, P!lookupLost(t) PROVE P!Types'
    BY <1>4 DEF P!lookupLost
  <1>5. ASSUME NEW t \in Threads, P!reserve(t) PROVE P!Types'
    <2>1. PICK k \in Nat : ver_data_cursor = k * slack_size OBVIOUS
    <2>2. ver_data_cursor' = (k + 1) * slack_size /\ k + 1 \in Nat
      BY <1>5, <2>1 DEF P!reserve, P!ConstantsOK
    <2>3. ver_data_cursor \in Int /\ slack_size \in Int BY <2>1 DEF P!ConstantsOK
    <2> QED BY <1>5, <2>2, <2>3 DEF P!reserve, P!Locations
  <1>6. ASSUME NEW t \in Threads, P!enough(t) PROVE P!Types'
    BY <1>6 DEF P!enough, P!Locations
  <1>7. ASSUME NEW t \in Threads, P!carve(t) PROVE P!Types'
    <2>1. [by |-> t, at |-> ptr[t], size |-> want[t]] \in [by : Threads, at : Int, size : Nat]
      OBVIOUS
    <2>2. chunks' \subseteq [by : Threads, at : Int, size : Nat] BY <1>7, <2>1 DEF P!carve
    <2> QED BY <1>7, <2>2 DEF P!carve, P!Locations
  <1>8. ASSUME NEW t \in Threads, P!increment_reader(t) \/ P!decrement_reader(t) PROVE P!Types'
    BY <1>8 DEF P!increment_reader, P!decrement_reader
  <1>9. CASE P!reset
    <2>1. 0 = 0 * slack_size BY DEF P!ConstantsOK
    <2> QED BY <1>9, <2>1 DEF P!reset
  <1>10. CASE P!resetSlacks
    BY <1>10 DEF P!resetSlacks
  <1>11. CASE UNCHANGED P!vars
    BY <1>11 DEF P!vars
  <1> QED BY <1>1, <1>2, <1>3, <1>4, <1>5, <1>6, <1>7, <1>8, <1>9, <1>10, <1>11 DEF P!Next

\* A step that neither moves memory nor the cursor keeps what is said of them.
LEMMA MemoryUnchanged ==
  ASSUME P!Safe, ver_data_cursor' = ver_data_cursor, ptr' = ptr, remaining_slack' = remaining_slack,
         chunks' = chunks, resetting' = resetting, failed => failed'
  PROVE  /\ (~resetting => P!Tiled)' /\ (~failed => ver_data_cursor <= Capacity)'
         /\ P!ChunksDisjoint' /\ P!ChunksInMemory'
  BY DEF P!Safe, P!Tiled, P!Below, P!ChunksDisjoint, P!ChunksInMemory

\* Taking a slab: it lies above every other slab and every version.
LEMMA ReserveSafe ==
  ASSUME P!ConstantsOK, P!Types, P!Safe, NEW t \in Threads, P!reserve(t)
  PROVE  P!Safe'
  <1> USE DEF P!Types, P!Safe, P!reserve
  <1>0. /\ ver_data_cursor \in Int /\ slack_size \in Nat \ {0}
        /\ \A c \in chunks : c.at \in Int /\ c.size \in Nat
    BY DEF P!ConstantsOK
  <1>1. ~resetting /\ ~resetting'
    BY DEF P!Exclusive, P!Setting
  <1>2. P!Exclusive'
    BY <1>1 DEF P!Exclusive, P!Setting, P!Locations
  <1>3. P!Sized'
    BY <1>0 DEF P!Sized, P!Locations
  <1>4. P!Tiled'
    <2>1. P!Tiled BY <1>1
    <2>2. ver_data_cursor >= 0
      <3>1. PICK k \in Nat : ver_data_cursor = k * slack_size OBVIOUS
      <3> QED BY <3>1 DEF P!ConstantsOK
    <2>3. \A u \in Threads : remaining_slack'[u] > 0 => (P!Below(ptr[u], remaining_slack[u]))'
      BY <1>0, <2>1, <2>2 DEF P!Tiled, P!Below
    <2>4. \A u \in Threads : u # t => ptr'[u] = ptr[u] /\ remaining_slack'[u] = remaining_slack[u]
      OBVIOUS
    <2>5. ptr'[t] = ver_data_cursor /\ remaining_slack'[t] = slack_size
      OBVIOUS
    <2>6. \A u \in Threads : u # t /\ remaining_slack[u] > 0 => ptr[u] + remaining_slack[u] <= ptr'[t]
      BY <2>1, <2>5 DEF P!Tiled, P!Below
    <2>7. \A u, v \in Threads : u # v /\ remaining_slack'[u] > 0 /\ remaining_slack'[v] > 0 =>
            P!Apart(ptr'[u], remaining_slack'[u], ptr'[v], remaining_slack'[v])
      BY <2>1, <2>4, <2>6 DEF P!Tiled, P!Apart
    <2>8. \A c \in chunks : c.at + c.size <= ver_data_cursor /\ 0 <= c.at
      BY <2>1 DEF P!Tiled, P!Below
    <2>9. \A u \in Threads, c \in chunks : remaining_slack'[u] > 0 =>
            P!Apart(ptr'[u], remaining_slack'[u], c.at, c.size)
      BY <2>1, <2>4, <2>5, <2>8 DEF P!Tiled, P!Apart
    <2>10. \A c \in chunks : 0 <= c.at /\ c.at + c.size <= ver_data_cursor'
      BY <1>0, <2>8
    <2> QED BY <2>3, <2>7, <2>9, <2>10 DEF P!Tiled, P!Below
  <1>5. ASSUME ~failed' PROVE ver_data_cursor' <= Capacity
    <2>1. PICK k \in Nat : Capacity = k * slack_size BY Zenon DEF P!ConstantsOK
    <2>2. PICK j \in Nat : ver_data_cursor = j * slack_size OBVIOUS
    <2>3. Capacity \in Int BY <2>1, <1>0
    <2>4. ver_data_cursor < Capacity
      <3>1. failed' = (ver_data_cursor >= Capacity) OBVIOUS
      <3>2. ~(ver_data_cursor >= Capacity) BY <1>5, <3>1, Zenon
      <3> QED BY <1>0, <2>3, <3>2
    <2>5. j * slack_size + slack_size <= k * slack_size BY <1>0, <2>1, <2>2, <2>4, SlabFits
    <2> QED BY <2>1, <2>2, <2>5
  <1>6. P!ChunksDisjoint' /\ P!ChunksInMemory'
    BY DEF P!ChunksDisjoint, P!ChunksInMemory
  <1> QED BY <1>1, <1>2, <1>3, <1>4, <1>5, <1>6

\* Cutting a version: it was part of the thread's own slab.
LEMMA CarveSafe ==
  ASSUME P!ConstantsOK, P!Types, P!Safe, NEW t \in Threads, P!carve(t)
  PROVE  P!Safe'
  <1> USE DEF P!Types, P!Safe, P!carve
  <1>0. /\ ver_data_cursor \in Int /\ Capacity \in Int /\ want[t] > 0 /\ want[t] \in Nat
        /\ want[t] <= remaining_slack[t]
        /\ \A c \in chunks : c.at \in Int /\ c.size \in Nat
    BY DEF P!ConstantsOK, P!Sized
  <1>1. ~resetting /\ ~resetting'
    BY DEF P!Exclusive, P!Setting
  <1>2. P!Exclusive'
    BY <1>1 DEF P!Exclusive, P!Setting, P!Locations
  <1>3. P!Sized'
    BY <1>0 DEF P!Sized, P!Locations
  <1>4. P!Tiled BY <1>1
  <1>5. /\ ptr'[t] = ptr[t] + want[t] /\ remaining_slack'[t] = remaining_slack[t] - want[t]
        /\ \A u \in Threads : u # t => ptr'[u] = ptr[u] /\ remaining_slack'[u] = remaining_slack[u]
    OBVIOUS
  <1> DEFINE new == [by |-> t, at |-> ptr[t], size |-> want[t]]
  <1>6. chunks' \subseteq chunks \cup {new}
    OBVIOUS
  <1>7. P!Below(ptr[t], remaining_slack[t]) /\ P!Below(new.at, new.size)
    BY <1>0, <1>4 DEF P!Tiled, P!Below
  <1>8. \A c \in chunks : P!Apart(ptr[t], remaining_slack[t], c.at, c.size)
    BY <1>0, <1>4 DEF P!Tiled
  <1>9. P!Tiled'
    <2>1. \A u \in Threads : remaining_slack'[u] > 0 =>
            0 <= ptr'[u] /\ ptr'[u] + remaining_slack'[u] <= ver_data_cursor'
      BY <1>0, <1>4, <1>5 DEF P!Tiled, P!Below
    <2>2. \A u, v \in Threads : u # v /\ remaining_slack'[u] > 0 /\ remaining_slack'[v] > 0 =>
            P!Apart(ptr'[u], remaining_slack'[u], ptr'[v], remaining_slack'[v])
      BY <1>0, <1>4, <1>5 DEF P!Tiled, P!Apart
    <2>3. \A u \in Threads, c \in chunks : remaining_slack'[u] > 0 =>
            P!Apart(ptr'[u], remaining_slack'[u], c.at, c.size)
      BY <1>0, <1>4, <1>5 DEF P!Tiled, P!Apart
    <2>4. \A u \in Threads : remaining_slack'[u] > 0 =>
            P!Apart(ptr'[u], remaining_slack'[u], new.at, new.size)
      BY <1>0, <1>4, <1>5 DEF P!Tiled, P!Apart
    <2>5. \A c \in chunks' : 0 <= c.at /\ c.at + c.size <= ver_data_cursor'
      BY <1>4, <1>6, <1>7 DEF P!Tiled, P!Below
    <2>6. \A u \in Threads, c \in chunks' : remaining_slack'[u] > 0 =>
            P!Apart(ptr'[u], remaining_slack'[u], c.at, c.size)
      BY <1>6, <2>3, <2>4
    <2> QED BY <2>1, <2>2, <2>5, <2>6 DEF P!Tiled, P!Below
  <1>10. P!ChunksDisjoint'
    <2>1. \A c \in chunks : P!Apart(new.at, new.size, c.at, c.size) /\ P!Apart(c.at, c.size, new.at, new.size)
      BY <1>0, <1>8 DEF P!Apart
    <2> QED BY <1>6, <2>1 DEF P!ChunksDisjoint
  <1>11. P!ChunksInMemory'
    <2>1. new.at + new.size <= Capacity
      BY <1>0, <1>7 DEF P!Below
    <2> QED BY <1>6, <2>1 DEF P!ChunksInMemory
  <1>12. (~failed => ver_data_cursor <= Capacity)'
    OBVIOUS
  <1> QED BY <1>1, <1>2, <1>3, <1>9, <1>10, <1>11, <1>12

\* An excuse is never taken back.
LEMMA ExcusesStay ==
  ASSUME [P!Next]_(P!vars), ~oversized', ~raced'
  PROVE  ~oversized /\ ~raced
  <1>1. ASSUME NEW t \in Threads, P!initSlackCache(t) PROVE ~oversized /\ ~raced
    <2>1. raced' = (raced \/ resetting) /\ oversized' = oversized BY <1>1 DEF P!initSlackCache
    <2> QED BY <2>1, Zenon
  <1>2. ASSUME NEW t \in Threads, NEW sz \in Sizes, P!allocate(t, sz) PROVE ~oversized /\ ~raced
    <2>1. oversized' = (oversized \/ sz > slack_size) /\ raced' = raced BY <1>2 DEF P!allocate
    <2> QED BY <2>1, Zenon
  <1>3. CASE P!reset
    <2>1. raced' = (raced \/ \E t \in Threads : P!Setting(t)) /\ oversized' = oversized BY <1>3 DEF P!reset
    <2> QED BY <2>1, Zenon
  <1>4. ASSUME NEW t \in Threads,
               \/ P!inserted(t) \/ P!lookupLost(t) \/ P!reserve(t) \/ P!enough(t) \/ P!carve(t)
               \/ P!increment_reader(t) \/ P!decrement_reader(t)
        PROVE  ~oversized /\ ~raced
    BY <1>4 DEF P!inserted, P!lookupLost, P!reserve, P!enough, P!carve, P!increment_reader, P!decrement_reader
  <1>5. CASE P!resetSlacks \/ UNCHANGED P!vars
    BY <1>5 DEF P!resetSlacks, P!vars
  <1> QED BY <1>1, <1>2, <1>3, <1>4, <1>5 DEF P!Next

\* Every step that adds no excuse keeps the invariant.
LEMMA SafeNext ==
  ASSUME P!ConstantsOK, P!Types, P!Safe, [P!Next]_(P!vars), ~oversized', ~raced'
  PROVE  P!Safe'
  <1> USE DEF P!Types, P!shared
  <1>1. ASSUME NEW t \in Threads, P!initSlackCache(t) PROVE P!Safe'
    <2>1. ~resetting
      <3>1. raced' = (raced \/ resetting) BY <1>1 DEF P!initSlackCache
      <3> QED BY <3>1, Zenon
    <2>2. P!Exclusive' /\ P!Sized'
      BY <1>1, <2>1 DEF P!initSlackCache, P!Safe, P!Exclusive, P!Sized, P!Setting, P!Locations
    <2> QED BY <1>1, <2>2, MemoryUnchanged DEF P!initSlackCache, P!Safe
  <1>2. ASSUME NEW t \in Threads, P!inserted(t) PROVE P!Safe'
    <2>1. P!Exclusive' /\ P!Sized'
      BY <1>2 DEF P!inserted, P!Safe, P!Exclusive, P!Sized, P!Setting, P!Locations
    <2> QED BY <1>2, <2>1, MemoryUnchanged DEF P!inserted, P!Safe
  <1>3. ASSUME NEW t \in Threads, NEW sz \in Sizes, P!allocate(t, sz) PROVE P!Safe'
    <2>1. sz <= slack_size
      <3>1. oversized' = (oversized \/ sz > slack_size) BY <1>3 DEF P!allocate
      <3>2. ~(sz > slack_size) BY <3>1, Zenon
      <3> QED BY <3>2 DEF P!ConstantsOK
    <2>2. P!Exclusive' /\ P!Sized'
      BY <1>3, <2>1 DEF P!allocate, P!Safe, P!Exclusive, P!Sized, P!Setting, P!Locations, P!ConstantsOK
    <2> QED BY <1>3, <2>2, MemoryUnchanged DEF P!allocate, P!Safe
  <1>4. ASSUME NEW t \in Threads, P!lookupLost(t) PROVE P!Safe'
    <2>1. P!Exclusive' /\ P!Sized'
      BY <1>4 DEF P!lookupLost, P!Safe, P!Exclusive, P!Sized, P!Setting
    <2> QED BY <1>4, <2>1, MemoryUnchanged DEF P!lookupLost, P!Safe
  <1>5. ASSUME NEW t \in Threads, P!reserve(t) PROVE P!Safe'
    BY <1>5, ReserveSafe
  <1>6. ASSUME NEW t \in Threads, P!enough(t) PROVE P!Safe'
    <2>1. want[t] <= remaining_slack[t] BY <1>6 DEF P!enough, P!Exhausted, P!Safe, P!Sized
    <2>2. P!Exclusive' /\ P!Sized'
      BY <1>6, <2>1 DEF P!enough, P!Safe, P!Exclusive, P!Sized, P!Setting, P!Locations
    <2> QED BY <1>6, <2>2, MemoryUnchanged DEF P!enough, P!Safe
  <1>7. ASSUME NEW t \in Threads, P!carve(t) PROVE P!Safe'
    BY <1>7, CarveSafe
  <1>8. ASSUME NEW t \in Threads, P!increment_reader(t) \/ P!decrement_reader(t) PROVE P!Safe'
    <2>1. P!Exclusive' /\ P!Sized'
      BY <1>8 DEF P!increment_reader, P!decrement_reader, P!Safe, P!Exclusive, P!Sized, P!Setting, P!Locations
    <2> QED BY <1>8, <2>1, MemoryUnchanged DEF P!increment_reader, P!decrement_reader, P!Safe
  <1>9. CASE P!reset
    <2>1. \A t \in Threads : ~P!Setting(t)
      <3>1. raced' = (raced \/ \E t \in Threads : P!Setting(t)) BY <1>9 DEF P!reset
      <3> QED BY <3>1, Zenon
    <2>2. P!Exclusive' /\ P!Sized'
      BY <1>9, <2>1 DEF P!reset, P!Safe, P!Exclusive, P!Sized, P!Setting
    <2>3. 0 <= Capacity
      <3>1. PICK k \in Nat : Capacity = k * slack_size BY Zenon DEF P!ConstantsOK
      <3> QED BY <3>1 DEF P!ConstantsOK
    <2> QED BY <1>9, <2>2, <2>3 DEF P!reset, P!Safe, P!ChunksDisjoint, P!ChunksInMemory
  <1>10. CASE P!resetSlacks
    <2>1. P!Exclusive' /\ P!Sized'
      BY <1>10 DEF P!resetSlacks, P!Safe, P!Exclusive, P!Sized, P!Setting
    <2>2. P!Tiled'
      BY <1>10 DEF P!resetSlacks, P!Safe, P!Exclusive, P!Tiled
    <2> QED BY <1>10, <2>1, <2>2 DEF P!resetSlacks, P!Safe, P!ChunksDisjoint, P!ChunksInMemory
  <1>11. CASE UNCHANGED P!vars
    <2>1. P!Exclusive' /\ P!Sized'
      BY <1>11 DEF P!vars, P!Safe, P!Exclusive, P!Sized, P!Setting
    <2> QED BY <1>11, <2>1, MemoryUnchanged DEF P!vars, P!Safe
  <1> QED BY <1>1, <1>2, <1>3, <1>4, <1>5, <1>6, <1>7, <1>8, <1>9, <1>10, <1>11 DEF P!Next

\* Whatever the number of threads, the sizes of versions and of slabs, if the memory is a
\* whole number of slabs: versions lie apart and in the partition's memory, unless one was
\* larger than a slab or a thread was set up during a reset
\* (delta_storage.cpp:389-425, delta_storage.hpp:238-253).
THEOREM VersionsStayApart ==
  ASSUME P!ConstantsOK
  PROVE  P!Spec => []P!VersionsApart
  <1>1. P!Init => P!Inv
    BY InitInv
  <1>2. P!Inv /\ [P!Next]_(P!vars) => P!Inv'
    <2> SUFFICES ASSUME P!Inv, [P!Next]_(P!vars) PROVE P!Inv'
      OBVIOUS
    <2>1. P!Types' BY TypesNext DEF P!Inv
    <2>2. ASSUME ~oversized', ~raced' PROVE ~oversized /\ ~raced
      BY <2>2, ExcusesStay
    <2>3. ASSUME ~oversized', ~raced' PROVE P!Safe'
      BY <2>2, <2>3, SafeNext DEF P!Inv
    <2> QED BY <2>1, <2>3 DEF P!Inv
  <1>3. P!Inv => P!VersionsApart
    BY DEF P!Inv, P!Safe, P!VersionsApart
  <1> QED BY <1>1, <1>2, <1>3, PTL DEF P!Spec
=============================================================================
