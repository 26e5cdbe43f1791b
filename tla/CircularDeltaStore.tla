------------------------- MODULE CircularDeltaStore -------------------------
(***************************************************************************)
(* One CircularDeltaStore: the counter of registered workers, the          *)
(* max_active_epoch each worker keeps in it, and the garbage collection    *)
(* that takes the store over by swinging the counter from 0 to INT64_MIN.  *)
(* Every atomic access of the counter is a step of its own.                *)
(*                                                                         *)
(* A caller passes the start time of its transaction as the epoch.  The    *)
(* start times of one worker only grow.  The oldest active transaction,    *)
(* which impl_gc_simple asks the transaction manager for, is any value     *)
(* here; OneShotGC computes it.                                            *)
(***************************************************************************)
EXTENDS Integers, FiniteSets

CONSTANTS Workers,    \* the worker threads
          MaxTs,      \* bound on start times
          TagMod,     \* number of tags a pointer can tell apart (2^20)
          INT64_MIN   \* the counter's value while the store is collected

ASSUME WorkersFinite == IsFiniteSet(Workers)
ASSUME BoundsAssumption == MaxTs \in Nat /\ TagMod \in Nat \ {0}
\* Every worker can add its one to INT64_MIN without reaching zero.
ASSUME Int64MinAssumption ==
  INT64_MIN \in Int /\ INT64_MIN + Cardinality(Workers) < 0

VARIABLES readers,     \* the atomic counter
          pc,          \* where each worker is in the store's code
          registered,  \* workers whose increment counted
          hits,        \* workers whose last increment fell into a collection
          ts,          \* start time of each worker's transaction
          epoch,       \* max_active_epoch of each worker
          versions,    \* writers' start times of the versions in the store
          gcMin,       \* oldest active transaction seen by the collector
          tag          \* generation of the store, as pointers store it

vars == <<readers, pc, registered, hits, ts, epoch, versions, gcMin, tag>>

Ts == 0..MaxTs

Locations == {"idle", "spin", "retry", "raise", "gc", "scan", "decide", "unlock"}

Collecting == {"scan", "decide", "unlock"}

Collectors == {t \in Workers : pc[t] \in Collecting}

Goto(t, l) == pc' = [pc EXCEPT ![t] = l]

\* Mutant: the comparison of impl_gc_simple is not strict.
AboveOrEqualMaxActiveEpoch(m) == \A t \in Workers : epoch[t] <= m

\* min > getMaxActiveEpoch()
AboveMaxActiveEpoch(m) == \A t \in Workers : epoch[t] < m

Init ==
  /\ readers = 0
  /\ pc = [t \in Workers |-> "idle"]
  /\ registered = {}
  /\ hits = {}
  /\ ts = [t \in Workers |-> 0]
  /\ epoch = [t \in Workers |-> 0]
  /\ versions = {}
  /\ gcMin = 0
  /\ tag = 1 % TagMod

-----------------------------------------------------------------------------
(* increment_reader *)

\* Mutant: increment_reader without its safety check.
FetchAddUnchecked(t) ==
  /\ readers' = readers + 1
  /\ registered' = registered \cup {t}
  /\ Goto(t, "raise")
  /\ UNCHANGED hits

\* x = readers++, and the test of x that follows it.
FetchAdd(t) ==
  /\ readers' = readers + 1
  /\ IF readers < 0
     THEN /\ hits' = hits \cup {t}
          /\ Goto(t, "spin")
          /\ UNCHANGED registered
     ELSE /\ registered' = registered \cup {t}
          /\ Goto(t, "raise")
          /\ UNCHANGED hits

increment_reader(t, e) ==
  /\ pc[t] = "idle"
  /\ t \notin registered
  /\ e > ts[t]
  /\ ts' = [ts EXCEPT ![t] = e]
  /\ FetchAdd(t)
  /\ UNCHANGED <<epoch, versions, gcMin, tag>>

\* while (readers < 0); falls through once the counter is not negative.
SpinExit(t) ==
  /\ pc[t] = "spin"
  /\ readers >= 0
  /\ Goto(t, "retry")
  /\ UNCHANGED <<readers, registered, hits, ts, epoch, versions, gcMin, tag>>

Retry(t) ==
  /\ pc[t] = "retry"
  /\ FetchAdd(t)
  /\ UNCHANGED <<ts, epoch, versions, gcMin, tag>>

\* Mutant: increment_reader leaves max_active_epoch alone.
RaiseEpochForgotten(t) ==
  /\ pc[t] = "raise"
  /\ Goto(t, "idle")
  /\ UNCHANGED <<readers, registered, hits, ts, epoch, versions, gcMin, tag>>

RaiseEpoch(t) ==
  /\ pc[t] = "raise"
  /\ epoch' = [epoch EXCEPT ![t] = IF @ < ts[t] THEN ts[t] ELSE @]
  /\ Goto(t, "idle")
  /\ UNCHANGED <<readers, registered, hits, ts, versions, gcMin, tag>>

-----------------------------------------------------------------------------
(* Operations of a registered worker *)

update_active_epoch(t, e) ==
  /\ pc[t] = "idle"
  /\ t \in registered
  /\ e > ts[t]
  /\ ts' = [ts EXCEPT ![t] = e]
  /\ epoch' = [epoch EXCEPT ![t] = e]
  /\ UNCHANGED <<readers, pc, registered, hits, versions, gcMin, tag>>

allocate(t) ==
  /\ pc[t] = "idle"
  /\ t \in registered
  /\ versions' = versions \cup {ts[t]}
  /\ UNCHANGED <<readers, pc, registered, hits, ts, epoch, gcMin, tag>>

\* The worker that takes the counter to zero goes on into GC().
decrement_reader(t) ==
  /\ pc[t] = "idle"
  /\ t \in registered
  /\ readers' = readers - 1
  /\ registered' = registered \ {t}
  /\ Goto(t, IF readers = 1 THEN "gc" ELSE "idle")
  /\ UNCHANGED <<hits, ts, epoch, versions, gcMin, tag>>

-----------------------------------------------------------------------------
(* GC *)

\* try_GC_all_partitions calls GC() on every store, registered or not.
try_GC(t) ==
  /\ pc[t] = "idle"
  /\ Goto(t, "gc")
  /\ UNCHANGED <<readers, registered, hits, ts, epoch, versions, gcMin, tag>>

\* Mutant: GC() stores INT64_MIN without the compare.
GcAcquireUnchecked(t) ==
  /\ pc[t] = "gc"
  /\ readers' = INT64_MIN
  /\ hits' = {}
  /\ Goto(t, "scan")
  /\ UNCHANGED <<registered, ts, epoch, versions, gcMin, tag>>

\* compare_exchange_weak(0, INT64_MIN)
GcAcquire(t) ==
  /\ pc[t] = "gc"
  /\ readers = 0
  /\ readers' = INT64_MIN
  /\ hits' = {}
  /\ Goto(t, "scan")
  /\ UNCHANGED <<registered, ts, epoch, versions, gcMin, tag>>

\* The exchange fails, spuriously too.
GcSkip(t) ==
  /\ pc[t] = "gc"
  /\ Goto(t, "idle")
  /\ UNCHANGED <<readers, registered, hits, ts, epoch, versions, gcMin, tag>>

get_min_activeTxn(t, m) ==
  /\ pc[t] = "scan"
  /\ gcMin' = m
  /\ Goto(t, "decide")
  /\ UNCHANGED <<readers, registered, hits, ts, epoch, versions, tag>>

\* Mutant: the tag outgrows the bits a pointer has for it.
GcDecideUnmasked(t) ==
  /\ pc[t] = "decide"
  /\ IF AboveMaxActiveEpoch(gcMin)
     THEN tag' = tag + 1 /\ versions' = {}
     ELSE UNCHANGED <<tag, versions>>
  /\ Goto(t, "unlock")
  /\ UNCHANGED <<readers, registered, hits, ts, epoch, gcMin>>

\* Mutant: GC() returns early, without giving the counter back, when the
\* collection is not allowed.
GcDecideEarlyReturn(t) ==
  /\ pc[t] = "decide"
  /\ IF AboveMaxActiveEpoch(gcMin)
     THEN tag' = (tag + 1) % TagMod /\ versions' = {} /\ Goto(t, "unlock")
     ELSE UNCHANGED <<tag, versions>> /\ Goto(t, "idle")
  /\ UNCHANGED <<readers, registered, hits, ts, epoch, gcMin>>

\* impl_gc_simple, and the reset it allows.
GcDecide(t) ==
  /\ pc[t] = "decide"
  /\ IF AboveMaxActiveEpoch(gcMin)
     THEN /\ tag' = (tag + 1) % TagMod
          /\ versions' = {}
     ELSE UNCHANGED <<tag, versions>>
  /\ Goto(t, "unlock")
  /\ UNCHANGED <<readers, registered, hits, ts, epoch, gcMin>>

\* Mutant: GC() subtracts INT64_MIN again instead of storing zero.
GcReleaseSubtract(t) ==
  /\ pc[t] = "unlock"
  /\ readers' = readers - INT64_MIN
  /\ Goto(t, "idle")
  /\ UNCHANGED <<registered, hits, ts, epoch, versions, gcMin, tag>>

\* readers = 0 forgets the increments that fell into the collection.
GcRelease(t) ==
  /\ pc[t] = "unlock"
  /\ readers' = 0
  /\ Goto(t, "idle")
  /\ UNCHANGED <<registered, hits, ts, epoch, versions, gcMin, tag>>

-----------------------------------------------------------------------------
Next ==
  \E t \in Workers :
    \/ \E e \in Ts : increment_reader(t, e) \/ update_active_epoch(t, e)
    \/ SpinExit(t) \/ Retry(t) \/ RaiseEpoch(t)
    \/ allocate(t) \/ decrement_reader(t)
    \/ try_GC(t) \/ GcAcquire(t) \/ GcSkip(t)
    \/ \E m \in 0..MaxTs + 1 : get_min_activeTxn(t, m)
    \/ GcDecide(t) \/ GcRelease(t)

\* A thread inside the store's code keeps being scheduled; whether it calls
\* the store again is up to its transactions.
Fairness ==
  \A t \in Workers :
    /\ WF_vars(SpinExit(t)) /\ WF_vars(Retry(t)) /\ WF_vars(RaiseEpoch(t))
    /\ WF_vars(GcAcquire(t) \/ GcSkip(t))
    /\ WF_vars(\E m \in 0..MaxTs + 1 : get_min_activeTxn(t, m))
    /\ WF_vars(GcDecide(t)) /\ WF_vars(GcRelease(t))

Spec == Init /\ [][Next]_vars
FairSpec == Spec /\ Fairness

-----------------------------------------------------------------------------
\* The types of the counter, the per-worker metadata and the contents.
TypeOK ==
  /\ readers \in Int
  /\ pc \in [Workers -> Locations]
  /\ registered \subseteq Workers
  /\ hits \subseteq Workers
  /\ ts \in [Workers -> Ts]
  /\ epoch \in [Workers -> Ts]
  /\ versions \subseteq Ts
  /\ gcMin \in 0..MaxTs + 1
  /\ tag \in 0..TagMod - 1

\* A collection excludes every registered worker and every other collection:
\* nobody holds the store between the successful exchange of GC() and its
\* final store of zero, although workers keep incrementing the counter then.
CollectionExclusive ==
  \A t \in Collectors : registered = {} /\ Collectors = {t}

\* The counter counts: exactly the registered workers when nobody collects,
\* and INT64_MIN plus the increments that will be forgotten otherwise.  So no
\* increment is lost for good and none is counted twice.
ReadersCount ==
  readers = IF Collectors = {} THEN Cardinality(registered)
                               ELSE INT64_MIN + Cardinality(hits)

\* Every version in the store was written by a transaction no younger than
\* the epochs the next collection will look at.
EpochCoversVersions ==
  \A v \in versions : \E t \in Workers : v <= epoch[t]

\* A reset throws away only versions whose writer is older than the oldest
\* transaction the collector saw active, and only while nobody is registered.
ResetOnlyUnneeded ==
  [][versions \ versions' # {} => registered = {} /\ \A v \in versions : v < gcMin]_vars

\* A worker that found the store being collected is let in again: the
\* collection always ends and gives the counter back.
CollectionEnds == (readers < 0) ~> (readers >= 0)

\* The store as its callers see it.
Abstract == INSTANCE ReclaimableStore
  WITH Threads <- Workers, Timestamps <- Ts, inside <- registered,
       reclaimers <- Collectors, contents <- versions

\* Counter, spinning and forgotten increments together implement the store in
\* which entering simply waits for the reclamation to end.
ImplementsStore == Abstract!Spec

\* INT64_MIN in the instances that TLC checks: lower than any number of
\* workers there can make up for.
SmallInt64Min == -8
=============================================================================
