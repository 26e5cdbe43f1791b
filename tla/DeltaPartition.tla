--------------------------- MODULE DeltaPartition ---------------------------
(***************************************************************************)
(* The memory of one partition of a CircularDeltaStore.  A thread takes a  *)
(* slab of it by moving the shared cursor and then cuts versions from its  *)
(* slab alone.  The collector moves the cursor back and empties the slabs  *)
(* while no thread is registered with the store (CircularDeltaStore shows  *)
(* that); threads that join the pool later, however, set up their slab     *)
(* without registering.                                                    *)
(***************************************************************************)
EXTENDS Integers

CONSTANTS Threads,
          Sizes,      \* the sizes of versions
          InitSize,   \* what setting up a thread allocates (8 bytes)
          slack_size, \* the size of a slab
          Capacity,   \* the memory of the partition
          MaxDebt     \* bound: how far a thread is followed beyond its slab

VARIABLES ver_data_cursor, touched,
          ptr, remaining_slack, \* the slab of each thread
          pc,                   \* where each thread is
          want,                 \* the size each thread allocates
          inside,               \* the threads registered with the store
          ready,                \* the threads that are set up
          resetting,            \* the collector is between its two steps
          chunks,               \* the versions handed out since the last reset
          failed,               \* an assertion or an exception has ended the program
          oversized, raced      \* what excuses an overlap, see below

shared == <<ver_data_cursor, touched, resetting, chunks, failed>>
vars == <<shared, ptr, remaining_slack, pc, want, inside, ready, oversized, raced>>

Init ==
  /\ ver_data_cursor = 0 /\ touched = FALSE
  /\ ptr = [t \in Threads |-> 0]
  /\ remaining_slack = [t \in Threads |-> 0]
  /\ pc = [t \in Threads |-> "new"]
  /\ want = [t \in Threads |-> InitSize]
  /\ inside = {} /\ ready = {}
  /\ resetting = FALSE
  /\ chunks = {}
  /\ failed = FALSE /\ oversized = FALSE /\ raced = FALSE

Setting(t) == t \notin ready /\ pc[t] # "new"

-----------------------------------------------------------------------------
(* Allocation.                                                             *)

\* initSlackCache: the entry of the thread is made under initLk; until it is
\* complete, the map may be in the middle of a rehash.
initSlackCache(t) ==
  /\ ~failed /\ pc[t] = "new"
  /\ \A u \in Threads : ~Setting(u)
  /\ pc' = [pc EXCEPT ![t] = "insert"]
  /\ raced' = (raced \/ resetting)
  /\ UNCHANGED <<shared, ptr, remaining_slack, want, inside, ready, oversized>>

inserted(t) ==
  /\ ~failed /\ pc[t] = "insert"
  /\ pc' = [pc EXCEPT ![t] = "lookup"]
  /\ UNCHANGED <<shared, ptr, remaining_slack, want, inside, ready, oversized, raced>>

allocate(t, sz) ==
  /\ ~failed /\ pc[t] = "idle" /\ t \in inside /\ remaining_slack[t] >= -MaxDebt
  /\ want' = [want EXCEPT ![t] = sz]
  /\ pc' = [pc EXCEPT ![t] = "lookup"]
  /\ oversized' = (oversized \/ sz > slack_size)
  /\ UNCHANGED <<shared, ptr, remaining_slack, inside, ready, raced>>

\* _threadLocal_cache.at() without a lock, while another thread inserts.
lookupLost(t) ==
  /\ ~failed /\ pc[t] = "lookup"
  /\ \E u \in Threads : pc[u] = "insert"
  /\ failed' = TRUE
  /\ UNCHANGED <<ver_data_cursor, touched, resetting, chunks, ptr, remaining_slack, pc, want, inside, ready,
                 oversized, raced>>

\* rec_size > remaining_slack compares as unsigned: a negative rest is large.
Exhausted(t) == remaining_slack[t] >= 0 /\ want[t] > remaining_slack[t]

\* getVersionDataChunk_ThreadLocal2: a new slab.  The assertion looks at its
\* first byte alone.
reserve(t) ==
  /\ ~failed /\ pc[t] = "lookup" /\ Exhausted(t)
  /\ ver_data_cursor' = ver_data_cursor + slack_size
  /\ ptr' = [ptr EXCEPT ![t] = ver_data_cursor]
  /\ remaining_slack' = [remaining_slack EXCEPT ![t] = slack_size]
  /\ failed' = (ver_data_cursor >= Capacity)
  /\ pc' = [pc EXCEPT ![t] = "carve"]
  /\ UNCHANGED <<touched, resetting, chunks, want, inside, ready, oversized, raced>>

enough(t) ==
  /\ ~failed /\ pc[t] = "lookup" /\ ~Exhausted(t)
  /\ pc' = [pc EXCEPT ![t] = "carve"]
  /\ UNCHANGED <<shared, ptr, remaining_slack, want, inside, ready, oversized, raced>>

\* The rest of it.  What the set-up allocates is given to nobody.
carve(t) ==
  /\ ~failed /\ pc[t] = "carve"
  /\ chunks' = IF t \in ready THEN chunks \cup {[by |-> t, at |-> ptr[t], size |-> want[t]]} ELSE chunks
  /\ ptr' = [ptr EXCEPT ![t] = @ + want[t]]
  /\ remaining_slack' = [remaining_slack EXCEPT ![t] = @ - want[t]]
  /\ touched' = TRUE
  /\ pc' = [pc EXCEPT ![t] = "idle"]
  /\ ready' = ready \cup {t}
  /\ UNCHANGED <<ver_data_cursor, resetting, failed, want, inside, oversized, raced>>

-----------------------------------------------------------------------------
(* The store, as CircularDeltaStore describes it.                          *)

increment_reader(t) ==
  /\ ~failed /\ pc[t] = "idle" /\ t \notin inside /\ ~resetting
  /\ inside' = inside \cup {t}
  /\ UNCHANGED <<shared, ptr, remaining_slack, pc, want, ready, oversized, raced>>

decrement_reader(t) ==
  /\ ~failed /\ pc[t] = "idle" /\ t \in inside
  /\ inside' = inside \ {t}
  /\ UNCHANGED <<shared, ptr, remaining_slack, pc, want, ready, oversized, raced>>

\* reset: the collection of impl_gc_simple, when nobody is registered.
reset ==
  /\ ~failed /\ ~resetting /\ inside = {} /\ touched
  /\ ver_data_cursor' = 0
  /\ chunks' = {}
  /\ resetting' = TRUE
  /\ raced' = (raced \/ \E t \in Threads : Setting(t))
  /\ UNCHANGED <<touched, failed, ptr, remaining_slack, pc, want, inside, ready, oversized>>

\* A reset that leaves the slabs to their threads.
resetSlacksKept ==
  /\ ~failed /\ resetting
  /\ resetting' = FALSE /\ touched' = FALSE
  /\ UNCHANGED <<ver_data_cursor, chunks, failed, ptr, remaining_slack, pc, want, inside, ready, oversized, raced>>

resetSlacks ==
  /\ ~failed /\ resetting
  /\ remaining_slack' = [t \in Threads |-> 0]
  /\ resetting' = FALSE /\ touched' = FALSE
  /\ UNCHANGED <<ver_data_cursor, chunks, failed, ptr, pc, want, inside, ready, oversized, raced>>

Next ==
  \/ \E t \in Threads : \/ initSlackCache(t) \/ inserted(t) \/ lookupLost(t) \/ reserve(t) \/ enough(t)
                        \/ carve(t) \/ increment_reader(t) \/ decrement_reader(t)
                        \/ \E sz \in Sizes : allocate(t, sz)
  \/ reset \/ resetSlacks

Spec == Init /\ [][Next]_vars
-----------------------------------------------------------------------------
Apart(a, m, b, n) == a + m <= b \/ b + n <= a

ChunksDisjoint ==
  \A c, d \in chunks : c # d => Apart(c.at, c.size, d.at, d.size)

ChunksInMemory == \A c \in chunks : c.at + c.size <= Capacity

\* The versions handed out since the last reset lie apart and in the memory of the
\* partition, unless one was larger than a slab or a thread was set up during a reset
\* (delta_storage.cpp:389-425, delta_storage.hpp:238-253).
VersionsApart == ~oversized /\ ~raced => ChunksDisjoint /\ ChunksInMemory
-----------------------------------------------------------------------------
ConstantsOK ==
  /\ slack_size \in Nat \ {0}
  /\ Sizes \subseteq Nat \ {0}
  /\ InitSize \in 1 .. slack_size
  /\ \E k \in Nat : Capacity = k * slack_size

Locations == {"new", "insert", "lookup", "carve", "idle"}

Types ==
  /\ \E k \in Nat : ver_data_cursor = k * slack_size
  /\ ptr \in [Threads -> Int]
  /\ remaining_slack \in [Threads -> Int]
  /\ pc \in [Threads -> Locations]
  /\ want \in [Threads -> Nat \ {0}]
  /\ chunks \subseteq [by : Threads, at : Int, size : Nat]

\* A thread that allocates is registered or being set up; nobody is while the
\* collector is at work.
Exclusive ==
  /\ \A t \in Threads : t \in inside => t \in ready
  /\ \A t \in Threads : pc[t] \in {"lookup", "carve"} => t \in inside \/ t \notin ready
  /\ \A t \in Threads : pc[t] \in {"new", "insert"} => t \notin ready
  /\ \A t \in Threads : pc[t] = "idle" => t \in ready
  /\ resetting => inside = {} /\ chunks = {} /\ \A t \in Threads : ~Setting(t)

Sized ==
  /\ \A t \in Threads : want[t] <= slack_size /\ 0 <= remaining_slack[t]
  /\ \A t \in Threads : pc[t] = "carve" => want[t] <= remaining_slack[t]

\* What is left of the slabs, and the versions, are parts of the memory below the
\* cursor that do not overlap.
Below(a, n) == 0 <= a /\ a + n <= ver_data_cursor
Tiled ==
  /\ \A t \in Threads : remaining_slack[t] > 0 => Below(ptr[t], remaining_slack[t])
  /\ \A t, u \in Threads : t # u /\ remaining_slack[t] > 0 /\ remaining_slack[u] > 0 =>
       Apart(ptr[t], remaining_slack[t], ptr[u], remaining_slack[u])
  /\ \A t \in Threads, c \in chunks : remaining_slack[t] > 0 =>
       Apart(ptr[t], remaining_slack[t], c.at, c.size)
  /\ \A c \in chunks : Below(c.at, c.size)

Safe ==
  /\ Exclusive /\ Sized
  /\ ~resetting => Tiled
  /\ ~failed => ver_data_cursor <= Capacity
  /\ ChunksDisjoint /\ ChunksInMemory

Inv ==
  /\ Types
  /\ ~oversized /\ ~raced => Safe
=============================================================================
