--------------------------- MODULE GpuHashRearrange ---------------------------
(***************************************************************************)
(* GpuHashRearrange inside one thread block: warps share, per bucket, a    *)
(* buffer of Cap rows, the counter `cnt' of reserved rows and the counter  *)
(* `wcnt' of written rows.  The lanes of a warp with the same target       *)
(* reserve together; a lane whose index lies beyond the buffer tries       *)
(* again.  The lane that writes the last row swaps the buffer, clears      *)
(* wcnt, then cnt, and passes the full buffer to the parent.  The flush    *)
(* kernel of close() passes on the rest and releases the empty buffers.    *)
(***************************************************************************)
EXTENDS Integers, FiniteSets, Sequences

CONSTANTS Lanes,      \* the lanes: records [warp, id]
          Targets,    \* the sequences of assignments lane -> bucket, one per kernel launch
          Buckets, Cap

VARIABLES work,       \* the launches to come
          launch,     \* number of the current launch
          target,     \* lane -> bucket of its tuple, the hash modulo numOfBuckets
          pc,         \* lane -> "start", "reserved", "loaded", "stored", "clearW", "clearC", "yield", "done"
          index,      \* lane -> the row it reserved
          held,       \* lane -> the buffer it loaded
          buff, cnt, wcnt,   \* per bucket, in shared memory
          stored,     \* the same three in the pipeline's state, between the kernels
          rows,       \* buffer -> row -> lane
          oid, out,
          released,   \* buckets the flush kernel has dealt with
          phase       \* "idle", "consume", "flush"

laneVars == <<target, pc, index, held>>
kernelVars == <<work, launch, stored>>
vars == <<laneVars, kernelVars, buff, cnt, wcnt, rows, oid, out, released, phase>>

Buffers == DOMAIN rows
Warps == {l.warp : l \in Lanes}

\* open(): every bucket starts with a buffer of its own and counters of 0.
Init ==
    /\ work \in Targets /\ launch = 0
    /\ target = [l \in Lanes |-> 0]
    /\ pc = [l \in Lanes |-> "done"]
    /\ index = [l \in Lanes |-> 0] /\ held = [l \in Lanes |-> 0]
    /\ stored = [buff |-> [b \in Buckets |-> b], cnt |-> [b \in Buckets |-> 0], wcnt |-> [b \in Buckets |-> 0]]
    /\ buff = stored.buff /\ cnt = stored.cnt /\ wcnt = stored.wcnt
    /\ rows = [b \in Buckets |-> <<>>]
    /\ oid = 0 /\ out = <<>> /\ released = {} /\ phase = "idle"

\* A kernel starts: threads below numOfBuckets load the state into shared memory, then
\* syncthreads lets the block go on.
loadShared ==
    /\ phase = "idle" /\ work # <<>>
    /\ phase' = "consume"
    /\ work' = Tail(work) /\ target' = Head(work) /\ launch' = launch + 1
    /\ pc' = [l \in Lanes |-> "start"]
    /\ buff' = stored.buff /\ cnt' = stored.cnt /\ wcnt' = stored.wcnt
    /\ UNCHANGED <<index, held, stored, rows, oid, out, released>>

\* The ending block: syncthreads, then the state is stored back.
storeShared ==
    /\ phase = "consume" /\ \A l \in Lanes : pc[l] = "done"
    /\ phase' = "idle"
    /\ stored' = [buff |-> buff, cnt |-> cnt, wcnt |-> wcnt]
    /\ UNCHANGED <<work, launch, laneVars, buff, cnt, wcnt, rows, oid, out, released>>

Mates(w, b) == {l \in Lanes : l.warp = w /\ pc[l] = "start" /\ target[l] = b}
Rank(l, S) == Cardinality({m \in S : m.id < l.id})

\* Lanes that find the buffer full keep adding to cnt until it is cleared.  All values
\* from Cap on act alike, so the counter stops here at Top.
Top == Cap + Cardinality(Lanes)

\* ballot, leader, atomic add of the votes, shuffle: the lanes of a warp that are not done
\* and have the same target get consecutive indices.
reserve(w, b) ==
    /\ phase = "consume" /\ Mates(w, b) # {}
    /\ LET S == Mates(w, b)
           got == [l \in S |-> cnt[b] + Rank(l, S)]
       IN /\ cnt' = [cnt EXCEPT ![b] = IF @ + Cardinality(S) > Top THEN Top ELSE @ + Cardinality(S)]
          /\ index' = [l \in Lanes |-> IF l \in S THEN got[l] ELSE index[l]]
          /\ pc' = [l \in Lanes |-> IF l \in S /\ got[l] < Cap THEN "reserved" ELSE pc[l]]
    /\ UNCHANGED <<target, held, buff, wcnt, rows, oid, out, released, phase, kernelVars>>

\* storeCond: the lane loads the buffer of its bucket ...
loadBuffer(l) ==
    /\ pc[l] = "reserved"
    /\ held' = [held EXCEPT ![l] = buff[target[l]]]
    /\ pc' = [pc EXCEPT ![l] = "loaded"]
    /\ UNCHANGED <<target, index, buff, cnt, wcnt, rows, oid, out, released, phase, kernelVars>>

\* ... and stores its row in it.
storeRow(l) ==
    /\ pc[l] = "loaded"
    /\ rows' = [rows EXCEPT ![held[l]] = Append(@, <<index[l], target[l], launch, l>>)]
    /\ pc' = [pc EXCEPT ![l] = "stored"]
    /\ UNCHANGED <<target, index, held, buff, cnt, wcnt, oid, out, released, phase, kernelVars>>

\* After the fence the lane counts its write; the one that counts the last row swaps the
\* buffer for a new one.
countWrite(l) ==
    /\ pc[l] = "stored"
    /\ LET b == target[l]
           last == wcnt[b] = Cap - 1
           new == Cardinality(Buffers)
       IN /\ wcnt' = [wcnt EXCEPT ![b] = @ + 1]
          /\ pc' = [pc EXCEPT ![l] = IF last THEN "clearW" ELSE "done"]
          /\ buff' = IF last THEN [buff EXCEPT ![b] = new] ELSE buff
          /\ rows' = IF last THEN [i \in Buffers \cup {new} |-> IF i = new THEN <<>> ELSE rows[i]] ELSE rows
    /\ UNCHANGED <<target, index, held, cnt, oid, out, released, phase, kernelVars>>

clearWritten(l) ==
    /\ pc[l] = "clearW"
    /\ wcnt' = [wcnt EXCEPT ![target[l]] = 0]
    /\ pc' = [pc EXCEPT ![l] = "clearC"]
    /\ UNCHANGED <<target, index, held, buff, cnt, rows, oid, out, released, phase, kernelVars>>

clearReserved(l) ==
    /\ pc[l] = "clearC"
    /\ cnt' = [cnt EXCEPT ![target[l]] = 0]
    /\ pc' = [pc EXCEPT ![l] = "yield"]
    /\ UNCHANGED <<target, index, held, buff, wcnt, rows, oid, out, released, phase, kernelVars>>

Deliver(b, buffer, n) == [bucket |-> b, buffer |-> buffer, cnt |-> n, oid |-> oid]

\* The full buffer goes to the parent with Cap rows and the next Cap oids.
yield(l) ==
    /\ pc[l] = "yield"
    /\ out' = Append(out, Deliver(target[l], held[l], Cap))
    /\ oid' = oid + Cap
    /\ pc' = [pc EXCEPT ![l] = "done"]
    /\ UNCHANGED <<target, index, held, buff, cnt, wcnt, rows, released, phase, kernelVars>>

\* close() launches the flush kernel, which reads the stored state: thread b releases an
\* empty buffer or passes it on with its count.  (The packing of small blocks that close()
\* computes on the host is not copied back.)
consume_flush(b) ==
    /\ work = <<>> /\ phase \in {"idle", "flush"}
    /\ phase' = "flush"
    /\ b \notin released
    /\ released' = released \cup {b}
    /\ IF stored.cnt[b] = 0
       THEN UNCHANGED <<out, oid>>
       ELSE /\ out' = Append(out, Deliver(b, stored.buff[b], stored.cnt[b]))
            /\ oid' = oid + stored.cnt[b]
    /\ UNCHANGED <<laneVars, buff, cnt, wcnt, rows, kernelVars>>

LaneStep(l) ==
    \/ loadBuffer(l) \/ storeRow(l) \/ countWrite(l)
    \/ clearWritten(l) \/ clearReserved(l) \/ yield(l)

Flushed == released = Buckets

Next == \/ \E w \in Warps, b \in Buckets : reserve(w, b)
        \/ \E l \in Lanes : LaneStep(l)
        \/ loadShared \/ storeShared
        \/ \E b \in Buckets : consume_flush(b)
        \/ Flushed /\ UNCHANGED vars

\* The scheduler of the GPU runs every warp, and every lane of a warp that diverged.
Spec == /\ Init /\ [][Next]_vars
        /\ \A w \in Warps, b \in Buckets : WF_vars(reserve(w, b))
        /\ \A l \in Lanes : WF_vars(LaneStep(l))
        /\ WF_vars(loadShared) /\ WF_vars(storeShared)
        /\ WF_vars(\E b \in Buckets : consume_flush(b))

----------------------------------------------------------------------------
Written(buffer) == {rows[buffer][i] : i \in DOMAIN rows[buffer]}

\* A buffer the parent receives holds exactly the rows its count announces, each index
\* written once by a lane of that bucket, and nobody writes to it any more.
BuffersFull ==
    \A k \in DOMAIN out :
        LET W == Written(out[k].buffer)
        IN  /\ {w[1] : w \in W} = 0..out[k].cnt - 1 /\ Len(rows[out[k].buffer]) = out[k].cnt
            /\ \A w \in W : w[2] = out[k].bucket
            /\ \A l \in Lanes : pc[l] = "loaded" => held[l] # out[k].buffer

\* No two blocks share an oid, and no tuple is delivered twice.
BlocksDisjoint ==
    \A j, k \in DOMAIN out : j < k =>
        /\ out[j].buffer # out[k].buffer
        /\ out[j].oid + out[j].cnt <= out[k].oid

\* When the flush kernel ended, the tuple of every lane of every launch was delivered.
AllRearranged ==
    Flushed => \A n \in 1..launch, l \in Lanes :
        \E k \in DOMAIN out : \E w \in Written(out[k].buffer) : w[3] = n /\ w[4] = l

=============================================================================
