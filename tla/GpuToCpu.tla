------------------------------ MODULE GpuToCpu ------------------------------
(***************************************************************************)
(* The GpuToCpu operator: warps of a GPU kernel hand packets to a CPU      *)
(* thread through a ring of `size' slots in pinned memory, each with a     *)
(* flag.  A warp's leader takes the lock, every lane takes the slot `last' *)
(* + its rank, waits until the slot's flag is 0, stores its packet, fences *)
(* and sets the flag; the leader advances `last' and unlocks.  The CPU     *)
(* catch pipeline polls flag after flag and stops when it sees the end of  *)
(* file flag that close() sets once the kernels are done.  Memory is       *)
(* sequentially consistent here: the code fences (membar.sys) after every  *)
(* store the other side polls.                                             *)
(***************************************************************************)
EXTENDS Integers, FiniteSets, Sequences, SequencesExt

CONSTANTS Warps, Batches, Size  \* Batches: the sequences of batch sizes a warp may have to send

VARIABLES work,     \* warp -> sizes of the batches still to send
          pc,       \* warp -> "idle", "acquire", "save", "release"
          lane,     \* warp -> lane rank -> "wait", "got", "done"
          base,     \* warp -> the value of `last' it read
          lock, last, flags, store, eof,
          front, reader,  \* the catch pipeline: its slot and where it is
          sent, caught,   \* packets stored and packets handed to the parent
          missed          \* the eof check followed a flag read that a later store made stale

warpVars == <<work, pc, lane, base, lock, last>>
readVars == <<front, reader, caught, missed>>
vars == <<work, pc, lane, base, lock, last, flags, store, eof, front, reader, sent, caught, missed>>

Slots == 0..Size - 1

\* open(): every flag and the eof word are 0, lock and last too, and kick_start
\* runs the catch pipeline in a thread of its own.
Init ==
    /\ work \in [Warps -> Batches]
    /\ pc = [w \in Warps |-> "idle"]
    /\ lane = [w \in Warps |-> <<>>]
    /\ base = [w \in Warps |-> 0]
    /\ lock = 0 /\ last = 0 /\ eof = 0
    /\ flags = [s \in Slots |-> 0]
    /\ store = [s \in Slots |-> <<>>]
    /\ front = 0 /\ reader = "poll"
    /\ sent = <<>> /\ caught = <<>> /\ missed = FALSE

\* The active lanes of a warp reach consume(): ballot and popc give each its rank.
enter(w) ==
    /\ pc[w] = "idle" /\ work[w] # <<>>
    /\ pc' = [pc EXCEPT ![w] = "acquire"]
    /\ lane' = [lane EXCEPT ![w] = [i \in 1..Head(work[w]) |-> "wait"]]
    /\ UNCHANGED <<work, base, lock, last, flags, store, eof, sent, readVars>>

\* The leader's compare-and-swap loop; then every lane reads `last'.
acquireLock(w) ==
    /\ pc[w] = "acquire" /\ lock = 0
    /\ lock' = 1
    /\ base' = [base EXCEPT ![w] = last]
    /\ pc' = [pc EXCEPT ![w] = "save"]
    /\ UNCHANGED <<work, lane, last, flags, store, eof, sent, readVars>>

Slot(w, i) == (base[w] + i - 1) % Size

\* A slip: the lane does not wait for its slot to be emptied.
waitSlotNot(w, i) ==
    /\ pc[w] = "save" /\ i \in DOMAIN lane[w] /\ lane[w][i] = "wait"
    /\ lane' = [lane EXCEPT ![w][i] = "got"]
    /\ UNCHANGED <<work, pc, base, lock, last, flags, store, eof, sent, readVars>>

waitSlot(w, i) ==
    /\ pc[w] = "save" /\ i \in DOMAIN lane[w] /\ lane[w][i] = "wait"
    /\ flags[Slot(w, i)] = 0
    /\ lane' = [lane EXCEPT ![w][i] = "got"]
    /\ UNCHANGED <<work, pc, base, lock, last, flags, store, eof, sent, readVars>>

\* warpsync: no lane stores before every lane has its slot.
saveItem(w, i) ==
    /\ pc[w] = "save" /\ i \in DOMAIN lane[w] /\ lane[w][i] = "got"
    /\ \A j \in DOMAIN lane[w] : lane[w][j] # "wait"
    /\ lane' = [lane EXCEPT ![w][i] = "stored"]
    /\ store' = [store EXCEPT ![Slot(w, i)] = <<w, Len(work[w]), i>>]
    /\ UNCHANGED <<work, pc, base, lock, last, flags, eof, sent, readVars>>

setFlag(w, i) ==
    /\ pc[w] = "save" /\ i \in DOMAIN lane[w] /\ lane[w][i] = "stored"
    /\ lane' = [lane EXCEPT ![w][i] = "done"]
    /\ flags' = [flags EXCEPT ![Slot(w, i)] = 1]
    /\ sent' = Append(sent, <<w, Len(work[w]), i>>)
    /\ missed' = (missed \/ (reader \in {"eof", "end"} /\ front = Slot(w, i)))
    /\ UNCHANGED <<work, pc, base, lock, last, store, eof, front, reader, caught>>

\* A slip: the leader does not unlock.
releaseLocked(w) ==
    /\ pc[w] = "save" /\ \A i \in DOMAIN lane[w] : lane[w][i] = "done"
    /\ last' = (base[w] + Len(lane[w])) % Size
    /\ lane' = [lane EXCEPT ![w] = <<>>]
    /\ work' = [work EXCEPT ![w] = Tail(@)]
    /\ pc' = [pc EXCEPT ![w] = "idle"]
    /\ UNCHANGED <<base, lock, flags, store, eof, sent, readVars>>

\* The leader advances `last' past the whole warp and unlocks.
release(w) ==
    /\ pc[w] = "save" /\ \A i \in DOMAIN lane[w] : lane[w][i] = "done"
    /\ last' = (base[w] + Len(lane[w])) % Size
    /\ lock' = 0
    /\ lane' = [lane EXCEPT ![w] = <<>>]
    /\ work' = [work EXCEPT ![w] = Tail(@)]
    /\ pc' = [pc EXCEPT ![w] = "idle"]
    /\ UNCHANGED <<base, flags, store, eof, sent, readVars>>

\* close() runs when the kernels are done; it then joins the reader's thread.
close ==
    /\ eof = 0 /\ \A w \in Warps : work[w] = <<>> /\ pc[w] = "idle"
    /\ eof' = 1
    /\ UNCHANGED <<warpVars, flags, store, sent, readVars>>

\* The catch pipeline: the flag of the front slot, and only if it is not set
\* the eof word.
poll ==
    /\ reader = "poll"
    /\ reader' = IF flags[front] = 1 THEN "consume" ELSE "eof"
    /\ UNCHANGED <<warpVars, flags, store, eof, sent, front, caught, missed>>

is_eof ==
    /\ reader = "eof"
    /\ reader' = IF eof = 1 THEN "end" ELSE "poll"
    /\ missed' = IF eof = 1 THEN missed ELSE FALSE
    /\ UNCHANGED <<warpVars, flags, store, eof, sent, front, caught>>

\* The packet is copied before the slot is given back.
consume ==
    /\ reader = "consume"
    /\ caught' = Append(caught, store[front])
    /\ flags' = [flags EXCEPT ![front] = 0]
    /\ front' = (front + 1) % Size
    /\ reader' = "poll"
    /\ UNCHANGED <<warpVars, store, eof, sent, missed>>

WarpStep(w) ==
    \/ enter(w) \/ acquireLock(w) \/ release(w)
    \/ \E i \in 1..Size : waitSlot(w, i) \/ saveItem(w, i) \/ setFlag(w, i)

Reader == poll \/ is_eof \/ consume

Next == (\E w \in Warps : WarpStep(w)) \/ close \/ Reader

Spec == Init /\ [][Next]_vars /\ \A w \in Warps : WF_vars(WarpStep(w)) /\ WF_vars(close) /\ WF_vars(Reader)

-----------------------------------------------------------------------------
\* What the CPU side has consumed is what the GPU side stored, each packet once
\* and none overwritten in its slot: packets in flight are exactly the flagged slots.
PacketsIntact ==
    /\ \A p \in Range(sent) : Cardinality({i \in DOMAIN caught : caught[i] = p}) <= 1
    /\ Range(caught) \subseteq Range(sent)
    /\ Cardinality({s \in Slots : flags[s] = 1}) = Len(sent) - Len(caught)
    /\ \A s \in Slots : flags[s] = 1 => store[s] \in Range(sent) \ Range(caught)

\* They are consumed in the order of their slots: a lane's packet right after that of
\* the lane before it, and the batches of a warp in the order in which it sent them. A
\* packet is thus never overtaken, nor passed over in favour of a later one.
PacketsInOrder ==
    \A i \in DOMAIN caught :
      LET w == caught[i][1]  batch == caught[i][2]  rank == caught[i][3] IN
      /\ rank > 1 => i > 1 /\ caught[i - 1] = <<w, batch, rank - 1>>
      /\ rank = 1 => \A j \in i + 1..Len(caught) : caught[j][1] = w => caught[j][2] <= batch

\* The catch pipeline ends only after eof, and it leaves packets behind only
\* when the next one was stored between its look at the flag and its look at eof.
\* Then it does: the packets that are still flagged in the ring are lost.
OnlyStaleFlagsMissed == reader = "end" => eof = 1 /\ (missed \/ Len(caught) = Len(sent))

=============================================================================
