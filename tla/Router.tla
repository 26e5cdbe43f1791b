------------------------------ MODULE Router -------------------------------
(***************************************************************************)
(* The router exchange: producers of one pipeline route tuples to Targets, *)
(* each served by a thread running Router::fire.  A target owns Slack      *)
(* buffers that circulate through free_pool[t] (a lock-free ring of        *)
(* tickets, UnsafeRingBuffer) and ready_fifo[t] (a closable queue,         *)
(* AsyncQueue, here by what it promises).                                  *)
(***************************************************************************)
EXTENDS Integers, Sequences, FiniteSets

CONSTANTS Producers, \* instances of the pipeline feeding the router
          Fanout,    \* targets are 0 .. Fanout - 1
          Slack,     \* buffers per target
          Quota,     \* tuples each producer routes
          MayRetry,  \* the policy lets a producer poll and route again
          RingSize,  \* entries of a free pool, at least Slack (65536 in the code)
          IndexMod   \* tickets wrap here, a multiple of 2 * RingSize (2^32 in the code)

ASSUME ConstantsAssumption ==
  /\ IsFiniteSet(Producers) /\ Quota \in [Producers -> Nat]
  /\ Fanout \in Nat \ {0} /\ Slack \in Nat \ {0}
  /\ RingSize \in Nat \ {0} /\ IndexMod \in Nat \ {0} /\ IndexMod % 2 = 0

VARIABLES head, tail, \* next ticket to put, to take, of every free pool
          slots,      \* entries of the free pools: marker and buffer
          ready,      \* ready_fifo: queued buffers and closing
          payload,    \* the tuple a buffer holds
          remaining,  \* remaining_producers
          opened,     \* firers is not empty
          prod,       \* producer threads
          fire,       \* fire threads
          consumed    \* tuples the consumers got

poolVars == <<head, tail, slots>>
vars == <<head, tail, slots, ready, payload, remaining, opened, prod, fire, consumed>>

Targets == 0 .. Fanout - 1
Buffers == Targets \X (1 .. Slack)
Tuples  == UNION {{p} \X (1 .. Quota[p]) : p \in Producers}
NoBuf   == <<-1, 0>>
NoTuple == <<"none", 0>>

Entry(ticket) == (ticket \div 2) % RingSize
Odd(m) == m % 2 = 1

EmptyRing == [i \in 0 .. RingSize - 1 |-> [marker |-> IndexMod - 2, buf |-> NoBuf]]

Init ==
  /\ head = [t \in Targets |-> 0] /\ tail = [t \in Targets |-> 0]
  /\ slots = [t \in Targets |-> EmptyRing]
  /\ ready = [t \in Targets |-> [queue |-> <<>>, closing |-> FALSE]]
  /\ payload = [b \in Buffers |-> NoTuple]
  /\ remaining = 0 /\ opened = FALSE
  /\ prod = [p \in Producers |-> [pc |-> "open", sent |-> 0, target |-> 0, ticket |-> 0, buf |-> NoBuf]]
  /\ fire = [t \in Targets |-> [pc |-> "none", n |-> 0, ticket |-> 0, buf |-> NoBuf]]
  /\ consumed = {}

----------------------------------------------------------------------------
\* The free pools.

DrawHeadByOne(t) == head' = [head EXCEPT ![t] = (@ + 1) % IndexMod]

\* A ticket is drawn first and honoured later: other threads run between.
DrawHead(t) == head' = [head EXCEPT ![t] = (@ + 2) % IndexMod]
DrawTail(t) == tail' = [tail EXCEPT ![t] = (@ + 2) % IndexMod]

Put(t, ticket, b) ==
  /\ ~Odd(slots[t][Entry(ticket)].marker)
  /\ slots' = [slots EXCEPT ![t][Entry(ticket)] = [marker |-> ticket + 1, buf |-> b]]

Take(t, ticket) ==
  /\ slots[t][Entry(ticket)].marker = ticket + 1
  /\ slots' = [slots EXCEPT ![t][Entry(ticket)].marker = ticket]

EmptyUnsafe(t) == head[t] = tail[t]

----------------------------------------------------------------------------
\* Producers.

Go(p, pc) == prod' = [prod EXCEPT ![p].pc = pc]

\* Router::open, under init_mutex: the first one sets everything up.
open(p) ==
  /\ prod[p].pc = "open"
  /\ Go(p, "route")
  /\ IF opened
       THEN UNCHANGED <<remaining, opened, fire>>
       ELSE /\ remaining' = Cardinality(Producers)
            /\ opened' = TRUE
            /\ fire' = [t \in Targets |-> [fire[t] EXCEPT !.pc = "seed"]]
  /\ UNCHANGED <<poolVars, ready, payload, consumed>>

\* consume: the policy picks a target; acquireBuffer gives up at once on an
\* empty pool when the policy may retry (the loop then asks the policy again).
consume(p, t) ==
  /\ prod[p].pc = "route" /\ prod[p].sent < Quota[p]
  /\ ~(MayRetry /\ EmptyUnsafe(t))
  /\ prod' = [prod EXCEPT ![p].pc = "draw", ![p].target = t]
  /\ UNCHANGED <<poolVars, ready, payload, remaining, opened, fire, consumed>>

acquireDraw(p) ==
  LET t == prod[p].target IN
  /\ prod[p].pc = "draw"
  /\ prod' = [prod EXCEPT ![p].pc = "take", ![p].ticket = tail[t]]
  /\ DrawTail(t)
  /\ UNCHANGED <<head, slots, ready, payload, remaining, opened, fire, consumed>>

acquireTake(p) ==
  LET t == prod[p].target IN
  /\ prod[p].pc = "take" /\ Take(t, prod[p].ticket)
  /\ prod' = [prod EXCEPT ![p].pc = "fill", ![p].buf = slots[t][Entry(prod[p].ticket)].buf]
  /\ UNCHANGED <<head, tail, ready, payload, remaining, opened, fire, consumed>>

\* The tuple is stored in the buffer and releaseBuffer queues it.
releaseBuffer(p) ==
  LET b == prod[p].buf IN
  /\ prod[p].pc = "fill"
  /\ payload' = [payload EXCEPT ![b] = <<p, prod[p].sent + 1>>]
  /\ ready' = [ready EXCEPT ![prod[p].target].queue = Append(@, b)]
  /\ prod' = [prod EXCEPT ![p].pc = "route", ![p].sent = @ + 1, ![p].buf = NoBuf]
  /\ UNCHANGED <<poolVars, remaining, opened, fire, consumed>>

closeEarly(p) ==
  /\ prod[p].pc = "route" /\ prod[p].sent = Quota[p]
  /\ remaining' = remaining - 1
  /\ prod' = [prod EXCEPT ![p].pc = IF remaining = Cardinality(Producers) THEN "close" ELSE "done",
                          ![p].target = 0]
  /\ UNCHANGED <<poolVars, ready, payload, opened, fire, consumed>>

\* Router::close: the last producer closes the queues one after the other
\* and joins the firers.
close(p) ==
  /\ prod[p].pc = "route" /\ prod[p].sent = Quota[p]
  /\ remaining' = remaining - 1
  /\ prod' = [prod EXCEPT ![p].pc = IF remaining = 1 THEN "close" ELSE "done", ![p].target = 0]
  /\ UNCHANGED <<poolVars, ready, payload, opened, fire, consumed>>

closeFifo(p) ==
  /\ prod[p].pc = "close"
  /\ ready' = [ready EXCEPT ![prod[p].target].closing = TRUE]
  /\ Go(p, "drain")
  /\ UNCHANGED <<poolVars, payload, remaining, opened, fire, consumed>>

fifoDrained(p) ==
  LET t == prod[p].target IN
  /\ prod[p].pc = "drain" /\ ready[t].queue = <<>>
  /\ prod' = [prod EXCEPT ![p].pc = IF t = Fanout - 1 THEN "join" ELSE "close",
                          ![p].target = IF t = Fanout - 1 THEN 0 ELSE t + 1]
  /\ UNCHANGED <<poolVars, ready, payload, remaining, opened, fire, consumed>>

join(p) ==
  /\ prod[p].pc = "join" /\ \A t \in Targets : fire[t].pc = "done"
  /\ opened' = FALSE
  /\ Go(p, "done")
  /\ UNCHANGED <<poolVars, ready, payload, remaining, fire, consumed>>

----------------------------------------------------------------------------
\* Firers.

\* freeBuffer draws a ticket of the free pool for the buffer it gives back.
seedDraw(t) ==
  /\ fire[t].pc = "seed"
  /\ fire' = [fire EXCEPT ![t].pc = "seedput", ![t].ticket = head[t], ![t].n = @ + 1,
                          ![t].buf = <<t, fire[t].n + 1>>]
  /\ DrawHead(t)
  /\ UNCHANGED <<tail, slots, ready, payload, remaining, opened, prod, consumed>>

seedPut(t) ==
  /\ fire[t].pc = "seedput" /\ Put(t, fire[t].ticket, fire[t].buf)
  /\ fire' = [fire EXCEPT ![t].pc = IF fire[t].n = Slack THEN "loop" ELSE "seed", ![t].buf = NoBuf]
  /\ UNCHANGED <<head, tail, ready, payload, remaining, opened, prod, consumed>>

get_ready(t) ==
  /\ fire[t].pc = "loop"
  /\ \/ /\ ready[t].queue # <<>>
        /\ fire' = [fire EXCEPT ![t].pc = "consume", ![t].buf = Head(ready[t].queue)]
        /\ ready' = [ready EXCEPT ![t].queue = Tail(@)]
     \/ /\ ready[t].queue = <<>> /\ ready[t].closing
        /\ fire' = [fire EXCEPT ![t].pc = "drain"]
        /\ UNCHANGED ready
  /\ UNCHANGED <<poolVars, payload, remaining, opened, prod, consumed>>

\* The pipeline behind the router consumes the tuple in place, and only
\* then is the buffer freed.
catch(t) ==
  /\ fire[t].pc = "consume"
  /\ consumed' = consumed \cup {payload[fire[t].buf]}
  /\ fire' = [fire EXCEPT ![t].pc = "free", ![t].ticket = head[t]]
  /\ DrawHead(t)
  /\ UNCHANGED <<tail, slots, ready, payload, remaining, opened, prod>>

freeBuffer(t) ==
  /\ fire[t].pc = "free" /\ Put(t, fire[t].ticket, fire[t].buf)
  /\ fire' = [fire EXCEPT ![t].pc = "loop", ![t].buf = NoBuf]
  /\ UNCHANGED <<head, tail, ready, payload, remaining, opened, prod, consumed>>

\* At the end the firer takes back every buffer before it frees the memory.
drainDraw(t) ==
  /\ fire[t].pc = "drain"
  /\ fire' = [fire EXCEPT ![t].pc = "draintake", ![t].ticket = tail[t]]
  /\ DrawTail(t)
  /\ UNCHANGED <<head, slots, ready, payload, remaining, opened, prod, consumed>>

drainTake(t) ==
  /\ fire[t].pc = "draintake" /\ Take(t, fire[t].ticket)
  /\ fire' = [fire EXCEPT ![t].pc = IF fire[t].n = 1 THEN "done" ELSE "drain", ![t].n = @ - 1]
  /\ UNCHANGED <<head, tail, ready, payload, remaining, opened, prod, consumed>>

----------------------------------------------------------------------------
ProducerStep(p) ==
  \/ open(p) \/ acquireDraw(p) \/ acquireTake(p) \/ releaseBuffer(p)
  \/ close(p) \/ closeFifo(p) \/ fifoDrained(p) \/ join(p)
  \/ \E t \in Targets : consume(p, t)

FireStep(t) ==
  \/ seedDraw(t) \/ seedPut(t) \/ get_ready(t) \/ catch(t) \/ freeBuffer(t)
  \/ drainDraw(t) \/ drainTake(t)

Next == (\E p \in Producers : ProducerStep(p)) \/ (\E t \in Targets : FireStep(t))

Spec == Init /\ [][Next]_vars

\* Every thread keeps running: the code only spins or waits on its queues.
Fairness == /\ \A p \in Producers : WF_vars(ProducerStep(p))
            /\ \A t \in Targets : WF_vars(FireStep(t))

FairSpec == Spec /\ Fairness

----------------------------------------------------------------------------
\* Properties.

\* Tickets stay even and in range, buffers stay in the pool of their target
\* (router.cpp keeps one pool and one queue per target).
RouterTypeOK ==
  /\ head \in [Targets -> {i \in 0 .. IndexMod - 2 : i % 2 = 0}]
  /\ tail \in [Targets -> {i \in 0 .. IndexMod - 2 : i % 2 = 0}]
  /\ \A t \in Targets, i \in 0 .. RingSize - 1 :
       /\ slots[t][i].marker \in 0 .. IndexMod - 1
       /\ slots[t][i].buf \in Buffers \cup {NoBuf}
       /\ slots[t][i].buf # NoBuf => slots[t][i].buf[1] = t
  /\ payload \in [Buffers -> Tuples \cup {NoTuple}]
  /\ remaining \in 0 .. Cardinality(Producers) /\ opened \in BOOLEAN
  /\ \A p \in Producers : prod[p].buf # NoBuf => prod[p].buf[1] = prod[p].target
  /\ consumed \subseteq Tuples

\* Where a buffer is: filled ring entries, queue positions and the hands of
\* producers and firers.
Places(b) ==
  LET t == b[1] IN
    {<<"ring", i>> : i \in {j \in 0 .. RingSize - 1 : Odd(slots[t][j].marker) /\ slots[t][j].buf = b}}
    \cup {<<"ready", i>> : i \in {j \in 1 .. Len(ready[t].queue) : ready[t].queue[j] = b}}
    \cup {<<"producer", p>> : p \in {q \in Producers : prod[q].buf = b}}
    \cup {<<"firer", u>> : u \in {v \in Targets : fire[v].buf = b}}

\* Ring tickets are drawn and honoured in separate steps (threadsafe-set.hpp);
\* still no buffer is ever in two places, and none vanishes between the
\* firer's seeding and its final drain: two producers never fill one buffer.
BufferInOneHand ==
  \A b \in Buffers :
    /\ Cardinality(Places(b)) <= 1
    /\ fire[b[1]].pc \in {"loop", "consume", "free"} => Cardinality(Places(b)) = 1

\* fire() frees the buffers' memory when it is done (router.cpp:311): by then
\* no producer holds one, waits for one or has one still to acquire.
NoUseAfterFree ==
  \A t \in Targets : fire[t].pc = "done" =>
    /\ ready[t].queue = <<>>
    /\ \A p \in Producers : prod[p].pc \in {"close", "drain", "join", "done"}

\* A router buffer is in one place, from the seeding of its pool to the final
\* drain, and its memory is freed when no producer can touch it again
\* (router.cpp:160-318, threadsafe-set.hpp:54-68).
RoutedBuffersSafe ==
  /\ BufferInOneHand
  /\ NoUseAfterFree

InFlight ==
  {payload[b] : b \in {c \in Buffers : \E i \in 1 .. Len(ready[c[1]].queue) : ready[c[1]].queue[i] = c}}
  \cup {payload[fire[t].buf] : t \in {u \in Targets : fire[u].pc = "consume"}}

Abstract == INSTANCE Exchange WITH inflight <- InFlight, delivered <- consumed,
  closed <- ~opened /\ \E p \in Producers : prod[p].pc = "done"

\* The rings, queues and threads together are an exchange: every routed tuple
\* is consumed exactly once, and none is under way when the last close()
\* returns (router.cpp:357-521).
ImplementsExchange == Abstract!Spec

\* Whatever the policy and however scarce the buffers, every producer's
\* close() returns, with every tuple consumed and every firer finished.
CloseReturns ==
  <>[](/\ \A p \in Producers : prod[p].pc = "done"
       /\ \A t \in Targets : fire[t].pc = "done"
       /\ consumed = Tuples)
=============================================================================
