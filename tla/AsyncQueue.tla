----------------------------- MODULE AsyncQueue -----------------------------
(***************************************************************************)
(* AsyncQueueSPSC, also used as AsyncQueueMPSC: the blocking queue between *)
(* the threads of a query pipeline.  Producers push under a mutex and      *)
(* notify after it; the only consumer refills a small cache under the      *)
(* mutex and then pops from it without; close() waits, on the same         *)
(* condition variable, until queue and cache are empty.                    *)
(***************************************************************************)
EXTENDS Integers, Sequences

CONSTANTS Producers, NumItems, CacheCap

VARIABLES data,         \* the std::queue
          cache,        \* cache_data[0 .. cache_size - 1], popped from the end
          terminating,
          sent,         \* how many items each producer has pushed
          unnotified,   \* producers between the mutex and their notify_one
          consumer, closer,
          pushed, got   \* everything pushed and popped so far

vars == <<data, cache, terminating, sent, unnotified, consumer, closer, pushed, got>>

Items == Producers \X (1..NumItems)

\* The cache is an array that is popped from its end.
LastFirst(c) == [i \in 1..Len(c) |-> c[Len(c) - i + 1]]

Init ==
  /\ data = <<>>
  /\ cache = <<>>
  /\ terminating = FALSE
  /\ sent = [p \in Producers |-> 0]
  /\ unnotified = {}
  /\ consumer = "pop"
  /\ closer = "open"
  /\ pushed = <<>>
  /\ got = <<>>

\* What notify_all does to a thread.
Waken(loc) == IF loc = "asleep" THEN "woken" ELSE loc

-----------------------------------------------------------------------------
(* A producer *)

push(p) ==
  /\ p \notin unnotified
  /\ sent[p] < NumItems
  /\ sent' = [sent EXCEPT ![p] = @ + 1]
  /\ data' = Append(data, <<p, sent'[p]>>)
  /\ pushed' = Append(pushed, <<p, sent'[p]>>)
  /\ unnotified' = unnotified \cup {p}
  /\ UNCHANGED <<cache, terminating, consumer, closer, got>>

\* Only the consumer can be waiting: close() comes after the last push().
notify_one(p) ==
  /\ p \in unnotified
  /\ unnotified' = unnotified \ {p}
  /\ consumer' = Waken(consumer)
  /\ UNCHANGED <<data, cache, terminating, sent, closer, pushed, got>>

-----------------------------------------------------------------------------
(* The consumer calls pop() until it returns false *)

PopCached ==
  /\ consumer = "pop"
  /\ cache # <<>>
  /\ got' = Append(got, cache[Len(cache)])
  /\ cache' = SubSeq(cache, 1, Len(cache) - 1)
  /\ UNCHANGED <<data, terminating, sent, unnotified, consumer, closer, pushed>>

\* As Refill, filling the cache in the order of the queue.
RefillForward ==
  LET n == IF Len(data) - 1 < CacheCap THEN Len(data) - 1 ELSE CacheCap IN
  /\ got' = Append(got, Head(data))
  /\ cache' = SubSeq(data, 2, n + 1)
  /\ data' = SubSeq(data, n + 2, Len(data))

\* The head goes to the caller, and up to CacheCap more into the cache, last
\* one first.
Refill ==
  LET n == IF Len(data) - 1 < CacheCap THEN Len(data) - 1 ELSE CacheCap IN
  /\ got' = Append(got, Head(data))
  /\ cache' = LastFirst(SubSeq(data, 2, n + 1))
  /\ data' = SubSeq(data, n + 2, Len(data))

\* pop() under the mutex, from its start or after a wake-up.
PopLocked ==
  /\ consumer = "woken" \/ (consumer = "pop" /\ cache = <<>>)
  /\ \/ /\ data = <<>>
        /\ consumer' = IF terminating THEN "end" ELSE "asleep"
        /\ UNCHANGED <<data, cache, got>>
     \/ /\ data # <<>>
        /\ Refill
        /\ consumer' = "pop"
  /\ UNCHANGED <<terminating, sent, unnotified, closer, pushed>>

\* As PopEnd, without waking close().
PopEndSilent ==
  /\ consumer = "end"
  /\ consumer' = "done"
  /\ UNCHANGED <<data, cache, terminating, sent, unnotified, closer, pushed, got>>

\* The notification that ends the last pop(), after the mutex.
PopEnd ==
  /\ consumer = "end"
  /\ consumer' = "done"
  /\ closer' = Waken(closer)
  /\ UNCHANGED <<data, cache, terminating, sent, unnotified, pushed, got>>

-----------------------------------------------------------------------------
(* The last producer to finish calls close() *)

Drained == cache = <<>> /\ data = <<>>

close ==
  /\ closer = "open"
  /\ unnotified = {} /\ \A p \in Producers : sent[p] = NumItems
  /\ terminating' = TRUE
  /\ consumer' = Waken(consumer)
  /\ closer' = IF Drained THEN "closed" ELSE "asleep"
  /\ UNCHANGED <<data, cache, sent, unnotified, pushed, got>>

CloseWoken ==
  /\ closer = "woken"
  /\ closer' = IF Drained THEN "closed" ELSE "asleep"
  /\ UNCHANGED <<data, cache, terminating, sent, unnotified, consumer, pushed, got>>

\* Either waiting thread may wake up for no reason.
SpuriousWakeup ==
  /\ \/ consumer = "asleep" /\ consumer' = "woken" /\ UNCHANGED closer
     \/ closer = "asleep" /\ closer' = "woken" /\ UNCHANGED consumer
  /\ UNCHANGED <<data, cache, terminating, sent, unnotified, pushed, got>>

-----------------------------------------------------------------------------
Producing == \E p \in Producers : push(p) \/ notify_one(p)

Consuming == PopCached \/ PopLocked \/ PopEnd

Closing == close \/ CloseWoken

Next == Producing \/ Consuming \/ Closing \/ SpuriousWakeup

Spec == Init /\ [][Next]_vars

\* Every thread keeps running while it is not blocked.
FairSpec ==
  /\ Spec
  /\ \A p \in Producers : WF_vars(push(p) \/ notify_one(p))
  /\ WF_vars(Consuming)
  /\ WF_vars(Closing)

-----------------------------------------------------------------------------
(* Properties *)

\* The queue, its cache and the threads are in one of the states of the code;
\* the cache never exceeds its array.
TypeOK ==
  /\ data \in Seq(Items) /\ cache \in Seq(Items) /\ Len(cache) <= CacheCap
  /\ terminating \in BOOLEAN
  /\ sent \in [Producers -> 0..NumItems]
  /\ unnotified \subseteq Producers
  /\ consumer \in {"pop", "asleep", "woken", "end", "done"}
  /\ closer \in {"open", "asleep", "woken", "closed"}

\* Nobody sleeps through the last notification: the consumer sees the end and
\* close() returns, though popping from the cache never notifies.
BothSidesFinish == <>(closer = "closed" /\ consumer = "done")

\* The queue with its cache implements the channel.
Chan == INSTANCE Channel WITH
  Values <- Items,
  queue <- LastFirst(cache) \o data,
  closing <- terminating,
  closed <- closer = "closed",
  ended <- consumer = "done"

\* Every step of the threads is a step of the channel or changes nothing it
\* can see, and the promises of a fair channel are kept.
ImplementsChannel == Chan!FairSpec
=============================================================================
