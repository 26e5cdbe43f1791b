---------------------------- MODULE RouterProofs ----------------------------
(***************************************************************************)
(* The router for any number of producers, targets, buffers, ring entries  *)
(* and tuples: a buffer is always in one place, its memory is freed after  *)
(* its last use, and the router implements an exchange.                    *)
(***************************************************************************)
EXTENDS RouterInvariant, FiniteSetTheorems

-----------------------------------------------------------------------------
(* Closing *)

\* Cardinalities of subsets of the finite set of producers.
LEMMA ProducerSets ==
  ASSUME NEW S \in SUBSET Producers
  PROVE  /\ IsFiniteSet(S) /\ Cardinality(S) \in Nat
         /\ Cardinality(S) <= Cardinality(Producers) /\ Cardinality(Producers) \in Nat
         /\ Cardinality(S) = 0 <=> S = {}
         /\ \A p \in S : Cardinality(S \ {p}) = Cardinality(S) - 1
  <1>1. IsFiniteSet(Producers)
    BY ConstantsAssumption
  <1>2. IsFiniteSet(S) /\ Cardinality(S) <= Cardinality(Producers)
    BY <1>1, FS_Subset
  <1>3. Cardinality(S) \in Nat /\ Cardinality(Producers) \in Nat
    BY <1>1, <1>2, FS_CardinalityType
  <1>4. Cardinality(S) = 0 <=> S = {}
    BY <1>2, FS_EmptySet
  <1>5. ASSUME NEW p \in S PROVE Cardinality(S \ {p}) = Cardinality(S) - 1
    BY <1>2, <1>5, FS_RemoveElement
  <1> QED BY <1>2, <1>3, <1>4, <1>5

\* A producer that has opened and does not close stays as active as it was.
LEMMA ActiveSame ==
  ASSUME NEW p \in Producers,
         \A q \in Producers : q # p => prod'[q] = prod[q],
         \/ /\ prod[p].pc \in {"route", "draw", "take", "fill"}
            /\ prod'[p].pc \in {"route", "draw", "take", "fill"}
         \/ /\ prod[p].pc \in {"close", "drain", "join"}
            /\ prod'[p].pc \in {"close", "drain", "join", "done"}
  PROVE  Active' = Active /\ ~Fresh /\ ~Fresh'
  <1>1. prod[p].pc # "open" /\ prod'[p].pc # "open"
    OBVIOUS
  <1>2. ~Fresh /\ ~Fresh'
    BY <1>1 DEF Fresh
  <1>3. Active' = Active
    BY DEF Active
  <1> QED BY <1>2, <1>3

\* The count of open producers stays exact, and queues and firers close
\* only when it is zero.
LEMMA ClosingStep ==
  ASSUME IInv, Next
  PROVE  Closing'
  <1>t. Types /\ ProducersSound /\ FirersSound
    BY DEF IInv
  <1>p. prod \in [Producers -> ProducerStates]
    BY <1>t DEF Types
  <1>c. /\ remaining = IF Fresh THEN 0 ELSE Cardinality(Active)
        /\ ~opened => Fresh \/ Active = {}
        /\ \A p \in Producers : prod[p].pc \in {"close", "drain", "join"} => Active = {}
        /\ \A t \in Targets : ready[t].closing => Active = {} /\ ~Fresh
        /\ \A t \in Targets :
             fire[t].pc \in {"drain", "draintake", "done"} => ready[t].closing /\ ready[t].queue = <<>>
        /\ Fresh => \A t \in Targets : fire[t].pc = "none"
        /\ \A p \in Producers : prod[p].pc = "done" => opened \/ \A t \in Targets : fire[t].pc = "done"
    BY DEF IInv, Closing
  <1>g. ASSUME /\ remaining' = IF Fresh' THEN 0 ELSE Cardinality(Active')
               /\ ~opened' => Fresh' \/ Active' = {}
               /\ \A p \in Producers : prod'[p].pc \in {"close", "drain", "join"} => Active' = {}
               /\ \A t \in Targets : ready'[t].closing => Active' = {} /\ ~Fresh'
               /\ \A t \in Targets :
                    fire'[t].pc \in {"drain", "draintake", "done"} => ready'[t].closing /\ ready'[t].queue = <<>>
               /\ Fresh' => \A t \in Targets : fire'[t].pc = "none"
               /\ \A p \in Producers : prod'[p].pc = "done" => opened' \/ \A t \in Targets : fire'[t].pc = "done"
        PROVE  Closing'
    BY <1>g DEF Closing
  <1>1. ASSUME NEW p \in Producers, open(p), opened PROVE Closing'
    <2>1. /\ prod[p].pc = "open" /\ prod' = [prod EXCEPT ![p].pc = "route"]
          /\ UNCHANGED <<remaining, opened, fire, ready>>
      BY <1>1 DEF open, Go
    <2>2. prod'[p].pc = "route" /\ \A q \in Producers : q # p => prod'[q] = prod[q]
      BY <1>p, <2>1 DEF ProducerStates
    <2>3. Active' = Active /\ ~Fresh /\ ~Fresh'
      BY <1>1, <2>1, <2>2 DEF Active, Fresh
    <2> QED BY <1>c, <1>g, <1>1, <2>1, <2>2, <2>3
  <1>2. ASSUME NEW p \in Producers, open(p), ~opened PROVE Closing'
    <2>1. /\ prod[p].pc = "open" /\ prod' = [prod EXCEPT ![p].pc = "route"]
          /\ remaining' = Cardinality(Producers) /\ opened' = TRUE /\ ready' = ready
          /\ fire' = [t \in Targets |-> [fire[t] EXCEPT !.pc = "seed"]]
      BY <1>2 DEF open, Go
    <2>2. Fresh /\ p \in Active
      BY <1>2, <1>c, <2>1 DEF Active
    <2>3. prod'[p].pc = "route" /\ \A q \in Producers : q # p => prod'[q].pc = "open"
      BY <1>p, <2>1, <2>2 DEF ProducerStates, Fresh
    <2>4. Active' = Producers /\ ~Fresh'
      BY <2>1, <2>3 DEF Active, Fresh
    <2>5. \A t \in Targets : ~ready[t].closing
      BY <1>c, <2>2
    <2>6. \A t \in Targets : fire'[t].pc = "seed"
      <3>1. fire \in [Targets -> FirerStates]
        BY <1>t DEF Types
      <3> QED BY <2>1, <3>1 DEF FirerStates
    <2>7. \A q \in Producers : prod'[q].pc \in {"route", "open"}
      BY <2>3
    <2> QED BY <1>g, <2>1, <2>4, <2>5, <2>6, <2>7, ZenonT(60)
  <1>3. ASSUME NEW p \in Producers,
               \A q \in Producers : q # p => prod'[q] = prod[q],
               prod[p].pc \in {"route", "draw", "take", "fill"},
               prod'[p].pc \in {"route", "draw", "take", "fill"},
               UNCHANGED <<remaining, opened, fire>>,
               \A t \in Targets : ready'[t].closing = ready[t].closing
        PROVE  Closing'
    <2>1. Active' = Active /\ ~Fresh /\ ~Fresh'
      BY <1>3, ActiveSame
    <2>2. p \in Active
      BY <1>3 DEF Active
    <2>3. \A t \in Targets : ~ready[t].closing
      BY <1>c, <2>2
    <2> QED BY <1>c, <1>g, <1>3, <2>1, <2>2, <2>3
  <1>4. ASSUME NEW p \in Producers, NEW t \in Targets, consume(p, t) PROVE Closing'
    <2>1. /\ prod[p].pc = "route" /\ prod' = [prod EXCEPT ![p].pc = "draw", ![p].target = t]
          /\ UNCHANGED <<remaining, opened, fire, ready>>
      BY <1>4 DEF consume
    <2>2. prod'[p].pc = "draw" /\ \A q \in Producers : q # p => prod'[q] = prod[q]
      BY <1>p, <2>1 DEF ProducerStates
    <2> QED BY <1>3, <2>1, <2>2, ZenonT(60)
  <1>5. ASSUME NEW p \in Producers, acquireDraw(p) PROVE Closing'
    <2>1. /\ prod[p].pc = "draw" /\ UNCHANGED <<remaining, opened, fire, ready>>
          /\ prod' = [prod EXCEPT ![p].pc = "take", ![p].ticket = tail[prod[p].target]]
      BY <1>5 DEF acquireDraw
    <2>2. prod'[p].pc = "take" /\ \A q \in Producers : q # p => prod'[q] = prod[q]
      BY <1>p, <2>1 DEF ProducerStates
    <2> QED BY <1>3, <2>1, <2>2, ZenonT(60)
  <1>6. ASSUME NEW p \in Producers, acquireTake(p) PROVE Closing'
    <2>1. /\ prod[p].pc = "take" /\ prod'[p].pc = "fill" /\ UNCHANGED <<remaining, opened, fire, ready>>
          /\ \A q \in Producers : q # p => prod'[q] = prod[q]
      BY <1>6, <1>t, TakeEffect
    <2> QED BY <1>3, <2>1
  <1>7. ASSUME NEW p \in Producers, releaseBuffer(p) PROVE Closing'
    <2>1. /\ prod[p].pc = "fill" /\ prod'[p].pc = "route" /\ UNCHANGED <<remaining, opened, fire>>
          /\ \A q \in Producers : q # p => prod'[q] = prod[q]
          /\ \A t \in Targets : ready'[t].closing = ready[t].closing
      BY <1>7, <1>t, ReleaseEffect, ZenonT(60)
    <2> QED BY <1>3, <2>1
  <1>8. ASSUME NEW p \in Producers, close(p) PROVE Closing'
    <2>1. /\ prod[p].pc = "route" /\ remaining' = remaining - 1
          /\ prod' = [prod EXCEPT ![p].pc = IF remaining = 1 THEN "close" ELSE "done", ![p].target = 0]
          /\ UNCHANGED <<opened, fire, ready>>
      BY <1>8 DEF close
    <2>2. /\ prod'[p].pc = IF remaining = 1 THEN "close" ELSE "done"
          /\ \A q \in Producers : q # p => prod'[q] = prod[q]
      BY <1>p, <2>1 DEF ProducerStates
    <2>n. prod'[p].pc \in {"close", "done"}
      BY <2>2
    <2>3. p \in Active /\ ~Fresh /\ ~Fresh'
      BY <2>1, <2>n, ZenonT(60) DEF Active, Fresh
    <2>4. Active' = Active \ {p}
      BY <2>2, <2>n DEF Active
    <2>5. /\ Cardinality(Active) \in Nat /\ Cardinality(Active \ {p}) = Cardinality(Active) - 1
          /\ Cardinality(Active \ {p}) = 0 <=> Active \ {p} = {}
      <3>1. Active \in SUBSET Producers /\ Active \ {p} \in SUBSET Producers
        BY DEF Active
      <3> QED BY <2>3, <3>1, ProducerSets, ZenonT(60)
    <2>6. remaining' = Cardinality(Active') /\ (remaining = 1 => Active' = {})
      BY <1>c, <2>1, <2>3, <2>4, <2>5
    <2>7. opened /\ \A t \in Targets : ~ready[t].closing
      BY <1>c, <2>3
    <2>8. \A q \in Producers : q # p => prod'[q].pc \notin {"close", "drain", "join"}
      BY <1>c, <2>2, <2>3
    <2>9. \A q \in Producers : prod'[q].pc \in {"close", "drain", "join"} => Active' = {}
      BY <2>2, <2>6, <2>8
    <2>10. \A t \in Targets : ~ready'[t].closing /\ fire'[t].pc \notin {"drain", "draintake", "done"}
      BY <1>c, <2>1, <2>7
    <2> QED BY <1>g, <2>1, <2>3, <2>6, <2>7, <2>9, <2>10, ZenonT(60)
  <1>9. ASSUME NEW p \in Producers, closeFifo(p) \/ fifoDrained(p) \/ join(p) PROVE Closing'
    <2>1. /\ prod[p].pc \in {"close", "drain", "join"} /\ UNCHANGED <<remaining, fire>>
          /\ opened' = opened \/ (opened' = FALSE /\ \A t \in Targets : fire[t].pc = "done")
      BY <1>9 DEF closeFifo, fifoDrained, join
    <2>2. /\ prod'[p].pc \in {"close", "drain", "join", "done"}
          /\ \A q \in Producers : q # p => prod'[q] = prod[q]
          /\ prod'[p].pc = "done" => \A t \in Targets : fire[t].pc = "done"
      BY <1>9, <1>p DEF closeFifo, fifoDrained, join, Go, ProducerStates
    <2>3. Active' = Active /\ ~Fresh /\ ~Fresh' /\ Active = {}
      BY <1>c, <2>1, <2>2, ActiveSame, ZenonT(60)
    <2>4. \A t \in Targets : ready'[t].queue = ready[t].queue /\ (ready[t].closing => ready'[t].closing)
      <3>1. CASE closeFifo(p)
        <4>1. /\ ready' = [ready EXCEPT ![prod[p].target].closing = TRUE] /\ prod[p].target \in Targets
              /\ ready \in [Targets -> [queue : Seq(Buffers), closing : BOOLEAN]]
          BY <3>1, <1>p, <1>t DEF closeFifo, ProducerStates, Types
        <4> QED BY <4>1
      <3>2. CASE fifoDrained(p) \/ join(p)
        BY <3>2 DEF fifoDrained, join
      <3> QED BY <1>9, <3>1, <3>2
    <2>5. \A q \in Producers : prod'[q].pc = "done" => opened' \/ \A t \in Targets : fire'[t].pc = "done"
      BY <1>c, <2>1, <2>2
    <2> QED BY <1>c, <1>g, <2>1, <2>3, <2>4, <2>5
  <1>10. ASSUME NEW t \in Targets,
                \A u \in Targets : u # t => fire'[u] = fire[u],
                fire[t].pc \notin {"none", "done"},
                UNCHANGED <<remaining, opened, prod>>,
                \A u \in Targets : ready'[u].closing = ready[u].closing,
                \A u \in Targets : u # t => ready'[u].queue = ready[u].queue,
                fire'[t].pc \in {"drain", "draintake", "done"} => ready'[t].closing /\ ready'[t].queue = <<>>
         PROVE  Closing'
    <2>1. Active' = Active /\ (Fresh' <=> Fresh)
      BY <1>10 DEF Active, Fresh
    <2>2. ~Fresh
      BY <1>c, <1>10
    <2>3. \A p \in Producers : prod'[p].pc = "done" => opened'
      BY <1>c, <1>10
    <2>4. \A u \in Targets :
            fire'[u].pc \in {"drain", "draintake", "done"} => ready'[u].closing /\ ready'[u].queue = <<>>
      BY <1>c, <1>10
    <2> QED BY <1>c, <1>g, <1>10, <2>1, <2>2, <2>3, <2>4
  <1>11. ASSUME NEW t \in Targets, seedDraw(t) PROVE Closing'
    <2>1. /\ fire[t].pc = "seed" /\ fire'[t].pc = "seedput"
          /\ \A u \in Targets : u # t => fire'[u] = fire[u]
          /\ UNCHANGED <<ready, remaining, opened, prod>>
      BY <1>11, <1>t, SeedEffect
    <2> QED BY <1>10, <2>1
  <1>12. ASSUME NEW t \in Targets, seedPut(t) \/ freeBuffer(t) PROVE Closing'
    <2>1. /\ fire[t].pc \in {"free", "seedput"} /\ fire'[t].pc \in {"loop", "seed"}
          /\ \A u \in Targets : u # t => fire'[u] = fire[u]
          /\ UNCHANGED <<ready, remaining, opened, prod>>
      BY <1>12, <1>t, PutEffect
    <2> QED BY <1>10, <2>1
  <1>13. ASSUME NEW t \in Targets, get_ready(t), ready[t].queue # <<>> PROVE Closing'
    <2>1. /\ fire[t].pc = "loop" /\ fire'[t].pc = "consume" /\ ready'[t].closing = ready[t].closing
          /\ \A u \in Targets : u # t => fire'[u] = fire[u] /\ ready'[u] = ready[u]
          /\ UNCHANGED <<remaining, opened, prod>>
      BY <1>13, <1>t, GetEffect
    <2> QED BY <1>10, <2>1
  <1>14. ASSUME NEW t \in Targets, catch(t) \/ drainDraw(t) \/ (get_ready(t) /\ ready[t].queue = <<>>)
         PROVE  Closing'
    <2>1. /\ \/ fire[t].pc = "consume" /\ fire'[t].pc = "free"
             \/ fire[t].pc = "drain" /\ fire'[t].pc = "draintake"
             \/ fire[t].pc = "loop" /\ fire'[t].pc = "drain" /\ ready[t].queue = <<>> /\ ready[t].closing
          /\ \A u \in Targets : u # t => fire'[u] = fire[u]
          /\ UNCHANGED <<ready, remaining, opened, prod>>
      BY <1>14, <1>t, FireControlEffect
    <2>2. fire'[t].pc \in {"drain", "draintake", "done"} => ready'[t].closing /\ ready'[t].queue = <<>>
      BY <1>c, <2>1
    <2> QED BY <1>10, <2>1, <2>2
  <1>15. ASSUME NEW t \in Targets, drainTake(t) PROVE Closing'
    <2>1. /\ fire[t].pc = "draintake"
          /\ \A u \in Targets : u # t => fire'[u] = fire[u]
          /\ UNCHANGED <<ready, remaining, opened, prod>>
      BY <1>15, <1>t, DrainEffect
    <2>2. ready'[t].closing /\ ready'[t].queue = <<>>
      BY <1>c, <2>1
    <2> QED BY <1>10, <2>1, <2>2
  <1> QED
    BY <1>1, <1>2, <1>4, <1>5, <1>6, <1>7, <1>8, <1>9, <1>11, <1>12, <1>13, <1>14, <1>15, Steps, ZenonT(60)

-----------------------------------------------------------------------------
(* Tuples on their way *)

\* A step that leaves the queues alone, and no firer starts or stops
\* consuming in, moves no tuple.
LEMMA SameCarrying ==
  ASSUME \A t \in Targets : ready'[t].queue = ready[t].queue,
         \A t \in Targets : \/ fire'[t].pc = fire[t].pc /\ fire'[t].buf = fire[t].buf
                            \/ fire[t].pc # "consume" /\ fire'[t].pc # "consume",
         NEW b \in Buffers
  PROVE  Carrying(b)' <=> Carrying(b)
  <1>0. b[1] \in Targets
    BY BufferFacts
  <1>1. \A i \in Nat : InReady(b, i)' <=> InReady(b, i)
    BY <1>0 DEF InReady
  <1>2. (InFire(b) /\ fire[b[1]].pc = "consume")' <=> (InFire(b) /\ fire[b[1]].pc = "consume")
    BY <1>0 DEF InFire
  <1> QED BY <1>1, <1>2 DEF Carrying

\* Quiet steps, releaseBuffer and catch are all that can happen to tuples.
Still ==
  /\ \A b \in Buffers : Carrying(b)' <=> Carrying(b)
  /\ payload' = payload /\ consumed' = consumed
  /\ \A p \in Producers : prod'[p].sent = prod[p].sent

Released(p, c) ==
  /\ releaseBuffer(p)
  /\ ~Carrying(c) /\ \A b \in Buffers : Carrying(b)' <=> Carrying(b) \/ b = c
  /\ <<p, prod[p].sent + 1>> \in Tuples
  /\ payload' = [payload EXCEPT ![c] = <<p, prod[p].sent + 1>>] /\ consumed' = consumed
  /\ prod'[p].sent = prod[p].sent + 1
  /\ \A q \in Producers : q # p => prod'[q].sent = prod[q].sent

Caught(t, c) ==
  /\ catch(t)
  /\ Carrying(c) /\ \A b \in Buffers : Carrying(b)' <=> Carrying(b) /\ b # c
  /\ payload' = payload /\ consumed' = consumed \cup {payload[c]}
  /\ \A p \in Producers : prod'[p].sent = prod[p].sent

\* releaseBuffer puts a tuple on its way in a buffer that carried none.
LEMMA ReleaseCarries ==
  ASSUME IInv, NEW p \in Producers, releaseBuffer(p)
  PROVE  \E c \in Buffers : Released(p, c)
  <1>t. Types /\ ProducersSound /\ Buffered
    BY DEF IInv
  <1>1. PICK t \in Targets, c \in Buffers :
          /\ t = prod[p].target /\ c = prod[p].buf /\ c[1] = t
          /\ <<p, prod[p].sent + 1>> \in Tuples
          /\ payload' = [payload EXCEPT ![c] = <<p, prod[p].sent + 1>>]
          /\ \A q \in Producers : q # p => prod'[q] = prod[q]
          /\ prod[p].pc = "fill" /\ prod'[p].pc = "route" /\ prod'[p].sent = prod[p].sent + 1
          /\ prod'[p].target = t /\ prod'[p].buf = NoBuf /\ prod[p].sent < Quota[p]
          /\ ready'[t].queue = Append(ready[t].queue, c) /\ ready'[t].closing = ready[t].closing
          /\ \A u \in Targets : u # t => ready'[u] = ready[u]
          /\ UNCHANGED <<slots, remaining, opened, fire, consumed>>
    BY <1>t, ReleaseEffect, ZenonT(60)
  <1>n. PICK n \in Nat : n = Len(ready[t].queue)
    BY <1>t DEF Types
  <1>2. /\ Len(ready'[t].queue) = n + 1 /\ ready'[t].queue[n + 1] = c
        /\ \A i \in 1 .. n : ready'[t].queue[i] = ready[t].queue[i]
    <2> DEFINE r == ready[t].queue
    <2>1. r \in Seq(Buffers)
      BY <1>t DEF Types
    <2>2. /\ Len(Append(r, c)) = n + 1 /\ Append(r, c)[n + 1] = c
          /\ \A i \in 1 .. n : Append(r, c)[i] = r[i]
      BY <1>n, <2>1, QueueFacts
    <2>3. ready'[t].queue = Append(r, c)
      BY <1>1, ZenonT(60)
    <2> QED BY <2>2, <2>3
  <1>3. InHand(c, p) /\ Once(c)
    BY <1>1, <1>t, ZenonT(60) DEF InHand, Buffered
  <1>4. ~Carrying(c)
    BY <1>3 DEF Once, Carrying
  <1>5. InReady(c, n + 1)'
    <2>1. c[1] = t
      BY <1>1, ZenonT(60)
    <2>2. n + 1 \in 1 .. n + 1
      OBVIOUS
    <2> QED BY <1>2, <2>1, <2>2 DEF InReady
  <1>6. Carrying(c)'
    BY <1>5 DEF Carrying
  <1>7. ASSUME NEW b \in Buffers, b # c PROVE Carrying(b)' <=> Carrying(b)
    <2>0. b[1] \in Targets
      BY BufferFacts
    <2>1. \A i \in Nat : InReady(b, i)' <=> InReady(b, i)
      <3>1. CASE b[1] = t
        <4> SUFFICES ASSUME NEW i \in Nat PROVE InReady(b, i)' <=> InReady(b, i)
          OBVIOUS
        <4>1. InReady(b, i) <=> i \in 1 .. n /\ ready[t].queue[i] = b
          BY <1>n, <3>1 DEF InReady
        <4>2. InReady(b, i)' <=> i \in 1 .. n + 1 /\ ready'[t].queue[i] = b
          BY <1>2, <3>1 DEF InReady
        <4> QED BY <1>2, <1>7, <4>1, <4>2
      <3>2. CASE b[1] # t
        BY <1>1, <2>0, <3>2, ZenonT(60) DEF InReady
      <3> QED BY <3>1, <3>2
    <2>2. InFire(b)' <=> InFire(b)
      BY <1>1, ZenonT(60) DEF InFire
    <2> QED BY <1>1, <2>1, <2>2, ZenonT(60) DEF Carrying
  <1>8. \A q \in Producers : q # p => prod'[q].sent = prod[q].sent
    BY <1>1, ZenonT(60)
  <1>9. \A b \in Buffers : Carrying(b)' <=> Carrying(b) \/ b = c
    BY <1>6, <1>7
  <1> QED BY <1>1, <1>4, <1>8, <1>9, ZenonT(60) DEF Released

\* get_ready takes the oldest buffer out of the queue and keeps its tuple on
\* its way.
LEMMA GetCarries ==
  ASSUME IInv, NEW t \in Targets, get_ready(t), ready[t].queue # <<>>
  PROVE  Still
  <1>t. Types /\ FirersSound /\ PoolsSound /\ Buffered
    BY DEF IInv
  <1>1. /\ fire[t].pc = "loop" /\ fire'[t].pc = "consume"
        /\ fire'[t].buf = Head(ready[t].queue)
        /\ ready'[t].queue = Tail(ready[t].queue)
        /\ \A u \in Targets : u # t => fire'[u] = fire[u] /\ ready'[u] = ready[u]
        /\ UNCHANGED <<slots, payload, prod, consumed>>
    BY <1>t, GetEffect, ZenonT(60)
  <1>n. PICK n \in Nat : n = Len(ready[t].queue)
    BY <1>t DEF Types
  <1>2. PICK c \in Buffers :
          /\ c = ready[t].queue[1] /\ c[1] = t /\ fire'[t].buf = c
          /\ n # 0 /\ Len(ready'[t].queue) = n - 1
          /\ \A i \in 1 .. n - 1 : ready'[t].queue[i] = ready[t].queue[i + 1]
    <2> DEFINE r == ready[t].queue
    <2>1. r \in Seq(Buffers)
      BY <1>t DEF Types
    <2>2. /\ 1 \in 1 .. n /\ Head(r) = r[1] /\ Head(r) \in Buffers
          /\ Len(Tail(r)) = n - 1 /\ \A i \in 1 .. n - 1 : Tail(r)[i] = r[i + 1]
      BY <1>n, <2>1, QueueFacts
    <2>3. r[1][1] = t
      BY <1>n, <1>t, <2>2 DEF PoolsSound
    <2> HIDE DEF r
    <2> QED BY <1>1, <2>2, <2>3 DEF r
  <1>3. ASSUME NEW b \in Buffers PROVE Carrying(b)' <=> Carrying(b)
    <2>0. b[1] \in Targets
      BY BufferFacts
    <2>1. CASE b[1] # t
      <3>1. \A i \in Nat : InReady(b, i)' <=> InReady(b, i)
        BY <1>1, <2>0, <2>1 DEF InReady
      <3>2. (InFire(b) /\ fire[b[1]].pc = "consume")' <=> (InFire(b) /\ fire[b[1]].pc = "consume")
        BY <1>1, <2>0, <2>1 DEF InFire
      <3> QED BY <3>1, <3>2 DEF Carrying
    <2>2. CASE b = c
      <3>1. InReady(b, 1)
        BY <1>n, <1>2, <2>2, SMTT(30) DEF InReady
      <3>2. InFire(b)' /\ fire'[b[1]].pc = "consume"
        BY <1>1, <1>2, <2>2 DEF InFire
      <3> QED BY <3>1, <3>2, SMTT(30) DEF Carrying
    <2>3. CASE b[1] = t /\ b # c
      <3>1. ~InFire(b)' /\ fire[b[1]].pc # "consume"
        BY <1>1, <1>2, <2>3 DEF InFire
      <3>2. \A i \in Nat : InReady(b, i) <=> i \in 1 .. n /\ ready[t].queue[i] = b
        BY <1>n, <2>3 DEF InReady
      <3>3. \A i \in Nat : InReady(b, i)' <=> i \in 1 .. n - 1 /\ ready'[t].queue[i] = b
        BY <1>2, <2>3 DEF InReady
      <3>4. ASSUME NEW i \in Nat, InReady(b, i) PROVE \E j \in Nat : InReady(b, j)'
        <4>1. i \in 1 .. n /\ ready[t].queue[i] = b /\ i # 1
          BY <1>2, <2>3, <3>2, <3>4
        <4>2. i - 1 \in 1 .. n - 1 /\ (i - 1) + 1 = i
          BY <4>1
        <4>3. ready'[t].queue[i - 1] = b
          BY <1>2, <4>1, <4>2
        <4> QED BY <3>3, <4>2, <4>3
      <3>5. ASSUME NEW i \in Nat, InReady(b, i)' PROVE \E j \in Nat : InReady(b, j)
        <4>1. i \in 1 .. n - 1 /\ ready'[t].queue[i] = b
          BY <3>3, <3>5
        <4>2. i + 1 \in 1 .. n /\ ready[t].queue[i + 1] = b
          BY <1>2, <4>1
        <4> QED BY <3>2, <4>2
      <3> QED BY <3>1, <3>4, <3>5 DEF Carrying
    <2> QED BY <2>1, <2>2, <2>3
  <1> QED BY <1>1, <1>3 DEF Still

\* catch takes the tuple out of the buffer it holds and out of no other.
LEMMA CatchCarries ==
  ASSUME IInv, NEW t \in Targets, catch(t)
  PROVE  \E c \in Buffers : Caught(t, c)
  <1>t. Types /\ FirersSound /\ Buffered
    BY DEF IInv
  <1>1. /\ fire[t].pc = "consume" /\ consumed' = consumed \cup {payload[fire[t].buf]}
        /\ fire'[t].pc = "free" /\ fire'[t].buf = fire[t].buf
        /\ \A u \in Targets : u # t => fire'[u] = fire[u]
        /\ UNCHANGED <<ready, payload, prod>>
    <2>1. fire[t].pc = "consume"
      BY DEF catch
    <2> QED BY <1>t, <2>1, FireControlEffect
  <1>2. PICK c \in Buffers : c = fire[t].buf /\ c[1] = t
    <2>1. fire[t].buf # NoBuf /\ fire[t].buf[1] = t
      BY <1>1, <1>t DEF FirersSound
    <2>2. fire[t].buf \in Buffers \cup {NoBuf}
      BY <1>t DEF Types, FirerStates
    <2> QED BY <2>1, <2>2
  <1>3. InFire(c) /\ Once(c)
    BY <1>t, <1>2, ZenonT(60) DEF InFire, Buffered
  <1>4. Carrying(c)
    BY <1>1, <1>2, <1>3 DEF Carrying
  <1>5. ASSUME NEW b \in Buffers PROVE Carrying(b)' <=> Carrying(b) /\ b # c
    <2>0. b[1] \in Targets
      BY BufferFacts
    <2>1. \A i \in Nat : InReady(b, i)' <=> InReady(b, i)
      BY <1>1 DEF InReady
    <2>2. CASE b = c
      <3>1. \A i \in Nat : ~InReady(b, i)
        BY <1>3, <2>2 DEF Once
      <3>2. fire'[b[1]].pc # "consume"
        BY <1>1, <1>2, <2>2
      <3> QED BY <2>1, <2>2, <3>1, <3>2 DEF Carrying
    <2>3. CASE b # c
      <3>1. (InFire(b) /\ fire[b[1]].pc = "consume")' <=> (InFire(b) /\ fire[b[1]].pc = "consume")
        BY <1>1, <1>2, <2>0, <2>3 DEF InFire
      <3> QED BY <2>1, <2>3, <3>1 DEF Carrying
    <2> QED BY <2>2, <2>3
  <1>6. \A p \in Producers : prod'[p].sent = prod[p].sent
    BY <1>1
  <1> QED BY <1>1, <1>2, <1>4, <1>5, <1>6 DEF Caught

\* Every step moves no tuple, releases one or catches one.
LEMMA Flow ==
  ASSUME IInv, Next
  PROVE  \/ Still
         \/ \E p \in Producers, c \in Buffers : Released(p, c)
         \/ \E t \in Targets, c \in Buffers : Caught(t, c)
  <1>t. Types /\ ProducersSound /\ FirersSound /\ Closing
    BY DEF IInv
  <1>0. ASSUME \A t \in Targets : ready'[t].queue = ready[t].queue,
               \A t \in Targets : \/ fire'[t].pc = fire[t].pc /\ fire'[t].buf = fire[t].buf
                                  \/ fire[t].pc # "consume" /\ fire'[t].pc # "consume",
               payload' = payload, consumed' = consumed,
               \A p \in Producers : prod'[p].sent = prod[p].sent
        PROVE  Still
    BY <1>0, SameCarrying, ZenonT(60) DEF Still
  <1>1. ASSUME NEW p \in Producers,
               \/ open(p) \/ acquireDraw(p) \/ close(p) \/ closeFifo(p) \/ fifoDrained(p) \/ join(p)
               \/ \E t \in Targets : consume(p, t)
        PROVE  Still
    <2>1. /\ \A q \in Producers : prod'[q].sent = prod[q].sent
          /\ payload' = payload /\ consumed' = consumed
          /\ \A t \in Targets : ready'[t].queue = ready[t].queue /\ fire'[t].buf = fire[t].buf
      BY <1>1, <1>t, ControlEffect, ZenonT(60)
    <2>2. CASE open(p) /\ ~opened
      <3>1. p \in Active /\ Fresh
        BY <1>t, <2>2 DEF Closing, Active, open
      <3>2. \A t \in Targets : fire[t].pc = "none"
        BY <1>t, <3>1 DEF Closing
      <3>3. \A t \in Targets : fire'[t].pc = "seed"
        BY <1>t, <2>2 DEF open, Types, FirerStates
      <3> QED BY <1>0, <2>1, <3>2, <3>3
    <2>3. CASE ~(open(p) /\ ~opened)
      <3>1. fire' = fire
        BY <1>1, <2>3 DEF open, acquireDraw, close, closeFifo, fifoDrained, join, consume
      <3> QED BY <1>0, <2>1, <3>1, SMTT(30)
    <2> QED BY <2>2, <2>3
  <1>2. ASSUME NEW p \in Producers, acquireTake(p) PROVE Still
    <2>1. /\ \A q \in Producers : prod'[q].sent = prod[q].sent
          /\ UNCHANGED <<ready, payload, fire, consumed>>
      BY <1>2, <1>t, TakeEffect
    <2> QED BY <1>0, <2>1
  <1>3. ASSUME NEW t \in Targets, seedDraw(t) PROVE Still
    <2>1. /\ fire[t].pc = "seed" /\ fire'[t].pc = "seedput"
          /\ \A u \in Targets : u # t => fire'[u] = fire[u]
          /\ UNCHANGED <<ready, payload, prod, consumed>>
      BY <1>3, <1>t, SeedEffect
    <2> QED BY <1>0, <2>1
  <1>4. ASSUME NEW t \in Targets, seedPut(t) \/ freeBuffer(t) PROVE Still
    <2>1. /\ fire[t].pc \in {"free", "seedput"} /\ fire'[t].pc \in {"loop", "seed"}
          /\ \A u \in Targets : u # t => fire'[u] = fire[u]
          /\ UNCHANGED <<ready, payload, prod, consumed>>
      BY <1>4, <1>t, PutEffect
    <2> QED BY <1>0, <2>1
  <1>5. ASSUME NEW t \in Targets, drainDraw(t) \/ (get_ready(t) /\ ready[t].queue = <<>>) PROVE Still
    <2>1. /\ fire[t].pc # "consume" /\ fire'[t].pc # "consume" /\ consumed' = consumed
          /\ \A u \in Targets : u # t => fire'[u] = fire[u]
          /\ UNCHANGED <<ready, payload, prod>>
      <3>1. fire[t].pc # "consume"
        BY <1>5 DEF drainDraw, get_ready
      <3> QED BY <1>5, <1>t, <3>1, FireControlEffect, ZenonT(60)
    <2> QED BY <1>0, <2>1
  <1>6. ASSUME NEW t \in Targets, drainTake(t) PROVE Still
    <2>1. /\ fire[t].pc = "draintake" /\ fire'[t].pc \in {"done", "drain"}
          /\ \A u \in Targets : u # t => fire'[u] = fire[u]
          /\ UNCHANGED <<ready, payload, prod, consumed>>
      BY <1>6, <1>t, DrainEffect
    <2> QED BY <1>0, <2>1
  <1> QED BY <1>1, <1>2, <1>3, <1>4, <1>5, <1>6, ReleaseCarries, GetCarries, CatchCarries, Steps, ZenonT(60)

\* Tuples on their way stay different, routed and unconsumed.
LEMMA CarriedStep ==
  ASSUME IInv, Next
  PROVE  Carried'
  <1>t. /\ \A b \in Buffers : Carrying(b) =>
             /\ payload[b] \in Tuples /\ payload[b] \notin consumed
             /\ payload[b][2] <= prod[payload[b][1]].sent
        /\ \A b, c \in Buffers : Carrying(b) /\ Carrying(c) /\ payload[b] = payload[c] => b = c
        /\ \A x \in consumed : x[2] <= prod[x[1]].sent
    BY DEF IInv, Carried
  <1>y. /\ payload \in [Buffers -> Tuples \cup {NoTuple}] /\ consumed \subseteq Tuples
        /\ \A p \in Producers : prod[p].sent \in Nat
    BY DEF IInv, Types, ProducerStates
  <1>x. \A x \in Tuples : x[1] \in Producers /\ x[2] \in Nat
    BY ConstantsAssumption DEF Tuples
  <1>1. CASE Still
    <2>1. /\ \A b \in Buffers : Carrying(b)' <=> Carrying(b)
          /\ payload' = payload /\ consumed' = consumed
          /\ \A p \in Producers : prod'[p].sent = prod[p].sent
      BY <1>1 DEF Still
    <2>2. \A x \in Tuples : prod'[x[1]].sent = prod[x[1]].sent
      BY <1>x, <2>1
    <2> QED BY <1>t, <1>y, <2>1, <2>2 DEF Carried
  <1>2. ASSUME NEW p \in Producers, NEW c \in Buffers, Released(p, c) PROVE Carried'
    <2>1. /\ ~Carrying(c) /\ \A b \in Buffers : Carrying(b)' <=> Carrying(b) \/ b = c
          /\ <<p, prod[p].sent + 1>> \in Tuples
          /\ payload' = [payload EXCEPT ![c] = <<p, prod[p].sent + 1>>] /\ consumed' = consumed
          /\ prod'[p].sent = prod[p].sent + 1
          /\ \A q \in Producers : q # p => prod'[q].sent = prod[q].sent
      BY <1>2, ZenonT(60) DEF Released
    <2> DEFINE y == <<p, prod[p].sent + 1>>
    <2>2. y[1] = p /\ y[2] = prod[p].sent + 1 /\ y \in Tuples
      BY <2>1
    <2>3. \A x \in Tuples : prod[x[1]].sent \in Nat /\ prod'[x[1]].sent \in Nat
                            /\ prod[x[1]].sent <= prod'[x[1]].sent
      BY <1>x, <1>y, <2>1
    <2>4. \A x \in Tuples : x[2] <= prod[x[1]].sent => x # y /\ x[2] <= prod'[x[1]].sent
      BY <1>x, <1>y, <2>2, <2>3
    <2>5. payload'[c] = y /\ \A b \in Buffers : b # c => payload'[b] = payload[b]
      BY <1>y, <2>1
    <2>6. y \notin consumed /\ y[2] <= prod'[y[1]].sent
      BY <1>t, <1>y, <2>1, <2>2, <2>4
    <2> HIDE DEF y
    <2>7. \A b \in Buffers : Carrying(b) => payload[b] # y
      BY <1>t, <2>4
    <2>8. \A b \in Buffers : Carrying(b)' =>
            /\ payload'[b] \in Tuples /\ payload'[b] \notin consumed'
            /\ payload'[b][2] <= prod'[payload'[b][1]].sent
      <3> SUFFICES ASSUME NEW b \in Buffers, Carrying(b)'
                   PROVE  /\ payload'[b] \in Tuples /\ payload'[b] \notin consumed'
                          /\ payload'[b][2] <= prod'[payload'[b][1]].sent
        OBVIOUS
      <3>1. CASE b = c
        BY <2>1, <2>2, <2>5, <2>6, <3>1, SMTT(30)
      <3>2. CASE b # c
        <4>1. payload'[b] = payload[b] /\ Carrying(b)
          BY <2>1, <2>5, <3>2, ZenonT(60)
        <4> QED BY <1>t, <2>1, <2>4, <4>1
      <3> QED BY <3>1, <3>2, ZenonT(60)
    <2>9. \A b, d \in Buffers : Carrying(b)' /\ Carrying(d)' /\ payload'[b] = payload'[d] => b = d
      BY <1>t, <2>1, <2>5, <2>7, ZenonT(60)
    <2>10. \A x \in consumed' : x[2] <= prod'[x[1]].sent
      BY <1>t, <1>y, <2>1, <2>4
    <2> QED BY <2>8, <2>9, <2>10 DEF Carried
  <1>3. ASSUME NEW t \in Targets, NEW c \in Buffers, Caught(t, c) PROVE Carried'
    <2>1. /\ Carrying(c) /\ \A b \in Buffers : Carrying(b)' <=> Carrying(b) /\ b # c
          /\ payload' = payload /\ consumed' = consumed \cup {payload[c]}
          /\ \A p \in Producers : prod'[p].sent = prod[p].sent
      BY <1>3 DEF Caught
    <2>2. \A x \in Tuples : prod'[x[1]].sent = prod[x[1]].sent
      BY <1>x, <2>1
    <2>3. \A b \in Buffers : Carrying(b)' => payload[b] # payload[c] /\ payload[b] \notin consumed
      BY <1>t, <2>1
    <2>4. \A x \in consumed' : x \in Tuples /\ x[2] <= prod'[x[1]].sent
      BY <1>t, <1>y, <2>1, <2>2
    <2>5. \A b \in Buffers : Carrying(b)' =>
            /\ payload'[b] \in Tuples /\ payload'[b] \notin consumed'
            /\ payload'[b][2] <= prod'[payload'[b][1]].sent
      BY <1>t, <2>1, <2>2, <2>3
    <2> QED BY <1>t, <2>1, <2>4, <2>5 DEF Carried
  <1> QED BY <1>1, <1>2, <1>3, Flow

-----------------------------------------------------------------------------
(* The invariant *)

\* The router before its first open() satisfies the invariant.
LEMMA InitIInv == Init => IInv
  <1> SUFFICES ASSUME Init PROVE IInv
    OBVIOUS
  <1>t. Types
    BY InitTypes
  <1>p. \A p \in Producers : prod[p].pc = "open" /\ prod[p].sent = 0 /\ prod[p].buf = NoBuf
    BY DEF Init
  <1>f. \A t \in Targets : fire[t].pc = "none" /\ fire[t].n = 0 /\ fire[t].buf = NoBuf
    BY DEF Init
  <1>r. \A t \in Targets : ready[t].queue = <<>> /\ ~ready[t].closing
    BY DEF Init
  <1>s. \A t \in Targets, i \in Ring : slots[t][i].buf = NoBuf /\ ~Odd(slots[t][i].marker)
    <2>1. ~Odd(IndexMod - 2)
      BY ConstantsAssumption DEF Odd
    <2> QED BY <2>1 DEF Init, EmptyRing, Ring
  <1>1. ProducersSound
    BY <1>p, ConstantsAssumption DEF ProducersSound
  <1>2. FirersSound
    BY <1>f, ConstantsAssumption DEF FirersSound
  <1>3. PoolsSound
    BY <1>r, <1>s DEF PoolsSound
  <1>4. Buffered
    <2> SUFFICES ASSUME NEW b \in Buffers PROVE Once(b) /\ ~Somewhere(b) /\ ~Seeded(b)
      BY DEF Buffered
    <2>0. b[1] \in Targets /\ b # NoBuf /\ b[2] \in 1 .. Slack
      BY BufferFacts
    <2>1. \A i \in Ring : ~InRing(b, i)
      BY <1>s, <2>0 DEF InRing
    <2>2. \A i \in Nat : ~InReady(b, i)
      BY <1>r, <2>0 DEF InReady
    <2>3. ~InFire(b) /\ \A p \in Producers : ~InHand(b, p)
      BY <1>p, <1>f, <2>0 DEF InFire, InHand
    <2>4. Once(b) /\ ~Somewhere(b)
      BY <2>1, <2>2, <2>3 DEF Once, Somewhere
    <2>5. ~Seeded(b)
      BY <1>f, <2>0 DEF Seeded
    <2> QED BY <2>4, <2>5
  <1>5. Closing
    <2>1. Fresh /\ remaining = 0
      BY <1>p DEF Init, Fresh
    <2> QED BY <1>p, <1>f, <1>r, <2>1, SMTT(30) DEF Closing
  <1>6. Carried
    <2>1. \A b \in Buffers : ~Carrying(b)
      BY <1>r, <1>f, BufferFacts DEF Carrying, InReady
    <2>2. consumed = {}
      BY DEF Init
    <2> QED BY <2>1, <2>2 DEF Carried
  <1> QED BY <1>t, <1>1, <1>2, <1>3, <1>4, <1>5, <1>6 DEF IInv

\* The invariant is inductive.
LEMMA NextIInv == IInv /\ [Next]_vars => IInv'
  <1>1. ASSUME IInv, Next PROVE IInv'
    BY <1>1, TypesStep, ProducersStep, FirersStep, PoolsStep, BufferedStep, ClosingStep, CarriedStep, SMTT(30)
       DEF IInv
  <1>2. ASSUME IInv, UNCHANGED vars PROVE IInv'
    <2>0. Types'
      BY <1>2, ZenonT(60) DEF IInv, vars, Types
    <2>1. ProducersSound' /\ FirersSound' /\ PoolsSound'
      <3>1. ProducersSound'
        BY <1>2, ZenonT(60) DEF IInv, vars, ProducersSound
      <3>2. FirersSound'
        BY <1>2, ZenonT(60) DEF IInv, vars, FirersSound
      <3>3. PoolsSound'
        BY <1>2, ZenonT(60) DEF IInv, vars, PoolsSound
      <3> QED BY <3>1, <3>2, <3>3, ZenonT(60)
    <2>2. Buffered'
      <3>1. \A b \in Buffers : Once(b)' <=> Once(b)
        BY <1>2, SamePlaces DEF vars
      <3>2. \A b \in Buffers : Somewhere(b)' <=> Somewhere(b)
        BY <1>2, SamePlaces DEF vars
      <3>3. \A b \in Buffers : (Seeded(b)' <=> Seeded(b)) /\ (Unseeded(b)' <=> Unseeded(b))
        BY <1>2 DEF vars, Seeded, Unseeded
      <3> QED BY <1>2, <3>1, <3>2, <3>3 DEF IInv, Buffered
    <2>3. Closing'
      BY <1>2, ZenonT(60) DEF IInv, vars, Closing, Active, Fresh
    <2>4. Carried'
      BY <1>2, ZenonT(60) DEF IInv, vars, Carried, Carrying, InReady, InFire
    <2> QED BY <2>0, <2>1, <2>2, <2>3, <2>4, ZenonT(60) DEF IInv
  <1> QED BY <1>1, <1>2, ZenonT(60)

\* The invariant holds in every reachable state of the router
\* (router.cpp:160-521), for every value of the constants.
THEOREM Invariance == Spec => []IInv
  BY InitIInv, NextIInv, PTL DEF Spec

-----------------------------------------------------------------------------
(* What the invariant gives *)

\* A buffer that is at most once somewhere has at most one place, and one
\* when it is somewhere.
LEMMA PlacesOnce ==
  ASSUME IInv, NEW b \in Buffers
  PROVE  /\ Cardinality(Places(b)) <= 1
         /\ Somewhere(b) => Cardinality(Places(b)) = 1
  <1>t. Once(b) /\ b[1] \in Targets /\ b # NoBuf /\ FirersSound
    BY BufferFacts DEF IInv, Buffered
  <1>q. Len(ready[b[1]].queue) \in Nat
    BY <1>t DEF IInv, Types
  <1> DEFINE P == Places(b)
  <1>1. \A x : x \in P <=> \/ \E i \in Ring : InRing(b, i) /\ x = <<"ring", i>>
                           \/ \E i \in Nat : InReady(b, i) /\ x = <<"ready", i>>
                           \/ \E p \in Producers : InHand(b, p) /\ x = <<"producer", p>>
                           \/ InFire(b) /\ x = <<"firer", b[1]>>
    <2>1. \A u \in Targets : fire[u].buf = b => u = b[1]
      BY <1>t, ZenonT(60) DEF FirersSound
    <2>2. {v \in Targets : fire[v].buf = b} = IF InFire(b) THEN {b[1]} ELSE {}
      BY <1>t, <2>1 DEF InFire
    <2>3. \A i : (i \in 1 .. Len(ready[b[1]].queue) /\ ready[b[1]].queue[i] = b) <=>
                 i \in Nat /\ InReady(b, i)
      BY <1>q DEF InReady
    <2> SUFFICES ASSUME NEW x
                 PROVE  x \in P <=> \/ \E i \in Ring : InRing(b, i) /\ x = <<"ring", i>>
                                    \/ \E i \in Nat : InReady(b, i) /\ x = <<"ready", i>>
                                    \/ \E p \in Producers : InHand(b, p) /\ x = <<"producer", p>>
                                    \/ InFire(b) /\ x = <<"firer", b[1]>>
      OBVIOUS
    <2>4. x \in P <=>
            \/ x \in {<<"ring", i>> : i \in {j \in Ring : InRing(b, j)}}
            \/ x \in {<<"ready", i>> : i \in {j \in 1 .. Len(ready[b[1]].queue) : ready[b[1]].queue[j] = b}}
            \/ x \in {<<"producer", p>> : p \in {q \in Producers : InHand(b, q)}}
            \/ x \in {<<"firer", u>> : u \in {v \in Targets : fire[v].buf = b}}
      BY ZenonT(60) DEF Places, InRing, InHand, Ring
    <2>5. x \in {<<"ring", i>> : i \in {j \in Ring : InRing(b, j)}} <=>
            \E i \in Ring : InRing(b, i) /\ x = <<"ring", i>>
      BY ZenonT(60)
    <2>6. x \in {<<"producer", p>> : p \in {q \in Producers : InHand(b, q)}} <=>
            \E p \in Producers : InHand(b, p) /\ x = <<"producer", p>>
      BY ZenonT(60)
    <2>7. x \in {<<"ready", i>> : i \in {j \in 1 .. Len(ready[b[1]].queue) : ready[b[1]].queue[j] = b}}
            <=> \E i \in Nat : InReady(b, i) /\ x = <<"ready", i>>
      BY <2>3, ZenonT(60)
    <2>8. x \in {<<"firer", u>> : u \in {v \in Targets : fire[v].buf = b}} <=>
            InFire(b) /\ x = <<"firer", b[1]>>
      BY <2>2
    <2> QED BY <2>4, <2>5, <2>6, <2>7, <2>8, ZenonT(60)
  <1> HIDE DEF P
  <1>2. \A x, y \in P : x = y
    BY <1>1, <1>t DEF Once
  <1>3. Somewhere(b) => P # {}
    BY <1>1, ZenonT(60) DEF Somewhere
  <1>4. CASE P = {}
    BY <1>3, <1>4, FS_EmptySet DEF P
  <1>5. CASE P # {}
    <2>1. PICK x : x \in P
      BY <1>5
    <2>2. P = {x}
      BY <1>2, <2>1
    <2>3. Cardinality(P) = 1
      BY <2>2, FS_Singleton, ZenonT(60)
    <2> QED BY <2>3 DEF P
  <1> QED BY <1>4, <1>5

\* For any number of producers, targets, buffers and ring entries and however
\* the tickets of a free pool are drawn and honoured, no router buffer is ever
\* in two places, none vanishes between the seeding of its pool and the final
\* drain, and its memory is freed when no producer can touch it again
\* (router.cpp:160-318, threadsafe-set.hpp:54-68).
THEOREM BuffersSafe == Spec => []RoutedBuffersSafe
  <1>1. ASSUME IInv PROVE BufferInOneHand
    <2> SUFFICES ASSUME NEW b \in Buffers
                 PROVE  /\ Cardinality(Places(b)) <= 1
                        /\ fire[b[1]].pc \in {"loop", "consume", "free"} => Cardinality(Places(b)) = 1
      BY DEF BufferInOneHand
    <2>1. fire[b[1]].pc \in {"loop", "consume", "free"} => Somewhere(b)
      BY <1>1 DEF IInv, Buffered, Seeded
    <2> QED BY <1>1, <2>1, PlacesOnce
  <1>2. ASSUME IInv PROVE NoUseAfterFree
    <2> SUFFICES ASSUME NEW t \in Targets, fire[t].pc = "done"
                 PROVE  /\ ready[t].queue = <<>>
                        /\ \A p \in Producers : prod[p].pc \in {"close", "drain", "join", "done"}
      BY DEF NoUseAfterFree
    <2>1. ready[t].queue = <<>> /\ Active = {}
      BY <1>2 DEF IInv, Closing
    <2>2. \A p \in Producers : prod[p].pc \in ProducerPcs
      BY <1>2 DEF IInv, Types, ProducerStates
    <2> QED BY <2>1, <2>2 DEF Active, ProducerPcs
  <1>3. IInv => RoutedBuffersSafe
    BY <1>1, <1>2 DEF RoutedBuffersSafe
  <1> QED BY <1>3, Invariance, PTL

\* Tickets stay even and in range, every pool and queue holds buffers of its
\* own target, and remaining_producers never leaves 0 .. |producers|
\* (threadsafe-set.hpp:54-68, router.cpp:318-521).
THEOREM TypeCorrect == Spec => []RouterTypeOK
  <1>1. ASSUME IInv PROVE RouterTypeOK
    <2>1. /\ head \in [Targets -> Tickets] /\ tail \in [Targets -> Tickets]
          /\ payload \in [Buffers -> Tuples \cup {NoTuple}]
          /\ opened \in BOOLEAN /\ consumed \subseteq Tuples
      BY <1>1 DEF IInv, Types
    <2>2. \A t \in Targets, i \in Ring :
            /\ slots[t][i].marker \in 0 .. IndexMod - 1
            /\ slots[t][i].buf \in Buffers \cup {NoBuf}
            /\ slots[t][i].buf # NoBuf => slots[t][i].buf[1] = t
      BY <1>1 DEF IInv, Types, Entries, PoolsSound
    <2>3. remaining \in 0 .. Cardinality(Producers)
      <3>1. Active \in SUBSET Producers
        BY DEF Active
      <3>2. /\ Cardinality(Active) \in Nat /\ Cardinality(Producers) \in Nat
            /\ Cardinality(Active) <= Cardinality(Producers)
        BY <3>1, ProducerSets
      <3> QED BY <1>1, <3>2 DEF IInv, Closing
    <2>4. \A p \in Producers : prod[p].buf # NoBuf => prod[p].buf[1] = prod[p].target
      BY <1>1 DEF IInv, ProducersSound
    <2> QED BY <2>1, <2>2, <2>3, <2>4, ZenonT(60) DEF RouterTypeOK, Tickets, Ring
  <1>2. IInv => RouterTypeOK
    BY <1>1
  <1> QED BY <1>2, Invariance, PTL

-----------------------------------------------------------------------------
(* The exchange *)

Closed == ~opened /\ \E p \in Producers : prod[p].pc = "done"

\* The tuples on their way are the payloads of the buffers carrying one.
LEMMA InFlightCarried ==
  Types /\ FirersSound => InFlight = {payload[b] : b \in {c \in Buffers : Carrying(c)}}
  <1> SUFFICES ASSUME Types, FirersSound
               PROVE  InFlight = {payload[b] : b \in {c \in Buffers : Carrying(c)}}
    BY ZenonT(60)
  <1>1. ASSUME NEW b \in Buffers
        PROVE  (\E i \in Nat : InReady(b, i)) <=>
               (\E i \in 1 .. Len(ready[b[1]].queue) : ready[b[1]].queue[i] = b)
    <2>1. Len(ready[b[1]].queue) \in Nat
      BY BufferFacts DEF Types
    <2> QED BY <2>1 DEF InReady
  <1>2. ASSUME NEW t \in Targets, fire[t].pc = "consume"
        PROVE  /\ fire[t].buf \in Buffers /\ Carrying(fire[t].buf)
    <2>1. fire[t].buf # NoBuf /\ fire[t].buf[1] = t /\ fire[t].buf \in Buffers \cup {NoBuf}
      BY <1>2 DEF FirersSound, Types, FirerStates
    <2> QED BY <1>2, <2>1 DEF Carrying, InFire
  <1>3. ASSUME NEW b \in Buffers, Carrying(b)
        PROVE  \/ \E i \in 1 .. Len(ready[b[1]].queue) : ready[b[1]].queue[i] = b
               \/ \E t \in Targets : fire[t].pc = "consume" /\ fire[t].buf = b
    BY <1>1, <1>3, BufferFacts DEF Carrying, InFire
  <1>4. ASSUME NEW b \in Buffers, \E i \in 1 .. Len(ready[b[1]].queue) : ready[b[1]].queue[i] = b
        PROVE  Carrying(b)
    BY <1>1, <1>4 DEF Carrying
  <1>5. ASSUME NEW x \in InFlight PROVE \E b \in Buffers : Carrying(b) /\ x = payload[b]
    BY <1>2, <1>4, <1>5 DEF InFlight
  <1>6. ASSUME NEW b \in Buffers, Carrying(b) PROVE payload[b] \in InFlight
    BY <1>3, <1>6 DEF InFlight
  <1> QED BY <1>5, <1>6, ZenonT(60)

\* The same after a step.
LEMMA InFlightCarriedNext ==
  (Types /\ FirersSound)' => (InFlight = {payload[b] : b \in {c \in Buffers : Carrying(c)}})'
  BY InFlightCarried, PTL

\* A step other than join, which finds nothing under way, leaves the exchange
\* as open or closed as it was.
LEMMA ClosedStep ==
  ASSUME IInv, Next
  PROVE  \/ Closed' = Closed
         \/ Closed' /\ Still /\ \A b \in Buffers : ~Carrying(b)
  <1>t. Types /\ ProducersSound /\ FirersSound
    BY DEF IInv
  <1>c. /\ ~opened => Fresh \/ Active = {}
        /\ \A t \in Targets : fire[t].pc \in {"drain", "draintake", "done"} => ready[t].queue = <<>>
    BY DEF IInv, Closing
  <1>0. ASSUME opened' = opened,
               \A p \in Producers : prod'[p].pc = "done" <=> prod[p].pc = "done"
        PROVE  Closed' = Closed
    BY <1>0 DEF Closed
  <1>p. \A p \in Producers : prod[p] \in ProducerStates
    BY <1>t DEF Types
  <1>g. ASSUME NEW p \in Producers, NEW q, q \in ProducerPcs, Go(p, q)
        PROVE  prod'[p].pc = q /\ \A r \in Producers : r # p => prod'[r] = prod[r]
    BY <1>t, <1>g DEF Go, Types, ProducerStates
  <1>1. ASSUME NEW p \in Producers, open(p) PROVE Closed' = Closed
    <2>1. prod[p].pc = "open" /\ prod'[p].pc = "route" /\ \A r \in Producers : r # p => prod'[r] = prod[r]
      BY <1>1, <1>g DEF open, ProducerPcs
    <2>2. CASE opened
      BY <1>0, <1>1, <2>1, <2>2 DEF open
    <2>3. CASE ~opened
      <3>1. Fresh
        BY <1>c, <2>1, <2>3 DEF Active
      <3>2. opened'
        BY <1>1, <2>3 DEF open
      <3> QED BY <3>1, <3>2 DEF Fresh, Closed
    <2> QED BY <2>2, <2>3
  <1>2. ASSUME NEW p \in Producers, close(p) PROVE Closed' = Closed
    <2>1. prod[p].pc = "route" /\ opened' = opened
      BY <1>2 DEF close
    <2>2. opened
      BY <1>c, <2>1 DEF Active, Fresh
    <2> QED BY <2>1, <2>2 DEF Closed
  <1>3. ASSUME NEW p \in Producers,
               acquireDraw(p) \/ closeFifo(p) \/ fifoDrained(p) \/ \E t \in Targets : consume(p, t)
        PROVE  Closed' = Closed
    <2>1. /\ \A q \in Producers : q # p => prod'[q] = prod[q]
          /\ prod[p].pc # "done" /\ prod'[p].pc # "done" /\ opened' = opened
      BY <1>3, <1>p, <1>t DEF acquireDraw, closeFifo, fifoDrained, consume, Go, ProducerStates, Types
    <2> QED BY <1>0, <2>1
  <1>4. ASSUME NEW p \in Producers, join(p) PROVE Closed' /\ Still /\ \A b \in Buffers : ~Carrying(b)
    <2>1. /\ \A t \in Targets : fire[t].pc = "done"
          /\ ~opened' /\ prod'[p].pc = "done" /\ fire' = fire
      BY <1>4, <1>g DEF join, ProducerPcs
    <2>2. \A b \in Buffers : ~Carrying(b)
      BY <1>c, <2>1, BufferFacts, SMTT(30) DEF Carrying, InReady
    <2>3. /\ \A q \in Producers : prod'[q].sent = prod[q].sent
          /\ payload' = payload /\ consumed' = consumed
          /\ \A t \in Targets : ready'[t].queue = ready[t].queue
      BY <1>4, <1>t, ControlEffect, SMTT(30)
    <2>4. Still
      BY <2>1, <2>3, SameCarrying DEF Still
    <2> QED BY <2>1, <2>2, <2>4 DEF Closed
  <1>5. ASSUME NEW p \in Producers, acquireTake(p) PROVE Closed' = Closed
    <2>1. /\ \A q \in Producers : q # p => prod'[q] = prod[q]
          /\ prod[p].pc = "take" /\ prod'[p].pc = "fill" /\ opened' = opened
      BY <1>5, <1>t, TakeEffect
    <2> QED BY <1>0, <2>1
  <1>6. ASSUME NEW p \in Producers, releaseBuffer(p) PROVE Closed' = Closed
    <2>1. /\ \A q \in Producers : q # p => prod'[q] = prod[q]
          /\ prod[p].pc = "fill" /\ prod'[p].pc = "route" /\ opened' = opened
      BY <1>6, <1>t, ReleaseEffect, ZenonT(60)
    <2> QED BY <1>0, <2>1
  <1>7. ASSUME NEW t \in Targets, FireStep(t) PROVE Closed' = Closed
    <2>1. UNCHANGED <<prod, opened>>
      BY <1>7 DEF FireStep, seedDraw, seedPut, get_ready, catch, freeBuffer, drainDraw, drainTake
    <2> QED BY <1>0, <2>1, SMTT(30)
  <1> QED BY <1>1, <1>2, <1>3, <1>4, <1>5, <1>6, <1>7, SMTT(30) DEF Next, ProducerStep

\* Every step is a step of the exchange or leaves it alone: releaseBuffer
\* routes a new tuple, catch delivers it and join closes.
LEMMA StepImplements ==
  ASSUME IInv, Next
  PROVE  Abstract!Next \/ UNCHANGED <<InFlight, consumed, Closed>>
  <1>i. IInv' /\ Types /\ FirersSound /\ Types' /\ FirersSound'
    BY NextIInv DEF IInv
  <1>f. InFlight = {payload[b] : b \in {c \in Buffers : Carrying(c)}}
    BY <1>i, InFlightCarried
  <1>g. InFlight' = {payload'[b] : b \in {c \in Buffers : Carrying(c)'}}
    BY <1>i, InFlightCarriedNext
  <1>c. /\ \A b \in Buffers : Carrying(b) =>
             /\ payload[b] \in Tuples /\ payload[b] \notin consumed
             /\ payload[b][2] <= prod[payload[b][1]].sent
        /\ \A b, c \in Buffers : Carrying(b) /\ Carrying(c) /\ payload[b] = payload[c] => b = c
        /\ \A x \in consumed : x[2] <= prod[x[1]].sent
    BY DEF IInv, Carried
  <1>s. ASSUME Still PROVE InFlight' = InFlight /\ consumed' = consumed
    BY <1>f, <1>g, <1>s DEF Still
  <1>1. CASE Closed' /\ Still /\ \A b \in Buffers : ~Carrying(b)
    <2>1. InFlight = {} /\ InFlight' = InFlight /\ consumed' = consumed
      BY <1>1, <1>f, <1>s
    <2>2. Closed' = TRUE
      BY <1>1 DEF Closed
    <2>3. Abstract!Close
      BY <2>1, <2>2 DEF Abstract!Close, Closed
    <2> QED BY <2>3 DEF Abstract!Next
  <1>2. CASE Closed' = Closed /\ Still
    BY <1>2, <1>s
  <1>3. ASSUME NEW p \in Producers, NEW c \in Buffers, Released(p, c), Closed' = Closed
        PROVE  Abstract!Next
    <2> DEFINE y == <<p, prod[p].sent + 1>>
    <2>1. /\ releaseBuffer(p)
          /\ ~Carrying(c) /\ \A b \in Buffers : Carrying(b)' <=> Carrying(b) \/ b = c
          /\ y \in Tuples
          /\ payload' = [payload EXCEPT ![c] = y] /\ consumed' = consumed
      BY <1>3 DEF Released
    <2>y. y[1] = p /\ y[2] = prod[p].sent + 1 /\ prod[p].sent \in Nat
      BY <1>i DEF Types, ProducerStates
    <2>t. payload \in [Buffers -> Tuples \cup {NoTuple}]
      BY <1>i DEF Types
    <2>2. \A x : x = y => ~(x[2] <= prod[x[1]].sent)
      BY <2>y
    <2> HIDE DEF y
    <2>3. y \notin InFlight /\ y \notin consumed
      BY <1>c, <1>f, <2>2
    <2>4. payload'[c] = y /\ \A b \in Buffers : b # c => payload'[b] = payload[b]
      BY <2>1, <2>t
    <2>5. InFlight' = InFlight \cup {y}
      <3>1. ASSUME NEW x \in InFlight' PROVE x \in InFlight \cup {y}
        BY <1>f, <1>g, <2>1, <2>4, <3>1, SMTT(30)
      <3>2. ASSUME NEW x \in InFlight PROVE x \in InFlight'
        BY <1>f, <1>g, <2>1, <2>4, <3>2, SMTT(30)
      <3>3. y \in InFlight'
        BY <1>g, <2>1, <2>4
      <3> QED BY <3>1, <3>2, <3>3
    <2>6. ~Closed
      <3>1. prod[p].pc = "fill"
        BY <2>1 DEF releaseBuffer
      <3>2. p \in Active
        BY <3>1 DEF Active
      <3>3. ~opened => Fresh
        BY <3>2, SMTT(30) DEF IInv, Closing
      <3> QED BY <3>1, <3>3 DEF Closed, Fresh
    <2>7. Abstract!Route(y)
      BY <1>3, <2>1, <2>3, <2>5, <2>6, SMTT(30) DEF Abstract!Route, Closed
    <2> QED BY <2>1, <2>7 DEF Abstract!Next
  <1>4. ASSUME NEW t \in Targets, NEW c \in Buffers, Caught(t, c), Closed' = Closed
        PROVE  Abstract!Next
    <2>1. /\ Carrying(c) /\ \A b \in Buffers : Carrying(b)' <=> Carrying(b) /\ b # c
          /\ payload' = payload /\ consumed' = consumed \cup {payload[c]}
      BY <1>4 DEF Caught
    <2>2. payload[c] \in Tuples /\ payload[c] \in InFlight
      BY <1>c, <1>f, <2>1, ZenonT(60)
    <2>3. InFlight' = InFlight \ {payload[c]}
      <3>1. ASSUME NEW x \in InFlight' PROVE x \in InFlight /\ x # payload[c]
        BY <1>c, <1>f, <1>g, <2>1, <3>1, SMTT(30)
      <3>2. ASSUME NEW x \in InFlight, x # payload[c] PROVE x \in InFlight'
        BY <1>f, <1>g, <2>1, <3>2, SMTT(30)
      <3> QED BY <3>1, <3>2, SMTT(30)
    <2>4. Abstract!Deliver(payload[c])
      BY <1>4, <2>1, <2>2, <2>3 DEF Abstract!Deliver, Closed
    <2> QED BY <2>2, <2>4 DEF Abstract!Next
  <1>5. \/ Closed' = Closed
        \/ Closed' /\ Still /\ \A b \in Buffers : ~Carrying(b)
    BY ClosedStep
  <1> QED BY <1>1, <1>2, <1>3, <1>4, <1>5, Flow

\* The rings, queues and threads of the router together are an exchange, for
\* any number of producers, targets, buffers and tuples: every tuple a
\* producer routes is consumed exactly once, and none is under way when the
\* last close() returns (router.cpp:357-521).
THEOREM ExchangeRefinement == Spec => ImplementsExchange
  <1>1. Init => Abstract!Init
    <2> SUFFICES ASSUME Init PROVE Abstract!Init
      OBVIOUS
    <2>1. Types /\ FirersSound
      BY InitIInv DEF IInv
    <2>2. \A b \in Buffers : ~Carrying(b)
      <3>1. \A t \in Targets : ready[t].queue = <<>> /\ fire[t].pc = "none"
        BY DEF Init
      <3> QED BY <3>1, BufferFacts, SMTT(30) DEF Carrying, InReady
    <2>3. InFlight = {}
      BY <2>1, <2>2, InFlightCarried, SMTT(30)
    <2>4. consumed = {} /\ \A p \in Producers : prod[p].pc # "done"
      BY DEF Init
    <2> QED BY <2>3, <2>4 DEF Abstract!Init
  <1>2. IInv /\ [Next]_vars => [Abstract!Next]_<<InFlight, consumed, Closed>>
    <2>1. ASSUME UNCHANGED vars PROVE UNCHANGED <<InFlight, consumed, Closed>>
      BY <2>1 DEF vars, InFlight, Closed
    <2> QED BY <2>1, StepImplements, SMTT(30)
  <1>3. IInv /\ [Next]_vars => [Abstract!Next]_(Abstract!exchangeVars)
    BY <1>2 DEF Abstract!exchangeVars, Closed
  <1> QED BY <1>1, <1>3, Invariance, PTL DEF Spec, ImplementsExchange, Abstract!Spec
=============================================================================
