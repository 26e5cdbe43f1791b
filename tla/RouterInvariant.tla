-------------------------- MODULE RouterInvariant --------------------------
(***************************************************************************)
(* The inductive invariant of the router, what each of its steps does to   *)
(* the buffers, and that the parts of the invariant which say where the    *)
(* buffers are survive every step.                                         *)
(***************************************************************************)
EXTENDS Router, TLAPS

Ring == 0 .. RingSize - 1
Tickets == {i \in 0 .. IndexMod - 2 : i % 2 = 0}

ProducerPcs == {"open", "route", "draw", "take", "fill", "close", "drain", "join", "done"}
FirePcs == {"none", "seed", "seedput", "loop", "consume", "free", "drain", "draintake", "done"}

ProducerStates ==
  [pc : ProducerPcs, sent : Nat, target : Targets, ticket : Tickets, buf : Buffers \cup {NoBuf}]
FirerStates ==
  [pc : FirePcs, n : 0 .. Slack, ticket : Tickets, buf : Buffers \cup {NoBuf}]
Entries == [marker : 0 .. IndexMod - 1, buf : Buffers \cup {NoBuf}]

Types ==
  /\ head \in [Targets -> Tickets] /\ tail \in [Targets -> Tickets]
  /\ slots \in [Targets -> [Ring -> Entries]]
  /\ ready \in [Targets -> [queue : Seq(Buffers), closing : BOOLEAN]]
  /\ payload \in [Buffers -> Tuples \cup {NoTuple}]
  /\ opened \in BOOLEAN /\ consumed \subseteq Tuples
  /\ prod \in [Producers -> ProducerStates]
  /\ fire \in [Targets -> FirerStates]

\* A producer that is routing has not sent its quota yet, and holds a buffer
\* of its target exactly while it fills it.
ProducersSound ==
  \A p \in Producers :
    /\ prod[p].sent <= Quota[p]
    /\ prod[p].pc \in {"draw", "take", "fill"} => prod[p].sent < Quota[p]
    /\ prod[p].pc = "fill" <=> prod[p].buf # NoBuf
    /\ prod[p].buf # NoBuf => prod[p].buf[1] = prod[p].target

\* A firer holds a buffer of its own exactly while it seeds, consumes or
\* frees it, and its count says how far seeding and draining are.
FirersSound ==
  \A t \in Targets :
    /\ fire[t].pc \in {"seedput", "consume", "free"} <=> fire[t].buf # NoBuf
    /\ fire[t].buf # NoBuf => fire[t].buf[1] = t
    /\ fire[t].pc \in {"none", "seed"} => fire[t].n < Slack
    /\ fire[t].pc = "none" => fire[t].n = 0
    /\ fire[t].pc = "seedput" => fire[t].buf = <<t, fire[t].n>>
    /\ fire[t].pc \in {"loop", "consume", "free"} => fire[t].n = Slack
    /\ fire[t].pc \in {"drain", "draintake"} => fire[t].n # 0

\* Rings and queues hold buffers of their target only.
PoolsSound ==
  \A t \in Targets :
    /\ \A i \in Ring : /\ slots[t][i].buf # NoBuf => slots[t][i].buf[1] = t
                       /\ Odd(slots[t][i].marker) => slots[t][i].buf # NoBuf
    /\ \A i \in 1 .. Len(ready[t].queue) : ready[t].queue[i][1] = t

InRing(b, i)  == Odd(slots[b[1]][i].marker) /\ slots[b[1]][i].buf = b
InReady(b, i) == i \in 1 .. Len(ready[b[1]].queue) /\ ready[b[1]].queue[i] = b
InHand(b, p)  == prod[p].buf = b
InFire(b)     == fire[b[1]].buf = b

\* A buffer is at most at one place.
Once(b) ==
  /\ \A i, j \in Ring : InRing(b, i) /\ InRing(b, j) => i = j
  /\ \A i, j \in Nat : InReady(b, i) /\ InReady(b, j) => i = j
  /\ \A p, q \in Producers : InHand(b, p) /\ InHand(b, q) => p = q
  /\ \A i \in Ring, j \in Nat : ~(InRing(b, i) /\ InReady(b, j))
  /\ \A i \in Ring, p \in Producers : ~(InRing(b, i) /\ InHand(b, p))
  /\ \A i \in Nat, p \in Producers : ~(InReady(b, i) /\ InHand(b, p))
  /\ InFire(b) => /\ \A i \in Ring : ~InRing(b, i)
                  /\ \A i \in Nat : ~InReady(b, i)
                  /\ \A p \in Producers : ~InHand(b, p)

\* Buffers the firer of t has seeded, and not taken back.
Seeded(b) ==
  LET f == fire[b[1]] IN
    f.pc \in {"loop", "consume", "free"} \/ (f.pc \in {"seed", "seedput"} /\ b[2] <= f.n)
Unseeded(b) == LET f == fire[b[1]] IN f.pc \in {"none", "seed", "seedput"} /\ b[2] > f.n

Somewhere(b) ==
  \/ \E i \in Ring : InRing(b, i)
  \/ \E i \in Nat : InReady(b, i)
  \/ \E p \in Producers : InHand(b, p)
  \/ InFire(b)

Buffered ==
  \A b \in Buffers :
    /\ Once(b)
    /\ Seeded(b) => Somewhere(b)
    /\ Unseeded(b) => ~Somewhere(b)

\* Producers that may still use a buffer.
Active == {p \in Producers : prod[p].pc \in {"open", "route", "draw", "take", "fill"}}

Fresh == ~opened /\ \A p \in Producers : prod[p].pc = "open"

\* remaining_producers counts the producers that have not closed; the queues
\* are closed, and the firers drained, when there are none.
Closing ==
  /\ remaining = IF Fresh THEN 0 ELSE Cardinality(Active)
  /\ ~opened => Fresh \/ Active = {}
  /\ \A p \in Producers : prod[p].pc \in {"close", "drain", "join"} => Active = {}
  /\ \A t \in Targets :
       /\ ready[t].closing => Active = {} /\ ~Fresh
       /\ fire[t].pc \in {"drain", "draintake", "done"} => ready[t].closing /\ ready[t].queue = <<>>
  /\ Fresh => \A t \in Targets : fire[t].pc = "none"
  /\ \A p \in Producers : prod[p].pc = "done" => opened \/ \A t \in Targets : fire[t].pc = "done"

\* Buffers whose tuple is on its way.
Carrying(b) == (\E i \in Nat : InReady(b, i)) \/ (InFire(b) /\ fire[b[1]].pc = "consume")

\* Tuples on their way are different, routed by their producer, and not yet
\* consumed.
Carried ==
  /\ \A b \in Buffers : Carrying(b) =>
       /\ payload[b] \in Tuples /\ payload[b] \notin consumed
       /\ payload[b][2] <= prod[payload[b][1]].sent
  /\ \A b, c \in Buffers : Carrying(b) /\ Carrying(c) /\ payload[b] = payload[c] => b = c
  /\ \A x \in consumed : x[2] <= prod[x[1]].sent

IInv == Types /\ ProducersSound /\ FirersSound /\ PoolsSound /\ Buffered /\ Closing /\ Carried

-----------------------------------------------------------------------------
(* Tickets and sets *)

\* Tickets are even, mark a filled entry with their odd successor, and stay in
\* range when they wrap.
LEMMA TicketFacts ==
  ASSUME NEW k \in Tickets
  PROVE  /\ k \in 0 .. IndexMod - 1 /\ k + 1 \in 0 .. IndexMod - 1
         /\ ~Odd(k) /\ Odd(k + 1)
         /\ Entry(k) \in Ring
         /\ (k + 2) % IndexMod \in Tickets
  <1> USE ConstantsAssumption
  <1>1. k \in Nat /\ k <= IndexMod - 2 /\ k % 2 = 0
    BY DEF Tickets
  <1>2. ~Odd(k) /\ Odd(k + 1)
    BY <1>1 DEF Odd
  <1>3. Entry(k) \in Ring
    <2>1. k \div 2 \in Nat
      BY <1>1
    <2> QED BY <2>1 DEF Entry, Ring
  <1>4. (k + 2) % IndexMod \in Tickets
    <2>1. CASE k + 2 = IndexMod
      <3>1. (k + 2) % IndexMod = 0
        BY <2>1
      <3>2. IndexMod >= 2
        BY <1>1
      <3> QED BY <3>1, <3>2 DEF Tickets
    <2>2. CASE k + 2 # IndexMod
      <3>1. k + 2 < IndexMod /\ k + 2 \in Nat
        BY <1>1, <2>2
      <3>2. (k + 2) % IndexMod = k + 2
        BY <3>1
      <3>3. (k + 2) % 2 = 0
        BY <1>1
      <3>4. k + 2 <= IndexMod - 2
        BY <3>1, <3>3
      <3> QED BY <3>1, <3>2, <3>3, <3>4 DEF Tickets
    <2> QED BY <2>1, <2>2
  <1> QED BY <1>1, <1>2, <1>3, <1>4

\* There is at least one ticket.
LEMMA IndexModEven == IndexMod \in Nat /\ IndexMod >= 2
  BY ConstantsAssumption

\* A buffer names its target and its number.
LEMMA BufferFacts ==
  /\ NoBuf \notin Buffers
  /\ \A t \in Targets, n \in 1 .. Slack : <<t, n>> \in Buffers
  /\ \A b \in Buffers : b[1] \in Targets /\ b[2] \in 1 .. Slack /\ b = <<b[1], b[2]>>
  /\ 0 \in Targets
  BY ConstantsAssumption DEF Buffers, Targets, NoBuf

\* What push and pop do to the positions of a queue.
LEMMA QueueFacts ==
  ASSUME NEW S, NEW q \in Seq(S)
  PROVE  /\ Len(q) \in Nat
         /\ \A x \in S : /\ Append(q, x) \in Seq(S) /\ Len(Append(q, x)) = Len(q) + 1
                        /\ Append(q, x)[Len(q) + 1] = x
                        /\ \A i \in 1 .. Len(q) : Append(q, x)[i] = q[i]
         /\ q # <<>> => /\ 1 \in 1 .. Len(q) /\ Head(q) = q[1] /\ Head(q) \in S
                        /\ Tail(q) \in Seq(S) /\ Len(Tail(q)) = Len(q) - 1
                        /\ \A i \in 1 .. Len(q) - 1 : Tail(q)[i] = q[i + 1]
  <1>1. \A x \in S : /\ Append(q, x) \in Seq(S) /\ Len(Append(q, x)) = Len(q) + 1
                    /\ Append(q, x)[Len(q) + 1] = x
                    /\ \A i \in 1 .. Len(q) : Append(q, x)[i] = q[i]
    OBVIOUS
  <1>2. ASSUME q # <<>>
        PROVE  /\ 1 \in 1 .. Len(q) /\ Head(q) = q[1] /\ Head(q) \in S
               /\ Tail(q) \in Seq(S) /\ Len(Tail(q)) = Len(q) - 1
               /\ \A i \in 1 .. Len(q) - 1 : Tail(q)[i] = q[i + 1]
    BY <1>2
  <1> QED BY <1>1, <1>2

\* The types hold before the first open().
LEMMA InitTypes == Init => Types
  <1> SUFFICES ASSUME Init PROVE Types
    OBVIOUS
  <1> USE ConstantsAssumption DEF Init
  <1>1. 0 \in Tickets /\ IndexMod - 2 \in 0 .. IndexMod - 1
    BY IndexModEven DEF Tickets
  <1>2. head \in [Targets -> Tickets] /\ tail \in [Targets -> Tickets]
    BY <1>1
  <1>3. slots \in [Targets -> [Ring -> Entries]]
    BY <1>1 DEF EmptyRing, Ring, Entries
  <1>4. ready \in [Targets -> [queue : Seq(Buffers), closing : BOOLEAN]]
    OBVIOUS
  <1>5. prod \in [Producers -> ProducerStates]
    BY <1>1, BufferFacts DEF ProducerPcs, ProducerStates
  <1>6. fire \in [Targets -> FirerStates]
    BY <1>1 DEF FirePcs, FirerStates
  <1> QED BY <1>2, <1>3, <1>4, <1>5, <1>6, ZenonT(60) DEF Types

-----------------------------------------------------------------------------
(* The types are preserved *)

\* Every step of a producer or a firer preserves the types.
LEMMA TypesStep ==
  ASSUME IInv, Next
  PROVE  Types'
  <1> USE ConstantsAssumption
  <1> USE DEF ProducerStates, FirerStates, Entries, ProducerPcs, FirePcs
  <1>b. /\ head \in [Targets -> Tickets] /\ tail \in [Targets -> Tickets]
        /\ slots \in [Targets -> [Ring -> Entries]]
        /\ ready \in [Targets -> [queue : Seq(Buffers), closing : BOOLEAN]]
        /\ payload \in [Buffers -> Tuples \cup {NoTuple}]
        /\ opened \in BOOLEAN /\ consumed \subseteq Tuples
    BY DEF IInv, Types
  <1>p. prod \in [Producers -> ProducerStates]
    BY DEF IInv, Types
  <1>f. fire \in [Targets -> FirerStates]
    BY DEF IInv, Types
  <1>1. ASSUME NEW p \in Producers, open(p) PROVE Types'
    <2>1. prod' = [prod EXCEPT ![p].pc = "route"]
      BY <1>1 DEF open, Go
    <2>2. prod' \in [Producers -> ProducerStates]
      BY <1>p, <2>1 DEF ProducerPcs, ProducerStates
    <2>3. fire' = fire \/ fire' = [t \in Targets |-> [fire[t] EXCEPT !.pc = "seed"]]
      BY <1>1 DEF open
    <2>4. fire' \in [Targets -> FirerStates]
      BY <1>f, <2>3 DEF FirePcs, FirerStates
    <2>5. opened' \in BOOLEAN /\ UNCHANGED <<head, tail, slots, ready, payload, consumed>>
      BY <1>1, <1>b, ZenonT(60) DEF open, poolVars
    <2> QED BY <1>b, <2>2, <2>4, <2>5 DEF Types
  <1>2. ASSUME NEW p \in Producers, NEW t \in Targets, consume(p, t) PROVE Types'
    <2>1. prod' = [prod EXCEPT ![p].pc = "draw", ![p].target = t]
          /\ UNCHANGED <<head, tail, slots, ready, payload, opened, fire, consumed>>
      BY <1>2 DEF consume, poolVars
    <2>2. prod' \in [Producers -> ProducerStates]
      BY <1>p, <2>1, ZenonT(60) DEF ProducerPcs, ProducerStates
    <2> QED BY <1>b, <1>f, <2>1, <2>2, ZenonT(60) DEF Types
  <1>3. ASSUME NEW p \in Producers, acquireDraw(p) PROVE Types'
    <2>1. prod[p].target \in Targets
      BY <1>p DEF ProducerStates
    <2>2. /\ prod' = [prod EXCEPT ![p].pc = "take", ![p].ticket = tail[prod[p].target]]
          /\ tail' = [tail EXCEPT ![prod[p].target] = (tail[prod[p].target] + 2) % IndexMod]
          /\ UNCHANGED <<head, slots, ready, payload, opened, fire, consumed>>
      BY <1>3 DEF acquireDraw, DrawTail
    <2>3. tail[prod[p].target] \in Tickets
      BY <1>b, <2>1
    <2>4. (tail[prod[p].target] + 2) % IndexMod \in Tickets
      BY <2>3, TicketFacts
    <2>5. prod' \in [Producers -> ProducerStates]
      BY <1>p, <2>2, <2>3, ZenonT(60) DEF ProducerPcs, ProducerStates
    <2>6. tail' \in [Targets -> Tickets]
      BY <1>b, <2>1, <2>2, <2>4
    <2> QED BY <1>b, <1>f, <2>2, <2>5, <2>6, ZenonT(60) DEF Types
  <1>4. ASSUME NEW p \in Producers, acquireTake(p) PROVE Types'
    <2> DEFINE t == prod[p].target  k == prod[p].ticket
    <2>1. t \in Targets /\ k \in Tickets
      BY <1>p DEF ProducerStates
    <2>2. /\ prod' = [prod EXCEPT ![p].pc = "fill", ![p].buf = slots[t][Entry(k)].buf]
          /\ slots' = [slots EXCEPT ![t][Entry(k)].marker = k]
          /\ UNCHANGED <<head, tail, ready, payload, opened, fire, consumed>>
      BY <1>4, ZenonT(60) DEF acquireTake, Take
    <2>3. Entry(k) \in Ring /\ k \in 0 .. IndexMod - 1
      BY <2>1, TicketFacts, ZenonT(60)
    <2> HIDE DEF t, k
    <2>4. slots[t][Entry(k)].buf \in Buffers \cup {NoBuf}
      BY <1>b, <2>1, <2>3
    <2>5. prod' \in [Producers -> ProducerStates]
      BY <1>p, <2>2, <2>4, ZenonT(60) DEF ProducerPcs, ProducerStates
    <2>6. slots' \in [Targets -> [Ring -> Entries]]
      <3> DEFINE e == Entry(k)
                 entry == [slots[t][e] EXCEPT !.marker = k]
                 row == [slots[t] EXCEPT ![e] = entry]
      <3>1. slots' = [slots EXCEPT ![t] = row]
        BY <2>2
      <3>2. entry \in Entries
        <4> DEFINE old == slots[t][e]
        <4>1. old \in Entries /\ entry = [old EXCEPT !.marker = k]
          BY <1>b, <2>1, <2>3
        <4> HIDE DEF old, entry
        <4>2. old.buf \in Buffers \cup {NoBuf} /\ entry = [marker |-> k, buf |-> old.buf]
          BY <4>1
        <4> QED BY <2>3, <4>2
      <3> HIDE DEF entry
      <3>3. row \in [Ring -> Entries]
        BY <1>b, <2>1, <2>3, <3>2
      <3> HIDE DEF row
      <3> QED BY <1>b, <2>1, <3>1, <3>3
    <2> QED BY <1>b, <1>f, <2>2, <2>5, <2>6, ZenonT(60) DEF Types
  <1>5. ASSUME NEW p \in Producers, releaseBuffer(p) PROVE Types'
    <2> DEFINE b == prod[p].buf  t == prod[p].target  x == <<p, prod[p].sent + 1>>
    <2>1. t \in Targets /\ b \in Buffers /\ prod[p].sent \in Nat /\ prod[p].sent < Quota[p]
      BY <1>5, <1>p DEF releaseBuffer, IInv, ProducersSound
    <2>2. x \in Tuples
      BY <2>1 DEF Tuples
    <2>3. /\ payload' = [payload EXCEPT ![b] = x]
          /\ ready' = [ready EXCEPT ![t].queue = Append(ready[t].queue, b)]
          /\ prod' = [prod EXCEPT ![p].pc = "route", ![p].sent = prod[p].sent + 1, ![p].buf = NoBuf]
          /\ UNCHANGED <<head, tail, slots, opened, fire, consumed>>
      BY <1>5 DEF releaseBuffer, poolVars
    <2> HIDE DEF b, t, x
    <2>4. Append(ready[t].queue, b) \in Seq(Buffers)
      BY <1>b, <2>1
    <2>5. ready' \in [Targets -> [queue : Seq(Buffers), closing : BOOLEAN]]
      BY <1>b, <2>1, <2>3, <2>4, ZenonT(60)
    <2>6. payload' \in [Buffers -> Tuples \cup {NoTuple}]
      BY <1>b, <2>2, <2>3, ZenonT(60)
    <2>7. prod' \in [Producers -> ProducerStates]
      BY <1>p, <2>1, <2>3 DEF ProducerPcs, ProducerStates
    <2> QED BY <1>b, <1>f, <2>3, <2>5, <2>6, <2>7, ZenonT(60) DEF Types
  <1>6. ASSUME NEW p \in Producers, close(p) \/ fifoDrained(p) PROVE Types'
    <2>1. \E l \in {"close", "done", "join"}, t \in Targets :
            prod' = [prod EXCEPT ![p].pc = l, ![p].target = t]
      <3>1. CASE close(p)
        BY <3>1, BufferFacts, ZenonT(60) DEF close
      <3>2. CASE fifoDrained(p)
        <4>1. prod[p].target \in Targets
          BY <1>p
        <4>2. prod[p].target # Fanout - 1 => prod[p].target + 1 \in Targets
          BY <4>1 DEF Targets
        <4> QED BY <3>2, <4>2, BufferFacts, ZenonT(60) DEF fifoDrained
      <3> QED BY <1>6, <3>1, <3>2
    <2>2. UNCHANGED <<head, tail, slots, ready, payload, opened, fire, consumed>>
      BY <1>6 DEF close, fifoDrained, poolVars
    <2>3. prod' \in [Producers -> ProducerStates]
      <3>1. PICK l \in {"close", "done", "join"}, t \in Targets :
              prod' = [prod EXCEPT ![p].pc = l, ![p].target = t]
        BY <2>1, ZenonT(60)
      <3> DEFINE old == prod[p]
                 new == [old EXCEPT !.pc = l, !.target = t]
      <3>2. prod' = [prod EXCEPT ![p] = new]
        BY <3>1, ZenonT(60)
      <3>3. old \in ProducerStates /\ l \in ProducerPcs
        BY <1>p
      <3> HIDE DEF old
      <3>4. new \in ProducerStates
        BY <3>3, ZenonT(60)
      <3> HIDE DEF new
      <3> QED BY <1>p, <3>2, <3>4
    <2> QED BY <1>b, <1>f, <2>2, <2>3 DEF Types
  <1>7. ASSUME NEW p \in Producers, closeFifo(p) PROVE Types'
    <2>1. /\ prod' = [prod EXCEPT ![p].pc = "drain"]
          /\ ready' = [ready EXCEPT ![prod[p].target].closing = TRUE]
          /\ UNCHANGED <<head, tail, slots, payload, opened, fire, consumed>>
      BY <1>7 DEF closeFifo, Go, poolVars
    <2>2. prod' \in [Producers -> ProducerStates]
      BY <1>p, <2>1
    <2>3. ready' \in [Targets -> [queue : Seq(Buffers), closing : BOOLEAN]]
      <3>1. prod[p].target \in Targets
        BY <1>p
      <3> QED BY <1>b, <2>1, <3>1, ZenonT(60)
    <2> QED BY <1>b, <1>f, <2>1, <2>2, <2>3, ZenonT(60) DEF Types
  <1>8. ASSUME NEW p \in Producers, join(p) PROVE Types'
    <2>1. /\ prod' = [prod EXCEPT ![p].pc = "done"] /\ opened' = FALSE
          /\ UNCHANGED <<head, tail, slots, ready, payload, fire, consumed>>
      BY <1>8 DEF join, Go, poolVars
    <2>2. prod' \in [Producers -> ProducerStates]
      BY <1>p, <2>1
    <2> QED BY <1>b, <1>f, <2>1, <2>2, ZenonT(60) DEF Types
  <1>9. ASSUME NEW t \in Targets, seedDraw(t) PROVE Types'
    <2>1. fire[t].n + 1 \in 1 .. Slack /\ head[t] \in Tickets
      BY <1>9, <1>b, <1>f DEF seedDraw, IInv, FirersSound
    <2>2. /\ fire' = [fire EXCEPT ![t].pc = "seedput", ![t].ticket = head[t], ![t].n = fire[t].n + 1,
                                 ![t].buf = <<t, fire[t].n + 1>>]
          /\ head' = [head EXCEPT ![t] = (head[t] + 2) % IndexMod]
          /\ UNCHANGED <<tail, slots, ready, payload, opened, prod, consumed>>
      BY <1>9 DEF seedDraw, DrawHead
    <2>3. <<t, fire[t].n + 1>> \in Buffers /\ (head[t] + 2) % IndexMod \in Tickets
      BY <2>1, BufferFacts, TicketFacts
    <2>4. fire' \in [Targets -> FirerStates]
      BY <1>f, <2>1, <2>2, <2>3
    <2>5. head' \in [Targets -> Tickets]
      BY <1>b, <2>2, <2>3
    <2> QED BY <1>b, <1>p, <2>2, <2>4, <2>5 DEF Types
  <1>10. ASSUME NEW t \in Targets, seedPut(t) \/ freeBuffer(t) PROVE Types'
    <2> DEFINE k == fire[t].ticket  b == fire[t].buf
    <2>1. k \in Tickets /\ b \in Buffers \cup {NoBuf}
      BY <1>f
    <2>2. /\ \E l \in {"loop", "seed"} : fire' = [fire EXCEPT ![t].pc = l, ![t].buf = NoBuf]
          /\ slots' = [slots EXCEPT ![t][Entry(k)] = [marker |-> k + 1, buf |-> b]]
          /\ UNCHANGED <<head, tail, ready, payload, opened, prod, consumed>>
      BY <1>10 DEF seedPut, freeBuffer, Put
    <2> HIDE DEF k, b
    <2>3. Entry(k) \in Ring /\ k + 1 \in 0 .. IndexMod - 1
      BY <2>1, TicketFacts
    <2>4. fire' \in [Targets -> FirerStates]
      <3>1. PICK l \in {"loop", "seed"} : fire' = [fire EXCEPT ![t].pc = l, ![t].buf = NoBuf]
        BY <2>2, ZenonT(60)
      <3> QED BY <1>f, <3>1, ZenonT(60)
    <2>5. slots' \in [Targets -> [Ring -> Entries]]
      BY <1>b, <2>1, <2>2, <2>3
    <2> QED BY <1>b, <1>p, <2>2, <2>4, <2>5, ZenonT(60) DEF Types
  <1>11. ASSUME NEW t \in Targets, get_ready(t) PROVE Types'
    <2>1. CASE ready[t].queue # <<>>
      <3>1. /\ fire' = [fire EXCEPT ![t].pc = "consume", ![t].buf = Head(ready[t].queue)]
            /\ ready' = [ready EXCEPT ![t].queue = Tail(ready[t].queue)]
            /\ UNCHANGED <<head, tail, slots, payload, opened, prod, consumed>>
        BY <1>11, <2>1 DEF get_ready, poolVars
      <3>2. Head(ready[t].queue) \in Buffers /\ Tail(ready[t].queue) \in Seq(Buffers)
        BY <1>b, <2>1
      <3>3. fire' \in [Targets -> FirerStates]
        BY <1>f, <3>1, <3>2, ZenonT(60)
      <3>4. ready' \in [Targets -> [queue : Seq(Buffers), closing : BOOLEAN]]
        BY <1>b, <3>1, <3>2, ZenonT(60)
      <3> QED BY <1>b, <1>p, <3>1, <3>3, <3>4 DEF Types
    <2>2. CASE ready[t].queue = <<>>
      <3>1. /\ fire' = [fire EXCEPT ![t].pc = "drain"]
            /\ UNCHANGED <<head, tail, slots, ready, payload, opened, prod, consumed>>
        BY <1>11, <2>2 DEF get_ready, poolVars
      <3>2. fire' \in [Targets -> FirerStates]
        BY <1>f, <3>1
      <3> QED BY <1>b, <1>p, <3>1, <3>2 DEF Types
    <2> QED BY <2>1, <2>2
  <1>12. ASSUME NEW t \in Targets, catch(t) PROVE Types'
    <2>1. fire[t].buf \in Buffers /\ head[t] \in Tickets
      BY <1>12, <1>b, <1>f DEF catch, IInv, FirersSound
    <2>2. /\ consumed' = consumed \cup {payload[fire[t].buf]}
          /\ fire' = [fire EXCEPT ![t].pc = "free", ![t].ticket = head[t]]
          /\ head' = [head EXCEPT ![t] = (head[t] + 2) % IndexMod]
          /\ UNCHANGED <<tail, slots, ready, payload, opened, prod>>
      BY <1>12 DEF catch, DrawHead
    <2>3. payload[fire[t].buf] \in Tuples
      <3>1. Carrying(fire[t].buf)
        BY <1>12, <2>1 DEF catch, Carrying, InFire, IInv, FirersSound
      <3> QED BY <2>1, <3>1 DEF IInv, Carried
    <2>4. (head[t] + 2) % IndexMod \in Tickets
      BY <2>1, TicketFacts
    <2>5. fire' \in [Targets -> FirerStates]
      BY <1>f, <2>1, <2>2, ZenonT(60)
    <2>6. head' \in [Targets -> Tickets]
      BY <1>b, <2>2, <2>4
    <2> QED BY <1>b, <1>p, <2>2, <2>3, <2>5, <2>6 DEF Types
  <1>13. ASSUME NEW t \in Targets, drainDraw(t) PROVE Types'
    <2>1. tail[t] \in Tickets
      BY <1>b
    <2>2. /\ fire' = [fire EXCEPT ![t].pc = "draintake", ![t].ticket = tail[t]]
          /\ tail' = [tail EXCEPT ![t] = (tail[t] + 2) % IndexMod]
          /\ UNCHANGED <<head, slots, ready, payload, opened, prod, consumed>>
      BY <1>13 DEF drainDraw, DrawTail
    <2>3. (tail[t] + 2) % IndexMod \in Tickets
      BY <2>1, TicketFacts
    <2>4. fire' \in [Targets -> FirerStates]
      BY <1>f, <2>1, <2>2, ZenonT(60)
    <2>5. tail' \in [Targets -> Tickets]
      BY <1>b, <2>2, <2>3
    <2> QED BY <1>b, <1>p, <2>2, <2>4, <2>5 DEF Types
  <1>14. ASSUME NEW t \in Targets, drainTake(t) PROVE Types'
    <2> DEFINE k == fire[t].ticket
    <2>1. k \in Tickets /\ fire[t].n - 1 \in 0 .. Slack
      BY <1>14, <1>f DEF drainTake, IInv, FirersSound
    <2>2. /\ \E l \in {"done", "drain"} : fire' = [fire EXCEPT ![t].pc = l, ![t].n = fire[t].n - 1]
          /\ slots' = [slots EXCEPT ![t][Entry(k)].marker = k]
          /\ UNCHANGED <<head, tail, ready, payload, opened, prod, consumed>>
      BY <1>14, ZenonT(60) DEF drainTake, Take
    <2> HIDE DEF k
    <2>3. Entry(k) \in Ring /\ k \in 0 .. IndexMod - 1
      BY <2>1, TicketFacts
    <2>4. fire' \in [Targets -> FirerStates]
      BY <1>f, <2>1, <2>2
    <2>5. slots' \in [Targets -> [Ring -> Entries]]
      <3> DEFINE e == Entry(k)
                 entry == [slots[t][e] EXCEPT !.marker = k]
                 row == [slots[t] EXCEPT ![e] = entry]
      <3>1. slots' = [slots EXCEPT ![t] = row]
        BY <2>2
      <3>2. entry \in Entries
        <4> DEFINE old == slots[t][e]
        <4>1. old \in Entries /\ entry = [old EXCEPT !.marker = k]
          BY <1>b, <2>1, <2>3
        <4> HIDE DEF old, entry
        <4>2. old.buf \in Buffers \cup {NoBuf} /\ entry = [marker |-> k, buf |-> old.buf]
          BY <4>1
        <4> QED BY <2>3, <4>2
      <3> HIDE DEF entry
      <3>3. row \in [Ring -> Entries]
        BY <1>b, <2>1, <2>3, <3>2
      <3> HIDE DEF row
      <3> QED BY <1>b, <2>1, <3>1, <3>3
    <2> QED BY <1>b, <1>p, <2>2, <2>4, <2>5 DEF Types
  <1> QED
    BY <1>1, <1>2, <1>3, <1>4, <1>5, <1>6, <1>7, <1>8, <1>9, <1>10, <1>11, <1>12, <1>13, <1>14
    DEF Next, ProducerStep, FireStep

-----------------------------------------------------------------------------
(* The steps, pointwise *)

\* Opening, choosing a target, drawing a ticket and closing move no buffer.
LEMMA ControlEffect ==
  ASSUME Types, NEW p \in Producers,
         \/ open(p) \/ acquireDraw(p) \/ close(p) \/ closeFifo(p) \/ fifoDrained(p) \/ join(p)
         \/ \E t \in Targets : consume(p, t)
  PROVE  /\ \A q \in Producers : q # p => prod'[q] = prod[q]
         /\ prod[p].pc # "fill" /\ prod'[p].pc # "fill"
         /\ prod'[p].buf = prod[p].buf /\ prod'[p].sent = prod[p].sent
         /\ slots' = slots /\ payload' = payload /\ consumed' = consumed
         /\ \A t \in Targets : /\ ready'[t].queue = ready[t].queue
                              /\ fire'[t].buf = fire[t].buf /\ fire'[t].n = fire[t].n
  <1>t. /\ prod \in [Producers -> ProducerStates] /\ fire \in [Targets -> FirerStates]
        /\ ready \in [Targets -> [queue : Seq(Buffers), closing : BOOLEAN]]
    BY DEF Types
  <1>1. /\ \A q \in Producers : q # p => prod'[q] = prod[q]
        /\ prod[p].pc # "fill" /\ prod'[p].pc # "fill"
        /\ prod'[p].buf = prod[p].buf /\ prod'[p].sent = prod[p].sent
    BY <1>t DEF open, acquireDraw, close, closeFifo, fifoDrained, join, consume, Go, ProducerStates
  <1>2. slots' = slots /\ payload' = payload /\ consumed' = consumed
    BY DEF open, acquireDraw, close, closeFifo, fifoDrained, join, consume, poolVars
  <1>3. \A t \in Targets : ready'[t].queue = ready[t].queue
    <2>1. CASE closeFifo(p)
      <3>1. prod[p].target \in Targets
        BY <1>t DEF ProducerStates
      <3>2. ready' = [ready EXCEPT ![prod[p].target].closing = TRUE]
        BY <2>1 DEF closeFifo
      <3> QED BY <1>t, <3>1, <3>2
    <2>2. CASE ~closeFifo(p)
      <3>1. ready' = ready
        BY <2>2 DEF open, acquireDraw, close, fifoDrained, join, consume
      <3> QED BY <3>1
    <2> QED BY <2>1, <2>2
  <1>4. \A t \in Targets : fire'[t].buf = fire[t].buf /\ fire'[t].n = fire[t].n
    BY <1>t DEF open, acquireDraw, close, closeFifo, fifoDrained, join, consume, FirerStates
  <1> QED BY <1>1, <1>2, <1>3, <1>4

\* A producer takes the buffer that its ticket's entry marks as filled.
LEMMA TakeEffect ==
  ASSUME Types, NEW p \in Producers, acquireTake(p)
  PROVE  \E t \in Targets, e \in Ring :
           /\ t = prod[p].target /\ Odd(slots[t][e].marker)
           /\ \A q \in Producers : q # p => prod'[q] = prod[q]
           /\ prod[p].pc = "take" /\ prod'[p].pc = "fill" /\ prod'[p].sent = prod[p].sent
           /\ prod'[p].target = t /\ prod'[p].buf = slots[t][e].buf
           /\ ~Odd(slots'[t][e].marker) /\ slots'[t][e].buf = slots[t][e].buf
           /\ \A u \in Targets, i \in Ring : <<u, i>> # <<t, e>> => slots'[u][i] = slots[u][i]
           /\ UNCHANGED <<ready, payload, remaining, opened, fire, consumed>>
  <1> DEFINE t == prod[p].target  k == prod[p].ticket  e == Entry(k)
  <1>t. prod \in [Producers -> ProducerStates] /\ slots \in [Targets -> [Ring -> Entries]]
    BY DEF Types
  <1>1. t \in Targets /\ k \in Tickets
    BY <1>t DEF ProducerStates
  <1>2. e \in Ring /\ ~Odd(k) /\ Odd(k + 1)
    BY <1>1, TicketFacts
  <1>3. /\ slots[t][e].marker = k + 1 /\ prod[p].pc = "take"
        /\ prod' = [prod EXCEPT ![p].pc = "fill", ![p].buf = slots[t][e].buf]
        /\ slots' = [slots EXCEPT ![t][e].marker = k]
        /\ UNCHANGED <<ready, payload, remaining, opened, fire, consumed>>
    BY ZenonT(60) DEF acquireTake, Take
  <1>4. /\ \A q \in Producers : q # p => prod'[q] = prod[q]
        /\ prod'[p].pc = "fill" /\ prod'[p].sent = prod[p].sent
        /\ prod'[p].target = t /\ prod'[p].buf = slots[t][e].buf
    BY <1>t, <1>3 DEF ProducerStates
  <1> HIDE DEF t, k, e
  <1>5. /\ slots'[t][e].marker = k /\ slots'[t][e].buf = slots[t][e].buf
        /\ \A u \in Targets, i \in Ring : <<u, i>> # <<t, e>> => slots'[u][i] = slots[u][i]
    BY <1>t, <1>1, <1>2, <1>3 DEF Entries
  <1>6. t = prod[p].target
    BY DEF t
  <1> QED BY <1>1, <1>2, <1>3, <1>4, <1>5, <1>6, ZenonT(60)

\* A producer queues the buffer it filled.
LEMMA ReleaseEffect ==
  ASSUME Types, ProducersSound, NEW p \in Producers, releaseBuffer(p)
  PROVE  \E t \in Targets, b \in Buffers :
           /\ t = prod[p].target /\ b = prod[p].buf /\ b[1] = t
           /\ <<p, prod[p].sent + 1>> \in Tuples
           /\ payload' = [payload EXCEPT ![b] = <<p, prod[p].sent + 1>>]
           /\ \A q \in Producers : q # p => prod'[q] = prod[q]
           /\ prod[p].pc = "fill" /\ prod'[p].pc = "route" /\ prod'[p].sent = prod[p].sent + 1
           /\ prod'[p].target = t /\ prod'[p].buf = NoBuf /\ prod[p].sent < Quota[p]
           /\ ready'[t].queue = Append(ready[t].queue, b) /\ ready'[t].closing = ready[t].closing
           /\ \A u \in Targets : u # t => ready'[u] = ready[u]
           /\ UNCHANGED <<slots, remaining, opened, fire, consumed>>
  <1> DEFINE t == prod[p].target  b == prod[p].buf  x == <<p, prod[p].sent + 1>>
  <1>t. /\ prod \in [Producers -> ProducerStates]
        /\ ready \in [Targets -> [queue : Seq(Buffers), closing : BOOLEAN]]
    BY DEF Types
  <1>1. /\ t \in Targets /\ b \in Buffers /\ b[1] = t
        /\ prod[p].sent \in Nat /\ prod[p].sent < Quota[p]
    BY <1>t DEF releaseBuffer, ProducersSound, ProducerStates
  <1>2. x \in Tuples
    BY <1>1, ConstantsAssumption DEF Tuples
  <1>3. /\ prod[p].pc = "fill" /\ payload' = [payload EXCEPT ![b] = x]
        /\ ready' = [ready EXCEPT ![t].queue = Append(ready[t].queue, b)]
        /\ prod' = [prod EXCEPT ![p].pc = "route", ![p].sent = prod[p].sent + 1, ![p].buf = NoBuf]
        /\ UNCHANGED <<slots, remaining, opened, fire, consumed>>
    BY DEF releaseBuffer, poolVars
  <1>4. /\ \A q \in Producers : q # p => prod'[q] = prod[q]
        /\ prod'[p].pc = "route" /\ prod'[p].sent = prod[p].sent + 1
        /\ prod'[p].target = t /\ prod'[p].buf = NoBuf
    BY <1>t, <1>3 DEF ProducerStates
  <1>5. /\ ready'[t].queue = Append(ready[t].queue, b) /\ ready'[t].closing = ready[t].closing
        /\ \A u \in Targets : u # t => ready'[u] = ready[u]
    BY <1>t, <1>1, <1>3
  <1>6. t = prod[p].target /\ b = prod[p].buf /\ x = <<p, prod[p].sent + 1>>
    OBVIOUS
  <1> HIDE DEF t, b, x
  <1> QED BY <1>1, <1>2, <1>3, <1>4, <1>5, <1>6, ZenonT(60)

\* A firer puts the buffer in its hand into an entry that is not filled.
LEMMA PutEffect ==
  ASSUME Types, FirersSound, NEW t \in Targets, seedPut(t) \/ freeBuffer(t)
  PROVE  \E e \in Ring :
           /\ ~Odd(slots[t][e].marker) /\ Odd(slots'[t][e].marker)
           /\ slots'[t][e].buf = fire[t].buf /\ fire[t].buf \in Buffers /\ fire[t].buf[1] = t
           /\ \A u \in Targets, i \in Ring : <<u, i>> # <<t, e>> => slots'[u][i] = slots[u][i]
           /\ \A u \in Targets : u # t => fire'[u] = fire[u]
           /\ fire'[t].buf = NoBuf /\ fire'[t].n = fire[t].n
           /\ \/ fire[t].pc = "free" /\ fire'[t].pc = "loop"
              \/ fire[t].pc = "seedput" /\ fire[t].n = Slack /\ fire'[t].pc = "loop"
              \/ fire[t].pc = "seedput" /\ fire[t].n # Slack /\ fire'[t].pc = "seed"
           /\ UNCHANGED <<ready, payload, remaining, opened, prod, consumed>>
  <1> DEFINE k == fire[t].ticket  e == Entry(k)  b == fire[t].buf
  <1>t. fire \in [Targets -> FirerStates] /\ slots \in [Targets -> [Ring -> Entries]]
    BY DEF Types
  <1>1. k \in Tickets /\ b \in Buffers /\ b[1] = t
    BY <1>t DEF FirersSound, FirerStates, seedPut, freeBuffer
  <1>2. e \in Ring /\ Odd(k + 1)
    BY <1>1, TicketFacts
  <1>3. /\ ~Odd(slots[t][e].marker)
        /\ slots' = [slots EXCEPT ![t][e] = [marker |-> k + 1, buf |-> b]]
        /\ UNCHANGED <<ready, payload, remaining, opened, prod, consumed>>
    BY DEF seedPut, freeBuffer, Put
  <1>4. /\ \A u \in Targets : u # t => fire'[u] = fire[u]
        /\ fire'[t].buf = NoBuf /\ fire'[t].n = fire[t].n
        /\ \/ fire[t].pc = "free" /\ fire'[t].pc = "loop"
           \/ fire[t].pc = "seedput" /\ fire[t].n = Slack /\ fire'[t].pc = "loop"
           \/ fire[t].pc = "seedput" /\ fire[t].n # Slack /\ fire'[t].pc = "seed"
    BY <1>t DEF seedPut, freeBuffer, FirerStates
  <1> HIDE DEF k, e, b
  <1>5. /\ slots'[t][e].marker = k + 1 /\ slots'[t][e].buf = b
        /\ \A u \in Targets, i \in Ring : <<u, i>> # <<t, e>> => slots'[u][i] = slots[u][i]
    BY <1>t, <1>1, <1>2, <1>3 DEF Entries
  <1>6. b = fire[t].buf
    BY DEF b
  <1> QED BY <1>1, <1>2, <1>3, <1>4, <1>5, <1>6

\* A firer takes the next of its fresh buffers into its hand.
LEMMA SeedEffect ==
  ASSUME Types, FirersSound, NEW t \in Targets, seedDraw(t)
  PROVE  /\ fire[t].pc = "seed" /\ fire'[t].pc = "seedput"
         /\ fire[t].n + 1 \in 1 .. Slack /\ fire'[t].n = fire[t].n + 1
         /\ fire'[t].buf = <<t, fire[t].n + 1>>
         /\ \A u \in Targets : u # t => fire'[u] = fire[u]
         /\ UNCHANGED <<slots, ready, payload, remaining, opened, prod, consumed>>
  <1>t. fire \in [Targets -> FirerStates]
    BY DEF Types
  <1>1. fire[t].n + 1 \in 1 .. Slack
    BY <1>t, ConstantsAssumption DEF seedDraw, FirersSound, FirerStates
  <1>2. /\ fire[t].pc = "seed"
        /\ fire' = [fire EXCEPT ![t].pc = "seedput", ![t].ticket = head[t], ![t].n = fire[t].n + 1,
                               ![t].buf = <<t, fire[t].n + 1>>]
        /\ UNCHANGED <<slots, ready, payload, remaining, opened, prod, consumed>>
    BY DEF seedDraw
  <1>3. /\ fire'[t].pc = "seedput" /\ fire'[t].n = fire[t].n + 1
        /\ fire'[t].buf = <<t, fire[t].n + 1>>
        /\ \A u \in Targets : u # t => fire'[u] = fire[u]
    BY <1>t, <1>2 DEF FirerStates
  <1> QED BY <1>1, <1>2, <1>3, ZenonT(60)

\* A firer pops a buffer of its queue.
LEMMA GetEffect ==
  ASSUME Types, NEW t \in Targets, get_ready(t), ready[t].queue # <<>>
  PROVE  /\ fire[t].pc = "loop" /\ fire'[t].pc = "consume" /\ fire'[t].n = fire[t].n
         /\ fire'[t].buf = Head(ready[t].queue)
         /\ ready'[t].queue = Tail(ready[t].queue) /\ ready'[t].closing = ready[t].closing
         /\ \A u \in Targets : u # t => fire'[u] = fire[u] /\ ready'[u] = ready[u]
         /\ UNCHANGED <<slots, payload, remaining, opened, prod, consumed>>
  <1>t. /\ fire \in [Targets -> FirerStates]
        /\ ready \in [Targets -> [queue : Seq(Buffers), closing : BOOLEAN]]
    BY DEF Types
  <1>1. /\ fire[t].pc = "loop"
        /\ fire' = [fire EXCEPT ![t].pc = "consume", ![t].buf = Head(ready[t].queue)]
        /\ ready' = [ready EXCEPT ![t].queue = Tail(ready[t].queue)]
        /\ UNCHANGED <<slots, payload, remaining, opened, prod, consumed>>
    BY DEF get_ready, poolVars
  <1>2. /\ fire'[t].pc = "consume" /\ fire'[t].n = fire[t].n
        /\ fire'[t].buf = Head(ready[t].queue)
        /\ \A u \in Targets : u # t => fire'[u] = fire[u]
    BY <1>t, <1>1 DEF FirerStates
  <1>3. /\ ready'[t].queue = Tail(ready[t].queue) /\ ready'[t].closing = ready[t].closing
        /\ \A u \in Targets : u # t => ready'[u] = ready[u]
    BY <1>t, <1>1
  <1> QED BY <1>1, <1>2, <1>3, ZenonT(60)

\* Consuming the tuple, finding the queue closed and drawing a ticket to drain
\* the pool move no buffer.
LEMMA FireControlEffect ==
  ASSUME Types, NEW t \in Targets,
         catch(t) \/ drainDraw(t) \/ (get_ready(t) /\ ready[t].queue = <<>>)
  PROVE  /\ \/ catch(t) /\ fire[t].pc = "consume" /\ fire'[t].pc = "free"
                      /\ consumed' = consumed \cup {payload[fire[t].buf]}
            \/ fire[t].pc = "drain" /\ fire'[t].pc = "draintake" /\ consumed' = consumed
            \/ fire[t].pc = "loop" /\ fire'[t].pc = "drain" /\ consumed' = consumed
               /\ ready[t].queue = <<>> /\ ready[t].closing
         /\ fire'[t].buf = fire[t].buf /\ fire'[t].n = fire[t].n
         /\ \A u \in Targets : u # t => fire'[u] = fire[u]
         /\ UNCHANGED <<slots, ready, payload, remaining, opened, prod>>
  <1>t. fire \in [Targets -> FirerStates]
    BY DEF Types
  <1>1. CASE catch(t)
    <2>1. /\ fire[t].pc = "consume" /\ consumed' = consumed \cup {payload[fire[t].buf]}
          /\ fire' = [fire EXCEPT ![t].pc = "free", ![t].ticket = head[t]]
          /\ UNCHANGED <<slots, ready, payload, remaining, opened, prod>>
      BY <1>1 DEF catch
    <2>2. /\ fire'[t].pc = "free" /\ fire'[t].buf = fire[t].buf /\ fire'[t].n = fire[t].n
          /\ \A u \in Targets : u # t => fire'[u] = fire[u]
      BY <1>t, <2>1 DEF FirerStates
    <2> QED BY <1>1, <2>1, <2>2, ZenonT(60)
  <1>2. CASE drainDraw(t)
    <2>1. /\ fire[t].pc = "drain" /\ consumed' = consumed
          /\ fire' = [fire EXCEPT ![t].pc = "draintake", ![t].ticket = tail[t]]
          /\ UNCHANGED <<slots, ready, payload, remaining, opened, prod>>
      BY <1>2 DEF drainDraw
    <2>2. /\ fire'[t].pc = "draintake" /\ fire'[t].buf = fire[t].buf /\ fire'[t].n = fire[t].n
          /\ \A u \in Targets : u # t => fire'[u] = fire[u]
      BY <1>t, <2>1 DEF FirerStates
    <2> QED BY <2>1, <2>2, ZenonT(60)
  <1>3. CASE get_ready(t) /\ ready[t].queue = <<>>
    <2>1. /\ fire[t].pc = "loop" /\ consumed' = consumed /\ ready[t].closing
          /\ fire' = [fire EXCEPT ![t].pc = "drain"]
          /\ UNCHANGED <<slots, ready, payload, remaining, opened, prod>>
      BY <1>3 DEF get_ready, poolVars
    <2>2. /\ fire'[t].pc = "drain" /\ fire'[t].buf = fire[t].buf /\ fire'[t].n = fire[t].n
          /\ \A u \in Targets : u # t => fire'[u] = fire[u]
      BY <1>t, <2>1 DEF FirerStates
    <2> QED BY <1>3, <2>1, <2>2
  <1> QED BY <1>1, <1>2, <1>3

\* A draining firer takes a buffer out of its pool for good.
LEMMA DrainEffect ==
  ASSUME Types, FirersSound, NEW t \in Targets, drainTake(t)
  PROVE  \E e \in Ring :
           /\ Odd(slots[t][e].marker) /\ ~Odd(slots'[t][e].marker)
           /\ slots'[t][e].buf = slots[t][e].buf
           /\ \A u \in Targets, i \in Ring : <<u, i>> # <<t, e>> => slots'[u][i] = slots[u][i]
           /\ \A u \in Targets : u # t => fire'[u] = fire[u]
           /\ fire[t].pc = "draintake" /\ fire'[t].buf = fire[t].buf
           /\ fire'[t].n = fire[t].n - 1 /\ fire[t].n \in 1 .. Slack
           /\ fire'[t].pc = IF fire[t].n = 1 THEN "done" ELSE "drain"
           /\ UNCHANGED <<ready, payload, remaining, opened, prod, consumed>>
  <1> DEFINE k == fire[t].ticket  e == Entry(k)
  <1>t. fire \in [Targets -> FirerStates] /\ slots \in [Targets -> [Ring -> Entries]]
    BY DEF Types
  <1>1. k \in Tickets /\ fire[t].n \in 1 .. Slack
    BY <1>t, ConstantsAssumption DEF FirersSound, FirerStates, drainTake
  <1>2. e \in Ring /\ ~Odd(k) /\ Odd(k + 1)
    BY <1>1, TicketFacts
  <1>3. /\ slots[t][e].marker = k + 1 /\ fire[t].pc = "draintake"
        /\ slots' = [slots EXCEPT ![t][e].marker = k]
        /\ UNCHANGED <<ready, payload, remaining, opened, prod, consumed>>
    BY DEF drainTake, Take
  <1>4. /\ \A u \in Targets : u # t => fire'[u] = fire[u]
        /\ fire'[t].buf = fire[t].buf /\ fire'[t].n = fire[t].n - 1
        /\ fire'[t].pc = IF fire[t].n = 1 THEN "done" ELSE "drain"
    BY <1>t DEF drainTake, FirerStates
  <1> HIDE DEF k, e
  <1>5. /\ slots'[t][e].marker = k /\ slots'[t][e].buf = slots[t][e].buf
        /\ \A u \in Targets, i \in Ring : <<u, i>> # <<t, e>> => slots'[u][i] = slots[u][i]
    BY <1>t, <1>1, <1>2, <1>3 DEF Entries
  <1> QED BY <1>1, <1>2, <1>3, <1>4, <1>5

-----------------------------------------------------------------------------
(* What threads and pools hold *)

\* The kinds of step that the proofs distinguish.
LEMMA Steps ==
  ASSUME Next
  PROVE  \/ \E p \in Producers :
              \/ open(p) \/ acquireDraw(p) \/ close(p) \/ closeFifo(p) \/ fifoDrained(p) \/ join(p)
              \/ \E t \in Targets : consume(p, t)
         \/ \E p \in Producers : acquireTake(p)
         \/ \E p \in Producers : releaseBuffer(p)
         \/ \E t \in Targets : seedDraw(t)
         \/ \E t \in Targets : seedPut(t) \/ freeBuffer(t)
         \/ \E t \in Targets : get_ready(t) /\ ready[t].queue # <<>>
         \/ \E t \in Targets : catch(t) \/ drainDraw(t) \/ (get_ready(t) /\ ready[t].queue = <<>>)
         \/ \E t \in Targets : drainTake(t)
  BY DEF Next, ProducerStep, FireStep

\* Producers keep to their quota, and hold a buffer while filling it only.
LEMMA ProducersStep ==
  ASSUME IInv, Next
  PROVE  ProducersSound'
  <1>t. Types /\ ProducersSound /\ FirersSound /\ PoolsSound
    BY DEF IInv
  <1>q. ASSUME NEW q \in Producers
        PROVE  prod[q].sent \in Nat /\ Quota[q] \in Nat
    BY <1>t, ConstantsAssumption DEF Types, ProducerStates
  <1>1. ASSUME NEW p \in Producers,
               \/ open(p) \/ acquireDraw(p) \/ close(p) \/ closeFifo(p) \/ fifoDrained(p) \/ join(p)
               \/ \E t \in Targets : consume(p, t)
        PROVE  ProducersSound'
    <2>1. /\ \A q \in Producers : q # p => prod'[q] = prod[q]
          /\ prod[p].pc # "fill" /\ prod'[p].pc # "fill"
          /\ prod'[p].buf = prod[p].buf /\ prod'[p].sent = prod[p].sent
      BY <1>1, <1>t, ControlEffect
    <2>2. prod'[p].pc \in {"draw", "take"} => prod[p].sent < Quota[p]
      <3>1. prod \in [Producers -> ProducerStates]
        BY <1>t DEF Types
      <3> QED BY <1>1, <1>t, <3>1 DEF open, acquireDraw, close, closeFifo, fifoDrained, join, consume,
                                     Go, ProducerStates, ProducersSound
    <2> QED BY <1>t, <2>1, <2>2 DEF ProducersSound
  <1>2. ASSUME NEW p \in Producers, acquireTake(p) PROVE ProducersSound'
    <2>1. PICK t \in Targets, e \in Ring :
           /\ t = prod[p].target /\ Odd(slots[t][e].marker)
           /\ \A q \in Producers : q # p => prod'[q] = prod[q]
           /\ prod[p].pc = "take" /\ prod'[p].pc = "fill" /\ prod'[p].sent = prod[p].sent
           /\ prod'[p].target = t /\ prod'[p].buf = slots[t][e].buf
      BY <1>2, <1>t, TakeEffect
    <2>2. slots[t][e].buf # NoBuf /\ slots[t][e].buf[1] = t
      BY <1>t, <2>1 DEF PoolsSound
    <2> QED BY <1>t, <2>1, <2>2 DEF ProducersSound
  <1>3. ASSUME NEW p \in Producers, releaseBuffer(p) PROVE ProducersSound'
    <2>1. /\ \A q \in Producers : q # p => prod'[q] = prod[q]
          /\ prod'[p].pc = "route" /\ prod'[p].sent = prod[p].sent + 1
          /\ prod'[p].buf = NoBuf /\ prod[p].sent < Quota[p]
      BY <1>3, <1>t, ReleaseEffect, ZenonT(60)
    <2>2. prod'[p].sent <= Quota[p]
      BY <1>q, <2>1
    <2> QED BY <1>t, <2>1, <2>2 DEF ProducersSound
  <1>4. ASSUME prod' = prod PROVE ProducersSound'
    BY <1>4, <1>t DEF ProducersSound
  <1>5. ASSUME NEW t \in Targets, FireStep(t) PROVE prod' = prod
    BY <1>5, ZenonT(60) DEF FireStep, seedDraw, seedPut, get_ready, catch, freeBuffer, drainDraw, drainTake
  <1> QED BY <1>1, <1>2, <1>3, <1>4, <1>5 DEF Next, ProducerStep

\* Firers hold a buffer while seeding, consuming or freeing it only.
LEMMA FirersStep ==
  ASSUME IInv, Next
  PROVE  FirersSound'
  <1>t. Types /\ ProducersSound /\ FirersSound /\ PoolsSound
    BY DEF IInv
  <1>f. fire \in [Targets -> FirerStates] /\ ready \in [Targets -> [queue : Seq(Buffers), closing : BOOLEAN]]
    BY <1>t DEF Types
  <1> DEFINE Good(f, t) ==
        /\ f.pc \in {"seedput", "consume", "free"} <=> f.buf # NoBuf
        /\ f.buf # NoBuf => f.buf[1] = t
        /\ f.pc \in {"none", "seed"} => f.n < Slack
        /\ f.pc = "none" => f.n = 0
        /\ f.pc = "seedput" => f.buf = <<t, f.n>>
        /\ f.pc \in {"loop", "consume", "free"} => f.n = Slack
        /\ f.pc \in {"drain", "draintake"} => f.n # 0
  <1>g. \A t \in Targets : Good(fire[t], t)
    BY <1>t DEF FirersSound
  <1> SUFFICES \A t \in Targets : Good(fire'[t], t)
    BY DEF FirersSound
  <1>0. ASSUME NEW t \in Targets, Good(fire'[t], t), \A u \in Targets : u # t => fire'[u] = fire[u]
        PROVE  \A u \in Targets : Good(fire'[u], u)
    <2> HIDE DEF Good
    <2> QED BY <1>0, <1>g
  <1>n. \A t \in Targets : fire[t].n \in 0 .. Slack /\ Slack \in Nat \ {0}
    BY <1>f, ConstantsAssumption DEF FirerStates
  <1>1. ASSUME NEW p \in Producers, ProducerStep(p) PROVE \A t \in Targets : Good(fire'[t], t)
    <2>1. CASE fire' = fire
      BY <2>1, <1>g
    <2>2. CASE open(p) /\ ~opened
      <3>1. \A t \in Targets : fire[t].pc = "none"
        <4>1. Fresh
          BY <2>2 DEF open, IInv, Closing, Fresh, Active
        <4> QED BY <4>1 DEF IInv, Closing
      <3>2. \A t \in Targets : fire'[t].pc = "seed" /\ fire'[t].n = fire[t].n /\ fire'[t].buf = fire[t].buf
        BY <2>2, <1>f DEF open, FirerStates
      <3> QED BY <1>g, <1>n, <3>1, <3>2
    <2> QED BY <1>1, <2>1, <2>2, ZenonT(60) DEF ProducerStep, open, acquireDraw, acquireTake, releaseBuffer, close,
                                  closeFifo, fifoDrained, join, consume
  <1>2. ASSUME NEW t \in Targets, seedDraw(t) PROVE Good(fire'[t], t) /\ \A u \in Targets : u # t => fire'[u] = fire[u]
    <2>1. /\ fire'[t].pc = "seedput" /\ fire[t].n + 1 \in 1 .. Slack /\ fire'[t].n = fire[t].n + 1
          /\ fire'[t].buf = <<t, fire[t].n + 1>> /\ \A u \in Targets : u # t => fire'[u] = fire[u]
      BY <1>2, <1>t, SeedEffect
    <2>2. fire'[t].buf # NoBuf /\ fire'[t].buf[1] = t
      BY <2>1, BufferFacts
    <2> QED BY <2>1, <2>2
  <1>3. ASSUME NEW t \in Targets, seedPut(t) \/ freeBuffer(t)
        PROVE  Good(fire'[t], t) /\ \A u \in Targets : u # t => fire'[u] = fire[u]
    <2>1. /\ fire'[t].buf = NoBuf /\ fire'[t].n = fire[t].n
          /\ \/ fire[t].pc = "free" /\ fire'[t].pc = "loop"
             \/ fire[t].pc = "seedput" /\ fire[t].n = Slack /\ fire'[t].pc = "loop"
             \/ fire[t].pc = "seedput" /\ fire[t].n # Slack /\ fire'[t].pc = "seed"
          /\ \A u \in Targets : u # t => fire'[u] = fire[u]
      BY <1>3, <1>t, PutEffect
    <2> QED BY <1>g, <1>n, <2>1
  <1>4. ASSUME NEW t \in Targets, get_ready(t), ready[t].queue # <<>>
        PROVE  Good(fire'[t], t) /\ \A u \in Targets : u # t => fire'[u] = fire[u]
    <2>1. /\ fire[t].pc = "loop" /\ fire'[t].pc = "consume" /\ fire'[t].n = fire[t].n
          /\ fire'[t].buf = Head(ready[t].queue)
          /\ \A u \in Targets : u # t => fire'[u] = fire[u]
      BY <1>4, <1>t, GetEffect
    <2>2. ready[t].queue \in Seq(Buffers)
      BY <1>f
    <2>3. Head(ready[t].queue) = ready[t].queue[1] /\ 1 \in 1 .. Len(ready[t].queue) /\ Head(ready[t].queue) \in Buffers
      BY <1>4, <2>2
    <2>4. fire'[t].buf # NoBuf /\ fire'[t].buf[1] = t
      BY <1>t, <2>1, <2>3, BufferFacts DEF PoolsSound
    <2> QED BY <1>g, <2>1, <2>4
  <1>5. ASSUME NEW t \in Targets, catch(t) \/ drainDraw(t) \/ (get_ready(t) /\ ready[t].queue = <<>>)
        PROVE  Good(fire'[t], t) /\ \A u \in Targets : u # t => fire'[u] = fire[u]
    <2>1. /\ \/ fire[t].pc = "consume" /\ fire'[t].pc = "free"
             \/ fire[t].pc = "drain" /\ fire'[t].pc = "draintake"
             \/ fire[t].pc = "loop" /\ fire'[t].pc = "drain"
          /\ fire'[t].buf = fire[t].buf /\ fire'[t].n = fire[t].n
          /\ \A u \in Targets : u # t => fire'[u] = fire[u]
      BY <1>5, <1>t, FireControlEffect
    <2> QED BY <1>g, <1>n, <2>1
  <1>6. ASSUME NEW t \in Targets, drainTake(t)
        PROVE  Good(fire'[t], t) /\ \A u \in Targets : u # t => fire'[u] = fire[u]
    <2>1. /\ \A u \in Targets : u # t => fire'[u] = fire[u]
          /\ fire[t].pc = "draintake" /\ fire'[t].buf = fire[t].buf
          /\ fire'[t].n = fire[t].n - 1 /\ fire[t].n \in 1 .. Slack
          /\ fire'[t].pc = IF fire[t].n = 1 THEN "done" ELSE "drain"
      BY <1>6, <1>t, DrainEffect
    <2> QED BY <1>g, <2>1
  <1> HIDE DEF Good
  <1>7. ASSUME NEW t \in Targets, FireStep(t) PROVE \A u \in Targets : Good(fire'[u], u)
    BY <1>7, <1>0, <1>2, <1>3, <1>4, <1>5, <1>6 DEF FireStep
  <1> QED BY <1>1, <1>7 DEF Next

\* Buffers are put only into the ring and the queue of their target.
LEMMA PoolsStep ==
  ASSUME IInv, Next
  PROVE  PoolsSound'
  <1>t. Types /\ ProducersSound /\ FirersSound /\ PoolsSound
    BY DEF IInv
  <1>r. ready \in [Targets -> [queue : Seq(Buffers), closing : BOOLEAN]]
    BY <1>t DEF Types
  <1> DEFINE RingsGood == \A t \in Targets, i \in Ring :
                            /\ slots[t][i].buf # NoBuf => slots[t][i].buf[1] = t
                            /\ Odd(slots[t][i].marker) => slots[t][i].buf # NoBuf
             QueuesGood == \A t \in Targets : \A i \in 1 .. Len(ready[t].queue) : ready[t].queue[i][1] = t
  <1>g. RingsGood /\ QueuesGood
    BY <1>t DEF PoolsSound
  <1> SUFFICES RingsGood' /\ QueuesGood'
    BY DEF PoolsSound
  <1>1. ASSUME NEW p \in Producers, acquireTake(p) PROVE RingsGood' /\ QueuesGood'
    <2>1. PICK t \in Targets, e \in Ring :
           /\ ~Odd(slots'[t][e].marker) /\ slots'[t][e].buf = slots[t][e].buf
           /\ \A u \in Targets, i \in Ring : <<u, i>> # <<t, e>> => slots'[u][i] = slots[u][i]
           /\ ready' = ready
      BY <1>1, <1>t, TakeEffect
    <2>2. QueuesGood'
      BY <1>g, <2>1
    <2>3. RingsGood'
      BY <1>g, <2>1
    <2> QED BY <2>2, <2>3
  <1>2. ASSUME NEW t \in Targets, drainTake(t) PROVE RingsGood' /\ QueuesGood'
    <2>1. PICK e \in Ring :
           /\ ~Odd(slots'[t][e].marker) /\ slots'[t][e].buf = slots[t][e].buf
           /\ \A u \in Targets, i \in Ring : <<u, i>> # <<t, e>> => slots'[u][i] = slots[u][i]
           /\ ready' = ready
      BY <1>2, <1>t, DrainEffect
    <2>2. QueuesGood'
      BY <1>g, <2>1
    <2>3. RingsGood'
      BY <1>g, <2>1
    <2> QED BY <2>2, <2>3
  <1>3. ASSUME NEW t \in Targets, seedPut(t) \/ freeBuffer(t) PROVE RingsGood' /\ QueuesGood'
    <2>1. PICK e \in Ring :
           /\ slots'[t][e].buf = fire[t].buf /\ fire[t].buf \in Buffers /\ fire[t].buf[1] = t
           /\ \A u \in Targets, i \in Ring : <<u, i>> # <<t, e>> => slots'[u][i] = slots[u][i]
           /\ ready' = ready
      BY <1>3, <1>t, PutEffect
    <2>2. QueuesGood'
      BY <1>g, <2>1
    <2>3. RingsGood'
      BY <1>g, <2>1, BufferFacts
    <2> QED BY <2>2, <2>3
  <1>4. ASSUME NEW p \in Producers, releaseBuffer(p) PROVE RingsGood' /\ QueuesGood'
    <2>1. PICK t \in Targets, b \in Buffers :
           /\ b[1] = t /\ ready'[t].queue = Append(ready[t].queue, b)
           /\ \A u \in Targets : u # t => ready'[u] = ready[u]
           /\ slots' = slots
      BY <1>4, <1>t, ReleaseEffect, ZenonT(60)
    <2>2. RingsGood'
      BY <1>g, <2>1
    <2>3. ready[t].queue \in Seq(Buffers)
      BY <1>r
    <2>4. \A i \in 1 .. Len(ready'[t].queue) : ready'[t].queue[i][1] = t
      <3> DEFINE r == ready[t].queue  n == Len(r)
      <3>1. /\ n \in Nat /\ Len(Append(r, b)) = n + 1 /\ Append(r, b)[n + 1] = b
            /\ \A i \in 1 .. n : Append(r, b)[i] = r[i]
        BY <2>3, QueueFacts
      <3>2. \A i \in 1 .. n : r[i][1] = t
        BY <1>g
      <3> HIDE DEF r, n
      <3>3. \A i \in 1 .. Len(Append(r, b)) : Append(r, b)[i][1] = t
        BY <2>1, <3>1, <3>2
      <3> QED BY <2>1, <3>3 DEF r
    <2>5. ASSUME NEW u \in Targets, u # t
          PROVE  \A i \in 1 .. Len(ready'[u].queue) : ready'[u].queue[i][1] = u
      BY <1>g, <2>1, <2>5
    <2>6. QueuesGood'
      BY <2>4, <2>5
    <2> QED BY <2>2, <2>6
  <1>5. ASSUME NEW t \in Targets, get_ready(t), ready[t].queue # <<>> PROVE RingsGood' /\ QueuesGood'
    <2>1. /\ ready'[t].queue = Tail(ready[t].queue)
          /\ \A u \in Targets : u # t => ready'[u] = ready[u]
          /\ slots' = slots
      BY <1>5, <1>t, GetEffect
    <2>2. RingsGood'
      BY <1>g, <2>1
    <2>3. ready[t].queue \in Seq(Buffers)
      BY <1>r
    <2>4. \A i \in 1 .. Len(ready'[t].queue) : ready'[t].queue[i][1] = t
      <3> DEFINE r == ready[t].queue  n == Len(r)
      <3>1. /\ n \in Nat /\ Len(Tail(r)) = n - 1 /\ \A i \in 1 .. n - 1 : Tail(r)[i] = r[i + 1]
        BY <1>5, <2>3, QueueFacts
      <3>2. \A i \in 1 .. n : r[i][1] = t
        BY <1>g
      <3> HIDE DEF r, n
      <3>3. \A i \in 1 .. Len(Tail(r)) : Tail(r)[i][1] = t
        BY <3>1, <3>2
      <3> QED BY <2>1, <3>3 DEF r
    <2>5. ASSUME NEW u \in Targets, u # t
          PROVE  \A i \in 1 .. Len(ready'[u].queue) : ready'[u].queue[i][1] = u
      BY <1>g, <2>1, <2>5
    <2>6. QueuesGood'
      BY <2>4, <2>5
    <2> QED BY <2>2, <2>6
  <1>6. ASSUME slots' = slots, \A t \in Targets : ready'[t].queue = ready[t].queue
        PROVE  RingsGood' /\ QueuesGood'
    <2>1. RingsGood'
      BY <1>6, <1>g
    <2>2. QueuesGood'
      BY <1>6, <1>g
    <2> QED BY <2>1, <2>2
  <1> HIDE DEF RingsGood, QueuesGood
  <1>7. ASSUME NEW p \in Producers,
               \/ open(p) \/ acquireDraw(p) \/ close(p) \/ closeFifo(p) \/ fifoDrained(p) \/ join(p)
               \/ \E t \in Targets : consume(p, t)
        PROVE  RingsGood' /\ QueuesGood'
    BY <1>6, <1>7, <1>t, ControlEffect
  <1>8. ASSUME NEW t \in Targets, seedDraw(t) PROVE RingsGood' /\ QueuesGood'
    BY <1>6, <1>8, <1>t, SeedEffect
  <1>9. ASSUME NEW t \in Targets, catch(t) \/ drainDraw(t) \/ (get_ready(t) /\ ready[t].queue = <<>>)
        PROVE  RingsGood' /\ QueuesGood'
    BY <1>6, <1>9, <1>t, FireControlEffect
  <1> QED BY <1>1, <1>2, <1>3, <1>4, <1>5, <1>7, <1>8, <1>9, Steps

-----------------------------------------------------------------------------
(* A buffer is in one place *)

\* Steps that change no place.
LEMMA SamePlaces ==
  ASSUME slots' = slots,
         \A t \in Targets : ready'[t].queue = ready[t].queue /\ fire'[t].buf = fire[t].buf,
         \A p \in Producers : prod'[p].buf = prod[p].buf,
         NEW b \in Buffers
  PROVE  /\ Once(b)' <=> Once(b)
         /\ (Somewhere(b)' <=> Somewhere(b))
  <1>0. b[1] \in Targets
    BY BufferFacts
  <1>1. /\ \A i \in Ring : InRing(b, i)' <=> InRing(b, i)
        /\ \A i \in Nat : InReady(b, i)' <=> InReady(b, i)
        /\ \A p \in Producers : InHand(b, p)' <=> InHand(b, p)
        /\ InFire(b)' <=> InFire(b)
    BY <1>0 DEF InRing, InReady, InHand, InFire
  <1>2. Once(b)' <=> Once(b)
    BY <1>1 DEF Once
  <1>3. Somewhere(b)' <=> Somewhere(b)
    BY <1>1 DEF Somewhere
  <1> QED BY <1>2, <1>3

\* acquireBuffer moves a buffer from the ring to the producer.
LEMMA TakeMoves ==
  ASSUME IInv, NEW p \in Producers, acquireTake(p)
  PROVE  Buffered'
  <1>t. Types /\ ProducersSound /\ FirersSound /\ PoolsSound /\ Buffered
    BY DEF IInv
  <1>1. PICK t \in Targets, e \in Ring :
          /\ Odd(slots[t][e].marker)
          /\ \A q \in Producers : q # p => prod'[q] = prod[q]
          /\ prod[p].pc = "take" /\ prod'[p].buf = slots[t][e].buf
          /\ ~Odd(slots'[t][e].marker) /\ slots'[t][e].buf = slots[t][e].buf
          /\ \A u \in Targets, i \in Ring : <<u, i>> # <<t, e>> => slots'[u][i] = slots[u][i]
          /\ UNCHANGED <<ready, fire>>
    BY <1>t, TakeEffect
  <1> DEFINE c == slots[t][e].buf
  <1>2. c \in Buffers /\ c[1] = t /\ InRing(c, e)
    <2>1. slots[t][e] \in Entries
      BY <1>t DEF Types
    <2> QED BY <1>t, <1>1, <2>1, ZenonT(60) DEF PoolsSound, Entries, InRing
  <1>3. prod[p].buf = NoBuf
    BY <1>t, <1>1 DEF ProducersSound
  <1> HIDE DEF c
  <1> SUFFICES ASSUME NEW b \in Buffers
               PROVE  Once(b)' /\ (Seeded(b)' => Somewhere(b)') /\ (Unseeded(b)' => ~Somewhere(b)')
    BY DEF Buffered
  <1>b. b[1] \in Targets /\ b # NoBuf /\ Once(b) /\ Once(c)
    BY <1>t, <1>2, BufferFacts DEF Buffered
  <1>4. \A i \in Ring : InRing(b, i)' <=> InRing(b, i) /\ b # c
    <2> SUFFICES ASSUME NEW i \in Ring PROVE InRing(b, i)' <=> InRing(b, i) /\ b # c
      OBVIOUS
    <2>1. CASE <<b[1], i>> = <<t, e>>
      BY <1>1, <2>1 DEF InRing, c
    <2>2. CASE <<b[1], i>> # <<t, e>>
      <3>1. InRing(b, i)' <=> InRing(b, i)
        BY <1>1, <1>b, <2>2 DEF InRing
      <3>2. b = c => ~InRing(b, i)
        BY <1>2, <1>b, <2>2, SMTT(30) DEF Once
      <3> QED BY <3>1, <3>2
    <2> QED BY <2>1, <2>2
  <1>5. \A i \in Nat : InReady(b, i)' <=> InReady(b, i)
    BY <1>1 DEF InReady
  <1>6. \A q \in Producers : InHand(b, q)' <=> InHand(b, q) \/ (q = p /\ b = c)
    BY <1>1, <1>3, <1>b DEF InHand, c
  <1>7. InFire(b)' <=> InFire(b)
    BY <1>1 DEF InFire
  <1>8. Once(b)'
    <2>1. CASE b = c
      BY <1>2, <1>4, <1>5, <1>6, <1>7, <1>b, <2>1 DEF Once
    <2>2. CASE b # c
      BY <1>4, <1>5, <1>6, <1>7, <1>b, <2>2 DEF Once
    <2> QED BY <2>1, <2>2
  <1>9. Somewhere(b)' <=> Somewhere(b)
    BY <1>2, <1>4, <1>5, <1>6, <1>7 DEF Somewhere
  <1>10. (Seeded(b)' <=> Seeded(b)) /\ (Unseeded(b)' <=> Unseeded(b))
    BY <1>1 DEF Seeded, Unseeded
  <1> QED BY <1>8, <1>9, <1>10, <1>t DEF Buffered

\* releaseBuffer moves a buffer from the producer to the ready queue.
LEMMA ReleaseMoves ==
  ASSUME IInv, NEW p \in Producers, releaseBuffer(p)
  PROVE  Buffered'
  <1>t. Types /\ ProducersSound /\ FirersSound /\ PoolsSound /\ Buffered
    BY DEF IInv
  <1>1. PICK t \in Targets, c \in Buffers :
          /\ t = prod[p].target /\ c = prod[p].buf /\ c[1] = t
          /\ \A q \in Producers : q # p => prod'[q] = prod[q]
          /\ prod'[p].buf = NoBuf
          /\ ready'[t].queue = Append(ready[t].queue, c)
          /\ \A u \in Targets : u # t => ready'[u] = ready[u]
          /\ UNCHANGED <<slots, fire>>
    BY <1>t, ReleaseEffect, ZenonT(60)
  <1> DEFINE n == Len(ready[t].queue)
  <1>2. ready[t].queue \in Seq(Buffers) /\ n \in Nat
    BY <1>t DEF Types
  <1>3. /\ Len(ready'[t].queue) = n + 1 /\ ready'[t].queue[n + 1] = c
        /\ \A i \in 1 .. n : ready'[t].queue[i] = ready[t].queue[i]
    <2> DEFINE r == ready[t].queue
    <2>1. /\ Len(Append(r, c)) = n + 1 /\ Append(r, c)[n + 1] = c
          /\ \A i \in 1 .. n : Append(r, c)[i] = r[i]
      BY <1>2, QueueFacts
    <2>2. ready'[t].queue = Append(r, c)
      BY <1>1, ZenonT(60)
    <2> HIDE DEF n
    <2> QED BY <2>1, <2>2, ZenonT(60)
  <1> SUFFICES ASSUME NEW b \in Buffers
               PROVE  Once(b)' /\ (Seeded(b)' => Somewhere(b)') /\ (Unseeded(b)' => ~Somewhere(b)')
    BY DEF Buffered
  <1>b. b[1] \in Targets /\ b # NoBuf /\ Once(b) /\ Once(c) /\ InHand(c, p)
    BY <1>t, <1>1, BufferFacts, ZenonT(60) DEF Buffered, InHand
  <1>4. \A i \in Ring : InRing(b, i)' <=> InRing(b, i)
    BY <1>1, ZenonT(60) DEF InRing
  <1>5. \A i \in Nat : InReady(b, i)' <=> InReady(b, i) \/ (b = c /\ i = n + 1)
    <2> SUFFICES ASSUME NEW i \in Nat PROVE InReady(b, i)' <=> InReady(b, i) \/ (b = c /\ i = n + 1)
      OBVIOUS
    <2>1. CASE b[1] = t
      <3>1. InReady(b, i) <=> i \in 1 .. n /\ ready[t].queue[i] = b
        BY <2>1 DEF InReady
      <3>2. InReady(b, i)' <=> i \in 1 .. n + 1 /\ ready'[t].queue[i] = b
        BY <1>3, <2>1 DEF InReady
      <3> HIDE DEF n
      <3> QED BY <1>2, <1>3, <3>1, <3>2
    <2>2. CASE b[1] # t
      BY <1>1, <1>b, <2>2, ZenonT(60) DEF InReady
    <2> QED BY <2>1, <2>2
  <1>n. n + 1 \in Nat /\ n + 1 \notin 1 .. n
    BY <1>2
  <1>6. \A q \in Producers : InHand(b, q)' <=> InHand(b, q) /\ b # c
    <2> SUFFICES ASSUME NEW q \in Producers PROVE InHand(b, q)' <=> InHand(b, q) /\ b # c
      OBVIOUS
    <2>1. CASE q = p
      BY <1>1, <1>b, <2>1, ZenonT(60) DEF InHand
    <2>2. CASE q # p
      <3>1. InHand(b, q)' <=> InHand(b, q)
        BY <1>1, <2>2, ZenonT(60) DEF InHand
      <3>2. b = c => ~InHand(b, q)
        BY <1>b, <2>2 DEF Once
      <3> QED BY <3>1, <3>2
    <2> QED BY <2>1, <2>2
  <1>7. InFire(b)' <=> InFire(b)
    BY <1>1, ZenonT(60) DEF InFire
  <1> HIDE DEF n
  <1>8. Once(b)'
    <2>1. CASE b = c
      <3>1. ~InFire(b) /\ (\A i \in Nat : ~InReady(b, i)) /\ (\A i \in Ring : ~InRing(b, i))
        BY <1>b, <2>1 DEF Once
      <3> QED BY <1>4, <1>5, <1>6, <1>7, <2>1, <3>1 DEF Once
    <2>2. CASE b # c
      BY <1>4, <1>5, <1>6, <1>7, <1>b, <2>2 DEF Once
    <2> QED BY <2>1, <2>2
  <1>9. Somewhere(b)' <=> Somewhere(b)
    BY <1>4, <1>5, <1>6, <1>7, <1>b, <1>n DEF Somewhere
  <1>10. (Seeded(b)' <=> Seeded(b)) /\ (Unseeded(b)' <=> Unseeded(b))
    BY <1>1, ZenonT(60) DEF Seeded, Unseeded
  <1> QED BY <1>8, <1>9, <1>10, <1>t DEF Buffered

\* Seeding brings the next new buffer to the firer.
LEMMA SeedMoves ==
  ASSUME IInv, NEW t \in Targets, seedDraw(t)
  PROVE  Buffered'
  <1>t. Types /\ FirersSound /\ Buffered
    BY DEF IInv
  <1>1. /\ fire[t].pc = "seed" /\ fire'[t].pc = "seedput"
        /\ fire[t].n + 1 \in 1 .. Slack /\ fire'[t].n = fire[t].n + 1
        /\ fire'[t].buf = <<t, fire[t].n + 1>>
        /\ \A u \in Targets : u # t => fire'[u] = fire[u]
        /\ UNCHANGED <<slots, ready, prod>>
    BY <1>t, SeedEffect
  <1> DEFINE c == <<t, fire[t].n + 1>>
  <1>2. c \in Buffers /\ c[1] = t /\ c[2] = fire[t].n + 1 /\ fire'[t].buf = c
    BY <1>1, BufferFacts
  <1>3. fire[t].buf = NoBuf /\ fire[t].n \in Nat
    <2>1. fire[t] \in FirerStates
      BY <1>t DEF Types
    <2>2. fire[t].n \in Nat
      BY <2>1, ConstantsAssumption DEF FirerStates
    <2>3. fire[t].buf = NoBuf
      BY <1>t, <1>1 DEF FirersSound
    <2> QED BY <2>2, <2>3
  <1> HIDE DEF c
  <1>4. ~Somewhere(c)
    <2>1. Unseeded(c)
      BY <1>1, <1>2, <1>3 DEF Unseeded
    <2> QED BY <1>t, <1>2, <2>1 DEF Buffered
  <1> SUFFICES ASSUME NEW b \in Buffers
               PROVE  Once(b)' /\ (Seeded(b)' => Somewhere(b)') /\ (Unseeded(b)' => ~Somewhere(b)')
    BY DEF Buffered
  <1>b. /\ b[1] \in Targets /\ b[2] \in 1 .. Slack /\ b = <<b[1], b[2]>> /\ b # NoBuf
        /\ Once(b) /\ (Seeded(b) => Somewhere(b)) /\ (Unseeded(b) => ~Somewhere(b))
    BY <1>t, BufferFacts DEF Buffered
  <1>5. /\ \A i \in Ring : InRing(b, i)' <=> InRing(b, i)
        /\ \A i \in Nat : InReady(b, i)' <=> InReady(b, i)
        /\ \A q \in Producers : InHand(b, q)' <=> InHand(b, q)
    BY <1>1 DEF InRing, InReady, InHand
  <1>6. InFire(b)' <=> InFire(b) \/ b = c
    BY <1>1, <1>2, <1>3, <1>b DEF InFire
  <1>7. Once(b)'
    BY <1>4, <1>5, <1>6, <1>b, ZenonT(60) DEF Once, Somewhere
  <1>8. Somewhere(b)' <=> Somewhere(b) \/ b = c
    BY <1>5, <1>6, ZenonT(60) DEF Somewhere
  <1>9. CASE b[1] # t
    <2>1. b # c /\ (Seeded(b)' <=> Seeded(b)) /\ (Unseeded(b)' <=> Unseeded(b))
      BY <1>1, <1>2, <1>9, <1>b DEF Seeded, Unseeded
    <2> QED BY <1>7, <1>8, <1>b, <2>1
  <1>10. CASE b[1] = t
    <2>1. Seeded(b)' => Seeded(b) \/ b = c
      <3>1. Seeded(b)' => b[2] <= fire[t].n + 1
        BY <1>1, <1>10 DEF Seeded
      <3>2. b[2] <= fire[t].n => Seeded(b)
        BY <1>1, <1>10 DEF Seeded
      <3>3. b[2] = fire[t].n + 1 => b = c
        BY <1>10, <1>b DEF c
      <3> QED BY <1>3, <1>b, <3>1, <3>2, <3>3
    <2>2. Unseeded(b)' => Unseeded(b) /\ b # c
      <3>1. Unseeded(b)' => b[2] > fire[t].n + 1
        BY <1>1, <1>10 DEF Unseeded
      <3>2. b[2] > fire[t].n => Unseeded(b)
        BY <1>1, <1>10 DEF Unseeded
      <3> QED BY <1>2, <1>3, <1>b, <3>1, <3>2
    <2> QED BY <1>7, <1>8, <1>b, <2>1, <2>2
  <1> QED BY <1>9, <1>10

\* Seeding and freeing move a buffer from the firer to the ring.
LEMMA PutMoves ==
  ASSUME IInv, NEW t \in Targets, seedPut(t) \/ freeBuffer(t)
  PROVE  Buffered'
  <1>t. Types /\ FirersSound /\ Buffered
    BY SMTT(30) DEF IInv
  <1>1. PICK e \in Ring :
          /\ ~Odd(slots[t][e].marker) /\ Odd(slots'[t][e].marker)
          /\ slots'[t][e].buf = fire[t].buf /\ fire[t].buf \in Buffers /\ fire[t].buf[1] = t
          /\ \A u \in Targets, i \in Ring : <<u, i>> # <<t, e>> => slots'[u][i] = slots[u][i]
          /\ \A u \in Targets : u # t => fire'[u] = fire[u]
          /\ fire'[t].buf = NoBuf /\ fire'[t].n = fire[t].n
          /\ \/ fire[t].pc = "free" /\ fire'[t].pc = "loop"
             \/ fire[t].pc = "seedput" /\ fire[t].n = Slack /\ fire'[t].pc = "loop"
             \/ fire[t].pc = "seedput" /\ fire[t].n # Slack /\ fire'[t].pc = "seed"
          /\ UNCHANGED <<ready, prod>>
    BY <1>t, PutEffect
  <1> DEFINE c == fire[t].buf
  <1>2. c \in Buffers /\ c[1] = t /\ slots'[t][e].buf = c /\ InFire(c)
    BY <1>1, ZenonT(60) DEF InFire
  <1> SUFFICES ASSUME NEW b \in Buffers
               PROVE  Once(b)' /\ (Seeded(b)' => Somewhere(b)') /\ (Unseeded(b)' => ~Somewhere(b)')
    BY DEF Buffered
  <1>b. /\ b[1] \in Targets /\ b[2] \in 1 .. Slack /\ b # NoBuf /\ Once(b) /\ Once(c)
        /\ (Seeded(b) => Somewhere(b)) /\ (Unseeded(b) => ~Somewhere(b))
    BY <1>t, <1>2, BufferFacts, SMTT(30) DEF Buffered
  <1>3. InFire(b)' <=> InFire(b) /\ b # c
    BY <1>1, <1>b DEF InFire
  <1> HIDE DEF c
  <1>4. \A i \in Ring : InRing(b, i)' <=> InRing(b, i) \/ (b = c /\ i = e)
    <2> SUFFICES ASSUME NEW i \in Ring PROVE InRing(b, i)' <=> InRing(b, i) \/ (b = c /\ i = e)
      OBVIOUS
    <2>1. CASE <<b[1], i>> = <<t, e>>
      BY <1>1, <1>2, <2>1 DEF InRing
    <2>2. CASE <<b[1], i>> # <<t, e>>
      <3>1. InRing(b, i)' <=> InRing(b, i)
        BY <1>1, <1>b, <2>2, ZenonT(60) DEF InRing
      <3>2. ~(b = c /\ i = e)
        BY <1>2, <2>2
      <3> QED BY <3>1, <3>2
    <2> QED BY <2>1, <2>2
  <1>5. /\ \A i \in Nat : InReady(b, i)' <=> InReady(b, i)
        /\ \A q \in Producers : InHand(b, q)' <=> InHand(b, q)
    BY <1>1 DEF InReady, InHand
  <1>6. Once(b)'
    <2>1. CASE b = c
      BY <1>2, <1>3, <1>4, <1>5, <1>b, <2>1, ZenonT(60) DEF Once
    <2>2. CASE b # c
      BY <1>3, <1>4, <1>5, <1>b, <2>2, ZenonT(60) DEF Once
    <2> QED BY <2>1, <2>2
  <1>7. Somewhere(b)' <=> Somewhere(b)
    BY <1>2, <1>3, <1>4, <1>5, ZenonT(60) DEF Somewhere
  <1>8. (Seeded(b)' => Seeded(b)) /\ (Unseeded(b)' => Unseeded(b))
    <2>1. CASE b[1] # t
      BY <1>1, <1>b, <2>1, ZenonT(60) DEF Seeded, Unseeded
    <2>2. CASE b[1] = t
      <3>1. fire[t].n = Slack => b[2] <= fire[t].n
        BY <1>b, ConstantsAssumption
      <3> QED BY <1>1, <2>2, <3>1 DEF Seeded, Unseeded
    <2> QED BY <2>1, <2>2
  <1> QED BY <1>6, <1>7, <1>8, <1>b

\* get_ready moves a buffer from the ready queue to the firer.
LEMMA GetMoves ==
  ASSUME IInv, NEW t \in Targets, get_ready(t), ready[t].queue # <<>>
  PROVE  Buffered'
  <1>t. Types /\ FirersSound /\ PoolsSound /\ Buffered
    BY DEF IInv
  <1>1. /\ fire[t].pc = "loop" /\ fire'[t].pc = "consume"
        /\ fire'[t].buf = Head(ready[t].queue)
        /\ ready'[t].queue = Tail(ready[t].queue)
        /\ \A u \in Targets : u # t => fire'[u] = fire[u] /\ ready'[u] = ready[u]
        /\ UNCHANGED <<slots, prod>>
    BY <1>t, GetEffect, ZenonT(60)
  <1> DEFINE r == ready[t].queue  n == Len(r)  c == Head(r)
  <1>2. /\ n \in Nat /\ 1 \in 1 .. n /\ c = r[1] /\ c \in Buffers
        /\ Len(Tail(r)) = n - 1 /\ \A i \in 1 .. n - 1 : Tail(r)[i] = r[i + 1]
    <2>1. r \in Seq(Buffers)
      BY <1>t DEF Types
    <2> QED BY <2>1, QueueFacts
  <1>3. c[1] = t /\ InReady(c, 1)
    <2>1. c[1] = t
      BY <1>t, <1>2 DEF PoolsSound
    <2> QED BY <1>2, <2>1, ZenonT(60) DEF InReady
  <1>4. fire[t].buf = NoBuf
    BY <1>t, <1>1 DEF FirersSound
  <1>5. fire'[t].buf = c /\ ready'[t].queue = Tail(r)
    BY <1>1
  <1> SUFFICES ASSUME NEW b \in Buffers
               PROVE  Once(b)' /\ (Seeded(b)' => Somewhere(b)') /\ (Unseeded(b)' => ~Somewhere(b)')
    BY DEF Buffered
  <1>b. /\ b[1] \in Targets /\ b # NoBuf /\ Once(b) /\ Once(c)
        /\ (Seeded(b) => Somewhere(b)) /\ (Unseeded(b) => ~Somewhere(b))
    BY <1>t, <1>2, BufferFacts DEF Buffered
  <1>6. b[1] = t => \A i \in Nat : /\ (InReady(b, i) <=> i \in 1 .. n /\ r[i] = b)
                                   /\ (InReady(b, i)' <=> i \in 1 .. n - 1 /\ r[i + 1] = b)
    <2> SUFFICES ASSUME b[1] = t, NEW i \in Nat
                 PROVE  /\ InReady(b, i) <=> i \in 1 .. n /\ r[i] = b
                        /\ InReady(b, i)' <=> i \in 1 .. n - 1 /\ r[i + 1] = b
      OBVIOUS
    <2>1. InReady(b, i) <=> i \in 1 .. n /\ r[i] = b
      BY DEF InReady
    <2>2. InReady(b, i)' <=> i \in 1 .. Len(Tail(r)) /\ Tail(r)[i] = b
      BY <1>5 DEF InReady
    <2> HIDE DEF r, n
    <2> QED BY <1>2, <2>1, <2>2
  <1> HIDE DEF r, n, c
  <1>7. b[1] # t => b # c /\ \A i \in Nat : InReady(b, i)' <=> InReady(b, i)
    BY <1>1, <1>3, <1>b, SMTT(30) DEF InReady
  <1>8. /\ \A i \in Ring : InRing(b, i)' <=> InRing(b, i)
        /\ \A q \in Producers : InHand(b, q)' <=> InHand(b, q)
    BY <1>1 DEF InRing, InHand
  <1>9. InFire(b)' <=> InFire(b) \/ b = c
    BY <1>1, <1>3, <1>4, <1>5, <1>b DEF InFire
  <1>10. ASSUME b[1] = t, NEW i \in Nat, InReady(b, i)' PROVE i + 1 \in Nat /\ i + 1 # 1 /\ InReady(b, i + 1)
    <2>1. i \in 1 .. n - 1 /\ r[i + 1] = b
      BY <1>6, <1>10, ZenonT(60)
    <2>2. i + 1 \in Nat /\ i + 1 # 1 /\ i + 1 \in 1 .. n
      BY <1>2, <2>1
    <2>3. InReady(b, i + 1) <=> i + 1 \in 1 .. n /\ r[i + 1] = b
      BY <1>6, <1>10, <2>2, ZenonT(60)
    <2> QED BY <2>1, <2>2, <2>3
  <1>11. (\E i \in Nat : InReady(b, i)') <=> (\E i \in Nat : InReady(b, i)) /\ b # c
    <2>1. CASE b[1] # t
      BY <1>7, <2>1
    <2>2. CASE b[1] = t /\ b = c
      <3>1. ASSUME NEW i \in Nat, InReady(b, i)' PROVE FALSE
        <4>1. i + 1 \in Nat /\ InReady(b, i + 1) /\ i + 1 # 1
          BY <1>10, <2>2, <3>1
        <4>2. 1 \in Nat /\ InReady(b, 1)
          BY <1>3, <2>2
        <4> QED BY <1>b, <4>1, <4>2, ZenonT(60) DEF Once
      <3> QED BY <2>2, <3>1
    <2>3. CASE b[1] = t /\ b # c
      <3>1. ASSUME NEW i \in Nat, InReady(b, i) PROVE i - 1 \in Nat /\ InReady(b, i - 1)'
        <4>0. i \in 1 .. n /\ r[i] = b
          BY <1>6, <2>3, <3>1, ZenonT(60)
        <4>1. i \in 1 .. n /\ r[i] = b /\ i # 1
          BY <1>2, <2>3, <4>0
        <4>2. i - 1 \in 1 .. n - 1 /\ (i - 1) + 1 = i /\ i - 1 \in Nat
          BY <1>2, <4>1
        <4>3. r[(i - 1) + 1] = b
          BY <4>1, <4>2
        <4> QED BY <1>6, <2>3, <4>2, <4>3
      <3>2. ASSUME NEW i \in Nat, InReady(b, i)' PROVE i + 1 \in Nat /\ InReady(b, i + 1)
        BY <1>10, <2>3, <3>2
      <3> QED BY <2>3, <3>1, <3>2
    <2> QED BY <2>1, <2>2, <2>3
  <1>12. \A i, j \in Nat : InReady(b, i)' /\ InReady(b, j)' => i = j
    <2> SUFFICES ASSUME NEW i \in Nat, NEW j \in Nat, InReady(b, i)', InReady(b, j)' PROVE i = j
      OBVIOUS
    <2>1. CASE b[1] # t
      BY <1>7, <1>b, <2>1, ZenonT(60) DEF Once
    <2>2. CASE b[1] = t
      <3>1. i + 1 \in Nat /\ j + 1 \in Nat /\ InReady(b, i + 1) /\ InReady(b, j + 1)
        BY <1>10, <2>2
      <3>2. i + 1 = j + 1
        BY <1>b, <3>1, ZenonT(60) DEF Once
      <3> QED BY <3>2
    <2> QED BY <2>1, <2>2
  <1>13. Once(b)'
    <2>1. CASE b = c
      <3>1. ~InFire(b) /\ (\A i \in Ring : ~InRing(b, i)) /\ (\A q \in Producers : ~InHand(b, q))
        <4>1. 1 \in Nat /\ InReady(b, 1)
          BY <1>3, <2>1
        <4> QED BY <1>b, <4>1, ZenonT(60) DEF Once
      <3> QED BY <1>8, <1>11, <1>12, <2>1, <3>1, ZenonT(60) DEF Once
    <2>2. CASE b # c
      BY <1>8, <1>9, <1>11, <1>12, <1>b, <2>2, ZenonT(60) DEF Once
    <2> QED BY <2>1, <2>2
  <1>14. Somewhere(b)' <=> Somewhere(b)
    <2>1. b = c => Somewhere(b)
      BY <1>3 DEF Somewhere
    <2> QED BY <1>8, <1>9, <1>11, <2>1, ZenonT(60) DEF Somewhere
  <1>15. (Seeded(b)' => Seeded(b)) /\ ~(Unseeded(b)' /\ ~Unseeded(b))
    BY <1>1, <1>b DEF Seeded, Unseeded
  <1> QED BY <1>13, <1>14, <1>15, <1>b, ZenonT(60)

\* The final drain takes a buffer out of the ring for good.
LEMMA DrainMoves ==
  ASSUME IInv, NEW t \in Targets, drainTake(t)
  PROVE  Buffered'
  <1>t. Types /\ FirersSound /\ Buffered
    BY DEF IInv
  <1>1. PICK e \in Ring :
          /\ ~Odd(slots'[t][e].marker)
          /\ \A u \in Targets, i \in Ring : <<u, i>> # <<t, e>> => slots'[u][i] = slots[u][i]
          /\ \A u \in Targets : u # t => fire'[u] = fire[u]
          /\ fire'[t].buf = fire[t].buf /\ fire'[t].pc \in {"done", "drain"}
          /\ UNCHANGED <<ready, prod>>
    BY <1>t, DrainEffect
  <1> SUFFICES ASSUME NEW b \in Buffers
               PROVE  Once(b)' /\ (Seeded(b)' => Somewhere(b)') /\ (Unseeded(b)' => ~Somewhere(b)')
    BY DEF Buffered
  <1>b. /\ b[1] \in Targets /\ Once(b)
        /\ (Seeded(b) => Somewhere(b)) /\ (Unseeded(b) => ~Somewhere(b))
    BY <1>t, BufferFacts DEF Buffered
  <1>2. /\ \A i \in Nat : InReady(b, i)' <=> InReady(b, i)
        /\ \A q \in Producers : InHand(b, q)' <=> InHand(b, q)
        /\ InFire(b)' <=> InFire(b)
    BY <1>1, <1>b DEF InReady, InHand, InFire
  <1>3. \A i \in Ring : InRing(b, i)' => InRing(b, i)
    <2> SUFFICES ASSUME NEW i \in Ring, InRing(b, i)' PROVE InRing(b, i)
      OBVIOUS
    <2>1. <<b[1], i>> # <<t, e>>
      BY <1>1 DEF InRing
    <2> QED BY <1>1, <1>b, <2>1 DEF InRing
  <1>4. Once(b)'
    BY <1>2, <1>3, <1>b, ZenonT(60) DEF Once
  <1>5. CASE b[1] = t
    <2>1. ~Seeded(b)' /\ ~Unseeded(b)'
      BY <1>1, <1>5 DEF Seeded, Unseeded
    <2> QED BY <1>4, <2>1
  <1>6. CASE b[1] # t
    <2>1. \A i \in Ring : InRing(b, i)' <=> InRing(b, i)
      BY <1>1, <1>6, <1>b DEF InRing
    <2>2. Somewhere(b)' <=> Somewhere(b)
      BY <1>2, <2>1, ZenonT(60) DEF Somewhere
    <2>3. (Seeded(b)' <=> Seeded(b)) /\ (Unseeded(b)' <=> Unseeded(b))
      BY <1>1, <1>6, <1>b DEF Seeded, Unseeded
    <2> QED BY <1>4, <1>b, <2>2, <2>3
  <1> QED BY <1>5, <1>6, SMTT(30)

\* No step copies a buffer, and none loses one that is in use.
LEMMA BufferedStep ==
  ASSUME IInv, Next
  PROVE  Buffered'
  <1>t. Types /\ ProducersSound /\ FirersSound /\ PoolsSound /\ Buffered
    BY DEF IInv
  <1>0. ASSUME slots' = slots,
               \A t \in Targets : ready'[t].queue = ready[t].queue /\ fire'[t].buf = fire[t].buf,
               \A p \in Producers : prod'[p].buf = prod[p].buf,
               \A b \in Buffers : (Seeded(b)' => Seeded(b)) /\ (Unseeded(b)' => Unseeded(b))
        PROVE  Buffered'
    <2>1. \A b \in Buffers : Once(b)' <=> Once(b)
      BY <1>0, SamePlaces, ZenonT(60)
    <2>2. \A b \in Buffers : Somewhere(b)' <=> Somewhere(b)
      BY <1>0, SamePlaces
    <2> QED BY <1>t, <1>0, <2>1, <2>2, ZenonT(60) DEF Buffered
  <1>1. ASSUME NEW p \in Producers,
               \/ open(p) \/ acquireDraw(p) \/ close(p) \/ closeFifo(p) \/ fifoDrained(p) \/ join(p)
               \/ \E t \in Targets : consume(p, t)
        PROVE  Buffered'
    <2>1. /\ slots' = slots
          /\ \A t \in Targets : ready'[t].queue = ready[t].queue /\ fire'[t].buf = fire[t].buf
                               /\ fire'[t].n = fire[t].n
          /\ \A q \in Producers : prod'[q].buf = prod[q].buf
      BY <1>1, <1>t, ControlEffect
    <2>2. \A t \in Targets :
            fire'[t].pc = fire[t].pc \/ (fire[t].pc = "none" /\ fire'[t].pc = "seed" /\ fire[t].n = 0)
      <3>1. CASE open(p) /\ ~opened
        <4>1. Fresh
          BY <3>1 DEF open, IInv, Closing, Fresh, Active
        <4>2. \A t \in Targets : fire[t].pc = "none" /\ fire[t].n = 0
          BY <1>t, <4>1 DEF IInv, Closing, FirersSound
        <4>3. \A t \in Targets : fire'[t].pc = "seed"
          <5>1. fire \in [Targets -> FirerStates]
            BY <1>t DEF Types
          <5> QED BY <3>1, <5>1 DEF open, FirerStates
        <4> QED BY <4>2, <4>3
      <3>2. CASE ~(open(p) /\ ~opened)
        <4>1. fire' = fire
          BY <1>1, <3>2 DEF open, acquireDraw, close, closeFifo, fifoDrained, join, consume
        <4> QED BY <4>1
      <3> QED BY <3>1, <3>2
    <2>3. ASSUME NEW b \in Buffers PROVE (Seeded(b)' => Seeded(b)) /\ (Unseeded(b)' => Unseeded(b))
      <3>1. b[1] \in Targets /\ ~(b[2] <= 0)
        BY BufferFacts, ConstantsAssumption
      <3> QED BY <2>1, <2>2, <3>1 DEF Seeded, Unseeded
    <2> QED BY <1>0, <2>1, <2>3
  <1>2. ASSUME NEW t \in Targets, catch(t) \/ drainDraw(t) \/ (get_ready(t) /\ ready[t].queue = <<>>)
        PROVE  Buffered'
    <2>1. /\ \/ fire[t].pc = "consume" /\ fire'[t].pc = "free"
             \/ fire[t].pc = "drain" /\ fire'[t].pc = "draintake"
             \/ fire[t].pc = "loop" /\ fire'[t].pc = "drain"
          /\ fire'[t].buf = fire[t].buf /\ fire'[t].n = fire[t].n
          /\ \A u \in Targets : u # t => fire'[u] = fire[u]
          /\ UNCHANGED <<slots, ready, prod>>
      BY <1>2, <1>t, FireControlEffect
    <2>2. ASSUME NEW b \in Buffers PROVE (Seeded(b)' => Seeded(b)) /\ (Unseeded(b)' => Unseeded(b))
      <3>1. b[1] \in Targets
        BY BufferFacts
      <3> QED BY <2>1, <3>1 DEF Seeded, Unseeded
    <2>3. \A u \in Targets : ready'[u].queue = ready[u].queue /\ fire'[u].buf = fire[u].buf
      BY <2>1
    <2> QED BY <1>0, <2>1, <2>2, <2>3
  <1> QED BY <1>1, <1>2, Steps, TakeMoves, ReleaseMoves, SeedMoves, PutMoves, GetMoves, DrainMoves, ZenonT(60)
=============================================================================
