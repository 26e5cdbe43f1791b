------------------------ MODULE RouterScaleOutProofs ------------------------
(***************************************************************************)
(* The scale-out router for any number of buffers, tuples and queries: the *)
(* control messages of the closing handshake arrive when they are          *)
(* expected, a query leaves nothing behind for the next one, and both      *)
(* servers together implement an exchange.                                 *)
(***************************************************************************)
EXTENDS RouterScaleOut, TLAPS

\* Most leaves are first-order; those about numbers or sequences name SMT.
USE ZenonT(60)

ConstantsOK == Slack \in Nat /\ PerRound \in Nat /\ Rounds \in Nat \ {0}

-----------------------------------------------------------------------------
(* Sequences whose elements are ordered *)

Elems(q) == {q[i] : i \in 1 .. Len(q)}
Sorted(q, R) == \A i, j \in 1 .. Len(q) : i < j => <<q[i], q[j]>> \in R

LEMMA Appended ==
  ASSUME NEW S, NEW q \in Seq(S), NEW e \in S
  PROVE  /\ Append(q, e) \in Seq(S) /\ Append(q, e) # <<>> /\ Len(Append(q, e)) = Len(q) + 1
         /\ Elems(Append(q, e)) = Elems(q) \cup {e}
         /\ \A R : Sorted(q, R) /\ (\A d \in Elems(q) : <<d, e>> \in R) => Sorted(Append(q, e), R)
  <1> DEFINE a == Append(q, e)
  <1>1. a \in Seq(S) /\ Len(a) = Len(q) + 1 /\ Len(q) \in Nat /\ a # <<>>
    BY SMTT(30)
  <1>2. a[Len(q) + 1] = e /\ \A i \in 1 .. Len(q) : a[i] = q[i]
    BY SMTT(30)
  <1> HIDE DEF a
  <1>3. \A i \in 1 .. Len(a) : i = Len(q) + 1 \/ i \in 1 .. Len(q)
    BY <1>1, SMTT(30)
  <1>4. 1 .. Len(q) \subseteq 1 .. Len(a) /\ Len(q) + 1 \in 1 .. Len(a)
    BY <1>1, SMTT(30)
  <1>5. Elems(a) = Elems(q) \cup {e}
    BY <1>2, <1>3, <1>4 DEF Elems
  <1>6. ASSUME NEW R, Sorted(q, R), \A d \in Elems(q) : <<d, e>> \in R
        PROVE  Sorted(a, R)
    <2> SUFFICES ASSUME NEW i \in 1 .. Len(a), NEW j \in 1 .. Len(a), i < j
                 PROVE  <<a[i], a[j]>> \in R
      BY DEF Sorted
    <2>1. i \in 1 .. Len(q)
      BY <1>1, SMTT(30)
    <2>2. a[i] = q[i] /\ q[i] \in Elems(q)
      BY <1>2, <2>1 DEF Elems
    <2>3. CASE j = Len(q) + 1
      BY <1>2, <1>6, <2>2, <2>3
    <2>4. CASE j \in 1 .. Len(q)
      BY <1>2, <1>6, <2>1, <2>4 DEF Sorted
    <2> QED BY <1>3, <2>3, <2>4
  <1> QED BY <1>1, <1>5, <1>6 DEF a

LEMMA Popped ==
  ASSUME NEW S, NEW q \in Seq(S), q # <<>>
  PROVE  /\ Tail(q) \in Seq(S) /\ Len(Tail(q)) = Len(q) - 1 /\ Head(q) \in S
         /\ Elems(q) = {Head(q)} \cup Elems(Tail(q))
         /\ \A R : Sorted(q, R) => /\ Sorted(Tail(q), R)
                                  /\ \A d \in Elems(Tail(q)) : <<Head(q), d>> \in R
  <1> DEFINE t == Tail(q)
  <1>1. t \in Seq(S) /\ Len(t) = Len(q) - 1 /\ Len(q) \in Nat \ {0} /\ Head(q) = q[1] /\ q[1] \in S
    BY SMTT(30)
  <1>2. \A i \in 1 .. Len(t) : t[i] = q[i + 1]
    BY SMTT(30)
  <1> HIDE DEF t
  <1>3. \A i \in 1 .. Len(t) : i + 1 \in 1 .. Len(q) /\ 1 < i + 1
    BY <1>1, SMTT(30)
  <1>4. \A i \in 1 .. Len(q) : i = 1 \/ (i - 1 \in 1 .. Len(t) /\ t[i - 1] = q[i])
    BY <1>1, <1>2, SMTT(30)
  <1>5. Elems(q) = {q[1]} \cup Elems(t)
    <2>1. 1 \in 1 .. Len(q)
      BY <1>1, SMTT(30)
    <2>2. ASSUME NEW i \in 1 .. Len(t) PROVE t[i] \in Elems(q)
      BY <1>2, <1>3 DEF Elems
    <2>3. ASSUME NEW i \in 1 .. Len(q) PROVE q[i] = q[1] \/ q[i] \in Elems(t)
      BY <1>4 DEF Elems
    <2>4. q[1] \in Elems(q)
      BY <2>1 DEF Elems
    <2>5. Elems(q) \subseteq {q[1]} \cup Elems(t)
      BY <2>3 DEF Elems
    <2>6. Elems(t) \subseteq Elems(q)
      BY <2>2 DEF Elems
    <2> QED BY <2>4, <2>5, <2>6
  <1>6. ASSUME NEW R, Sorted(q, R)
        PROVE  Sorted(t, R) /\ \A d \in Elems(t) : <<q[1], d>> \in R
    <2>1. ASSUME NEW i \in 1 .. Len(t), NEW j \in 1 .. Len(t), i < j PROVE <<t[i], t[j]>> \in R
      BY <1>1, <1>2, <1>3, <1>6, <2>1, SMTT(30) DEF Sorted
    <2>2. ASSUME NEW i \in 1 .. Len(t) PROVE <<q[1], t[i]>> \in R
      BY <1>1, <1>2, <1>3, <1>6, SMTT(30) DEF Sorted
    <2> QED BY <2>1, <2>2 DEF Sorted, Elems
  <1> QED BY <1>1, <1>5, <1>6 DEF t

-----------------------------------------------------------------------------
(* The inductive invariant *)

MainPcs == {"open", "route", "drain", "tell", "join", "await"}
Messages == [round : 1 .. Rounds, size : {BufSize, 3, 2}, x : Tuples \cup {<<>>}]
Items == [x : Tuples, remote : BOOLEAN]

Types ==
  /\ main \in [Servers -> [pc : MainPcs, round : 0 .. Rounds, sent : 0 .. PerRound]]
  /\ firer \in [Servers -> [pc : {"none", "loop", "consume", "drain", "done"},
                            item : Items \cup {NoItem}]]
  /\ receiver \in [Servers -> {"none", "wait", "drain", "done"}]
  /\ free \in [Servers -> Int] /\ closed \in [Servers -> Nat] /\ blocks \in [Servers -> Int]
  /\ fifo \in [Servers -> [queue : Seq(Items), closing : BOOLEAN]]
  /\ sub \in [Servers -> [1 .. Rounds -> Seq(Messages)]]
  /\ wire \in [Servers -> Seq(Messages)]
  /\ consumed \in SUBSET Tuples

\* The messages of a round are written in the order of their ranks: its tuples,
\* "proceed", "done".
Rank(m) == IF m.size = 2 THEN PerRound + 2 ELSE IF m.size = 3 THEN PerRound + 1 ELSE m.x[3]
Progress(s) ==
  CASE main[s].pc \in {"route", "drain", "tell"} -> main[s].sent
    [] main[s].pc = "join" -> PerRound + 1
    [] OTHER -> PerRound + 2
MessageOrder == {p \in Messages \X Messages : p[1].round = p[2].round => Rank(p[1]) < Rank(p[2])}

\* What was written to a server and not taken from its subscriptions.
Transit(s) == Elems(wire[s]) \cup UNION {Elems(sub[s][r]) : r \in 1 .. Rounds}

\* A message is what the peer wrote, and it has written nothing beyond its progress.
Written(s, m) ==
  /\ IF m.size = BufSize THEN m.x \in Tuples /\ m.x[1] = Peer(s) /\ m.x[2] = m.round
                         ELSE m.x = <<>>
  /\ m.round <= main[Peer(s)].round
  /\ m.round = main[Peer(s)].round => Rank(m) <= Progress(Peer(s))

AllWritten(s) == \A m \in Transit(s) : Written(s, m)

\* Wire and subscriptions keep the messages in the order they were written.
Ordered(s) ==
  /\ \A r \in 1 .. Rounds : \A m \in Elems(sub[s][r]) : m.round = r
  /\ Sorted(wire[s], MessageOrder)
  /\ \A r \in 1 .. Rounds : Sorted(sub[s][r], MessageOrder)
  /\ \A r \in 1 .. Rounds : \A m \in Elems(sub[s][r]), n \in Elems(wire[s]) : <<m, n>> \in MessageOrder

\* Of the past rounds nothing is under way, and after "proceed" only "done" is.
Received(s) ==
  \A m \in Transit(s) :
    /\ main[s].round <= m.round
    /\ main[s].round = m.round => main[s].pc # "open"
    /\ main[s].round = m.round /\ receiver[s] \in {"drain", "done"} => m.size = 2

\* A "proceed" that was written and not received is under way.
Expected(s, r) == main[s].round < r \/ (main[s].round = r /\ receiver[s] = "wait")
Proceeded(s, r) ==
  r < main[s].round \/ (main[s].round = r /\ main[s].pc \in {"join", "await", "open"})
Proceeds(s) ==
  \A r \in 1 .. Rounds : Expected(s, r) /\ Proceeded(Peer(s), r) =>
    \E m \in Transit(s) : m.round = r /\ m.size = 3

\* How the threads of a server and the counter of ended inputs go together.
Phases(s) ==
  /\ main[s].round = 0 => main[s].pc = "open" /\ receiver[s] = "none"
  /\ 0 < main[s].round => receiver[s] # "none" /\ firer[s].pc # "none"
  /\ main[s].pc \in {"open", "await"} => receiver[s] \in {"none", "done"} /\ firer[s].pc \in {"none", "done"}
  /\ main[s].pc = "open" => closed[s] = 0 /\ fifo[s].queue = <<>>
  /\ main[s].pc # "open" =>
       /\ closed[s] = (IF main[s].pc = "route" THEN 0 ELSE 1) + (IF receiver[s] = "wait" THEN 0 ELSE 1)
       /\ fifo[s].closing <=> closed[s] = 2
       /\ firer[s].pc \in {"drain", "done"} => closed[s] = 2 /\ fifo[s].queue = <<>>
  /\ firer[s].pc \in {"none", "done"} => free[s] = 0
  /\ firer[s].pc = "consume" <=> firer[s].item # NoItem

\* A server goes on to the next round when the peer is done with this one, and its
\* receiver ends when the peer has sent all of it.
Passed(s, r) ==
  r < main[s].round \/ (main[s].round = r /\ main[s].pc \in {"await", "open"})
InStep(s) ==
  /\ IF main[s].pc = "open" THEN Passed(Peer(s), main[s].round) ELSE Passed(Peer(s), main[s].round - 1)
  /\ receiver[s] \in {"drain", "done"} => Proceeded(Peer(s), main[s].round)

IInv ==
  /\ Types
  /\ \A s \in Servers : Ordered(s) /\ AllWritten(s) /\ Received(s) /\ Proceeds(s) /\ Phases(s) /\ InStep(s)

-----------------------------------------------------------------------------
(* The network *)

LEMMA Peers ==
  ASSUME NEW s \in Servers
  PROVE  /\ Peer(s) \in Servers /\ Peer(s) # s /\ Peer(Peer(s)) = s
         /\ \A t \in Servers : t = s \/ t = Peer(s)
  BY SMTT(30) DEF Servers, Peer

LEMMA Queues ==
  ASSUME Types, NEW s \in Servers
  PROVE  /\ wire[s] \in Seq(Messages)
         /\ \A r \in 1 .. Rounds : sub[s][r] \in Seq(Messages)
  <1>1. wire \in [Servers -> Seq(Messages)] /\ sub \in [Servers -> [1 .. Rounds -> Seq(Messages)]]
    BY DEF Types
  <1> QED BY <1>1

\* Messages under way, one by one.
LEMMA Transits ==
  ASSUME Types, NEW s \in Servers
  PROVE  /\ Transit(s) \subseteq Messages /\ Elems(wire[s]) \subseteq Messages
         /\ \A r \in 1 .. Rounds : Elems(sub[s][r]) \subseteq Messages
         /\ \A m : m \in Transit(s) <=>
              m \in Elems(wire[s]) \/ \E r \in 1 .. Rounds : m \in Elems(sub[s][r])
  <1>1. wire[s] \in Seq(Messages) /\ \A r \in 1 .. Rounds : sub[s][r] \in Seq(Messages)
    BY Queues
  <1>2. \A q \in Seq(Messages) : Elems(q) \subseteq Messages
    BY SMTT(30) DEF Elems
  <1> QED BY <1>1, <1>2 DEF Transit

\* Messages of different rounds are in any order.
LEMMA Rounded ==
  ASSUME NEW m \in Messages, NEW n \in Messages
  PROVE  /\ <<m, n>> \in MessageOrder <=> (m.round = n.round => Rank(m) < Rank(n))
         /\ m.round \in 1 .. Rounds
  BY DEF MessageOrder, Messages

Sent(s, m) == wire' = [wire EXCEPT ![Peer(s)] = Append(@, m)] /\ sub' = sub

LEMMA SentInOrder ==
  ASSUME Types, NEW s \in Servers, NEW m \in Messages, Sent(s, m), Ordered(s), Ordered(Peer(s)),
         \A n \in Transit(Peer(s)) : <<n, m>> \in MessageOrder
  PROVE  /\ Transit(s)' = Transit(s) /\ Transit(Peer(s))' = Transit(Peer(s)) \cup {m}
         /\ Ordered(s)' /\ Ordered(Peer(s))'
  <1> DEFINE p == Peer(s)
  <1>0. p \in Servers /\ p # s
    BY Peers
  <1>1. wire'[s] = wire[s] /\ wire'[p] = Append(wire[p], m) /\ sub' = sub
    BY <1>0 DEF Sent, Types
  <1> HIDE DEF p
  <1>2. wire[p] \in Seq(Messages)
    BY <1>0 DEF Types
  <1>3. Elems(wire'[p]) = Elems(wire[p]) \cup {m}
    BY <1>1, <1>2, Appended, SMTT(30)
  <1>4. Transit(s)' = Transit(s) /\ Transit(p)' = Transit(p) \cup {m}
    BY <1>1, <1>3 DEF Transit
  <1>5. Ordered(s)'
    BY <1>1 DEF Ordered
  <1>6. Elems(wire[p]) \subseteq Transit(p) /\ \A r \in 1 .. Rounds : Elems(sub[p][r]) \subseteq Transit(p)
    BY DEF Transit
  <1>7. \A n \in Transit(p) : <<n, m>> \in MessageOrder
    BY DEF p
  <1>8. Sorted(wire'[p], MessageOrder)
    BY <1>1, <1>2, <1>6, <1>7, Appended DEF Ordered, p
  <1>9. Ordered(p)'
    BY <1>1, <1>3, <1>6, <1>7, <1>8 DEF Ordered, p
  <1> QED BY <1>4, <1>5, <1>9 DEF p

LEMMA PublishedInOrder ==
  ASSUME Types, NEW s \in Servers, Publish(s), Ordered(s), Ordered(Peer(s))
  PROVE  /\ Transit(s)' = Transit(s) /\ Transit(Peer(s))' = Transit(Peer(s))
         /\ Ordered(s)' /\ Ordered(Peer(s))'
  <1> DEFINE p == Peer(s)
             m == Head(wire[s])
             k == m.round
  <1>0. p \in Servers /\ p # s
    BY Peers
  <1>1. wire[s] \in Seq(Messages) /\ wire[s] # <<>>
    BY DEF Types, Publish
  <1>2. /\ Elems(wire[s]) = {m} \cup Elems(Tail(wire[s])) /\ m \in Messages
        /\ Sorted(Tail(wire[s]), MessageOrder)
        /\ \A n \in Elems(Tail(wire[s])) : <<m, n>> \in MessageOrder
    BY <1>1, Popped DEF Ordered
  <1>3. k \in 1 .. Rounds
    BY <1>2, Rounded
  <1>4. /\ wire'[s] = Tail(wire[s]) /\ wire'[p] = wire[p] /\ sub'[p] = sub[p]
        /\ sub'[s][k] = Append(sub[s][k], m)
        /\ \A r \in 1 .. Rounds : r # k => sub'[s][r] = sub[s][r]
    BY <1>0, <1>3 DEF Publish, Types
  <1> HIDE DEF p, m, k
  <1>5. /\ Elems(sub'[s][k]) = Elems(sub[s][k]) \cup {m}
        /\ Sorted(sub'[s][k], MessageOrder)
    <2>1. sub[s][k] \in Seq(Messages)
      BY <1>3, Queues
    <2>2. \A n \in Elems(sub[s][k]) : <<n, m>> \in MessageOrder
      BY <1>2, <1>3 DEF Ordered
    <2> QED BY <1>2, <1>3, <1>4, <2>1, <2>2, Appended, SMTT(30) DEF Ordered
  <1>6. Transit(s)' = Transit(s) /\ Transit(p)' = Transit(p)
    <2>1. ASSUME NEW n \in Transit(s) PROVE n \in Transit(s)'
      BY <1>2, <1>3, <1>4, <1>5 DEF Transit
    <2>2. ASSUME NEW n \in Transit(s)' PROVE n \in Transit(s)
      BY <1>2, <1>3, <1>4, <1>5 DEF Transit
    <2> QED BY <1>4, <2>1, <2>2 DEF Transit
  <1>7. Ordered(p)'
    BY <1>4 DEF Ordered, p
  <1>8. Ordered(s)'
    <2>1. \A r \in 1 .. Rounds : \A n \in Elems(sub'[s][r]) : n.round = r
      BY <1>3, <1>4, <1>5 DEF Ordered, k
    <2>2. Sorted(wire'[s], MessageOrder) /\ \A r \in 1 .. Rounds : Sorted(sub'[s][r], MessageOrder)
      BY <1>2, <1>4, <1>5 DEF Ordered
    <2>3. ASSUME NEW r \in 1 .. Rounds, NEW n \in Elems(sub'[s][r]), NEW l \in Elems(wire'[s])
          PROVE  <<n, l>> \in MessageOrder
      BY <1>2, <1>4, <1>5 DEF Ordered
    <2> QED BY <2>1, <2>2, <2>3 DEF Ordered
  <1> QED BY <1>6, <1>7, <1>8 DEF p

LEMMA TakenInOrder ==
  ASSUME Types, NEW s \in Servers, main[s].round \in 1 .. Rounds, Inbox(s) # <<>>,
         PopInbox(s), wire' = wire, Ordered(s), Ordered(Peer(s))
  PROVE  /\ Head(Inbox(s)).round = main[s].round
         /\ Transit(s) = Transit(s)' \cup {Head(Inbox(s))} /\ Transit(Peer(s))' = Transit(Peer(s))
         /\ \A m \in Transit(s)' : <<Head(Inbox(s)), m>> \in MessageOrder
         /\ Ordered(s)' /\ Ordered(Peer(s))'
  <1> DEFINE p == Peer(s)
             k == main[s].round
             h == Head(Inbox(s))
  <1>0. p \in Servers /\ p # s /\ k \in 1 .. Rounds
    BY Peers
  <1>1. sub[s][k] \in Seq(Messages) /\ sub[s][k] # <<>> /\ h = Head(sub[s][k])
    BY Queues DEF Inbox
  <1>2. /\ sub'[s][k] = Tail(sub[s][k]) /\ sub'[p] = sub[p]
        /\ \A r \in 1 .. Rounds : r # k => sub'[s][r] = sub[s][r]
    BY <1>0 DEF PopInbox, Types
  <1> HIDE DEF p, k, h
  <1>3. /\ Elems(sub[s][k]) = {h} \cup Elems(sub'[s][k]) /\ h \in Messages
        /\ Sorted(sub'[s][k], MessageOrder)
        /\ \A n \in Elems(sub'[s][k]) : <<h, n>> \in MessageOrder
    BY <1>0, <1>1, <1>2, Popped, SMTT(30) DEF Ordered
  <1>4. h.round = k
    BY <1>0, <1>3 DEF Ordered
  <1>5. Transit(s) = Transit(s)' \cup {h} /\ Transit(p)' = Transit(p)
    <2>1. ASSUME NEW n \in Transit(s), n # h PROVE n \in Transit(s)'
      BY <1>0, <1>2, <1>3, <2>1, SMTT(30) DEF Transit
    <2>2. ASSUME NEW n \in Transit(s)' PROVE n \in Transit(s)
      BY <1>0, <1>2, <1>3, SMTT(30) DEF Transit
    <2>3. h \in Transit(s)
      BY <1>0, <1>3 DEF Transit
    <2> QED BY <1>2, <2>1, <2>2, <2>3, SMTT(30) DEF Transit
  <1>6. ASSUME NEW n \in Transit(s)' PROVE <<h, n>> \in MessageOrder
    <2>1. n \in Messages
      BY <1>5, Transits
    <2>2. CASE n \in Elems(wire[s])
      BY <1>0, <1>3, <2>2 DEF Ordered
    <2>3. ASSUME NEW r \in 1 .. Rounds, n \in Elems(sub'[s][r]) PROVE <<h, n>> \in MessageOrder
      <3>1. CASE r = k
        BY <1>3, <2>3, <3>1
      <3>2. CASE r # k
        <4>1. n.round = r
          BY <1>2, <2>3, <3>2 DEF Ordered
        <4> QED BY <1>3, <1>4, <2>1, <3>2, <4>1, Rounded
      <3> QED BY <3>1, <3>2
    <2> QED BY <2>2, <2>3 DEF Transit
  <1>7. Ordered(p)'
    BY <1>2 DEF Ordered, p
  <1>8. Ordered(s)'
    <2>1. \A r \in 1 .. Rounds : Elems(sub'[s][r]) \subseteq Elems(sub[s][r])
      BY <1>2, <1>3
    <2>2. \A r \in 1 .. Rounds : Sorted(sub'[s][r], MessageOrder)
      BY <1>2, <1>3 DEF Ordered
    <2> QED BY <2>1, <2>2 DEF Ordered
  <1> QED BY <1>4, <1>5, <1>6, <1>7, <1>8 DEF p, h, k

-----------------------------------------------------------------------------
(* Types *)

\* The steps, one by one.
Step(s) ==
  \/ open(s) \/ routeLocal(s) \/ routeRemote(s) \/ close(s) \/ fifoDrained(s)
  \/ tellProceed(s) \/ tellDone(s) \/ awaitDone(s)
  \/ receiveData(s) \/ receiveProceed(s) \/ receiverDrained(s)
  \/ get_ready(s) \/ freeBuffer(s) \/ drain(s) \/ Publish(s)

LEMMA Steps ==
  ASSUME Next
  PROVE  \E s \in Servers : Step(s)
  BY DEF Next, MainStep, ReceiverStep, FirerStep, Step

MainTypes == main \in [Servers -> [pc : MainPcs, round : 0 .. Rounds, sent : 0 .. PerRound]]
FirerTypes == firer \in [Servers -> [pc : {"none", "loop", "consume", "drain", "done"},
                                    item : Items \cup {NoItem}]]
FifoTypes == fifo \in [Servers -> [queue : Seq(Items), closing : BOOLEAN]]
NetTypes ==
  wire \in [Servers -> Seq(Messages)] /\ sub \in [Servers -> [1 .. Rounds -> Seq(Messages)]]

\* A server that is not between two queries is in one.
LEMMA InRound ==
  ASSUME ConstantsOK, Types, NEW s \in Servers, Phases(s), main[s].pc # "open" \/ receiver[s] = "wait"
  PROVE  main[s].round \in 1 .. Rounds
  <1>1. main[s].round \in 0 .. Rounds
    BY DEF Types
  <1> QED BY <1>1, SMTT(30) DEF Phases, ConstantsOK

\* The tuple that is routed next, and the messages for the peer.
Fresh(s) == <<s, main[s].round, main[s].sent + 1>>
Message(s, size, x) == [round |-> main[s].round, size |-> size, x |-> x]

LEMMA FreshTuple ==
  ASSUME ConstantsOK, Types, NEW s \in Servers, Phases(s), main[s].pc = "route", main[s].sent < PerRound
  PROVE  /\ Fresh(s) \in Tuples /\ Fresh(s) # <<>>
         /\ [x |-> Fresh(s), remote |-> FALSE] \in Items
         /\ Message(s, BufSize, Fresh(s)) \in Messages
  <1>1. main[s].round \in 1 .. Rounds
    BY InRound
  <1>2. main[s].sent + 1 \in 1 .. PerRound
    BY SMTT(30) DEF Types, ConstantsOK
  <1>3. Fresh(s) \in Tuples
    BY <1>1, <1>2 DEF Fresh, Tuples
  <1>4. Fresh(s) # <<>>
    BY DEF Fresh
  <1> QED BY <1>1, <1>3, <1>4 DEF Items, Message, Messages

LEMMA ControlMessage ==
  ASSUME ConstantsOK, Types, NEW s \in Servers, Phases(s), main[s].pc # "open", NEW size \in {2, 3}
  PROVE  Message(s, size, <<>>) \in Messages
  BY InRound DEF Message, Messages

\* What is received as data is a tuple.
LEMMA DataTuple ==
  ASSUME Types, NEW s \in Servers, AllWritten(s), NEW m \in Transit(s), m.size = BufSize
  PROVE  m.x \in Tuples /\ [x |-> m.x, remote |-> TRUE] \in Items
  BY DEF AllWritten, Written, Items

\* The first message of the subscription in use was written before all others.
LEMMA HeadFirst ==
  ASSUME Types, NEW s \in Servers, Ordered(s), main[s].round \in 1 .. Rounds, Inbox(s) # <<>>
  PROVE  /\ Head(Inbox(s)) \in Transit(s) /\ Head(Inbox(s)).round = main[s].round
         /\ \A m \in Transit(s) : m = Head(Inbox(s)) \/ <<Head(Inbox(s)), m>> \in MessageOrder
  <1> DEFINE k == main[s].round
             h == Head(Inbox(s))
             q == sub[s][k]
  <1>1. k \in 1 .. Rounds /\ q \in Seq(Messages) /\ q # <<>> /\ h = Head(q)
    BY Queues DEF Inbox
  <1> HIDE DEF k, h
  <1>2. /\ Elems(q) = {h} \cup Elems(Tail(q)) /\ h \in Messages
        /\ \A m \in Elems(Tail(q)) : <<h, m>> \in MessageOrder
    <2> HIDE DEF q
    <2>1. Sorted(q, MessageOrder)
      BY <1>1 DEF Ordered, q
    <2> QED BY <1>1, <2>1, Popped
  <1>3. h.round = k /\ h \in Transit(s)
    BY <1>1, <1>2, SMTT(30) DEF Ordered, Transit
  <1>4. ASSUME NEW m \in Transit(s), m # h PROVE <<h, m>> \in MessageOrder
    <2>1. m \in Messages
      BY Transits
    <2>2. CASE m \in Elems(wire[s])
      BY <1>1, <1>2, <2>2 DEF Ordered
    <2>3. ASSUME NEW r \in 1 .. Rounds, m \in Elems(sub[s][r]) PROVE <<h, m>> \in MessageOrder
      <3>1. CASE r = k
        BY <1>2, <1>4, <2>3, <3>1
      <3>2. CASE r # k
        <4>1. m.round = r
          BY <2>3 DEF Ordered
        <4> QED BY <1>2, <1>3, <2>1, <3>2, <4>1, Rounded
      <3> QED BY <3>1, <3>2
    <2> QED BY <2>2, <2>3 DEF Transit
  <1> QED BY <1>3, <1>4 DEF k, h

\* What the receiver and close() find there.
LEMMA Control ==
  ASSUME ConstantsOK, Types, NEW s \in Servers, Ordered(s), AllWritten(s), Received(s), Proceeds(s), Phases(s),
         main[s].round \in 1 .. Rounds, Inbox(s) # <<>>
  PROVE  /\ receiver[s] = "wait" => Head(Inbox(s)).size # 2
         /\ main[s].pc = "await" => Head(Inbox(s)).size = 2
         /\ Head(Inbox(s)).size \in {BufSize, 3, 2}
  <1> DEFINE h == Head(Inbox(s))
             k == main[s].round
             p == Peer(s)
  <1>0. p \in Servers
    BY Peers
  <1>1. /\ h \in Transit(s) /\ h.round = k
        /\ \A m \in Transit(s) : m = h \/ <<h, m>> \in MessageOrder
    BY HeadFirst
  <1>2. h \in Messages /\ h.size \in {BufSize, 3, 2}
    BY <1>1, Transits DEF Messages
  <1>3. ASSUME main[s].pc = "await" PROVE h.size = 2
    BY <1>1, <1>3, SMTT(30) DEF Received, Phases
  <1>4. ASSUME receiver[s] = "wait", h.size = 2 PROVE FALSE
    <2> HIDE DEF h, p
    <2>1. k <= main[p].round /\ (k = main[p].round => PerRound + 2 <= Progress(p))
      BY <1>1, <1>4 DEF AllWritten, Written, Rank, p
    <2>2. main[p].pc \in MainPcs /\ main[p].sent \in 0 .. PerRound /\ main[p].round \in Nat
      BY <1>0, SMTT(30) DEF Types
    <2>3. Proceeded(p, k)
      <3>1. CASE k = main[p].round
        <4>1. PerRound + 2 <= Progress(p)
          BY <2>1, <3>1
        <4>2. main[p].pc \notin {"route", "drain", "tell"}
          BY <2>2, <4>1, SMTT(30) DEF Progress, ConstantsOK
        <4> QED BY <2>2, <3>1, <4>2 DEF Proceeded, MainPcs
      <3>2. CASE k # main[p].round
        BY <2>1, <2>2, <3>2, SMTT(30) DEF Proceeded
      <3> QED BY <3>1, <3>2
    <2>4. PICK m \in Transit(s) : m.round = k /\ m.size = 3
      BY <1>4, <2>3 DEF Proceeds, Expected, p
    <2>5. m # h /\ m \in Messages
      BY <1>4, <2>4, Transits, SMTT(30)
    <2>6. Rank(h) < Rank(m)
      BY <1>1, <1>2, <2>4, <2>5, Rounded
    <2> QED BY <1>4, <2>4, <2>6, SMTT(30) DEF Rank, ConstantsOK
  <1> QED BY <1>2, <1>3, <1>4

\* Every field keeps its type.
Good(s) ==
  Ordered(s) /\ AllWritten(s) /\ Received(s) /\ Proceeds(s) /\ Phases(s) /\ InStep(s)

LEMMA Typed ==
  Types <=> /\ MainTypes /\ FirerTypes /\ FifoTypes /\ NetTypes
            /\ receiver \in [Servers -> {"none", "wait", "drain", "done"}]
            /\ free \in [Servers -> Int] /\ closed \in [Servers -> Nat] /\ blocks \in [Servers -> Int]
            /\ consumed \in SUBSET Tuples
  BY DEF Types, MainTypes, FirerTypes, FifoTypes, NetTypes

LEMMA TypesStep ==
  ASSUME ConstantsOK, Types, Next, \A s \in Servers : Good(s)
  PROVE  Types'
  <1> PICK s \in Servers : Step(s)
    BY Steps
  <1> USE DEF Step
  <1>a. Good(s) /\ Phases(s) /\ Peer(s) \in Servers
    BY Peers DEF Good
  <1>b. /\ MainTypes /\ FirerTypes /\ FifoTypes /\ NetTypes
        /\ receiver \in [Servers -> {"none", "wait", "drain", "done"}]
        /\ free \in [Servers -> Int] /\ closed \in [Servers -> Nat] /\ blocks \in [Servers -> Int]
        /\ consumed \in SUBSET Tuples
    BY Typed
  <1>m. MainTypes'
    <2> USE DEF MainTypes, MainPcs
    <2>1. CASE UNCHANGED main
      BY <1>b, <2>1
    <2>2. CASE open(s)
      BY <1>b, <2>2, SMTT(30) DEF open, ConstantsOK
    <2>3. CASE routeLocal(s) \/ routeRemote(s)
      <3>1. main' = [main EXCEPT ![s].sent = @ + 1] /\ main[s].sent < PerRound
        BY <2>3 DEF routeLocal, routeRemote
      <3>2. main[s].sent + 1 \in 0 .. PerRound
        BY <1>b, <3>1, SMTT(30) DEF ConstantsOK
      <3> QED BY <1>b, <3>1, <3>2
    <2>4. CASE \E l \in MainPcs : Go(s, l)
      BY <1>b, <2>4, SMTT(30) DEF Go
    <2> QED BY <2>1, <2>2, <2>3, <2>4 DEF close, fifoDrained, tellProceed, tellDone, awaitDone,
               receiveData, receiveProceed, receiverDrained, get_ready, freeBuffer, drain, Publish
  <1>f. FirerTypes'
    <2> USE DEF FirerTypes
    <2>1. CASE UNCHANGED firer
      BY <1>b, <2>1
    <2>2. CASE \E l \in {"loop", "drain", "done"} : firer' = [firer EXCEPT ![s].pc = l]
      BY <1>b, <2>2, SMTT(30)
    <2>3. CASE get_ready(s) /\ fifo[s].queue # <<>>
      <3>1. fifo[s].queue \in Seq(Items)
        BY <1>b DEF FifoTypes
      <3>2. Head(fifo[s].queue) \in Items
        BY <2>3, <3>1, Popped
      <3>3. firer' = [firer EXCEPT ![s] = [pc |-> "consume", item |-> Head(fifo[s].queue)]]
        BY <2>3 DEF get_ready
      <3> QED BY <1>b, <3>2, <3>3
    <2>4. CASE freeBuffer(s)
      BY <1>b, <2>4 DEF freeBuffer
    <2> QED BY <2>1, <2>2, <2>3, <2>4 DEF open, routeLocal, routeRemote, close, fifoDrained,
               tellProceed, tellDone, awaitDone,
               receiveData, receiveProceed, receiverDrained, get_ready, drain, Publish
  <1>q. FifoTypes'
    <2> USE DEF FifoTypes
    <2>0. fifo[s].queue \in Seq(Items)
      BY <1>b
    <2>1. CASE UNCHANGED fifo
      BY <1>b, <2>1
    <2>2. CASE \E c \in BOOLEAN : fifo' = [fifo EXCEPT ![s].closing = c]
      BY <1>b, <2>2
    <2>3. CASE \E e \in Items : fifo' = [fifo EXCEPT ![s].queue = Append(@, e)]
      <3> PICK e \in Items : fifo' = [fifo EXCEPT ![s].queue = Append(@, e)]
        BY <2>3
      <3>1. Append(fifo[s].queue, e) \in Seq(Items)
        BY <2>0, SMTT(30)
      <3> QED BY <1>b, <3>1
    <2>4. CASE get_ready(s) /\ fifo[s].queue # <<>>
      <3>1. Tail(fifo[s].queue) \in Seq(Items)
        BY <2>0, <2>4, SMTT(30)
      <3> QED BY <1>b, <2>4, <3>1 DEF get_ready
    <2>5. CASE routeLocal(s)
      <3>1. [x |-> Fresh(s), remote |-> FALSE] \in Items
        BY <1>a, <2>5, FreshTuple DEF routeLocal
      <3>2. fifo' = [fifo EXCEPT ![s].queue = Append(@, [x |-> Fresh(s), remote |-> FALSE])]
        BY <2>5 DEF routeLocal, Fresh
      <3> QED BY <2>3, <3>1, <3>2
    <2>6. CASE receiveData(s)
      <3>0. main[s].round \in 1 .. Rounds
        BY <1>a, <2>6, InRound DEF receiveData
      <3>1. Head(Inbox(s)).size = BufSize /\ Head(Inbox(s)) \in Transit(s)
        BY <1>a, <2>6, <3>0, Control, HeadFirst DEF receiveData, Good
      <3>2. [x |-> Head(Inbox(s)).x, remote |-> TRUE] \in Items
        BY <1>a, <3>1, DataTuple DEF Good
      <3>3. fifo' = [fifo EXCEPT ![s].queue = Append(@, [x |-> Head(Inbox(s)).x, remote |-> TRUE])]
        BY <2>6 DEF receiveData
      <3> QED BY <2>3, <3>2, <3>3
    <2>7. CASE open(s) \/ close(s) \/ receiveProceed(s)
      <3>1. \E c : c \in BOOLEAN /\ fifo' = [fifo EXCEPT ![s].closing = c]
        <4>1. CASE open(s)
          BY <4>1 DEF open
        <4>2. CASE close(s) \/ receiveProceed(s)
          BY <1>b, <4>2 DEF close, receiveProceed
        <4> QED BY <2>7, <4>1, <4>2
      <3> QED BY <2>2, <3>1
    <2> QED BY <2>1, <2>4, <2>5, <2>6, <2>7 DEF routeRemote, fifoDrained,
               tellProceed, tellDone, awaitDone, receiverDrained, get_ready, freeBuffer, drain, Publish
  <1>n. NetTypes'
    <2> USE DEF NetTypes
    <2>1. CASE UNCHANGED <<wire, sub>>
      BY <1>b, <2>1
    <2>2. ASSUME NEW m \in Messages, Sent(s, m) PROVE NetTypes'
      <3>1. wire[Peer(s)] \in Seq(Messages)
        BY <1>a, <1>b
      <3>2. Append(wire[Peer(s)], m) \in Seq(Messages)
        BY <3>1, SMTT(30)
      <3> QED BY <1>a, <1>b, <2>2, <3>2 DEF Sent
    <2>3. CASE routeRemote(s)
      <3>1. Sent(s, Message(s, BufSize, Fresh(s)))
        BY <2>3 DEF routeRemote, Write, Sent, Message, Fresh
      <3>2. Message(s, BufSize, Fresh(s)) \in Messages
        BY <1>a, <2>3, FreshTuple DEF routeRemote
      <3> QED BY <2>2, <3>1, <3>2
    <2>4. CASE tellProceed(s) \/ tellDone(s)
      <3>1. \E size \in {2, 3} : Sent(s, Message(s, size, <<>>))
        BY <2>4 DEF tellProceed, tellDone, Write, Sent, Message
      <3>2. main[s].pc # "open"
        BY <2>4 DEF tellProceed, tellDone
      <3> QED BY <1>a, <2>2, <3>1, <3>2, ControlMessage
    <2>5. CASE PopInbox(s) /\ Inbox(s) # <<>> /\ main[s].round \in 1 .. Rounds /\ UNCHANGED wire
      <3>1. sub[s][main[s].round] \in Seq(Messages) /\ sub[s][main[s].round] # <<>>
        BY <2>5, Queues DEF Inbox
      <3>2. Tail(sub[s][main[s].round]) \in Seq(Messages)
        BY <3>1, SMTT(30)
      <3> QED BY <1>b, <2>5, <3>2 DEF PopInbox
    <2>6. CASE Publish(s)
      <3> DEFINE m == Head(wire[s])
      <3>1. wire[s] \in Seq(Messages) /\ wire[s] # <<>>
        BY <2>6, Queues DEF Publish
      <3>2. m \in Messages /\ Tail(wire[s]) \in Seq(Messages)
        BY <3>1, Popped
      <3>3. m.round \in 1 .. Rounds
        BY <3>2, Rounded
      <3>4. Append(sub[s][m.round], m) \in Seq(Messages)
        BY <3>2, <3>3, Queues, Appended
      <3> HIDE DEF m
      <3>5. sub' = [sub EXCEPT ![s][m.round] = Append(@, m)] /\ wire' = [wire EXCEPT ![s] = Tail(@)]
        BY <2>6 DEF Publish, m
      <3> QED BY <1>b, <3>2, <3>3, <3>4, <3>5
    <2>7. CASE awaitDone(s) \/ receiveData(s) \/ receiveProceed(s)
      <3>1. PopInbox(s) /\ Inbox(s) # <<>> /\ UNCHANGED wire
        BY <2>7 DEF awaitDone, receiveData, receiveProceed
      <3>2. main[s].pc # "open" \/ receiver[s] = "wait"
        BY <2>7 DEF awaitDone, receiveData, receiveProceed
      <3> QED BY <1>a, <2>5, <3>1, <3>2, InRound
    <2> QED BY <2>1, <2>3, <2>4, <2>6, <2>7 DEF open, routeLocal, close, fifoDrained,
               receiverDrained, get_ready, freeBuffer, drain
  <1>r. receiver' \in [Servers -> {"none", "wait", "drain", "done"}]
    BY <1>b DEF open, routeLocal, routeRemote, close, fifoDrained, tellProceed, tellDone, awaitDone,
       receiveData, receiveProceed, receiverDrained, get_ready, freeBuffer, drain, Publish
  <1>c. closed' \in [Servers -> Nat]
    <2>1. CASE close(s) \/ receiveProceed(s)
      <3>1. closed' = [closed EXCEPT ![s] = @ + 1]
        BY <2>1 DEF close, receiveProceed
      <3> QED BY <1>b, <3>1, SMTT(30)
    <2>2. CASE awaitDone(s)
      BY <1>b, <2>2 DEF awaitDone
    <2>3. CASE UNCHANGED closed
      BY <1>b, <2>3
    <2> QED BY <2>1, <2>2, <2>3 DEF open, routeLocal, routeRemote, fifoDrained, tellProceed, tellDone,
               receiveData, receiverDrained, get_ready, freeBuffer, drain, Publish
  <1>e. free' \in [Servers -> Int]
    <2>0. \A n \in Int : free' = [free EXCEPT ![s] = n] => free' \in [Servers -> Int]
      BY <1>b
    <2>1. CASE UNCHANGED free
      BY <1>b, <2>1
    <2>2. free[s] \in Int /\ free[s] + 1 \in Int /\ free[s] - 1 \in Int /\ Slack \in Int
      BY <1>b, SMTT(30) DEF ConstantsOK
    <2>3. CASE open(s) \/ drain(s)
      BY <2>0, <2>2, <2>3, SMTT(30) DEF open, drain
    <2>4. CASE routeLocal(s) \/ freeBuffer(s)
      BY <2>0, <2>1, <2>2, <2>4 DEF routeLocal, freeBuffer
    <2> QED BY <2>1, <2>3, <2>4 DEF routeRemote, close, fifoDrained, tellProceed, tellDone, awaitDone,
               receiveData, receiveProceed, receiverDrained, get_ready, Publish
  <1>k. blocks' \in [Servers -> Int]
    <2>0. \A n \in Int : blocks' = [blocks EXCEPT ![s] = n] => blocks' \in [Servers -> Int]
      BY <1>b
    <2>1. CASE UNCHANGED blocks
      BY <1>b, <2>1
    <2>2. blocks[s] \in Int /\ blocks[s] + 1 \in Int /\ blocks[s] - 1 \in Int
      BY <1>b, SMTT(30)
    <2>3. CASE awaitDone(s) \/ receiveProceed(s) \/ freeBuffer(s) \/ Publish(s)
      BY <2>0, <2>1, <2>2, <2>3 DEF awaitDone, receiveProceed, freeBuffer, Publish
    <2> QED BY <2>1, <2>3 DEF open, routeLocal, routeRemote, close, fifoDrained, tellProceed, tellDone,
               receiveData, receiverDrained, get_ready, drain
  <1>x. consumed' \in SUBSET Tuples
    <2>1. CASE freeBuffer(s)
      <3>1. firer[s].pc = "consume"
        BY <2>1 DEF freeBuffer
      <3>2. firer[s].item \in Items
        BY <1>a, <1>b, <3>1 DEF Phases, FirerTypes
      <3>3. firer[s].item.x \in Tuples
        BY <3>2 DEF Items
      <3> QED BY <1>b, <2>1, <3>3 DEF freeBuffer
    <2> QED BY <1>b, <2>1 DEF open, routeLocal, routeRemote, close, fifoDrained, tellProceed, tellDone,
               awaitDone, receiveData, receiveProceed, receiverDrained, get_ready, drain, Publish
  <1> QED BY <1>m, <1>f, <1>q, <1>n, <1>r, <1>c, <1>e, <1>k, <1>x, Typed
           DEF Types, MainTypes, FirerTypes, FifoTypes, NetTypes

-----------------------------------------------------------------------------
(* The threads of a server *)

\* A step is local to its server but for the network.
LEMMA Local ==
  ASSUME Types, NEW s \in Servers, Step(s), NEW t \in Servers, t # s
  PROVE  /\ main'[t] = main[t] /\ firer'[t] = firer[t] /\ receiver'[t] = receiver[t]
         /\ fifo'[t] = fifo[t] /\ closed'[t] = closed[t] /\ free'[t] = free[t] /\ blocks'[t] = blocks[t]
  <1>0. /\ main \in [Servers -> [pc : MainPcs, round : 0 .. Rounds, sent : 0 .. PerRound]]
        /\ DOMAIN firer = Servers /\ DOMAIN receiver = Servers /\ DOMAIN fifo = Servers
        /\ DOMAIN closed = Servers /\ DOMAIN free = Servers /\ DOMAIN blocks = Servers
    BY DEF Types
  <1>1. main'[t] = main[t]
    BY <1>0 DEF Step, Go, open, routeLocal, routeRemote, close, fifoDrained, tellProceed, tellDone,
             awaitDone, receiveData, receiveProceed, receiverDrained, get_ready, freeBuffer, drain, Publish
  <1>2. firer'[t] = firer[t]
    BY <1>0 DEF Step, Go, open, routeLocal, routeRemote, close, fifoDrained, tellProceed, tellDone,
             awaitDone, receiveData, receiveProceed, receiverDrained, get_ready, freeBuffer, drain, Publish
  <1>3. receiver'[t] = receiver[t]
    BY <1>0 DEF Step, Go, open, routeLocal, routeRemote, close, fifoDrained, tellProceed, tellDone,
             awaitDone, receiveData, receiveProceed, receiverDrained, get_ready, freeBuffer, drain, Publish
  <1>4. fifo'[t] = fifo[t]
    BY <1>0 DEF Step, Go, open, routeLocal, routeRemote, close, fifoDrained, tellProceed, tellDone,
             awaitDone, receiveData, receiveProceed, receiverDrained, get_ready, freeBuffer, drain, Publish
  <1>5. closed'[t] = closed[t]
    BY <1>0 DEF Step, Go, open, routeLocal, routeRemote, close, fifoDrained, tellProceed, tellDone,
             awaitDone, receiveData, receiveProceed, receiverDrained, get_ready, freeBuffer, drain, Publish
  <1>6. free'[t] = free[t]
    BY <1>0 DEF Step, Go, open, routeLocal, routeRemote, close, fifoDrained, tellProceed, tellDone,
             awaitDone, receiveData, receiveProceed, receiverDrained, get_ready, freeBuffer, drain, Publish
  <1>7. blocks'[t] = blocks[t]
    BY <1>0 DEF Step, Go, open, routeLocal, routeRemote, close, fifoDrained, tellProceed, tellDone,
             awaitDone, receiveData, receiveProceed, receiverDrained, get_ready, freeBuffer, drain, Publish
  <1> QED BY <1>1, <1>2, <1>3, <1>4, <1>5, <1>6, <1>7

\* How the pipeline of a server proceeds.
Pcs(s, from, to) ==
  /\ main[s].pc = from /\ main'[s].pc = to
  /\ main'[s].round = main[s].round /\ main'[s].sent = main[s].sent
Moved(s) ==
  \/ /\ open(s) /\ main[s].pc = "open" /\ main'[s].pc = "route"
     /\ main'[s].round = main[s].round + 1 /\ main'[s].sent = 0
  \/ /\ routeLocal(s) \/ routeRemote(s)
     /\ main[s].pc = "route" /\ main'[s].pc = "route"
     /\ main'[s].round = main[s].round /\ main'[s].sent = main[s].sent + 1
  \/ close(s) /\ (Pcs(s, "route", "drain") \/ Pcs(s, "route", "tell"))
  \/ fifoDrained(s) /\ Pcs(s, "drain", "tell")
  \/ tellProceed(s) /\ Pcs(s, "tell", "join")
  \/ tellDone(s) /\ Pcs(s, "join", "await")
  \/ awaitDone(s) /\ Pcs(s, "await", "open")

LEMMA Moves ==
  ASSUME Types, NEW s \in Servers, Step(s)
  PROVE  \/ Moved(s)
         \/ /\ main' = main
            /\ ~open(s) /\ ~routeLocal(s) /\ ~routeRemote(s) /\ ~close(s) /\ ~fifoDrained(s)
            /\ ~tellProceed(s) /\ ~tellDone(s) /\ ~awaitDone(s)
  <1>0. main \in [Servers -> [pc : MainPcs, round : 0 .. Rounds, sent : 0 .. PerRound]]
    BY DEF Types
  <1>1. ASSUME open(s) PROVE Moved(s)
    <2>1. main[s].pc = "open" /\ main' = [main EXCEPT ![s] = [pc |-> "route", round |-> @.round + 1, sent |-> 0]]
      BY <1>1 DEF open
    <2>2. main'[s].pc = "route" /\ main'[s].round = main[s].round + 1 /\ main'[s].sent = 0
      BY <1>0, <2>1
    <2> QED BY <1>1, <2>1, <2>2 DEF Moved
  <1>2. ASSUME routeLocal(s) \/ routeRemote(s) PROVE Moved(s)
    <2>1. main[s].pc = "route" /\ main' = [main EXCEPT ![s].sent = @ + 1]
      BY <1>2 DEF routeLocal, routeRemote
    <2>2. main'[s].pc = "route" /\ main'[s].round = main[s].round /\ main'[s].sent = main[s].sent + 1
      BY <1>0, <2>1
    <2> QED BY <1>2, <2>1, <2>2 DEF Moved
  <1>g. ASSUME NEW l, Go(s, l) PROVE Pcs(s, main[s].pc, l)
    BY <1>0, <1>g DEF Go, Pcs
  <1>3. ASSUME close(s) PROVE Moved(s)
    <2>1. main[s].pc = "route" /\ (Go(s, "drain") \/ Go(s, "tell"))
      BY <1>3 DEF close
    <2> QED BY <1>g, <1>3, <2>1 DEF Moved
  <1>4. ASSUME fifoDrained(s) PROVE Moved(s)
    <2>1. main[s].pc = "drain" /\ Go(s, "tell")
      BY <1>4 DEF fifoDrained
    <2> QED BY <1>g, <1>4, <2>1 DEF Moved
  <1>5. ASSUME tellProceed(s) PROVE Moved(s)
    <2>1. main[s].pc = "tell" /\ Go(s, "join")
      BY <1>5 DEF tellProceed
    <2> QED BY <1>g, <1>5, <2>1 DEF Moved
  <1>6. ASSUME tellDone(s) PROVE Moved(s)
    <2>1. main[s].pc = "join" /\ Go(s, "await")
      BY <1>6 DEF tellDone
    <2> QED BY <1>g, <1>6, <2>1 DEF Moved
  <1>7. ASSUME awaitDone(s) PROVE Moved(s)
    <2>1. main[s].pc = "await" /\ Go(s, "open")
      BY <1>7 DEF awaitDone
    <2> QED BY <1>g, <1>7, <2>1 DEF Moved
  <1>8. ASSUME receiveData(s) \/ receiveProceed(s) \/ receiverDrained(s) \/ get_ready(s)
               \/ freeBuffer(s) \/ drain(s) \/ Publish(s)
        PROVE  main' = main
    BY <1>8 DEF receiveData, receiveProceed, receiverDrained, get_ready, freeBuffer, drain, Publish
  <1> QED BY <1>1, <1>2, <1>3, <1>4, <1>5, <1>6, <1>7, <1>8 DEF Step

\* No server takes back what it has written, told or passed.
Advanced(t) ==
  /\ \/ main[t].round < main'[t].round
     \/ main'[t].round = main[t].round /\ Progress(t) <= Progress(t)'
  /\ \A r \in Int : Passed(t, r) => Passed(t, r)'
  /\ \A r \in Int : Proceeded(t, r) => Proceeded(t, r)'
  /\ main[t].round <= main'[t].round

LEMMA Advances ==
  ASSUME ConstantsOK, Types, Next, NEW t \in Servers
  PROVE  Advanced(t)
  <1> PICK s \in Servers : Step(s)
    BY Steps
  <1>0. main[t].round \in Nat /\ main[t].sent \in 0 .. PerRound /\ main[t].pc \in MainPcs /\ PerRound \in Nat
    BY SMTT(30) DEF Types, ConstantsOK
  <1>1. CASE main'[t] = main[t]
    BY <1>0, <1>1, SMTT(30) DEF Advanced, Progress, Passed, Proceeded
  <1>2. CASE t = s /\ Moved(s)
    BY <1>0, <1>2, SMTT(30) DEF Moved, Pcs, Advanced, Progress, Passed, Proceeded
  <1> QED BY <1>1, <1>2, Local, Moves

-----------------------------------------------------------------------------
(* Messages *)

\* A server writes the next message of its round, or takes the first one of its
\* subscription.
Writes(s, m) ==
  /\ Sent(s, m) /\ m \in Messages /\ m.round = main[s].round /\ main'[s].round = main[s].round
  /\ IF m.size = BufSize THEN m.x \in Tuples /\ m.x[1] = s /\ m.x[2] = m.round ELSE m.x = <<>>
  /\ Progress(s) < Rank(m) /\ Rank(m) <= Progress(s)'
Takes(s) == PopInbox(s) /\ wire' = wire /\ Inbox(s) # <<>> /\ main[s].round \in 1 .. Rounds

LEMMA Writing ==
  ASSUME ConstantsOK, Types, NEW s \in Servers, Phases(s)
  PROVE  /\ routeRemote(s) => Writes(s, Message(s, BufSize, Fresh(s)))
         /\ tellProceed(s) => Writes(s, Message(s, 3, <<>>))
         /\ tellDone(s) => Writes(s, Message(s, 2, <<>>))
  <1>0. /\ main \in [Servers -> [pc : MainPcs, round : 0 .. Rounds, sent : 0 .. PerRound]]
        /\ PerRound \in Nat
    BY DEF Types, ConstantsOK
  <1>1. ASSUME routeRemote(s) PROVE Writes(s, Message(s, BufSize, Fresh(s)))
    <2> DEFINE m == Message(s, BufSize, Fresh(s))
    <2>1. main[s].pc = "route" /\ main[s].sent < PerRound /\ main' = [main EXCEPT ![s].sent = @ + 1]
      BY <1>1 DEF routeRemote
    <2>2. Sent(s, m)
      BY <1>1 DEF routeRemote, Sent, Write, Message, Fresh
    <2>3. m \in Messages /\ Fresh(s) \in Tuples
      BY <2>1, FreshTuple
    <2>4. main'[s].round = main[s].round /\ main'[s].pc = "route" /\ main'[s].sent = main[s].sent + 1
      BY <1>0, <2>1
    <2>5. m.round = main[s].round /\ m.size = BufSize /\ m.x = Fresh(s)
      BY DEF Message
    <2>6. Fresh(s)[1] = s /\ Fresh(s)[2] = main[s].round /\ Fresh(s)[3] = main[s].sent + 1
      BY DEF Fresh
    <2> HIDE DEF m
    <2>7. Rank(m) = main[s].sent + 1
      BY <2>5, <2>6, SMTT(30) DEF Rank, BufSize
    <2>8. Progress(s) = main[s].sent /\ Progress(s)' = main[s].sent + 1
      BY <2>1, <2>4 DEF Progress
    <2>9. Progress(s) < Rank(m) /\ Rank(m) <= Progress(s)'
      BY <1>0, <2>7, <2>8, SMTT(30)
    <2> QED BY <2>2, <2>3, <2>4, <2>5, <2>6, <2>9 DEF Writes, m
  <1>2. ASSUME NEW size \in {2, 3}, Write(s, size, <<>>), sub' = sub, NEW from \in MainPcs, NEW to,
               Pcs(s, from, to), from # "open",
               size = 3 => from = "tell" /\ to = "join",
               size = 2 => from = "join" /\ to = "await"
        PROVE  Writes(s, Message(s, size, <<>>))
    <2> DEFINE m == Message(s, size, <<>>)
    <2>1. m \in Messages
      BY <1>2, ControlMessage DEF Pcs
    <2>2. Sent(s, m)
      BY <1>2 DEF Sent, Write, Message
    <2>3. m.round = main[s].round /\ m.size = size /\ m.x = <<>>
      BY DEF Message
    <2> HIDE DEF m
    <2>4. Progress(s) < Rank(m) /\ Rank(m) <= Progress(s)'
      BY <1>0, <1>2, <2>3, SMTT(30) DEF Pcs, Progress, Rank
    <2>5. main'[s].round = main[s].round /\ m.size # BufSize
      BY <1>2, <2>3, SMTT(30) DEF Pcs, BufSize
    <2> QED BY <2>1, <2>2, <2>3, <2>4, <2>5 DEF Writes, m
  <1>3. ASSUME tellProceed(s) PROVE Writes(s, Message(s, 3, <<>>))
    <2>1. Write(s, 3, <<>>) /\ sub' = sub /\ main[s].pc = "tell" /\ Go(s, "join")
      BY <1>3 DEF tellProceed
    <2>2. Pcs(s, "tell", "join")
      BY <1>0, <2>1 DEF Go, Pcs
    <2> QED BY <1>2, <2>1, <2>2, SMTT(30) DEF MainPcs
  <1>4. ASSUME tellDone(s) PROVE Writes(s, Message(s, 2, <<>>))
    <2>1. Write(s, 2, <<>>) /\ sub' = sub /\ main[s].pc = "join" /\ Go(s, "await")
      BY <1>4 DEF tellDone
    <2>2. Pcs(s, "join", "await")
      BY <1>0, <2>1 DEF Go, Pcs
    <2> QED BY <1>2, <2>1, <2>2, SMTT(30) DEF MainPcs
  <1> QED BY <1>1, <1>3, <1>4

LEMMA Taking ==
  ASSUME ConstantsOK, Types, NEW s \in Servers, Phases(s),
         awaitDone(s) \/ receiveData(s) \/ receiveProceed(s)
  PROVE  Takes(s)
  <1>1. PopInbox(s) /\ wire' = wire /\ Inbox(s) # <<>> /\ (main[s].pc = "await" \/ receiver[s] = "wait")
    BY DEF awaitDone, receiveData, receiveProceed
  <1> QED BY <1>1, InRound DEF Takes

\* Messages and handshake in every step: what is left of it when buffers, queues
\* and tuples are forgotten.
Keeps == \A t \in Servers : Transit(t)' = Transit(t)
Tells(s, m) ==
  /\ Writes(s, m)
  /\ Transit(s)' = Transit(s) /\ Transit(Peer(s))' = Transit(Peer(s)) \cup {m}
Gets(s, h) ==
  /\ h \in Messages /\ h.round = main[s].round /\ Transit(s) = Transit(s)' \cup {h}
  /\ Transit(Peer(s))' = Transit(Peer(s))
  /\ \A m \in Transit(s)' : <<h, m>> \in MessageOrder
Handshake(s) ==
  \/ /\ Keeps /\ receiver'[s] = "wait" /\ main[s].pc = "open" /\ main'[s].pc = "route"
     /\ main'[s].round = main[s].round + 1
  \/ /\ Keeps /\ receiver'[s] = receiver[s]
     /\ {main[s].pc, main'[s].pc} \subseteq {"route", "drain", "tell"} /\ main'[s].round = main[s].round
  \/ /\ Keeps /\ main'[s] = main[s]
     /\ receiver'[s] = receiver[s] \/ (receiver[s] = "drain" /\ receiver'[s] = "done")
  \/ /\ receiver'[s] = receiver[s] /\ main'[s].round = main[s].round
     /\ \E m : /\ Tells(s, m)
               /\ \/ main[s].pc = "route" /\ main'[s].pc = "route" /\ m.size = BufSize
                  \/ Pcs(s, "tell", "join") /\ m.size = 3
                  \/ Pcs(s, "join", "await") /\ m.size = 2
  \/ /\ receiver'[s] = receiver[s] /\ Pcs(s, "await", "open")
     /\ \E h : Gets(s, h) /\ h.size = 2
  \/ /\ main'[s] = main[s] /\ receiver[s] = "wait"
     /\ \E h : /\ Gets(s, h)
               /\ \/ h.size = BufSize /\ receiver'[s] = "wait"
                  \/ h.size = 3 /\ receiver'[s] \in {"drain", "done"}

LEMMA Sending ==
  ASSUME ConstantsOK, Types, NEW s \in Servers, Ordered(s), Ordered(Peer(s)), AllWritten(Peer(s)),
         NEW m, Writes(s, m)
  PROVE  Tells(s, m) /\ Ordered(s)' /\ Ordered(Peer(s))'
  <1> DEFINE p == Peer(s)
  <1>0. p \in Servers /\ Peer(p) = s
    BY Peers
  <1>1. m \in Messages /\ Sent(s, m) /\ m.round = main[s].round /\ Progress(s) < Rank(m)
    BY DEF Writes
  <1>2. ASSUME NEW n \in Transit(p) PROVE <<n, m>> \in MessageOrder
    <2>1. n \in Messages
      BY <1>0, Transits
    <2>2. n.round = main[s].round => Rank(n) <= Progress(s)
      BY <1>0 DEF AllWritten, Written
    <2>3. n.round = main[s].round => Rank(n) \in Int
      <3>1. Written(p, n)
        BY DEF AllWritten
      <3>2. n.size = BufSize => n.x[3] \in Int
        BY <3>1, SMTT(30) DEF Written, Tuples
      <3>3. n.size \in {BufSize, 3, 2}
        BY <2>1 DEF Messages
      <3> QED BY <3>2, <3>3, SMTT(30) DEF Rank, ConstantsOK
    <2>4. Rank(m) \in Int /\ Progress(s) \in Int
      <3>1. m.size = BufSize => m.x[3] \in Int
        BY SMTT(30) DEF Writes, Tuples
      <3>2. m.size \in {BufSize, 3, 2}
        BY <1>1 DEF Messages
      <3>3. main[s].sent \in Int
        BY SMTT(30) DEF Types
      <3> QED BY <3>1, <3>2, <3>3, SMTT(30) DEF Rank, Progress, ConstantsOK
    <2> QED BY <1>1, <2>1, <2>2, <2>3, <2>4, Rounded, SMTT(30)
  <1> QED BY <1>1, <1>2, SentInOrder DEF Tells

LEMMA Getting ==
  ASSUME ConstantsOK, Types, NEW s \in Servers, Ordered(s), Ordered(Peer(s)), Takes(s)
  PROVE  Gets(s, Head(Inbox(s))) /\ Ordered(s)' /\ Ordered(Peer(s))'
  <1>1. Head(Inbox(s)) \in Messages
    BY HeadFirst, Transits DEF Takes
  <1> QED BY <1>1, TakenInOrder DEF Takes, Gets

LEMMA Still ==
  ASSUME NEW s \in Servers, wire' = wire, sub' = sub
  PROVE  Keeps /\ \A t \in Servers : Ordered(t) => Ordered(t)'
  BY DEF Keeps, Transit, Ordered

LEMMA Shakes ==
  ASSUME ConstantsOK, Types, NEW s \in Servers, Good(s), Good(Peer(s)), Step(s)
  PROVE  Handshake(s) /\ Ordered(s)' /\ Ordered(Peer(s))'
  <1>0. /\ main \in [Servers -> [pc : MainPcs, round : 0 .. Rounds, sent : 0 .. PerRound]]
        /\ receiver \in [Servers -> {"none", "wait", "drain", "done"}]
        /\ Ordered(s) /\ Ordered(Peer(s)) /\ AllWritten(s) /\ AllWritten(Peer(s)) /\ Received(s)
        /\ Phases(s) /\ Proceeds(s) /\ Peer(s) \in Servers
    BY Peers DEF Types, Good
  <1>1. ASSUME open(s) PROVE Handshake(s) /\ Ordered(s)' /\ Ordered(Peer(s))'
    <2>1. wire' = wire /\ sub' = sub /\ receiver' = [receiver EXCEPT ![s] = "wait"]
      BY <1>1 DEF open
    <2>2. main[s].pc = "open" /\ main' = [main EXCEPT ![s] = [pc |-> "route", round |-> @.round + 1, sent |-> 0]]
      BY <1>1 DEF open
    <2>3. receiver'[s] = "wait" /\ main'[s].pc = "route" /\ main'[s].round = main[s].round + 1
      BY <1>0, <2>1, <2>2
    <2> QED BY <1>0, <2>1, <2>2, <2>3, Still DEF Handshake
  <1>2. ASSUME routeLocal(s) \/ close(s) \/ fifoDrained(s)
        PROVE  Handshake(s) /\ Ordered(s)' /\ Ordered(Peer(s))'
    <2>1. wire' = wire /\ sub' = sub /\ receiver' = receiver
      BY <1>2 DEF routeLocal, close, fifoDrained
    <2>2. /\ {main[s].pc, main'[s].pc} \subseteq {"route", "drain", "tell"}
          /\ main'[s].round = main[s].round
      BY <1>0, <1>2, SMTT(30) DEF routeLocal, close, fifoDrained, Go
    <2> QED BY <1>0, <2>1, <2>2, Still DEF Handshake
  <1>3. ASSUME receiverDrained(s) \/ get_ready(s) \/ freeBuffer(s) \/ drain(s) \/ Publish(s)
        PROVE  Handshake(s) /\ Ordered(s)' /\ Ordered(Peer(s))'
    <2>1. main' = main
      BY <1>3 DEF receiverDrained, get_ready, freeBuffer, drain, Publish
    <2>2. receiver'[s] = receiver[s] \/ (receiver[s] = "drain" /\ receiver'[s] = "done")
      BY <1>0, <1>3 DEF receiverDrained, get_ready, freeBuffer, drain, Publish
    <2>3. Keeps /\ Ordered(s)' /\ Ordered(Peer(s))'
      <3>1. CASE Publish(s)
        BY <1>0, <3>1, PublishedInOrder, Peers DEF Keeps
      <3>2. CASE ~Publish(s)
        <4>1. wire' = wire /\ sub' = sub
          BY <1>3, <3>2 DEF receiverDrained, get_ready, freeBuffer, drain
        <4> QED BY <1>0, <4>1, Still
      <3> QED BY <3>1, <3>2
    <2> QED BY <2>1, <2>2, <2>3 DEF Handshake
  <1>4. ASSUME routeRemote(s) \/ tellProceed(s) \/ tellDone(s)
        PROVE  Handshake(s) /\ Ordered(s)' /\ Ordered(Peer(s))'
    <2>1. PICK m : /\ Writes(s, m)
                   /\ \/ main[s].pc = "route" /\ main'[s].pc = "route" /\ m.size = BufSize
                      \/ Pcs(s, "tell", "join") /\ m.size = 3
                      \/ Pcs(s, "join", "await") /\ m.size = 2
      <3>1. ASSUME routeRemote(s)
            PROVE  main[s].pc = "route" /\ main'[s].pc = "route" /\ Message(s, BufSize, Fresh(s)).size = BufSize
        BY <1>0, <3>1 DEF routeRemote, Message
      <3>2. ASSUME tellProceed(s) PROVE Pcs(s, "tell", "join") /\ Message(s, 3, <<>>).size = 3
        BY <1>0, <3>2 DEF tellProceed, Message, Go, Pcs
      <3>3. ASSUME tellDone(s) PROVE Pcs(s, "join", "await") /\ Message(s, 2, <<>>).size = 2
        BY <1>0, <3>3 DEF tellDone, Message, Go, Pcs
      <3> QED BY <1>0, <1>4, <3>1, <3>2, <3>3, Writing
    <2>2. receiver' = receiver
      BY <1>4 DEF routeRemote, tellProceed, tellDone
    <2>3. Tells(s, m) /\ Ordered(s)' /\ Ordered(Peer(s))'
      BY <1>0, <2>1, Sending
    <2>4. main'[s].round = main[s].round
      BY <2>1 DEF Writes
    <2> QED BY <2>1, <2>2, <2>3, <2>4 DEF Handshake
  <1>5. ASSUME awaitDone(s) \/ receiveData(s) \/ receiveProceed(s)
        PROVE  Handshake(s) /\ Ordered(s)' /\ Ordered(Peer(s))'
    <2> DEFINE h == Head(Inbox(s))
    <2>1. Takes(s)
      BY <1>0, <1>5, Taking
    <2>2. Gets(s, h) /\ Ordered(s)' /\ Ordered(Peer(s))'
      BY <1>0, <2>1, Getting
    <2>3. main[s].round \in 1 .. Rounds /\ Inbox(s) # <<>>
      BY <2>1 DEF Takes
    <2>4. /\ receiver[s] = "wait" => h.size # 2
          /\ main[s].pc = "await" => h.size = 2
          /\ h.size \in {BufSize, 3, 2}
      BY <1>0, <2>3, Control
    <2>5. CASE awaitDone(s)
      <3>1. receiver' = receiver /\ main[s].pc = "await" /\ Go(s, "open")
        BY <2>5 DEF awaitDone
      <3>2. Pcs(s, "await", "open")
        BY <1>0, <3>1 DEF Go, Pcs
      <3> HIDE DEF h
      <3> QED BY <2>2, <2>4, <3>1, <3>2 DEF Handshake
    <2>6. CASE receiveData(s)
      <3>1. receiver' = receiver /\ main' = main /\ receiver[s] = "wait" /\ h.size # 3
        BY <2>6 DEF receiveData
      <3>2. h.size = BufSize
        BY <2>4, <3>1
      <3> HIDE DEF h
      <3> QED BY <2>2, <3>1, <3>2 DEF Handshake
    <2>7. CASE receiveProceed(s)
      <3>1. main' = main /\ receiver[s] = "wait" /\ h.size = 3
        BY <2>7 DEF receiveProceed
      <3>2. receiver'[s] \in {"drain", "done"}
        BY <1>0, <2>7 DEF receiveProceed
      <3> HIDE DEF h
      <3> QED BY <2>2, <3>1, <3>2 DEF Handshake
    <2> QED BY <1>5, <2>5, <2>6, <2>7
  <1> QED BY <1>1, <1>2, <1>3, <1>4, <1>5 DEF Step

LEMMA Ranks ==
  ASSUME ConstantsOK, NEW m \in Messages, m.size = BufSize => m.x \in Tuples
  PROVE  /\ Rank(m) \in Int /\ Rank(m) <= PerRound + 2
         /\ Rank(m) > PerRound + 1 => m.size = 2
         /\ Rank(m) > PerRound => m.size # BufSize
         /\ m.size = 2 => Rank(m) = PerRound + 2
         /\ m.size = 3 => Rank(m) = PerRound + 1
  <1>1. m.size \in {BufSize, 3, 2} /\ PerRound \in Nat
    BY DEF Messages, ConstantsOK
  <1>2. m.size = BufSize => m.x[3] \in 1 .. PerRound
    BY DEF Tuples
  <1> QED BY <1>1, <1>2, SMTT(30) DEF Rank, BufSize

LEMMA AllWrittenStep ==
  ASSUME ConstantsOK, Types, Types', NEW s \in Servers, \A u \in Servers : Good(u), Step(s), Next, NEW t \in Servers
  PROVE  AllWritten(t)'
  <1> DEFINE q == Peer(t)
  <1> SUFFICES ASSUME NEW m \in Transit(t)' PROVE Written(t, m)'
    BY DEF AllWritten
  <1>0. q \in Servers /\ Peer(s) \in Servers /\ Peer(Peer(s)) = s /\ (t = s \/ t = Peer(s))
    BY Peers
  <1>1. Advanced(q)
    BY <1>0, Advances
  <1>2. /\ main[q].round \in Int /\ main'[q].round \in Int
        /\ Progress(q) \in Int /\ Progress(q)' \in Int
    <2>0. /\ main \in [Servers -> [pc : MainPcs, round : 0 .. Rounds, sent : 0 .. PerRound]]
          /\ main' \in [Servers -> [pc : MainPcs, round : 0 .. Rounds, sent : 0 .. PerRound]]
      BY DEF Types
    <2>1. /\ main[q].sent \in Int /\ main'[q].sent \in Int /\ main[q].round \in Int /\ main'[q].round \in Int
      BY <1>0, <2>0, SMTT(30)
    <2> QED BY <2>1, SMTT(30) DEF Progress, ConstantsOK
  <1>3. ASSUME m \in Transit(t) PROVE Written(t, m)'
    <2>1. Written(t, m) /\ m \in Messages
      BY <1>3, Transits DEF Good, AllWritten
    <2>2. Rank(m) \in Int /\ m.round \in Int
      <3>1. m.size = BufSize => m.x \in Tuples
        BY <2>1 DEF Written
      <3> QED BY <2>1, <3>1, Ranks, SMTT(30) DEF Messages
    <2>3. m.round <= main'[q].round /\ (m.round = main'[q].round => Rank(m) <= Progress(q)')
      BY <1>1, <1>2, <2>1, <2>2, SMTT(30) DEF Advanced, Written
    <2> QED BY <2>1, <2>3 DEF Written
  <1>4. ASSUME NEW n, Tells(s, n), t = Peer(s), m = n PROVE Written(t, m)'
    <2>1. q = s
      BY <1>0, <1>4
    <2>2. /\ m.round = main[s].round /\ main'[s].round = main[s].round /\ Rank(m) <= Progress(s)'
          /\ IF m.size = BufSize THEN m.x \in Tuples /\ m.x[1] = s /\ m.x[2] = m.round ELSE m.x = <<>>
      BY <1>4 DEF Tells, Writes
    <2>3. m.round <= main'[q].round
      BY <1>2, <2>1, <2>2, SMTT(30)
    <2> QED BY <2>1, <2>2, <2>3 DEF Written
  <1>5. Handshake(s)
    BY <1>0, Shakes
  <1>6. m \in Transit(t) \/ \E n : Tells(s, n) /\ t = Peer(s) /\ m = n
    BY <1>0, <1>5 DEF Handshake, Keeps, Tells, Gets
  <1> QED BY <1>3, <1>4, <1>6

\* What a server may still write of a round.
LEMMA ReceivedStep ==
  ASSUME ConstantsOK, Types, Types', NEW s \in Servers, \A u \in Servers : Good(u), Step(s), NEW t \in Servers
  PROVE  Received(t)'
  <1> DEFINE p == Peer(s)
  <1>0. p \in Servers /\ p # s /\ Peer(p) = s /\ (t = s \/ t = p)
    BY Peers
  <1>1. main'[p] = main[p] /\ receiver'[p] = receiver[p]
    BY <1>0, Local
  <1>2. Handshake(s)
    BY <1>0, Shakes
  <1>3. /\ main[s].round \in Int /\ main[p].round \in Int
        /\ main[s].pc \in MainPcs /\ main[p].pc \in MainPcs
    <2>1. main \in [Servers -> [pc : MainPcs, round : 0 .. Rounds, sent : 0 .. PerRound]]
      BY DEF Types
    <2> QED BY <1>0, <2>1, SMTT(30)
  <1> SUFFICES ASSUME NEW m \in Transit(t)'
               PROVE  /\ main'[t].round <= m.round
                      /\ main'[t].round = m.round => main'[t].pc # "open"
                      /\ main'[t].round = m.round /\ receiver'[t] \in {"drain", "done"} => m.size = 2
    BY DEF Received
  <1>4. m \in Messages /\ m.round \in Int
    <2>1. m \in Transit(t) \/ Writes(s, m)
      BY <1>0, <1>2 DEF Handshake, Keeps, Tells, Gets
    <2>2. m \in Messages
      BY <2>1, Transits DEF Writes
    <2> QED BY <2>2, SMTT(30) DEF Messages
  <1>5. m \in Transit(t) => /\ main[t].round <= m.round
                            /\ main[t].round = m.round => main[t].pc # "open"
                            /\ main[t].round = m.round /\ receiver[t] \in {"drain", "done"} => m.size = 2
    BY DEF Good, Received
  <1> HIDE DEF p
  <1>6. CASE t = p /\ m \in Transit(t)
    BY <1>1, <1>5, <1>6
  <1>7. CASE t = p /\ m \notin Transit(t)
    <2>1. /\ Writes(s, m)
          /\ \/ main[s].pc = "route" /\ m.size = BufSize
             \/ main[s].pc = "tell" /\ m.size = 3
             \/ main[s].pc = "join" /\ m.size = 2
      BY <1>0, <1>2, <1>7 DEF Handshake, Keeps, Tells, Gets, Pcs, p
    <2>2. m.round = main[s].round
      BY <2>1 DEF Writes
    <2>3. /\ IF main[p].pc = "open" THEN Passed(s, main[p].round) ELSE Passed(s, main[p].round - 1)
          /\ receiver[p] \in {"drain", "done"} => Proceeded(s, main[p].round)
      BY <1>0 DEF Good, InStep
    <2> QED BY <1>1, <1>3, <1>7, <2>1, <2>2, <2>3, SMTT(30) DEF Passed, Proceeded
  <1>8. CASE t = s
    <2>1. m \in Transit(s)
      BY <1>0, <1>2, <1>8 DEF Handshake, Keeps, Tells, Gets
    <2>2. ASSUME NEW h, Gets(s, h), main'[s].round = main[s].round,
                 \/ main'[s].pc = main[s].pc /\ receiver'[s] = receiver[s]
                 \/ main'[s].pc = "open" /\ h.size = 2
                 \/ main'[s].pc = main[s].pc /\ h.size = 3
          PROVE  /\ main'[s].round <= m.round
                 /\ main'[s].round = m.round => main'[s].pc # "open"
                 /\ main'[s].round = m.round /\ receiver'[s] \in {"drain", "done"} => m.size = 2
      <3>1. h \in Messages /\ h.round = main[s].round /\ h \in Transit(s) /\ <<h, m>> \in MessageOrder
        BY <1>8, <2>2 DEF Gets
      <3>2. m.round = main[s].round => Rank(h) < Rank(m)
        BY <1>4, <3>1, Rounded
      <3>3. Written(s, h) /\ Written(s, m)
        BY <2>1, <3>1 DEF Good, AllWritten
      <3>4. (h.size = BufSize => h.x \in Tuples) /\ (m.size = BufSize => m.x \in Tuples)
        BY <3>3 DEF Written
      <3>5. /\ h.size = 2 => Rank(h) = PerRound + 2
            /\ h.size = 3 => Rank(h) = PerRound + 1
            /\ Rank(m) \in Int /\ Rank(m) <= PerRound + 2 /\ (Rank(m) > PerRound + 1 => m.size = 2)
        BY <1>4, <3>1, <3>4, Ranks
      <3>6. h.size = 2 => m.round # main[s].round
        BY <3>2, <3>5, SMTT(30) DEF ConstantsOK
      <3>7. h.size = 3 => (m.round = main[s].round => m.size = 2)
        BY <3>2, <3>5 DEF ConstantsOK
      <3> QED BY <1>5, <1>8, <2>1, <2>2, <3>6, <3>7
    <2>3. \/ /\ receiver'[s] = "wait" /\ main[s].pc = "open" /\ main'[s].pc = "route"
             /\ main'[s].round = main[s].round + 1
          \/ /\ receiver'[s] = receiver[s] \/ (receiver[s] = "drain" /\ receiver'[s] = "done")
             /\ main'[s].pc = "open" => main[s].pc = "open"
             /\ main'[s].round = main[s].round
          \/ \E h : /\ Gets(s, h) /\ main'[s].round = main[s].round
                    /\ \/ main'[s].pc = main[s].pc /\ receiver'[s] = receiver[s]
                       \/ main'[s].pc = "open" /\ h.size = 2
                       \/ main'[s].pc = main[s].pc /\ h.size = 3
      BY <1>2 DEF Handshake, Pcs
    <2>4. CASE \/ /\ receiver'[s] = "wait" /\ main[s].pc = "open" /\ main'[s].pc = "route"
                  /\ main'[s].round = main[s].round + 1
               \/ /\ receiver'[s] = receiver[s] \/ (receiver[s] = "drain" /\ receiver'[s] = "done")
                  /\ main'[s].pc = "open" => main[s].pc = "open"
                  /\ main'[s].round = main[s].round
      BY <1>3, <1>4, <1>5, <1>8, <2>1, <2>4, SMTT(30)
    <2> QED BY <1>8, <2>2, <2>3, <2>4
  <1> QED BY <1>0, <1>6, <1>7, <1>8

\* A "proceed" stays under way until it is received.
LEMMA ProceedsStep ==
  ASSUME ConstantsOK, Types, Types', NEW s \in Servers, \A u \in Servers : Good(u), Step(s), NEW t \in Servers
  PROVE  Proceeds(t)'
  <1> DEFINE p == Peer(s)
             q == Peer(t)
  <1>0. p \in Servers /\ p # s /\ Peer(p) = s /\ (t = s \/ t = p) /\ q \in Servers
    BY Peers
  <1>1. main'[p] = main[p] /\ receiver'[p] = receiver[p]
    BY <1>0, Local
  <1>2. Handshake(s)
    BY <1>0, Shakes
  <1>3. /\ main[t].round \in Int /\ main[q].round \in Int
        /\ main[t].pc \in MainPcs /\ main[q].pc \in MainPcs
    <2>1. main \in [Servers -> [pc : MainPcs, round : 0 .. Rounds, sent : 0 .. PerRound]]
      BY DEF Types
    <2> QED BY <1>0, <2>1, SMTT(30)
  <1> SUFFICES ASSUME NEW r \in 1 .. Rounds, Expected(t, r)', Proceeded(q, r)'
               PROVE  \E m \in Transit(t)' : m.round = r /\ m.size = 3
    BY DEF Proceeds
  <1> HIDE DEF p, q
  <1>4. Expected(t, r)
    <2>1. CASE t = p
      BY <1>1, <2>1 DEF Expected
    <2>2. CASE t = s
      BY <1>2, <1>3, <2>2, SMTT(30) DEF Expected, Handshake, Pcs
    <2> QED BY <1>0, <2>1, <2>2
  <1>5. Proceeded(q, r) \/ \E m \in Transit(t)' : m.round = r /\ m.size = 3
    <2>1. CASE t = s
      <3>1. q = p
        BY <2>1 DEF p, q
      <3> QED BY <1>1, <3>1 DEF Proceeded
    <2>2. CASE t = p
      <3>1. q = s
        BY <1>0, <2>2 DEF q
      <3>2. ASSUME NEW m, Tells(s, m), m.size = 3, Pcs(s, "tell", "join"), ~Proceeded(q, r)
            PROVE  m \in Transit(t)' /\ m.round = r /\ m.size = 3
        BY <1>3, <2>2, <3>1, <3>2 DEF Tells, Writes, Pcs, Proceeded, p
      <3>3. CASE \E m : Tells(s, m) /\ m.size = 3 /\ Pcs(s, "tell", "join")
        BY <3>2, <3>3
      <3>4. CASE \/ main'[s].pc = "route"
                 \/ {main[s].pc, main'[s].pc} \subseteq {"route", "drain", "tell"} /\ main'[s].round = main[s].round
                 \/ main'[s] = main[s] \/ Pcs(s, "join", "await") \/ Pcs(s, "await", "open")
        <4>1. CASE main[s].pc = "open" /\ main'[s].round = main[s].round + 1 /\ main'[s].pc = "route"
          BY <1>3, <3>1, <4>1, SMTT(30) DEF Proceeded
        <4>2. CASE main'[s].round = main[s].round /\ main'[s].pc = "route"
          BY <1>3, <3>1, <4>2 DEF Proceeded
        <4>3. CASE main'[s].pc # "route"
          BY <1>3, <3>1, <3>4, <4>3 DEF Proceeded, Pcs
        <4> QED BY <1>2, <3>4, <4>1, <4>2, <4>3 DEF Handshake, Pcs
      <3> QED BY <1>2, <3>3, <3>4 DEF Handshake
    <2> QED BY <1>0, <2>1, <2>2
  <1>6. ASSUME Proceeded(q, r) PROVE \E m \in Transit(t)' : m.round = r /\ m.size = 3
    <2>1. PICK m \in Transit(t) : m.round = r /\ m.size = 3
      BY <1>4, <1>6 DEF Good, Proceeds, q
    <2>2. CASE m \in Transit(t)'
      BY <2>1, <2>2
    <2>3. CASE m \notin Transit(t)'
      <3>1. t = s /\ Gets(s, m) /\ main'[s] = main[s] /\ receiver'[s] \in {"drain", "done"}
        BY <1>0, <1>2, <2>1, <2>3, SMTT(30) DEF Handshake, Keeps, Tells, Gets, Pcs, BufSize, p
      <3> QED BY <1>3, <2>1, <3>1, SMTT(30) DEF Expected, Gets
    <2> QED BY <2>2, <2>3
  <1> QED BY <1>5, <1>6

LEMMA InStepStep ==
  ASSUME ConstantsOK, Types, Types', NEW s \in Servers, \A u \in Servers : Good(u), Step(s), Next, NEW t \in Servers
  PROVE  InStep(t)'
  <1> DEFINE p == Peer(s)
             q == Peer(t)
  <1>0. p \in Servers /\ p # s /\ Peer(p) = s /\ (t = s \/ t = p) /\ q \in Servers
    BY Peers
  <1>1. main'[p] = main[p] /\ receiver'[p] = receiver[p]
    BY <1>0, Local
  <1>2. Handshake(s)
    BY <1>0, Shakes
  <1>3. /\ main[t].round \in Int /\ main[q].round \in Int /\ main[q].sent \in 0 .. PerRound
        /\ main[t].pc \in MainPcs /\ main[q].pc \in MainPcs
    <2>1. main \in [Servers -> [pc : MainPcs, round : 0 .. Rounds, sent : 0 .. PerRound]]
      BY DEF Types
    <2> QED BY <1>0, <2>1, SMTT(30)
  <1>4. /\ \A r \in Int : Passed(q, r) => Passed(q, r)'
        /\ \A r \in Int : Proceeded(q, r) => Proceeded(q, r)'
    BY <1>0, Advances DEF Advanced
  <1>5. /\ IF main[t].pc = "open" THEN Passed(q, main[t].round) ELSE Passed(q, main[t].round - 1)
        /\ receiver[t] \in {"drain", "done"} => Proceeded(q, main[t].round)
    BY <1>0 DEF Good, InStep
  <1> HIDE DEF p
  <1>6. CASE main'[t] = main[t] /\ receiver'[t] = receiver[t]
    BY <1>3, <1>4, <1>5, <1>6, SMTT(30) DEF InStep
  <1>7. ASSUME NEW h \in Transit(t), h.round = main[t].round
        PROVE  /\ h.size = 2 => Passed(q, main[t].round)
               /\ h.size = 3 => Proceeded(q, main[t].round)
    <2>1. Written(t, h)
      BY <1>7 DEF Good, AllWritten
    <2>2. /\ main[t].round <= main[q].round
          /\ main[t].round = main[q].round => Rank(h) <= Progress(q)
      BY <1>7, <2>1 DEF Written
    <2>3. h.size = 2 => Passed(q, main[t].round)
      BY <1>3, <2>2, SMTT(30) DEF Rank, Progress, Passed, ConstantsOK, MainPcs
    <2>4. h.size = 3 => Proceeded(q, main[t].round)
      BY <1>3, <2>2, SMTT(30) DEF Rank, Progress, Proceeded, ConstantsOK, MainPcs
    <2> QED BY <2>3, <2>4
  <1> HIDE DEF q
  <1>8. CASE t = s
    <2>1. /\ IF main'[t].pc = "open" THEN Passed(q, main'[t].round) ELSE Passed(q, main'[t].round - 1)
          /\ receiver'[t] \in {"drain", "done"} => Proceeded(q, main'[t].round)
      <3>1. CASE \E h : Gets(s, h) /\ h.size = 2 /\ Pcs(s, "await", "open") /\ receiver'[s] = receiver[s]
        BY <1>5, <1>7, <1>8, <3>1 DEF Gets, Pcs
      <3>2. CASE \E h : Gets(s, h) /\ h.size = 3 /\ main'[s] = main[s]
        BY <1>5, <1>7, <1>8, <3>2 DEF Gets
      <3>3. CASE \/ /\ receiver'[s] = "wait" /\ main[s].pc = "open" /\ main'[s].pc = "route"
                    /\ main'[s].round = main[s].round + 1
                 \/ /\ receiver'[s] = receiver[s] \/ (receiver[s] = "drain" /\ receiver'[s] = "done")
                    /\ main'[s].pc = "open" <=> main[s].pc = "open"
                    /\ main'[s].round = main[s].round
        BY <1>3, <1>5, <1>8, <3>3, SMTT(30)
      <3> QED BY <1>2, <3>1, <3>2, <3>3 DEF Handshake, Pcs
    <2>2. main'[t].round \in Int
      BY <1>2, <1>3, <1>8, SMTT(30) DEF Handshake, Pcs
    <2> QED BY <1>4, <2>1, <2>2, SMTT(30) DEF InStep, q
  <1> QED BY <1>0, <1>1, <1>6, <1>8 DEF p

LEMMA NoTuple ==
  ASSUME NEW x \in Tuples
  PROVE  x # <<>>
  <1>1. PICK a, b, c : x = <<a, b, c>>
    BY SMTT(30) DEF Tuples
  <1>2. <<a, b, c>> # <<>>
    OBVIOUS
  <1> QED BY <1>1, <1>2

\* The threads of a server step by step.
LEMMA PhasesStep ==
  ASSUME ConstantsOK, Types, NEW s \in Servers, Phases(s), Step(s), NEW t \in Servers, Phases(t)
  PROVE  Phases(t)'
  <1>0. /\ main \in [Servers -> [pc : MainPcs, round : 0 .. Rounds, sent : 0 .. PerRound]]
        /\ receiver \in [Servers -> {"none", "wait", "drain", "done"}]
        /\ firer \in [Servers -> [pc : {"none", "loop", "consume", "drain", "done"}, item : Items \cup {NoItem}]]
        /\ fifo \in [Servers -> [queue : Seq(Items), closing : BOOLEAN]]
        /\ closed \in [Servers -> Nat] /\ free \in [Servers -> Int]
    BY DEF Types
  <1>t. /\ main[s].pc \in MainPcs /\ main[s].round \in Nat /\ closed[s] \in Nat
        /\ receiver[s] \in {"none", "wait", "drain", "done"} /\ fifo[s].closing \in BOOLEAN
    BY <1>0, SMTT(30)
  <1>a. CASE t # s
    <2>1. /\ main'[t] = main[t] /\ firer'[t] = firer[t] /\ receiver'[t] = receiver[t]
          /\ fifo'[t] = fifo[t] /\ closed'[t] = closed[t] /\ free'[t] = free[t]
      BY <1>a, Local
    <2> QED BY <2>1 DEF Phases
  <1>1. ASSUME open(s) PROVE Phases(s)'
    <2>1. /\ main[s].pc = "open" /\ main'[s].pc = "route"
          /\ main'[s].round = main[s].round + 1 /\ receiver'[s] = "wait"
          /\ firer'[s].pc = "loop" /\ firer'[s].item = firer[s].item
          /\ closed'[s] = closed[s] /\ fifo'[s].queue = fifo[s].queue
          /\ fifo'[s].closing = FALSE
      BY <1>0, <1>1 DEF open
    <2> QED BY <1>t, <2>1, SMTT(30) DEF Phases
  <1>2. ASSUME routeLocal(s) PROVE Phases(s)'
    <2>1. /\ main[s].pc = "route" /\ main'[s].pc = "route"
          /\ main'[s].round = main[s].round /\ receiver'[s] = receiver[s]
          /\ firer'[s] = firer[s] /\ closed'[s] = closed[s]
          /\ fifo'[s].closing = fifo[s].closing
      BY <1>0, <1>2 DEF routeLocal
    <2> QED BY <1>t, <2>1, SMTT(30) DEF Phases
  <1>3. ASSUME routeRemote(s) PROVE Phases(s)'
    <2>1. /\ main[s].pc = "route" /\ main'[s].pc = "route"
          /\ main'[s].round = main[s].round /\ receiver'[s] = receiver[s]
          /\ firer'[s] = firer[s] /\ closed'[s] = closed[s] /\ fifo'[s] = fifo[s]
          /\ free'[s] = free[s]
      BY <1>0, <1>3 DEF routeRemote
    <2> QED BY <1>t, <2>1 DEF Phases
  <1>4. ASSUME close(s) PROVE Phases(s)'
    <2>0. /\ closed' = [closed EXCEPT ![s] = @ + 1] /\ receiver' = receiver /\ firer' = firer /\ free' = free
          /\ fifo' = [fifo EXCEPT ![s].closing = @ \/ closed[s] = 1]
          /\ main[s].pc = "route" /\ (Go(s, "drain") \/ Go(s, "tell"))
      BY <1>4 DEF close
    <2>1. /\ main[s].pc = "route" /\ main'[s].pc \in {"drain", "tell"}
          /\ main'[s].round = main[s].round /\ receiver'[s] = receiver[s]
          /\ firer'[s] = firer[s] /\ closed'[s] = closed[s] + 1
          /\ fifo'[s].queue = fifo[s].queue
          /\ (fifo'[s].closing <=> (fifo[s].closing \/ closed[s] = 1))
          /\ free'[s] = free[s]
      <3>1. main'[s].pc \in {"drain", "tell"} /\ main'[s].round = main[s].round
        BY <1>0, <2>0, SMTT(30) DEF Go
      <3>2. closed'[s] = closed[s] + 1
        BY <1>0, <2>0
      <3>3. fifo'[s].queue = fifo[s].queue
        BY <1>0, <2>0
      <3>4. fifo'[s].closing = (fifo[s].closing \/ closed[s] = 1)
        BY <1>0, <2>0
      <3> QED BY <2>0, <3>1, <3>2, <3>3, <3>4
    <2> QED BY <1>t, <2>1, SMTT(30) DEF Phases
  <1>5. ASSUME fifoDrained(s) PROVE Phases(s)'
    <2>1. /\ main[s].pc = "drain" /\ main'[s].pc = "tell"
          /\ main'[s].round = main[s].round /\ receiver'[s] = receiver[s]
          /\ firer'[s] = firer[s] /\ closed'[s] = closed[s] /\ fifo'[s] = fifo[s]
          /\ free'[s] = free[s]
      BY <1>0, <1>5, SMTT(30) DEF fifoDrained, Go
    <2> QED BY <1>t, <2>1 DEF Phases
  <1>6. ASSUME tellProceed(s) PROVE Phases(s)'
    <2>1. /\ main[s].pc = "tell" /\ main'[s].pc = "join"
          /\ main'[s].round = main[s].round /\ receiver'[s] = receiver[s]
          /\ firer'[s] = firer[s] /\ closed'[s] = closed[s] /\ fifo'[s] = fifo[s]
          /\ free'[s] = free[s]
      BY <1>0, <1>6 DEF tellProceed, Go
    <2> QED BY <1>t, <2>1 DEF Phases
  <1>7. ASSUME tellDone(s) PROVE Phases(s)'
    <2>1. /\ main[s].pc = "join" /\ main'[s].pc = "await"
          /\ main'[s].round = main[s].round /\ receiver'[s] = receiver[s]
          /\ receiver[s] = "done" /\ firer[s].pc = "done" /\ firer'[s] = firer[s]
          /\ closed'[s] = closed[s] /\ fifo'[s] = fifo[s] /\ free'[s] = free[s]
      BY <1>0, <1>7 DEF tellDone, Go
    <2> QED BY <1>t, <2>1 DEF Phases
  <1>8. ASSUME awaitDone(s) PROVE Phases(s)'
    <2>1. /\ main[s].pc = "await" /\ main'[s].pc = "open"
          /\ main'[s].round = main[s].round /\ receiver'[s] = receiver[s]
          /\ firer'[s] = firer[s] /\ closed'[s] = 0 /\ fifo'[s] = fifo[s]
          /\ free'[s] = free[s]
      BY <1>0, <1>8 DEF awaitDone, Go
    <2> QED BY <1>t, <2>1, SMTT(30) DEF Phases
  <1>9. ASSUME receiveData(s) PROVE Phases(s)'
    <2>1. /\ main'[s] = main[s] /\ receiver[s] = "wait" /\ receiver'[s] = receiver[s]
          /\ firer'[s] = firer[s] /\ closed'[s] = closed[s]
          /\ fifo'[s].closing = fifo[s].closing /\ free'[s] = free[s]
      BY <1>0, <1>9 DEF receiveData
    <2> QED BY <1>t, <2>1, SMTT(30) DEF Phases
  <1>10. ASSUME receiveProceed(s) PROVE Phases(s)'
    <2>1. /\ main'[s] = main[s] /\ receiver[s] = "wait"
          /\ receiver'[s] \in {"drain", "done"} /\ firer'[s] = firer[s]
          /\ closed'[s] = closed[s] + 1 /\ fifo'[s].queue = fifo[s].queue
          /\ (fifo'[s].closing <=> (fifo[s].closing \/ closed[s] = 1))
          /\ free'[s] = free[s]
      BY <1>0, <1>10 DEF receiveProceed
    <2> QED BY <1>t, <2>1, SMTT(30) DEF Phases
  <1>11. ASSUME receiverDrained(s) PROVE Phases(s)'
    <2>1. /\ main'[s] = main[s] /\ receiver[s] = "drain" /\ receiver'[s] = "done"
          /\ firer'[s] = firer[s] /\ closed'[s] = closed[s] /\ fifo'[s] = fifo[s]
          /\ free'[s] = free[s]
      BY <1>0, <1>11 DEF receiverDrained
    <2> QED BY <1>t, <2>1 DEF Phases
  <1>12. ASSUME get_ready(s) PROVE Phases(s)'
    <2>1. /\ main'[s] = main[s] /\ receiver'[s] = receiver[s] /\ closed'[s] = closed[s]
          /\ free'[s] = free[s] /\ fifo'[s].closing = fifo[s].closing
          /\ firer[s].pc = "loop"
      BY <1>0, <1>12, SMTT(30) DEF get_ready
    <2>2. CASE /\ fifo[s].queue # <<>> /\ firer'[s].pc = "consume" /\ firer'[s].item = Head(fifo[s].queue)
      <3>1. fifo[s].queue \in Seq(Items)
        BY <1>0
      <3>2. Head(fifo[s].queue) \in Items
        BY <2>2, <3>1, SMTT(30)
      <3>3. Head(fifo[s].queue) # NoItem
        BY <3>2, NoTuple, SMTT(30) DEF Items, NoItem
      <3>4. fifo[s].queue # <<>> /\ firer'[s].pc = "consume" /\ firer'[s].item # NoItem
        BY <2>2, <3>3
      <3> QED BY <1>t, <2>1, <3>4 DEF Phases
    <2>3. CASE /\ fifo[s].queue = <<>> /\ fifo[s].closing /\ firer'[s].pc = "drain" /\ firer'[s].item = firer[s].item
               /\ fifo'[s].queue = fifo[s].queue
      BY <1>t, <2>1, <2>3 DEF Phases
    <2> QED BY <1>0, <1>12, <2>2, <2>3, SMTT(30) DEF get_ready
  <1>13. ASSUME freeBuffer(s) PROVE Phases(s)'
    <2>1. /\ main'[s] = main[s] /\ receiver'[s] = receiver[s] /\ closed'[s] = closed[s]
          /\ fifo'[s] = fifo[s] /\ firer[s].pc = "consume" /\ firer'[s].pc = "loop"
          /\ firer'[s].item = NoItem
      BY <1>0, <1>13 DEF freeBuffer
    <2> QED BY <1>t, <2>1 DEF Phases
  <1>14. ASSUME drain(s) PROVE Phases(s)'
    <2>1. /\ main'[s] = main[s] /\ receiver'[s] = receiver[s] /\ closed'[s] = closed[s]
          /\ fifo'[s] = fifo[s] /\ firer[s].pc = "drain" /\ firer'[s].pc = "done"
          /\ firer'[s].item = firer[s].item /\ free'[s] = 0
      BY <1>0, <1>14 DEF drain
    <2> QED BY <1>t, <2>1 DEF Phases
  <1>15. ASSUME Publish(s) PROVE Phases(s)'
    <2>1. /\ main'[s] = main[s] /\ receiver'[s] = receiver[s] /\ closed'[s] = closed[s]
          /\ fifo'[s] = fifo[s] /\ firer'[s] = firer[s] /\ free'[s] = free[s]
      BY <1>0, <1>15 DEF Publish
    <2> QED BY <1>t, <2>1 DEF Phases
  <1> QED BY <1>a, <1>1, <1>2, <1>3, <1>4, <1>5, <1>6, <1>7, <1>8, <1>9, <1>10, <1>11, <1>12, <1>13, <1>14, <1>15 DEF Step

LEMMA InitIInv ==
  ASSUME ConstantsOK, Init
  PROVE  IInv
  <1>1. Types
    <2>1. MainTypes
      BY SMTT(30) DEF Init, MainTypes, MainPcs, ConstantsOK
    <2>2. FirerTypes
      BY DEF Init, FirerTypes
    <2>3. FifoTypes
      BY SMTT(30) DEF Init, FifoTypes
    <2>4. NetTypes
      BY SMTT(30) DEF Init, NetTypes
    <2>5. /\ receiver \in [Servers -> {"none", "wait", "drain", "done"}]
          /\ free \in [Servers -> Int] /\ closed \in [Servers -> Nat] /\ blocks \in [Servers -> Int]
          /\ consumed \in SUBSET Tuples
      BY SMTT(30) DEF Init
    <2> QED BY <2>1, <2>2, <2>3, <2>4, <2>5, Typed
  <1>2. ASSUME NEW s \in Servers PROVE Good(s)
    <2>0. Peer(s) \in Servers
      BY Peers
    <2>1. wire[s] = <<>> /\ \A r \in 1 .. Rounds : sub[s][r] = <<>>
      BY DEF Init
    <2>2. Elems(<<>>) = {} /\ \A R : Sorted(<<>>, R)
      BY SMTT(30) DEF Elems, Sorted
    <2>3. Transit(s) = {}
      BY <2>1, <2>2 DEF Transit
    <2>4. Ordered(s)
      BY <2>1, <2>2 DEF Ordered
    <2>5. /\ main[s].pc = "open" /\ main[s].round = 0 /\ receiver[s] = "none" /\ closed[s] = 0
          /\ main[Peer(s)].pc = "open" /\ main[Peer(s)].round = 0 /\ free[s] = 0
          /\ firer[s].pc = "none" /\ firer[s].item = NoItem /\ fifo[s].queue = <<>>
      BY <2>0 DEF Init
    <2>6. Proceeds(s)
      BY <2>5, SMTT(30) DEF Proceeds, Proceeded
    <2>7. Phases(s)
      BY <2>5, SMTT(30) DEF Phases
    <2>8. InStep(s)
      BY <2>5 DEF InStep, Passed
    <2> QED BY <2>3, <2>4, <2>6, <2>7, <2>8 DEF Good, AllWritten, Received
  <1> QED BY <1>1, <1>2 DEF IInv, Good

LEMMA NextIInv ==
  ASSUME ConstantsOK, IInv, [Next]_vars
  PROVE  IInv'
  <1>1. CASE Next
    <2>1. Types /\ \A t \in Servers : Good(t)
      BY DEF IInv, Good
    <2>2. PICK s \in Servers : Step(s)
      BY <1>1, Steps
    <2>3. Types'
      BY <1>1, <2>1, TypesStep
    <2>4. ASSUME NEW t \in Servers PROVE Good(t)'
      <3>1. Ordered(t)'
        BY <2>1, <2>2, Shakes, Peers
      <3>2. Phases(t)'
        BY <2>1, <2>2, PhasesStep DEF Good
      <3> QED BY <1>1, <2>1, <2>2, <2>3, <3>1, <3>2,
                 AllWrittenStep, ReceivedStep, ProceedsStep, InStepStep DEF Good
    <2> QED BY <2>3, <2>4 DEF IInv, Good
  <1>2. CASE UNCHANGED vars
    <2>1. /\ main' = main /\ firer' = firer /\ receiver' = receiver /\ free' = free /\ fifo' = fifo
          /\ closed' = closed /\ sub' = sub /\ wire' = wire /\ blocks' = blocks /\ consumed' = consumed
      BY <1>2 DEF vars
    <2>2. Types'
      BY <2>1 DEF IInv, Types
    <2>3. ASSUME NEW t \in Servers PROVE Good(t)'
      <3>1. Good(t)
        BY DEF IInv, Good
      <3>2. Transit(t)' = Transit(t) /\ Ordered(t)'
        BY <2>1, <3>1 DEF Transit, Good, Ordered
      <3>3. AllWritten(t)' /\ Received(t)' /\ Proceeds(t)' 
        BY <2>1, <3>1, <3>2 DEF Good, AllWritten, Written, Received, Proceeds, Expected, Proceeded, Progress
      <3>4. Phases(t)' /\ InStep(t)'
        BY <2>1, <3>1 DEF Good, Phases, InStep, Passed, Proceeded
      <3> QED BY <3>2, <3>3, <3>4 DEF Good
    <2> QED BY <2>2, <2>3 DEF IInv, Good
  <1> QED BY <1>1, <1>2

LEMMA Invariant ==
  ASSUME ConstantsOK
  PROVE  Spec => []IInv
  <1>1. Init => IInv
    BY InitIInv
  <1>2. IInv /\ [Next]_vars => IInv'
    BY NextIInv
  <1> QED BY <1>1, <1>2, PTL DEF Spec

\* The assertions of router-scaleout.cpp:89 and 178, for every number of buffers,
\* tuples and queries: fire_receive() never meets the peer's "done", and close()
\* finds nothing else when it waits for it, however the two servers and the
\* messages between them are interleaved.
THEOREM HandshakeInOrder ==
  ASSUME ConstantsOK
  PROVE  Spec => []ControlInOrder
  <1>1. ASSUME IInv PROVE ControlInOrder
    <2> SUFFICES ASSUME NEW s \in Servers, main[s].round > 0, Inbox(s) # <<>>
                 PROVE  /\ receiver[s] = "wait" => Head(Inbox(s)).size # 2
                        /\ main[s].pc = "await" => Head(Inbox(s)).size = 2
      BY DEF ControlInOrder
    <2>1. Types /\ Ordered(s) /\ AllWritten(s) /\ Received(s) /\ Proceeds(s) /\ Phases(s)
      BY <1>1 DEF IInv
    <2>2. main[s].round \in 1 .. Rounds
      BY <2>1, SMTT(30) DEF Types, ConstantsOK
    <2> QED BY <2>1, <2>2, Control
  <1> QED BY <1>1, Invariant, PTL

-----------------------------------------------------------------------------
(* Received blocks *)

\* n items of the queue are received blocks: f counts them from its head.
One(b) == IF b THEN 1 ELSE 0
Counts(f, q) ==
  /\ f \in [0 .. Len(q) -> Int] /\ f[0] = 0
  /\ \A i \in 1 .. Len(q) : f[i] = f[i - 1] + One(q[i].remote)
Remotes(q, n) == \E f : Counts(f, q) /\ f[Len(q)] = n

\* The received blocks are in the subscriptions of this round and the next, in
\* the queue or in use.
Kept(s, r) == IF r \in 1 .. Rounds THEN Len(sub[s][r]) ELSE 0
Held(s, n) == n + One(firer[s].item.remote) + Kept(s, main[s].round) + Kept(s, main[s].round + 1)
Blocks(s) == \E n \in Int : Remotes(fifo[s].queue, n) /\ blocks[s] = Held(s, n)

LEMMA RemoteEmpty == \A n : Remotes(<<>>, n) <=> n = 0
  <1>1. Len(<<>>) = 0
    OBVIOUS
  <1>2. ASSUME NEW n, Remotes(<<>>, n) PROVE n = 0
    BY <1>1, <1>2 DEF Remotes, Counts
  <1>3. Remotes(<<>>, 0)
    <2> DEFINE f == [i \in 0 .. 0 |-> 0]
    <2>1. f \in [0 .. 0 -> Int] /\ f[0] = 0
      BY SMTT(30)
    <2>2. Counts(f, <<>>)
      BY <1>1, <2>1, SMTT(30) DEF Counts
    <2> HIDE DEF f
    <2> QED BY <1>1, <2>1, <2>2 DEF Remotes
  <1> QED BY <1>2, <1>3

LEMMA RemoteAppended ==
  ASSUME NEW q \in Seq(Items), NEW e \in Items, NEW n \in Int, Remotes(q, n)
  PROVE  Remotes(Append(q, e), n + One(e.remote))
  <1> DEFINE a == Append(q, e)
             k == Len(q) + 1
  <1>1. Len(q) \in Nat /\ Len(a) = k /\ a[k] = e /\ \A i \in 1 .. Len(q) : a[i] = q[i]
    BY SMTT(30)
  <1> HIDE DEF a
  <1>2. PICK f : Counts(f, q) /\ f[Len(q)] = n
    BY DEF Remotes
  <1>3. One(e.remote) \in Int
    BY SMTT(30) DEF One
  <1> DEFINE g == [i \in 0 .. k |-> IF i = k THEN n + One(e.remote) ELSE f[i]]
  <1>4. g \in [0 .. k -> Int] /\ g[0] = 0 /\ g[k] = n + One(e.remote)
    BY <1>1, <1>2, <1>3, SMTT(30) DEF Counts
  <1>5. ASSUME NEW i \in 1 .. k PROVE g[i] = g[i - 1] + One(a[i].remote)
    <2>1. CASE i = k
      BY <1>1, <1>2, <2>1, SMTT(30)
    <2>2. CASE i # k
      <3>1. i \in 1 .. Len(q) /\ g[i] = f[i] /\ g[i - 1] = f[i - 1] /\ a[i] = q[i]
        BY <1>1, <2>2, SMTT(30)
      <3> QED BY <1>2, <3>1 DEF Counts
    <2> QED BY <2>1, <2>2
  <1> HIDE DEF g
  <1>6. Counts(g, a)
    BY <1>1, <1>4, <1>5 DEF Counts
  <1> QED BY <1>1, <1>4, <1>6 DEF Remotes, a

LEMMA RemotePopped ==
  ASSUME NEW q \in Seq(Items), q # <<>>, NEW n \in Int, Remotes(q, n)
  PROVE  Remotes(Tail(q), n - One(Head(q).remote))
  <1> DEFINE t == Tail(q)
             o == One(Head(q).remote)
  <1>1. Len(q) \in Nat \ {0} /\ Len(t) = Len(q) - 1 /\ Head(q) = q[1] /\ \A i \in 1 .. Len(t) : t[i] = q[i + 1]
    BY SMTT(30)
  <1> HIDE DEF t
  <1>2. PICK f : Counts(f, q) /\ f[Len(q)] = n
    BY DEF Remotes
  <1>3. o \in Int
    BY SMTT(30) DEF One
  <1>4. f[1] = o
    BY <1>1, <1>2, <1>3, SMTT(30) DEF Counts
  <1> HIDE DEF o
  <1> DEFINE g == [i \in 0 .. Len(t) |-> f[i + 1] - o]
  <1>5. g \in [0 .. Len(t) -> Int] /\ g[0] = 0 /\ g[Len(t)] = n - o
    BY <1>1, <1>2, <1>3, <1>4, SMTT(30) DEF Counts
  <1>6. ASSUME NEW i \in 1 .. Len(t) PROVE g[i] = g[i - 1] + One(t[i].remote)
    <2>1. /\ i + 1 \in 1 .. Len(q) /\ (i + 1) - 1 = i /\ (i - 1) + 1 = i /\ t[i] = q[i + 1]
          /\ i \in 0 .. Len(q) /\ i - 1 \in 0 .. Len(t)
      BY <1>1, SMTT(30)
    <2>2. g[i] = f[i + 1] - o /\ g[i - 1] = f[i] - o
      BY <2>1, SMTT(30)
    <2>3. f[i + 1] = f[i] + One(t[i].remote) /\ f[i] \in Int /\ One(t[i].remote) \in Int
      BY <1>2, <2>1, SMTT(30) DEF Counts, One
    <2> QED BY <1>3, <2>2, <2>3, SMTT(30)
  <1> HIDE DEF g
  <1>7. Counts(g, t)
    BY <1>1, <1>5, <1>6 DEF Counts
  <1> QED BY <1>5, <1>7 DEF Remotes, t, o

\* The messages under way are of the round of the server or of the next one.
LEMMA Near ==
  ASSUME ConstantsOK, Types, NEW s \in Servers, Good(s), Good(Peer(s)), NEW m \in Transit(s)
  PROVE  /\ m.round \in 1 .. Rounds /\ main[s].round <= m.round /\ m.round <= main[s].round + 1
         /\ main[s].pc = "open" => m.round = main[s].round + 1
  <1> DEFINE p == Peer(s)
  <1>0. p \in Servers /\ Peer(p) = s
    BY Peers
  <1>1. m \in Messages /\ m.round \in 1 .. Rounds
    BY Transits DEF Messages
  <1>2. main[s].round \in Int /\ main[p].round \in Int
    <2>1. main \in [Servers -> [pc : MainPcs, round : 0 .. Rounds, sent : 0 .. PerRound]]
      BY DEF Types
    <2> QED BY <1>0, <2>1, SMTT(30)
  <1>3. main[s].round <= m.round /\ (main[s].round = m.round => main[s].pc # "open")
    BY DEF Good, Received
  <1>4. m.round <= main[p].round
    BY DEF Good, AllWritten, Written
  <1>5. IF main[p].pc = "open" THEN Passed(s, main[p].round) ELSE Passed(s, main[p].round - 1)
    BY <1>0 DEF Good, InStep
  <1>6. main[p].round <= main[s].round + 1
    BY <1>2, <1>5, SMTT(30) DEF Passed
  <1> QED BY <1>1, <1>2, <1>3, <1>4, <1>6, SMTT(30)

LEMMA KeptNear ==
  ASSUME ConstantsOK, Types, NEW s \in Servers, Good(s), Good(Peer(s)), NEW r \in Int
  PROVE  /\ Kept(s, r) \in Nat
         /\ r < main[s].round \/ main[s].round + 1 < r => Kept(s, r) = 0
         /\ r = main[s].round /\ main[s].pc = "open" => Kept(s, r) = 0
  <1>1. CASE r \notin 1 .. Rounds
    BY <1>1 DEF Kept
  <1>2. CASE r \in 1 .. Rounds
    <2> DEFINE q == sub[s][r]
    <2>1. q \in Seq(Messages)
      BY <1>2, Queues
    <2>2. Kept(s, r) = Len(q)
      BY <1>2 DEF Kept
    <2>3. CASE Len(q) = 0
      BY <2>2, <2>3, SMTT(30)
    <2>4. CASE Len(q) # 0
      <3> HIDE DEF q
      <3>1. Len(q) \in Nat /\ 1 \in 1 .. Len(q)
        BY <2>1, <2>4, SMTT(30)
      <3>2. q[1] \in Elems(q)
        BY <3>1 DEF Elems
      <3>3. q[1] \in Transit(s) /\ q[1].round = r
        BY <1>2, <3>2 DEF Transit, q, Good, Ordered
      <3>4. main[s].round \in Int
        BY SMTT(30) DEF Types
      <3> QED BY <2>2, <3>1, <3>3, <3>4, Near, SMTT(30)
    <2> QED BY <2>3, <2>4
  <1> QED BY <1>1, <1>2

\* What publishing and taking a message do to the lengths of the subscriptions.
LEMMA KeptPublished ==
  ASSUME ConstantsOK, Types, NEW s \in Servers, Good(s), Good(Peer(s)), Publish(s)
  PROVE  /\ Kept(s, main[s].round)' \in Int /\ Kept(s, main[s].round + 1)' \in Int
         /\ Kept(s, main[s].round)' + Kept(s, main[s].round + 1)'
              = Kept(s, main[s].round) + Kept(s, main[s].round + 1) + 1
  <1> DEFINE h == Head(wire[s])
  <1>c. PICK c, k : c = main[s].round /\ k = h.round
    OBVIOUS
  <1>1. wire[s] \in Seq(Messages) /\ wire[s] # <<>>
    BY Queues DEF Publish
  <1>2. h \in Elems(wire[s])
    BY <1>1, Popped
  <1>3. h \in Transit(s)
    BY <1>2 DEF Transit
  <1>4. k \in 1 .. Rounds /\ (k = c \/ k = c + 1) /\ c \in Int
    <2>1. c \in Int
      BY <1>c, SMTT(30) DEF Types
    <2> QED BY <1>3, <1>c, <2>1, Near, SMTT(30)
  <1>5. /\ sub'[s][k] = Append(sub[s][k], h) /\ main' = main
        /\ \A r \in 1 .. Rounds : r # k => sub'[s][r] = sub[s][r]
    BY <1>4, <1>c DEF Publish, Types
  <1>6. sub[s][k] \in Seq(Messages) /\ h \in Messages
    BY <1>3, <1>4, Queues, Transits
  <1> HIDE DEF h
  <1>7. Len(sub'[s][k]) = Len(sub[s][k]) + 1
    BY <1>5, <1>6, SMTT(30)
  <1>8. /\ \A r \in Int : r # k => Kept(s, r)' = Kept(s, r)
        /\ Kept(s, k)' = Kept(s, k) + 1
    BY <1>4, <1>5, <1>7 DEF Kept
  <1>9. Kept(s, c) \in Nat /\ Kept(s, c + 1) \in Nat
    BY <1>4, KeptNear, SMTT(30)
  <1>10. Kept(s, c)' \in Int /\ Kept(s, c + 1)' \in Int /\ Kept(s, c)' + Kept(s, c + 1)' = Kept(s, c) + Kept(s, c + 1) + 1
    BY <1>4, <1>8, <1>9, SMTT(30)
  <1>11. main'[s].round = c
    BY <1>5, <1>c
  <1> QED BY <1>10, <1>11, <1>c

LEMMA KeptTaken ==
  ASSUME ConstantsOK, Types, NEW s \in Servers, Good(s), Good(Peer(s)), Takes(s), main'[s].round = main[s].round
  PROVE  /\ Kept(s, main[s].round)' \in Int /\ Kept(s, main[s].round + 1)' \in Int
         /\ Kept(s, main[s].round)' + Kept(s, main[s].round + 1)'
              = Kept(s, main[s].round) + Kept(s, main[s].round + 1) - 1
  <1>c. PICK k : k = main[s].round
    OBVIOUS
  <1>1. k \in 1 .. Rounds /\ sub[s][k] # <<>> /\ sub[s][k] \in Seq(Messages)
    BY <1>c, Queues DEF Takes, Inbox
  <1>2. /\ sub'[s][k] = Tail(sub[s][k])
        /\ \A r \in 1 .. Rounds : r # k => sub'[s][r] = sub[s][r]
    BY <1>1, <1>c DEF Takes, PopInbox, Types
  <1>3. Len(sub'[s][k]) = Len(sub[s][k]) - 1
    BY <1>1, <1>2, SMTT(30)
  <1>4. Kept(s, k)' = Kept(s, k) - 1 /\ Kept(s, k + 1)' = Kept(s, k + 1)
    BY <1>1, <1>2, <1>3, SMTT(30) DEF Kept
  <1>5. Kept(s, k) \in Nat /\ Kept(s, k + 1) \in Nat
    BY <1>1, KeptNear, SMTT(30)
  <1>6. Kept(s, k)' \in Int /\ Kept(s, k + 1)' \in Int /\ Kept(s, k)' + Kept(s, k + 1)' = Kept(s, k) + Kept(s, k + 1) - 1
    BY <1>4, <1>5, SMTT(30)
  <1>7. main'[s].round = k
    BY <1>c
  <1> QED BY <1>6, <1>7, <1>c

LEMMA BlocksStep ==
  ASSUME ConstantsOK, Types, NEW s \in Servers, \A u \in Servers : Good(u) /\ Blocks(u), Step(s), NEW t \in Servers
  PROVE  Blocks(t)'
  <1>0. /\ main \in [Servers -> [pc : MainPcs, round : 0 .. Rounds, sent : 0 .. PerRound]]
        /\ firer \in [Servers -> [pc : {"none", "loop", "consume", "drain", "done"}, item : Items \cup {NoItem}]]
        /\ fifo \in [Servers -> [queue : Seq(Items), closing : BOOLEAN]]
        /\ blocks \in [Servers -> Int]
        /\ sub \in [Servers -> [1 .. Rounds -> Seq(Messages)]]
    BY DEF Types
  <1>g. Good(s) /\ Good(Peer(s)) /\ Phases(s)
    BY Peers DEF Good
  <1>p. PICK c : c = main[s].round
    OBVIOUS
  <1>t. c \in Int /\ fifo[s].queue \in Seq(Items) /\ blocks[s] \in Int
    BY <1>0, <1>p, SMTT(30)
  <1>o. \A x : One(x) \in Int
    BY SMTT(30) DEF One
  <1>k. Kept(s, c) \in Nat /\ Kept(s, c + 1) \in Nat
    BY <1>g, <1>t, KeptNear, SMTT(30)
  <1>b. PICK n \in Int : /\ Remotes(fifo[s].queue, n)
                        /\ blocks[s] = n + One(firer[s].item.remote) + Kept(s, c) + Kept(s, c + 1)
    BY <1>p DEF Blocks, Held
  <1>w. ASSUME NEW k \in Int, Remotes(fifo'[s].queue, k),
               blocks'[s] = k + One(firer'[s].item.remote) + Kept(s, main[s].round)' + Kept(s, main[s].round + 1)'
        PROVE  Blocks(s)'
    BY <1>w DEF Blocks, Held
  \* a queue, an item and a subscription that stay
  <1>q. fifo'[s].queue = fifo[s].queue => Remotes(fifo'[s].queue, n)
    BY <1>b
  <1>s. sub' = sub => \A r \in Int, u \in Servers : Kept(u, r)' = Kept(u, r)
    BY DEF Kept
  <1>a. CASE t # s
    <2>1. main'[t] = main[t] /\ firer'[t] = firer[t] /\ fifo'[t] = fifo[t] /\ blocks'[t] = blocks[t]
      BY <1>a, Local
    <2>2. sub'[t] = sub[t]
      BY <1>0, <1>a DEF Step, open, routeLocal, routeRemote, close, fifoDrained, tellProceed, tellDone,
             awaitDone, receiveData, receiveProceed, receiverDrained, get_ready, freeBuffer, drain, Publish, PopInbox
    <2>3. Kept(t, main[t].round)' = Kept(t, main[t].round) /\ Kept(t, main[t].round + 1)' = Kept(t, main[t].round + 1)
      BY <2>1, <2>2 DEF Kept
    <2>4. PICK k \in Int : Remotes(fifo[t].queue, k) /\ blocks[t] = Held(t, k)
      BY DEF Blocks
    <2>5. Held(t, k)' = Held(t, k)
      BY <2>1, <2>3 DEF Held
    <2> QED BY <2>1, <2>4, <2>5 DEF Blocks
  <1>1. ASSUME open(s) PROVE Blocks(s)'
    <2>1. main'[s].round = c + 1 /\ main[s].pc = "open"
      BY <1>0, <1>1, <1>p DEF open
    <2>2. fifo'[s].queue = fifo[s].queue /\ firer'[s].item = firer[s].item /\ sub' = sub /\ blocks' = blocks
      BY <1>0, <1>1 DEF open
    <2>3. Kept(s, c) = 0 /\ Kept(s, c + 2) = 0
      <3>1. c + 2 \in Int /\ main[s].round + 1 < c + 2 /\ c = main[s].round
        BY <1>p, <1>t, SMTT(30)
      <3>2. Kept(s, c + 2) = 0
        BY <1>g, <3>1, KeptNear
      <3>3. Kept(s, c) = 0
        BY <1>g, <1>t, <2>1, <3>1, KeptNear
      <3> QED BY <3>2, <3>3
    <2>4. /\ Kept(s, c + 1)' = Kept(s, c + 1) /\ Kept(s, c + 2)' = 0
      BY <1>s, <1>t, <2>2, <2>3, SMTT(30)
    <2>5. Kept(s, main[s].round)' = Kept(s, c + 1) /\ Kept(s, main[s].round + 1)' = 0
      <3>1. main'[s].round + 1 = c + 2
        BY <1>t, <2>1, SMTT(30)
      <3> QED BY <2>1, <2>4, <3>1
    <2>6. blocks'[s] = n + One(firer'[s].item.remote) + Kept(s, main[s].round)' + Kept(s, main[s].round + 1)'
      BY <1>b, <1>k, <1>o, <2>2, <2>3, <2>5, SMTT(30)
    <2> QED BY <1>b, <1>q, <1>w, <2>2, <2>6
  <1>2. ASSUME routeLocal(s) PROVE Blocks(s)'
    <2>1. main'[s].round = c /\ firer' = firer /\ sub' = sub /\ blocks' = blocks
      BY <1>0, <1>2, <1>p DEF routeLocal
    <2> DEFINE e == [x |-> Fresh(s), remote |-> FALSE]
    <2>2. fifo'[s].queue = Append(fifo[s].queue, e)
      BY <1>0, <1>2 DEF routeLocal, Fresh
    <2>3. e \in Items /\ e.remote = FALSE
      BY <1>2, <1>g, FreshTuple DEF routeLocal
    <2> HIDE DEF e
    <2>4. Remotes(fifo'[s].queue, n)
      <3>1. Remotes(fifo'[s].queue, n + One(e.remote))
        BY <1>b, <1>t, <2>2, <2>3, RemoteAppended
      <3>2. n + One(e.remote) = n
        BY <2>3, SMTT(30) DEF One
      <3> QED BY <3>1, <3>2
    <2>5. Kept(s, main[s].round)' = Kept(s, c) /\ Kept(s, main[s].round + 1)' = Kept(s, c + 1)
      BY <1>s, <1>t, <2>1, SMTT(30)
    <2> QED BY <1>b, <1>w, <2>1, <2>4, <2>5
  <1>3. ASSUME routeRemote(s) \/ close(s) \/ fifoDrained(s) \/ tellProceed(s) \/ tellDone(s)
               \/ receiverDrained(s) \/ drain(s)
        PROVE  Blocks(s)'
    <2>1. sub' = sub /\ blocks' = blocks
      BY <1>3 DEF routeRemote, close, fifoDrained, tellProceed, tellDone, receiverDrained, drain
    <2>2. main'[s].round = c
      BY <1>0, <1>3, <1>p, SMTT(30) DEF routeRemote, close, fifoDrained, tellProceed, tellDone, receiverDrained, drain, Go
    <2>3. firer'[s].item = firer[s].item
      BY <1>0, <1>3, SMTT(30) DEF routeRemote, close, fifoDrained, tellProceed, tellDone, receiverDrained, drain
    <2>4. fifo'[s].queue = fifo[s].queue
      BY <1>0, <1>3, SMTT(30) DEF routeRemote, close, fifoDrained, tellProceed, tellDone, receiverDrained, drain
    <2>5. Kept(s, main[s].round)' = Kept(s, c) /\ Kept(s, main[s].round + 1)' = Kept(s, c + 1)
      BY <1>s, <1>t, <2>1, <2>2, SMTT(30)
    <2> QED BY <1>b, <1>q, <1>w, <2>1, <2>3, <2>4, <2>5
  <1>4. ASSUME awaitDone(s) \/ receiveData(s) \/ receiveProceed(s) PROVE Blocks(s)'
    <2>1. main'[s].round = c
      BY <1>0, <1>4, <1>p, SMTT(30) DEF awaitDone, receiveData, receiveProceed, Go
    <2>2. Takes(s)
      BY <1>4, <1>g, Taking
    <2>3. /\ Kept(s, main[s].round)' \in Int /\ Kept(s, main[s].round + 1)' \in Int
          /\ Kept(s, main[s].round)' + Kept(s, main[s].round + 1)' = Kept(s, c) + Kept(s, c + 1) - 1
      BY <1>g, <1>p, <2>1, <2>2, KeptTaken
    <2>4. firer' = firer
      BY <1>4 DEF awaitDone, receiveData, receiveProceed
    <2>5. CASE awaitDone(s) \/ receiveProceed(s)
      <3>1. blocks'[s] = blocks[s] - 1
        BY <1>0, <2>5 DEF awaitDone, receiveProceed
      <3>2. fifo'[s].queue = fifo[s].queue
        BY <1>0, <2>5, SMTT(30) DEF awaitDone, receiveProceed
      <3>3. blocks'[s] = n + One(firer'[s].item.remote) + Kept(s, main[s].round)' + Kept(s, main[s].round + 1)'
        BY <1>b, <1>k, <1>o, <2>3, <2>4, <3>1, SMTT(30)
      <3> QED BY <1>b, <1>q, <1>w, <3>2, <3>3
    <2>6. CASE receiveData(s)
      <3>1. Head(Inbox(s)) \in Transit(s) /\ receiver[s] = "wait" /\ Head(Inbox(s)).size # 3
        BY <1>g, <2>2, <2>6, HeadFirst DEF Takes, receiveData, Good
      <3>2. Head(Inbox(s)).size = BufSize
        BY <1>g, <2>2, <3>1, Control DEF Takes, Good
      <3> DEFINE e == [x |-> Head(Inbox(s)).x, remote |-> TRUE]
      <3>3. blocks' = blocks /\ fifo'[s].queue = Append(fifo[s].queue, e)
        BY <1>0, <2>6 DEF receiveData
      <3>4. e \in Items /\ e.remote = TRUE
        BY <1>g, <3>1, <3>2, DataTuple DEF Good
      <3> HIDE DEF e
      <3>5. Remotes(fifo'[s].queue, n + 1) /\ n + 1 \in Int
        <4>1. Remotes(fifo'[s].queue, n + One(e.remote))
          BY <1>b, <1>t, <3>3, <3>4, RemoteAppended
        <4>2. n + One(e.remote) = n + 1 /\ n + 1 \in Int
          BY <1>b, <3>4, SMTT(30) DEF One
        <4> QED BY <4>1, <4>2
      <3>6. blocks'[s] = (n + 1) + One(firer'[s].item.remote) + Kept(s, main[s].round)' + Kept(s, main[s].round + 1)'
        <4>1. /\ One(firer'[s].item.remote) = One(firer[s].item.remote) /\ blocks'[s] = blocks[s]
              /\ One(firer[s].item.remote) \in Int
          BY <1>o, <2>4, <3>3
        <4> QED BY <1>b, <1>k, <2>3, <4>1, SMTT(30)
      <3> QED BY <1>w, <3>5, <3>6
    <2> QED BY <1>4, <2>5, <2>6
  <1>5. ASSUME Publish(s) PROVE Blocks(s)'
    <2>1. /\ Kept(s, main[s].round)' \in Int /\ Kept(s, main[s].round + 1)' \in Int
          /\ Kept(s, main[s].round)' + Kept(s, main[s].round + 1)' = Kept(s, c) + Kept(s, c + 1) + 1
      BY <1>5, <1>g, <1>p, KeptPublished
    <2>2. firer' = firer /\ fifo' = fifo
      BY <1>5 DEF Publish
    <2>3. blocks'[s] = blocks[s] + 1
      BY <1>0, <1>5 DEF Publish
    <2>4. blocks'[s] = n + One(firer'[s].item.remote) + Kept(s, main[s].round)' + Kept(s, main[s].round + 1)'
      BY <1>b, <1>k, <1>o, <2>1, <2>2, <2>3, SMTT(30)
    <2> QED BY <1>b, <1>q, <1>w, <2>2, <2>4
  <1>6. ASSUME get_ready(s) \/ freeBuffer(s) PROVE Blocks(s)'
    <2>1. main' = main /\ sub' = sub
      BY <1>6 DEF get_ready, freeBuffer
    <2>2. Kept(s, main[s].round)' = Kept(s, c) /\ Kept(s, main[s].round + 1)' = Kept(s, c + 1)
      BY <1>p, <1>s, <1>t, <2>1, SMTT(30)
    <2>3. firer[s].pc # "consume" => firer[s].item = NoItem
      BY <1>g DEF Phases
    <2>4. CASE fifo'[s].queue = fifo[s].queue /\ blocks' = blocks /\ firer'[s].item = firer[s].item
      BY <1>b, <1>q, <1>w, <2>2, <2>4
    <2>5. CASE /\ get_ready(s) /\ fifo[s].queue # <<>> /\ fifo'[s].queue = Tail(fifo[s].queue)
               /\ firer'[s].item = Head(fifo[s].queue)
      <3>1. One(firer[s].item.remote) = 0 /\ blocks' = blocks
        BY <2>3, <2>5, SMTT(30) DEF get_ready, NoItem, One
      <3>2. PICK o : o = One(firer'[s].item.remote) /\ o \in Int
        BY <1>o
      <3>3. Remotes(fifo'[s].queue, n - o) /\ n - o \in Int
        BY <1>b, <1>t, <2>5, <3>2, RemotePopped, SMTT(30)
      <3>4. blocks'[s] = (n - o) + One(firer'[s].item.remote) + Kept(s, main[s].round)' + Kept(s, main[s].round + 1)'
        BY <1>b, <1>k, <2>2, <3>1, <3>2, SMTT(30)
      <3> QED BY <1>w, <3>3, <3>4
    <2>6. CASE freeBuffer(s)
      <3>1. fifo' = fifo /\ One(firer'[s].item.remote) = 0
        BY <1>0, <2>6 DEF freeBuffer, NoItem, One
      <3>2. blocks'[s] = blocks[s] - One(firer[s].item.remote)
        BY <1>0, <1>t, <2>6, SMTT(30) DEF freeBuffer, One
      <3>3. blocks'[s] = n + One(firer'[s].item.remote) + Kept(s, main[s].round)' + Kept(s, main[s].round + 1)'
        BY <1>b, <1>k, <1>o, <2>2, <3>1, <3>2, SMTT(30)
      <3> QED BY <1>b, <1>q, <1>w, <3>1, <3>3
    <2>7. CASE get_ready(s)
      <3>1. CASE fifo[s].queue # <<>>
        <4>1. /\ firer' = [firer EXCEPT ![s] = [pc |-> "consume", item |-> Head(fifo[s].queue)]]
              /\ fifo' = [fifo EXCEPT ![s].queue = Tail(@)]
          BY <2>7, <3>1 DEF get_ready
        <4>2. firer'[s].item = Head(fifo[s].queue)
          BY <1>0, <4>1
        <4>3. fifo'[s].queue = Tail(fifo[s].queue)
          BY <1>0, <4>1
        <4> QED BY <2>5, <2>7, <3>1, <4>2, <4>3
      <3>2. CASE fifo[s].queue = <<>>
        BY <1>0, <2>4, <2>7, <3>2, SMTT(30) DEF get_ready
      <3> QED BY <3>1, <3>2
    <2> QED BY <1>6, <2>6, <2>7
  <1> QED BY <1>1, <1>2, <1>3, <1>4, <1>5, <1>6, <1>a DEF Step

BInv == IInv /\ \A s \in Servers : Blocks(s)

LEMMA BlocksInvariant ==
  ASSUME ConstantsOK
  PROVE  Spec => []BInv
  <1>1. ASSUME Init, IInv PROVE \A s \in Servers : Blocks(s)
    <2> SUFFICES ASSUME NEW s \in Servers PROVE Blocks(s)
      OBVIOUS
    <2>1. /\ blocks[s] = 0 /\ fifo[s].queue = <<>> /\ firer[s].item = NoItem /\ main[s].round = 0
          /\ \A r \in 1 .. Rounds : sub[s][r] = <<>>
      BY <1>1 DEF Init
    <2>2. Kept(s, main[s].round) = 0 /\ Kept(s, main[s].round + 1) = 0
      BY <2>1, SMTT(30) DEF Kept
    <2>3. Remotes(fifo[s].queue, 0)
      BY <2>1, RemoteEmpty
    <2>4. One(firer[s].item.remote) = 0
      BY <2>1, SMTT(30) DEF One, NoItem
    <2> QED BY <2>1, <2>2, <2>3, <2>4, SMTT(30) DEF Blocks, Held
  <1>2. ASSUME IInv, \A s \in Servers : Blocks(s), [Next]_vars PROVE \A s \in Servers : Blocks(s)'
    <2>1. Types /\ \A s \in Servers : Good(s)
      BY <1>2 DEF IInv, Good
    <2>2. CASE Next
      BY <1>2, <2>1, <2>2, Steps, BlocksStep
    <2>3. CASE UNCHANGED vars
      <3>1. blocks' = blocks /\ fifo' = fifo /\ firer' = firer /\ sub' = sub /\ main' = main
        BY <2>3 DEF vars
      <3> QED BY <1>2, <3>1 DEF Blocks, Held, Kept
    <2> QED BY <1>2, <2>2, <2>3
  <1>3. Init => BInv
    BY <1>1, InitIInv DEF BInv
  <1>4. BInv /\ [Next]_vars => BInv'
    BY <1>2, NextIInv DEF BInv
  <1> QED BY <1>3, <1>4, PTL DEF Spec

\* What close() leaves for the open() of the next query: no free buffer, item,
\* counter or received block of the query remains on a server that has closed
\* it, although the peer may already be sending blocks of the next one.
THEOREM NothingLeft ==
  ASSUME ConstantsOK
  PROVE  Spec => []RoundLeavesNothing
  <1>1. ASSUME BInv PROVE RoundLeavesNothing
    <2> SUFFICES ASSUME NEW s \in Servers, main[s].pc = "open", main[s].round > 0
                 PROVE  /\ free[s] = 0 /\ fifo[s].queue = <<>> /\ closed[s] = 0 /\ Inbox(s) = <<>>
                        /\ blocks[s] = IF main[s].round = Rounds THEN 0 ELSE Len(sub[s][main[s].round + 1])
      BY DEF RoundLeavesNothing
    <2> DEFINE c == main[s].round
    <2>1. Types /\ Good(s) /\ Good(Peer(s)) /\ Phases(s) /\ Blocks(s)
      BY <1>1, Peers DEF BInv, IInv, Good
    <2>2. c \in 1 .. Rounds /\ c + 1 \in Int
      BY <2>1, SMTT(30) DEF Types, ConstantsOK
    <2>3. /\ closed[s] = 0 /\ fifo[s].queue = <<>> /\ firer[s].pc \in {"none", "done"}
          /\ free[s] = 0 /\ firer[s].item = NoItem
      BY <2>1 DEF Phases
    <2>4. Kept(s, c) = 0 /\ Kept(s, c + 1) \in Nat
      BY <2>1, <2>2, KeptNear, SMTT(30)
    <2>5. Inbox(s) = <<>>
      <3>1. Len(sub[s][c]) = 0
        BY <2>2, <2>4 DEF Kept
      <3>2. sub[s][c] \in Seq(Messages)
        BY <2>1, <2>2, Queues
      <3> QED BY <3>1, <3>2, SMTT(30) DEF Inbox
    <2>6. PICK n \in Int : Remotes(fifo[s].queue, n) /\ blocks[s] = Held(s, n)
      BY <2>1 DEF Blocks
    <2>7. One(firer[s].item.remote) = 0
      BY <2>3, SMTT(30) DEF One, NoItem
    <2>8. blocks[s] = Kept(s, c + 1)
      BY <2>3, <2>4, <2>6, <2>7, RemoteEmpty, SMTT(30) DEF Held
    <2>9. Kept(s, c + 1) = IF c = Rounds THEN 0 ELSE Len(sub[s][c + 1])
      BY <2>2, SMTT(30) DEF Kept, ConstantsOK
    <2> QED BY <2>3, <2>5, <2>8, <2>9
  <1> QED BY <1>1, BlocksInvariant, PTL

-----------------------------------------------------------------------------
\* The tuples that are to be consumed on a server, and their order.
InQueue(s) == {e.x : e \in Elems(fifo[s].queue)}
InHand(s) == {firer[s].item.x} \ {<<>>}
Coming(s) == {m.x : m \in Transit(s)} \ {<<>>}
Bound(s) == Coming(s) \cup InQueue(s) \cup InHand(s)

ItemOrder == {p \in Items \X Items : p[1].x[1] = p[2].x[1] => p[1].x[3] < p[2].x[3]}
Taken(s) == Elems(fifo[s].queue) \cup ({firer[s].item} \ {NoItem})
Lined(s) ==
  /\ Sorted(fifo[s].queue, ItemOrder)
  /\ firer[s].item # NoItem =>
       \A e \in Elems(fifo[s].queue) : <<firer[s].item, e>> \in ItemOrder
  /\ \A e \in Taken(s) :
       /\ e.x[1] = (IF e.remote THEN Peer(s) ELSE s) /\ e.x[2] = main[s].round
       /\ e.remote => \A m \in Transit(s) : m.round = main[s].round => e.x[3] < Rank(m)

Routed(x) ==
  \/ x[2] < main[x[1]].round
  \/ x[2] = main[x[1]].round /\ x[3] <= main[x[1]].sent
Carried ==
  /\ \A s \in Servers : \A x \in Bound(s) : Routed(x) /\ x \notin consumed /\ x \notin Bound(Peer(s))
  /\ \A x \in consumed : Routed(x)

-----------------------------------------------------------------------------
(* The tuples *)

\* What a step does to the tuples on their way.
Routes(s, d) ==
  /\ main[s].pc = "route" /\ main[s].sent < PerRound
  /\ main'[s].pc = "route" /\ main'[s].round = main[s].round /\ main'[s].sent = main[s].sent + 1
  /\ Bound(d)' = Bound(d) \cup {Fresh(s)} /\ Bound(Peer(d))' = Bound(Peer(d)) /\ consumed' = consumed
Delivers(s) ==
  /\ main' = main /\ firer[s].item.x \in Tuples /\ firer[s].item.x \in Bound(s)
  /\ Bound(s)' = Bound(s) \ {firer[s].item.x} /\ Bound(Peer(s))' = Bound(Peer(s))
  /\ consumed' = consumed \cup {firer[s].item.x}
Forwards == (\A t \in Servers : Bound(t)' = Bound(t)) /\ consumed' = consumed

LEMMA Parts ==
  ASSUME NEW s, Transit(s)' = Transit(s), fifo'[s].queue = fifo[s].queue, firer'[s].item = firer[s].item
  PROVE  Bound(s)' = Bound(s)
  BY DEF Bound, Coming, InQueue, InHand

\* The tuple in hand is nowhere else.
LEMMA HandApart ==
  ASSUME ConstantsOK, Types, NEW s \in Servers, Good(s), Lined(s), firer[s].item # NoItem
  PROVE  /\ firer[s].item \in Items /\ firer[s].item.x \in Tuples
         /\ firer[s].item.x \notin Coming(s) /\ firer[s].item.x \notin InQueue(s)
  <1> DEFINE e == firer[s].item
  <1>1. e \in Items /\ e.x \in Tuples
    BY DEF Types, Items
  <1>2. e \in Taken(s)
    BY DEF Taken
  <1> HIDE DEF e
  <1>3. /\ e.x[1] = (IF e.remote THEN Peer(s) ELSE s) /\ e.x[2] = main[s].round
        /\ e.remote => \A m \in Transit(s) : m.round = main[s].round => e.x[3] < Rank(m)
    BY <1>2 DEF Lined
  <1>4. e.x[3] \in Int
    BY <1>1, SMTT(30) DEF Tuples
  <1>5. ASSUME NEW d \in Elems(fifo[s].queue), d.x = e.x PROVE FALSE
    <2>1. <<e, d>> \in ItemOrder
      BY DEF Lined, e
    <2>2. e.x[3] < d.x[3]
      BY <1>5, <2>1 DEF ItemOrder
    <2> QED BY <1>4, <1>5, <2>2, SMTT(30)
  <1>6. ASSUME NEW m \in Transit(s), m.x = e.x PROVE FALSE
    <2>1. m \in Messages /\ Written(s, m)
      BY Transits DEF Good, AllWritten
    <2>2. m.size = BufSize /\ m.x[1] = Peer(s) /\ m.x[2] = m.round
      BY <1>1, <1>6, <2>1, NoTuple DEF Written
    <2>3. e.remote /\ m.round = main[s].round
      BY <1>3, <1>6, <2>2, Peers
    <2>4. Rank(m) = m.x[3]
      BY <2>2, SMTT(30) DEF Rank, BufSize
    <2> QED BY <1>3, <1>4, <1>6, <2>3, <2>4, SMTT(30)
  <1> QED BY <1>1, <1>5, <1>6 DEF Coming, InQueue, e

LEMMA Carrying ==
  ASSUME ConstantsOK, Types, NEW s \in Servers, Good(s), Good(Peer(s)), Lined(s), Step(s)
  PROVE  (\E d \in Servers : Routes(s, d)) \/ Delivers(s) \/ Forwards
  <1> DEFINE p == Peer(s)
  <1>0. /\ main \in [Servers -> [pc : MainPcs, round : 0 .. Rounds, sent : 0 .. PerRound]]
        /\ firer \in [Servers -> [pc : {"none", "loop", "consume", "drain", "done"}, item : Items \cup {NoItem}]]
        /\ fifo \in [Servers -> [queue : Seq(Items), closing : BOOLEAN]]
    BY DEF Types
  <1>1. p \in Servers /\ p # s /\ Peer(p) = s /\ \A t \in Servers : t = s \/ t = p
    BY Peers
  <1>2. fifo'[p].queue = fifo[p].queue /\ firer'[p].item = firer[p].item
    BY <1>1, Local
  <1>3. Phases(s) /\ Ordered(s) /\ Ordered(p) /\ AllWritten(s) /\ AllWritten(p) /\ Received(s) /\ Proceeds(s)
    BY DEF Good
  <1>4. fifo[s].queue \in Seq(Items)
    BY <1>0
  <1> HIDE DEF p
  <1>5. ASSUME routeLocal(s) PROVE Routes(s, s)
    <2> DEFINE e == [x |-> Fresh(s), remote |-> FALSE]
    <2>1. /\ main[s].pc = "route" /\ main[s].sent < PerRound /\ main' = [main EXCEPT ![s].sent = @ + 1]
          /\ wire' = wire /\ sub' = sub /\ firer' = firer /\ consumed' = consumed
      BY <1>5 DEF routeLocal
    <2>2. main'[s].pc = "route" /\ main'[s].round = main[s].round /\ main'[s].sent = main[s].sent + 1
      BY <1>0, <2>1, SMTT(30)
    <2>3. fifo'[s].queue = Append(fifo[s].queue, e)
      BY <1>0, <1>5 DEF routeLocal, Fresh
    <2>4. e \in Items /\ e.x = Fresh(s)
      BY <1>3, <2>1, FreshTuple
    <2> HIDE DEF e
    <2>5. Elems(fifo'[s].queue) = Elems(fifo[s].queue) \cup {e}
      BY <1>4, <2>3, <2>4, Appended, SMTT(30)
    <2>6. InQueue(s)' = InQueue(s) \cup {Fresh(s)}
      BY <2>4, <2>5, SMTT(30) DEF InQueue
    <2>7. Transit(s)' = Transit(s) /\ Transit(p)' = Transit(p)
      BY <2>1 DEF Transit
    <2>8. Bound(p)' = Bound(p)
      BY <1>2, <2>7, Parts
    <2>9. Coming(s)' = Coming(s) /\ InHand(s)' = InHand(s)
      BY <2>1, <2>7 DEF Coming, InHand
    <2>10. Bound(s)' = Bound(s) \cup {Fresh(s)}
      BY <2>6, <2>9 DEF Bound
    <2> QED BY <2>1, <2>2, <2>8, <2>10 DEF Routes, p
  <1>6. ASSUME routeRemote(s) PROVE Routes(s, p)
    <2> DEFINE m == Message(s, BufSize, Fresh(s))
    <2>1. /\ main[s].pc = "route" /\ main[s].sent < PerRound /\ main' = [main EXCEPT ![s].sent = @ + 1]
          /\ firer' = firer /\ fifo' = fifo /\ consumed' = consumed
      BY <1>6 DEF routeRemote
    <2>2. main'[s].pc = "route" /\ main'[s].round = main[s].round /\ main'[s].sent = main[s].sent + 1
      BY <1>0, <2>1, SMTT(30)
    <2>3. Tells(s, m)
      BY <1>3, <1>6, Writing, Sending DEF p
    <2>4. m.x = Fresh(s) /\ Fresh(s) # <<>>
      BY <1>3, <2>1, FreshTuple DEF Message
    <2> HIDE DEF m
    <2>5. Transit(s)' = Transit(s) /\ Transit(p)' = Transit(p) \cup {m}
      BY <2>3 DEF Tells, p
    <2>6. Bound(s)' = Bound(s)
      BY <2>1, <2>5, Parts
    <2>7. Coming(p)' = Coming(p) \cup {Fresh(s)}
      BY <2>4, <2>5 DEF Coming
    <2>8. InQueue(p)' = InQueue(p) /\ InHand(p)' = InHand(p)
      BY <1>2 DEF InQueue, InHand
    <2>9. Bound(p)' = Bound(p) \cup {Fresh(s)}
      BY <2>7, <2>8 DEF Bound
    <2> QED BY <1>1, <2>1, <2>2, <2>6, <2>9 DEF Routes
  <1>7. ASSUME tellProceed(s) \/ tellDone(s) PROVE Forwards
    <2>1. firer' = firer /\ fifo' = fifo /\ consumed' = consumed
      BY <1>7 DEF tellProceed, tellDone
    <2>2. PICK m : Tells(s, m) /\ m.x = <<>>
      <3>1. Message(s, 3, <<>>).x = <<>> /\ Message(s, 2, <<>>).x = <<>>
        BY DEF Message
      <3> QED BY <1>3, <1>7, <3>1, Writing, Sending DEF p
    <2>3. Transit(s)' = Transit(s) /\ Transit(p)' = Transit(p) \cup {m}
      BY <2>2 DEF Tells, p
    <2>4. Bound(s)' = Bound(s)
      BY <2>1, <2>3, Parts
    <2>5. Coming(p)' = Coming(p)
      BY <2>2, <2>3 DEF Coming
    <2>6. InQueue(p)' = InQueue(p) /\ InHand(p)' = InHand(p)
      BY <1>2 DEF InQueue, InHand
    <2>7. Bound(p)' = Bound(p)
      BY <2>5, <2>6 DEF Bound
    <2> QED BY <1>1, <2>1, <2>4, <2>7 DEF Forwards
  <1>8. ASSUME open(s) \/ close(s) \/ fifoDrained(s) \/ receiverDrained(s) \/ drain(s) \/ Publish(s)
        PROVE  Forwards
    <2>1. consumed' = consumed
      BY <1>8 DEF open, close, fifoDrained, receiverDrained, drain, Publish
    <2>2. fifo'[s].queue = fifo[s].queue
      <3>1. fifo' = fifo \/ (\E b : fifo' = [fifo EXCEPT ![s].closing = b])
        BY <1>8 DEF open, close, fifoDrained, receiverDrained, drain, Publish
      <3> QED BY <1>0, <3>1
    <2>3. firer'[s].item = firer[s].item
      <3>1. firer' = firer \/ (\E l : firer' = [firer EXCEPT ![s].pc = l])
        BY <1>8 DEF open, close, fifoDrained, receiverDrained, drain, Publish
      <3> QED BY <1>0, <3>1
    <2>4. Transit(s)' = Transit(s) /\ Transit(p)' = Transit(p)
      <3>1. CASE Publish(s)
        BY <1>3, <3>1, PublishedInOrder DEF p
      <3>2. CASE ~Publish(s)
        <4>1. wire' = wire /\ sub' = sub
          BY <1>8, <3>2 DEF open, close, fifoDrained, receiverDrained, drain
        <4> QED BY <4>1 DEF Transit
      <3> QED BY <3>1, <3>2
    <2>5. Bound(s)' = Bound(s) /\ Bound(p)' = Bound(p)
      BY <1>2, <2>2, <2>3, <2>4, Parts
    <2> QED BY <1>1, <2>1, <2>5 DEF Forwards
  <1>9. ASSUME awaitDone(s) \/ receiveProceed(s) \/ receiveData(s) PROVE Forwards
    <2> DEFINE h == Head(Inbox(s))
    <2>1. Takes(s)
      BY <1>3, <1>9, Taking
    <2>2. Gets(s, h)
      BY <1>3, <2>1, Getting DEF p
    <2>3. main[s].round \in 1 .. Rounds /\ Inbox(s) # <<>>
      BY <2>1 DEF Takes
    <2>4. /\ receiver[s] = "wait" => h.size # 2
          /\ main[s].pc = "await" => h.size = 2
          /\ h.size \in {BufSize, 3, 2}
      BY <1>3, <2>3, Control
    <2>5. Transit(s) = Transit(s)' \cup {h} /\ Transit(p)' = Transit(p) /\ Written(s, h)
      BY <1>3, <2>2 DEF Gets, AllWritten, p
    <2>6. consumed' = consumed /\ firer' = firer
      BY <1>9 DEF awaitDone, receiveProceed, receiveData
    <2>7. Bound(p)' = Bound(p)
      BY <1>2, <2>5, Parts
    <2>8. CASE awaitDone(s) \/ receiveProceed(s)
      <3>1. h.size \in {2, 3}
        BY <2>4, <2>8 DEF awaitDone, receiveProceed
      <3>2. fifo'[s].queue = fifo[s].queue
        BY <1>0, <2>8, SMTT(30) DEF awaitDone, receiveProceed
      <3> HIDE DEF h
      <3>3. h.x = <<>>
        BY <2>5, <3>1, SMTT(30) DEF Written, BufSize
      <3>4. Coming(s)' = Coming(s)
        BY <2>5, <3>3 DEF Coming
      <3>5. InQueue(s)' = InQueue(s) /\ InHand(s)' = InHand(s)
        BY <2>6, <3>2 DEF InQueue, InHand
      <3>6. Bound(s)' = Bound(s)
        BY <3>4, <3>5 DEF Bound
      <3> QED BY <1>1, <2>6, <2>7, <3>6 DEF Forwards
    <2>9. CASE receiveData(s)
      <3> DEFINE e == [x |-> h.x, remote |-> TRUE]
      <3>1. h.size = BufSize
        BY <2>4, <2>9 DEF receiveData
      <3>2. fifo'[s].queue = Append(fifo[s].queue, e)
        BY <1>0, <2>9 DEF receiveData
      <3> HIDE DEF h
      <3>3. h.x \in Tuples /\ e \in Items /\ e.x = h.x /\ h.x # <<>>
        BY <1>3, <2>5, <3>1, DataTuple, NoTuple
      <3> HIDE DEF e
      <3>4. Elems(fifo'[s].queue) = Elems(fifo[s].queue) \cup {e}
        BY <1>4, <3>2, <3>3, Appended, SMTT(30)
      <3>5. InQueue(s)' = InQueue(s) \cup {h.x}
        BY <3>3, <3>4 DEF InQueue
      <3>6. Coming(s) = Coming(s)' \cup {h.x}
        BY <2>5, <3>3 DEF Coming
      <3>7. InHand(s)' = InHand(s)
        BY <2>6 DEF InHand
      <3>8. Bound(s)' = Bound(s)
        BY <3>5, <3>6, <3>7 DEF Bound
      <3> QED BY <1>1, <2>6, <2>7, <3>8 DEF Forwards
    <2> QED BY <1>9, <2>8, <2>9
  <1>10. ASSUME get_ready(s) PROVE Forwards
    <2>1. consumed' = consumed /\ wire' = wire /\ sub' = sub /\ firer[s].pc = "loop"
      BY <1>10 DEF get_ready
    <2>2. Transit(s)' = Transit(s) /\ Transit(p)' = Transit(p)
      BY <2>1 DEF Transit
    <2>3. Bound(p)' = Bound(p)
      BY <1>2, <2>2, Parts
    <2>4. CASE fifo[s].queue = <<>>
      <3>1. fifo' = fifo /\ firer'[s].item = firer[s].item
        BY <1>0, <1>10, <2>4, SMTT(30) DEF get_ready
      <3> QED BY <1>1, <2>1, <2>2, <2>3, <3>1, Parts DEF Forwards
    <2>5. CASE fifo[s].queue # <<>>
      <3> DEFINE e == Head(fifo[s].queue)
      <3>1. /\ firer' = [firer EXCEPT ![s] = [pc |-> "consume", item |-> e]]
            /\ fifo' = [fifo EXCEPT ![s].queue = Tail(@)]
        BY <1>10, <2>5 DEF get_ready
      <3>2. firer'[s].item = e
        BY <1>0, <3>1
      <3>3. fifo'[s].queue = Tail(fifo[s].queue)
        BY <1>0, <3>1
      <3>4. firer[s].item.x = <<>>
        BY <1>3, <2>1, SMTT(30) DEF Phases, NoItem
      <3>5. Elems(fifo[s].queue) = {e} \cup Elems(fifo'[s].queue) /\ e \in Items
        BY <1>4, <2>5, <3>3, Popped
      <3> HIDE DEF e
      <3>6. e.x # <<>>
        BY <3>5, NoTuple DEF Items
      <3>7. InQueue(s) = {e.x} \cup InQueue(s)'
        BY <3>5 DEF InQueue
      <3>8. InHand(s) = {} /\ InHand(s)' = {e.x}
        BY <3>2, <3>4, <3>6 DEF InHand
      <3>9. Coming(s)' = Coming(s)
        BY <2>2 DEF Coming
      <3>10. Bound(s)' = Bound(s)
        BY <3>7, <3>8, <3>9 DEF Bound
      <3> QED BY <1>1, <2>1, <2>3, <3>10 DEF Forwards
    <2> QED BY <2>4, <2>5
  <1>11. ASSUME freeBuffer(s) PROVE Delivers(s)
    <2> DEFINE x == firer[s].item.x
    <2>1. /\ main' = main /\ wire' = wire /\ sub' = sub /\ fifo' = fifo /\ firer[s].pc = "consume"
          /\ consumed' = consumed \cup {x}
          /\ firer' = [firer EXCEPT ![s] = [pc |-> "loop", item |-> NoItem]]
      BY <1>11 DEF freeBuffer
    <2>2. firer'[s].item = NoItem
      BY <1>0, <2>1
    <2>3. firer[s].item # NoItem
      BY <1>3, <2>1 DEF Phases
    <2>4. x \in Tuples /\ x \notin Coming(s) /\ x \notin InQueue(s)
      BY <2>3, HandApart
    <2>5. Transit(s)' = Transit(s) /\ Transit(p)' = Transit(p)
      BY <2>1 DEF Transit
    <2>6. Bound(p)' = Bound(p)
      BY <1>2, <2>5, Parts
    <2>7. InHand(s)' = {}
      BY <2>2, SMTT(30) DEF InHand, NoItem
    <2>8. InHand(s) = {x}
      BY <2>4, NoTuple DEF InHand
    <2>9. Coming(s)' = Coming(s) /\ InQueue(s)' = InQueue(s)
      BY <2>1, <2>5 DEF Coming, InQueue
    <2>10. Bound(s)' = Bound(s) \ {x} /\ x \in Bound(s)
      BY <2>4, <2>7, <2>8, <2>9 DEF Bound
    <2> QED BY <2>1, <2>4, <2>6, <2>10 DEF Delivers, p
  <1> QED BY <1>1, <1>5, <1>6, <1>7, <1>8, <1>9, <1>10, <1>11 DEF Step

LEMMA BoundTuples ==
  ASSUME Types, NEW s \in Servers, Good(s)
  PROVE  Bound(s) \subseteq Tuples
  <1>1. Coming(s) \subseteq Tuples
    BY Transits DEF Coming, Messages
  <1>2. InQueue(s) \subseteq Tuples
    <2>1. fifo[s].queue \in Seq(Items)
      BY DEF Types
    <2>2. Elems(fifo[s].queue) \subseteq Items
      BY <2>1, SMTT(30) DEF Elems
    <2> QED BY <2>2 DEF InQueue, Items
  <1>3. InHand(s) \subseteq Tuples
    <2>1. firer[s].item \in Items \cup {NoItem}
      BY DEF Types
    <2> QED BY <2>1, SMTT(30) DEF InHand, Items, NoItem
  <1> QED BY <1>1, <1>2, <1>3 DEF Bound

\* What was routed remains routed, and the next tuple of a server was not.
LEMMA RoutedForever ==
  ASSUME ConstantsOK, Types, NEW s \in Servers, Step(s), NEW x \in Tuples, Routed(x)
  PROVE  Routed(x)'
  <1> DEFINE t == x[1]
  <1>1. t \in Servers /\ x[2] \in Int /\ x[3] \in 1 .. PerRound
    BY SMTT(30) DEF Tuples
  <1>2. main[t].round \in Int /\ main[t].sent \in 0 .. PerRound
    <2>1. main \in [Servers -> [pc : MainPcs, round : 0 .. Rounds, sent : 0 .. PerRound]]
      BY DEF Types
    <2> QED BY <1>1, <2>1, SMTT(30)
  <1> HIDE DEF t
  <1>3. x[2] < main[t].round \/ (x[2] = main[t].round /\ x[3] <= main[t].sent)
    BY DEF Routed, t
  <1>4. CASE main'[t] = main[t]
    BY <1>3, <1>4 DEF Routed, t
  <1>5. CASE t = s /\ Moved(s)
    <2>1. \/ main'[t].round = main[t].round + 1
          \/ main'[t].round = main[t].round /\ (main'[t].sent = main[t].sent \/ main'[t].sent = main[t].sent + 1)
      BY <1>5 DEF Moved, Pcs
    <2>2. x[2] < main'[t].round \/ (x[2] = main'[t].round /\ x[3] <= main'[t].sent)
      BY <1>1, <1>2, <1>3, <2>1, SMTT(30) DEF ConstantsOK
    <2> QED BY <2>2 DEF Routed, t
  <1> QED BY <1>1, <1>4, <1>5, Local, Moves

LEMMA FreshNotRouted ==
  ASSUME ConstantsOK, Types, NEW s \in Servers
  PROVE  ~Routed(Fresh(s))
  <1>1. main[s].round \in Int /\ main[s].sent \in Int
    BY SMTT(30) DEF Types
  <1>2. Fresh(s)[1] = s /\ Fresh(s)[2] = main[s].round /\ Fresh(s)[3] = main[s].sent + 1
    BY DEF Fresh
  <1> QED BY <1>1, <1>2, SMTT(30) DEF Routed

LEMMA CarriedStep ==
  ASSUME ConstantsOK, Types, NEW s \in Servers, \A u \in Servers : Good(u) /\ Lined(u), Carried, Step(s)
  PROVE  Carried'
  <1>0. Peer(s) \in Servers /\ Peer(s) # s /\ Peer(Peer(s)) = s /\ \A t \in Servers : t = s \/ t = Peer(s)
    BY Peers
  <1>1. \A t \in Servers : Bound(t) \subseteq Tuples
    BY BoundTuples
  <1>2. consumed \subseteq Tuples
    BY DEF Types
  <1>3. /\ \A t \in Servers : \A x \in Bound(t) : Routed(x) /\ x \notin consumed /\ x \notin Bound(Peer(t))
        /\ \A x \in consumed : Routed(x)
    BY DEF Carried
  <1>4. \A x \in Tuples : Routed(x) => Routed(x)'
    BY RoutedForever
  <1>5. CASE Forwards
    <2>1. (\A t \in Servers : Bound(t)' = Bound(t) /\ Bound(Peer(t))' = Bound(Peer(t))) /\ consumed' = consumed
      BY <1>5, Peers DEF Forwards
    <2> QED BY <1>1, <1>2, <1>3, <1>4, <2>1 DEF Carried
  <1>6. CASE Delivers(s)
    <2> DEFINE y == firer[s].item.x
               p == Peer(s)
    <2>1. /\ y \in Tuples /\ y \in Bound(s) /\ Bound(s)' = Bound(s) \ {y} /\ Bound(p)' = Bound(p)
          /\ consumed' = consumed \cup {y}
      BY <1>6 DEF Delivers
    <2> HIDE DEF y, p
    <2>2. p \in Servers /\ Peer(p) = s /\ \A t \in Servers : t = s \/ t = p
      BY <1>0 DEF p
    <2>3. \A x \in consumed' : Routed(x)'
      BY <1>2, <1>3, <1>4, <2>1
    <2>4. \A x \in Bound(s)' : Routed(x)' /\ x \notin consumed' /\ x \notin Bound(p)'
      BY <1>1, <1>3, <1>4, <2>1 DEF p
    <2>5. \A x \in Bound(p)' : Routed(x)' /\ x \notin consumed' /\ x \notin Bound(s)'
      <3>1. y \notin Bound(p)
        BY <1>3, <2>1 DEF p
      <3> QED BY <1>1, <1>3, <1>4, <2>1, <2>2, <3>1, SMTT(30)
    <2> QED BY <2>2, <2>3, <2>4, <2>5 DEF Carried, p
  <1>7. ASSUME NEW d \in Servers, Routes(s, d) PROVE Carried'
    <2> DEFINE e == Peer(d)
    <2>y. PICK y : y = Fresh(s)
      OBVIOUS
    <2>1. /\ Bound(d)' = Bound(d) \cup {y} /\ Bound(e)' = Bound(e) /\ consumed' = consumed
          /\ main[s].pc = "route" /\ main[s].sent < PerRound
          /\ main'[s].round = main[s].round /\ main'[s].sent = main[s].sent + 1
      BY <1>7, <2>y DEF Routes
    <2>2. ~Routed(y) /\ y \in Tuples
      BY <2>1, <2>y, FreshNotRouted, FreshTuple DEF Good
    <2>3. Routed(y)'
      <3>1. y[1] = s /\ y[2] = main[s].round /\ y[3] = main[s].sent + 1 /\ main[s].sent \in Int
        BY <2>y, SMTT(30) DEF Fresh, Types
      <3> QED BY <2>1, <3>1, SMTT(30) DEF Routed
    <2>4. e \in Servers /\ Peer(e) = d /\ \A t \in Servers : t = d \/ t = e
      BY Peers
    <2> HIDE DEF e
    <2>5. y \notin consumed /\ y \notin Bound(d) /\ y \notin Bound(e)
      BY <1>3, <2>2, <2>4
    <2>6. \A x \in consumed' : Routed(x)'
      BY <1>2, <1>3, <1>4, <2>1
    <2>7. \A x \in Bound(d)' : Routed(x)' /\ x \notin consumed' /\ x \notin Bound(e)'
      BY <1>1, <1>3, <1>4, <2>1, <2>3, <2>5 DEF e
    <2>8. \A x \in Bound(e)' : Routed(x)' /\ x \notin consumed' /\ x \notin Bound(d)'
      BY <1>1, <1>3, <1>4, <2>1, <2>4, <2>5
    <2> QED BY <2>4, <2>6, <2>7, <2>8 DEF Carried, e
  <1> QED BY <1>0, <1>5, <1>6, <1>7, Carrying

LEMMA TakenBound ==
  ASSUME Types, NEW s \in Servers, NEW e \in Taken(s)
  PROVE  e \in Items /\ e.x \in Tuples /\ e.x[3] \in Int /\ e.x \in Bound(s)
  <1>1. fifo[s].queue \in Seq(Items) /\ firer[s].item \in Items \cup {NoItem}
    BY DEF Types
  <1>2. Elems(fifo[s].queue) \subseteq Items
    BY <1>1, SMTT(30) DEF Elems
  <1>3. e \in Items /\ e.x \in Tuples
    BY <1>1, <1>2 DEF Taken, Items
  <1>4. e.x # <<>> /\ e.x[3] \in Int
    BY <1>3, NoTuple, SMTT(30) DEF Tuples
  <1> QED BY <1>3, <1>4 DEF Taken, Bound, InQueue, InHand

LEMMA LinedStep ==
  ASSUME ConstantsOK, Types, NEW s \in Servers, \A u \in Servers : Good(u) /\ Lined(u), Carried, Step(s),
         NEW t \in Servers
  PROVE  Lined(t)'
  <1> DEFINE p == Peer(s)
  <1>0. /\ main \in [Servers -> [pc : MainPcs, round : 0 .. Rounds, sent : 0 .. PerRound]]
        /\ firer \in [Servers -> [pc : {"none", "loop", "consume", "drain", "done"}, item : Items \cup {NoItem}]]
        /\ fifo \in [Servers -> [queue : Seq(Items), closing : BOOLEAN]]
    BY DEF Types
  <1>1. p \in Servers /\ p # s /\ Peer(p) = s /\ (t = s \/ t = p)
    BY Peers
  <1>2. Handshake(s)
    BY <1>1, Shakes
  <1>3. Good(s) /\ Good(p) /\ Phases(s) /\ Ordered(s) /\ Ordered(p) /\ AllWritten(s) /\ Received(s) /\ Proceeds(s)
    BY <1>1 DEF Good
  <1>4. Transit(s)' \subseteq Transit(s)
    BY <1>2 DEF Handshake, Keeps, Tells, Gets
  <1>5. \A m \in Transit(p)' : m \in Transit(p) \/ Writes(s, m)
    BY <1>1, <1>2 DEF Handshake, Keeps, Tells, Gets
  <1> HIDE DEF p
  <1>6. ASSUME NEW u \in Servers, fifo'[u].queue = fifo[u].queue, firer'[u].item = firer[u].item,
               main'[u].round = main[u].round,
               \A e \in Taken(u), m \in Transit(u)' : e.remote /\ m.round = main[u].round => e.x[3] < Rank(m)
        PROVE  Lined(u)'
    <2>1. Taken(u)' = Taken(u) /\ Elems(fifo[u].queue)' = Elems(fifo[u].queue)
      BY <1>6 DEF Taken, Elems
    <2>2. /\ Sorted(fifo'[u].queue, ItemOrder)
          /\ firer'[u].item # NoItem => \A e \in Elems(fifo[u].queue)' : <<firer'[u].item, e>> \in ItemOrder
      BY <1>6, <2>1 DEF Lined
    <2>3. \A e \in Taken(u)' : e.x[1] = (IF e.remote THEN Peer(u) ELSE u) /\ e.x[2] = main'[u].round
      BY <1>6, <2>1, SMTT(30) DEF Lined
    <2>4. \A e \in Taken(u)' : e.remote => \A m \in Transit(u)' : m.round = main'[u].round => e.x[3] < Rank(m)
      BY <1>6, <2>1
    <2> QED BY <2>2, <2>3, <2>4 DEF Lined
  <1>7. ASSUME NEW e \in Taken(s), NEW m \in Transit(s)', e.remote, m.round = main[s].round PROVE e.x[3] < Rank(m)
    BY <1>4, <1>7 DEF Lined
  <1>8. CASE t = p
    <2>1. fifo'[p].queue = fifo[p].queue /\ firer'[p].item = firer[p].item /\ main'[p].round = main[p].round
      BY <1>1, Local
    <2>2. ASSUME NEW e \in Taken(p), NEW m \in Transit(p)', e.remote, m.round = main[p].round
          PROVE  e.x[3] < Rank(m)
      <3>1. CASE m \in Transit(p)
        BY <1>1, <2>2, <3>1 DEF Lined
      <3>2. CASE Writes(s, m)
        <4>1. e.x[1] = s /\ e.x[2] = main[p].round
          BY <1>1, <2>2 DEF Lined
        <4>2. e.x[3] \in Int /\ Routed(e.x)
          BY <1>1, TakenBound DEF Carried
        <4>3. m \in Messages /\ m.round = main[s].round /\ Progress(s) < Rank(m)
              /\ (m.size = BufSize => m.x \in Tuples)
          BY <3>2 DEF Writes
        <4>4. main[s].sent \in 0 .. PerRound /\ main[s].round \in Int
          BY <1>0, SMTT(30)
        <4>5. e.x[3] <= main[s].sent
          BY <2>2, <4>1, <4>2, <4>3, <4>4, SMTT(30) DEF Routed
        <4>6. main[s].sent <= Progress(s) /\ Progress(s) \in Int
          BY <4>4, SMTT(30) DEF Progress, ConstantsOK
        <4>7. Rank(m) \in Int
          BY <4>3, Ranks
        <4> QED BY <4>2, <4>3, <4>4, <4>5, <4>6, <4>7, SMTT(30)
      <3> QED BY <1>5, <3>1, <3>2
    <2> QED BY <1>1, <1>6, <1>8, <2>1, <2>2
  <1>9. ASSUME routeRemote(s) \/ close(s) \/ fifoDrained(s) \/ tellProceed(s) \/ tellDone(s) \/ awaitDone(s)
               \/ receiveProceed(s) \/ receiverDrained(s) \/ drain(s) \/ Publish(s)
        PROVE  Lined(s)'
    <2>1. fifo'[s].queue = fifo[s].queue
      <3>1. fifo' = fifo \/ (\E b : fifo' = [fifo EXCEPT ![s].closing = b])
        BY <1>9 DEF routeRemote, close, fifoDrained, tellProceed, tellDone, awaitDone, receiveProceed,
                    receiverDrained, drain, Publish
      <3> QED BY <1>0, <3>1
    <2>2. firer'[s].item = firer[s].item
      <3>1. firer' = firer \/ (\E l : firer' = [firer EXCEPT ![s].pc = l])
        BY <1>9 DEF routeRemote, close, fifoDrained, tellProceed, tellDone, awaitDone, receiveProceed,
                    receiverDrained, drain, Publish
      <3> QED BY <1>0, <3>1
    <2>3. main'[s].round = main[s].round
      <3>1. main' = main \/ (\E l : main' = [main EXCEPT ![s].pc = l]) \/ main' = [main EXCEPT ![s].sent = @ + 1]
        BY <1>9 DEF routeRemote, close, fifoDrained, tellProceed, tellDone, awaitDone, receiveProceed,
                    receiverDrained, drain, Publish, Go
      <3> QED BY <1>0, <3>1, SMTT(30)
    <2> QED BY <1>6, <1>7, <2>1, <2>2, <2>3
  <1>10. ASSUME fifo'[s].queue = <<>>, firer'[s].item = NoItem PROVE Lined(s)'
    <2>1. Elems(fifo[s].queue)' = {} /\ Sorted(fifo'[s].queue, ItemOrder)
      BY <1>10, SMTT(30) DEF Elems, Sorted
    <2>2. Taken(s)' = {}
      BY <1>10, <2>1 DEF Taken
    <2> QED BY <2>1, <2>2 DEF Lined
  <1>11. ASSUME open(s) PROVE Lined(s)'
    <2>1. fifo[s].queue = <<>> /\ firer[s].item = NoItem
      BY <1>3, <1>11 DEF Phases, open
    <2>2. fifo'[s].queue = fifo[s].queue /\ firer'[s].item = firer[s].item
      BY <1>0, <1>11 DEF open
    <2> QED BY <1>10, <2>1, <2>2
  \* What goes behind the tuples taken so far.
  <1>12. ASSUME NEW e \in Items, fifo'[s].queue = Append(fifo[s].queue, e), firer'[s].item = firer[s].item,
                main'[s].round = main[s].round,
                e.x[1] = (IF e.remote THEN p ELSE s), e.x[2] = main[s].round,
                \A d \in Taken(s) : d.x[1] = e.x[1] => d.x[3] < e.x[3],
                e.remote => \A m \in Transit(s)' : m.round = main[s].round => e.x[3] < Rank(m)
         PROVE  Lined(s)'
    <2>1. fifo[s].queue \in Seq(Items)
      BY <1>0
    <2>2. /\ Elems(fifo'[s].queue) = Elems(fifo[s].queue) \cup {e}
          /\ Sorted(fifo[s].queue, ItemOrder) /\ (\A d \in Elems(fifo[s].queue) : <<d, e>> \in ItemOrder)
               => Sorted(fifo'[s].queue, ItemOrder)
      BY <1>12, <2>1, Appended, SMTT(30)
    <2>3. ASSUME NEW d \in Taken(s) PROVE <<d, e>> \in ItemOrder
      <3>1. d \in Items
        BY TakenBound
      <3> QED BY <1>12, <3>1 DEF ItemOrder
    <2>4. Taken(s)' = Taken(s) \cup {e}
      BY <1>12, <2>2 DEF Taken
    <2>5. Sorted(fifo'[s].queue, ItemOrder)
      BY <2>2, <2>3 DEF Lined, Taken
    <2>6. ASSUME firer'[s].item # NoItem, NEW d \in Elems(fifo[s].queue)' PROVE <<firer'[s].item, d>> \in ItemOrder
      <3>1. firer'[s].item = firer[s].item /\ firer[s].item \in Taken(s)
        BY <1>12, <2>6 DEF Taken
      <3>2. CASE d = e
        BY <2>3, <3>1, <3>2
      <3>3. CASE d \in Elems(fifo[s].queue)
        BY <2>6, <3>1, <3>3 DEF Lined
      <3> QED BY <2>2, <2>6, <3>2, <3>3
    <2>7. \A d \in Taken(s)' : d.x[1] = (IF d.remote THEN Peer(s) ELSE s) /\ d.x[2] = main'[s].round
      BY <1>12, <2>4 DEF Lined, p
    <2>8. \A d \in Taken(s)' : d.remote => \A m \in Transit(s)' : m.round = main'[s].round => d.x[3] < Rank(m)
      BY <1>7, <1>12, <2>4
    <2> QED BY <2>5, <2>6, <2>7, <2>8 DEF Lined
  <1>13. ASSUME routeLocal(s) PROVE Lined(s)'
    <2> DEFINE e == [x |-> Fresh(s), remote |-> FALSE]
    <2>1. /\ main[s].pc = "route" /\ main[s].sent < PerRound /\ main' = [main EXCEPT ![s].sent = @ + 1]
          /\ firer' = firer
      BY <1>13 DEF routeLocal
    <2>2. main'[s].round = main[s].round /\ main[s].sent \in Int /\ main[s].round \in Int
      BY <1>0, <2>1, SMTT(30)
    <2>3. fifo'[s].queue = Append(fifo[s].queue, e)
      BY <1>0, <1>13 DEF routeLocal, Fresh
    <2>4. e \in Items /\ e.x = Fresh(s) /\ ~e.remote
      BY <1>3, <2>1, FreshTuple
    <2> HIDE DEF e
    <2>5. e.x[1] = s /\ e.x[2] = main[s].round /\ e.x[3] = main[s].sent + 1
      BY <2>4, SMTT(30) DEF Fresh
    <2>6. ASSUME NEW d \in Taken(s), d.x[1] = e.x[1] PROVE d.x[3] < e.x[3]
      <3>1. d.x[3] \in Int /\ Routed(d.x) /\ d.x[2] = main[s].round
        BY TakenBound DEF Carried, Lined
      <3>2. d.x[3] <= main[s].sent
        BY <2>2, <2>5, <2>6, <3>1, SMTT(30) DEF Routed
      <3> QED BY <2>2, <2>5, <3>1, <3>2, SMTT(30)
    <2> QED BY <1>12, <2>1, <2>2, <2>3, <2>4, <2>5, <2>6
  <1>14. ASSUME receiveData(s) PROVE Lined(s)'
    <2> DEFINE h == Head(Inbox(s))
               e == [x |-> h.x, remote |-> TRUE]
    <2>1. Takes(s)
      BY <1>3, <1>14, Taking
    <2>2. Gets(s, h)
      BY <1>3, <2>1, Getting DEF p
    <2>3. main[s].round \in 1 .. Rounds /\ Inbox(s) # <<>>
      BY <2>1 DEF Takes
    <2>4. h.size = BufSize
      BY <1>3, <1>14, <2>3, Control DEF receiveData
    <2>5. fifo'[s].queue = Append(fifo[s].queue, e) /\ firer' = firer /\ main' = main
      BY <1>0, <1>14 DEF receiveData
    <2> HIDE DEF h
    <2>6. /\ h \in Messages /\ h \in Transit(s) /\ h.round = main[s].round /\ Written(s, h)
          /\ \A m \in Transit(s)' : <<h, m>> \in MessageOrder
      BY <1>3, <2>2 DEF Gets, AllWritten
    <2>7. e \in Items /\ e.x = h.x /\ e.remote = TRUE /\ h.x \in Tuples
      BY <1>3, <2>4, <2>6, DataTuple
    <2> HIDE DEF e
    <2>8. h.x[1] = p /\ h.x[2] = main[s].round /\ Rank(h) = h.x[3] /\ h.x[3] \in Int
      BY <2>4, <2>6, <2>7, SMTT(30) DEF Written, Rank, BufSize, Tuples, p
    <2>9. ASSUME NEW d \in Taken(s), d.x[1] = e.x[1] PROVE d.x[3] < e.x[3]
      <3>1. d.remote
        BY <1>1, <2>7, <2>8, <2>9 DEF Lined
      <3>2. d.x[3] < Rank(h)
        BY <2>6, <3>1 DEF Lined
      <3> QED BY <2>7, <2>8, <3>2
    <2>10. ASSUME NEW m \in Transit(s)', m.round = main[s].round PROVE e.x[3] < Rank(m)
      <3>1. m \in Messages
        BY <1>4, Transits
      <3> QED BY <2>6, <2>7, <2>8, <2>10, <3>1, Rounded
    <2> QED BY <1>12, <2>5, <2>7, <2>8, <2>9, <2>10
  <1>15. ASSUME get_ready(s) PROVE Lined(s)'
    <2>1. main' = main /\ firer[s].pc = "loop"
      BY <1>15 DEF get_ready
    <2>2. CASE fifo[s].queue = <<>>
      <3>1. fifo' = fifo /\ firer'[s].item = firer[s].item
        BY <1>0, <1>15, <2>2 DEF get_ready
      <3> QED BY <1>6, <1>7, <2>1, <3>1
    <2>3. CASE fifo[s].queue # <<>>
      <3> DEFINE e == Head(fifo[s].queue)
      <3>0. fifo[s].queue \in Seq(Items) /\ Sorted(fifo[s].queue, ItemOrder)
        BY <1>0 DEF Lined
      <3>1. /\ firer' = [firer EXCEPT ![s] = [pc |-> "consume", item |-> e]]
            /\ fifo' = [fifo EXCEPT ![s].queue = Tail(@)]
        BY <1>15, <2>3 DEF get_ready
      <3>2. firer'[s].item = e
        BY <1>0, <3>1
      <3>3. fifo'[s].queue = Tail(fifo[s].queue)
        BY <1>0, <3>1
      <3>4. /\ Elems(fifo[s].queue) = {e} \cup Elems(fifo'[s].queue)
            /\ Sorted(fifo'[s].queue, ItemOrder)
            /\ \A d \in Elems(fifo'[s].queue) : <<e, d>> \in ItemOrder
        BY <2>3, <3>0, <3>3, Popped
      <3> HIDE DEF e
      <3>5. Taken(s)' \subseteq Taken(s)
        BY <3>2, <3>4 DEF Taken
      <3>6. \A d \in Taken(s)' : d.x[1] = (IF d.remote THEN Peer(s) ELSE s) /\ d.x[2] = main'[s].round
        BY <2>1, <3>5 DEF Lined
      <3>7. \A d \in Taken(s)' : d.remote => \A m \in Transit(s)' : m.round = main'[s].round => d.x[3] < Rank(m)
        BY <1>7, <2>1, <3>5
      <3> QED BY <3>2, <3>4, <3>6, <3>7 DEF Lined
    <2> QED BY <2>2, <2>3
  <1>16. ASSUME freeBuffer(s) PROVE Lined(s)'
    <2>1. main' = main /\ fifo' = fifo /\ firer'[s].item = NoItem
      BY <1>0, <1>16 DEF freeBuffer
    <2>2. Taken(s)' \subseteq Taken(s)
      BY <2>1 DEF Taken
    <2>3. \A d \in Taken(s)' : d.x[1] = (IF d.remote THEN Peer(s) ELSE s) /\ d.x[2] = main'[s].round
      BY <2>1, <2>2 DEF Lined
    <2>4. \A d \in Taken(s)' : d.remote => \A m \in Transit(s)' : m.round = main'[s].round => d.x[3] < Rank(m)
      BY <1>7, <2>1, <2>2
    <2>5. Sorted(fifo'[s].queue, ItemOrder)
      BY <2>1 DEF Lined
    <2> QED BY <2>1, <2>3, <2>4, <2>5 DEF Lined
  <1>17. Lined(s)'
    BY <1>9, <1>11, <1>13, <1>14, <1>15, <1>16 DEF Step
  <1> QED BY <1>1, <1>8, <1>17

-----------------------------------------------------------------------------
(* The exchange *)

RInv == IInv /\ Carried /\ \A s \in Servers : Lined(s)

LEMMA InitRInv ==
  ASSUME ConstantsOK, Init
  PROVE  RInv /\ \A s \in Servers : Bound(s) = {}
  <1>1. IInv
    BY InitIInv
  <1>2. ASSUME NEW s \in Servers PROVE Lined(s) /\ Bound(s) = {}
    <2>1. /\ wire[s] = <<>> /\ (\A r \in 1 .. Rounds : sub[s][r] = <<>>)
          /\ fifo[s].queue = <<>> /\ firer[s].item = NoItem
      BY DEF Init
    <2>2. Elems(<<>>) = {} /\ \A R : Sorted(<<>>, R)
      BY SMTT(30) DEF Elems, Sorted
    <2>3. Transit(s) = {} /\ Taken(s) = {}
      BY <2>1, <2>2 DEF Transit, Taken
    <2>4. Coming(s) = {} /\ InQueue(s) = {} /\ InHand(s) = {}
      BY <2>1, <2>2, <2>3, SMTT(30) DEF Coming, InQueue, InHand, NoItem
    <2>5. Lined(s)
      BY <2>1, <2>2, <2>3 DEF Lined
    <2> QED BY <2>4, <2>5 DEF Bound
  <1>3. consumed = {}
    BY DEF Init
  <1> QED BY <1>1, <1>2, <1>3 DEF RInv, Carried

LEMMA NextRInv ==
  ASSUME ConstantsOK, RInv, [Next]_vars
  PROVE  RInv'
  <1>1. IInv'
    BY NextIInv DEF RInv
  <1>2. CASE Next
    <2>1. Types /\ Carried /\ \A u \in Servers : Good(u) /\ Lined(u)
      BY DEF RInv, IInv, Good
    <2>2. PICK s \in Servers : Step(s)
      BY <1>2, Steps
    <2>3. Carried' /\ \A t \in Servers : Lined(t)'
      BY <2>1, <2>2, CarriedStep, LinedStep
    <2> QED BY <1>1, <2>3 DEF RInv
  <1>3. CASE UNCHANGED vars
    <2>1. /\ main' = main /\ firer' = firer /\ fifo' = fifo /\ sub' = sub /\ wire' = wire /\ consumed' = consumed
      BY <1>3 DEF vars
    <2>2. \A s \in Servers : Transit(s)' = Transit(s) /\ Taken(s)' = Taken(s)
      BY <2>1 DEF Transit, Taken
    <2>3. \A s \in Servers : Lined(s)'
      BY <2>1, <2>2 DEF RInv, Lined
    <2>4. \A s \in Servers : Bound(s)' = Bound(s) /\ Bound(Peer(s))' = Bound(Peer(s))
      BY <2>1, <2>2, Parts, Peers
    <2>5. \A x : Routed(x) => Routed(x)'
      BY <2>1 DEF Routed
    <2>6. Carried'
      BY <2>1, <2>4, <2>5 DEF RInv, Carried
    <2> QED BY <1>1, <2>3, <2>6 DEF RInv
  <1> QED BY <1>2, <1>3

\* The tuples under way are the ones bound for the servers.
LEMMA FlyingNow ==
  Types => InFlight = Bound(0) \cup Bound(1)
  <1> SUFFICES ASSUME Types PROVE InFlight = Bound(0) \cup Bound(1)
    OBVIOUS
  <1> DEFINE A(s) == {m.x : m \in {wire[s][i] : i \in 1 .. Len(wire[s])} \cup
                   UNION {{sub[s][r][i] : i \in 1 .. Len(sub[s][r])} : r \in 1 .. Rounds}}
             Q(s) == {fifo[s].queue[i].x : i \in 1 .. Len(fifo[s].queue)}
             On(s) == (A(s) \cup Q(s) \cup {firer[s].item.x}) \ {<<>>}
  <1>1. ASSUME NEW s \in Servers PROVE On(s) = Bound(s)
    <2>1. \A k \in 1 .. Len(fifo[s].queue) : fifo[s].queue[k] \in Items
      BY SMTT(30) DEF Types
    <2>2. <<>> \notin Q(s)
      BY <2>1, NoTuple DEF Items
    <2>3. InQueue(s) = Q(s) /\ Coming(s) = A(s) \ {<<>>}
      BY DEF InQueue, Coming, Transit, Elems
    <2>4. InHand(s) = {firer[s].item.x} \ {<<>>}
      BY DEF InHand
    <2> HIDE DEF A, Q
    <2> QED BY <2>2, <2>3, <2>4 DEF Bound
  <1>2. InFlight = UNION {On(s) : s \in Servers}
    BY DEF InFlight
  <1> HIDE DEF On
  <1>3. InFlight = On(0) \cup On(1)
    BY <1>2 DEF Servers
  <1> QED BY <1>1, <1>3 DEF Servers

LEMMA Flying ==
  ASSUME Types, Types'
  PROVE  InFlight = Bound(0) \cup Bound(1) /\ InFlight' = Bound(0)' \cup Bound(1)'
  <1>1. Types' => (InFlight = Bound(0) \cup Bound(1))'
    BY FlyingNow, PTL
  <1> QED BY <1>1, FlyingNow

Closed == \A s \in Servers : main[s].pc = "open" /\ main[s].round = Rounds

\* Nothing is under way when both servers have closed the last query.
LEMMA ClosedEmpty ==
  ConstantsOK /\ IInv /\ Closed => \A s \in Servers : Bound(s) = {}
  <1> SUFFICES ASSUME ConstantsOK, IInv, Closed, NEW s \in Servers PROVE Bound(s) = {}
    OBVIOUS
  <1>1. Types /\ Good(s) /\ Good(Peer(s)) /\ Phases(s)
    BY Peers DEF IInv, Good
  <1>2. Transit(s) = {}
    <2> SUFFICES ASSUME NEW m \in Transit(s) PROVE FALSE
      OBVIOUS
    <2>1. m.round \in 1 .. Rounds /\ m.round = Rounds + 1
      BY <1>1, Near DEF Closed
    <2> QED BY <2>1, SMTT(30) DEF ConstantsOK
  <1>3. fifo[s].queue = <<>> /\ firer[s].item = NoItem
    BY <1>1 DEF Phases, Closed
  <1>4. Elems(fifo[s].queue) = {}
    BY <1>3, SMTT(30) DEF Elems
  <1> QED BY <1>2, <1>3, <1>4, SMTT(30) DEF Bound, Coming, InQueue, InHand, NoItem

LEMMA ClosedStep ==
  ASSUME ConstantsOK, Types, NEW s \in Servers, Step(s)
  PROVE  \/ Closed' = Closed
         \/ Closed' /\ awaitDone(s)
  <1>1. \A t \in Servers : t # s => main'[t] = main[t]
    BY Local
  <1>2. main[s].round \in Int
    BY SMTT(30) DEF Types
  <1>3. CASE main' = main
    BY <1>3 DEF Closed
  <1>4. CASE Moved(s) /\ ~awaitDone(s)
    <2>1. ~(main[s].pc = "open" /\ main[s].round = Rounds)
      <3>1. open(s) => main[s].round < Rounds
        BY DEF open
      <3> QED BY <1>2, <1>4, <3>1, SMTT(30) DEF Moved, Pcs
    <2>2. main'[s].pc # "open"
      BY <1>4 DEF Moved, Pcs
    <2> QED BY <2>1, <2>2 DEF Closed
  <1>5. CASE Moved(s) /\ awaitDone(s)
    <2>1. main[s].pc # "open"
      BY <1>5 DEF awaitDone
    <2> QED BY <1>5, <2>1 DEF Closed
  <1> QED BY <1>3, <1>4, <1>5, Moves

LEMMA ClosedEmptyNext ==
  ASSUME ConstantsOK, IInv', Closed'
  PROVE  (\A s \in Servers : Bound(s) = {})'
  BY ClosedEmpty, PTL

\* A route step adds a tuple that was nowhere, a delivery takes one away, and the
\* second close ends the exchange.
LEMMA StepImplements ==
  ASSUME ConstantsOK, RInv, Next
  PROVE  Abstract!Next \/ UNCHANGED <<InFlight, consumed, Closed>>
  <1>1. RInv'
    BY NextRInv
  <1>2. /\ Types /\ Carried /\ \A u \in Servers : Good(u) /\ Lined(u)
        /\ Types' /\ IInv'
    BY <1>1 DEF RInv, IInv, Good
  <1>3. InFlight = Bound(0) \cup Bound(1) /\ InFlight' = Bound(0)' \cup Bound(1)'
    BY <1>2, Flying
  <1>4. ASSUME NEW d \in Servers
        PROVE  /\ InFlight = Bound(d) \cup Bound(Peer(d))
               /\ InFlight' = Bound(d)' \cup Bound(Peer(d))'
    <2>1. (d = 0 /\ Peer(d) = 1) \/ (d = 1 /\ Peer(d) = 0)
      BY SMTT(30) DEF Servers, Peer
    <2>2. CASE d = 0 /\ Peer(d) = 1
      BY <1>3, <2>2
    <2>3. CASE d = 1 /\ Peer(d) = 0
      BY <1>3, <2>3
    <2> QED BY <2>1, <2>2, <2>3
  <1>5. PICK s \in Servers : Step(s)
    BY Steps
  <1>6. Closed' = Closed \/ (Closed' /\ awaitDone(s))
    BY <1>2, <1>5, ClosedStep
  <1>7. /\ \A t \in Servers : \A x \in Bound(t) : Routed(x) /\ x \notin consumed /\ x \notin Bound(Peer(t))
        /\ \A x \in consumed : Routed(x)
    BY <1>2 DEF Carried
  <1>8. CASE Forwards
    <2>1. InFlight' = InFlight /\ consumed' = consumed
      BY <1>3, <1>8 DEF Forwards, Servers
    <2>2. CASE Closed' = Closed
      BY <2>1, <2>2
    <2>3. CASE Closed'
      <3>1. (\A t \in Servers : Bound(t) = {})'
        BY <1>2, <2>3, ClosedEmptyNext
      <3>2. InFlight = {}
        BY <1>3, <2>1, <3>1 DEF Servers
      <3>3. Abstract!Close
        BY <2>1, <2>3, <3>2 DEF Abstract!Close, Closed
      <3> QED BY <3>3 DEF Abstract!Next
    <2> QED BY <1>6, <2>2, <2>3
  <1>9. CASE Delivers(s)
    <2> DEFINE x == firer[s].item.x
    <2>1. /\ main' = main /\ x \in Tuples /\ x \in Bound(s) /\ Bound(s)' = Bound(s) \ {x}
          /\ Bound(Peer(s))' = Bound(Peer(s)) /\ consumed' = consumed \cup {x}
      BY <1>9 DEF Delivers
    <2> HIDE DEF x
    <2>2. x \notin Bound(Peer(s))
      BY <1>7, <2>1
    <2>3. InFlight' = InFlight \ {x} /\ x \in InFlight
      BY <1>4, <2>1, <2>2
    <2>4. Closed' = Closed
      BY <2>1 DEF Closed
    <2>5. Abstract!Deliver(x)
      BY <2>1, <2>3, <2>4 DEF Abstract!Deliver, Closed
    <2> QED BY <2>1, <2>5 DEF Abstract!Next
  <1>10. ASSUME NEW d \in Servers, Routes(s, d) PROVE Abstract!Next
    <2> DEFINE x == Fresh(s)
    <2>1. /\ Bound(d)' = Bound(d) \cup {x} /\ Bound(Peer(d))' = Bound(Peer(d)) /\ consumed' = consumed
          /\ main[s].pc = "route" /\ main[s].sent < PerRound /\ main'[s].pc = "route"
      BY <1>10 DEF Routes
    <2>2. ~Routed(x) /\ x \in Tuples
      BY <1>2, <2>1, FreshNotRouted, FreshTuple DEF Good
    <2> HIDE DEF x
    <2>3. x \notin consumed /\ x \notin Bound(d) /\ x \notin Bound(Peer(d))
      BY <1>7, <2>2, Peers
    <2>4. InFlight' = InFlight \cup {x} /\ x \notin InFlight
      BY <1>4, <2>1, <2>3
    <2>5. ~Closed /\ ~Closed'
      BY <2>1 DEF Closed
    <2>6. Abstract!Route(x)
      BY <2>1, <2>3, <2>4, <2>5 DEF Abstract!Route, Closed
    <2> QED BY <2>2, <2>6 DEF Abstract!Next
  <1> QED BY <1>2, <1>5, <1>8, <1>9, <1>10, Carrying, Peers

\* The two servers, with the network between them, are one exchange: a tuple
\* that either server sends to a server is fired there exactly once, and none
\* is under way when both have closed the last query.
THEOREM ExchangeRefinement ==
  ASSUME ConstantsOK
  PROVE  Spec => ImplementsExchange
  <1>1. Init => Abstract!Init
    <2> SUFFICES ASSUME Init PROVE Abstract!Init
      OBVIOUS
    <2>1. Types /\ \A s \in Servers : Bound(s) = {}
      BY InitRInv DEF RInv, IInv
    <2>2. InFlight = {}
      BY <2>1, FlyingNow DEF Servers
    <2>3. consumed = {} /\ ~Closed
      BY DEF Init, Closed, Servers, ConstantsOK
    <2> QED BY <2>2, <2>3 DEF Abstract!Init, Closed
  <1>2. Init => RInv
    BY InitRInv
  <1>3. RInv /\ [Next]_vars => RInv'
    BY NextRInv
  <1>4. RInv /\ [Next]_vars => [Abstract!Next]_<<InFlight, consumed, Closed>>
    <2>1. ASSUME UNCHANGED vars PROVE UNCHANGED <<InFlight, consumed, Closed>>
      BY <2>1, SMTT(30) DEF vars, InFlight, Closed
    <2> QED BY <2>1, StepImplements
  <1>5. RInv /\ [Next]_vars => [Abstract!Next]_(Abstract!exchangeVars)
    BY <1>4 DEF Abstract!exchangeVars, Closed
  <1> QED BY <1>1, <1>2, <1>3, <1>5, PTL DEF Spec, ImplementsExchange, Abstract!Spec
=============================================================================
