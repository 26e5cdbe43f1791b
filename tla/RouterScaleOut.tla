--------------------------- MODULE RouterScaleOut ---------------------------
(***************************************************************************)
(* The scale-out router: the same exchange across two servers.  On each,   *)
(* one pipeline instance produces, one firer consumes (Router::fire) and   *)
(* one firer receives what the peer writes to this router's InfiniBand     *)
(* subscription.  Sizes 3 and 2 are control messages.  Free pool and       *)
(* ready_fifo are here by what they promise (see Router), the network by a *)
(* FIFO wire per direction (see InfiniBand); both servers run the same     *)
(* Rounds of queries, one subscription each.                               *)
(***************************************************************************)
EXTENDS Integers, Sequences, FiniteSets

CONSTANTS Slack,    \* local buffers of a server
          PerRound, \* tuples a server routes in one query
          Rounds    \* queries run one after the other

Servers == {0, 1}
Peer(s) == 1 - s
Tuples == Servers \X (1 .. Rounds) \X (1 .. PerRound)
BufSize == 8 \* bytes of a tuple on the wire, never 2 or 3
NoItem == [x |-> <<>>, remote |-> FALSE]

VARIABLES main,     \* the producing pipeline: pc, round, tuples routed
          firer,    \* consuming firer: pc and the item in hand
          receiver, \* receiving firer: pc
          free,     \* local buffers in the free pool
          fifo,     \* ready_fifo: queue and closing
          closed,   \* the counter of ended inputs
          sub,      \* named subscriptions of a server, by round
          wire,     \* written to a server, not published there yet
          blocks,   \* received blocks not given back to the block manager
          consumed  \* tuples the consumers got

vars == <<main, firer, receiver, free, fifo, closed, sub, wire, blocks, consumed>>

Init ==
  /\ main = [s \in Servers |-> [pc |-> "open", round |-> 0, sent |-> 0]]
  /\ firer = [s \in Servers |-> [pc |-> "none", item |-> NoItem]]
  /\ receiver = [s \in Servers |-> "none"]
  /\ free = [s \in Servers |-> 0]
  /\ fifo = [s \in Servers |-> [queue |-> <<>>, closing |-> FALSE]]
  /\ closed = [s \in Servers |-> 0]
  /\ sub = [s \in Servers |-> [r \in 1 .. Rounds |-> <<>>]]
  /\ wire = [s \in Servers |-> <<>>]
  /\ blocks = [s \in Servers |-> 0]
  /\ consumed = {}

----------------------------------------------------------------------------
\* The network.

Write(s, size, x) ==
  wire' = [wire EXCEPT ![Peer(s)] = Append(@, [round |-> main[s].round, size |-> size, x |-> x])]

\* The poller publishes what was flushed, in the order it was written.  The
\* subscription exists from then on even if this server has not opened yet.
Publish(s) ==
  /\ wire[s] # <<>>
  /\ sub' = [sub EXCEPT ![s][Head(wire[s]).round] = Append(@, Head(wire[s]))]
  /\ wire' = [wire EXCEPT ![s] = Tail(@)]
  /\ blocks' = [blocks EXCEPT ![s] = @ + 1]
  /\ UNCHANGED <<main, firer, receiver, free, fifo, closed, consumed>>

Inbox(s) == sub[s][main[s].round]

PopInbox(s) == sub' = [sub EXCEPT ![s][main[s].round] = Tail(@)]

----------------------------------------------------------------------------
\* The producing pipeline.

Go(s, pc) == main' = [main EXCEPT ![s].pc = pc]

open(s) ==
  /\ main[s].pc = "open" /\ main[s].round < Rounds
  /\ main' = [main EXCEPT ![s] = [pc |-> "route", round |-> @.round + 1, sent |-> 0]]
  /\ fifo' = [fifo EXCEPT ![s].closing = FALSE]
  /\ firer' = [firer EXCEPT ![s].pc = "loop"]
  /\ free' = [free EXCEPT ![s] = Slack]
  /\ receiver' = [receiver EXCEPT ![s] = "wait"]
  /\ UNCHANGED <<closed, sub, wire, blocks, consumed>>

\* consume: a local tuple waits for a free buffer, a remote one is written
\* from a fresh block.
routeLocal(s) ==
  /\ main[s].pc = "route" /\ main[s].sent < PerRound /\ free[s] > 0
  /\ free' = [free EXCEPT ![s] = @ - 1]
  /\ fifo' = [fifo EXCEPT ![s].queue =
               Append(@, [x |-> <<s, main[s].round, main[s].sent + 1>>, remote |-> FALSE])]
  /\ main' = [main EXCEPT ![s].sent = @ + 1]
  /\ UNCHANGED <<firer, receiver, closed, sub, wire, blocks, consumed>>

routeRemote(s) ==
  /\ main[s].pc = "route" /\ main[s].sent < PerRound
  /\ Write(s, BufSize, <<s, main[s].round, main[s].sent + 1>>)
  /\ main' = [main EXCEPT ![s].sent = @ + 1]
  /\ UNCHANGED <<firer, receiver, free, fifo, closed, sub, blocks, consumed>>

\* close: whoever ends second, this pipeline or the receiver, closes the queue.
close(s) ==
  /\ main[s].pc = "route" /\ main[s].sent = PerRound
  /\ closed' = [closed EXCEPT ![s] = @ + 1]
  /\ fifo' = [fifo EXCEPT ![s].closing = @ \/ closed[s] = 1]
  /\ Go(s, IF closed[s] = 1 THEN "drain" ELSE "tell")
  /\ UNCHANGED <<firer, receiver, free, sub, wire, blocks, consumed>>

fifoDrained(s) ==
  /\ main[s].pc = "drain" /\ fifo[s].queue = <<>>
  /\ Go(s, "tell")
  /\ UNCHANGED <<firer, receiver, free, fifo, closed, sub, wire, blocks, consumed>>

\* "You are now allowed to proceed to your close statement."
tellProceed(s) ==
  /\ main[s].pc = "tell"
  /\ Write(s, 3, <<>>)
  /\ Go(s, "join")
  /\ UNCHANGED <<firer, receiver, free, fifo, closed, sub, blocks, consumed>>

\* The firers are joined, then the peer is told that this server is done.
tellDone(s) ==
  /\ main[s].pc = "join" /\ firer[s].pc = "done" /\ receiver[s] = "done"
  /\ Write(s, 2, <<>>)
  /\ Go(s, "await")
  /\ UNCHANGED <<firer, receiver, free, fifo, closed, sub, blocks, consumed>>

awaitDoneKeep(s) ==
  /\ main[s].pc = "await" /\ Inbox(s) # <<>>
  /\ PopInbox(s)
  /\ blocks' = [blocks EXCEPT ![s] = @ - 1]
  /\ Go(s, "open")
  /\ UNCHANGED <<firer, receiver, free, fifo, closed, wire, consumed>>

awaitDone(s) ==
  /\ main[s].pc = "await" /\ Inbox(s) # <<>>
  /\ PopInbox(s)
  /\ blocks' = [blocks EXCEPT ![s] = @ - 1]
  /\ closed' = [closed EXCEPT ![s] = 0]
  /\ Go(s, "open")
  /\ UNCHANGED <<firer, receiver, free, fifo, wire, consumed>>

----------------------------------------------------------------------------
\* The receiving firer: get_ready for the peer's target.

receiveDataDrop(s) ==
  /\ receiver[s] = "wait" /\ Inbox(s) # <<>> /\ Head(Inbox(s)).size # 3
  /\ PopInbox(s)
  /\ blocks' = [blocks EXCEPT ![s] = @ - 1]
  /\ UNCHANGED <<main, firer, receiver, free, fifo, closed, wire, consumed>>

receiveData(s) ==
  /\ receiver[s] = "wait" /\ Inbox(s) # <<>> /\ Head(Inbox(s)).size # 3
  /\ PopInbox(s)
  /\ fifo' = [fifo EXCEPT ![s].queue = Append(@, [x |-> Head(Inbox(s)).x, remote |-> TRUE])]
  /\ UNCHANGED <<main, firer, receiver, free, closed, wire, blocks, consumed>>

receiveProceedLeak(s) ==
  /\ receiver[s] = "wait" /\ Inbox(s) # <<>> /\ Head(Inbox(s)).size = 3
  /\ PopInbox(s)
  /\ closed' = [closed EXCEPT ![s] = @ + 1]
  /\ fifo' = [fifo EXCEPT ![s].closing = @ \/ closed[s] = 1]
  /\ receiver' = [receiver EXCEPT ![s] = IF closed[s] = 1 THEN "drain" ELSE "done"]
  /\ UNCHANGED <<main, firer, free, wire, blocks, consumed>>

receiveProceed(s) ==
  /\ receiver[s] = "wait" /\ Inbox(s) # <<>> /\ Head(Inbox(s)).size = 3
  /\ PopInbox(s)
  /\ closed' = [closed EXCEPT ![s] = @ + 1]
  /\ fifo' = [fifo EXCEPT ![s].closing = @ \/ closed[s] = 1]
  /\ receiver' = [receiver EXCEPT ![s] = IF closed[s] = 1 THEN "drain" ELSE "done"]
  /\ blocks' = [blocks EXCEPT ![s] = @ - 1]
  /\ UNCHANGED <<main, firer, free, wire, consumed>>

receiverDrained(s) ==
  /\ receiver[s] = "drain" /\ fifo[s].queue = <<>>
  /\ receiver' = [receiver EXCEPT ![s] = "done"]
  /\ UNCHANGED <<main, firer, free, fifo, closed, sub, wire, blocks, consumed>>

----------------------------------------------------------------------------
\* The consuming firer.

get_ready(s) ==
  /\ firer[s].pc = "loop"
  /\ \/ /\ fifo[s].queue # <<>>
        /\ firer' = [firer EXCEPT ![s] = [pc |-> "consume", item |-> Head(fifo[s].queue)]]
        /\ fifo' = [fifo EXCEPT ![s].queue = Tail(@)]
     \/ /\ fifo[s].queue = <<>> /\ fifo[s].closing
        /\ firer' = [firer EXCEPT ![s].pc = "drain"]
        /\ UNCHANGED fifo
  /\ UNCHANGED <<main, receiver, free, closed, sub, wire, blocks, consumed>>

\* The tuple is consumed and freeBuffer tells by the tag bit whether the
\* buffer is a local one or a received block.
freeBuffer(s) ==
  /\ firer[s].pc = "consume"
  /\ consumed' = consumed \cup {firer[s].item.x}
  /\ IF firer[s].item.remote
       THEN blocks' = [blocks EXCEPT ![s] = @ - 1] /\ UNCHANGED free
       ELSE free' = [free EXCEPT ![s] = @ + 1] /\ UNCHANGED blocks
  /\ firer' = [firer EXCEPT ![s] = [pc |-> "loop", item |-> NoItem]]
  /\ UNCHANGED <<main, receiver, fifo, closed, sub, wire>>

drain(s) ==
  /\ firer[s].pc = "drain" /\ free[s] = Slack
  /\ free' = [free EXCEPT ![s] = 0]
  /\ firer' = [firer EXCEPT ![s].pc = "done"]
  /\ UNCHANGED <<main, receiver, fifo, closed, sub, wire, blocks, consumed>>

----------------------------------------------------------------------------
MainStep(s) == \/ open(s) \/ routeLocal(s) \/ routeRemote(s) \/ close(s) \/ fifoDrained(s)
               \/ tellProceed(s) \/ tellDone(s) \/ awaitDone(s)
ReceiverStep(s) == receiveData(s) \/ receiveProceed(s) \/ receiverDrained(s)
FirerStep(s) == get_ready(s) \/ freeBuffer(s) \/ drain(s)

Next == \E s \in Servers : MainStep(s) \/ ReceiverStep(s) \/ FirerStep(s) \/ Publish(s)

Spec == Init /\ [][Next]_vars

\* Threads keep running and what is written is published: close() flushes,
\* and the handler's flusher thread does so every 10 ms.
FairSpec == /\ Spec
            /\ \A s \in Servers : /\ WF_vars(MainStep(s)) /\ WF_vars(ReceiverStep(s))
                                  /\ WF_vars(FirerStep(s)) /\ WF_vars(Publish(s))

----------------------------------------------------------------------------
\* Properties.

\* Counters stay in range: no more than Slack local buffers circulate and at
\* most two inputs of a server end in one query.
ScaleOutTypeOK ==
  \A s \in Servers :
    /\ main[s].round \in 0 .. Rounds /\ main[s].sent \in 0 .. PerRound
    /\ free[s] \in 0 .. Slack /\ closed[s] \in 0 .. 2
    /\ blocks[s] \in 0 .. Cardinality(Tuples) + 2 * Rounds

\* The assertions of router-scaleout.cpp:89 and 178: the receiver never meets
\* the peer's "done", and close() waits for nothing but it.
ControlInOrder ==
  \A s \in Servers : main[s].round > 0 /\ Inbox(s) # <<>> =>
    /\ receiver[s] = "wait" => Head(Inbox(s)).size # 2
    /\ main[s].pc = "await" => Head(Inbox(s)).size = 2

\* Between two queries nothing is left over: local buffers, queue, counter and
\* received blocks of this query are all back (the peer may already have
\* sent blocks of the next one).
RoundLeavesNothing ==
  \A s \in Servers : main[s].pc = "open" /\ main[s].round > 0 =>
    /\ free[s] = 0 /\ fifo[s].queue = <<>> /\ closed[s] = 0 /\ Inbox(s) = <<>>
    /\ blocks[s] = IF main[s].round = Rounds THEN 0 ELSE Len(sub[s][main[s].round + 1])

InFlight ==
  UNION {({m.x : m \in {wire[s][i] : i \in 1 .. Len(wire[s])} \cup
                   UNION {{sub[s][r][i] : i \in 1 .. Len(sub[s][r])} : r \in 1 .. Rounds}}
           \cup {fifo[s].queue[i].x : i \in 1 .. Len(fifo[s].queue)}
           \cup {firer[s].item.x}) \ {<<>>} : s \in Servers}

Abstract == INSTANCE Exchange WITH inflight <- InFlight, delivered <- consumed,
  closed <- \A s \in Servers : main[s].pc = "open" /\ main[s].round = Rounds

\* Across both servers and all queries the scale-out router is an exchange:
\* every tuple is consumed exactly once, and none is in a wire, a subscription
\* or a queue when both servers have closed.
ImplementsExchange == Abstract!Spec

\* The closing handshake cannot hang: both servers finish every query.
BothServersClose ==
  <>[](consumed = Tuples /\ \A s \in Servers : main[s].pc = "open" /\ main[s].round = Rounds)
=============================================================================
