----------------------------- MODULE InfiniBand -----------------------------
(***************************************************************************)
(* One direction of an InfiniBand connection: the handler of the writing   *)
(* server and that of the receiving one.  The receiver offers buffers in   *)
(* batches of BuffNum; a write takes the next offered one, is posted at    *)
(* once and announced later, PackNotifications at a time or by a flush, by *)
(* a list of sizes written to one more buffer.  The receiver knows by      *)
(* order alone which buffers were written.  Queue pairs (external) deliver *)
(* and complete in order.                                                  *)
(***************************************************************************)
EXTENDS Integers, Sequences, FiniteSets, SequencesExt

CONSTANTS Writers,   \* threads calling write, write_silent and write_to
          NumWrites, \* writes in all
          BuffNum,   \* buffers per offer (2048 in the code)
          Pack       \* packNotifications (256)

Flusher == "flusher"
Nobody == "nobody"
Threads == Writers \cup {Flusher}
NoBuf == 0
LowWater == BuffNum \div 5 \* buffnum * 0.2

\* Packets of a notification: a named write, a silent one (size -1) and one
\* to an address of the caller's (size -bytes, of two bytes and more).
Kinds == {"write", "silent", "to"}

VARIABLES lock,      \* holder of write_promises_m
          thr,       \* threads of the writer: pc, kind of write, buffer in hand
          batch,     \* cnts: packets not yet announced
          actual,    \* actual_writes
          pend,      \* pend_buffers: offered buffers, in order
          requested, \* has_requested_buffers
          requests,  \* request tasks queued on the thread pool
          toB, toA,  \* posted and not yet delivered, either way
          promises,  \* write_promises: the buffer of a silent write or NoBuf
          completed, \* completions of writes not polled yet
          grants,    \* grant tasks of the receiver: allocated buffers
          offered,   \* send_buffers
          nextBuf,   \* blocks allocated by the receiver so far
          mem,       \* what was written to the receiver's buffers
          written,   \* values in the order of the writes
          published, \* values handed to subscribers
          silent,    \* buffers of silent writes reported complete
          said,      \* saidGoodBye of either server
          bye,       \* disconnect: none, waiting, confirmed or returned
          polling    \* whether the poller of either server runs

vars == <<lock, thr, batch, actual, pend, requested, requests, toB, toA, promises, completed,
          grants, offered, nextBuf, mem, written, published, silent, said, bye, polling>>
netVars == <<toB, toA, completed>>
writerVars == <<lock, thr, batch, actual, pend, requested, requests, promises, written>>
receiverVars == <<grants, offered, nextBuf, mem, published>>

Init ==
  /\ lock = Nobody /\ thr = [t \in Threads |-> [pc |-> "idle", kind |-> "write", buf |-> NoBuf]]
  /\ batch = <<>> /\ actual = 0 /\ pend = <<>> /\ requested = FALSE
  /\ requests = 1 \* the constructor asks for the first offer
  /\ toB = <<>> /\ toA = <<>> /\ promises = <<>> /\ completed = 0
  /\ grants = {} /\ offered = <<>> /\ nextBuf = 1 /\ mem = <<>>
  /\ written = <<>> /\ published = <<>> /\ silent = {}
  /\ said = [s \in {"A", "B"} |-> FALSE] /\ bye = [s \in {"A", "B"} |-> "none"]
  /\ polling = [s \in {"A", "B"} |-> TRUE]

----------------------------------------------------------------------------
\* The writer.

\* write, write_silent, write_to: everything happens under write_promises_m.
write(w, kind) ==
  /\ lock = Nobody /\ thr[w].pc = "idle" /\ Len(written) < NumWrites /\ ~said["A"]
  /\ lock' = w
  /\ thr' = [thr EXCEPT ![w] = [pc |-> IF kind = "to" THEN "post" ELSE "buffer", kind |-> kind, buf |-> NoBuf]]
  /\ UNCHANGED <<batch, actual, pend, requested, requests, netVars, promises, receiverVars, written, silent, said, bye, polling>>

get_bufferBack(t) ==
  /\ thr[t].pc \in {"buffer", "notebuffer"} /\ pend # <<>>
  /\ LET ask == Len(pend) = LowWater /\ ~requested IN
       /\ requested' = (requested \/ ask)
       /\ requests' = IF ask THEN requests + 1 ELSE requests
  /\ pend' = Front(pend)
  /\ thr' = [thr EXCEPT ![t].buf = Last(pend), ![t].pc = IF @ = "buffer" THEN "post" ELSE "note"]
  /\ UNCHANGED <<lock, batch, actual, netVars, promises, receiverVars, written, silent, said, bye, polling>>

\* get_buffer: the low-water mark is met exactly once per offer; the request
\* goes through the thread pool, and the writer waits while nothing is left.
get_buffer(t) ==
  /\ thr[t].pc \in {"buffer", "notebuffer"} /\ pend # <<>>
  /\ LET ask == Len(pend) = LowWater /\ ~requested IN
       /\ requested' = (requested \/ ask)
       /\ requests' = IF ask THEN requests + 1 ELSE requests
  /\ pend' = Tail(pend)
  /\ thr' = [thr EXCEPT ![t].buf = Head(pend), ![t].pc = IF @ = "buffer" THEN "post" ELSE "note"]
  /\ UNCHANGED <<lock, batch, actual, netVars, promises, receiverVars, written, silent, said, bye, polling>>

\* write_to_int after the packet is listed: post the data and, when the list
\* is long enough, announce it before the lock is dropped.
write_to_int(w) ==
  LET v == Len(written) + 1
      k == thr[w].kind
      full == (Len(batch) + 1) % Pack = 0
  IN
  /\ thr[w].pc = "post"
  /\ batch' = Append(batch, [kind |-> k, value |-> v])
  /\ actual' = IF k = "to" THEN actual ELSE actual + 1
  /\ written' = Append(written, [kind |-> k, value |-> v])
  /\ promises' = Append(promises, IF k = "silent" THEN thr[w].buf ELSE NoBuf)
  /\ toB' = Append(toB, [op |-> "data", buf |-> thr[w].buf, body |-> <<[kind |-> k, value |-> v]>>, imm |-> 0])
  /\ thr' = [thr EXCEPT ![w].pc = IF full THEN "notebuffer" ELSE "idle", ![w].buf = NoBuf]
  /\ lock' = IF full THEN lock ELSE Nobody
  /\ UNCHANGED <<pend, requested, requests, toA, completed, receiverVars, silent, said, bye, polling>>

\* flush(), by the flusher thread until this side said good bye and by a
\* writer that has nothing more to write.
flush(t) ==
  /\ lock = Nobody /\ thr[t].pc = "idle" /\ batch # <<>>
  /\ IF t = Flusher THEN ~said["A"] ELSE Len(written) = NumWrites
  /\ lock' = t
  /\ thr' = [thr EXCEPT ![t].pc = "notebuffer"]
  /\ UNCHANGED <<batch, actual, pend, requested, requests, netVars, promises, receiverVars, written, silent, said, bye, polling>>

\* flush_write: the list goes to a buffer of its own; the immediate says how
\* many offered buffers lie before that one.
flush_write(t) ==
  /\ thr[t].pc = "note"
  /\ toB' = Append(toB, [op |-> "note", buf |-> thr[t].buf, body |-> batch, imm |-> actual])
  /\ promises' = Append(promises, NoBuf)
  /\ batch' = <<>> /\ actual' = 0
  /\ thr' = [thr EXCEPT ![t].pc = "idle", ![t].buf = NoBuf]
  /\ lock' = Nobody
  /\ UNCHANGED <<pend, requested, requests, toA, completed, receiverVars, written, silent, said, bye, polling>>

request_buffers_unsafe ==
  /\ requests > 0
  /\ requests' = requests - 1
  /\ toB' = Append(toB, [op |-> "request", buf |-> NoBuf, body |-> 0, imm |-> 1])
  /\ UNCHANGED <<lock, thr, batch, actual, pend, requested, toA, promises, completed, receiverVars, written, silent, said, bye, polling>>

pollWriteNewest ==
  /\ completed > 0
  /\ completed' = completed - 1
  /\ promises' = Front(promises)
  /\ silent' = silent \cup ({Last(promises)} \ {NoBuf})
  /\ UNCHANGED <<lock, thr, batch, actual, pend, requested, requests, toB, toA, receiverVars, written, said, bye, polling>>

\* IBPoller::run on a completed write: its promise is fulfilled.
pollWrite ==
  /\ completed > 0
  /\ completed' = completed - 1
  /\ promises' = Tail(promises)
  /\ silent' = silent \cup ({Head(promises)} \ {NoBuf})
  /\ UNCHANGED <<lock, thr, batch, actual, pend, requested, requests, toB, toA, receiverVars, written, said, bye, polling>>

\* handle_wc_recv on the writer: an offer (2) or the good bye (0).
receiveOffer ==
  /\ toA # <<>> /\ Head(toA).op = "offer"
  /\ pend' = pend \o Head(toA).body
  /\ requested' = FALSE
  /\ toA' = Tail(toA)
  /\ UNCHANGED <<lock, thr, batch, actual, requests, toB, promises, completed, receiverVars, written, silent, said, bye, polling>>

----------------------------------------------------------------------------
\* The receiver.

\* The card writes the data; nobody at the receiver notices.
landData ==
  /\ toB # <<>> /\ Head(toB).op = "data"
  /\ mem' = IF Head(toB).buf = NoBuf THEN mem ELSE [mem EXCEPT ![Head(toB).buf] = Head(toB).body]
  /\ completed' = completed + 1
  /\ toB' = Tail(toB)
  /\ UNCHANGED <<writerVars, toA, grants, offered, nextBuf, published, silent, said, bye, polling>>

\* What is published for a list of packets: the packets that own a buffer
\* take the offered ones in turn.
Publish(list, bufs, m) ==
  LET Before(i) == Cardinality({j \in 1 .. i - 1 : list[j].kind # "to"})
      Got(i) == IF list[i].kind = "to" THEN list[i].value ELSE m[bufs[Before(i) + 1]][1].value
  IN SelectSeq([i \in 1 .. Len(list) |-> [kind |-> list[i].kind, value |-> Got(i)]],
               LAMBDA p : p.kind # "silent")

\* handle_wc_recv on an announcement: the list is read from the offered
\* buffer the immediate points at, and the offered buffers up to it are used up.
landNote ==
  LET note == Head(toB) IN
  /\ toB # <<>> /\ note.op = "note"
  /\ LET m == [mem EXCEPT ![note.buf] = note.body]
         list == m[offered[note.imm + 1]]
         owning == Cardinality({i \in 1 .. Len(list) : list[i].kind # "to"})
     IN /\ published' = published \o Publish(list, offered, m)
        /\ offered' = SubSeq(offered, owning + 2, Len(offered))
        /\ mem' = m
  /\ completed' = completed + 1
  /\ toB' = Tail(toB)
  /\ UNCHANGED <<writerVars, toA, grants, nextBuf, silent, said, bye, polling>>

\* A request starts a task that allocates an offer under buffmgmnt and then
\* sends it without the lock.
landRequest ==
  /\ toB # <<>> /\ Head(toB).op = "request"
  /\ grants' = grants \cup {[id |-> Cardinality(grants), bufs |-> <<>>]}
  /\ toB' = Tail(toB)
  /\ UNCHANGED <<writerVars, toA, completed, offered, nextBuf, mem, published, silent, said, bye, polling>>

allocateOffer(g) ==
  LET bufs == [i \in 1 .. BuffNum |-> nextBuf + i - 1] IN
  /\ g.bufs = <<>>
  /\ grants' = (grants \ {g}) \cup {[g EXCEPT !.bufs = bufs]}
  /\ offered' = offered \o bufs
  /\ nextBuf' = nextBuf + BuffNum
  /\ mem' = mem \o [i \in 1 .. BuffNum |-> <<>>]
  /\ UNCHANGED <<writerVars, netVars, published, silent, said, bye, polling>>

sendOffer(g) ==
  /\ g.bufs # <<>>
  /\ grants' = grants \ {g}
  /\ toA' = Append(toA, [op |-> "offer", body |-> g.bufs])
  /\ UNCHANGED <<writerVars, toB, completed, offered, nextBuf, mem, published, silent, said, bye, polling>>

----------------------------------------------------------------------------
\* Good bye, on either server s.

GoodBye(q) == Append(q, [op |-> "bye", buf |-> NoBuf, body |-> <<>>, imm |-> 0])

\* The writer leaves when its writes are announced, the receiver when it has
\* what it waited for.
Finished(s) ==
  IF s = "A" THEN Len(written) = NumWrites /\ batch = <<>> /\ lock = Nobody
             ELSE Len(published) = Cardinality({i \in 1 .. Len(written) : written[i].kind # "silent"})
                  /\ Len(written) = NumWrites

disconnect(s) ==
  /\ bye[s] \in {"none", "confirmed"} /\ Finished(s)
  /\ said' = [said EXCEPT ![s] = TRUE]
  /\ toA' = IF s = "B" THEN GoodBye(toA) ELSE toA
  /\ toB' = IF s = "A" THEN GoodBye(toB) ELSE toB
  /\ bye' = [bye EXCEPT ![s] = IF @ = "confirmed" THEN "returned" ELSE "waiting"]
  /\ UNCHANGED <<writerVars, completed, receiverVars, silent, polling>>

\* handle_wc_recv on a good bye: answer it unless this side already said it,
\* then release whoever waits in disconnect.
receiveGoodBye(s) ==
  LET inbox == IF s = "A" THEN toA ELSE toB IN
  /\ inbox # <<>> /\ Head(inbox).op = "bye" /\ bye[s] \in {"none", "waiting"}
  /\ toA' = IF s = "A" THEN Tail(toA) ELSE IF said["B"] THEN toA ELSE GoodBye(toA)
  /\ toB' = IF s = "B" THEN Tail(toB) ELSE IF said["A"] THEN toB ELSE GoodBye(toB)
  /\ said' = [said EXCEPT ![s] = TRUE]
  /\ bye' = [bye EXCEPT ![s] = IF @ = "waiting" THEN "returned" ELSE "confirmed"]
  /\ UNCHANGED <<writerVars, completed, receiverVars, silent, polling>>

\* IBPoller::run ends when it has handled a good bye and finds nothing more completed;
\* what arrives later stays where it is.
bailOut(s) ==
  /\ polling[s] /\ bye[s] \in {"confirmed", "returned"} /\ (s = "A" => completed = 0)
  /\ polling' = [polling EXCEPT ![s] = FALSE]
  /\ UNCHANGED <<writerVars, netVars, receiverVars, silent, said, bye>>

----------------------------------------------------------------------------
WriterStep(t) == get_buffer(t) \/ write_to_int(t) \/ flush(t) \/ flush_write(t)
PollA == polling["A"] /\ (pollWrite \/ receiveOffer \/ receiveGoodBye("A") \/ bailOut("A"))
PollB == polling["B"] /\ (landNote \/ landRequest \/ receiveGoodBye("B") \/ bailOut("B"))
GrantStep == \E g \in grants : allocateOffer(g) \/ sendOffer(g)

Next ==
  \/ \E t \in Threads : WriterStep(t)
  \/ \E w \in Writers, k \in Kinds : write(w, k)
  \/ request_buffers_unsafe \/ landData \/ PollA \/ PollB \/ GrantStep
  \/ \E s \in {"A", "B"} : disconnect(s)

Spec == Init /\ [][Next]_vars

\* Threads that hold the lock, the flusher, both pollers, the card and the tasks of
\* the thread pool keep running; the callers do write and do disconnect.
FairSpec ==
  /\ Spec
  /\ \A t \in Threads : WF_vars(WriterStep(t))
  /\ \A w \in Writers : WF_vars(\E k \in Kinds : write(w, k))
  /\ WF_vars(request_buffers_unsafe)
  /\ WF_vars(landData) /\ WF_vars(PollA) /\ WF_vars(PollB) /\ WF_vars(GrantStep)
  /\ \A s \in {"A", "B"} : WF_vars(disconnect(s))

----------------------------------------------------------------------------
\* Properties.

\* One thread at a time works on the list of packets, the list never exceeds
\* a pack and at most one request is outstanding.
InfiniBandTypeOK ==
  /\ \A t \in Threads : thr[t].pc # "idle" <=> lock = t
  /\ Len(batch) <= Pack /\ actual \in 0 .. Len(batch)
  /\ requests + Cardinality(grants) + Cardinality({i \in 1 .. Len(toB) : toB[i].op = "request"})
       + Cardinality({i \in 1 .. Len(toA) : toA[i].op = "offer"}) <= 1
  /\ completed \in 0 .. Len(promises)

BufsOf(q) == LET posted == SelectSeq(q, LAMBDA m : m.op \in {"data", "note"} /\ m.buf # NoBuf)
             IN [i \in 1 .. Len(posted) |-> posted[i].buf]
InHand == IF lock = Nobody \/ thr[lock].buf = NoBuf THEN <<>> ELSE <<thr[lock].buf>>
OnTheWay == FlattenSeq([i \in 1 .. Len(toA) |-> IF toA[i].op = "offer" THEN toA[i].body ELSE <<>>])
Granting == IF \E g \in grants : TRUE THEN (CHOOSE g \in grants : TRUE).bufs ELSE <<>>

\* Both servers agree on the order of the offered buffers without ever naming
\* one: those the receiver still counts as offered end with the ones posted
\* but not landed, in hand, pending, on the way and being granted.
OffersAgree ==
  IsSuffix(BufsOf(toB) \o InHand \o pend \o OnTheWay \o Granting, offered)

\* Subscribers get every named write and every write_to, in the order of the
\* writes and with the data that was written, however packets were batched
\* (handle_wc_recv finds list and data by position only).
PublishedInOrder ==
  IsPrefix(published, SelectSeq(written, LAMBDA p : p.kind # "silent"))

\* A silent write is reported complete to its caller only when its data is in
\* the remote buffer the caller is given.
SilentLanded == \A b \in silent : mem[b] # <<>>

\* The receiver said good bye before the last silent writes were announced: the poller of
\* the writer left with an offer unread that the announcing thread waits for.
Stranded ==
  /\ ~polling["A"] /\ pend = <<>> /\ \E t \in Threads : thr[t].pc = "notebuffer"
  /\ \A i \in DOMAIN batch : batch[i].kind = "silent"

\* Every write is announced and published, and both servers' disconnect()
\* returns: the low-water request always arrives before the writer starves.  Only a
\* receiver that leaves while silent writes are not announced may strand the writer, and
\* then all others are published (IBPoller::run, infiniband-handler.cpp:273).
ConnectionDrains ==
  <>(/\ Len(written) = NumWrites
     /\ published = SelectSeq(written, LAMBDA p : p.kind # "silent")
     /\ (\A s \in {"A", "B"} : bye[s] = "returned") \/ Stranded)
=============================================================================
