------------------------------ MODULE MemMove ------------------------------
(***************************************************************************)
(* The mem-move operators: a producing pipeline hands a block over to a    *)
(* catcher thread through recycled work units, after asynchronous copies   *)
(* to the targets have been started on CUDA streams.  MemMoveDevice serves *)
(* one target; MemBroadcastDevice serves several and copies once per NUMA  *)
(* node, sharing the copy (or, with always_share, the source) by reference *)
(* counts.  Streams and events are external: copies on a stream complete   *)
(* in order, an event stands for the copies issued before it was recorded. *)
(***************************************************************************)
EXTENDS Integers, Sequences, FiniteSets

CONSTANTS Blocks,     \* blocks of the block manager
          NumTargets, \* targets of a broadcast, 0 .. NumTargets - 1
          NumaNodes,  \* memory nodes 0 .. NumaNodes - 1; the next one is a GPU
          Slack,      \* work units
          NumInputs   \* blocks the child produces

Nodes == 0 .. NumaNodes - 1
Gpu == NumaNodes
None == "none"
NoUnit == [new |-> None, old |-> None, value |-> 0, stream |-> 0, event |-> 0]

VARIABLES mode,     \* "move" (MemMoveDevice), "broadcast" or "share" (always_share)
          refs,     \* reference count of a block, 0 when it is free
          content,  \* the input whose data a block holds, 0 when it is stale
          issued,   \* copies issued on every stream
          pending,  \* copies not done yet, oldest first, of every stream
          idle,     \* idle work units
          tran,     \* propagated work units and closing
          cache,    \* targetbuffer: the copy made of this input, by node
          main,     \* producing pipeline: pc, input number, source, node, target, pushed buffers
          catcher,    \* catcher: pc and work unit in hand
          seen      \* outputs of the catcher: <<input, content read>>

vars == <<mode, refs, content, issued, pending, idle, tran, cache, main, catcher, seen>>

Targets == IF mode = "move" THEN {0} ELSE 0 .. NumTargets - 1
LastTarget == IF mode = "move" THEN 0 ELSE NumTargets - 1
Streams == 0 .. NumTargets - 1
Offset(t) == t % NumaNodes
Done(st) == issued[st] - Len(pending[st])
\* The block that the block manager hands out next; it reuses free blocks first.
FreeBlock(b) == refs[b] = 0 /\ b = CHOOSE c \in Blocks : refs[c] = 0

Init ==
  /\ mode \in {"move", "broadcast", "share"}
  /\ refs = [b \in Blocks |-> 0] /\ content = [b \in Blocks |-> 0]
  /\ issued = [st \in Streams |-> 0] /\ pending = [st \in Streams |-> <<>>]
  /\ idle = 0
  /\ tran = [queue |-> <<>>, closing |-> FALSE]
  /\ cache = [n \in Nodes |-> None]
  /\ main = [pc |-> "open", input |-> 0, src |-> None, node |-> 0, target |-> 0, pushed |-> <<>>]
  /\ catcher = [pc |-> "none", unit |-> NoUnit]
  /\ seen = {}

----------------------------------------------------------------------------
\* The producing pipeline.

open ==
  /\ main.pc = "open"
  /\ idle' = Slack
  /\ main' = [main EXCEPT !.pc = "next"]
  /\ catcher' = [catcher EXCEPT !.pc = "wait"]
  /\ UNCHANGED <<mode, refs, content, issued, pending, tran, cache, seen>>

\* The child produces a block it owns, on some node, of a field that is to be moved (no
\* plan has lazy ones: plan-parser.cpp refuses them).  prepareNextBatch forgets the
\* copies of the previous block.
input(b, n) ==
  /\ main.pc = "next" /\ main.input < NumInputs /\ FreeBlock(b)
  /\ refs' = [refs EXCEPT ![b] = 1]
  /\ content' = [content EXCEPT ![b] = main.input + 1]
  /\ cache' = [c \in Nodes |-> None]
  /\ main' = [main EXCEPT !.pc = "push", !.input = @ + 1, !.src = b, !.node = n, !.target = 0, !.pushed = <<>>]
  /\ UNCHANGED <<mode, issued, pending, idle, tran, catcher, seen>>

Pushed(buf) ==
  main' = [main EXCEPT !.pushed = Append(@, buf),
                       !.target = IF @ = LastTarget THEN 0 ELSE @ + 1,
                       !.pc = IF main.target = LastTarget THEN "propagate" ELSE "push"]

\* force_push: a fresh block and an asynchronous copy on the target's stream.
force_push(b, st) ==
  /\ FreeBlock(b)
  /\ refs' = [refs EXCEPT ![b] = 1]
  /\ content' = [content EXCEPT ![b] = 0]
  /\ issued' = [issued EXCEPT ![st] = @ + 1]
  /\ pending' = [pending EXCEPT ![st] = Append(@, [from |-> main.src, to |-> b])]

\* MemMoveDevice::push.
push ==
  /\ main.pc = "push" /\ mode = "move"
  /\ \/ /\ main.node = Offset(0)
        /\ Pushed(main.src)
        /\ UNCHANGED <<refs, content, issued, pending>>
     \/ /\ main.node # Offset(0)
        /\ \E b \in Blocks : force_push(b, 0) /\ Pushed(b)
  /\ UNCHANGED <<mode, idle, tran, cache, catcher, seen>>

\* pushBroadcast: share the source where it is good enough, else the copy of
\* this node, else copy; a GPU source is always copied.
pushBroadcast ==
  LET off == Offset(main.target)
      target == IF main.node # Gpu /\ (mode = "share" \/ main.node = off) THEN main.src ELSE cache[off]
  IN
  /\ main.pc = "push" /\ mode # "move"
  /\ IF target = None \/ main.node = Gpu
       THEN \E b \in Blocks : /\ force_push(b, off) /\ Pushed(b)
                              /\ cache' = [cache EXCEPT ![off] = b]
       ELSE /\ cache' = [cache EXCEPT ![off] = target]
            /\ refs' = [refs EXCEPT ![target] = @ + 1]
            /\ Pushed(target)
            /\ UNCHANGED <<content, issued, pending>>
  /\ UNCHANGED <<mode, idle, tran, catcher, seen>>

\* The work unit that carries the source block to its release.
OldFirst(t) == IF t = 0 THEN main.src ELSE None

Old(t) ==
  IF mode = "move"
    THEN IF main.pushed[1] = main.src THEN None ELSE main.src
    ELSE IF t = LastTarget THEN main.src ELSE None

\* An idle work unit is filled, its event recorded on the target's stream and
\* the unit queued for the catcher.
propagate ==
  LET t == main.target IN
  /\ main.pc = "propagate" /\ idle > 0
  /\ idle' = idle - 1
  /\ tran' = [tran EXCEPT !.queue = Append(@,
               [new |-> main.pushed[t + 1], old |-> Old(t), value |-> main.input,
                stream |-> t, event |-> issued[t]])]
  /\ main' = IF t = LastTarget THEN [main EXCEPT !.pc = "next", !.target = 0, !.src = None]
                               ELSE [main EXCEPT !.target = @ + 1]
  /\ UNCHANGED <<mode, refs, content, issued, pending, cache, catcher, seen>>

\* close: the queue is closed, the catcher joined, the streams synchronised
\* and the work units collected.
close ==
  /\ main.pc = "next" /\ main.input = NumInputs
  /\ tran' = [tran EXCEPT !.closing = TRUE]
  /\ main' = [main EXCEPT !.pc = "join"]
  /\ UNCHANGED <<mode, refs, content, issued, pending, idle, cache, catcher, seen>>

collect ==
  /\ main.pc = "join" /\ catcher.pc = "done" /\ \A st \in Streams : pending[st] = <<>>
  /\ idle >= Slack
  /\ idle' = idle - Slack
  /\ main' = [main EXCEPT !.pc = "done"]
  /\ UNCHANGED <<mode, refs, content, issued, pending, tran, cache, catcher, seen>>

----------------------------------------------------------------------------
\* The GPU completes the oldest copy of a stream.
Copy(st) ==
  /\ pending[st] # <<>>
  /\ content' = [content EXCEPT ![Head(pending[st]).to] = content[Head(pending[st]).from]]
  /\ pending' = [pending EXCEPT ![st] = Tail(@)]
  /\ UNCHANGED <<mode, refs, issued, idle, tran, cache, main, catcher, seen>>

----------------------------------------------------------------------------
\* The catcher.

getPropagated ==
  /\ catcher.pc = "wait"
  /\ \/ /\ tran.queue # <<>>
        /\ catcher' = [pc |-> "sync", unit |-> Head(tran.queue)]
        /\ tran' = [tran EXCEPT !.queue = Tail(@)]
     \/ /\ tran.queue = <<>> /\ tran.closing
        /\ catcher' = [catcher EXCEPT !.pc = "done"]
        /\ UNCHANGED tran
  /\ UNCHANGED <<mode, refs, content, issued, pending, idle, cache, main, seen>>

synchronize ==
  /\ catcher.pc = "sync" /\ Done(catcher.unit.stream) >= catcher.unit.event
  /\ catcher' = [catcher EXCEPT !.pc = "consume"]
  /\ UNCHANGED <<mode, refs, content, issued, pending, idle, tran, cache, main, seen>>

Release(r, b) == IF b = None THEN r ELSE [r EXCEPT ![b] = @ - 1]

\* The caught pipeline first releases the old block, then consumes the new.
consume ==
  /\ catcher.pc = "consume"
  /\ refs' = Release(refs, catcher.unit.old)
  /\ seen' = seen \cup {<<catcher.unit.value, content[catcher.unit.new]>>}
  /\ catcher' = [catcher EXCEPT !.pc = "used"]
  /\ UNCHANGED <<mode, content, issued, pending, idle, tran, cache, main>>

\* The operators behind release the consumed block, and the work unit is idle
\* again.
release ==
  /\ catcher.pc = "used"
  /\ refs' = Release(refs, catcher.unit.new)
  /\ idle' = idle + 1
  /\ catcher' = [pc |-> "wait", unit |-> NoUnit]
  /\ UNCHANGED <<mode, content, issued, pending, tran, cache, main, seen>>

----------------------------------------------------------------------------
MainStep == \/ open \/ push \/ pushBroadcast \/ propagate \/ close \/ collect
            \/ \E b \in Blocks, n \in 0 .. Gpu : input(b, n)
CatchStep == getPropagated \/ synchronize \/ consume \/ release

Next == MainStep \/ CatchStep \/ \E st \in Streams : Copy(st)

Spec == Init /\ [][Next]_vars

\* Both threads run on and the GPU completes the copies it was given.
FairSpec == /\ Spec /\ WF_vars(MainStep) /\ WF_vars(CatchStep)
            /\ \A st \in Streams : WF_vars(Copy(st))

----------------------------------------------------------------------------
\* Properties.

\* Work units and reference counts stay in range: every reference of a block
\* is one of a work unit, of the producer or of a consumer at work.
MemMoveTypeOK ==
  /\ idle \in 0 .. Slack /\ Len(tran.queue) <= Slack
  /\ refs \in [Blocks -> 0 .. NumTargets + 1]
  /\ content \in [Blocks -> 0 .. NumInputs]

\* A block goes back to the pool only when no copy from or to it is under way
\* (mem-move-device.cpp:151 releases the source on the catcher, long after
\* push() returned): otherwise its next owner and the copy race.
NoCopyOfFreeBlock ==
  \A st \in Streams : \A i \in 1 .. Len(pending[st]) :
    refs[pending[st][i].from] > 0 /\ refs[pending[st][i].to] > 0

\* Whatever the consumer reads is the data of the block that was pushed: the
\* copy has completed and the block was neither released nor reused, also when
\* several targets share one copy made on another target's stream.
ConsumerSeesInput == \A p \in seen : p[1] = p[2]

\* When close() returns every work unit was idle again, every block is back
\* in the pool and the catcher saw every input.
NothingKept ==
  main.pc = "done" =>
    /\ idle = 0 /\ tran.queue = <<>>
    /\ \A b \in Blocks : refs[b] = 0
    /\ {p[1] : p \in seen} = 1 .. NumInputs

\* With enough blocks for one input at a time close() returns, however few
\* work units there are.
CloseReturns == <>(main.pc = "done")
=============================================================================
