--------------------------- MODULE BufferManager ----------------------------
(***************************************************************************)
(* The blocks of one GPU as the host sees them: device_buffs_pool keeps    *)
(* some at hand, the rest is on a stack in device memory.  A release that  *)
(* overfills the pool sends StageSize blocks back, and a manager thread    *)
(* fetches StageSize blocks when the pool runs low.  Both use a kernel on  *)
(* the same stream and the same staging array, and the pool's mutex is not *)
(* held while the kernel runs: each may overwrite what the other staged.   *)
(***************************************************************************)
EXTENDS Integers, Sequences, Functions

CONSTANTS Users,     \* threads that get and release blocks of the device
          MaxHeld,   \* blocks a thread holds at once
          NumBlocks, \* blocks of the device
          StageSize, \* device_buff_size
          Keep       \* keep_threshold, more than StageSize

VARIABLES pool,        \* blocks in device_buffs_pool; blocks are counted, not told apart
          stack,       \* blocks on the stack in device memory
          stage,       \* blocks in device_buff: what a transfer reads or has written
          kernels,     \* launched on release_streams, executed in order
          user,        \* per thread: pc, and how many blocks it holds
          manager,     \* pc of dev_buff_manager
          destroyer,   \* pc of destroy()
          terminating,
          overlapped   \* history: the array was taken while another transfer used it

vars == <<pool, stack, stage, kernels, user, manager, destroyer, terminating, overlapped>>

Init ==
  /\ pool = 0 /\ stack = NumBlocks /\ stage = 0 /\ kernels = <<>>
  /\ user = [u \in Users |-> [pc |-> "run", held |-> 0]]
  /\ manager = "check" /\ destroyer = "run" /\ terminating = FALSE /\ overlapped = FALSE

\* The array holds blocks that the pool's or the device's side still has to take.
StageBusy ==
  \/ manager \in {"fetch", "add"}
  \/ \E i \in 1 .. Len(kernels) : kernels[i] = "release"
  \/ \E u \in Users : user[u].pc = "launch"

\* The mutex is free: the manager keeps it from its test until it sleeps.
Unlocked == manager # "blocking"

\* device_buffs_cv.notify_all(): a sleeping manager tests its condition again.
Notified == IF manager = "sleep" THEN "check" ELSE manager

----------------------------------------------------------------------------
\* The threads that use blocks.

\* h_get_buffer(dev): waits until a block is at hand and takes the newest.
h_get_buffer(u) ==
  /\ Unlocked /\ ~terminating /\ user[u].pc = "run" /\ user[u].held < MaxHeld
  /\ pool > 0
  /\ user' = [user EXCEPT ![u].held = @ + 1]
  /\ pool' = pool - 1
  /\ manager' = Notified
  /\ UNCHANGED <<stack, stage, kernels, destroyer, terminating, overlapped>>

ExcessFew(size) == IF size > Keep THEN StageSize - 1 ELSE 0

\* The number of blocks the overflow of a pool of this size sends back.
Excess(size) == IF size > Keep THEN StageSize ELSE 0

\* One round of a release under the mutex, on pool p, by a thread that then
\* holds h: stage the newest blocks when there are too many of them, else leave.
Trim(u, p, h) ==
  LET n == Excess(p) IN
  /\ pool' = p - n
  /\ user' = [user EXCEPT ![u] = [pc |-> IF n = 0 THEN "run" ELSE "launch", held |-> h]]
  /\ IF n = 0 THEN manager' = Notified /\ UNCHANGED <<stage, overlapped>>
              ELSE /\ stage' = StageSize
                   /\ overlapped' = (overlapped \/ StageBusy)
                   /\ UNCHANGED manager

\* __release_buffer_host of a block of the device.
release_buffer(u) ==
  /\ Unlocked /\ user[u].pc = "run" /\ user[u].held > 0
  /\ Trim(u, pool + 1, user[u].held - 1)
  /\ UNCHANGED <<stack, kernels, destroyer, terminating>>

\* After the unlock: the kernel that gives the staged blocks back is launched ...
launchRelease(u) ==
  /\ user[u].pc = "launch"
  /\ kernels' = Append(kernels, "release")
  /\ user' = [user EXCEPT ![u].pc = "sync"]
  /\ UNCHANGED <<pool, stack, stage, manager, destroyer, terminating, overlapped>>

\* ... and cudaStreamSynchronize waits for all that was launched; then the
\* mutex is taken again and the size of the pool is tested again.
retryTrim(u) ==
  /\ Unlocked /\ user[u].pc = "sync" /\ kernels = <<>>
  /\ Trim(u, pool, user[u].held)
  /\ UNCHANGED <<stack, kernels, destroyer, terminating>>

----------------------------------------------------------------------------
\* The device executes the kernels of the stream in order.

\* release_buffer_host: pushes what the array holds now.
kernelRelease ==
  /\ kernels # <<>> /\ Head(kernels) = "release"
  /\ stack' = stack + stage
  /\ kernels' = Tail(kernels)
  /\ UNCHANGED <<pool, stage, user, manager, destroyer, terminating, overlapped>>

\* get_buffer_host: fills the array, with null pointers once the stack is empty.
kernelGet ==
  /\ kernels # <<>> /\ Head(kernels) = "get"
  /\ stage' = IF stack < StageSize THEN stack ELSE StageSize
  /\ stack' = stack - stage'
  /\ kernels' = Tail(kernels)
  /\ UNCHANGED <<pool, user, manager, destroyer, terminating, overlapped>>

----------------------------------------------------------------------------
\* dev_buff_manager.

\* The condition of its wait, under the mutex.
managerCheck ==
  /\ manager = "check"
  /\ manager' = IF terminating THEN "done"
                ELSE IF pool < StageSize \div 4 THEN "launch" ELSE "blocking"
  /\ UNCHANGED <<pool, stack, stage, kernels, user, destroyer, terminating, overlapped>>

\* It sleeps and lets go of the mutex; destroy() notifies without taking it.
managerSleep ==
  /\ manager = "blocking"
  /\ manager' = "sleep"
  /\ UNCHANGED <<pool, stack, stage, kernels, user, destroyer, terminating, overlapped>>

managerLaunch ==
  /\ manager = "launch"
  /\ kernels' = Append(kernels, "get")
  /\ overlapped' = (overlapped \/ \E u \in Users : user[u].pc = "launch")
  /\ manager' = "fetch"
  /\ UNCHANGED <<pool, stack, stage, user, destroyer, terminating>>

managerSync ==
  /\ manager = "fetch" /\ kernels = <<>>
  /\ manager' = "add"
  /\ UNCHANGED <<pool, stack, stage, kernels, user, destroyer, terminating, overlapped>>

\* Under the mutex: the blocks that were fetched come at hand, and all are notified.
managerAdd ==
  /\ manager = "add"
  /\ pool' = pool + stage
  /\ manager' = "check"
  /\ UNCHANGED <<stack, stage, kernels, user, destroyer, terminating, overlapped>>

----------------------------------------------------------------------------
\* destroy(), after the queries have released their blocks.

terminate ==
  /\ destroyer = "run" /\ \A u \in Users : user[u] = [pc |-> "run", held |-> 0]
  /\ terminating' = TRUE /\ destroyer' = "notify"
  /\ UNCHANGED <<pool, stack, stage, kernels, user, manager, overlapped>>

notifyManager ==
  /\ destroyer = "notify"
  /\ manager' = Notified /\ destroyer' = "join"
  /\ UNCHANGED <<pool, stack, stage, kernels, user, terminating, overlapped>>

\* The manager is joined; assert(size <= keep_threshold), and the whole pool is
\* staged and given back.
giveBack ==
  /\ destroyer = "join" /\ manager = "done"
  /\ IF pool > Keep
       THEN destroyer' = "asserted" /\ UNCHANGED <<stage, kernels>>
       ELSE destroyer' = "sync" /\ stage' = pool /\ kernels' = Append(kernels, "release")
  /\ UNCHANGED <<pool, stack, user, manager, terminating, overlapped>>

freeDevice ==
  /\ destroyer = "sync" /\ kernels = <<>>
  /\ destroyer' = "done" /\ pool' = 0
  /\ UNCHANGED <<stack, stage, kernels, user, manager, terminating, overlapped>>

\* After an overlap blocks are lost or handed out twice, and nothing is promised;
\* else destroy() is over, an assertion ended the program, or destroy() waits for a
\* manager that missed its notification.
Stopped ==
  /\ overlapped \/ destroyer \in {"done", "asserted"} \/ (destroyer = "join" /\ manager = "sleep")
  /\ UNCHANGED vars

----------------------------------------------------------------------------
ManagerStep == managerCheck \/ managerSleep \/ managerLaunch \/ managerSync \/ managerAdd

UserStep(u) == h_get_buffer(u) \/ release_buffer(u) \/ launchRelease(u) \/ retryTrim(u)

KernelStep == kernelRelease \/ kernelGet

DestroyStep == terminate \/ notifyManager \/ giveBack \/ freeDevice

Next == (~overlapped /\ ((\E u \in Users : UserStep(u)) \/ KernelStep \/ ManagerStep \/ DestroyStep)) \/ Stopped

Fairness ==
  /\ WF_vars(~overlapped /\ KernelStep) /\ WF_vars(~overlapped /\ ManagerStep)
  /\ \A u \in Users : WF_vars(~overlapped /\ (launchRelease(u) \/ retryTrim(u)))

Spec == Init /\ [][Next]_vars /\ Fairness

----------------------------------------------------------------------------
\* The blocks that are staged: taken from one side, and not yet on the other.
Staged ==
  IF manager = "add" \/ (manager = "fetch" /\ kernels = <<>>)
       \/ (kernels # <<>> /\ Head(kernels) = "release")
       \/ \E u \in Users : user[u].pc = "launch"
    THEN stage ELSE 0

Everywhere ==
  (IF destroyer = "sync" THEN 0 ELSE pool) + stack + Staged + SumFunction([u \in Users |-> user[u].held])

BufferTypeOK ==
  /\ pool \in 0 .. NumBlocks /\ stack \in 0 .. NumBlocks /\ stage \in 0 .. Keep  \* the size of the array
  /\ \A u \in Users : user[u].held \in 0 .. MaxHeld /\ user[u].pc \in {"run", "launch", "sync"}
  /\ manager \in {"check", "blocking", "sleep", "launch", "fetch", "add", "done"}
  /\ destroyer \in {"run", "notify", "join", "sync", "done", "asserted"}
  /\ terminating \in BOOLEAN /\ overlapped \in BOOLEAN

\* As long as no two transfers used the array at the same time, no block of the
\* device is lost or handed out twice, also by destroy(): each is at hand, on the
\* device's stack, staged, or held by one thread (__release_buffer_host,
\* dev_buff_manager, destroy). Nothing prevents two transfers from meeting; then the
\* array's contents are those of the later one, blocks are lost or handed out twice,
\* and the behaviour ends.
BlocksConserved == ~overlapped => Everywhere = NumBlocks

\* The pool exceeds keep_threshold by no more than one refill that was under way
\* while the threads released (lines 112 and 711). It does exceed it when the refill
\* comes last: destroy() then fails its assert(size <= keep_threshold) (line 622).
PoolBounded == pool <= Keep + StageSize

\* A pool that ran out is refilled while the device has blocks: every taker of a
\* block wakes the manager (notify_all in h_get_buffer).
PoolRefilled == (pool = 0 /\ stack > 0) ~> (pool > 0 \/ stack = 0 \/ terminating \/ overlapped)
=============================================================================
