# The rhino kernel and the key-value store of AliOS-Things in TLA+

AliOS-Things is an operating system for small devices. Everything in it, from
the network stacks to the cloud clients, stands on the rhino kernel
(`src/kernel/rhino`): a preemptive fixed-priority scheduler with semaphores,
mutexes with priority inheritance, queues, timers, work queues and memory
pools. Above it, the key-value store (`src/kernel/modules/fs/kv`) keeps the
configuration of a device in flash. This project models the kernel's core, its
queues, timers and work queues, and the key-value store as TLA+ modules, checks
small instances with TLC and proves their safety properties with TLAPS, the
refinement of the message queue included.

Contents: [Inventory](#inventory) · [Plan](#plan) · [Modules](#modules) ·
[Runs](#runs) · [Fairness](#fairness) · [Proofs](#proofs) ·
[Findings](#findings) · [Abstractions](#abstractions) ·
[Not modelled](#not-modelled)

## Inventory

### The kernel core (modelled)

| Part | State | Operations | Interacts with |
|---|---|---|---|
| Scheduler, `k_sched.c` | `g_ready_queue`: one list per priority, a bitmap, the cached `highest_pri`; `g_active_task`, `g_sched_lock` | `ready_list_*`, `core_sched`, `krhino_sched_disable/enable`, `time_slice_update` | called by every operation that makes a task ready or takes it off the ready list |
| Pend lists, `k_pend.c` | `blk_list` of each object, in priority order | `pend_to_blk_obj`, `pend_task_wakeup`, `pend_task_rm`, `pend_list_reorder`, `pend_state_end_proc` | shared by every object a task can wait for |
| Tick list, `k_tick.c` | `g_tick_head` in order of expiry, `g_tick_count`, which wraps | `tick_list_insert`, `tick_list_rm`, `tick_list_update` from the tick interrupt | ends sleeps and timed waits, and gives back inherited priority |
| Mutex, `k_mutex.c` | `mutex_task`, `owner_nested`; per task `mutex_list` | create, lock, unlock, del | changes priorities through `task_pri_change`, hands itself over to a waiter |
| Semaphore, `k_sem.c` | `count` | create, del, give, give_all, take, count_set | give is called from interrupt handlers |
| Tasks, `k_task.c` | `task_state`, `prio`, `b_prio`, `suspend_count`, `blk_state`, `blk_obj` | create, sleep, yield, suspend, resume, pri_change, wait_abort, del | del frees the task's mutexes; pri_change walks from waiter to owner |
| Entry and exit, `k_critical.h`, `k_sys.c` | the interrupt mask | `RHINO_CRITICAL_ENTER/EXIT/EXIT_SCHED`, `krhino_intrpt_enter/exit` | `EXIT_SCHED` enables interrupts before `core_sched` runs |

What is hard here:

* **Interleaving.** A kernel call runs with interrupts disabled, but
  `RHINO_CRITICAL_EXIT_SCHED` enables them before it calls `core_sched`. In that
  window the tick and interrupt handlers run, while the task that is still
  "active" may already be waiting, suspended or deleted.
* **Priority inheritance.** `task_pri_change` follows the chain of owners in a
  loop. Every way of leaving a wait (handover, timeout, abort, deletion of the
  waiter, of the owner or of the mutex) has to undo what the owner inherited,
  and every change has to reorder the block lists on the way. The tests
  in `src/kernel/rhino/test/core/mutex` run a few fixed schedules.
* **Time.** `tick_t` wraps; the list is kept in order with unsigned arithmetic
  and expiry is decided with a signed difference.
* **Caches.** `highest_pri` and `task_bit_map` repeat what the lists say, and
  `core_sched` trusts them. `krhino_find_first_bit` runs off the end of an
  empty bitmap.

What makes it correct: the ready queue holds exactly the ready tasks
(`ReadyQueueOK`); block lists hold exactly the waiters, in order (`BlkListOK`);
a mutex and its owner agree about each other (`OwnershipOK`); inherited
priorities are exact (`PriorityExact`); the highest ready task runs
(`RunsHighest`); each wait tells its task the truth about how it ended
(`LockOutcome`); no token is lost (`SemNoLostToken`); a suspended task stays
suspended until its suspensions, which are counted up to a limit, are taken back
(`SuspendHolds`, `SuspendCountOK`); timed waits and kernel loops end
(`TimedWaitEnds`, `LoopsEnd`).

### Queues, timers, work queues and the key-value store (modelled)

| Part | State | Operations | Interacts with |
|---|---|---|---|
| Ring buffer, `k_ringbuf.c` | bytes, `head`, `tail`, `freesize`; in front of each message its length in one to three bytes | push to the tail, push to the head, pop, reset | embedded in both kinds of queue |
| Queues, `k_queue.c`, `k_buf_queue.c` | the ring, `cur_num`, the block list | create, del, flush, send to either end, to one or to all, recv | senders are tasks and interrupt handlers; a waiter gets the message directly |
| Timers, `k_timer.c` | list of running timers in order of expiry, `g_timer_count`, `g_timer_queue` | start, stop, change, arg_change, del, all of them commands to the timer task; expiry | callbacks run in the timer task |
| Work queues, `k_workqueue.c` | `work_list`, `work_current`, a semaphore; `work_exit` and `wq` of each work | run, delayed run, cancel, create, del; the worker | a delayed work is submitted by the callback of its timer |
| Key-value store, `kvmgr.c` | flash blocks with a state and items; `write_pos`, `clean_blk_nums`, `gc_triggered`, `gc_waiter` | set, get, del, recovery at boot, garbage collection in a task of its own | waits for the collector on a semaphore, holds `kv_mutex` |

What is hard here:

* **Wrap-around in bytes.** A message, or its length field, may be split at the
  end of the memory, in a push at either end and in a pop. A pop trusts the
  length it reads.
* **Asynchronous commands.** A call on a timer only sends a command, which may
  find the timer in another state, or not be accepted at all. The list is
  ordered by unsigned distances and may be out of order around an overdue timer.
* **Old readings of the clock.** The timer task reads the tick, computes how long
  to wait and calls receive, or inserts a timer, with interrupts enabled all the
  while: ticks that come in between make the reading old.
* **Calls in several steps.** `krhino_work_run` links a work and gives the
  semaphore in two steps; the worker takes the head of the list without a look.
  `krhino_work_cancel` and `krhino_workqueue_del` decide on what they read
  before they enter, or after they left, the critical section.
* **Power failure.** An update is two flash writes, a collection is a write for
  each item, an erase and two more writes. `kv_init` has to tell from the flash
  alone what was interrupted.
* **Waiting for the collector** without the lock: `gc_triggered`, `gc_waiter`
  and the semaphore are three variables that change at different times.

What makes it correct: the bytes of the ring are the messages that were sent
(`RingHoldsSentMessages`), no task waits beside a stored message
(`NoWaiterMissesMessage`), and the queue implements `MsgQueue`
(`ImplementsMsgQueue`). Tokens, flags and lists of the work queue agree
(`TokensExact`, `WorkExitExact`), every linked work runs (`LinkedWorkRuns`), the
timer list is exact (`TimerListOK`), the timer task sleeps past the time of its
first timer by no more than the ticks that kept it from starting its wait
(`TimerSleepOK`), and a timer that was started expires (`TimersExpire`). A key
keeps the value of the last call that returned (`NothingLost`, `Durable`), in
one item (`OneItem`), one block stays reserved (`ReserveOK`), and a task that
waits for the collector is woken (`WaiterWillBeSignalled`).

### The rest of the kernel and of the system

| Part | State and operations | Hard behaviour | What makes it correct |
|---|---|---|---|
| Event flags, `k_event.c` | a flag word; set, get with AND/OR and clear | set tests all waiters against one snapshot | a waiter is woken exactly when its flags were set |
| Object set, `k_obj_set.c` | a queue of handles of ready objects | notification outside the critical section | one notification for each token |
| Block pool and heap, `k_mm_blk.c`, `k_mm.c` | free list; free blocks by size | exhaustion, coalescing | no block is handed out twice |
| Deferred free, `k_dyn_mem_proc.c` | queue of pointers freed by a task | full queue | memory of a deleted task is freed once |
| SPSC fifo, `k_fifo.c` | in and out counters that wrap | producer and consumer without a lock | first in, first out across the wrap |
| Event loop, `yloop.c`; VFS, `vfs.c` | posted actions and timers; inodes and descriptors | callbacks that change the lists they are on | each posted action runs once; a busy inode is not freed |
| AOS API, `vcall/aos` | none | none | adapters of the kernel calls |
| Frameworks, protocols, security, platform | drivers, third-party stacks, SDKs | remote services | out of scope, see [Not modelled](#not-modelled) |

`PROJECT.json` lists every component with its status and reason, and under
`hazards` the places in the code that are hard to test.

## Plan

1. *Done.* The kernel core: `RhinoData`, `RhinoSched`, `RhinoPend`, `RhinoPri`,
   `RhinoMutex`, `RhinoSem`, `RhinoTask`, composed by `RhinoKernel`; its five
   runs, the finding, the inductive invariant and the theorems below.
2. *Done.* Ring buffer and queues: `RingBuf`, `RhinoQueue`, the abstract
   specification `MsgQueue` and the refinement.
3. *Done.* Timers and work queues: `RhinoTimer`, and `RhinoWork` on top of it.
4. *Done.* The key-value store with power failure at every flash write: `KvMgr`.
5. *Done.* Proofs of every safety property the runs check and that holds, and
   of the refinement of the message queue, see [Proofs](#proofs).
6. Event flags and the object set on the pend lists; block pool and SPSC fifo,
   the latter with the interleavings of producer and consumer between the copy
   and the counter update.
7. The SMP scheduler, yloop and VFS if there is room.

## Modules

Fields of `ktask_t`, `kmutex_t` and `ksem_t` are functions over tasks or
objects, under the field's name. A `klist_t` is the sequence of what is linked
on it. Names of operators are those of the C functions.

| Module | Models |
|---|---|
| `RhinoList` | `klist_rm` of `k_list.h`, `pend_list_add` of `k_pend.c`: lists, whatever is on them |
| `RhinoData` | constants with their assumptions, all variables, who may call the kernel |
| `RhinoSched` | `k_sched.c`: ready queue, `core_sched`, scheduler lock, yield, time slice |
| `RhinoPend` | the rest of `k_pend.c` and the insertion and removal of `k_tick.c` |
| `RhinoPri` | `task_pri_change` and the functions of `k_mutex.c` that find a priority |
| `RhinoMutex` | `k_mutex.c` |
| `RhinoSem` | `k_sem.c` |
| `RhinoTask` | `k_task.c`, `krhino_tick_proc`, `tick_list_update` |
| `RhinoKernel` | composition: `Init`, `Next`, `Spec`, `FairSpec`, the properties, the inductive invariant |
| `MCRhino` | priorities of the small instances |
| `RhinoListProofs` | lemmas about inserting in, removing from and rotating lists, and lists in order of priority |
| `RhinoKernelProofs` | what each ready-list operation does to `ReadyQueueMatches`; `IInv` is inductive |
| `RhinoWaitProofs` | block lists are in order, handover to the highest waiter, no token is lost, the tick list |
| `RhinoMutexProofs` | owners and mutexes agree, a lock returns the truth |
| `RhinoPriProofs` | inherited priorities are exact, the highest ready task runs |
| `RingBuf` | `k_ringbuf.c`: the ring as a record, its operations as operators |
| `MsgQueue` | abstract: what a queue promises, a sequence of messages and a set of waiting tasks |
| `RhinoQueue` | `k_queue.c` and `k_buf_queue.c` on `RingBuf`; the mapping to `MsgQueue` |
| `RhinoQueueProofs` | the ring stores what was pushed, for every size; the queue implements `MsgQueue` |
| `RhinoTimer` | `k_timer.c`: timer task, commands, list |
| `RhinoWork` | `k_workqueue.c` on top of `RhinoTimer`: worker, clients, callback of delayed works |
| `RhinoWorkProofs` | tokens, flags and lists of the timer task and the work queue agree |
| `KvMgr` | `kvmgr.c`: clients, collector, `kv_init`, power failure |
| `KvMgrProofs` | the store keeps its promises across power failures |
| `MCQueue`, `MCWork`, `MCKv` | small instances of `RhinoQueue`, `RhinoWork`, `KvMgr` |

**Control.** `pc` says where the CPU is. `"run"`: the active task executes its
own code; it may call the kernel, and the tick or an interrupt handler may
come. `"sched"`: interrupts are enabled and `core_sched` has not run yet, the
window of `RHINO_CRITICAL_EXIT_SCHED`, or a handler that has not reached
`krhino_intrpt_exit`; more interrupts may come. The other values are the loops
the kernel executes with interrupts disabled: `"pri"` (`task_pri_change`),
`"tick"` (`tick_list_update`), `"drain"` (wake all), `"mfree"`
(`task_mutex_free`). An iteration is a step, on the locals in `chg` and `op`;
nothing else is enabled until the loop has ended. Everything else a call does
in one critical section is one action. A blocking call ends with
`pend_state_end_proc` when the task runs again; until then `call[t]` is the
object it called with, and the task makes no other call.

This is the control of `RhinoKernel`. The other three systems are tasks over
shared state, one action for each critical section:

* `RhinoQueue` has one object and the tasks that receive from it. A receive
  that waits returns in a step of its own, after the message, a timeout, an
  abort or the deletion of the object has ended the wait. The scheduler decides
  when that is, so any delay is possible.
* `RhinoTimer` has the position of the timer task in `tpc`. A read of the tick,
  a receive call, a command and an iteration of `timer_cb_proc` are steps, and a
  callback stands between two of the last. `lag` is what the task has read, minus
  the present tick, so it is below zero as soon as a tick comes between the read
  and its use: between `k_timer.c:416` and the receive call at 419, whose timeout is
  then too long, or between a read into `g_timer_count` (399, 420) and the command
  that inserts a timer by it. `RhinoWork` adds the worker (`wpc`) and clients (`cpc`), whose calls are
  split where the code leaves its critical section.
* `KvMgr` has the boot (`boot`), the clients and the collector; a step is one
  write to the flash. `PowerFailure` resets everything but the flash, and `Init`
  is the first boot with an erased flash.

**Refinement.** `MsgQueue` knows no bytes, no counters and no block list:
messages are a sequence, a message goes to the most urgent waiting task if there
is one, and what is received is what was sent. `RhinoQueue` implements it with
`msgs` mapped to `Messages(ringbuf)`, the bytes of the ring read by their
format. The reading goes from `head` over all bytes in use, independently of how
push and pop handle the end of the memory. `ev` records what each call did for
its caller and is the same variable in both, so the refinement is about results
and not only about states.

**Callers.** `Api` and `IsrApi` are the calls the application makes from tasks
and from interrupt handlers, with any arguments from `Timeouts`, `PriChoices`
and the sets of tasks and objects. The application follows the documented use:
it creates a control block or an object only when it is not in use.

## Runs

| Run | Instance | Properties | Shows |
|---|---|---|---|
| `inherit` | 3 tasks at 3 priorities, 2 mutexes, timeout 1 or forever, priority changes to 0 and 2 | `TypeOK` `BlkListOK` `OwnershipOK` `PriorityExact` `RunsHighest` `LockOutcome` `HandoverToHighest` | inheritance is exact through chains and cycles of owners, a mutex goes to the highest waiter, the highest ready task runs |
| `delete` | 3 tasks, 2 mutexes locked up to twice; tasks and mutexes deleted and created again, waits aborted | `ReadyQueueOK` `OwnershipOK` `PriorityExact` `LockOutcome` | the same when owners, waiters and mutexes disappear in any order |
| `sem` | 3 tasks, two of one priority, a binary semaphore; handlers that give, suspend and resume; abort, yield, scheduler lock | `IInv` `RunsHighest` `SemNoLostToken` `SuspendCountOK` `SuspendHolds` | the windows of `RHINO_CRITICAL_EXIT_SCHED` are harmless; `IInv`, the invariant of the proofs, holds; no wake-up ends a suspension, and `suspend_count` stays in its limits although an abort leaves it |
| `timed` | 2 tasks, 2 mutexes, tick counter of 6 values, timeouts 1 and 2, sleeps, handlers that suspend (up to twice) and resume; fair | `TickListOK` `TimedWaitEnds` `SuspendHolds` | the tick list survives the wrap, every timed wait ends, and none of them ends a suspension |
| `cycle` | 3 tasks, two of one priority below the highest, 2 mutexes, unlimited waits, priority changes to the highest; fair | `LoopsEnd` | `task_pri_change` ends also when it is entered from outside a cycle of waiting tasks and comes back to where it started |
| `nested` | 3 tasks, 1 mutex locked twice, deletion of tasks | `HandoverNested` (violated) | see [Findings](#findings) |
| `queue` | 2 tasks of different priority, a ring of 8 bytes of two bits, blocks of 2, messages of 1, 2 and 4 bytes; pointer queue, fixed and dynamic buffer queue in turn | `TypeOK` `NoWaiterMissesMessage` `RingHoldsSentMessages` `ImplementsMsgQueue` | bytes, counters and messages agree through every wrap; the queue implements `MsgQueue` |
| `front` | the same, with every message also sent to the front | `RingHoldsSentMessages` (violated) | see [Findings](#findings) |
| `work` | 2 clients, a work and a delayed work, a periodic timer of the application, 3 calls, a timer task late by up to two ticks; queue deleted and created again; fair | `TypeOK` `TokensExact` `WorkExitExact` `TimerListOK` `TimerSleepOK` `LinkedWorkRuns` `TimersExpire` | one token for each linked work, exact timer list, waits of the timer task as long as they should be but for ticks of a preemption; works run and timers expire |
| `cancel` | 1 client, a delayed work | `CancelStopsTimer` (violated) | see [Findings](#findings) |
| `kv` | 2 clients, 2 keys, 2 values, 3 items in a block, 5 calls, 2 power failures | `TypeOK` `Durable` `OneItem` `ReserveOK` `WaiterWillBeSignalled` | recovery is right at every cut, but for the keys of `kvloss` and the races under [Findings](#findings) |
| `kvloss` | 1 client, 1 power failure | `NothingLost` (violated) | see [Findings](#findings) |

**Bounds.** Two mutexes and three tasks are the smallest instance with a chain
of owners (t3 waits for t2, which waits for t1), with a cycle and with a task
that waits from outside for a member of the cycle; three priorities tell
"inherited from the first" from "inherited from the second". `TickMod` is 4 or
6 in place of 2^32, so that the counter wraps many times within any wait; the
finite timeouts 1 and 2 are below half of it. `NestMax`, `SuspendMax`,
`LockMax` and `SemMax` are the limits at which the code refuses (the maximum of
the counter's type); the instances take 1 or 2, and the paths at the limit and
below it both occur. No symmetry
is used in these runs: the tasks have different priorities and the two mutexes
are few.

In `queue`, bytes have two bits (`ByteMod` 4): the length encoding is kept as
fractions of the byte range, so that a length of 1 takes one byte, 2 and 3 take
two and 4 takes three, and each of them wraps at each position of a ring of
8 bytes. `RingSize` 8 holds up to four messages and is full at several message
mixes. `MCView` identifies states that differ only in bytes of the ring outside
of the messages: no operation but `ringbuf_pop` reads the memory, and it reads
what is in use. `FrontMsg` restricts what is sent to the front of a dynamic ring
to messages that a rotation does not change, which keeps the defect of run
`front` out of this one.

In `work`, `TimerMsgNum` is 1, so that commands are refused. `MaxLag` bounds the
ticks from the timer task being ready to its next wait. One tick of lateness is
enough for an old delta, for an old `g_timer_count` in a command, and for the
unsigned comparison of `timer_list_pri_insert` to matter; with two, a wait may
start too late and end late as well, and two overdue timers stand on the list. In
the code the timer task may be later; the bound keeps time finite. `MaxCalls` 3
allows a delayed work to be submitted and cancelled, or a work to be submitted
again while it runs, beside a command to the timer of the application, and a
queue to be deleted and created again; the proofs below need no bound on calls.
The delayed work is due after 1 tick, the periodic timer every 2. Deadlock is not checked: the system rests when the calls
are used up.

In `kv`, `Cap` 3 with two keys lets a block fill up and the collector find items
to keep; 5 calls fill it, collect it and go on, and two power failures let the
recovery be interrupted too. Keys, values and clients are symmetric: only
equality between them is used, and the invariants do not name any. Deadlock is
not checked, for the same reason and because of the lost wake-up described
below.

Each property is stated in `RhinoKernel` with the behaviour it is about.
`PriorityExact` compares `prio` with a definition over all waiters that does
not use the functions of `k_mutex.c`. Properties that speak about several
fields at once are read when interrupts are enabled (`Stable`); in the middle
of a loop they need not hold, and nobody can see it. `BlkListOK` and
`ReadyQueueOK` hold in every state.

Beside each definition whose failure a property is meant to catch stands a
"Mutant" with a plausible mistake in it (a priority that is not given back, a
missing `core_sched`, a waiter in the wrong place). `PROJECT.json` lists, for
each property of each run, the mutant that violates it.

## Fairness

`FairSpec` assumes three things and none of them about the application:

* `WF(KernelStep)`: code that runs with interrupts disabled goes on;
* `SF(core_sched)`: a task in the window before `core_sched`, or a handler
  before `krhino_intrpt_exit`, gets there although interrupts keep coming, as a
  handler takes less time than passes between two interrupts;
* `SF(krhino_tick_proc)`: the timer keeps interrupting, and a pending interrupt
  is taken once interrupts are enabled.

`RhinoWork` has a `FairSpec` of its own: weak fairness of the worker, of the
timer task and its callbacks, of a client that is in the middle of a call, and of
the tick. Each is a task that the kernel runs when more urgent ones wait (the
worker and the timer task have priorities of their own, and the tasks above them
must wait now and then, as everywhere in this kernel), and ticks come from a
timer interrupt. Nothing is assumed about which calls the application makes.
`LinkedWorkRuns` and `TimersExpire` are checked under it.

`LoopsEnd` and `TimedWaitEnds` are checked under the first. That every ready task runs
eventually is not true in a fixed-priority kernel and is not claimed.

## Proofs

Every safety property that the runs check and that holds is proved with TLAPS
for every value of the constants, and so is the refinement of the message queue.
Two of the theorems have a hypothesis on what is passed to the code, which says
where it is wrong: `ShortTimeouts` for the tick list, `FrontUniform` for the
messages received.

### The kernel core

For every finite or infinite set of tasks, mutexes and semaphores, every number
of priorities (at least two), every tick width and every limit, under the
assumptions of `RhinoData`: the idle task is not a user task and is alone at the
lowest priority, objects and tasks are distinct, and the bounds are naturals of
the right size.

| Theorem | States | Rests on |
|---|---|---|
| `KernelInvariant` | `Spec => []IInv` | |
| `KernelTypes` | `Spec => []TypeOK` | `IInv` |
| `ReadyQueueConsistent` | `Spec => []ReadyQueueOK` | `IInv` |
| `SuspendCounts` | `Spec => []SuspendCountOK` | `IInv` |
| `SuspensionHolds` | `Spec => SuspendHolds` | `IInv`, `SuspendCountOK` |
| `WaitersInOrder`, `BlockLists` | `Spec => []BlkListOK` | `WaitersSorted` |
| `HandoverHighest` | `Spec => HandoverToHighest` | `WaitersSorted` |
| `SemTokens` | `Spec => []SemNoLostToken` | `IInv` |
| `TickLists` | `ShortTimeouts` implies `Spec => []TickListOK` | `TickInv` |
| `OwnersInvariant`, `Ownership` | `Spec => []OwnershipOK` | `OwnInv` |
| `OutcomeInvariant`, `LockReturns` | `Spec => []LockOutcome` | `OutInv` |
| `ExactInvariant`, `Inheritance` | `Spec => []PriorityExact` | `ExactInv` |
| `HighestRuns` | `Spec => []RunsHighest` | `RunInv`, `ExactInv` |

`ReadyQueueOK` is not inductive alone. `ready_list_rm` looks for the next
priority in the bitmap, which is right only if a task is left: `IdleReady`, the
idle task never leaves the queue. A wake-up adds a task that must not be on the
queue yet, so tasks on a block list must be waiting tasks, each on the list of
the object it names, once: `WaitersListed`. `task_pri_change` goes from a
waiter to the owner, so a waited-for mutex must have one, and it must not be
the idle task: `WaitersOwned`. The steps in the middle of a call rely on what
its first step tested: `CallOK` carries that across the loops, and
`ActiveReady` says when the active task is known to be ready. Their conjunction
with `TypeOK` is `IInv`. The other invariants are inductive relative to it:

* `SuspendCountOK`: only six operations change which tasks are suspended or how
  often (`SuspensionOf`); a task that sleeps or waits by itself was ready
  (`ActiveReady`, `CallOK`), and each wake-up takes a suspended state to a
  suspended state (`SameSuspension`).
* `WaitersSorted` holds in every state, the middle of `task_pri_change` included,
  because each iteration changes one priority and reorders one list.
* `OwnInv` says where the books are open: in `krhino_mutex_unlock` the mutex is
  off the owner's list and not handed over yet (`Released`), in
  `krhino_mutex_del` waiters have no owner (`Deleting`).
* `OutInv` adds that no task waits for a mutex it owns and that `call` and the
  state of a task fit; the task whose mutexes are being freed is the one
  exception.
* `ExactInv`: in every state, each task but one has the priority it should have,
  and the one is `chg.task`, about to get `chg.pri`, which is right for it
  (`PriorityDue`). A change of one priority makes at most the owner it waits for
  wrong, and that is the next task of the loop. `mutex_pri_look` and
  `mutex_pri_limit` look at the first waiter of each list only, so this needs
  `WaitersSorted`. `LoopOK` keeps what the caller of the loop knows.
* `RunInv`: `krhino_mutex_unlock` of a mutex nobody waits for returns without
  `core_sched`; it may, because no priority has changed then.
* `TickInv` needs `ShortTimeouts`: finite timeouts are below half the tick
  range. Without it `TickListOK` is false: a longer one is overdue at the next
  tick. The code does not test it (a hazard at `k_task.c:218`); every instance
  of `MCRhino` satisfies it (`MCShortTimeouts`).

The proof goes bottom up. `RhinoListProofs` states what `InsertAt`, `RemoveAt`,
`klist_rm`, rotation and `pend_list_add` do to the elements of a list, to
their distinctness and to their order. `RhinoKernelProofs` derives the effect of
`ready_list_add`, `ready_list_rm` and `ready_list_head_to_tail` on
`ReadyQueueMatches`, the ready queue as a predicate on a state and a priority
function, so that it can be used at intermediate points of a call. It then has a
lemma for each kind of step (a task starts to wait, is
woken, leaves by abort or timeout, changes between suspended states), a lemma
for each action built on these, and `NextIInv` that puts them together. The
other three modules follow the same pattern: a frame lemma for steps that do not
touch what the invariant speaks about, a lemma for each action that does.

### The message queue

For every set of tasks, every assignment of priorities, every set of messages over the bytes,
every size of the ring and of a block that divides it, and every range of bytes
that is a multiple of four (256 in the code). `RingAssumption` and
`QueueAssumption` say no more than that.

| Theorem | States | Hypothesis |
|---|---|---|
| `QueueInvariant` | `Spec => []QueueInv` | |
| `QueueTypeCorrect` | `Spec => []TypeOK` | |
| `QueueNoMissedMessage` | `Spec => []NoWaiterMissesMessage` | |
| `QueueRingHoldsSent` | `Spec => []RingHoldsSentMessages` | `FrontUniform` |
| `QueueRefines` | `Spec => ImplementsMsgQueue` | `FrontUniform` |

`FrontUniform` says that the bytes of a message sent to the front of a dynamic
ring (`FrontMsg`) are all equal, so that it does not matter that
`ringbuf_head_push` exchanges the two pieces of a message that wraps. Without it
the two properties can fail, which is the finding of run `front`; nothing is asked
of messages sent to the back, of pointers and of the blocks of a fixed ring. A
system that sends nothing to the front of a dynamic ring has an empty `FrontMsg`
and satisfies it. What remains true of a message that is rotated (its length,
and everything about the messages around it) is in `QueueInv`, which has no
hypothesis.

The proof has three layers.

* *Bytes.* `RingInv`: the bytes in use, counted from `head` round the end of the
  memory, end at `tail`. `AppendRing`, `PrependRing` and `TakeRing` say what the
  copies of push, head_push and pop, in one piece or two, make of the content,
  as a sequence of bytes. That a pop finds in a length field what a push wrote
  there, for lengths of one, two and three bytes, is the lemma `HeadlenRoundTrip`.
* *Messages.* `Stores(r, ms)`: the content of `r` can be cut (`Cut`) into the
  stored forms of the messages `ms`, length field and data, and a fixed ring has
  its head between two blocks. `StoresReads` shows that reading the ring by its
  format then gives `ms` again, that the counts agree, and that the ring is empty
  exactly if `ms` is. `StoresPush`, `StoresFront`, `StoresPop` and `StoresEmpty`
  say what becomes of `ms`. That a fixed ring never splits a block, although
  pop and head_push do not look at the end of the memory, needs the multiples of
  `BlkSize` (`Blocks`).
* *The queue.* `QueueInv` is `WaitOf` (the waiters are in the order of their
  priorities, in a receive call, and have no outcome yet), `StoreOf` (the ring
  stores as many messages as `cur_num` counts, and those of a pointer queue are in
  a fixed ring), and: a task waits only at an object in use that stores nothing.
  The lemma of each action shows that it keeps `QueueInv` and that it is an action
  of `MsgQueue` on what `MsgQueue` sees of it (`Stored`, `Got`).

`Messages` and `RoomOf` are recursive functions. The library's induction
theorems cannot be used for them. Instead, induction is an argument about the
least counterexample (`SetInduction`, from `NatMin`): with it, some function is
shown to satisfy the recursion, so that the one the definition chooses does too
(`MessagesFromFix`), and its values are found message by message.

### Timers and work queues

For every set of timers, of works and of delayed works with distinct timers, every
finite set of clients, every length of the command queue and every bound on calls
and lateness. `TimerAssumption` and `WorkAssumption` say that `NULL` is neither a
timer nor a work, that a delayed work has a timer of its own which the
application does not command, and that periods and delays are naturals.

| Theorem | States |
|---|---|
| `WorkInvariant` | `Spec => []Inv` |
| `WorkTypeCorrect` | `Spec => []TypeOK` |
| `WorkTokens` | `Spec => []TokensExact` |
| `WorkExit` | `Spec => []WorkExitExact` |
| `TimerLists` | `Spec => []TimerListOK` |
| `TimerSleeps` | `Spec => []TimerSleepOK` |

`Inv` is `TimerInv`, which the steps of the timer task keep by themselves, and
`WInv`:

* `LinkOK` is `TimerListOK` with `ToSet` and `IsInjective` in place of counts;
  `CursorOK` adds that a callback runs only for a linked timer, without which the
  end of a callback could unlink nothing.
* `LoopOK` says at which points of `timer_task` the list is empty, at which it is
  not, and that a timed wait, and the delta it is going to start with, are the ticks
  its first timer has left plus the age of the reading they were computed from
  (`Receiving`).
* `LagOK` bounds the age of what the task has read by its lateness, so the wait is
  too long by no more than that.
* `ListedOK` is `WorkExitExact`, again with `ToSet` and `IsInjective`.
* `ClosedOK` is what `TokensExact` needs to survive `krhino_workqueue_del`, which
  deletes the worker and the semaphore some steps after its check: until the
  queue is created again no work is linked, no timer of a delayed work runs, and
  no command that would start one is under way (`Silent`). In the same way a
  callback of a delayed work implies that the queue is open.

The commands are handled first as operators on a pair of list and timers
(`Keeps`), since `TIMER_CMD_ARG_CHG_AUTO` is a stop, a change and a start in one
step. `TimerFrame` and `QueueFrame` carry one half of the invariant over the
steps of the other.

### The key-value store

For every set of keys, values and clients, every block size of at least two
items, and any number of calls and power failures, a failure in the middle of
recovery included. The assumption `KvAssumption` says that the model values
differ from each other and from what they are compared with.

| Theorem | States |
|---|---|
| `StoreInvariant` | `Spec => []IInv` |
| `StoreTypes` | `Spec => []TypeOK` |
| `StoreDurable` | `Spec => []Durable` |
| `StoreOneItem` | `Spec => []OneItem` |
| `StoreReserve` | `Spec => []ReserveOK` |
| `StoreWaiters` | `Spec => []WaiterWillBeSignalled` |

The five properties speak of a store at rest; the invariant `IInv` of
`KvMgrProofs` says what every intermediate state looks like:

* `FlashOK`: one block in use at most, and the copies of one collection at most.
* `PairOK`: if two items of a key stand in a block, the second was torn or names
  the first as its origin, and either the traversal of `kv_init` has the second
  ahead of it (`Ahead`) or a client is about to delete the first. `CrcOK` and
  `MarkOK` say the same of torn items and of blocks to be marked.
* `ValOK`: the block that holds the data (`Main`: the one in use, or the copies
  if the other block is erased already) has only values that are allowed, and
  lacks a key only if it may be absent or is at risk.
* `RiskOK`: while `kv_init` runs, a copy whose origin is a live item of the block
  in use belongs to a key at risk. This is the one way recovery deletes an item
  it should keep, and why `Durable` has its exception. A power failure
  establishes it from `CopyOK`: a copy equals the item it was made from, so such
  an item names its own place (`SelfOrigin`).
* `BootOK`: the counts of `kv_init` are those of the blocks it has passed, so that
  it decides rightly which copies to keep. `GcOK`, `CopyOK`, `HoldOK` and
  `Mutexed` are what the collector and a call know at each of their steps.
* `WaitOK`: a client on its way to `gc_sem` is known to a collector, or missed.

`Failure` shows that a power failure leads from any such state to one in which
everything is ahead of `kv_init`; the lemmas of `kv_init` show that each of its
steps moves something from "ahead" to "done".

### Only model-checked

`LoopsEnd`, `TimedWaitEnds`, `LinkedWorkRuns` and `TimersExpire` are liveness
properties, beyond the installed provers, as is ENABLED, which fairness is
defined by. The properties that the violated runs refute are left to TLC as well.

## Findings

**A waiter inherits the nesting of a deleted owner** (run `nested`).
`task_mutex_free` (`k_task.c:647`) gives each mutex of a deleted task to its
first waiter and leaves `owner_nested` as it was, where `krhino_mutex_unlock`
sets it to 1 (`k_mutex.c:430`). If the deleted task had locked the mutex twice,
the waiter, which locked it once, owns it with a nesting of two; its unlock
returns `RHINO_MUTEX_OWNER_NESTED` and the mutex stays locked.

**A message sent to the front is rotated at the wrap** (run `front`).
`ringbuf_head_push` of data that does not fit between the start of the memory
and `head` copies its first bytes to the start and the rest to the end
(`k_ringbuf.c:173-182`); a pop reads the end first. For the length field the
same function does it the right way round (`k_ringbuf.c:196-205`). Every user of
`krhino_buf_queue_send_front` on a dynamic queue is exposed.

**A cancelled delayed work runs** (run `cancel`). `krhino_work_cancel` stops the
timer only if `work->wq` is NULL (`k_workqueue.c:291-296`), but the field still
names the queue of the previous run. Submitted again and cancelled before the
delay has passed, the work is reported as cancelled and its timer fires all the
same. `aos_cancel_work` frees the parameters on that result.

**Garbage collection can lose a key at a power failure** (run `kvloss`).
`__item_gc_cb` copies an item with the `origin_off` of its last update. Two
collections later the item may stand at exactly that offset. If the power fails
in the next collection, after the item was copied and before its block was
erased, recovery takes the copy for an update of the item and deletes the item
(`kvmgr.c:308-309`); then it formats the block with the copy, since the
collection was not complete (`kvmgr.c:574`). `Durable` in run `kv` shows that
nothing else is lost: `at_risk` holds the keys whose item names its own place
when a collection is cut short, and every other key keeps its value.

**A task that waits for the collector may not be woken.** `aos_kv_set` looks at
`gc_triggered`, counts itself in `gc_waiter` and waits, all without the lock
(`kvmgr.c:704-706`). If the collection ends after the look and before the task
blocks, `aos_kv_gc` may find nobody counted, or wake only the tasks that have
blocked already, and the task waits until a later collection. If it is counted
and another collection is triggered between the unlock and the test of
`gc_waiter` (`kvmgr.c:667-668`), `trigger_gc` has set the counter to 0. `missed`
holds the tasks in the first window when a collection ends and the tasks blocked
when the counter is set to 0; `WaiterWillBeSignalled` shows that every other
blocked task is counted while a collector that will signal is still to come, the
unlocked `gc_waiter++` of two tasks included. The race itself is exempted, not
checked.

Places where the code depends on its caller; the first four are listed as
hazards, and so is the deletion of a work queue:

* A second `krhino_task_del` of the same task runs `task_mutex_free` over the
  stale `mutex_list` before it finds the task deleted.
* `krhino_task_del` on the idle task returns inside the critical section.
* `krhino_task_sleep(RHINO_WAIT_FOREVER)`, and any timeout of half the tick
  range or more, is overdue at the next tick.
* `krhino_task_pri_change` tests whether the task is deleted before it enters
  the critical section.
* `krhino_workqueue_del` tests that the queue is idle and then deletes the
  worker outside of the critical section: a work submitted in between is lost.
  The model deletes a queue only when no call on it is under way and no timer
  is going to submit to it (`Unused`, `Open`), so no property says anything about
  such a work; the hazard is listed without one.
* A fixed buffer queue copies a whole block, whatever length the sender gave:
  messages must have the size of a block.
* A stop command that the full command queue of the timers refuses is forgotten
  by `krhino_work_cancel`, which returns success (`k_workqueue.c:295`). Run
  `cancel` has a command queue of 20, as the default configuration, to keep
  this apart from the finding.

## Abstractions

* One CPU, `RHINO_CONFIG_CPU_NUM` = 1, no dynamic ticks. Every object uses
  `BLK_POLICY_PRI`, as all create functions do.
* A call that returns an error changes nothing and is a stuttering step;
  `krhino_task_wait_abort` on a ready task too.
* The time slice of a task and its policy are a nondeterministic choice in
  `time_slice_update`, which covers both policies and every slice.
* Interrupt handlers are sequences of the calls in `IsrApi`; the nesting depth
  is not a variable. A handler that would nest between `tick_list_update` and
  `time_slice_update` is taken before or after the tick.
* Fields the code does not read until it has written them again are kept at one
  value: `tick_match` off the tick list, `blk_state` after the wait has
  returned, `mutex_task` and `owner_nested` of a deleted mutex, `mutex_list` and
  `blk_obj` of a deleted task. For the last, `krhino_task_del` is called on live
  tasks only.
* `krhino_task_pri_change` is one step up to its loop; the test for a deleted task
  (`k_task.c:556`), made before interrupts are disabled, is not split off.
* `krhino_task_create` is one step. The code has two critical sections and between
  them, with interrupts enabled, tests the state of the control block and writes
  its fields, `task_state` and `prio` among them (`k_task.c:43-101`). The
  application creates only control blocks that are not in use, and nobody names the
  new task in another call before its creation has returned.
* Stacks, names, statistics (`peak_num`, `min_free_buf_size`), trace hooks and
  the notification of the object set are left out. In the queues, so are the
  early returns in an interrupt handler and under the scheduler lock, which
  change nothing.
* `RhinoQueue`: a pointer is a message of the size of a block. `task_msg` of a
  task and its `blk_state` are reset when the call returns; the code does not
  read them until it has written them again.
* `RhinoTimer`: `match` and `g_timer_count` are kept relative to the present
  tick, which makes time finite; `sys_time_t` has 64 bits and does not wrap.
  `g_timer_queue` is a bounded sequence, as `MsgQueue` has it. The timeout of
  the outer receive call changes nothing and is left out.
* `RhinoWork`: the semaphore is its count, which for one taker is the same as
  handing tokens over. Creation of a queue is one step, as nobody knows the
  queue before it returns.
* `KvMgr`: items have one length, and a block has room for `Cap` of them, so
  offsets are places. The condition `ITEM_MAX_LEN` of the code, less space left
  than the longest item takes, is then a full block. A write cut short leaves
  nothing, junk in place of the header, or a header with wrong data; a crc that
  matches wrong data by accident is left out. An erase happens or does not, and
  so does the write of a state byte or of a block header. Junk takes one place.
  A find that meets a deleted item in a block marked used would mark it dirty;
  by `ReserveOK` it meets none.

## Not modelled

Parts 6 and 7 of the plan are not written yet: event flags, object set, block
pool, SPSC fifo, several CPUs, yloop and VFS. The variants of create and del that
allocate and free the object (`*_dyn_*`) and the task that frees memory later are
left out, and with them commands that reach a timer after it was freed. Of the
key-value store: flash errors and failing allocations (after which `aos_kv_gc`
formats a block that was not copied, listed as a hazard), stores of more than two
blocks, `aos_kv_deinit` and the CLI commands.

Outside the plan: `k_mm.c` (a heap allocator over raw addresses), statistics,
trace and debug output, the AOS adapters (no state of their own), middleware that
is mainly I/O and parsing (network manager, AT parser, gateway, uData, cloud
SDKs), third-party code (lwIP, Bluetooth, LoRaWAN, FatFs, mbedtls), uMesh (a
binary library), and platform and board support, which appears only as what
`core_sched` and an interrupt do to the running task.
