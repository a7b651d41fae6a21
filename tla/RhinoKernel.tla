----------------------------- MODULE RhinoKernel -----------------------------
(***************************************************************************)
(* The kernel: tasks that call it, interrupt handlers and the tick, run    *)
(* one at a time on one CPU and interleave wherever the code enables       *)
(* interrupts.                                                             *)
(***************************************************************************)
EXTENDS RhinoMutex, RhinoSem, RhinoTask

TypeOK ==
    /\ task_state \in [AllTask -> TaskStat]
    /\ prio \in [AllTask -> Prio]
    /\ b_prio \in [AllTask -> Prio]
    /\ suspend_count \in [AllTask -> Nat]
    /\ blk_state \in [AllTask -> BlkStat]
    /\ blk_obj \in [AllTask -> Obj \cup {NULL}]
    /\ mutex_list \in [AllTask -> Seq(Mutex)]
    /\ tick_match \in [AllTask -> Tick]
    /\ obj_type \in [Obj -> ObjType]
    /\ blk_list \in [Obj -> Seq(AllTask)]
    /\ mutex_task \in [Mutex -> AllTask \cup {NULL}]
    /\ owner_nested \in [Mutex -> 0 .. NestMax]
    /\ count \in [Sem -> 0 .. SemMax]
    /\ g_tick_head \in Seq(AllTask)
    /\ g_tick_count \in Tick
    /\ g_ready_queue \in ReadyQueue
    /\ g_active_task \in AllTask
    /\ g_sched_lock \in 0 .. LockMax
    /\ pc \in PC
    /\ op \in [fn : Fn, task : AllTask \cup {NULL}, obj : Obj \cup {NULL},
               ticks : Tick]
    /\ chg \in [task : AllTask \cup {NULL}, pri : Prio]
    /\ call \in [AllTask -> Obj \cup {NULL, "sleep"}]

\* After krhino_start: the idle task and the main task are ready, the main
\* task runs, and the objects are created.
Init ==
    /\ task_state = [t \in AllTask |->
                       IF t \in {IdleTask, MainTask} THEN "K_RDY" ELSE "K_SEED"]
    /\ prio = [t \in AllTask |-> IF t = IdleTask THEN RHINO_IDLE_PRI ELSE BasePri[t]]
    /\ b_prio = prio
    /\ suspend_count = [t \in AllTask |-> 0]
    /\ blk_state = [t \in AllTask |-> "BLK_FINISH"]
    /\ blk_obj = [t \in AllTask |-> NULL]
    /\ mutex_list = [t \in AllTask |-> <<>>]
    /\ tick_match = [t \in AllTask |-> 0]
    /\ obj_type = [o \in Obj |-> IF o \in Mutex THEN "RHINO_MUTEX_OBJ_TYPE"
                                 ELSE "RHINO_SEM_OBJ_TYPE"]
    /\ blk_list = [o \in Obj |-> <<>>]
    /\ mutex_task = [m \in Mutex |-> NULL]
    /\ owner_nested = [m \in Mutex |-> 0]
    /\ count = [s \in Sem |-> 0]
    /\ g_tick_head = <<>>
    /\ g_tick_count = 0
    /\ g_ready_queue =
         [cur_list_item |-> [p \in Prio |->
              IF p = RHINO_IDLE_PRI THEN <<IdleTask>>
              ELSE IF p = BasePri[MainTask] THEN <<MainTask>> ELSE <<>>],
          task_bit_map |-> {RHINO_IDLE_PRI, BasePri[MainTask]},
          highest_pri |-> BasePri[MainTask]]
    /\ g_active_task = MainTask
    /\ g_sched_lock = 0
    /\ pc = "run"
    /\ op = NoOp
    /\ chg = NoChg
    /\ call = [t \in AllTask |-> NULL]

\* The kernel works with interrupts disabled; the next step is determined.
KernelStep ==
    \/ task_pri_change
    \/ mutex_lock_pend \/ mutex_unlock_free \/ mutex_unlock_handover
    \/ mutex_del_wake
    \/ drain_step \/ drain_done
    \/ pri_change_done \/ pend_left
    \/ task_mutex_free \/ task_del_unlink
    \/ tick_expire_sleep \/ tick_expire_pend \/ tick_done

MutexCall == \E m \in Mutex :
    \/ krhino_mutex_create(m)
    \/ \E ticks \in Timeouts : krhino_mutex_lock(m, ticks)
    \/ krhino_mutex_unlock(m)
    \/ krhino_mutex_del(m)

SemCall == \E s \in Sem :
    \/ \E n \in 0 .. SemMax : krhino_sem_create(s, n) \/ krhino_sem_count_set(s, n)
    \/ krhino_sem_del(s)
    \/ sem_give_count(s) \/ sem_give_one(s) \/ sem_give_all(s)
    \/ \E ticks \in Timeouts : krhino_sem_take(s, ticks)

TaskCall == \E t \in Task :
    \/ \E autorun \in BOOLEAN : krhino_task_create(t, autorun)
    \/ krhino_task_suspend(t)
    \/ krhino_task_resume(t)
    \/ \E pri \in PriChoices : krhino_task_pri_change(t, pri)
    \/ krhino_task_wait_abort(t)
    \/ krhino_task_del(t)

\* krhino_task_sleep knows no RHINO_WAIT_FOREVER; the application passes none.
CpuCall ==
    \/ \E ticks \in Timeouts \ {RHINO_WAIT_FOREVER} : krhino_task_sleep(ticks)
    \/ krhino_task_yield
    \/ krhino_sched_disable
    \/ krhino_sched_enable

Next ==
    \/ KernelStep
    \/ core_sched
    \/ pend_state_end_proc
    \/ krhino_tick_proc
    \/ MutexCall \/ SemCall \/ TaskCall \/ CpuCall

Spec == Init /\ [][Next]_vars

(***************************************************************************)
(* Code that runs with interrupts disabled goes on; core_sched runs after  *)
(* finitely many interrupts, since a handler takes less than the time      *)
(* between two of them; the timer keeps interrupting, and its interrupt is *)
(* taken once interrupts are enabled.                                      *)
(***************************************************************************)
FairSpec ==
    /\ Spec
    /\ WF_vars(KernelStep)
    /\ SF_vars(core_sched)
    /\ SF_vars(krhino_tick_proc)
-----------------------------------------------------------------------------
\* Interrupts are enabled: no loop of the kernel is under way.
Stable == pc \in {"run", "sched"}

\* The ready queue holds exactly the ready tasks, once, at their priority, and
\* its bitmap and cached highest_pri agree with the lists.
ReadyQueueOK == ReadyQueueMatches(g_ready_queue, task_state, prio)

\* The block list of an object holds exactly the tasks that wait for it, once,
\* highest priority first, even while priorities change under the waiters.
BlkListOK ==
    \A o \in Obj :
        /\ ToSet(blk_list[o]) =
             {t \in AllTask : task_state[t] \in Pending /\ blk_obj[t] = o}
        /\ IsInjective(blk_list[o])
        /\ \A i, j \in 1 .. Len(blk_list[o]) :
              i < j => prio[blk_list[o][i]] <= prio[blk_list[o][j]]

\* The finite timeouts of the application stay below half the tick range.
ShortTimeouts == \A n \in Timeouts \ {RHINO_WAIT_FOREVER} : n < TickMod \div 2

\* Only waiting tasks are on the tick list, sleepers always are, the list is
\* in the order in which they expire, and outside the tick handler nobody on
\* it is overdue.
TickListOK ==
    /\ IsInjective(g_tick_head)
    /\ ToSet(g_tick_head) \subseteq {t \in AllTask : task_state[t] \in Sleeping \cup Pending}
    /\ {t \in AllTask : task_state[t] \in Sleeping} \subseteq ToSet(g_tick_head)
    /\ \A i, j \in 1 .. Len(g_tick_head) :
         i < j => TickLeft(g_tick_head[i]) <= TickLeft(g_tick_head[j])
    /\ Stable => \A t \in ToSet(g_tick_head) : ~Expired(t)

\* A valid mutex and the list of its owner agree, its owner is alive, and a
\* mutex with waiters has an owner: nobody waits for a mutex that is free.
OwnershipOK ==
    /\ \A t \in AllTask : IsInjective(mutex_list[t])
    /\ \A t \in AllTask, m \in Mutex :
         m \in ToSet(mutex_list[t]) =>
           /\ mutex_task[m] = t
           /\ obj_type[m] = "RHINO_MUTEX_OBJ_TYPE"
           /\ task_state[t] \notin Dead
    /\ Stable => \A m \in Mutex :
         /\ mutex_task[m] # NULL =>
              m \in ToSet(mutex_list[mutex_task[m]]) /\ owner_nested[m] >= 1
         /\ blk_list[m] # <<>> => mutex_task[m] # NULL

\* The tasks that wait for a mutex t owns.
WaitersOf(t) ==
    {w \in Task : /\ task_state[w] \in Pending
                  /\ blk_obj[w] \in Mutex
                  /\ mutex_task[blk_obj[w]] = t}

\* Priority inheritance is exact: between kernel calls every task runs at the
\* highest of its base priority and the priorities of all tasks that wait for
\* a mutex it owns.  Nothing inherited is lost along a chain of owners, and
\* nothing is kept when a waiter times out, is aborted or deleted.
PriorityExact ==
    Stable => \A t \in Task : task_state[t] \notin Dead =>
        prio[t] = Min({b_prio[t]} \cup {prio[w] : w \in WaitersOf(t)})

\* With the scheduler unlocked, the running task is the first one of the
\* highest ready priority whenever it executes its own code; with it locked,
\* the running task stays ready.
RunsHighest ==
    pc = "run" =>
        /\ task_state[g_active_task] = "K_RDY"
        /\ g_sched_lock = 0 =>
             g_active_task = preferred_cpu_ready_task_get(g_ready_queue)

\* What krhino_mutex_lock will return is true: a task woken with success owns
\* the mutex (unless it was deleted meanwhile), and one woken by a timeout or
\* an abort does not own it.
LockOutcome ==
    Stable => \A t \in Task, m \in Mutex :
        (call[t] = m /\ task_state[t] \notin Pending) =>
            IF blk_state[t] = "BLK_FINISH"
            THEN obj_type[m] = "RHINO_MUTEX_OBJ_TYPE" => mutex_task[m] = t
            ELSE mutex_task[m] # t

\* A task that krhino_mutex_lock gave the mutex while it waited owns it with a
\* nesting of one: its first unlock releases the mutex.
HandoverNested ==
    \A t \in Task, m \in Mutex :
        (call[t] = m /\ mutex_task[m] = t) => owner_nested[m] = 1

\* No token is left in a semaphore somebody waits for.
SemNoLostToken ==
    \A s \in Sem : count[s] > 0 => blk_list[s] = <<>>

\* suspend_count never passes the limit at which task_suspend refuses, and every
\* suspended task has a suspension left for krhino_task_resume to take away:
\* also after krhino_task_wait_abort, which leaves the count of a task it makes
\* ready, and whatever wakes or suspends the task next.
SuspendCountOK ==
    \A t \in AllTask :
        /\ suspend_count[t] <= SuspendMax
        /\ task_state[t] \in Suspended => suspend_count[t] > 0

\* A suspended task stays suspended, whoever gives it the semaphore, deletes
\* the object it waits for or lets its wait expire in the meantime, until the
\* resume that takes back its last suspension; only krhino_task_wait_abort and
\* krhino_task_del overrule that.
SuspendHolds ==
    [][\A t \in AllTask :
         (task_state[t] \in Suspended /\ task_state'[t] \notin Suspended) =>
           \/ suspend_count[t] = 1 /\ suspend_count'[t] = 0
           \/ krhino_task_wait_abort(t)
           \/ task_state'[t] = "K_DELETED"]_vars

\* Every loop of the kernel ends, task_pri_change too when the tasks it walks
\* through wait for each other in a cycle.
LoopsEnd == ~Stable ~> pc = "run"

\* A task on the tick list, asleep or waiting with a timeout, gets off it
\* whatever the others do: also when it is suspended or its priority changes,
\* and when the tick counter wraps.
TimedWaitEnds ==
    \A t \in Task : t \in ToSet(g_tick_head) ~> t \notin ToSet(g_tick_head)

\* A mutex that changes hands goes to a waiter no other waiter outranks.
HandoverToHighest ==
    [][\A m \in Mutex :
         (mutex_task[m] # NULL /\ mutex_task'[m] \notin {NULL, mutex_task[m]}) =>
           /\ mutex_task'[m] \in ToSet(blk_list[m])
           /\ \A t \in ToSet(blk_list[m]) : prio[mutex_task'[m]] <= prio[t]]_vars
-----------------------------------------------------------------------------
(***************************************************************************)
(* The inductive invariant behind TypeOK and ReadyQueueOK.                 *)
(***************************************************************************)
\* The idle task is always ready, alone in never waiting for anything.
IdleReady == task_state[IdleTask] = "K_RDY"

\* The task that runs its own code, or that locked the scheduler, is ready.
ActiveReady == (pc = "run" \/ g_sched_lock > 0) => task_state[g_active_task] = "K_RDY"

\* The waiters of an object are on its block list, once, and have not returned
\* from the call that blocked them.
WaitersListed ==
    /\ \A t \in AllTask : task_state[t] \in Pending =>
         blk_obj[t] \in Obj /\ call[t] = blk_obj[t] /\ t \in ToSet(blk_list[blk_obj[t]])
    /\ \A o \in Obj :
         /\ \A t \in ToSet(blk_list[o]) : task_state[t] \in Pending /\ blk_obj[t] = o
         /\ IsInjective(blk_list[o])

\* Nobody waits for a mutex that is valid and has no owner.
WaitersOwned ==
    /\ mutex_task \in [Mutex -> Task \cup {NULL}]
    /\ \A s \in Sem : obj_type[s] # "RHINO_MUTEX_OBJ_TYPE"
    /\ \A t \in AllTask :
         (task_state[t] \in Pending /\ obj_type[blk_obj[t]] = "RHINO_MUTEX_OBJ_TYPE") =>
           mutex_task[blk_obj[t]] \in Task

\* The call that runs with interrupts disabled is one the code makes.
CallOK ==
    /\ chg.task \in Task \cup {NULL}
    /\ pc = "drain" => op.obj \in Obj
    /\ pc = "mfree" =>
         op.fn = "del" /\ op.task \in Task /\ (op.task = g_active_task => g_sched_lock = 0)
    /\ pc = "pri" =>
         /\ op.fn = "lock" =>
              /\ op.obj \in Mutex /\ mutex_task[op.obj] \in Task
              /\ op.task \in Task /\ op.task = g_active_task
              /\ task_state[op.task] = "K_RDY" /\ g_sched_lock = 0
         /\ op.fn = "unlock" => op.obj \in Mutex /\ task_state[g_active_task] = "K_RDY"
         /\ op.fn = "mutex_del" => op.obj \in Mutex
         /\ op.fn \in {"abort", "tick"} => op.task \in Task /\ task_state[op.task] \notin Pending

IInv ==
    /\ TypeOK
    /\ ReadyQueueOK
    /\ IdleReady
    /\ ActiveReady
    /\ WaitersListed
    /\ WaitersOwned
    /\ CallOK
=============================================================================
