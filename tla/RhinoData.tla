------------------------------ MODULE RhinoData ------------------------------
(***************************************************************************)
(* State of the rhino kernel (kernel/rhino/core) in its single-CPU build:  *)
(* the task control blocks, the kernel objects a task can block on, the    *)
(* tick list, the ready queue and the scheduler.  Every component module   *)
(* of the kernel extends this one and writes these variables.              *)
(*                                                                         *)
(* Fields of ktask_t, ksem_t and kmutex_t are functions over the task or   *)
(* the object, under the name the field has in k_task.h, k_sem.h and       *)
(* k_mutex.h.  A klist_t is the sequence of the tasks linked on it.        *)
(***************************************************************************)
EXTENDS RhinoList, FiniteSets

CONSTANTS
    Task,          \* user tasks, a set of model values
    IdleTask,      \* g_idle_task
    MainTask,      \* the user task created before krhino_start
    Mutex, Sem,    \* kmutex_t and ksem_t objects
    NULL,
    PRI_MAX,       \* RHINO_CONFIG_PRI_MAX: priorities are 0 .. PRI_MAX - 1
    BasePri,       \* priority each user task is created with
    TickMod,       \* 2^w for a tick_t of w bits
    Timeouts,      \* the ticks arguments the application passes
    PriChoices,    \* priorities the application asks for in task_pri_change
    NestMax,       \* (mutex_nested_t)-1, where krhino_mutex_lock refuses
    SuspendMax,    \* (suspend_nested_t)-1, where task_suspend refuses
    LockMax,       \* SCHED_MAX_LOCK_COUNT
    SemMax,        \* (sem_count_t)-1, where sem_give refuses
    Api,           \* kernel calls the tasks of the application make
    IsrApi         \* kernel calls its interrupt handlers make

AllTask == Task \cup {IdleTask}
Obj == Mutex \cup Sem
Prio == 0 .. PRI_MAX - 1
RHINO_IDLE_PRI == PRI_MAX - 1
Tick == 0 .. TickMod - 1
RHINO_WAIT_FOREVER == TickMod - 1

(***************************************************************************)
(* The idle task is alone at the lowest priority (task_create refuses a    *)
(* second one).  A finite timeout stays below half the tick range, where   *)
(* the unsigned order of tick_list_pri_insert and the signed comparison of *)
(* tick_list_update agree.                                                 *)
(***************************************************************************)
ASSUME TasksAssumption ==
    /\ IdleTask \notin Task
    /\ MainTask \in Task
    /\ NULL \notin AllTask \cup Obj
    /\ Mutex \cap Sem = {}
    /\ Obj \cap {"sleep"} = {}
    /\ NULL # "sleep"
ASSUME PriAssumption ==
    /\ PRI_MAX \in Nat /\ PRI_MAX >= 2
    /\ BasePri \in [Task -> 0 .. PRI_MAX - 2]
    /\ PriChoices \subseteq 0 .. PRI_MAX - 2
ASSUME BoundsAssumption ==
    /\ TickMod \in Nat /\ TickMod >= 4
    /\ Timeouts \subseteq 1 .. TickMod - 1
    /\ NestMax \in Nat \ {0}
    /\ SuspendMax \in Nat \ {0}
    /\ LockMax \in Nat
    /\ SemMax \in Nat

VARIABLES
    \* ktask_t
    task_state, prio, b_prio, suspend_count, blk_state, blk_obj,
    mutex_list,      \* mutexes the task holds, the last one taken first
    tick_match,
    \* blk_obj_t, kmutex_t, ksem_t
    obj_type, blk_list, mutex_task, owner_nested, count,
    \* globals
    g_tick_head, g_tick_count, g_ready_queue, g_active_task, g_sched_lock,
    \* control
    pc,              \* where the CPU is, see below
    op,              \* the kernel call running with interrupts disabled
    chg,             \* the locals task and new_pri of task_pri_change
    call             \* the blocking call a task has not returned from

taskVars  == <<task_state, suspend_count, blk_state, blk_obj, call>>
priVars   == <<prio, b_prio>>
objVars   == <<obj_type, blk_list>>
mutexVars == <<mutex_list, mutex_task, owner_nested>>
tickVars  == <<tick_match, g_tick_head, g_tick_count>>
schedVars == <<g_active_task, g_sched_lock>>
ctlVars   == <<pc, op, chg>>
vars == <<taskVars, priVars, objVars, mutexVars, count, tickVars,
          g_ready_queue, schedVars, ctlVars>>

(***************************************************************************)
(* pc: "run"    the active task runs its own code, interrupts enabled;     *)
(*     "sched"  RHINO_CRITICAL_EXIT_SCHED has enabled interrupts and       *)
(*              core_sched has not run yet, or an interrupt handler has    *)
(*              not reached krhino_intrpt_exit yet;                        *)
(* and, with interrupts disabled, the loops of the kernel:                 *)
(*     "pri"    task_pri_change, "tick" tick_list_update,                  *)
(*     "drain"  the wake-all loops, "mfree" task_mutex_free.               *)
(***************************************************************************)
PC == {"run", "sched", "pri", "tick", "drain", "mfree"}
Fn == {"none", "lock", "unlock", "mutex_del", "pri_change", "abort", "del",
       "tick", "sem_del", "give_all"}
NoOp == [fn |-> "none", task |-> NULL, obj |-> NULL, ticks |-> 0]
NoChg == [task |-> NULL, pri |-> 0]

\* task_stat_t and blk_state_t.  K_SEED is the zeroed control block of a task
\* that was never created.
Suspended == {"K_SUSPENDED", "K_SLEEP_SUSPENDED", "K_PEND_SUSPENDED"}
Sleeping == {"K_SLEEP", "K_SLEEP_SUSPENDED"}
Pending == {"K_PEND", "K_PEND_SUSPENDED"}
Dead == {"K_SEED", "K_DELETED"}
TaskStat == {"K_RDY"} \cup Suspended \cup Sleeping \cup Pending \cup Dead
BlkStat == {"BLK_FINISH", "BLK_ABORT", "BLK_TIMEOUT", "BLK_DEL"}
ObjType == {"RHINO_OBJ_TYPE_NONE", "RHINO_MUTEX_OBJ_TYPE", "RHINO_SEM_OBJ_TYPE"}

\* A task is in its own code and may call the kernel: it is not the idle task
\* and has returned from the last call that blocked it.
InTask == pc = "run" /\ g_active_task # IdleTask /\ call[g_active_task] = NULL
\* An interrupt is taken while interrupts are enabled.
InIsr == pc \in {"run", "sched"}
TaskCalls(fn) == fn \in Api /\ InTask
Calls(fn) == TaskCalls(fn) \/ (fn \in IsrApi /\ InIsr)
=============================================================================
