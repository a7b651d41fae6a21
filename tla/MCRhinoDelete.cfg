\* Tasks and mutexes deleted and created again, waits aborted, nested locks.
CONSTANTS
    t1 = t1  t2 = t2  t3 = t3
    Task = {t1, t2, t3}
    IdleTask = idle
    MainTask = t1
    Mutex = {m1, m2}
    Sem = {}
    NULL = NULL
    PRI_MAX = 4
    BasePri <- MCBasePri3
    TickMod = 4
    Timeouts = {3}
    PriChoices = {}
    NestMax = 2
    SuspendMax = 1
    LockMax = 0
    SemMax = 0
    Api = {"task_create", "mutex_lock", "wait_abort", "task_del", "mutex_del", "mutex_create"}
    IsrApi = {}
SPECIFICATION Spec
INVARIANTS ReadyQueueOK OwnershipOK PriorityExact LockOutcome
