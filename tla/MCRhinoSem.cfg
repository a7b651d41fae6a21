\* Semaphore, suspend, abort and the scheduler lock, with calls from interrupt handlers.
CONSTANTS
    t1 = t1  t2 = t2  t3 = t3
    Task = {t1, t2, t3}
    IdleTask = idle
    MainTask = t1
    Mutex = {}
    Sem = {s1}
    NULL = NULL
    PRI_MAX = 3
    BasePri <- MCBasePriEq
    TickMod = 4
    Timeouts = {1, 3}
    PriChoices = {}
    NestMax = 1
    SuspendMax = 1
    LockMax = 1
    SemMax = 1
    Api = {"task_create", "task_create_suspended", "yield", "sched_disable", "sem_take", "sem_give_all", "sem_del", "sem_create", "sem_count_set", "wait_abort"}
    IsrApi = {"sem_give", "task_resume", "task_suspend"}
SPECIFICATION Spec
INVARIANTS IInv RunsHighest SemNoLostToken SuspendCountOK
PROPERTY SuspendHolds
