\* Timed waits under fairness: two tasks that may wait for each other, sleep and be suspended.
CONSTANTS
    t1 = t1  t2 = t2  t3 = t3
    Task = {t1, t2}
    IdleTask = idle
    MainTask = t1
    Mutex = {m1, m2}
    Sem = {}
    NULL = NULL
    PRI_MAX = 3
    BasePri <- MCBasePri2
    TickMod = 6
    Timeouts = {1, 2}
    PriChoices = {}
    NestMax = 1
    SuspendMax = 2
    LockMax = 0
    SemMax = 0
    Api = {"task_create", "mutex_lock", "sleep"}
    IsrApi = {"task_suspend", "task_resume"}
SPECIFICATION FairSpec
INVARIANT TickListOK
PROPERTIES TimedWaitEnds SuspendHolds
