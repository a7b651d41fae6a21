\* Priority inheritance over chains and cycles of two mutexes, with timeouts and priority changes.
CONSTANTS
    t1 = t1  t2 = t2  t3 = t3
    Task = {t1, t2, t3}
    IdleTask = idle
    MainTask = t1
    Mutex = {m1, m2}
    Sem = {}
    NULL = NULL
    PRI_MAX = 4
    BasePri <- MCBasePri3
    TickMod = 4
    Timeouts = {1, 3}
    PriChoices = {0, 2}
    NestMax = 1
    SuspendMax = 1
    LockMax = 0
    SemMax = 0
    Api = {"task_create", "mutex_lock", "task_pri_change"}
    IsrApi = {}
SPECIFICATION Spec
INVARIANTS TypeOK BlkListOK OwnershipOK PriorityExact RunsHighest LockOutcome
PROPERTY HandoverToHighest
