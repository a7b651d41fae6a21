\* A nested owner is deleted while another task waits for its mutex.
CONSTANTS
    t1 = t1  t2 = t2  t3 = t3
    Task = {t1, t2, t3}
    IdleTask = idle
    MainTask = t1
    Mutex = {m1}
    Sem = {}
    NULL = NULL
    PRI_MAX = 4
    BasePri <- MCBasePri3
    TickMod = 4
    Timeouts = {3}
    PriChoices = {}
    NestMax = 2
    SuspendMax = 1
    LockMax = 0
    SemMax = 0
    Api = {"task_create", "mutex_lock", "task_del"}
    IsrApi = {}
SPECIFICATION Spec
INVARIANT HandoverNested
