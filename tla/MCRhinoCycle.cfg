\* Three tasks that wait for each other in cycles over two mutexes: the inheritance loop ends.
CONSTANTS
    t1 = t1  t2 = t2  t3 = t3
    Task = {t1, t2, t3}
    IdleTask = idle
    MainTask = t1
    Mutex = {m1, m2}
    Sem = {}
    NULL = NULL
    PRI_MAX = 4
    BasePri <- MCBasePriLow
    TickMod = 4
    Timeouts = {3}
    PriChoices = {0}
    NestMax = 1
    SuspendMax = 1
    LockMax = 0
    SemMax = 0
    Api = {"task_create", "mutex_lock", "task_pri_change"}
    IsrApi = {}
SPECIFICATION FairSpec
PROPERTY LoopsEnd
