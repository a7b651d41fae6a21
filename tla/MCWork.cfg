SPECIFICATION FairSpec
CONSTANTS
    NULL = NULL
    w1 = w1
    w2 = w2
    x2 = x2
    p = p
    Work = {w1, w2}
    WorkTimer <- MCWorkTimer
    Timer = {x2, p}
    AppTimer = {p}
    First <- MCFirst
    Round <- MCRound
    FirstChoices = {1}
    Client = {c1, c2}
    Queue = q
    MayDelete = TRUE
    TimerMsgNum = 1
    MaxLag = 2
    MaxCalls = 3
INVARIANTS
    TypeOK
    TokensExact
    WorkExitExact
    TimerListOK
    TimerSleepOK
PROPERTIES
    LinkedWorkRuns
    TimersExpire
CHECK_DEADLOCK FALSE
