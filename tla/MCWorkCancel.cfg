SPECIFICATION Spec
CONSTANTS
    NULL = NULL
    w1 = w1
    w2 = w2
    x2 = x2
    p = p
    Work = {w2}
    WorkTimer <- MCWorkTimer
    Timer = {x2}
    AppTimer = {}
    First <- MCFirst
    Round <- MCRound
    FirstChoices = {}
    Client = {c1}
    Queue = q
    MayDelete = FALSE
    TimerMsgNum = 20
    MaxLag = 1
    MaxCalls = 4
INVARIANT CancelStopsTimer
CHECK_DEADLOCK FALSE
