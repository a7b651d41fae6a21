SPECIFICATION Spec
CONSTANTS
    t1 = t1
    t2 = t2
    Task = {t1, t2}
    Pri <- MCPri
    RingSize = 8
    BlkSize = 2
    ByteMod = 4
    Msg <- MCMsg
    FrontMsg <- MCFrontMsg
    MaxMsg = 4
INVARIANTS
    TypeOK
    NoWaiterMissesMessage
    RingHoldsSentMessages
PROPERTY ImplementsMsgQueue
VIEW MCView
