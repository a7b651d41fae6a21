SPECIFICATION Spec
CONSTANTS
    t1 = t1
    t2 = t2
    Task = {t1, t2}
    Pri <- MCPri
    RingSize = 8
    BlkSize = 2
    ByteMod = 4
    Msg <- MCMsg
    FrontMsg <- MCMsg
    MaxMsg = 4
INVARIANT RingHoldsSentMessages
VIEW MCView
