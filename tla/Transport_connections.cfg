SPECIFICATION FairSpec
CONSTANTS
    Req = {r1, r2}
    MaxConn = 2
    MaxSends = 3
    MaxEpochs = 2
    InCap = 1
    None = None
INVARIANTS TTypeOK ReplyIsOwn PendingIsLive RoundsInOrder
PROPERTY ClientComesBack
CHECK_DEADLOCK FALSE
