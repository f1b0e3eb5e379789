SPECIFICATION Spec
CONSTANTS
    Tx = {t1}
    Bytes = {b1}
    SeedWhitelist <- MCAddr
    AutoModeCfg = FALSE
    HasBot = TRUE
    StoreMayFail = FALSE
    MayRestart = TRUE
    Buttons = {"approve", "reject"}
    MaxPresses = 1
    Rounds = 2
    RouterCap = 2
    MaxFeeds = 2
    IncomingCap = 1
    MaxPolls = 2
    AMayFail = TRUE
    AMayRestart = TRUE
    TssMayFail = FALSE
    Punctual = FALSE
    MaxBreaks = 1
    Addr <- MCAddr
    Path <- MCPath
    To <- MCTo
    PathOf <- MCPathOf
    a1 = a1
    p1 = p1
    None = None
INVARIANTS
    ATypeOK
    SignedIsOnRecord
    RejectedIsNeverSigned
    SignedIsAuthorised
CHECK_DEADLOCK FALSE
