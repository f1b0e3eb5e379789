SPECIFICATION FairSpec
CONSTANTS
    Tx = {t1}
    Bytes = {b1}
    SeedWhitelist <- NoAddr
    AutoModeCfg = FALSE
    HasBot = TRUE
    StoreMayFail = FALSE
    MayRestart = FALSE
    Buttons = {"approve", "reject"}
    MaxPresses = 1
    Rounds = 1
    RouterCap = 2
    MaxFeeds = 2
    IncomingCap = 2
    MaxPolls = 0
    AMayFail = FALSE
    AMayRestart = FALSE
    TssMayFail = FALSE
    Punctual = TRUE
    MaxBreaks = 0
    Addr <- MCAddr
    Path <- MCPath
    To <- MCTo
    PathOf <- MCPathOf
    a1 = a1
    p1 = p1
    None = None
PROPERTIES
    ApprovedIsSigned
CHECK_DEADLOCK FALSE
