SPECIFICATION FairSpec
CONSTANTS
    Tx = {t1, t2}
    Bytes = {b1}
    SeedWhitelist <- MCAddr
    AutoModeCfg = TRUE
    HasBot = TRUE
    StoreMayFail = FALSE
    MayRestart = FALSE
    Buttons = {}
    MaxPresses = 0
    Rounds = 1
    RouterCap = 1
    MaxFeeds = 2
    IncomingCap = 2
    MaxPolls = 0
    AMayFail = FALSE
    AMayRestart = FALSE
    TssMayFail = TRUE
    Punctual = FALSE
    MaxBreaks = 0
    Addr <- MCAddr
    Path <- MCPath
    To <- MCTo
    PathOf <- MCPathOf
    a1 = a1
    p1 = p1
    None = None
PROPERTIES
    WireDrainsUnlessHeld
CHECK_DEADLOCK FALSE
