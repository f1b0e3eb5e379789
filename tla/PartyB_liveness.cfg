SPECIFICATION FairSpec
CONSTANTS
    Tx = {t1}
    Bytes = {b1}
    SeedWhitelist <- NoAddr
    AutoModeCfg = TRUE
    HasBot = TRUE
    StoreMayFail = FALSE
    MayRestart = FALSE
    Buttons = {"approve", "whitelist", "reject"}
    MaxPresses = 3
    Rounds = 1
    RouterCap = 1
    MaxFeeds = 1
    Addr <- MCAddr
    Path <- MCPath
    To <- MCTo
    PathOf <- MCPathOf
    a1 = a1
    p1 = p1
    None = None
PROPERTIES
    ReviewIsDecided
    RequestIsAnswered
    ReadyWaitEnds
    BotStuckOnlyOnEnded
