SPECIFICATION Spec
CONSTANTS
    Tx = {t1}
    Bytes = {b1}
    SeedWhitelist <- MCAddr
    AutoModeCfg = TRUE
    HasBot = TRUE
    StoreMayFail = TRUE
    MayRestart = TRUE
    Buttons = {"approve", "whitelist", "reject"}
    MaxPresses = 3
    Rounds = 1
    RouterCap = 1
    MaxFeeds = 1
    Addr <- MCAddr
    Path <- MCPath
    To <- MCTo
    PathOf <- MCPathOf
    a1 = a1
    p1 = p1
    None = None
INVARIANTS
    Authorised
    RejectReplyIsFinal
    MapsMatchGoroutines
PROPERTIES
    FollowsLifecycle
