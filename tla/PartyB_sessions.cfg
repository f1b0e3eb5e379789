SPECIFICATION Spec
CONSTANTS
    Tx = {t1, t2}
    Bytes = {b1}
    SeedWhitelist <- MCAddr
    AutoModeCfg = TRUE
    HasBot = TRUE
    StoreMayFail = FALSE
    MayRestart = FALSE
    Buttons = {"approve", "whitelist", "reject"}
    MaxPresses = 1
    Rounds = 1
    RouterCap = 1
    MaxFeeds = 1
    Addr <- MCAddr
    Path <- MCPath
    To <- MCTo
    PathOf <- MCPathOf
    a1 = a1
    p1 = p1
    None = None
SYMMETRY TxSymmetry
INVARIANTS
    TypeOK
    RouterServesNewest
    MapsMatchGoroutines
PROPERTIES
    FollowsLifecycle
