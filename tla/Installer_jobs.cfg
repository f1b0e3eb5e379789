SPECIFICATION Spec
CONSTANTS
    Mnemonic = {m1, m2}
    Host = {h1}
    p443 = p443
    p9000 = p9000
    Port <- MCPort
    DefaultPort = p443
    LocalPort = p9000
    NoProcesses = FALSE
    OldMnemonic = m1
    OldSites = {"local"}
    Modes = {TRUE, FALSE}
    MaxEdits = 3
    MaxDeploys = 1
    MaxUpdates = 0
    MaxDerives = 1
    Watched = FALSE
    ToolsMayFail = TRUE
    SilentFail = TRUE
    None = None
INVARIANTS
    ITypeOK
    SharesFit
    PartiesCanConnect
    StaleOnlyIfRaced
CHECK_DEADLOCK FALSE
