SPECIFICATION Spec
CONSTANTS
    Mnemonic = {m1}
    Host = {h1}
    p443 = p443
    p9000 = p9000
    Port <- MCPort
    DefaultPort = p443
    LocalPort = p9000
    NoProcesses = FALSE
    OldMnemonic = m1
    OldSites = {"local"}
    Modes = {TRUE}
    MaxEdits = 2
    MaxDeploys = 1
    MaxUpdates = 0
    MaxDerives = 0
    Watched = TRUE
    ToolsMayFail = FALSE
    SilentFail = FALSE
    None = None
PROPERTIES
    DeployEnds
CHECK_DEADLOCK FALSE
