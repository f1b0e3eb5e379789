SPECIFICATION Spec
CONSTANTS
    Mnemonic = {m1}
    Host = {h1}
    p443 = p443
    p9000 = p443
    Port <- MCPort
    DefaultPort = p443
    LocalPort = p443
    NoProcesses = FALSE
    OldMnemonic = m1
    OldSites = {"local"}
    Modes = {TRUE}
    MaxEdits = 2
    MaxDeploys = 1
    MaxUpdates = 1
    MaxDerives = 0
    Watched = TRUE
    ToolsMayFail = TRUE
    SilentFail = FALSE
    None = None
PROPERTIES
    JobsEnd
    StreamEnds
CHECK_DEADLOCK FALSE
