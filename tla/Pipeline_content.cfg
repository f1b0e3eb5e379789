SPECIFICATION Spec
CONSTANTS
    Id = {i1, i2}
    Addr = {a1, a2, s1, s2}
    Twins = {s1, s2}
    Folded = Folded
    ZeroAddr = ZeroAddr
    Self = Self
    SystemKey = SystemKey
    MaxInt64 = 2
    MaxUint64 = 3
    Threshold = 4
    HasLLM = TRUE
    MaxHash = 1
    Request <- MCRequest
INVARIANTS
    PipelineTypeOK
    
    AutoApprovedIsWhitelisted
    
    MismatchIsReal
    SignedIsFresh
SYMMETRY Sym
