SPECIFICATION Spec
CONSTANTS
    Call = {c1, c2}
    Word = {w1, w2}
    NoWord = NoWord
    Spare = 2
    Chain <- MCChain
INVARIANTS
    AnchorTypeOK
    MixedOnlyIfShared
    PdaSeedsFinal
    SlotsFilled
SYMMETRY Sym
CHECK_DEADLOCK FALSE
