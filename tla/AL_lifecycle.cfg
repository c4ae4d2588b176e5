SPECIFICATION Spec
CONSTANTS
    Addr = {x1, x2, x3, x4, x5, x6}
    Null = Null
    d = d
    Dims = {d}
    NoFrames = NoFrames
    BadCall = BadCall
    Configs <- SomeConfigs
    EndsManager = FALSE
    KeepsPointers = FALSE
SYMMETRY Symmetric
INVARIANTS
    PartsAgree
    AllOrNothing
PROPERTIES
    TakeoverSpec
