SPECIFICATION ArenaSpec
CONSTANTS
    BASE = 88
    CAPACITY = 34
    Power <- Powers
    ADDRESS_MAX = 127
    Sizes = {0, 3, 12}
    Alignments = {6, 16, 64, 100}
    MAX_DEPTH = 3
    BackgroundResets = FALSE
INVARIANTS
    FrameLifetime
    OffsetIsExact
