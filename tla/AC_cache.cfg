SPECIFICATION Spec
CONSTANTS
    Key = {k1, k2, k3, k4}
    NoKey = NoKey
    Block = {b1, b2, b3}
    NoBlock = NoBlock
    Empty = Empty
    MAX_ENTRIES = 3
    Sizes = {1, 2, 4}
    Budgets = {0, 3}
    COUNTER_MAX = 3
SYMMETRY Symmetry
INVARIANTS
    CacheInvariant
    EveryBlockHasOneEntry
PROPERTIES
    PinnedKept
    FailedResizeKeepsAsset
    EvictsLeastRecent
