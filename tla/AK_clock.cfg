SPECIFICATION Spec
CONSTANTS
    Task = {t1}
    Servicer = {t1}
    Client = {c1}
    l1 = l1
    l2 = l2
    Lease = {l1, l2}
    BytesOf <- SmallAndLarge
    RegionOf <- DMAAndInternal
    Unused = Unused
    NoCall = NoCall
    W = 7
    Configs <- SomeConfigs
    Activities = {3}
    BURST_MS = 1
    serviceIntervalMs = 1
    GAP = 2
INVARIANTS
    IdleWhenQuiet
PROPERTIES
    NobodyBeforeItsTurn
