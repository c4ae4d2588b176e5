SPECIFICATION Spec
CONSTANTS
    Task = {t1, t2}
    Keeper = t1
    InternalOnly = {i1}
    DmaCapable = {d1}
    External = {x1, x2}
    NoAddr = NoAddr
    Foreign = {x2}
    Capacity <- MCCapacity
    Slots = 2
    Vacant = Vacant
    Sizes = {1}
    Purposes = {"General", "DMA"}
    Tags = {tagA, tagB}
    NoTag = NoTag
    HasPSRAM = TRUE
    PreferPSRAM = TRUE
    AllowFallback = TRUE
    AllowBitmapFallback = TRUE
    AllowScratchFallback = TRUE
    RequirePSRAMForFramebuffer = TRUE
    Threshold = 2
    InternalReserve = 1
    PSRAMReserve = 1
    ScratchBytes = 0
    ExclusiveLifecycle = TRUE
PROPERTIES
    ReleaseTagKeepsOthers
