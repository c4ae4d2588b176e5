SPECIFICATION FairSpec
CONSTANTS
    Task = {t1}
    Keeper = t1
    InternalOnly = {i1}
    DmaCapable = {d1}
    External = {x1}
    NoAddr = NoAddr
    Foreign = {}
    Capacity <- MCCapacity
    Slots = 2
    Vacant = Vacant
    Sizes = {1, 2}
    Purposes = {"General", "Framebuffer", "Bitmap", "DMA", "Control"}
    Tags = {tagA}
    NoTag = NoTag
    HasPSRAM = TRUE
    PreferPSRAM = TRUE
    AllowFallback = TRUE
    AllowBitmapFallback = FALSE
    AllowScratchFallback = TRUE
    RequirePSRAMForFramebuffer = TRUE
    Threshold = 2
    InternalReserve = 1
    PSRAMReserve = 1
    ScratchBytes = 0
    ExclusiveLifecycle = TRUE
INVARIANTS
    ReallocKeepsOld
    PlacementPolicy
PROPERTIES
    ReserveProtected
    CallsReturn
