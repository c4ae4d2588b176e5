SPECIFICATION FairSpec
CONSTANTS
    Dims = {d1, d2}
    NoFrames = NoFrames
    BadCall = BadCall
    Rebegins = FALSE
INVARIANTS
    NoReclaimBehindTheDriver
    DriverGetsItsFrames
    BridgeTearsDown
PROPERTIES
    ManualInstanceKept
    LightweightRestored
