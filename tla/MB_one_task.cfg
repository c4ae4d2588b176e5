SPECIFICATION FairSpec
CONSTANTS
    Task = {t1}
    MAX_CLIENTS = 2
    MAX_LEASES = 2
    Block = {b1, b2}
    RegionOf <- AllPSRAM
    NoBlock = NoBlock
    Handle = {h1}
    ClientOf <- MCClientOf
    NoHandle = NoHandle
    Vacant = Vacant
    Unused = Unused
    Sizes = {1}
    Wanted = {"PSRAM"}
    Profiles <- OneTaskProfiles
    Priorities = {4}
    Activities = {}
    Reclaimers = {FALSE}
    Limits <- OneTaskLimits
    Reports <- OneTaskReports
    minimumReclaimBytes = 1
INVARIANTS
    HandleOwnsItsBlock
PROPERTIES
    HardLimitKept
    DonorsRespected
    CallsReturn
