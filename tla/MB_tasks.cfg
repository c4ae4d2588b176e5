SPECIFICATION Spec
CONSTANTS
    Task = {t1, t2}
    MAX_CLIENTS = 2
    MAX_LEASES = 2
    Block = {b1, b2}
    RegionOf <- AllPSRAM
    NoBlock = NoBlock
    Handle = {h1}
    ClientOf <- MCClientOf
    NoHandle = NoHandle
    Vacant = Vacant
    Unused = Unused
    Sizes = {1}
    Wanted = {"PSRAM"}
    Profiles <- TasksProfiles
    Priorities = {}
    Activities = {3}
    Reclaimers = {}
    Limits = {}
    Reports <- TasksReports
    minimumReclaimBytes = 1
SYMMETRY Symmetry
INVARIANTS
    BrokerInvariant
    EveryBlockHasOneOwner
