SPECIFICATION FairSpec
CONSTANTS
    a1 = a1
    a2 = a2
    e1 = e1
    e2 = e2
    Entry = {a1, a2}
    Lease = {e1, e2}
    SizeOf <- SmallOrLarge
    TOTAL = 8
    criticalPSRAMFreeBytes = 2
    warningPSRAMFreeBytes = 4
    InternalLevels = {"Normal", "Critical"}
    Brokers = {TRUE, FALSE}
    Budgets = {0, 3}
    purgeUnpinnedOnCritical = TRUE
    resetScratchOnCritical = TRUE
    minimumBytes = 1
    minimumReclaimBytes = 2
    warningReclaimPercent = 25
    criticalReclaimPercent = 100
    warningCachePercent = 75
    Interferes = FALSE
INVARIANTS
    CriticalInFull
    UsageIsCurrent
PROPERTIES
    PreservesTheRest
    CriticalRecovers
