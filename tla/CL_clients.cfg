SPECIFICATION ClientsSpec
CONSTANTS
    Buffer = {b1, b2, b3}
    Addr = {x1, x2, x3}
    Null = Null
    Capacity = 3
    DEPTH = 3
    Reentrant = FALSE
INVARIANTS
    OneOwner
    PoolKeepsItsBlock
    OneObjectPerSlot
    BooksMatchObjects
