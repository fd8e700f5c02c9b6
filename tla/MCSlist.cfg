CONSTANTS
    a = a
    b = b
    Threads = {a, b}
    Survivors = {b}
    Script <- Mixed
    MaxElements = 4
SPECIFICATION FairSpec
INVARIANTS
    DeleteGetsLastData
PROPERTIES
    ReachNeverShrinks
    PhysicalDeleteFreesEachOnce
    ReadNeverDisposed
    EveryCallReturns
CHECK_DEADLOCK FALSE
