CONSTANTS
    a = a
    b = b
    Threads = {a, b}
    Survivors = {b}
    Scripts <- Both
    number_elements = 2
    MaxElements = 6
    Garbage = {0, 2}
SPECIFICATION FairSpec
INVARIANTS
    DequeueNeverPassesEnqueue
    ElementsConserved
    ItemsReturnedOnce
    DeleteReclaimsAll
PROPERTIES
    IsAtomicQueue
    EveryCallReturns
CHECK_DEADLOCK FALSE
