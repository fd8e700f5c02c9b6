CONSTANTS
    a = a
    b = b
    Threads = {a, b}
    Survivors = {b}
    Script <- Recycling
    number_elements = 2
    MaxElements = 3
SPECIFICATION FairSpec
INVARIANTS
    ElementsConserved
PROPERTIES
    IsAtomicLifo
    EveryCallReturns
CHECK_DEADLOCK FALSE
