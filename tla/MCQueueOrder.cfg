CONSTANTS
    a = a
    b = b
    Threads = {a, b}
    Survivors = {a, b}
    Scripts <- OnlyOrdered
    number_elements = 3
    MaxElements = 4
    Garbage = {0}
SPECIFICATION Spec
INVARIANTS
    PerProducerOrder
CHECK_DEADLOCK FALSE
