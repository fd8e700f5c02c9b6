CONSTANTS
    a = a
    b = b
    Threads = {a, b}
    Survivors = {a, b}
    Script <- Inserting
    MaxElements = 3
SPECIFICATION Spec
INVARIANTS
    CreatedLessDeletedAreFound
CHECK_DEADLOCK FALSE
