CONSTANTS
    Threads = {a, b, c}
    number_elements = 2
    MaxCalls = 2
    MaxLen = 3
    WordBits = 4
SPECIFICATION QueriedSpec
INVARIANTS
    ElementsConserved
    PutWriteNeverFails
    EveryWriteAccounted
    DeleteLeavesOnlyUnread
    VerdictIsExact
    ValidMeansConserved
PROPERTIES
    EveryCallReturns
    QueryEnds
CHECK_DEADLOCK FALSE
