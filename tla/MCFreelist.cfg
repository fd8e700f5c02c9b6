CONSTANTS
    Threads = {t1, t2}
    Survivors = {t1}
    MaxElements = 3
    InitElements = 2
    MaxPush = 4
SPECIFICATION FairSpec
INVARIANTS
    MemoryIsList
    NoElementLostOrShared
    NoTornPublish
    CountersMarkPushes
PROPERTIES
    ListedNextIsStable
    IsAtomicStack
    EveryCallReturns
