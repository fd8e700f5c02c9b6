SPECIFICATION FairSpec
CONSTANTS
    a = a
    b = b
    c = c
    Threads = {a, b, c}
    Survivors = {a, b}
    Structures = {"hashmap", "trie"}
    Scripts <- MCScripts
    Elements <- MCElements
    None = None
    nbpow = 1
    Keys = {1, 2, 4}
    Vals = {1, 2}
CHECK_DEADLOCK FALSE
INVARIANT NodesConserved
PROPERTIES
    IsAtomicMap
    IsAtomicTrie
    EveryCallReturns
