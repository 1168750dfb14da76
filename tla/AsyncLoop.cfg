CONSTANTS
    Main = main
    k1 = k1
    k2 = k2
    k3 = k3
    g1 = g1
    Nobody = nobody
    Tasks = {k1, k2, k3}
    Groups = {g1}
    HasValue = {}
    Fails = {k2}
    Workers = {w1, w2}
    Code <- LoopCode
SPECIFICATION FairSpec
INVARIANTS
    NoUseAfterFree
    RefsAccounted
    GroupAccounting
    NoLostWakeup
PROPERTIES
    ImplementsFutures
