CONSTANTS
    Main = main
    k1 = k1
    k2 = k2
    k3 = k3
    g1 = g1
    Nobody = nobody
    Tasks = {k1, k2, k3}
    Groups = {g1}
    HasValue = {k3}
    Fails = {}
    Workers = {w1, w2}
    Code <- NestedCode
SPECIFICATION FairSpec
INVARIANTS
    TypeOK
    AllDestroyedAtShutdown
    ResumesSuspendedOnly
    NoStandstill
    NoCircularWait
PROPERTIES
    Terminates
