CONSTANTS
    Main = main
    k1 = k1
    k2 = k2
    k3 = k3
    g1 = g1
    Nobody = nobody
    Tasks = {k1, k2}
    Groups = {}
    HasValue = {}
    Fails = {}
    Workers = {w1}
    Code <- BlockingInTaskCode
SPECIFICATION FairSpec
PROPERTIES
    Terminates
CHECK_DEADLOCK FALSE
