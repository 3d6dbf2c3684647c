CONSTANTS
    r1 = r1
    r2 = r2
    r3 = r3
    Old = Old
    Nil = Nil
    Requests <- ThreeRequests
    Faults <- AnyFault
SYMMETRY Symmetry
SPECIFICATION Spec
CHECK_DEADLOCK FALSE
INVARIANTS
    TypeOK
    CacheCoherent
PROPERTIES
    TornReadMeansConcurrentDownload
