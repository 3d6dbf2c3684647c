CONSTANTS
    r1 = r1
    r2 = r2
    r3 = r3
    Old = Old
    Nil = Nil
    Requests <- ThreeRequests
    Faults <- NoFaults
SYMMETRY Symmetry
SPECIFICATION Spec
CHECK_DEADLOCK FALSE
INVARIANT DeletedMeansGone
