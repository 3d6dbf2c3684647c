CONSTANTS
    r1 = r1
    r2 = r2
    r3 = r3
    Old = Old
    Nil = Nil
    Requests <- ThreeRequests
    Faults <- AnyFault
SYMMETRY Symmetry
SPECIFICATION RecordedSpec
CHECK_DEADLOCK FALSE
PROPERTIES
    ServedCurrent
    ImplementsStore
