CONSTANTS
    r1 = r1
    r2 = r2
    r3 = r3
    Nil = Nil
    Requests <- Three
    Max = 2
    Attempts = 2
    Faults <- AnyFault
    MaxFaults = 2
SYMMETRY Symmetry
SPECIFICATION Spec
CHECK_DEADLOCK FALSE
INVARIANTS
    TypeOK
    ReadinessNeverMissed
    OwnResults
    NoPodLeft
PROPERTY ImplementsRunner
