CONSTANTS
    r1 = r1
    r2 = r2
    r3 = r3
    data = data
    home = home
    Nil = Nil
    Requests <- Two
    Files <- TwoFiles
    Vitals = data
    Outputs <- Partial
    Faults <- AnyFault
    MaxFaults = 1
SYMMETRY Symmetry
SPECIFICATION Spec
CHECK_DEADLOCK FALSE
INVARIANTS
    TypeOK
    TempZipRemoved
PROPERTY StoresOwnReport
