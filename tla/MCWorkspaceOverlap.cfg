CONSTANTS
    r1 = r1
    r2 = r2
    r3 = r3
    data = data
    home = home
    Nil = Nil
    Requests <- Two
    Files <- TwoFiles
    Vitals = data
    Outputs <- Complete
    Faults <- NoFaults
    MaxFaults = 0
SPECIFICATION Spec
CHECK_DEADLOCK FALSE
PROPERTY ReportOfOneAnalysis
