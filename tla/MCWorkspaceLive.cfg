CONSTANTS
    r1 = r1
    r2 = r2
    r3 = r3
    data = data
    home = home
    Nil = Nil
    Requests <- Three
    Files <- TwoFiles
    Vitals = data
    Outputs <- NoVitals
    Faults <- LiveFault
    MaxFaults = 2
SPECIFICATION FairSpec
CHECK_DEADLOCK FALSE
PROPERTY DirReclaimed
