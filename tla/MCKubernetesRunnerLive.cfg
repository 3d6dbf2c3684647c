CONSTANTS
    r1 = r1
    r2 = r2
    r3 = r3
    Nil = Nil
    Requests <- Two
    Max = 2
    Attempts = 2
    Faults <- LiveFault
    MaxFaults = 2
SPECIFICATION FairSpec
CHECK_DEADLOCK FALSE
PROPERTIES
    EveryAnalysisReturns
    LeaksReclaimed
