CONSTANTS
    r1 = r1
    r2 = r2
    a = a
    b = b
    Nil = Nil
    Requests <- Two
    Ids <- TwoIds
    Max = 1
    Timeout = 2
    StartLimit = 1
    CopyLimit = 1
    Faults <- AnyFault
    MaxFaults = 2
SPECIFICATION FairSpec
CHECK_DEADLOCK FALSE
INVARIANTS
    TypeOK
    WithinSlots
    NeverSweepsActive
PROPERTIES
    EveryAnalysisReturns
    LeaksReclaimed
    ImplementsRunner
