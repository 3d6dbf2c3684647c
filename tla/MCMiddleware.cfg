CONSTANTS
    Statuses <- SomeStatuses
    NoBody <- Bodyless
    OK = 200
    Failed = 500
    Unsent = Unsent
    MaxWrites = 3
SPECIFICATION Spec
CHECK_DEADLOCK FALSE
INVARIANTS
    TypeOK
    Decodes
    LoggedAsSent
