SPECIFICATION RecurringSpec
CONSTANTS
    MaxTime = 3
    LastInstant = 4
    Deadline = 2
    Interval = {1, 3}
    ScanLimit = 1
    MaxAttempt = 2
    MaxRevision = 4
    MaxFault = 1
INVARIANTS
    RecurringTypeOK
    ExactAccounting
    PendingIsCurrent
    OneWaitingOccurrence
PROPERTIES
    DecidedOnce
    InstantsSettle
CHECK_DEADLOCK FALSE
