SPECIFICATION TurnJournalSpec
CONSTANTS
    Call = {1}
    MaxCrash = 1
INVARIANTS
    TurnJournalTypeOK
    ExclusionHeld
    OutcomesAreTrue
    ClosedIsProved
PROPERTIES
    JournalAdvances
    ResultsAreRecorded
CHECK_DEADLOCK FALSE
