SPECIFICATION IdleCleanupSpec
CONSTANTS
    MaxFault = 2
INVARIANTS
    RemovedIsGone
    ContactedOnce
    ExclusionNeedsProof
    AcceptingIsUntouched
PROPERTIES
    CleanupContinues
    ResultsAreAcknowledged
