SPECIFICATION StoreSpec
CONSTANTS
    t1 = t1
    t2 = t2
    th = th
    every = every
    Null = Null
    Turn = {t1, t2}
    Thread = {th}
    Series = {every}
    Session = {s1}
    Input = {i1}
    Attempt = {a1, a2}
    Op = {o1}
    Cause = {c1}
    Ref = {r1}
    Clock = {0}
    QueueLimit = 2
    Budget = 1
    threadOf <- MCThreadOf
    seriesOf <- MCSeriesOf
SYMMETRY Identities
INVARIANTS
    StoreTypeOK
    AdmissionHoldsAttempt
    LiveAttemptsExclusive
    ClosedIsSettled
    SubmissionIsTraceable
PROPERTIES
    ClosedIsFinal
    FirstFactsSurvive
CHECK_DEADLOCK FALSE
