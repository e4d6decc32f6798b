SPECIFICATION FairSpec
CONSTANTS
    t1 = t1
    t2 = t2
    th1 = th1
    every = every
    Null = Null
    Turn = {t1}
    Thread = {th1}
    Session = {th1}
    Series = {every}
    Attempt = {1}
    Input = {1}
    Ref = {1}
    Op = {"prepare", "submit"}
    Cause <- SystemCauses
    Clock = {}
    QueueLimit = 2
    Budget = 1
    Stoppable = {t1}
    Revocable = {}
    MaxCrash = 1
    threadOf <- Shared
    seriesOf <- Direct
PROPERTIES
    ClosuresArePublished
CHECK_DEADLOCK FALSE
