\* A call and a question compete for two Turns, each with room for one outcome, under one fault.
SPECIFICATION Spec
CONSTANTS
    Call = {k}
    Input = {i}
    Command = {}
    Caller = {c1}
    PendingBound = 2
    DeliveryBound = 1
    MaxTurn = 3
    MaxFault = 1
\* An archived Thread may rest.
CHECK_DEADLOCK FALSE
PROPERTIES
    ClaimedCallsEnd
    OutcomesAreAdmitted
