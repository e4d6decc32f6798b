\* A Worker's call and a person's command on one Thread, decided, executed and archived by two
\* concurrent callers, with up to two crashes, refused starts or losses of authority.
SPECIFICATION Spec
CONSTANTS
    Call = {k}
    Input = {}
    Command = {m}
    Caller = {c1, c2}
    PendingBound = 2
    DeliveryBound = 1
    MaxTurn = 2
    MaxFault = 2
SYMMETRY CallerSymmetry
\* A Thread with nothing open, no free Turn and no callers' work left may rest.
CHECK_DEADLOCK FALSE
INVARIANTS
    PendingTypeOK
    ExecutedOnce
    DeliveredOnce
    
PROPERTIES
    DecisionsAreFinal
