SPECIFICATION Spec
CONSTANTS
    p1 = p1
    p2 = p2
    p3 = p3
    None = None
    Participants <- Three
    MaxAttempts = 2
    MaxSessions = 2
    MaxFaults = 1
INVARIANTS
    Agreement
    KeyIsLast
    SuccessIsSigned
    AcksMeanBackups
    IInv
PROPERTIES
    OneKey
    SuccessSpreads
    Completes
CHECK_DEADLOCK FALSE
