SPECIFICATION Spec
CONSTANTS
    m1 = m1
    m2 = m2
    m3 = m3
    a = a
    b = b
    Coordinator = Coordinator
    Members <- Two
    Threshold = 2
    Messages <- OneMessage
    Kinds <- TweakKinds
    Plan <- Taproot
    MaxNonces = 2
    MaxSessions = 2
    MaxFaults = 3
INVARIANTS
    TypeOK
    KeyIsPlanned
PROPERTIES
    EnoughAgree
    Completes
CHECK_DEADLOCK FALSE
