SPECIFICATION Spec
CONSTANTS
    m1 = m1
    m2 = m2
    m3 = m3
    a = a
    b = b
    Coordinator = Coordinator
    Members <- Three
    Threshold = 2
    Messages <- TwoMessages
    Kinds <- TweakKinds
    Plan <- Taproot
    MaxNonces = 1
    MaxSessions = 2
    MaxFaults = 2
INVARIANTS
    SecnonceIsWiped
CHECK_DEADLOCK FALSE
