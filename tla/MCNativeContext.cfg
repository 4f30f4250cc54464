SPECIFICATION Spec
CONSTANTS
    t1 = t1
    t2 = t2
    t3 = t3
    Threads <- Three
    MaxContexts = 2
INVARIANTS
    TypeOK
    ExclusiveSetup
PROPERTIES
    OnlySuccessIsFinal
    CallsEnd
    ContextShared
