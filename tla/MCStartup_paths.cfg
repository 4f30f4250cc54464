SPECIFICATION Spec
CONSTANTS
    t1 = t1
    t2 = t2
    Threads <- Two
    DirectLoads = TRUE
    DefaultMethods = TRUE
INVARIANTS
    TypeOK
    LibraryFirst
    NoWaitingChain
PROPERTIES
    CallsEnd
    StartIsFinal
    ContextShared
CHECK_DEADLOCK FALSE
