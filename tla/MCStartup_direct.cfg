SPECIFICATION Spec
CONSTANTS
    t1 = t1
    t2 = t2
    Threads <- Two
    DirectLoads = TRUE
    DefaultMethods = TRUE
PROPERTIES
    LoadReturns
CHECK_DEADLOCK FALSE
