SPECIFICATION Spec
CONSTANTS
    j1 = j1
    j2 = j2
    JVMs <- TwoJVMs
    MaxLoads = 2
INVARIANTS
    IInv
    LibraryKept
    ExitUnlocks
PROPERTIES
    DirectoryShared
CHECK_DEADLOCK FALSE
