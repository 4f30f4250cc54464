SPECIFICATION Spec
CONSTANTS
    j1 = j1
    j2 = j2
    JVMs <- TwoJVMs
    MaxLoads = 1
PROPERTIES
    OldLibrariesDeleted
CHECK_DEADLOCK FALSE
