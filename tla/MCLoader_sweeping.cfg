SPECIFICATION SpecOnce
CONSTANTS
    j1 = j1
    j2 = j2
    JVMs <- TwoJVMs
    MaxLoads = 2
PROPERTIES
    LeftoversSwept
CHECK_DEADLOCK FALSE
