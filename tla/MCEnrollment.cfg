SPECIFICATION Spec
CONSTANTS
    Helpers = {0, 1, 2}
    Parameters <- Calls
    MaxParticipants = 4
    MaxRuns = 2
    MaxAgain = 1
    MaxNamed = 1
    MaxDamaged = 1
    MaxCrashes = 1
INVARIANTS
    TypeOK
    SharesAddUp
    BlameIsTrue
CHECK_DEADLOCK FALSE
