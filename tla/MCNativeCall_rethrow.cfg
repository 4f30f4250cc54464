SPECIFICATION Spec
CONSTANTS
    Program <- AllPrograms
    Methods <- AllMethods
INVARIANTS
    ThrowsWhenNonePending
