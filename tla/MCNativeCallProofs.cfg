SPECIFICATION Spec
CONSTANTS
    Program <- AllPrograms
    Methods <- AllMethods
INVARIANTS
    IInv
    NoLeak
    NoDoubleFree
    BuffersLive
    OnlyInitialisedReads
    OnlyVettedBlobs
    ThrowLeavesArrays
    OneThrow
PROPERTIES
    CallsAreAtomic
