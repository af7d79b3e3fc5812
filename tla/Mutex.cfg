SPECIFICATION FairSpec
CONSTANTS
    Core = {c1, c2}
    NoCore = NoCore
    Empty = Empty
    Size = 3
INVARIANTS MutualExclusion NoLostWakeup
PROPERTIES ImplementsLock SomebodyGetsIt
