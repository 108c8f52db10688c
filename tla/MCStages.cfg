CONSTANTS
    Interval = 2
    StageInitBlock <- MCSameInitBlocks
    ExclusiveEndBlock = 7

SPECIFICATION FairSpec

INVARIANT TypeOK
INVARIANT DependenciesMet
INVARIANT SInv
PROPERTY UnitsOnlyAdvance
PROPERTY AllUnitsCompleted
