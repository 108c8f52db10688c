CONSTANTS
    Interval = 2
    StageInitBlock <- MCLaterStage
    ExclusiveEndBlock = 7

SPECIFICATION Spec

INVARIANT DependenciesMet
