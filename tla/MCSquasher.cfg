CONSTANTS
    a = a
    b = b
    NoModule = NoModule
    Modules <- MCModules
    ModuleInitialBlock <- MCModuleInitialBlock
    StoreSaveInterval = 2
    TargetExclusiveBlock = 7
    SubrequestSplit = 4
    MaxAttempts = 1

SPECIFICATION FairSpec

INVARIANT TypeOK
INVARIANT MergedContiguous
INVARIANT SnapshotExact
INVARIANT PendingLoadable
INVARIANT NoStaleHead
INVARIANT DInv
PROPERTY SquashCompletes

CHECK_DEADLOCK FALSE
