CONSTANTS
    a = a
    b = b
    NoModule = NoModule
    Modules <- MCModules
    ModuleInitialBlock <- MCModuleInitialBlock
    StoreSaveInterval = 2
    TargetExclusiveBlock = 7
    SubrequestSplit = 4
    MaxAttempts = 1
    MaxFaults = 2

SPECIFICATION FSpec

INVARIANT LivePendingLoadable


\* The request ends once every store is merged up to the target.
CHECK_DEADLOCK FALSE
