CONSTANTS
    a = a
    b = b
    NoModule = NoModule
    Modules <- MCModules
    ModuleInitialBlock <- MCModuleInitialBlock
    StoreSaveInterval = 2
    TargetExclusiveBlock = 7
    SubrequestSplit = 4
    MaxAttempts = 2

SPECIFICATION Spec

INVARIANT NoStaleHead
