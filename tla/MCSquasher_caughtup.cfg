CONSTANTS
    a = a
    b = b
    NoModule = NoModule
    Modules <- MCModules
    ModuleInitialBlock <- MCModuleInitialBlock
    StoreSaveInterval = 2
    TargetExclusiveBlock = 8
    SubrequestSplit = 4
    MaxAttempts = 1

SPECIFICATION Spec

INVARIANT ReadyWhenCaughtUp
