SPECIFICATION Spec
CONSTANTS
    Modules <- ThreeModules
    Limit = 2
    Items = {1, 2}
    MaxOps = 4
    MaxOpen = 2
    MaxEvents = 1
INVARIANTS TypeOK   ConfirmedIsSaved
CHECK_DEADLOCK FALSE
