SPECIFICATION FairSpec
CONSTANTS
    once = once
    daily = daily
    Tasks <- TwoTasks
    Period <- TwoPeriods
    Limit = 1
    MaxNow = 2
    MaxFailed = 1
    MaxLost = 1
INVARIANTS
    TypeOK
    
PROPERTIES
    ImplementsDispatch
    NoEarlyRepeat
    DueIsTaken
    PushedIsExecuted
