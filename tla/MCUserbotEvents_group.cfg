SPECIFICATION Spec
CONSTANTS
    Members = {m1}
    NoOne = NoOne
    Enabled <- SomeHandlers
    Commands <- SomeCommands
    Fields = {"text"}
    MaxMessages = 3
    MaxOpen = 2
    MaxRules = 1
    MaxEvents = 1
INVARIANTS TypeOK RightsAsAsked WarnsAreKept 
CHECK_DEADLOCK FALSE
