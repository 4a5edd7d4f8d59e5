SPECIFICATION Spec
CONSTANTS
    Members = {m1}
    NoOne = NoOne
    Enabled <- SomeHandlers
    Commands <- SomeCommands
    Fields = {"text", "chat"}
    MaxMessages = 3
    MaxOpen = 2
    MaxRules = 1
    MaxEvents = 1
INVARIANT ChatRuleActs
CHECK_DEADLOCK FALSE
