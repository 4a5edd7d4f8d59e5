SPECIFICATION FairSpec
CONSTANTS
    Bots = {b1}
    Slots = {s1}
    Requests = {r1}
    Acts <- AllRequests
    InitStatuses <- LeftStatuses
    MaxRequests = 1
    MaxFaults = 1
PROPERTIES
    SupervisorReturns
    UnwantedGoesDown
    
    StopTakesDown
