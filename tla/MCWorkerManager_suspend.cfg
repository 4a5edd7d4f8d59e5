SPECIFICATION FairSpec
CONSTANTS
    Bots = {b1}
    Slots = {s1}
    Requests = {r1}
    Acts <- ExpireRequests
    InitStatuses <- OnlineStatuses
    MaxRequests = 1
    MaxFaults = 0
PROPERTIES
    SuspendedGoesDown
