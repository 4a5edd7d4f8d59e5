SPECIFICATION FairSpec
CONSTANTS
    Bots = {b1}
    Slots = {s1}
    Requests = {r1}
    Acts <- NoRequests
    InitStatuses <- OnlineStatuses
    MaxRequests = 0
    MaxFaults = 0
PROPERTIES
    CrashIsRecovered
