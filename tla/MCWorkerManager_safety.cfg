SPECIFICATION Spec
CONSTANTS
    Bots = {b1}
    Slots = {s1, s2}
    Requests = {r1, r2}
    Acts <- AllRequests
    InitStatuses <- LeftStatuses
    MaxRequests = 2
    MaxFaults = 1
SYMMETRY Symmetry
INVARIANTS
    TypeOK
    
    RecordedDownIsDown
