SPECIFICATION FairSpec
CONSTANTS
    Users = {u1}
    Txns = {t1, t2}
    MaxPayments = 2
    Duration = 2
    MaxNow = 4
    MaxFaults = 1
INVARIANTS
    TypeOK
    
    NoEarlyExpiry
    SuspendedHasExpired
PROPERTIES
    PastDueExpires
