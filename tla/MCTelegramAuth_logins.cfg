SPECIFICATION Spec
CONSTANTS
    u1 = u1
    u2 = u2
    Users <- TwoUsers
    MaxRequests = 5
    MaxOpen = 2
SYMMETRY UserSymmetry
INVARIANTS TypeOK StoredIsAuthorized WorkerUsesLastLogin OneAccount CleanCodeIsCurrent
CHECK_DEADLOCK FALSE
