SPECIFICATION Spec
CONSTANTS
    o = o
    a1 = a1
    a2 = a2
    Owner = o
    Accounts <- ThreeAccounts
    Buttons <- ChangingButtons
    MaxOps = 3
    MaxOpen = 2
    MaxEvents = 1
SYMMETRY AccountSymmetry
INVARIANTS TypeOK EffectWasAllowed  
PROPERTY NoNewManager
CHECK_DEADLOCK FALSE
