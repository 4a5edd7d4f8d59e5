SPECIFICATION Spec
CONSTANTS
    MaxUpdates = 5
    MaxOpen = 2
    MaxEvents = 1
    Asked <- OneOfEach
    Patient = TRUE
CHECK_DEADLOCK FALSE
INVARIANTS
    TypeOK
    AnswersItsQuestion
    PermissionAtAnswer
PROPERTIES
    PatientRuleIsComplete
