SPECIFICATION Spec
CONSTANTS
    Operations <- MCOperations
    MaxTurns = 1
    MaxFaults = 0
INVARIANTS
    CancelledByUser
CHECK_DEADLOCK FALSE
