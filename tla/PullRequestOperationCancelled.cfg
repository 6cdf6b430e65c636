SPECIFICATION SpecWrite
CONSTANTS
    Kinds = {"implement", "task"}
    Trees <- MCTrees
    MaxAttempts = 1
    FaultKinds = {"cancel"}
    MaxFaults = 1
    MaxDrift = 0
INVARIANTS
    CancelLeavesNoHalf
CHECK_DEADLOCK FALSE
