SPECIFICATION SpecWrite
CONSTANTS
    Kinds = {"implement", "task", "automation", "fix"}
    Trees <- MCTrees
    MaxAttempts = 3
    FaultKinds = {"crash", "loss", "cancel", "failure"}
    MaxFaults = 2
    MaxDrift = 1
INVARIANTS
    FixIsItsOwn
    OnePull
    SuccessIsPublished
    RerunRecovers
PROPERTIES
    SuccessIsItsOwn
    RepeatIsQuiet
CHECK_DEADLOCK FALSE
