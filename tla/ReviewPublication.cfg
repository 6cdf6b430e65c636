SPECIFICATION Spec
CONSTANTS
    Files <- MCFiles
    Results <- MCResults
    MaxFindings = 2
    MaxRuns = 3
    MaxFaults = 2
INVARIANTS
    InlineOnItsLine
    EveryFindingTold
    OneThread
CHECK_DEADLOCK FALSE
