SPECIFICATION Spec
CONSTANTS
    Operations <- MCOperations
    MaxTurns = 2
    MaxFaults = 1
INVARIANTS
    CommentTellsOutcome
    LastWord
    OneComment
    WritesAreSilent
PROPERTIES
    NoProgressAfterTerminal
    RunEnds
CHECK_DEADLOCK FALSE
