SPECIFICATION FairSpecRun
CONSTANTS
    Calls <- MCCalls
    Tools <- MCTools
    ToolOf <- MCToolOf
    MaxCalls <- MCMaxCalls
    Failures <- MCFailures
    MaxTree = 2
    MaxTurns = 3
INVARIANTS
    PartialWriteTold
    SuccessIsComplete
    BlockedLeavesNothing
    WrittenOnce
PROPERTIES
    AppliedOnce
    
    EffectsBehindWrite
    Terminates
CHECK_DEADLOCK FALSE
