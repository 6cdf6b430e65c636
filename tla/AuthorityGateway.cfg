SPECIFICATION Spec
CONSTANTS
    Calls <- MCCalls
    Tools <- MCTools
    ToolOf <- MCToolOf
    MaxCalls <- MCMaxCalls
    MaxTree = 2
INVARIANTS
    TypeOK
    FlushBehindValidation
    EffectsRecorded
CHECK_DEADLOCK FALSE
