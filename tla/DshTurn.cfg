SPECIFICATION Spec
CONSTANTS
    Tools <- MCTools
    Groups <- MCGroups
    GroupOf <- MCGroupOf
    MaxCalls <- MCMaxCalls
    GroupMaxCalls <- MCGroupMaxCalls
    CallIds <- MCCallIds
    RuntimePackages = {"dsh"}
    Plugins = {"plugin"}
    Bundles = {"bundle"}
    ByCommit = {"bundle"}
    Requests <- MCRequests
    MaxEvents = 3
    MaxWriteFaults = 1
    MaxTurns = 2
INVARIANTS
    LimitsHold
    SuccessIsAudited
    FirstFailureTold
    NothingOutlives
    WorkerOnAuditedTree
PROPERTIES
    TurnsEnd
CHECK_DEADLOCK FALSE
