SPECIFICATION Spec
CONSTANTS
    People <- MCPeople
    AccountType <- MCAccountType
    Events <- MCEvents
    Inputs <- MCInputs
    Pulls <- MCPulls
    Configs <- MCConfigs
    MaxChanges = 2
    MaxFailures = 1
    MaxAttempts = 2
    Unread = Unread
    NoConfig = NoConfig
INVARIANTS
    GrantsAreTrusted
    FrozenContext
    AuditTellsWorker
CHECK_DEADLOCK FALSE
