SPECIFICATION FairSpec
CONSTANTS
    Values <- MCValues
    Target <- MCTarget
    MaxDrift = 2
    HookReplacesSignal = TRUE
INVARIANTS
    TypeOK
    DenialTrueWhenGiven
    ConfirmedMeansApplied
PROPERTIES
    Reports
    TruthfulReceipt
CHECK_DEADLOCK FALSE
