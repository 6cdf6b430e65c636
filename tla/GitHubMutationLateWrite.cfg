SPECIFICATION Spec
CONSTANTS
    Values <- MCValues
    Target <- MCTarget
    MaxDrift = 2
    HookReplacesSignal = TRUE
INVARIANTS
    DenialStaysTrue
CHECK_DEADLOCK FALSE
