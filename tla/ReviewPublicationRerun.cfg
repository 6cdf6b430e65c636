SPECIFICATION Spec
CONSTANTS
    Files <- MCFiles
    Results <- MCResults
    MaxFindings = 2
    MaxRuns = 3
    MaxFaults = 0
PROPERTIES
    IdenticalRerunSkips
CHECK_DEADLOCK FALSE
