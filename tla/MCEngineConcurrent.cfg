SPECIFICATION Spec
CONSTANTS
    Callers = {c1, c2}
    Configs <- MCDefaults
    CrashPoints <- MCAnywhere
    MaxRows = 5
    MaxCrashes = 1
SYMMETRY MCSymmetry
INVARIANTS
    TypeOK
    AlertsNameDriftedRuns
    StreaksAreBacked
    VersionsHaveBaselines
CHECK_DEADLOCK FALSE
