SPECIFICATION Spec
CONSTANTS
    Callers = {c1}
    Configs <- MCConfigs
    CrashPoints <- MCOutsideWindows
    MaxRows = 7
    MaxCrashes = 1
INVARIANT RunsJudgedByTheirVersion
PROPERTY ImplementsMonitor
CHECK_DEADLOCK FALSE
