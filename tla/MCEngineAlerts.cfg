SPECIFICATION Spec
CONSTANTS
    Callers = {c1, c2}
    Configs <- MCDefaults
    CrashPoints = {}
    MaxRows = 3
    MaxCrashes = 0
INVARIANT OneOpenAlert
CHECK_DEADLOCK FALSE
