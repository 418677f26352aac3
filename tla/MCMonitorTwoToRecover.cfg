SPECIFICATION Spec
CONSTANTS
    Configs <- MCTwoToRecover
    LegacyAlerts <- MCNoLegacyAlerts
    MaxStreak = 6
PROPERTY ClosesOnlyAfterRecovery
