SPECIFICATION Spec
CONSTANTS
    Configs <- MCTwoToPage
    LegacyAlerts <- MCNoLegacyAlerts
    MaxStreak = 6
PROPERTY OneAlertPerIncident
