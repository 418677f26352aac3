SPECIFICATION FairSpec
CONSTANTS
    Configs <- MCSound
    LegacyAlerts <- MCLegacyAlerts
    MaxStreak = 6
INVARIANTS
    TypeOK
    AlertAgreesWithHealth
PROPERTIES
    OneAlertPerIncident
    ImplementsIncident
    CleanTrafficClosesAlerts
