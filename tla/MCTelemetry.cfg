SPECIFICATION FairSpec
CONSTANTS
    MaxEvents = 3
    MinBatch = 2
    Modes = {"baseline", "once", "poll"}
    FaultKinds <- MCAnyFault
    MaxAsked = 5
    MaxFaults = 2
INVARIANTS
    TypeOK
    JudgedOnceInOrder
    LossesHaveCauses
    TracesGoFirst
PROPERTY BacklogDrains
CHECK_DEADLOCK FALSE
