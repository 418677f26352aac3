SPECIFICATION Spec
CONSTANTS
    MaxEvents = 4
    MinBatch = 2
    Modes = {"poll"}
    FaultKinds <- MCModelWatchDown
    MaxAsked = 4
    MaxFaults = 1
INVARIANT EveryQuestionIsADatapoint
CHECK_DEADLOCK FALSE
