SPECIFICATION FairSpec
CONSTANTS
    NumJobs = 3
    MaxWorkers = 2
    MaxJobs = 2
    MaxRestarts = 1
INVARIANTS
    TypeOK
    AnswersAreComplete
    LostOnlyBeyondLimit
PROPERTIES
    EveryClientIsAnswered
    EveryJobEnds
CHECK_DEADLOCK FALSE
