SPECIFICATION Spec
CONSTANTS
    Values = {0, 1, 2, 3, 4, 5}
    MinSample = 3
    KsCritical <- MCKsCritical
    DefaultCritical = 184
    ZCritical = 384
    RagCritical = 184
    Bonferroni = TRUE
    RagMinEvents = 3
    TelemetryMinEvents = 2
    RefusalTolerance = 20
    CitationTolerance = 25
    LatencyMultiplier = 25
    FeatureFraction = 30
    SimilarityThreshold = 35
    NoEmbedding <- MCNoEmbedding
    MaxConsecutive = 4
    RefusalThreshold = 20
    AdapterNames = {"rag", "live_telemetry", "classifier", "llm"}
    Kinds <- MCKinds
    Baselines <- MCBaselines
    Features <- MCFeatures
    Confidences = {60, 100}
    Chains = {c1, c2}
    ScoreLists <- MCScoreLists
    Latencies <- MCLatencies
    DriftTypes <- MCDriftTypes
    Synthetic <- MCSynthetic
    Targets <- MCTargets
    MaxBatch = 4
    MaxCalls = 2
    MaxRetrievals = 2
    MaxTrials = 3
INVARIANTS
    TypeOK
    DriftIsReal
    DiagnosisNamesADriftedSignal
    EventsMatchTheirChain
    AblationOnlyLoses
    CalibrationMeetsItsTarget
