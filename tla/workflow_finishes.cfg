SPECIFICATION FairSpec
CONSTANTS
    Task <- OneTask
    Call = {k1, k2}
    Gate <- TwoGates
    ReportGate <- AnyGate
    Feature <- NoFeature
    MaxRuns = 2
    MaxMaximum = 2
    TaskRetries = 2
    CycleRetries = 1
CHECK_DEADLOCK FALSE
INVARIANT EndsAreRecorded
PROPERTIES StageVerdictBelongsToTheStage OperationsEnd FinishedIsArchived
