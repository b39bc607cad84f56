SPECIFICATION Spec
CONSTANTS
    Task <- OneTask
    Call = {k1, k2}
    Gate <- OneGate
    ReportGate <- OneGate
    Feature <- Expiring
    MaxRuns = 1
    MaxMaximum = 1
    TaskRetries = 1
    CycleRetries = 1
CHECK_DEADLOCK FALSE
PROPERTIES StageVerdictBelongsToTheStage
