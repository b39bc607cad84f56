SPECIFICATION Spec
CONSTANTS
    Task <- OneTask
    Call = {k1}
    Gate <- OneGate
    ReportGate <- OneGate
    Feature <- NoFeature
    MaxRuns = 2
    MaxMaximum = 1
    TaskRetries = 1
    CycleRetries = 2
CHECK_DEADLOCK FALSE
PROPERTIES CyclesCountRejections
