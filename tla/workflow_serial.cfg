SPECIFICATION Spec
CONSTANTS
    Task <- TwoTasks
    Call = {k1}
    Gate <- OneGate
    ReportGate <- OneGate
    Feature <- Replanned
    MaxRuns = 2
    MaxMaximum = 2
    TaskRetries = 1
    CycleRetries = 1
CHECK_DEADLOCK FALSE
INVARIANTS OneOpenRun LoopIsLeftDone OpenRunsAreListed
