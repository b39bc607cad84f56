SPECIFICATION Spec
CONSTANTS
    Task <- OneTask
    Call = {k1, k2}
    Gate <- OneGate
    ReportGate <- OneGate
    Feature <- Controlled
    MaxRuns = 1
    MaxMaximum = 2
    TaskRetries = 1
    CycleRetries = 1
CHECK_DEADLOCK FALSE
SYMMETRY Calls
PROPERTIES VerdictBelongsToItsRound StoppedTaskStaysStopped
