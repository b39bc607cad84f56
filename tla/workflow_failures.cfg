SPECIFICATION Spec
CONSTANTS
    Task <- OneTask
    Call = {k1, k2}
    Gate <- OneGate
    ReportGate <- OneGate
    Feature <- Crashes
    MaxRuns = 2
    MaxMaximum = 2
    TaskRetries = 1
    CycleRetries = 1
CHECK_DEADLOCK FALSE
SYMMETRY Calls
INVARIANTS TypeOK DeadEditsDoNotBlock
PROPERTIES RunningCallKeepsItsOperation
