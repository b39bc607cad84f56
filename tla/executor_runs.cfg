SPECIFICATION FairSpec
CONSTANTS
    main = main
    sub = sub
    subsub = subsub
    edit = edit
    task = task
    consent = consent
    None = None
    Node <- MCNode
    Parent <- MCParent
    HasSession = {main}
    Call = {edit, task, consent}
    NodeOf <- MCNodeOf
    Parts <- MCParts
    Outside = {consent}
    Swallows = FALSE
    MaxClears = 1
INVARIANTS
    TypeOK
    MemoisedRootIsRoot
    NestedRunsAreInline
    TurnsInOrder
PROPERTIES
    RunIsAtomic
    EveryCallIsTold
CHECK_DEADLOCK FALSE
