SPECIFICATION Spec
CONSTANTS
    Document <- MCDocument
    Content <- MCContent
    FirstContent <- MCFirstContent
    Question <- MCQuestion
    RequestOf <- MCRequestOf
    Answers <- MCAnswers
    AutoApprove = FALSE
    MaxEdits = 1
    MaxRefusals = 1
    MaxAsked = 3
    PlanDocument <- MCPlanDocument
    Names <- MCNames
    Literals <- MCLiterals
    Contexts <- MCContexts
    Written <- MCWritten
    Tokens <- MCTokens
    MaxAstDepth = 8
    MaxSteps = 12
    MaxCallbacks = 2
    Schemas <- MCSchemas
    SchemaOf <- MCSchemaOf
    BrokenGuard <- MCBrokenGuard
    WildMasks <- MCWildMasks
    BadPatterns <- MCBadPatterns
    MaxNesting = 3
    Lines <- MCLines
    File <- MCFile
    PolicyStages <- MCPolicyStages
    Scopes <- MCScopes
    Worker = {1, 2}
    Calls = {1, 2}
    Asked <- MCAsked
    NamedPath <- MCNamedPath
    Path = {"a", "b"}
    Move = {"m1", "m2"}
    MaxCommits = 2
    MaxCalls = 3
    MaxOperatorSteps = 1
    GUARDS <- MCGUARDS
    SpamWords <- MCSpamWords
    Texts <- MCTexts
    ProfileId <- MCProfileId
    AgentName <- MCAgentName
    FirstProfiles <- MCFirstProfiles
    FirstTargets <- MCFirstTargets
    MaxSyncs = 2
    MaxTrouble = 2
    Session = {"s1"}
    FoundRules <- MCFoundRules
    Rule = {"r1", "r2"}
    MaxStores = 3
    Opened = {"s1", "s2"}
    Retries = 2
    MaxEvents = 3
    HostSession = {"root", "sub", "other"}
    ParentOf <- MCParentOf
    MaxPanelEvents = 4
    Libraries <- MCLibraries
    Wanted = {"", "s", "other"}
    ChangedFile <- MCChangedFile
    HostOffers <- MCHostOffers
    Closer = {1, 2}
    HostRequests <- MCHostRequests
    Injected <- MCInjected
    MaxHostEvents = 2
    MaxHostTroubles = 2
    Watched = {1}
    Viewer = {"page"}
    MaxRuns = 2
    MaxStoreSteps = 4
    MaxVisits = 1
    RuleFile = {"global.md", "project.md"}
    RuleDirs <- MCRuleDirs
    Loader = {1, 2}
    MaxFileSteps = 3
    Cycles <- MCCycles
    TaskPlans <- MCTaskPlans
    MaxTaskId = 2
    MaxTaskRuns = 2
    MaxWritten = 1
INVARIANTS FailuresAreReported
CHECK_DEADLOCK FALSE
