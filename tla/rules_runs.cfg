SPECIFICATION RulesSpec
CONSTANTS
    loop = loop
    tool = tool
    Handler = {loop, tool}
    Serves <- MCServes
    Snapshots <- MCSnapshots
    UserMessages <- MCUserMessages
    Prompts <- MCPrompts
    Mentioned = {{"src/g"}}
    Calls <- MCCalls
    ToolLists = {{}}
    Histories <- MCHistories
    MaxCalls = 1
    MaxDispatches = 1
    MaxInvalidations = 1
    MaxMishaps = 1
INVARIANT RulesReachTheModelOnce
PROPERTY TurnsForgetNothing
CHECK_DEADLOCK FALSE
