\* A sub-agent or a command, a git tool, and a third call for the one MCP server.
SPECIFICATION FairSpec
CONSTANTS
    c1 = c1
    c2 = c2
    c3 = c3
    Calls <- MCCalls
    Resources = {blender}
    None = None
    Deployments <- MCDeployments
    AllowAnonLocal = TRUE
    MaxRounds = 1
    ToolsOf <- MCToolsOf
INVARIANTS OneCallPerResource ResultsAreReal
PROPERTIES LockGivenBack
CHECK_DEADLOCK FALSE
