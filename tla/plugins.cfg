\* Two plugins may be made, so that one may replace another; four calls, so that two fail, one is late and one is new.
SPECIFICATION Spec
CONSTANTS
    t1 = t1
    t2 = t2
    Tenants <- MCTenants
    Names <- MCNames
    MaxCalls = 4
    None = None
    Builtins <- MCBuiltins
    StdioNames <- MCStdioNames
    Servers <- MCServers
    Covered <- MCCovered
    Minute = 1
    MaxRegistrations = 1
    MaxExecutions = 2
    Threshold = 2
    MaxPlugins = 2
    MaxTime = 3
    Scopes <- MCScopes
INVARIANTS RegistryAgrees CountersAgree
PROPERTIES CircuitHolds
CHECK_DEADLOCK FALSE
