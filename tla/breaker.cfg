\* SANDBOX_CIRCUIT_BREAKER (failure 5, success 3, half-open 3): the success
\* threshold is exactly what HALF_OPEN admits.
CONSTANTS
    Callers = {c1, c2, c3}
    FailureThreshold = 5
    SuccessThreshold = 3
    HalfOpenMaxCalls = 3
    CountCap = 5
SPECIFICATION FairSpec
INVARIANTS BreakerTypeOK ClosedBelowThreshold HalfOpenAdmits
PROPERTIES ClosesAfterProbes Recovers
