\* One task, every kind of call - two that wait for approval in one reply, one
\* whose arguments break its batch - and as many database errors as exhaust the
\* attempts of a message (both scaled down from three to two); and two users.
CONSTANTS
    free = free  gated = gated  gated2 = gated2  claimed = claimed
    banned = banned  ghost = ghost  dry = dry  odd = odd  r1 = r1
    Tasks = {t1}
    NoTask = NoTask
    Calls <- AllCalls
    Batches <- Replies
    NeedsApproval = {gated, gated2, claimed}
    Preapproved = {claimed}
    NotObject = {odd}
    Forbidden = {banned}
    Unknown = {ghost}
    DryRun = {dry}
    Requests = {r1, r2}
    MaxIterations = 3
    MaxAttempts = 2
    MaxFaults = 2
SPECIFICATION MCSpec
INVARIANTS NeverForgotten OneChain ContextComplete RunsAreAccounted
PROPERTIES Resolves AnnouncedIsSaved
\* Once every task is resolved or denied the workers wait for ever.
CHECK_DEADLOCK FALSE
