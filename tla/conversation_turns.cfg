\* Three messages of one session and a context of two turns.
SPECIFICATION ConversationSpec
CONSTANTS
    Sessions = {s1}
    Writers = {w1}
    Loaders = {l1}
    None = None
    Postgres = TRUE
    MaxTurns = 2
    MaxMsg = 3
    MaxRows = 3
    MaxRecent = 2
    CacheSize = 1
    SummaryThreshold = 2
INVARIANT LastTurns
CHECK_DEADLOCK FALSE
