\* Two sessions, a cache of one, two recent messages, three messages in all.
SPECIFICATION ConversationSpec
CONSTANTS
    Sessions = {s1, s2}
    Writers = {w1}
    Loaders = {l1}
    None = None
    Postgres = TRUE
    MaxTurns = 2
    MaxMsg = 3
    MaxRows = 3
    MaxRecent = 2
    CacheSize = 1
    SummaryThreshold = 2
INVARIANTS Numbered LlmSeesTheEnd MessagesAccounted
PROPERTIES ForkKeepsPrefix
CHECK_DEADLOCK FALSE
