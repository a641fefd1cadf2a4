\* Two callers after the starter; two notifications exhaust the safety cap.
CONSTANTS
    Callers = {c1, c2}
    Starter = starter
    LineCap = 2
    MaxRequests = 4
    PipeLines = 3
SPECIFICATION FairSpec
INVARIANTS AnswersAccounted
PROPERTIES Released
\* When MaxRequests requests were made nothing is left to do.
CHECK_DEADLOCK FALSE
