\* Two repositories, two concurrent requests, a tracked and a new path, and a restart or a failure.
CONSTANTS
    Repos = {a, b}
    Paths = {p, q}
    Tracked = {p}
    Contents = {c0, c1}
    Original = c0
    Empty = empty
    None = none
    Requests = {r1, r2}
    Objects = {o1, o2, o3}
    MaxRequests = 4
    MaxMishaps = 1
SPECIFICATION FairSpec
INVARIANTS ReadYourWrites StateIsSound
PROPERTIES  LockReleased
CHECK_DEADLOCK FALSE
