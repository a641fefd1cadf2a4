\* Two requests, the health loop and a restart to spare; the bounds are those of
\* the widest scope, which MCStdioServers narrows.
CONSTANTS
    fs = fs
    fs_local = fs_local
    r1 = r1
    Names = {fs, fs_local}
    Covers <- MCCovers
    Requests = {r1, r2}
    Health = health
    Boot = boot
    MaxRestarts = 2
    MaxServers = 2
    MaxProcesses = 3
    MaxBoots = 2
    MaxCancels = 1
SPECIFICATION MCSpec
INVARIANTS ServersAccounted WantedIsSaved
PROPERTIES Recovers
CHECK_DEADLOCK FALSE
