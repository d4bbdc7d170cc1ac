SPECIFICATION MCSpec
CONSTANTS
    None = None
    Versions = {1, 2, 3}
    Servers = {"a", "b"}
    Sites <- MCSites
    Channels = {"release", "beta", "centralized"}
    Broken = {3}
    MaxChanges = 2
    MaxFailures = 1
    Docs = {1, 2, 3}
    Title <- MCTitles
    Pieces = 2
    Workers = 2
    MaxHistory = 1
    MaxFolders = 4
    MaxClicks = 3
    MaxFaults = 1
INVARIANTS
    Completed
    Suitable
    Checks
PROPERTY Settles
CHECK_DEADLOCK FALSE
