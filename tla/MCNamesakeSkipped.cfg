SPECIFICATION MCSpec
CONSTANTS
    None = None
    Versions = {1, 2, 3}
    Servers = {"a", "b"}
    Sites <- MCSites
    Channels = {"release", "beta", "centralized"}
    Broken = {3}
    MaxChanges = 2
    MaxFailures = 1
    Docs = {1, 2, 3}
    Title <- MCTitles
    Pieces = 2
    Workers = 2
    MaxHistory = 1
    MaxFolders = 4
    MaxClicks = 1
    MaxFaults = 0
PROPERTY OnlyCompleteSkipped
CHECK_DEADLOCK FALSE
