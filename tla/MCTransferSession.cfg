CONSTANTS
    a = a
    b = b
    d = d
    NoItem = NoItem
    Items = {a, b, d}
    Folders = {d}
    Below <- FolderOfA
    Chunked = {a}
    StartPaused = FALSE
    EarlyClicks = FALSE
    Ops = {"pause", "resume", "cancel_session", "suspend"}
    Faults = {"connection", "expired", "http404", "exists", "forbidden", "credentials", "vanished"}
    MaxOps = 3
    MaxFaults = 1
SPECIFICATION FairSpec
INVARIANTS Accounting NothingForgotten
PROPERTIES ImplementsSession SessionFinishes
CHECK_DEADLOCK FALSE
