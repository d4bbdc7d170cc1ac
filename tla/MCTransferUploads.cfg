CONSTANTS
    a = a
    b = b
    d = d
    NoItem = NoItem
    Items = {a, d}
    Folders = {d}
    Below <- FolderOfA
    Chunked = {a}
    StartPaused = TRUE
    EarlyClicks = TRUE
    Ops = {"pause", "resume", "cancel_session", "cancel_upload", "suspend", "restart"}
    Faults = {"connection", "expired", "http404", "not_found", "missing", "forbidden", "credentials", "vanished"}
    MaxOps = 4
    MaxFaults = 2
SPECIFICATION Spec
INVARIANTS TypeOK CountedIsLinked
CHECK_DEADLOCK FALSE
