SPECIFICATION MCSpec
CONSTANTS
    Contents = {1, 2, 3}
    Size <- MCSize
    None = None
    Unaccessible = Unaccessible
    Docs = {1, 2, 3}
    Rounds = 1
    Burst = 1
    MaxErrors = 3
    MaxStops = 1
    Others = {"edit", "trash"}
INVARIANTS
    PairKept
    NoTwin
PROPERTIES
    NothingUndone
    RestartSettles
CHECK_DEADLOCK FALSE
