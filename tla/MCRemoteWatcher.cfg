SPECIFICATION Spec
CONSTANTS
    A = A
    B = B
    leaf = leaf
    Items = {A, B, leaf}
    Folders = {A, B}
    Root = Root
    None = None
    Starts <- MCStarts
    Ops = {"created", "moved", "deleted", "restored"}
INVARIANTS
    Mirror
CHECK_DEADLOCK FALSE
PROPERTIES
    StaysHere
    Settles
