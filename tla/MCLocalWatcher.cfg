SPECIFICATION MCSpec
CONSTANTS
    n1 = n1
    n2 = n2
    n3 = n3
    Nodes = {1, 2, 3, 4, 5}
    Docs = {1, 2, 3, 4, 5}
    Ids = {1, 2, 3, 4, 5, 6}
    FileNames = {n2, n3}
    FolderNames = {n1}
    Starts <- MCStarts
    UserDoes = {"create", "folder", "write", "move", "copy", "delete"}
    None = None
    Chunks = 3
    Limit = 1
    Versions = 2
    Budgets <- TransferBudgets
INVARIANTS
    Mirror
    TransfersKept
PROPERTY KeepsFiles
