SPECIFICATION MCSpec
CONSTANTS
    None = None
    Uids = {1, 2}
    Users = {"ann", "bob"}
    Folders = {"a", "ab", "c"}
    Within <- Nested
    Alfresco = {2}
    AccountBudgets <- MCAccountBudgets
    Autolocks = {TRUE, FALSE}
    MaxErrors = 2
    Budgets <- MCBudgets
INVARIANTS
    AccountsKept
    EditsSent
PROPERTY KeepsOther
CHECK_DEADLOCK FALSE
